SPECIFICATION FairSpec
CONSTANTS
  full = full
  patch = patch
  Images = {full, patch}
  Diffs = {patch}
  ImgLen <- MCLen
  PartLen = 6
  CacheSize = 2
  BlockSize = 2
  RetryCnt = 3
  Blank = Blank
  NoImage = NoImage
INVARIANTS OtaTypeOK ReadyImageIntact ResumesInPlace CacheHeldInUse
PROPERTIES ServiceEnds
