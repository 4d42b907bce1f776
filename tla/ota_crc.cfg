SPECIFICATION Spec
CONSTANTS
  full = full
  patch = patch
  Images = {full}
  Diffs = {}
  ImgLen <- MCEvenLen
  PartLen = 6
  CacheSize = 2
  BlockSize = 2
  RetryCnt = 3
  Blank = Blank
  NoImage = NoImage
INVARIANT BootCrc
