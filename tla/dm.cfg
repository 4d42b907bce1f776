SPECIFICATION FairSpec
CONSTANTS
  c1 = c1
  c2 = c2
  Callers = {c1, c2}
  NoOne = NoOne
  CacheMax = 2
  QueueMax = 2
  MaxId = 3
INVARIANTS DmTypeOK OneEvent CacheBounded
PROPERTY Answered
