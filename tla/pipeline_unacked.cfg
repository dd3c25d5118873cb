\* One loader that fails once.
SPECIFICATION FairSpec
CONSTANTS
  e1 = e1  e2 = e2  l1 = l1  l2 = l2
  Event = {e1}
  Poison = {}
  Loader = {l1}
  Batch = 2
  MaxLen = 3
  MaxSends = 2
PROPERTY UnackedIsRetried
CHECK_DEADLOCK FALSE
