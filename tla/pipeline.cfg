\* Two loaders, redelivered events, clocks believed or not, a short stream,
\* failures.
SPECIFICATION FairSpec
CONSTANTS
  e1 = e1  e2 = e2  l1 = l1  l2 = l2
  Event = {e1, e2}
  Poison = {e2}
  Loader = {l1, l2}
  Batch = 2
  MaxLen = 3
  MaxSends = 2
INVARIANTS TypeOK AckedWereStored
PROPERTY EntriesAreDelivered
CHECK_DEADLOCK FALSE
