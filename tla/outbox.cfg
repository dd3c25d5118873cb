\* Two relays at once (a worker and its replacement), crashes, late commits.
SPECIFICATION FairSpec
CONSTANTS
  r1 = r1  r2 = r2
  Relay = {r1, r2}
  Limit = 2
  MaxRows = 4
INVARIANTS TypeOK PublishedIffRelayed CausalOrder
PROPERTY EveryFactArrives
CHECK_DEADLOCK FALSE
