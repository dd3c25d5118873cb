\* Two admin workers on the board: row locks, deadlocks and crashes.
SPECIFICATION FairSpec
CONSTANTS
  o1 = o1  o2 = o2  i1 = i1  i2 = i2  i3 = i3  w1 = w1  w2 = w2
  Order = {o1}
  Item = {i1, i2}
  OrderOf <- MCOrderOf
  Worker = {w1, w2}
  MaxRequests = 3
INVARIANTS TypeOK RollupExactAlone
PROPERTIES LegalMoves RequestsEnd
CHECK_DEADLOCK FALSE
