\* Two admin workers advance two items of one order at once.
SPECIFICATION Spec
CONSTANTS
  o1 = o1  o2 = o2  i1 = i1  i2 = i2  i3 = i3  w1 = w1  w2 = w2
  Order = {o1}
  Item = {i1, i2}
  OrderOf <- MCOrderOf
  Worker = {w1, w2}
  MaxRequests = 2
INVARIANT RollupExact
CHECK_DEADLOCK FALSE
