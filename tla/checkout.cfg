\* Both gateways: overlapping checkouts, crashes, repeated deliveries.
SPECIFICATION Spec
CONSTANTS
  b1 = b1  c1 = c1  c2 = c2  v1 = v1  w1 = w1  w2 = w2
  Browser = {b1}
  Cart = {c1, c2}
  Variant = {v1}
  Worker = {w1, w2}
  Gateways = {"stub", "stripe"}
  OnHand = 2
  MAX_QTY = 2
  MaxOrders = 2
SYMMETRY Symmetry
INVARIANTS
  TypeOK
  ConvertedForGood
  CartIsNotLost
  PaidWasCharged
  ReservedForPaid
  ChargeIsNotForgotten
CHECK_DEADLOCK FALSE
