\* The two admin workers of deploy/docker-compose.yml, whose requests overlap.
SPECIFICATION Spec
CONSTANTS
  o1 = o1
  i1 = i1  i2 = i2
  c1 = c1  c2 = c2
  w1 = w1  w2 = w2
  NoItem = NoItem
  Order = {o1}
  Item = {i1, i2}
  Component = {c1, c2}
  Worker = {w1, w2}
  Opening <- MCOpening
  Lines <- MCLines
  Need <- MCNeed
  Qty <- MCQty
  Total <- MCTotal
  Amount = {1}
  Delta <- MCDelta
  MaxRequests = 3
SYMMETRY WorkerSymmetry
INVARIANTS
  TypeOK
  NoDrift
  PaidIsReserved
  ReservedOnceUnlessRefunded
  EventsMatchBooks
  RefundStatusHonest
  ConsumedOnceUnlessRaced
  OutOnceUnlessRaced
PROPERTY StoreDiscipline
