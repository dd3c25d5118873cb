\* Two tabs of one cart, the admin panel and a database that comes and goes.
SPECIFICATION PageSpec
CONSTANTS
  p1 = p1  p2 = p2  p3 = p3  r1 = r1  r2 = r2
  Product = {p1, p2, p3}
  Fallback = {p1, p2, p3}
  CartRequest = {r1, r2}
  MaxId = 3
INVARIANTS PageTypeOK PositionsHold AddSeesArchive
SYMMETRY Symmetry
CHECK_DEADLOCK FALSE
