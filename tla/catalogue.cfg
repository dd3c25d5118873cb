\* Two imports at once, single edits, archiving, and an order being priced.
SPECIFICATION Spec
CONSTANTS
  v1 = v1  v2 = v2  typo = typo  s1 = s1  s2 = s2
  Blank = Blank  Text = Text
  Variant = {v1, v2}
  Staff = {s1, s2}
  Request = {r1}
  Family <- MCFamily
  Files <- MCFiles
  Sold <- MCSold
  MaxPrice = 2
INVARIANTS TypeOK OrderIsPriced
PROPERTY PricesChangeAtOnce
SYMMETRY StaffSymmetry
