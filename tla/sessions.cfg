\* Two requests of possibly one cookie, role and password changes, revocation.
SPECIFICATION Spec
CONSTANTS
  u1 = u1  u2 = u2  s1 = s1  s2 = s2  r1 = r1  r2 = r2  Nobody = Nobody
  Users = {u1, u2}
  Sids = {s1, s2}
  Requests = {r1, r2}
  FirstOwner = u1
  MaxChanges <- Changes
  Roles = {"owner", "fulfilment"}
INVARIANTS SecondFactor SignedOutStaysOut
PROPERTY RevocationIsInstant
SYMMETRY Symmetry
