\* A sweep in production whose search finds nothing.
SPECIFICATION Spec
CONSTANTS
  NoGrant = NoGrant
  Grants = {g1}
  Users = {u1}
  Scanners = {w1}
  Readers = {d1}
  Production = TRUE
  MaxScans = 1
  MaxFaults = 0
INVARIANTS NoFabricatedScore
