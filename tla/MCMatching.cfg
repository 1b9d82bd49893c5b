\* Two sweeps on two workers, two dashboard requests, two faults.
SPECIFICATION Spec
CONSTANTS
  NoGrant = NoGrant
  Grants = {g1, g2}
  Users = {u1, u2}
  Scanners = {w1, w2}
  Readers = {d1}
  Production = FALSE
  MaxScans = 2
  MaxFaults = 2
SYMMETRY Symmetry
INVARIANTS TypeOK AlertedOnce StoredIsAlerted
\* The schedule ends after MaxScans sweeps, the dashboard goes on.
