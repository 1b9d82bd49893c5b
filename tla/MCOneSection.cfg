\* One section, two regeneration requests, two edits and two faults of any kind.
SPECIFICATION Spec
CONSTANTS
  k1 = k1
  k2 = k2
  GenJob = gen
  NoJob = NoJob
  NoKey = NoKey
  Workers = {w1, w2}
  Keys = {k1}
  RegenJobs = {r1, r2}
  Plans <- OnePlan
  Faults = {"workerCrash", "redelivery", "hardTimeLimit", "apiCrash"}
  MaxFaults = 2
  MaxVersion = 2
SYMMETRY Symmetry
INVARIANTS TypeOK RegenerationAppliedOnce LiveRequestInHand UntouchedIsOwned
PROPERTIES RegenerationKeepsLaterEdits RegenerationProtocol
\* Everything settles in the end: users and faults have stopped.
CHECK_DEADLOCK FALSE
