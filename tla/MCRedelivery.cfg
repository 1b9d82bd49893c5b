\* A crashed worker's message is delivered again.
SPECIFICATION Spec
CONSTANTS
  k1 = k1
  k2 = k2
  GenJob = gen
  NoJob = NoJob
  NoKey = NoKey
  Workers = {w1, w2}
  Keys = {k1}
  RegenJobs = {r1}
  Plans <- OnePlan
  Faults = {"workerCrash"}
  MaxFaults = 1
  MaxVersion = 2
INVARIANTS GenerationIdempotent
CHECK_DEADLOCK FALSE
