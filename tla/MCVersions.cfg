\* No fault at all: edits race with the generate task's flush.
SPECIFICATION Spec
CONSTANTS
  k1 = k1
  k2 = k2
  GenJob = gen
  NoJob = NoJob
  NoKey = NoKey
  Workers = {w1, w2}
  Keys = {k1}
  RegenJobs = {r1}
  Plans <- OnePlan
  Faults = {}
  MaxFaults = 0
  MaxVersion = 2
PROPERTIES VersionNeverDecreases
CHECK_DEADLOCK FALSE
