\* Progress under the fairness of the API process and the workers.
SPECIFICATION FairSpec
CONSTANTS
  k1 = k1
  k2 = k2
  GenJob = gen
  NoJob = NoJob
  NoKey = NoKey
  Workers = {w1, w2}
  Keys = {k1}
  RegenJobs = {r1}
  Plans <- OnePlan
  Faults = {"workerCrash", "redelivery", "hardTimeLimit", "apiCrash"}
  MaxFaults = 1
  MaxVersion = 2
PROPERTIES ProposalSettles RequestSettles
\* Everything settles in the end: users and faults have stopped.
CHECK_DEADLOCK FALSE
