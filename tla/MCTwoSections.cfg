\* Two sections, an extraction that may answer differently after a redelivery.
SPECIFICATION Spec
CONSTANTS
  k1 = k1
  k2 = k2
  GenJob = gen
  NoJob = NoJob
  NoKey = NoKey
  Workers = {w1, w2}
  Keys = {k1, k2}
  RegenJobs = {r1}
  Plans <- AnyPlan
  Faults = {"workerCrash", "redelivery", "hardTimeLimit", "apiCrash"}
  MaxFaults = 1
  MaxVersion = 1
SYMMETRY Symmetry
INVARIANTS
  UnfinishedProposalInHand CompletedOwnsNoLeftovers
  GeneratedOncePerDelivery
\* Everything settles in the end: users and faults have stopped.
CHECK_DEADLOCK FALSE
