CONSTANTS
  N = 3
  WorkerCounts = {1, 2}
  Faults <- EveryFault
  None = None
SPECIFICATION FairSpec
INVARIANTS NoWorkerOutlives CauseIsReported WholeOrNothing
PROPERTIES PassEnds
