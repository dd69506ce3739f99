SPECIFICATION FairSpec
CONSTANTS
  Members <- MCMembers
  Occurrences <- MCOccurrences
  TextRank <- MCTextRank
  MaxRuns = 2
  Faults <- EveryFault
  None = None
INVARIANTS Inv KernelIsExact CapacityFailureIsReal
PROPERTIES EventuallyMapped
CHECK_DEADLOCK FALSE
