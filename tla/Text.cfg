SPECIFICATION FairSpec
CONSTANTS
  Base = 2
  Occurrences <- MCOccurrences
  TextRank <- MCTextRank
  MaxRuns = 2
  Faults <- EveryFault
  None = None
INVARIANTS MappingIsUsable SearchIsExact RetryStaysFeasible
PROPERTIES RunEnds
CHECK_DEADLOCK FALSE
