SPECIFICATION Spec
CONSTANTS
  Procs = {p1}
  Dests = {d1}
  None = None
  NoCount = NoCount
  Stems <- MCStems
  Fold <- MCFold
  Unportable = {}
  Results <- MCResults
  Faults = {}
  MaxChanges = 0
  NewBody = "x"
INVARIANTS BundleIsPortable
CHECK_DEADLOCK FALSE
