SPECIFICATION Spec
CONSTANTS
  Procs = {p1, p2}
  Dests = {d1}
  None = None
  NoCount = NoCount
  Stems <- MCStems
  Fold <- MCFold
  Unportable = {}
  Results <- MCResults
  Faults = {"crash", "io", "cancel", "interrupt"}
  MaxChanges = 1
  NewBody = "x"
INVARIANTS StagingIsAccountedFor DeliveredIsThePublishedData AcceptedBundleIsIntact
PROPERTIES KeepsDelivery
SYMMETRY Symmetry
CHECK_DEADLOCK FALSE
