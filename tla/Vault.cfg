SPECIFICATION Spec
CONSTANTS
  Procs = {p1, p2}
  Files = {f1, f2}
  Identities = {i1, i2}
  None = None
  Faults = {"crash", "fail", "ambiguous", "interrupt", "operator"}
INVARIANTS AcceptedIsAuthentic AcceptedIsAttached FailureLeavesNothing
SYMMETRY Symmetry
