SPECIFICATION Spec
CONSTANTS
  Procs = {p1, p2}
  Dests = {d1}
  Payloads = {x1, x2}
  Partial = Partial
  Foreign = Foreign
  Empty = Empty
  None = None
  Dead = Dead
  Faults = {"crash", "io", "vault", "cancel", "user"}
INVARIANTS ExposedIsOwned ReceiptIsTrue AnswerIsTrue
PROPERTIES KeepsContract
SYMMETRY Symmetry
