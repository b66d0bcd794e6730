SPECIFICATION Spec
CONSTANTS
  Clients = {c}
  Apps = {memos}
  MaxGens = 3
  Owners = {launcher, cli}
  NoOwner = NoOwner
  Kinds = {"begin", "rotate", "cancel"}
  MaxPending = 2
SYMMETRY Symmetry
INVARIANTS CancelIsExact
