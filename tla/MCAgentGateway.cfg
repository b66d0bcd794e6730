SPECIFICATION Spec
CONSTANTS
  Clients = {c, d}
  Apps = {memos}
  MaxGens = 2
  Owners = {launcher, cli}
  NoOwner = NoOwner
  Kinds = {"enroll", "begin", "rotate", "cancel", "revoke", "grant", "files", "withdraw"}
  MaxPending = 1
INVARIANTS FilesAreForThisEnrolment
PROPERTIES Implements
