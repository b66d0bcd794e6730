SPECIFICATION Spec
CONSTANTS
  Actors = {a, b}
  NoActor = NoActor
  Kinds = {"install", "reinstall", "start", "stop", "uninstall", "discard", "adopt", "connect", "remove"}
  Faults = {"docker", "files", "registry"}
  Creds = {c}
  Missing = Missing
  Plain = Plain
  Ports = {p, q}
  Template = TRUE
  Volume = TRUE
  MultiService = FALSE
SYMMETRY Symmetry
INVARIANTS RunningAppUntouched UnsavedRunsAreRecoverable
PROPERTIES SavedWhenReady FailureIsUndone
