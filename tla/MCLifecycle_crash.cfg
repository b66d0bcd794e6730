SPECIFICATION Spec
CONSTANTS
  Actors = {a, b}
  NoActor = NoActor
  Kinds = {"install", "reinstall", "uninstall", "discard", "adopt", "connect", "remove"}
  Faults = {"crash"}
  Creds = {c}
  Missing = Missing
  Plain = Plain
  Ports = {p}
  Template = FALSE
  Volume = TRUE
  MultiService = FALSE
SYMMETRY Symmetry
INVARIANTS HolderWorks
PROPERTIES KeptDataSurvives
