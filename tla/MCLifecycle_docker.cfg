SPECIFICATION LiveSpec
CONSTANTS
  Actors = {a, b}
  NoActor = NoActor
  Kinds = {"install", "reinstall", "stop", "uninstall", "adopt"}
  Faults = {"docker"}
  Creds = {c, d}
  Missing = Missing
  Plain = Plain
  Ports = {p}
  Template = TRUE
  Volume = FALSE
  MultiService = FALSE
INVARIANTS NeverStuck CredentialsOpenData
PROPERTIES OperationEnds
