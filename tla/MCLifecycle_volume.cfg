SPECIFICATION Spec
CONSTANTS
  Actors = {a, b}
  NoActor = NoActor
  Kinds = {"install", "uninstall", "stop"}
  Faults = {"docker"}
  Creds = {c, d}
  Missing = Missing
  Plain = Plain
  Ports = {p}
  Template = TRUE
  Volume = TRUE
  MultiService = FALSE
SYMMETRY Symmetry
INVARIANTS CredentialsOpenData
