SPECIFICATION Spec
CONSTANTS
  Procs = {p, q}
  Stuck = {}
  a = a  b = b  r1 = r1  r2 = r2
  AppIds = {a, b}
  Records = {r1, r2}
  Refused = {}
  Absent = Absent
  NoFile = NoFile
  NoProc = NoProc
  V1 = "legacy"
  V1Apps <- OneApp
  DirAtStart = FALSE
PROPERTIES Implements
