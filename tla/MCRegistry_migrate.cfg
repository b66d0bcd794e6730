SPECIFICATION LiveSpec
CONSTANTS
  Procs = {p, q}
  Stuck = {q}
  a = a  b = b  r1 = r1  r2 = r2
  AppIds = {a, b}
  Records = {r1, r2}
  Refused = {r2}
  Absent = Absent
  NoFile = NoFile
  NoProc = NoProc
  V1 = "primary"
  V1Apps <- OneApp
  DirAtStart = TRUE
INVARIANTS LockedReadIsCurrent LockedLoadNeverRefused
PROPERTIES Implements CallReturns
