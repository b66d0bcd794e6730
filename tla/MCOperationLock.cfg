SPECIFICATION LiveSpec
CONSTANTS
  launcher = launcher  cli = cli  t1 = t1  t2 = t2  t3 = t3
  Apps = {memos, gitea}
  Procs = {launcher, cli}
  Threads = {t1, t2, t3}
  NoThread = NoThread
  ProcOf <- Where
  MaxOps = 2
INVARIANTS OneOperationPerApp TableIsTrue CancelIsAimed
PROPERTIES Implements AppIsFreed
