CONSTANTS
  TaskID = {t1, t2}
  WorkerID = {w1}
  NoWorker = NoWorker
  SchedulerID = {s1}
  Key = {}
  NoKey = NoKey
  HBTimeout = 1
  TTL = 1
  MaxMsgs = 3
  MinIdle = 1
  ClaimCount = 1
  ReadCount = 2
  MaxFaults = 0
  BatchSize = 2
  HBInterval = 1
  ChanCap = 1
  BackoffBase = 1
  BackoffMax = 1
  Width = 16
  MaxRun = 0
  Prompt = FALSE
  Operated = {t1, t2}
  Cmds <- PlainCmds
SPECIFICATION RetentionSpec
SYMMETRY Symm
CHECK_DEADLOCK FALSE
INVARIANTS
  DeclaredDepsRespected
