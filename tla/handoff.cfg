CONSTANTS
  TaskID = {t1}
  WorkerID = {w1, w2}
  NoWorker = NoWorker
  SchedulerID = {s1}
  Key = {}
  NoKey = NoKey
  HBTimeout = 1
  TTL = 1
  MaxMsgs = 2
  MinIdle = 1
  ClaimCount = 1
  ReadCount = 2
  MaxFaults = 2
  BatchSize = 2
  HBInterval = 1
  ChanCap = 1
  BackoffBase = 2
  BackoffMax = 1
  Width = 3
  MaxRun = 0
  Prompt = FALSE
  Operated = {t1}
  Cmds <- PlainCmds
SPECIFICATION Spec
SYMMETRY Symm
CHECK_DEADLOCK FALSE
INVARIANTS
  TypeOK
  NoSilentLoss
PROPERTIES
  FinalIsFinal
