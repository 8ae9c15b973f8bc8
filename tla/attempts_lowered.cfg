CONSTANTS
  TaskID = {t1}
  WorkerID = {w1, w2}
  NoWorker = NoWorker
  SchedulerID = {s1}
  Key = {}
  NoKey = NoKey
  HBTimeout = 1
  TTL = 0
  MaxMsgs = 4
  MinIdle = 1
  ClaimCount = 1
  ReadCount = 2
  MaxFaults = 0
  BatchSize = 2
  HBInterval = 1
  ChanCap = 1
  BackoffBase = 1
  BackoffMax = 1
  Width = 16
  MaxRun = 0
  Prompt = FALSE
  Operated = {}
  Cmds <- ThreeAttempts
SPECIFICATION Spec
SYMMETRY Symm
CHECK_DEADLOCK FALSE
PROPERTIES
  AttemptsNeverLowered
