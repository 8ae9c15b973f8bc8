CONSTANTS
  TaskID = {t1, t2}
  WorkerID = {w1, w2}
  NoWorker = NoWorker
  SchedulerID = {s1, s2}
  Key = {}
  NoKey = NoKey
  HBTimeout = 3
  TTL = 0
  MaxMsgs = 4
  MinIdle = 5
  ClaimCount = 2
  ReadCount = 2
  MaxFaults = 0
  BatchSize = 2
  HBInterval = 1
  ChanCap = 1
  BackoffBase = 1
  BackoffMax = 1
  Width = 16
  MaxRun = 2
  Prompt = TRUE
  Operated = {}
  Cmds <- MixedCmds
SPECIFICATION AccountingSpec
SYMMETRY Symm
CHECK_DEADLOCK FALSE
INVARIANTS
  StuckMeansDead
  ExclusiveExecution
  ExecutionsWithinLimit
  AttemptsRecorded
  CountedIsStored
  
