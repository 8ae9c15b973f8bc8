CONSTANTS
  TaskID = {t1}
  WorkerID = {w1, w2}
  NoWorker = NoWorker
  SchedulerID = {s1}
  Key = {}
  NoKey = NoKey
  HBTimeout = 2
  TTL = 0
  MaxMsgs = 8
  MinIdle = 2
  ClaimCount = 2
  ReadCount = 2
  MaxFaults = 2
  BatchSize = 1
  HBInterval = 1
  ChanCap = 1
  BackoffBase = 1
  BackoffMax = 1
  Width = 16
  MaxRun = 1
  Prompt = TRUE
  Operated = {}
  Cmds <- PlainCmds
SPECIFICATION FairSpec
CHECK_DEADLOCK FALSE
PROPERTIES
  ReadyTasksFinish
