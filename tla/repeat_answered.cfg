CONSTANTS
  TaskID = {t1, t2}
  WorkerID = {}
  NoWorker = NoWorker
  Key = {k1, k2}
  NoKey = NoKey
  HBTimeout = 1
  TTL = 0
  MaxFaults = 0
  Request = {c1, c2}
  NoCall = NoCall
  Conflict = Conflict
  Cmds <- KeyedCmds
SPECIFICATION EnqueueSpec
SYMMETRY Symm
CHECK_DEADLOCK FALSE
INVARIANTS
  RepeatIsAnswered
