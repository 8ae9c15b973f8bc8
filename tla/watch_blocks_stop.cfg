CONSTANTS
  TaskID = {t1, t2}
  WorkerID = {}
  NoWorker = NoWorker
  Key = {k1}
  NoKey = NoKey
  HBTimeout = 1
  TTL = 0
  MaxFaults = 0
  Request = {c1}
  NoCall = NoCall
  Conflict = Conflict
  Cmds <- ValidCmds
  EnqueueTaskRequest <- SomeRequests
  Stream = {u1}
  NoTask = NoTask
  Unset = Unset
  Garbage = Garbage
  Durations <- SomeDurations
SPECIFICATION GatewaySpec
CHECK_DEADLOCK FALSE
PROPERTIES
  SignalStops
