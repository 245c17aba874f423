\* Tasks go on allocating while the trace is stopped.
CONSTANTS
  Task = {t1, t2}
  Addr = {a1, a2}
  Extern = {x1}
  Size = {1}
  Module = {m1}
  NoModule = NoModule
  AllocNames = {m1, NoModule}
  ReallocNames = {m1, NoModule}
  NoAddr = NoAddr
  NoTask = NoTask
  IdLimit = 0
  Word = 4
  TraceUsage = FALSE
  TraceLeak = TRUE
  CfgRecordNum = 1
  DefaultNum = 3
  MayFail = TRUE
  Concurrent = TRUE
  MaxLost = 1
SPECIFICATION Spec
INVARIANT StopAtRuntime
