\* Two tasks, every call names its module; the table of two records overflows.
CONSTANTS
  Task = {t1, t2}
  Addr = {a1, a2, a3}
  Extern = {}
  Size = {1, 2}
  Module = {m1, m2}
  NoModule = NoModule
  AllocNames = {m1, m2}
  ReallocNames = {m1}
  NoAddr = NoAddr
  NoTask = NoTask
  IdLimit = 1
  Word = 64
  TraceUsage = TRUE
  TraceLeak = TRUE
  CfgRecordNum = 0
  DefaultNum = 2
  MayFail = FALSE
  Concurrent = FALSE
  MaxLost = 1
SPECIFICATION Spec
SYMMETRY Symmetry
INVARIANTS OneRecordPerBlock RecordsDescribeBlocks LeakReportExact ModuleUsageExact ModulePeaksFit
