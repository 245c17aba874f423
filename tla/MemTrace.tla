------------------------------ MODULE MemTrace ------------------------------
(***************************************************************************)
(* The memory trace of media_lib_sal (mem_trace/media_lib_mem_trace.c):    *)
(* tasks allocate, reallocate and free blocks through media_lib_* and      *)
(* media_lib_module_*; while the trace is installed each call also updates *)
(* a record table, per-module usage and global usage under one recursive   *)
(* mutex.  A controller starts and stops the trace.                        *)
(*                                                                         *)
(* Each access to the kept heap (outside the mutex) and each critical      *)
(* section is a step of its own.  A section that makes one call inside the *)
(* mutex is one step; the two reallocs, which nest two calls in it, hold   *)
(* the mutex across several steps.                                         *)
(***************************************************************************)
EXTENDS Integers, Sequences, FiniteSets, FiniteSetsExt

CONSTANTS
  Task,          \* tasks that use the library
  Addr,          \* addresses the kept heap can hand out
  Extern,        \* memory not of that heap, traced by media_lib_add_trace_mem
  Size,          \* sizes asked for
  Module,        \* module names
  AllocNames,    \* module names given to malloc, calloc, strdup, caps_malloc
  ReallocNames,  \* module names given to realloc
  NoModule,      \* the NULL module: plain media_lib_malloc, media_lib_realloc
  NoAddr,        \* the NULL pointer
  NoTask,        \* the mutex is free
  IdLimit,       \* the largest module id, 0xFF in the code
  Word,          \* 2^32: usage counters are uint32_t
  TraceUsage,    \* cfg.trace_type has MODULE_USAGE
  TraceLeak,     \* cfg.trace_type has LEAK
  CfgRecordNum,  \* cfg.record_num
  DefaultNum,    \* MEDIA_LIB_DEFAULT_TRACE_NUM
  MayFail,       \* resizing a block and allocating a module entry can fail
  Concurrent,    \* tasks go on allocating while the trace starts and stops
  MaxLost        \* bound: no new allocation once this many bytes lack a record

ASSUME Constants ==
  /\ NoTask \notin Task
  /\ NoModule \notin Module
  /\ NoAddr \notin Addr \cup Extern
  /\ Addr \cap Extern = {}
  /\ AllocNames \subseteq Module \cup {NoModule}
  /\ ReallocNames \subseteq Module \cup {NoModule}
  /\ Word \in Nat \ {0}
  /\ Size \subseteq 1 .. (Word - 1)
  /\ IdLimit \in Nat
  /\ CfgRecordNum \in Nat
  /\ DefaultNum \in Nat
  /\ {TraceUsage, TraceLeak, MayFail, Concurrent} \subseteq BOOLEAN

VARIABLES
  heap,       \* what the heap really holds at each address
  mt,         \* *mem_trace: record table, module list, usage, peak
  mtState,    \* mem_trace: "null", "ready", or "unlocked" (mutex destroyed)
  typeSet,    \* trace_cfg.trace_type is not NONE
  recordNum,  \* trace_cfg.record_num
  lib,        \* the installed group of allocators: "kept" or "trace"
  holder,     \* the task that holds mem_trace->mutex over several steps
  task,       \* per task: where it is in its call, and the call's arguments
  ctl,        \* where the controller is in start or stop
  lost        \* history: per module id, bytes added to usage without a record

vars == <<heap, mt, mtState, typeSet, recordNum, lib, holder, task, ctl, lost>>
traceVars == <<mtState, typeSet, recordNum, lib, ctl>>

Block == Addr \cup Extern
Names == Module \cup {NoModule}
Ids   == 0 .. IdLimit
Free  == [size |-> 0, name |-> NoModule, traced |-> FALSE]
Idle  == [pc |-> "idle", addr |-> NoAddr, new |-> NoAddr, size |-> 0, name |-> NoModule]
Empty == [items |-> <<>>, modules |-> <<>>, usage |-> 0, peak |-> 0]

Live(a)    == heap[a].size > 0
Wrap(n)    == n % Word
MaxOf(m,n) == IF m < n THEN n ELSE m

-----------------------------------------------------------------------------
(* The table.  Operators from one value of *mem_trace to the next.         *)

UsageBit == typeSet /\ TraceUsage

\* get_module: the position of a name in the list.  Ids are position - 1.
\* (Names of the form XyzCounted, XyzStale... below are faulty variants of Xyz,
\* used to show that a property notices the fault.)
Known(list, name)  == \E i \in DOMAIN list : list[i].name = name
IdOfCounted(list, name) == CHOOSE i \in DOMAIN list : list[i].name = name
IdOf(list, name)   == (CHOOSE i \in DOMAIN list : list[i].name = name) - 1

\* alloc_module: appends an entry, unless ids ran out or memory did.
AllocModule(list, name, ok) ==
  IF name # NoModule /\ ~ Known(list, name) /\ Len(list) <= IdLimit /\ ok
    THEN Append(list, [name |-> name, usage |-> 0, peak |-> 0])
    ELSE list

ChargeStale(entry, size) ==   \* peak compared with the usage before the change
  [entry EXCEPT !.usage = Wrap(entry.usage + size), !.peak = MaxOf(entry.peak, entry.usage)]
Charge(entry, size) ==
  LET u == Wrap(entry.usage + size)
  IN  [entry EXCEPT !.usage = u, !.peak = MaxOf(entry.peak, u)]

\* add_mem_usage: charges the whole and, if it has one, the module.  A NULL
\* module, and one that got no entry, answer 0: the id of the first module.
AddMemUsage(m, name, size, ok) ==
  LET all  == Charge(m, size)
      list == IF UsageBit THEN AllocModule(m.modules, name, ok) ELSE m.modules
  IN  IF UsageBit /\ Known(list, name)
        THEN LET id == IdOf(list, name)
             IN  [m  |-> [all EXCEPT !.modules =
                            [list EXCEPT ![id + 1] = Charge(list[id + 1], size)]],
                  id |-> id]
        ELSE [m |-> [all EXCEPT !.modules = list], id |-> 0]

RemoveMemUsageGlobal(m, id, size) ==   \* forgets the module's counter
  [m EXCEPT !.usage = Wrap(m.usage - size)]

\* remove_mem_usage
RemoveMemUsage(m, id, size) ==
  LET all == [m EXCEPT !.usage = Wrap(m.usage - size)]
  IN  IF UsageBit /\ id + 1 \in DOMAIN m.modules
        THEN [all EXCEPT !.modules[id + 1].usage =
                           Wrap(m.modules[id + 1].usage - size)]
        ELSE all

\* get_trace_item: the first record of an address.
Matches(items, a) == {i \in DOMAIN items : items[i].addr = a}
FirstMatch(items, a) ==
  CHOOSE i \in Matches(items, a) : \A j \in Matches(items, a) : i <= j

\* remove_trace_item: the last record takes the place of the removed one.
SwapRemoveTruncate(items, i) == [j \in 1 .. Len(items) - 1 |-> items[j]]   \* no copy
SwapRemove(items, i) ==
  [j \in 1 .. Len(items) - 1 |-> IF j = i THEN items[Len(items)] ELSE items[j]]

\* The body of add_trace for a block handed out to module `name`.
Full(m) == recordNum = 0 \/ Len(m.items) >= recordNum
AddTrace(name, a, size) ==
  \E ok \in {TRUE} \cup {~ MayFail} :
    LET added == AddMemUsage(mt, name, size, ok)
        item  == [addr |-> a, size |-> size, id |-> added.id]
    IN  IF Full(mt)
          THEN /\ mt' = added.m
               /\ lost' = [lost EXCEPT ![added.id] = @ + size]
          ELSE /\ mt' = [added.m EXCEPT !.items = Append(mt.items, item)]
               /\ UNCHANGED lost

RemoveTraceUncounted(m, a) ==   \* drops the record, keeps its bytes in the usage
  IF Matches(m.items, a) = {}
    THEN m
    ELSE [m EXCEPT !.items = SwapRemove(m.items, FirstMatch(m.items, a))]

\* The body of remove_trace.
RemoveTrace(m, a) ==
  IF Matches(m.items, a) = {}
    THEN m
    ELSE LET i == FirstMatch(m.items, a)
         IN  [RemoveMemUsage(m, m.items[i].id, m.items[i].size)
                EXCEPT !.items = SwapRemove(m.items, i)]

-----------------------------------------------------------------------------
(* Tasks.                                                                  *)

Goto(t, pc, addr, new, size, name) ==
  task' = [task EXCEPT ![t] =
             [pc |-> pc, addr |-> addr, new |-> new, size |-> size, name |-> name]]
Step(t, pc) == task' = [task EXCEPT ![t].pc = pc]
Return(t)   == task' = [task EXCEPT ![t] = Idle]

\* The block a call in progress is responsible for: not the client's to use.
Owned(k) ==
  CASE k.pc \in {"remove", "kfree", "untrack", "krealloc", "mlock", "mrealloc"}
         -> {k.addr}
    [] k.pc \in {"add", "lock", "rremove", "radd"}
         -> {IF k.new = NoAddr THEN k.addr ELSE k.new}
    [] OTHER -> {}

InHand(a) == Live(a) /\ \A t \in Task : a \notin Owned(task[t])

\* A task outside any call may call, unless the application keeps its tasks
\* quiet while the controller starts or stops the trace.
MayCall(t) == task[t].pc = "idle" /\ (Concurrent \/ ctl = "idle")
AllIdle    == \A t \in Task : task[t].pc = "idle"
LostBytes  == SumFunction(lost)

\* A module call is traced by the configured type, under its name; otherwise
\* it is a plain call, traced if the wrappers are installed.
Traced(name) == (name # NoModule /\ typeSet) \/ lib = "trace"
NameIn(name) == IF typeSet THEN name ELSE NoModule

Hand(a, size, name, traced) ==
  heap' = [heap EXCEPT ![a] = [size |-> size, name |-> name, traced |-> traced]]

\* media_lib_[module_]malloc, calloc, caps_malloc_align, strdup
CallAlloc(t, name, size) ==
  /\ MayCall(t) /\ name \in AllocNames
  /\ LostBytes < MaxLost
  /\ \/ /\ Traced(name)
        /\ Goto(t, "kmalloc", NoAddr, NoAddr, size, NameIn(name))
        /\ UNCHANGED heap
     \/ /\ ~ Traced(name)
        /\ \E a \in Addr : ~ Live(a) /\ Hand(a, size, name, FALSE)
        /\ UNCHANGED task
  /\ UNCHANGED <<mt, traceVars, holder, lost>>

\* media_lib_free
CallFree(t, a) ==
  /\ MayCall(t) /\ a \in Addr /\ InHand(a)
  /\ \/ /\ lib = "trace"
        /\ Goto(t, "remove", a, NoAddr, 0, NoModule)
        /\ UNCHANGED heap
     \/ /\ lib = "kept"
        /\ heap' = [heap EXCEPT ![a] = Free]
        /\ UNCHANGED task
  /\ UNCHANGED <<mt, traceVars, holder, lost>>

\* What the kept realloc may do to block a, or to NULL: move it, resize it in
\* place, or fail and leave it alone.
KeptRealloc(a, size, name, new) ==
  \/ /\ new \in Addr /\ (new = a \/ ~ Live(new))
     /\ heap' = [b \in Block |->
                   CASE b = new -> [size |-> size, name |-> name,
                                    traced |-> new = a /\ heap[b].traced]
                     [] b = a /\ a # new -> Free
                     [] OTHER -> heap[b]]
  \/ (MayFail \/ a = NoAddr) /\ new = NoAddr /\ UNCHANGED heap

\* media_lib_realloc, media_lib_module_realloc
CallRealloc(t, name, a, size) ==
  /\ MayCall(t) /\ name \in ReallocNames
  /\ a = NoAddr \/ (a \in Addr /\ InHand(a))
  /\ LostBytes < MaxLost
  /\ \/ /\ name # NoModule /\ typeSet
        /\ Goto(t, "mlock", a, NoAddr, size, name)
        /\ UNCHANGED heap
     \/ /\ name = NoModule \/ ~ typeSet
        /\ lib = "trace"
        /\ Goto(t, "krealloc", a, NoAddr, size, NoModule)
        /\ UNCHANGED heap
     \/ /\ name = NoModule \/ ~ typeSet
        /\ lib = "kept"
        /\ \E new \in Addr \cup {NoAddr} : KeptRealloc(a, size, name, new)
        /\ UNCHANGED task
  /\ UNCHANGED <<mt, traceVars, holder, lost>>

\* media_lib_add_trace_mem: the client begins to use memory of its own.
CallTrack(t, name, a, size) ==
  /\ MayCall(t) /\ name \in AllocNames /\ a \in Extern /\ ~ Live(a)
  /\ LostBytes < MaxLost /\ typeSet
  /\ Hand(a, size, name, FALSE)
  /\ Goto(t, "add", NoAddr, a, size, name)
  /\ UNCHANGED <<mt, traceVars, holder, lost>>

\* media_lib_remove_trace_mem: the client gives that memory up.
CallUntrack(t, a) ==
  /\ MayCall(t) /\ a \in Extern /\ InHand(a)
  /\ \/ typeSet /\ Goto(t, "untrack", a, NoAddr, 0, NoModule) /\ UNCHANGED heap
     \/ ~ typeSet /\ heap' = [heap EXCEPT ![a] = Free] /\ UNCHANGED task
  /\ UNCHANGED <<mt, traceVars, holder, lost>>

\* media_lib_get_mem_usage, media_lib_print_leakage: the check of the type
CallQuery(t) ==
  /\ MayCall(t) /\ typeSet
  /\ Goto(t, "query", NoAddr, NoAddr, 0, NoModule)
  /\ UNCHANGED <<heap, mt, traceVars, holder, lost>>

-----------------------------------------------------------------------------
(* Steps inside a traced call.  mem_trace is dereferenced, so it is there; *)
(* the mutex is taken, so it is free - or NULL, which locks nothing.       *)

Lockable == \/ mtState = "ready" /\ holder = NoTask
            \/ mtState = "unlocked"
Lock(t)   == holder' = IF mtState = "ready" THEN t ELSE holder
Unlock(t) == holder' = IF holder = t THEN NoTask ELSE holder

\* kept.malloc in _malloc, _calloc, _strdup, _caps_malloc_align
KeptMalloc(t) ==
  /\ task[t].pc = "kmalloc" /\ mtState # "null"
  /\ \/ \E a \in Addr :
          /\ ~ Live(a)
          /\ Hand(a, task[t].size, task[t].name, FALSE)
          /\ task' = [task EXCEPT ![t].pc = "add", ![t].new = a]
     \/ UNCHANGED heap /\ Return(t)
  /\ UNCHANGED <<mt, traceVars, holder, lost>>

LockedAddUnlocked(t) ==   \* add_trace without its mutex
  /\ task[t].pc = "add"
  /\ AddTrace(task[t].name, task[t].new, task[t].size)
  /\ heap' = [heap EXCEPT ![task[t].new].traced = TRUE]
  /\ Return(t)
  /\ UNCHANGED <<traceVars, holder>>

\* add_trace, its own critical section
LockedAdd(t) ==
  /\ task[t].pc = "add" /\ Lockable
  /\ AddTrace(task[t].name, task[t].new, task[t].size)
  /\ heap' = [heap EXCEPT ![task[t].new].traced = TRUE]
  /\ Return(t)
  /\ UNCHANGED <<traceVars, holder>>

\* remove_trace in _free
LockedRemove(t) ==
  /\ task[t].pc = "remove" /\ Lockable
  /\ mt' = RemoveTrace(mt, task[t].addr)
  /\ Step(t, "kfree")
  /\ UNCHANGED <<heap, traceVars, holder, lost>>

\* kept.free in _free
KeptFree(t) ==
  /\ task[t].pc = "kfree" /\ mtState # "null"
  /\ heap' = [heap EXCEPT ![task[t].addr] = Free]
  /\ Return(t)
  /\ UNCHANGED <<mt, traceVars, holder, lost>>

\* remove_trace in media_lib_remove_trace_mem
LockedUntrack(t) ==
  /\ task[t].pc = "untrack" /\ Lockable
  /\ mt' = RemoveTrace(mt, task[t].addr)
  /\ heap' = [heap EXCEPT ![task[t].addr] = Free]
  /\ Return(t)
  /\ UNCHANGED <<traceVars, holder, lost>>

\* kept.realloc: in _realloc before the mutex, in module_realloc inside it
DoRealloc(t) ==
  /\ task[t].pc \in {"krealloc", "mrealloc"} /\ mtState # "null"
  /\ \E new \in Addr \cup {NoAddr} :
       /\ KeptRealloc(task[t].addr, task[t].size, task[t].name, new)
       /\ task' = [task EXCEPT
            ![t].new = new,
            ![t].pc  = IF task[t].pc = "krealloc" THEN "lock" ELSE "rremove"]
  /\ UNCHANGED <<mt, traceVars, holder, lost>>

ReallocLock(t) ==
  /\ task[t].pc \in {"lock", "mlock"} /\ Lockable
  /\ Lock(t)
  /\ Step(t, IF task[t].pc = "lock" THEN "rremove" ELSE "mrealloc")
  /\ UNCHANGED <<heap, mt, traceVars, lost>>

ReallocRemoveNew(t) ==   \* remove_trace(ptr) for remove_trace(buf)
  /\ task[t].pc = "rremove" /\ mtState # "null"
  /\ mt' = IF task[t].addr = NoAddr THEN mt ELSE RemoveTrace(mt, task[t].new)
  /\ Step(t, "radd")
  /\ UNCHANGED <<heap, traceVars, holder, lost>>

\* if (buf) remove_trace(buf): the nested lock is the holder's
ReallocRemove(t) ==
  /\ task[t].pc = "rremove" /\ mtState # "null"
  /\ mt' = IF task[t].addr = NoAddr THEN mt ELSE RemoveTrace(mt, task[t].addr)
  /\ Step(t, "radd")
  /\ UNCHANGED <<heap, traceVars, holder, lost>>

ReallocAddKeepLock(t) ==   \* returns with the mutex when realloc failed
  /\ task[t].pc = "radd" /\ mtState # "null"
  /\ \/ /\ task[t].new = NoAddr
        /\ UNCHANGED <<heap, mt, lost, holder>>
     \/ /\ task[t].new # NoAddr
        /\ AddTrace(task[t].name, task[t].new, task[t].size)
        /\ heap' = [heap EXCEPT ![task[t].new].traced = TRUE]
        /\ Unlock(t)
  /\ Return(t)
  /\ UNCHANGED traceVars

\* if (ptr) add_trace(...); unlock
ReallocAdd(t) ==
  /\ task[t].pc = "radd" /\ mtState # "null"
  /\ \/ /\ task[t].new = NoAddr
        /\ UNCHANGED <<heap, mt, lost>>
     \/ /\ task[t].new # NoAddr
        /\ AddTrace(task[t].name, task[t].new, task[t].size)
        /\ heap' = [heap EXCEPT ![task[t].new].traced = TRUE]
  /\ Unlock(t) /\ Return(t)
  /\ UNCHANGED <<traceVars>>

QueryRead(t) ==
  /\ task[t].pc = "query" /\ Lockable
  /\ Return(t)
  /\ UNCHANGED <<heap, mt, traceVars, holder, lost>>

-----------------------------------------------------------------------------
(* The controller: media_lib_start_mem_trace, media_lib_stop_mem_trace.    *)

Quiet == Concurrent \/ AllIdle
TableSize ==
  IF CfgRecordNum = 0 /\ (TraceUsage \/ TraceLeak) THEN DefaultNum ELSE CfgRecordNum

\* mem_trace allocated and filled, then trace_cfg = *cfg
StartConfig ==
  /\ ctl = "idle" /\ Quiet /\ ~ typeSet /\ mtState = "null"
  /\ mt' = Empty /\ mtState' = "ready" /\ holder' = NoTask
  /\ typeSet' = TRUE /\ recordNum' = CfgRecordNum
  /\ lost' = [id \in Ids |-> 0]
  /\ ctl' = "num"
  /\ UNCHANGED <<heap, lib, task>>

\* trace_cfg.record_num = n
StartNum ==
  /\ ctl = "num"
  /\ recordNum' = TableSize
  /\ ctl' = "install"
  /\ UNCHANGED <<heap, mt, mtState, typeSet, lib, holder, task, lost>>

\* media_lib_set_mem_lib(&mem_lib)
StartInstall ==
  /\ ctl = "install"
  /\ lib' = "trace"
  /\ ctl' = "idle"
  /\ UNCHANGED <<heap, mt, mtState, typeSet, recordNum, holder, task, lost>>

\* trace_cfg.trace_type = NONE
StopType ==
  /\ ctl = "idle" /\ Quiet /\ mtState # "null"
  /\ typeSet' = FALSE
  /\ ctl' = "restore"
  /\ UNCHANGED <<heap, mt, mtState, recordNum, lib, holder, task, lost>>

\* media_lib_set_mem_lib(&mem_trace->kept)
StopRestore ==
  /\ ctl = "restore"
  /\ lib' = "kept"
  /\ ctl' = "mutex"
  /\ UNCHANGED <<heap, mt, mtState, typeSet, recordNum, holder, task, lost>>

\* lock, unlock, destroy, mutex = NULL
StopMutex ==
  /\ ctl = "mutex" /\ holder = NoTask
  /\ mtState' = "unlocked"
  /\ ctl' = "free"
  /\ UNCHANGED <<heap, mt, typeSet, recordNum, lib, holder, task, lost>>

\* module list, table and mem_trace freed.  No block counts as traced now.
StopFree ==
  /\ ctl = "free"
  /\ mtState' = "null" /\ mt' = Empty
  /\ heap' = [a \in Block |-> [heap[a] EXCEPT !.traced = FALSE]]
  /\ lost' = [id \in Ids |-> 0]
  /\ ctl' = "idle"
  /\ UNCHANGED <<typeSet, recordNum, lib, holder, task>>

-----------------------------------------------------------------------------
Init ==
  /\ heap = [a \in Block |-> Free]
  /\ mt = Empty /\ mtState = "null" /\ typeSet = FALSE /\ recordNum = 0
  /\ lib = "kept" /\ holder = NoTask
  /\ task = [t \in Task |-> Idle]
  /\ ctl = "idle"
  /\ lost = [id \in Ids |-> 0]

Call(t) ==
  \/ \E name \in AllocNames, size \in Size : CallAlloc(t, name, size)
  \/ \E a \in Addr : CallFree(t, a)
  \/ \E name \in ReallocNames, a \in Addr \cup {NoAddr}, size \in Size :
       CallRealloc(t, name, a, size)
  \/ \E name \in AllocNames, a \in Extern, size \in Size : CallTrack(t, name, a, size)
  \/ \E a \in Extern : CallUntrack(t, a)
  \/ CallQuery(t)

Run(t) ==
  \/ KeptMalloc(t) \/ LockedAdd(t) \/ LockedRemove(t) \/ KeptFree(t)
  \/ LockedUntrack(t) \/ DoRealloc(t) \/ ReallocLock(t) \/ ReallocRemove(t)
  \/ ReallocAdd(t) \/ QueryRead(t)

Control ==
  \/ StartConfig \/ StartNum \/ StartInstall
  \/ StopType \/ StopRestore \/ StopMutex \/ StopFree

Next ==
  \/ \E t \in Task : Call(t) \/ Run(t)
  \/ Control

\* A task inside a call goes on, and a task that waits for the mutex gets it:
\* FreeRTOS hands a mutex to the longest waiting of its highest priority.
Fairness == \A t \in Task : SF_vars(Run(t))

Spec == Init /\ [][Next]_vars /\ Fairness
-----------------------------------------------------------------------------
(* What the trace promises.                                                *)

Item   == [addr : Block, size : Size, id : Ids]
Entry  == [name : Module, usage : 0 .. Word - 1, peak : 0 .. Word - 1]
InUse  == {"kmalloc", "add", "remove", "untrack", "kfree", "krealloc", "lock", "mlock",
           "mrealloc", "rremove", "radd", "query"}

TypeOK ==
  /\ heap \in [Block -> [size : Size \cup {0}, name : Names, traced : BOOLEAN]]
  /\ mt \in [items : Seq(Item), modules : Seq(Entry),
             usage : 0 .. Word - 1, peak : 0 .. Word - 1]
  /\ mtState \in {"null", "ready", "unlocked"}
  /\ typeSet \in BOOLEAN /\ recordNum \in Nat /\ lib \in {"kept", "trace"}
  /\ holder \in Task \cup {NoTask}
  /\ task \in [Task -> [pc : InUse \cup {"idle"}, addr : Block \cup {NoAddr},
                        new : Block \cup {NoAddr}, size : Size \cup {0}, name : Names]]
  /\ ctl \in {"idle", "num", "install", "restore", "mutex", "free"}
  /\ lost \in [Ids -> Nat]

\* get_trace_item stops at the first record of an address, so a second record
\* of it would be a leak reported for ever: however the calls of several tasks
\* interleave, and although the heap hands a freed address to another task
\* while the first is still inside free or module_realloc, an address has at
\* most one record.
OneRecordPerBlock ==
  \A i, j \in DOMAIN mt.items : mt.items[i].addr = mt.items[j].addr => i = j

\* A record describes a block that exists, with its present size - except the
\* one a realloc is about to replace inside the mutex.
RecordsDescribeBlocks ==
  \A i \in DOMAIN mt.items :
    LET r == mt.items[i]
    IN  \/ heap[r.addr].size = r.size
        \/ holder # NoTask /\ task[holder].pc = "rremove" /\ task[holder].addr = r.addr

Settled == mtState = "ready" /\ ctl = "idle" /\ AllIdle
NothingLost == \A id \in Ids : lost[id] = 0
RecordedBytes == SumFunction([i \in DOMAIN mt.items |-> mt.items[i].size])

\* The global usage counter is the sum of the sizes in the record table and of
\* the bytes that add_trace counted when the table was full: the latter are
\* never taken off again (lines 161, 212-218, 274-278).
UsageIsRecordedPlusLost ==
  mt.usage = Wrap(RecordedBytes + LostBytes)

\* Between calls, and while the table never was full, the leak report
\* (print_leak) is exact: it lists the traced blocks that are alive, each once
\* and with its size.
LeakReportExact ==
  Settled /\ NothingLost =>
    /\ {<<mt.items[i].addr, mt.items[i].size>> : i \in DOMAIN mt.items}
         = {<<a, heap[a].size>> : a \in {b \in Block : heap[b].traced}}
    /\ OneRecordPerBlock

\* Between calls media_lib_get_mem_usage(module) is what the header says: the
\* memory that module has in use.
ModuleUsageExact ==
  Settled /\ NothingLost =>
    \A i \in DOMAIN mt.modules :
      mt.modules[i].usage =
        SumFunctionOnSet([a \in Block |-> heap[a].size],
                         {a \in Block : heap[a].traced /\ heap[a].name = mt.modules[i].name})

\* When every call names its module, the peaks fit together: no module peaked
\* above the whole, and the whole not above the sum of the modules' peaks.
ModulePeaksFit ==
  mtState # "null" =>
    /\ \A i \in DOMAIN mt.modules : mt.modules[i].peak <= mt.peak
    /\ mt.peak <= SumFunction([i \in DOMAIN mt.modules |-> mt.modules[i].peak])

\* The trace can be stopped while tasks allocate ("tracing on runtime"): stop
\* resets the type, restores the kept library and takes the mutex once, and no
\* call that was dispatched to a wrapper before that is left when it frees
\* mem_trace, which the wrapper is still going to use.
StopAtRuntime == AllIdle \/ mtState # "null"

\* Every call of the library returns: the mutex is given back on every path,
\* and the nested remove_trace and add_trace do not wait for their own caller.
CallsReturn == \A t \in Task : task[t].pc # "idle" ~> task[t].pc = "idle"
=============================================================================
