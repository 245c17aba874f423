------------------------------- MODULE MemHis -------------------------------
(***************************************************************************)
(* The memory history of media_lib_sal (mem_trace/media_lib_mem_his.c).    *)
(* Trace records are copied into a ring of slices; a save thread writes    *)
(* full slices to a file; stop lets it write the unfinished slice and end. *)
(*                                                                         *)
(* Writers hold the trace mutex (MemTrace), so there is one record in      *)
(* progress at a time.  A byte is represented by its place in the stream   *)
(* of accepted bytes.                                                      *)
(***************************************************************************)
EXTENDS Integers, Sequences

CONSTANTS
  Slices,      \* SAVE_SLICE_NUM
  SliceSize,   \* cache_size
  Detail,      \* sizeof(malloc_detail_t)
  Frames,      \* sizes a stack can have
  FreeDetail,  \* sizeof(free_detail_t)
  MaxBytes,    \* bound: no new record once this many bytes are accepted
  Calm         \* stop is called a polling period after the last full slice

ASSUME HisConstants ==
  /\ Slices \in Nat \ {0, 1} /\ SliceSize \in Nat \ {0}
  /\ Detail \in Nat \ {0} /\ FreeDetail \in Nat \ {0} /\ Frames \subseteq Nat
  /\ MaxBytes \in Nat /\ Calm \in BOOLEAN

VARIABLES
  cache,     \* save_cache: for each slice the byte at each offset, 0 for none
  filled,    \* cache_filled
  wp,        \* the slice being filled
  n,         \* full slices
  running, stopping,
  file,      \* what was written to fd
  accepted,  \* history: bytes copied into the ring so far
  dropped,   \* history: the sizes of records that were given up
  writer,    \* sizes of the pieces his_write still has to copy
  saver,     \* where the save thread is
  head,      \* save_thread's local variable
  stop       \* where media_lib_stop_mem_his is

hisVars == <<cache, filled, wp, n, running, stopping, file, accepted, dropped,
             writer, saver, head, stop>>
ring == <<cache, filled, wp, n>>

Slice == 0 .. Slices - 1

-----------------------------------------------------------------------------
(* Writers.                                                                *)

PieceSum(p) == IF Len(p) = 2 THEN p[1] + p[2] ELSE p[1]

\* his_wait_for_enough: one of its checks
Enough(size) == n < Slices \/ filled + size <= SliceSize

\* media_lib_add_mem_malloc_his, media_lib_add_mem_free_his.  Stop is called
\* when no task is inside the trace.
Begin(p) ==
  /\ writer = <<>> /\ stop = "no" /\ accepted < MaxBytes
  /\ Enough(PieceSum(p))
  /\ writer' = p
  /\ UNCHANGED <<ring, running, stopping, file, accepted, dropped, saver, head, stop>>

\* MAX_WRITE_RETRY checks failed.
GiveUp(p) ==
  /\ writer = <<>> /\ stop = "no" /\ accepted < MaxBytes
  /\ ~ Enough(PieceSum(p))
  /\ dropped' = dropped \cup {PieceSum(p)}
  /\ UNCHANGED <<ring, running, stopping, file, accepted, writer, saver, head, stop>>

\* The slice is full: on to the next.  (Names such as NextSliceNoReset are
\* faulty variants, used to show that a property notices the fault.)
NextSliceNoReset == UNCHANGED filled /\ wp' = (wp + 1) % Slices /\ n' = n + 1
NextSliceNoWrap  == filled' = 0 /\ wp' = wp + 1 /\ n' = n + 1
NextSlice        == filled' = 0 /\ wp' = (wp + 1) % Slices /\ n' = n + 1

\* his_write: one turn of its loop, the copy inside write_mutex.
Copy ==
  /\ writer # <<>> /\ n < Slices
  /\ LET size == Head(writer)
         left == SliceSize - filled
         fill == IF left > size THEN size ELSE left
     IN  /\ cache' = [cache EXCEPT ![wp] = [k \in 0 .. SliceSize - 1 |->
               IF k \in filled .. filled + fill - 1 THEN accepted + k - filled + 1
                                                     ELSE cache[wp][k]]]
         /\ accepted' = accepted + fill
         /\ \/ /\ left > fill
               /\ filled' = filled + fill
               /\ UNCHANGED <<wp, n>>
               /\ writer' = Tail(writer)
            \/ /\ left = fill
               /\ NextSlice
               /\ writer' = IF size = fill THEN Tail(writer)
                                           ELSE <<size - fill>> \o Tail(writer)
  /\ UNCHANGED <<running, stopping, file, dropped, saver, head, stop>>

-----------------------------------------------------------------------------
(* save_thread.                                                            *)

Saver(from, to) == saver = from /\ saver' = to

\* A thread that first runs after stop finds save_his NULL; that it then reads
\* through it is not modelled.
SaverStart ==
  /\ stop # "done" /\ Saver("created", "poll")
  /\ running' = TRUE
  /\ UNCHANGED <<ring, stopping, file, accepted, dropped, writer, head, stop>>

SaverPollOver ==   \* off by one: sees no full slice until there are too many
  /\ \/ n > Slices /\ Saver("poll", "locate")
     \/ n <= Slices /\ Saver("poll", "check")
  /\ UNCHANGED <<ring, running, stopping, file, accepted, dropped, writer, head, stop>>

\* if (his->n), read without the mutex
SaverPoll ==
  /\ \/ n > 0 /\ Saver("poll", "locate")
     \/ n = 0 /\ Saver("poll", "check")
  /\ UNCHANGED <<ring, running, stopping, file, accepted, dropped, writer, head, stop>>

SaverLocateNewest ==   \* the slice filled last, not the oldest
  /\ Saver("locate", "write")
  /\ head' = (wp + Slices - 1) % Slices
  /\ UNCHANGED <<ring, running, stopping, file, accepted, dropped, writer, stop>>
SaverLocateRelease ==   \* gives the slice back before it is written
  /\ Saver("locate", "write")
  /\ head' = (wp + Slices - n) % Slices /\ n' = n - 1
  /\ UNCHANGED <<cache, filled, wp, running, stopping, file, accepted, dropped, writer, stop>>
SaverLocate ==
  /\ Saver("locate", "write")
  /\ head' = (wp + Slices - n) % Slices
  /\ UNCHANGED <<ring, running, stopping, file, accepted, dropped, writer, stop>>

SaverWrite ==
  /\ Saver("write", "release")
  /\ file' = file \o [k \in 1 .. SliceSize |-> cache[head][k - 1]]
  /\ UNCHANGED <<ring, running, stopping, accepted, dropped, writer, head, stop>>

SaverRelease ==
  /\ Saver("release", "poll")
  /\ n' = n - 1
  /\ UNCHANGED <<cache, filled, wp, running, stopping, file, accepted, dropped,
                 writer, head, stop>>

SaverCheckWriter ==   \* ends only while a record is in progress
  /\ \/ stopping /\ writer # <<>> /\ Saver("check", "flush")
     \/ ~ (stopping /\ writer # <<>>) /\ Saver("check", "poll")
  /\ UNCHANGED <<ring, running, stopping, file, accepted, dropped, writer, head, stop>>

\* if (his->stopping) break; else sleep and loop
SaverCheck ==
  /\ \/ stopping /\ Saver("check", "flush")
     \/ ~ stopping /\ Saver("check", "poll")
  /\ UNCHANGED <<ring, running, stopping, file, accepted, dropped, writer, head, stop>>

\* the unfinished slice, without the mutex
SaverFlush ==
  /\ Saver("flush", "close")
  /\ file' = file \o [k \in 1 .. filled |-> cache[wp][k - 1]]
  /\ UNCHANGED <<ring, running, stopping, accepted, dropped, writer, head, stop>>

\* close(fd); stopping = false; running = false
SaverClose ==
  /\ Saver("close", "done")
  /\ stopping' = FALSE /\ running' = FALSE
  /\ UNCHANGED <<ring, file, accepted, dropped, writer, head, stop>>

SaverNext ==
  \/ SaverStart \/ SaverPoll \/ SaverLocate \/ SaverWrite \/ SaverRelease
  \/ SaverCheck \/ SaverFlush \/ SaverClose

-----------------------------------------------------------------------------
(* media_lib_stop_mem_his.                                                 *)

\* The save thread has begun, and looked at n since the last slice was filled.
SaverCaughtUp == saver # "created" /\ (saver = "check" => n = 0)

\* A stop that meets a task inside the trace is left to MemTrace.
StopRequest ==
  /\ stop = "no" /\ writer = <<>>
  /\ Calm => SaverCaughtUp
  /\ stop' = "wait"
  /\ stopping' = TRUE
  /\ UNCHANGED <<ring, running, file, accepted, dropped, writer, saver, head>>

\* The wait for ! running ends; mutex, descriptor and cache are released.
StopFinish ==
  /\ stop = "wait" /\ ~ running
  /\ stop' = "done"
  /\ UNCHANGED <<ring, running, stopping, file, accepted, dropped, writer, saver, head>>

-----------------------------------------------------------------------------
Init ==
  /\ cache = [s \in Slice |-> [k \in 0 .. SliceSize - 1 |-> 0]]
  /\ filled = 0 /\ wp = 0 /\ n = 0
  /\ running = FALSE /\ stopping = FALSE
  /\ file = <<>> /\ accepted = 0 /\ dropped = {}
  /\ writer = <<>> /\ saver = "created" /\ head = 0 /\ stop = "no"

\* The pieces of a record: a malloc's detail and stack, or a free's detail.
Record == {<<Detail, f>> : f \in Frames \ {0}} \cup {<<FreeDetail>>}
            \cup (IF 0 \in Frames THEN {<<Detail>>} ELSE {})

WriterNext == \/ \E p \in Record : Begin(p) \/ GiveUp(p)
              \/ Copy
Finished   == stop = "done" /\ saver \in {"created", "done"} /\ UNCHANGED hisVars

Next == WriterNext \/ SaverNext \/ StopRequest \/ StopFinish \/ Finished

\* The save thread and the two waiting loops are scheduled for ever; records
\* and the call of stop are up to the application.
Fairness ==
  /\ WF_hisVars(SaverNext) /\ WF_hisVars(Copy) /\ WF_hisVars(StopFinish)

Spec == Init /\ [][Next]_hisVars /\ Fairness

-----------------------------------------------------------------------------
TypeOK ==
  /\ cache \in [Slice -> [0 .. SliceSize - 1 -> Nat]]
  /\ filled \in 0 .. SliceSize - 1 /\ wp \in Slice /\ n \in 0 .. Slices
  /\ running \in BOOLEAN /\ stopping \in BOOLEAN
  /\ file \in Seq(Nat) /\ accepted \in Nat /\ dropped \subseteq Nat
  /\ writer \in Seq(Nat \ {0})
  /\ saver \in {"created", "poll", "locate", "write", "release", "check", "flush",
                "close", "done"}
  /\ head \in Slice /\ stop \in {"no", "wait", "done"}

\* The file is the stream of accepted bytes: in order, nothing twice, nothing
\* missing, complete when the thread ends - although slices are reused, the
\* thread writes them without the mutex, and records straddle slices.
Log == INSTANCE MemHisLog WITH closed <- saver = "done"
FileIsTheLog == Log!Spec

\* README.md:33 of mem_trace: stop syncs the history to the file.
SyncComplete == saver = "done" => Len(file) = accepted

\* The slice the thread is writing, outside the mutex, is full and its own:
\* the writer cannot copy into it.
SliceNotShared ==
  saver \in {"write", "release"} =>
    /\ n > 0 /\ head = (wp + Slices - n) % Slices
    /\ n < Slices => head # wp

\* A record that fits a slice is never given up: when all slices are full the
\* next one is empty, so his_wait_for_enough always says yes and it is his_write
\* that waits.
NeverDrops == \A size \in dropped : size > SliceSize

\* A task inside the trace gets out of his_write: full slices are drained.
RecordGetsWritten == writer # <<>> ~> writer = <<>>

\* media_lib_stop_mem_his returns.
StopReturns == stop = "wait" ~> stop = "done"
=============================================================================
