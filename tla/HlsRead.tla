------------------------------- MODULE HlsRead ------------------------------
(***************************************************************************)
(* The reader IO of esp_hls_stream (src/hls_io.c): its thread asks the     *)
(* fetcher for media and publishes it on the data bus, each piece behind a *)
(* header; the application's reads go through a filter that takes the      *)
(* headers out again, tells of new segments and gives the media.           *)
(*                                                                         *)
(* The fetcher, the bus and the IO thread are external (closed library and *)
(* ESP-GMF): a frame is published whole, when the bus has room for a full  *)
(* one; the framework stops the thread and empties the bus when a seek     *)
(* succeeded; the fetcher marks the first data of a segment, and the first *)
(* after a seek, with bos.                                                 *)
(***************************************************************************)
EXTENDS Integers, Sequences

CONSTANTS
  Total,     \* media bytes of the stream
  SegStart,  \* the places where a segment file begins
  Block,     \* HLS_READ_BLOCK_SIZE
  BusSize,   \* what the bus holds; a header counts as one
  Wanted,    \* wanted_size of reads
  SeekTo,    \* the places a seek can lead to
  Retries    \* HLS_MAX_RETRY_COUNT

ASSUME HlsConstants ==
  /\ Total \in Nat /\ Block \in Nat \ {0} /\ Retries \in Nat \ {0}
  /\ BusSize \in Nat /\ BusSize > Block
  /\ SegStart \subseteq 0 .. Total - 1 /\ 0 \in SegStart
  /\ SeekTo \subseteq 0 .. Total
  /\ Wanted \subseteq Nat \ {0}

VARIABLES
  open,      \* hls_fetcher is not NULL
  bus,       \* data_bus: headers and media bytes
  done,      \* esp_gmf_db_done_write was called
  aborted,   \* esp_gmf_db_abort was called
  producer,  \* the IO thread: "run", or "ended"
  retry,     \* retry_count of the hls_acquire_read in progress
  pos,       \* the fetcher's place in the stream
  fresh,     \* the fetcher's next data is marked bos
  remain,    \* media_remain
  read,      \* the read in progress
  status,    \* what the last read returned
  told,      \* the segment file_seg_cb was last called for
  from, given, ended   \* history: as in HlsStream

fetchVars == <<done, aborted, producer, retry, pos, fresh>>
histVars  == <<from, given, ended>>
hlsVars   == <<open, bus, fetchVars, remain, read, status, told, histVars>>

\* Units of the bus.  Read as the other kind a unit gives the wrong n.
Header(size, bos, seg) == [n |-> size, bos |-> bos, seg |-> seg]
Media(at)              == [n |-> at, bos |-> FALSE, seg |-> at]

Lesser(a, b) == IF a < b THEN a ELSE b
SegOf(at)    == CHOOSE s \in SegStart : s <= at /\ \A r \in SegStart : r <= at => r <= s
NoRead       == [pc |-> "idle", mode |-> "copy", max |-> 0, bytes |-> <<>>]

-----------------------------------------------------------------------------
(* The IO thread: hls_acquire_read and what the framework does with it.    *)

Working == open /\ producer = "run"

\* One frame of data of one segment, perhaps an empty one at its beginning.
Fetch(size) ==
  /\ Working /\ pos < Total /\ Len(bus) + 1 + Block <= BusSize
  /\ size \in 0 .. Lesser(Block, Total - pos)
  /\ \A k \in 1 .. size - 1 : pos + k \notin SegStart
  /\ size = 0 => fresh
  /\ bus' = bus \o <<Header(size, fresh, SegOf(pos))>>
                \o [i \in 1 .. size |-> Media(pos + i - 1)]
  /\ pos' = pos + size
  /\ fresh' = (size > 0 /\ pos' \in SegStart)
  /\ retry' = Retries
  /\ UNCHANGED <<open, done, aborted, producer, remain, read, status, told, histVars>>

\* ESP_EXTRACTOR_ERR_WAITING_OUTPUT: sleep and try again, and in the end give
\* up without a word to the bus.
FetchWait ==
  /\ Working /\ pos < Total
  /\ retry' = retry - 1
  /\ producer' = IF retry' = 0 THEN "ended" ELSE "run"
  /\ UNCHANGED <<open, bus, done, aborted, pos, fresh, remain, read, status, told, histVars>>

FetchEos ==
  /\ Working /\ pos = Total
  /\ done' = TRUE /\ producer' = "ended"
  /\ UNCHANGED <<open, bus, aborted, retry, pos, fresh, remain, read, status, told, histVars>>

\* Another error, or the fetcher aborted by prev_close.
FetchFail ==
  /\ Working
  /\ aborted' = TRUE /\ producer' = "ended"
  /\ UNCHANGED <<open, bus, done, retry, pos, fresh, remain, read, status, told, histVars>>

-----------------------------------------------------------------------------
(* The application's read: hls_user_read_filter.                           *)

\* mode "copy": the payload brings a buffer.  (Names such as TakeMediaKeep are
\* faulty variants, used to show that a property notices the fault.)
ReadCall(mode, wanted) ==
  /\ open /\ read.pc = "idle"
  /\ read' = [pc |-> IF remain = 0 THEN "meta" ELSE "media", mode |-> mode,
              max |-> wanted, bytes |-> <<>>]
  /\ UNCHANGED <<open, bus, fetchVars, remain, status, told, histVars>>

Return(bytes, state) ==
  /\ read' = NoRead
  /\ status' = state
  /\ given' = given \o bytes
  /\ ended' = (ended \/ state \in {"done", "end"})
  /\ UNCHANGED from

PullMetaSkip ==   \* an empty slot is skipped before its bos is looked at
  /\ read.pc = "meta" /\ bus # <<>> /\ ~ aborted
  /\ bus' = Tail(bus)
  /\ told' = IF Head(bus).bos /\ Head(bus).n > 0 THEN Head(bus).seg ELSE told
  /\ remain' = Head(bus).n
  /\ read' = [read EXCEPT !.pc = IF remain' = 0 THEN "meta" ELSE "media"]
  /\ UNCHANGED <<open, fetchVars, status, histVars>>

\* hls_pull_next_meta: one turn of its loop
PullMeta ==
  /\ read.pc = "meta" /\ bus # <<>> /\ ~ aborted
  /\ bus' = Tail(bus)
  /\ told' = IF Head(bus).bos THEN Head(bus).seg ELSE told
  /\ remain' = Head(bus).n
  /\ read' = [read EXCEPT !.pc = IF remain' = 0 THEN "meta" ELSE "media"]
  /\ UNCHANGED <<open, fetchVars, status, histVars>>

RequestWhole == IF read.mode = "copy" THEN read.max - Len(read.bytes) ELSE remain
Request == IF read.mode = "copy" THEN Lesser(read.max - Len(read.bytes), remain) ELSE remain
IsLast(size)      == done /\ size = Len(bus)
EndOfStream(size) == remain - size = 0 /\ IsLast(size)

\* A piece of the frame; the bus gives up to what is asked for.
TakeMedia(size) ==
  /\ read.pc = "media" /\ ~ aborted
  /\ size \in 1 .. Lesser(Request, Len(bus))
  /\ bus' = SubSeq(bus, size + 1, Len(bus))
  /\ remain' = remain - size
  /\ LET bytes == read.bytes \o [i \in 1 .. size |-> bus[i].n]
     IN  \/ /\ read.mode = "zero" \/ EndOfStream(size) \/ Len(bytes) >= read.max
            /\ Return(bytes, IF EndOfStream(size) THEN "done" ELSE "data")
         \/ /\ read.mode = "copy" /\ ~ EndOfStream(size) /\ Len(bytes) < read.max
            /\ read' = [read EXCEPT !.bytes = bytes,
                                    !.pc = IF remain' = 0 THEN "meta" ELSE "media"]
            /\ UNCHANGED <<status, histVars>>
  /\ UNCHANGED <<open, fetchVars, told>>

\* The bus gives nothing: aborted, at its end, or a timeout.  What the read has
\* got already is returned instead of that.
BusSaysTimeout == IF aborted THEN "abort" ELSE "timeout"
BusSaysEnd     == IF done THEN "end" ELSE "timeout"
BusSays        == IF aborted THEN "abort" ELSE IF done THEN "end" ELSE "timeout"
NothingLeft ==
  /\ read.pc # "idle" /\ (aborted \/ bus = <<>>)
  /\ Return(read.bytes, IF read.bytes = <<>> THEN BusSays ELSE "data")
  /\ UNCHANGED <<open, bus, fetchVars, remain, told>>

-----------------------------------------------------------------------------
(* Seek, close, open; reset comes before open.                             *)

Fetcher(at) ==
  /\ bus' = <<>> /\ done' = FALSE /\ aborted' = FALSE /\ producer' = "run"
  /\ retry' = Retries /\ pos' = at /\ fresh' = TRUE

Restart(at) == from' = at /\ given' = <<>> /\ ended' = FALSE

SeekKeep(at) ==   \* without media_remain = 0
  /\ open /\ read.pc = "idle" /\ at \in SeekTo
  /\ Fetcher(at) /\ Restart(at)
  /\ status' = "none"
  /\ UNCHANGED <<open, remain, read, told>>

\* hls_seek.  One that fails changes nothing.
Seek(at) ==
  /\ open /\ read.pc = "idle" /\ at \in SeekTo
  /\ Fetcher(at) /\ Restart(at)
  /\ remain' = 0
  /\ status' = "none"
  /\ UNCHANGED <<open, read, told>>

Close ==
  /\ open /\ read.pc = "idle"
  /\ open' = FALSE /\ remain' = 0 /\ bus' = <<>> /\ producer' = "ended"
  /\ UNCHANGED <<done, aborted, retry, pos, fresh, read, status, told, histVars>>

\* hls_reset, hls_open
Open ==
  /\ ~ open
  /\ open' = TRUE /\ remain' = 0
  /\ Fetcher(0) /\ Restart(0)
  /\ status' = "none"
  /\ UNCHANGED <<read, told>>

-----------------------------------------------------------------------------
Init ==
  /\ open = FALSE /\ bus = <<>> /\ done = FALSE /\ aborted = FALSE
  /\ producer = "ended" /\ retry = Retries /\ pos = 0 /\ fresh = TRUE
  /\ remain = 0 /\ read = NoRead /\ status = "none" /\ told = -1
  /\ from = 0 /\ given = <<>> /\ ended = FALSE

Producer ==
  \/ \E size \in 0 .. Block : Fetch(size)
  \/ FetchWait \/ FetchEos \/ FetchFail
Filter ==
  \/ PullMeta \/ NothingLeft
  \/ \E size \in 1 .. Block : TakeMedia(size)
Application ==
  \/ \E mode \in {"copy", "zero"}, wanted \in Wanted : ReadCall(mode, wanted)
  \/ \E at \in SeekTo : Seek(at)
  \/ Close \/ Open

Next == Producer \/ Filter \/ Application

\* The thread that reads goes on with its read; an application that plays the
\* stream reads again and again.
Fairness ==
  /\ WF_hlsVars(Filter)
  /\ WF_hlsVars(\E mode \in {"copy", "zero"}, wanted \in Wanted : ReadCall(mode, wanted))

Spec == Init /\ [][Next]_hlsVars /\ Fairness

-----------------------------------------------------------------------------
Unit == [n : Nat, bos : BOOLEAN, seg : Nat]

TypeOK ==
  /\ open \in BOOLEAN /\ bus \in Seq(Unit) /\ Len(bus) <= BusSize
  /\ done \in BOOLEAN /\ aborted \in BOOLEAN /\ producer \in {"run", "ended"}
  /\ retry \in 0 .. Retries /\ pos \in 0 .. Total /\ fresh \in BOOLEAN
  /\ remain \in 0 .. Block
  /\ read \in [pc : {"idle", "meta", "media"}, mode : {"copy", "zero"},
               max : Nat, bytes : Seq(Nat)]
  /\ status \in {"none", "data", "done", "end", "timeout", "abort"}
  /\ told \in Nat \cup {-1}
  /\ from \in Nat /\ given \in Seq(Nat) /\ ended \in BOOLEAN

\* README.md:45: the application reads a continuous byte stream, although
\* frames and reads are cut at different places, a read can time out inside a
\* frame, slots can be empty and a seek can come at any place in a frame; and
\* is_done comes with the very last byte or after it, never before.
Stream == INSTANCE HlsStream
ContinuousStream == Stream!Spec

\* The callback that tells the format of a segment (file_seg_cb) runs before a
\* byte of that segment is taken, also when the frame that said so was empty.
ToldBeforeMedia ==
  read.pc = "media" /\ bus # <<>> => told = SegOf(Head(bus).n)

\* Once the thread wrote the end or aborted the bus, an application that goes
\* on reading is told, unless it seeks or closes.
EndIsReported   == done ~> (ended \/ aborted \/ ~ done \/ ~ open)
AbortIsReported == aborted ~> (status = "abort" \/ ~ aborted \/ ~ open)
=============================================================================
