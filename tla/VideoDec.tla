------------------------------ MODULE VideoDec ------------------------------
(***************************************************************************)
(* The decoders of esp_video_codec: the front end (esp_video_dec.c), the   *)
(* registry it looks codecs up in, and the three decoders behind it, with  *)
(* an application that decodes a stream the way the repository's test does *)
(* (video_codec_test.c:687-708): it calls again until a packet is          *)
(* consumed, and when its buffer was too small makes one of the size that  *)
(* the frame information asks for and calls again.                         *)
(*                                                                         *)
(* A packet is a sequence of units: pictures, by their size, or Silent     *)
(* ones (parameter sets), which give no frame.  Of MJPEG it is one         *)
(* picture.  The wrapped libraries are external: H.264 takes units up to   *)
(* one that gives a frame at most and reports how many it took; any of     *)
(* them may fail.  One pixel takes one byte.                               *)
(***************************************************************************)
EXTENDS VideoReg

CONSTANTS
  H264, Mjpeg,  \* the codec types
  Own,          \* the library's decoders among Descs; only they are opened
  Stream,       \* the packets that are decoded with each of Own
  Silent,       \* a unit that gives no frame
  Align,        \* 16: the hardware's alignment of widths
  Bufs,         \* where the application puts packets
  Rooms,        \* sizes of its frame buffer at first
  MaxLibs,      \* bound on the codecs registered at a time
  GivesUp       \* the application may drop a packet instead of retrying

Size == [w : Nat, h : Nat]

ASSUME DecConstants ==
  /\ {H264, Mjpeg} \subseteq Types /\ H264 # Mjpeg
  /\ Own \subseteq Descs /\ \A d \in Own : d.type \in {H264, Mjpeg}
  /\ Align \in Nat \ {0} /\ Rooms \subseteq Nat /\ GivesUp \in BOOLEAN
  /\ Silent \notin Size /\ \A d \in Own : Stream[d] \in Seq(Seq(Size \cup {Silent}))
  /\ \A d \in Own : d.type = Mjpeg =>
       \A i \in DOMAIN Stream[d] : Len(Stream[d][i]) = 1 /\ Stream[d][i][1] # Silent

VARIABLES
  ops,      \* the registered codec the handle was opened with, or NoLib
  opened,   \* software MJPEG: opened; hardware: header_parsed
  info,     \* what get_frame_info gives: frame_info, jpeg_info or param_handle
  expect,   \* hardware MJPEG: expect_out_size
  kept,     \* software H.264: out_frame with last_dec_data, last_consume_size
  packet, buf, at,  \* the packet passed in, its place, the units consumed
  room,     \* the size of the application's frame buffer
  status,   \* what the last call returned
  fed,      \* history: the units software H.264 has decoded
  given,    \* history: the units whose frames the application was given
  dropped   \* history: the packets it dropped

codecVars == <<opened, info, expect, kept>>
appVars   == <<packet, buf, at, room, status, given, dropped>>
decVars   == <<libs, ops, codecVars, appVars, fed>>

NoSize  == [w |-> 0, h |-> 0]
Nothing == [unit |-> <<0, 0>>, data |-> <<>>, consume |-> 0]

AlignUp(n) == ((n + Align - 1) \div Align) * Align
Area(s)    == s.w * s.h
Aligned(s) == [s EXCEPT !.w = AlignUp(s.w)]

Packets == Stream[ops]
Unit(u) == Packets[u[1]][u[2]]
Current == IF packet = 0 THEN <<>> ELSE Packets[packet]
Data    == <<buf, at>>

-----------------------------------------------------------------------------
(* The registry, and the life of a handle.                                 *)

Register(d) ==
  /\ Len(libs) < MaxLibs /\ AddLibs(d)
  /\ UNCHANGED <<ops, codecVars, appVars, fed>>

Unregister(d) == RemoveLibs(d) /\ UNCHANGED <<ops, codecVars, appVars, fed>>

\* An open that fails releases what it made.
Open(q, r) ==
  /\ ops = NoLib /\ LibExists(libs, q) \in Own
  /\ ops' = LibExists(libs, q)
  /\ room' = r
  /\ UNCHANGED <<libs, codecVars, packet, buf, at, status, given, dropped, fed>>

Fresh ==
  /\ opened = FALSE /\ info = NoSize /\ expect = 0 /\ kept = Nothing
  /\ packet = 0 /\ at = 0 /\ buf \in Bufs /\ status = "none"
  /\ fed = <<>> /\ given = <<>> /\ dropped = {}

Close ==
  /\ ops # NoLib
  /\ ops' = NoLib /\ room' = 0
  /\ opened' = FALSE /\ info' = NoSize /\ expect' = 0 /\ kept' = Nothing
  /\ packet' = 0 /\ at' = 0 /\ status' = "none"
  /\ fed' = <<>> /\ given' = <<>> /\ dropped' = {}
  /\ UNCHANGED <<libs, buf>>

-----------------------------------------------------------------------------
(* esp_video_dec_process.                                                  *)

Return(s) == status' = s /\ UNCHANGED <<packet, buf, room, dropped>>

GiveTwice(u, consumed) ==   \* consumed from the packet's beginning
  Return("ok") /\ given' = Append(given, u) /\ at' = at + at + consumed

Give(u, consumed) ==
  Return("ok") /\ given' = Append(given, u) /\ at' = at + consumed

Keep(s) == Return(s) /\ UNCHANGED <<given, at>>

TooSmallByOne(size) == room <= Area(size)
TooSmall(size)      == room < Area(size)

\* Whether the frame kept from a call whose buffer was too small is taken for
\* that of this call: when the address of the data is the same.
IsKeptNever == FALSE
IsKept      == kept.consume > 0 /\ kept.data = Data

\* copy_output_frame, and what follows it in both places.
CopyOutputKeep(u, n) ==   \* out_size is not reset
  Give(u, n) /\ kept' = [unit |-> u, data |-> Data, consume |-> n]
CopyOutput(u, n) == Give(u, n) /\ kept' = Nothing

\* The library takes n units, the last of which may give a frame.
H264Decode(n) ==
  LET last == <<packet, at + n>>
      size == Unit(last)
  IN  /\ \A i \in at + 1 .. at + n - 1 : Current[i] = Silent
      /\ fed' = fed \o [i \in 1 .. n |-> <<packet, at + i>>]
      /\ \/ /\ size = Silent
            /\ Return("ok") /\ at' = at + n /\ kept' = Nothing
            /\ UNCHANGED <<given, info>>
         \/ /\ size # Silent /\ info' = size
            /\ IF TooSmall(size)
                 THEN /\ Keep("short")
                      /\ kept' = [unit |-> last, data |-> Data, consume |-> n]
                 ELSE CopyOutput(last, n)

DecodeH264 ==
  /\ ops.type = H264
  /\ \/ /\ IsKept
        /\ IF TooSmall(Unit(kept.unit))
             THEN Keep("short") /\ UNCHANGED kept
             ELSE CopyOutput(kept.unit, kept.consume)
        /\ UNCHANGED <<info, fed>>
     \/ ~ IsKept /\ \E n \in 1 .. Len(Current) - at : H264Decode(n)
     \/ ~ IsKept /\ Keep("fail") /\ UNCHANGED <<kept, info, fed>>
  /\ UNCHANGED <<opened, expect>>

\* The hardware's header is parsed for the first picture ...
ParsedLate(size) == info
Parsed(size)     == IF opened THEN info ELSE size
Expected(size)   == IF opened THEN expect ELSE Area(size)

\* ... and again after one that has another size in bytes.
ReparsedNever(size) == Parsed(size)
Reparsed(size)      == IF Area(size) # Expected(size) THEN size ELSE Parsed(size)

DecodeHardware ==
  LET u    == <<packet, at + 1>>
      size == Aligned(Unit(u))
  IN  /\ ops.type = Mjpeg /\ ops.hw
      /\ \/ Keep("fail") /\ UNCHANGED <<opened, info, expect>>
         \/ /\ opened' = TRUE
            /\ Keep("fail") \/ (TooSmall(size) /\ Keep("short"))
            /\ info' = Parsed(size) /\ expect' = Expected(size)
         \/ /\ opened' = TRUE
            /\ ~ TooSmall(size) /\ Give(u, 1)
            /\ info' = Reparsed(size) /\ expect' = Area(size)
      /\ UNCHANGED <<kept, fed>>

\* Software: opened by the first picture; every header is parsed.
DecodeSoftware ==
  LET u    == <<packet, at + 1>>
      size == Unit(u)
  IN  /\ ops.type = Mjpeg /\ ~ ops.hw
      /\ \/ Keep("fail") /\ opened' \in {opened, TRUE} /\ UNCHANGED info
         \/ /\ opened' = TRUE /\ info' = size
            /\ IF TooSmall(size) THEN Keep("short")
                                 ELSE Give(u, 1) \/ Keep("fail")
      /\ UNCHANGED <<kept, expect, fed>>

Decode ==
  /\ ops # NoLib /\ at < Len(Current) /\ status \in {"none", "ok"}
  /\ DecodeH264 \/ DecodeHardware \/ DecodeSoftware
  /\ UNCHANGED <<libs, ops>>

-----------------------------------------------------------------------------
(* The application.                                                        *)

\* A buffer of the size the frame information asks for, and the same call.
Retry ==
  /\ status = "short"
  /\ room' = Area(info) /\ status' = "none"
  /\ UNCHANGED <<libs, ops, codecVars, packet, buf, at, given, dropped, fed>>

\* The next packet, when this one is consumed or will not be.
NextPacket(b) ==
  /\ ops # NoLib /\ packet < Len(Packets)
  /\ \/ status \in {"none", "ok"} /\ at = Len(Current)
     \/ status = "fail" \/ (status = "short" /\ GivesUp)
  /\ dropped' = IF at = Len(Current) THEN dropped ELSE dropped \cup {packet}
  /\ packet' = packet + 1 /\ at' = 0 /\ buf' = b /\ status' = "none"
  /\ UNCHANGED <<libs, ops, codecVars, room, given, fed>>

Init == RegInit /\ ops = NoLib /\ room = 0 /\ Fresh

Next ==
  \/ \E d \in Descs : Register(d) \/ Unregister(d)
  \/ \E q \in Query, r \in Rooms : Open(q, r)
  \/ Close
  \/ Decode \/ Retry
  \/ \E b \in Bufs : NextPacket(b)

\* The application that has a packet goes on with it.
Spec == Init /\ [][Next]_decVars /\ WF_decVars(Decode) /\ WF_decVars(Retry)

-----------------------------------------------------------------------------
\* Types; and nothing is left of a handle that was closed.
DecTypeOK ==
  /\ RegTypeOK
  /\ ops \in Own \cup {NoLib}
  /\ opened \in BOOLEAN /\ status \in {"none", "ok", "short", "fail"}
  /\ DOMAIN info = {"w", "h"} /\ expect \in Nat /\ room \in Nat
  /\ ops = NoLib => Fresh
  /\ ops # NoLib => packet \in 0 .. Len(Packets) /\ at \in 0 .. Len(Current)

Before(u, v) == u[1] < v[1] \/ (u[1] = v[1] /\ u[2] < v[2])

Increasing(s) == \A i \in 1 .. Len(s) - 1 : Before(s[i], s[i + 1])

\* The frames come in the order of the stream, none twice, each from the
\* packet passed in; and all come of a packet that was not dropped: a frame
\* that did not fit is neither lost nor given again by the retry, and the
\* units behind it are not skipped (esp_video_dec_sw_h264.c:123-130, 145-153).
EveryFrameOnce ==
  /\ Increasing(given)
  /\ ops # NoLib =>
       \A p \in 1 .. packet : \A i \in DOMAIN Packets[p] :
         \/ Packets[p][i] = Silent \/ p \in dropped
         \/ p = packet /\ i > at
         \/ \E j \in DOMAIN given : given[j] = <<p, i>>

\* The wrapped H.264 decoder, whose pictures build on each other, is never
\* given a unit twice: a retry is answered from the frame that was kept.
DecodedOnce == Increasing(fed)

\* When the buffer was too small the frame information tells the size that
\* is enough, so the call after that succeeds
\* (video_codec_test.c:692, "reallocate it and retry").
RetryFits ==
  status = "short" => Area(info) >=
    (IF ops.type = H264 THEN Area(Unit(kept.unit))
     ELSE IF ops.hw THEN Area(Aligned(Current[1])) ELSE Area(Current[1]))

\* After a picture was decoded the frame information is its size
\* (esp_video_dec_mjpeg.c:143, "Update frame information if width or height
\* changed").
InfoIsCurrent ==
  status = "ok" /\ given # <<>> =>
    LET size == Unit(given[Len(given)])
    IN  info = (IF ops.type = Mjpeg /\ ops.hw THEN Aligned(size) ELSE size)

MaxPackets == 4   \* at least as long as the streams and packets of a run
MaxUnits   == 3

\* Retrying ends: the call that was answered with "buffer not enough" gets
\* its frame, fails, or is given up (esp_video_dec.h, "can reallocate and
\* retry").
RetryEnds ==
  \A p \in 1 .. MaxPackets, a \in 0 .. MaxUnits :
    (ops # NoLib /\ packet = p /\ at = a /\ status = "short")
      ~> (ops = NoLib \/ packet # p \/ at # a \/ status = "fail")
=============================================================================
