------------------------------ MODULE VideoEnc ------------------------------
(***************************************************************************)
(* The encoders of esp_video_codec: the front end (esp_video_enc.c), the   *)
(* registry it looks codecs up in, and the four encoders behind it.  The   *)
(* two H.264 encoders, which differ in defaults only, and the software     *)
(* MJPEG encoder create the encoder of the library they wrap when the      *)
(* first frame comes; until then settings go to a configuration.  The      *)
(* hardware MJPEG encoder hands its configuration over with every frame.   *)
(*                                                                         *)
(* One open encoder is modelled: two share nothing but constants.  The     *)
(* wrapped libraries are external: creating, opening, setting and coding   *)
(* may each fail; jpeg_enc_set_quality takes the qualities that            *)
(* esp_jpeg_enc.h lists and no other, esp_h264 refuses parameters of a     *)
(* NULL handle, and both keep what they were created with until it is set. *)
(***************************************************************************)
EXTENDS VideoReg

CONSTANTS
  H264, Mjpeg,   \* the codec types
  Own,           \* the library's encoders among Descs; only they are opened
  Values,        \* arguments of the calls that set a number
  Rates,         \* frame rates an encoder is opened with
  MaxLibs,       \* bound on the codecs registered at a time
  Byte,          \* 2^8: the width of fps and gop in esp_h264_enc_cfg_t
  Settable,      \* what the application sets
  EarlyQuality,  \* it sets the quality of software MJPEG before a frame too
  OddQuality     \* it sets it to what jpeg_enc_set_quality refuses, too

\* esp_video_enc_set_type_t; "other" stands for those no codec supports.
Keys == {"bitrate", "fps", "gop", "qp", "quality", "rotate", "chroma", "other"}

ASSUME EncConstants ==
  /\ {H264, Mjpeg} \subseteq Types /\ H264 # Mjpeg
  /\ Own \subseteq Descs /\ \A d \in Own : d.type \in {H264, Mjpeg}
  /\ Byte \in Nat \ {0} /\ Values \subseteq Nat /\ Rates \subseteq Nat \ {0}
  /\ Settable \subseteq Keys /\ EarlyQuality \in BOOLEAN /\ OddQuality \in BOOLEAN

VARIABLES
  ops,    \* the registered codec the handle was opened with, or NoLib
  cfg,    \* enc_cfg of the open encoder
  inner,  \* enc_handle: "none", "new" (created, not opened), "open"
  param,  \* the settings the wrapped encoder works with
  call    \* history: the last call and its answer

encVars == <<libs, ops, cfg, inner, param, call>>

Closed == [op |-> "closed"]
Lazy   == ~ (ops.type = Mjpeg /\ ops.hw)
SoftwareMjpeg == ops.type = Mjpeg /\ ~ ops.hw

\* The arguments of the calls of the front end.
Arguments(k) ==
  CASE k = "qp"     -> Values \X Values
    [] k = "rotate" -> {0, 45, 90, 360}
    [] OTHER        -> Values

ByteOf(v) == v % Byte

\* Bitrate is in units of width * height / 20; 0 is the rotation and stands for
\* the subsampling a codec begins with, and for settings it has no use for.
Defaults(lib, fps) ==
  [k \in Keys |-> CASE k = "fps" -> ByteOf(fps) [] k = "gop" -> ByteOf(2 * fps)
                    [] k = "bitrate" -> fps
                    [] k = "qp" -> <<25, IF lib.hw THEN 35 ELSE 25>>
                    [] k = "quality" -> IF lib.hw THEN 45 ELSE 60
                    [] OTHER -> 0]

-----------------------------------------------------------------------------
(* The registry.                                                           *)

Register(d) ==
  Len(libs) < MaxLibs /\ AddLibs(d) /\ UNCHANGED <<ops, cfg, inner, param, call>>

Unregister(d) == RemoveLibs(d) /\ UNCHANGED <<ops, cfg, inner, param, call>>

-----------------------------------------------------------------------------
(* Calls on a handle.  A call that fails has no effect; an open that fails *)
(* releases what it made.                                                  *)

Fails ==
  /\ call' = [op |-> "failed"]
  /\ UNCHANGED <<libs, ops, cfg, inner, param>>

Open(q, fps) ==
  /\ ops = NoLib
  /\ LET lib == LibExists(libs, q)
     IN  \/ Fails
         \/ /\ lib \in Own
            /\ ops' = lib
            /\ cfg' = Defaults(lib, fps)
            /\ inner' = "none" /\ param' = Closed
            /\ call' = [op |-> "open"]
            /\ UNCHANGED libs

Answer(k, v, ok) == call' = [op |-> "set", key |-> k, value |-> v, ok |-> ok]

Configure(k, v) == cfg' = [cfg EXCEPT ![k] = v] /\ UNCHANGED param
PassOn(k, v)    == param' = [param EXCEPT ![k] = v] /\ UNCHANGED cfg
Ignore          == UNCHANGED <<cfg, param>>

SetH264Configured(k, v, ok) ==   \* does not look at enc_handle
  \/ ok /\ k \in {"bitrate", "fps", "gop", "qp"} /\ Configure(k, v)
  \/ ~ ok /\ k \notin {"bitrate", "fps", "gop", "qp"} /\ Ignore

\* Before the first frame a setting is configured, after it passed on, which
\* the wrapped encoder may refuse; qp can be set before only.
SetH264(k, v, ok) ==
  LET value == IF k \in {"fps", "gop"} THEN ByteOf(v) ELSE v
      now   == {"bitrate", "fps", "gop"}
  IN  \/ ok /\ k \in now \cup {"qp"} /\ inner = "none" /\ Configure(k, value)
      \/ ok /\ k \in now /\ inner = "open" /\ PassOn(k, value)
      \/ ~ ok /\ (inner # "none" \/ k \notin now \cup {"qp"}) /\ Ignore

\* The degrees that name a jpeg_rotate_t; a degree stands for its quarter.
Turn(degree) == degree % 90 = 0 /\ degree \div 90 <= 3

\* The qualities jpeg_enc_set_quality takes.
TakesQuality(v) == v \in 1 .. 100

\* Rotation and subsampling are configured before the first frame.  Quality
\* goes to the wrapped encoder, whose answer nobody looks at: before the first
\* frame there is none, after it a quality may be refused; both are answered OK,
\* and the setting is lost.
SetSoftwareMjpeg(k, v, ok) ==
  LET early == inner = "none" /\ (k = "chroma" \/ (k = "rotate" /\ Turn(v)))
  IN  \/ ok /\ early /\ Configure(k, v)
      \/ ok /\ k = "quality" /\ inner = "open" /\ TakesQuality(v) /\ PassOn(k, v)
      \/ ok /\ k = "quality" /\ inner = "open" /\ ~ TakesQuality(v) /\ OddQuality /\ Ignore
      \/ ok /\ k = "quality" /\ inner = "none" /\ EarlyQuality /\ Ignore
      \/ ~ ok /\ k # "quality" /\ ~ early /\ Ignore

SetHardwareMjpeg(k, v, ok) ==
  \/ ok /\ k \in {"chroma", "quality"} /\ Configure(k, v)
  \/ ~ ok /\ k \notin {"chroma", "quality"} /\ Ignore

\* The type the call for k sends to the codec: set_gop sends the rate's.
Sent(k) == IF k = "gop" THEN "fps" ELSE k

Set(k, v) ==
  /\ ops # NoLib
  /\ \E ok \in BOOLEAN :
       /\ Answer(k, v, ok)
       /\ IF k = "qp" /\ v[1] > v[2]
            THEN ~ ok /\ Ignore
            ELSE CASE ops.type = H264 -> SetH264(Sent(k), v, ok)
                   [] SoftwareMjpeg   -> SetSoftwareMjpeg(Sent(k), v, ok)
                   [] OTHER           -> SetHardwareMjpeg(Sent(k), v, ok)
  /\ UNCHANGED <<libs, ops, inner>>

\* What the wrapped encoder codes a frame with.
InForce == IF inner = "open" THEN param ELSE cfg

Codes == call' = [op |-> "code", with |-> InForce']

\* encode.  The first frame creates the wrapped encoder; when H.264's cannot
\* be opened it stays created, and later frames go to it as it is.
Process ==
  /\ ops # NoLib
  /\ UNCHANGED <<libs, ops, cfg>>
  /\ \/ Ignore /\ UNCHANGED inner /\ call' = [op |-> "failed"]
     \/ /\ Lazy /\ inner = "none"
        /\ inner' = "open" /\ param' = cfg
        /\ Codes \/ call' = [op |-> "failed"]
     \/ /\ ops.type = H264 /\ inner = "none"
        /\ inner' = "new" /\ UNCHANGED param
        /\ call' = [op |-> "failed"]
     \/ /\ inner = "open" \/ ~ Lazy
        /\ UNCHANGED <<inner, param>>
        /\ Codes

CloseLeak ==   \* leaves the wrapped encoder
  /\ ops # NoLib
  /\ ops' = NoLib /\ cfg' = Closed /\ param' = Closed
  /\ call' = [op |-> "close"]
  /\ UNCHANGED <<libs, inner>>

Close ==
  /\ ops # NoLib
  /\ ops' = NoLib /\ cfg' = Closed /\ inner' = "none" /\ param' = Closed
  /\ call' = [op |-> "close"]
  /\ UNCHANGED libs

Init ==
  /\ RegInit
  /\ ops = NoLib /\ cfg = Closed /\ inner = "none" /\ param = Closed
  /\ call = [op |-> "none"]

Next ==
  \/ \E d \in Descs : Register(d) \/ Unregister(d)
  \/ \E q \in Query, fps \in Rates : Open(q, fps)
  \/ \E k \in Settable : \E v \in Arguments(k) : Set(k, v)
  \/ Process \/ Close

Spec == Init /\ [][Next]_encVars

-----------------------------------------------------------------------------
\* Types; and a handle has a configuration exactly while it is open.
EncTypeOK ==
  /\ RegTypeOK
  /\ ops \in Own \cup {NoLib} /\ (ops = NoLib <=> cfg = Closed)
  /\ inner \in {"none", "new", "open"}
  /\ (param # Closed) = (inner = "open")
  /\ ops = NoLib => inner = "none"
  /\ ~ Lazy => inner = "none"

\* A setting that was answered OK is what every later frame is coded with,
\* across the creation of the wrapped encoder and its failures; a refused
\* one changes nothing (esp_video_enc.h, "ESP_VC_ERR_OK Set success").  The
\* code breaks this for the GOP and, in two ways, for the quality of software
\* MJPEG: Settable, EarlyQuality and OddQuality say whether they are set.
Promise == INSTANCE EncSettings
  WITH setting <- IF ops = NoLib THEN Closed ELSE InForce

SettingsTakeEffect == Promise!Spec
=============================================================================
