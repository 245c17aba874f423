--------------------------- MODULE VideoEncProofs ---------------------------
(***************************************************************************)
(* Theorems about the encoders: their registry is the one of VideoReg, so  *)
(* what is proved of that one holds; and an encoder keeps the promise of   *)
(* EncSettings for the settings that the code does not lose or misdirect,  *)
(* for any values, any codecs and any order of calls and failures.         *)
(***************************************************************************)
EXTENDS VideoEnc, VideoRegProofs

\* A handle has a configuration while it is open, a wrapped encoder has
\* parameters while that is, and the hardware MJPEG encoder has none.
HandleInv ==
  /\ ops \in Own \cup {NoLib}
  /\ ops = NoLib => cfg = Closed
  /\ ops # NoLib => cfg = [k \in Keys |-> cfg[k]]
  /\ inner \in {"none", "new", "open"}
  /\ inner = "open" => param = [k \in Keys |-> param[k]]
  /\ inner # "open" => param = Closed
  /\ ops = NoLib \/ ~ Lazy => inner = "none"

\* A configuration is told from Closed by its domain.
LEMMA SettingsAreNotClosed ==
  ASSUME NEW s, s = [k \in Keys |-> s[k]]
  PROVE  s # Closed
<1>1. DOMAIN s = Keys /\ DOMAIN Closed = {"op"}
  BY DEF Closed
<1>2. "op" \notin Keys
  BY DEF Keys
<1> QED
  BY <1>1, <1>2

LEMMA OwnIsNotNoLib == NoLib \notin Own
  BY RegConstants, EncConstants DEF NoLib, Desc

\* Changing one setting gives settings again.
LEMMA SettingsStaySettings ==
  ASSUME NEW s, s = [k \in Keys |-> s[k]], NEW key, NEW v
  PROVE  [s EXCEPT ![key] = v] = [k \in Keys |-> [s EXCEPT ![key] = v][k]]
OBVIOUS

LEMMA SetKeepsHandle ==
  ASSUME HandleInv, NEW k \in Settable, NEW v \in Arguments(k), Set(k, v)
  PROVE  HandleInv'
<1>1. ops # NoLib /\ UNCHANGED <<ops, inner>>
  BY DEF Set
<1>2. PICK ok \in BOOLEAN :
        \/ Ignore
        \/ SetH264(Sent(k), v, ok)
        \/ SoftwareMjpeg /\ SetSoftwareMjpeg(Sent(k), v, ok)
        \/ ops.type # H264 /\ ~ SoftwareMjpeg /\ SetHardwareMjpeg(Sent(k), v, ok)
  BY DEF Set
<1>3. \/ Ignore
      \/ \E key, value : Configure(key, value)
      \/ inner = "open" /\ \E key, value : PassOn(key, value)
  BY <1>2 DEF SetH264, SetSoftwareMjpeg, SetHardwareMjpeg
<1>4. CASE Ignore
  BY <1>1, <1>4 DEF Ignore, HandleInv, Lazy
<1>5. ASSUME NEW key, NEW value, Configure(key, value) PROVE HandleInv'
  BY <1>1, <1>5, SettingsStaySettings DEF Configure, HandleInv, Lazy
<1>6. ASSUME inner = "open", NEW key, NEW value, PassOn(key, value) PROVE HandleInv'
  BY <1>1, <1>6, SettingsStaySettings DEF PassOn, HandleInv, Lazy
<1> QED
  BY <1>3, <1>4, <1>5, <1>6

LEMMA HandleInvHolds == Spec => []HandleInv
<1>1. Init => HandleInv
  BY DEF Init, HandleInv
<1>2. HandleInv /\ [Next]_encVars => HandleInv'
  <2> SUFFICES ASSUME HandleInv, [Next]_encVars PROVE HandleInv'
    OBVIOUS
  <2>1. CASE UNCHANGED encVars
    BY <2>1 DEF encVars, HandleInv, Lazy
  <2>2. ASSUME NEW d \in Descs, Register(d) \/ Unregister(d) PROVE HandleInv'
    BY <2>2 DEF Register, Unregister, HandleInv, Lazy
  <2>3. ASSUME NEW q \in Query, NEW fps \in Rates, Open(q, fps) PROVE HandleInv'
    <3>1. CASE Fails
      BY <3>1 DEF Fails, HandleInv, Lazy
    <3>2. CASE ~ Fails
      BY <2>3, <3>2, OwnIsNotNoLib DEF Open, HandleInv, Defaults, Lazy
    <3> QED BY <3>1, <3>2
  <2>4. ASSUME NEW k \in Settable, NEW v \in Arguments(k), Set(k, v) PROVE HandleInv'
    BY <2>4, SetKeepsHandle
  <2>5. CASE Process
    <3>1. \/ UNCHANGED <<inner, param>>
          \/ Lazy /\ inner' = "open" /\ param' = cfg
          \/ Lazy /\ inner = "none" /\ inner' = "new" /\ UNCHANGED param
      BY <2>5, EncConstants DEF Process, Ignore, Lazy
    <3>2. ops # NoLib /\ UNCHANGED <<ops, cfg>>
      BY <2>5 DEF Process
    <3> QED BY <3>1, <3>2 DEF HandleInv, Lazy
  <2>6. CASE Close
    BY <2>6 DEF Close, HandleInv
  <2> QED BY <2>1, <2>2, <2>3, <2>4, <2>5, <2>6 DEF Next
<1> QED
  BY <1>1, <1>2, PTL DEF Spec

\* The configurations the theorem is about: no GOP (its call sets the rate),
\* no quality of software MJPEG before a frame or out of the range of
\* jpeg_enc_set_quality (both are answered OK and lost), no number wider than
\* the field it goes to.
Supported ==
  /\ "gop" \notin Settable /\ ~ EarlyQuality /\ ~ OddQuality
  /\ \A v \in Values : v < Byte

\* The settings a frame would be coded with; Closed without a handle.
InForceNow == IF ops = NoLib THEN Closed ELSE InForce

LEMMA OpenHasSettings ==
  ASSUME HandleInv
  PROVE  InForceNow = Closed <=> ops = NoLib
<1>1. CASE ops = NoLib
  BY <1>1 DEF InForceNow
<1>2. CASE ops # NoLib
  <2>1. InForce = [k \in Keys |-> InForce[k]]
    BY <1>2 DEF HandleInv, InForce
  <2>2. InForce # Closed
    BY <2>1, SettingsAreNotClosed
  <2> QED BY <1>2, <2>2 DEF InForceNow
<1> QED
  BY <1>1, <1>2

LEMMA SetKeepsPromise ==
  ASSUME Supported, HandleInv, NEW k \in Settable, NEW v \in Arguments(k), Set(k, v)
  PROVE  /\ ops # NoLib /\ call'.op = "set" /\ call'.key = k
         /\ InForceNow' = IF call'.ok THEN [InForceNow EXCEPT ![k] = call'.value]
                                      ELSE InForceNow
<1>1. ops # NoLib /\ UNCHANGED <<ops, inner>>
  BY DEF Set
<1>2. Sent(k) = k /\ k # "gop"
  BY DEF Sent, Supported
<1>3. k = "fps" => ByteOf(v) = v
  <2> SUFFICES ASSUME k = "fps" PROVE ByteOf(v) = v
    OBVIOUS
  <2>1. v \in Values
    BY DEF Arguments
  <2>2. v \in Nat /\ v < Byte /\ Byte \in Nat \ {0}
    BY <2>1, EncConstants DEF Supported
  <2> QED BY <2>2 DEF ByteOf
<1>4. PICK ok \in BOOLEAN :
        /\ Answer(k, v, ok)
        /\ \/ ~ ok /\ Ignore
           \/ ops.type = H264 /\ SetH264(k, v, ok)
           \/ SoftwareMjpeg /\ SetSoftwareMjpeg(k, v, ok)
           \/ ops.type # H264 /\ ~ SoftwareMjpeg /\ SetHardwareMjpeg(k, v, ok)
  BY <1>2 DEF Set
<1>5. call'.op = "set" /\ call'.key = k /\ call'.value = v /\ call'.ok = ok
  BY <1>4 DEF Answer
<1>6. CASE ~ ok
  <2>1. Ignore
    BY <1>4, <1>6 DEF SetH264, SetSoftwareMjpeg, SetHardwareMjpeg
  <2> QED BY <1>1, <1>5, <1>6, <2>1 DEF Ignore, InForceNow, InForce
<1>7. CASE ok
  <2>1. \/ inner # "open" /\ Configure(k, v)
        \/ inner = "open" /\ PassOn(k, v)
    <3>1. CASE ops.type = H264 /\ SetH264(k, v, ok)
      BY <1>2, <1>3, <1>7, <3>1 DEF SetH264
    <3>2. CASE SoftwareMjpeg /\ SetSoftwareMjpeg(k, v, ok)
      BY <1>7, <3>2 DEF SetSoftwareMjpeg, Supported
    <3>3. CASE ops.type # H264 /\ ~ SoftwareMjpeg /\ SetHardwareMjpeg(k, v, ok)
      <4>1. ops.type = Mjpeg
        BY <1>1, <3>3, EncConstants DEF HandleInv
      <4>2. inner # "open"
        BY <3>3, <4>1, RegConstants, EncConstants
           DEF HandleInv, Lazy, SoftwareMjpeg, Desc
      <4> QED BY <1>7, <3>3, <4>2 DEF SetHardwareMjpeg
    <3> QED BY <1>4, <1>7, <3>1, <3>2, <3>3
  <2>2. CASE inner # "open" /\ Configure(k, v)
    BY <1>1, <1>5, <1>7, <2>2 DEF Configure, InForceNow, InForce
  <2>3. CASE inner = "open" /\ PassOn(k, v)
    BY <1>1, <1>5, <1>7, <2>3 DEF PassOn, InForceNow, InForce
  <2> QED BY <2>1, <2>2, <2>3
<1> QED
  BY <1>1, <1>5, <1>6, <1>7

LEMMA ProcessKeepsPromise ==
  ASSUME HandleInv, Process
  PROVE  /\ ops # NoLib /\ InForceNow' = InForceNow
         /\ call' = [op |-> "failed"] \/ call' = [op |-> "code", with |-> InForceNow]
<1>1. ops # NoLib /\ UNCHANGED <<ops, cfg>>
  BY DEF Process
<1>2. InForce' = InForce
  <2>1. \/ UNCHANGED <<inner, param>>
        \/ inner = "none" /\ inner' = "open" /\ param' = cfg
        \/ inner = "none" /\ inner' = "new"
    BY DEF Process, Ignore
  <2> QED BY <1>1, <2>1 DEF InForce
<1>3. call' = [op |-> "failed"] \/ call' = [op |-> "code", with |-> InForce']
  BY DEF Process, Codes
<1> QED
  BY <1>1, <1>2, <1>3 DEF InForceNow

-----------------------------------------------------------------------------
\* Registering encoders is what VideoReg says, whatever handles do.
THEOREM EncodersRegister == Spec => RegSpec
<1>1. Init => RegInit
  BY DEF Init
<1>2. [Next]_encVars => [RegNext]_libs
  <2> SUFFICES ASSUME Next PROVE [RegNext]_libs
    BY DEF encVars
  <2>1. ASSUME NEW d \in Descs, Register(d) \/ Unregister(d) PROVE RegNext
    BY <2>1 DEF Register, Unregister, RegNext
  <2>2. ASSUME NEW q \in Query, NEW fps \in Rates, Open(q, fps) PROVE UNCHANGED libs
    BY <2>2 DEF Open, Fails
  <2>3. ASSUME NEW k \in Settable, NEW v \in Arguments(k), Set(k, v) PROVE UNCHANGED libs
    BY <2>3 DEF Set
  <2>4. CASE Process \/ Close
    BY <2>4 DEF Process, Close
  <2> QED BY <2>1, <2>2, <2>3, <2>4 DEF Next
<1> QED
  BY <1>1, <1>2, PTL DEF Spec, RegSpec

\* The types; a handle that is closed keeps no configuration and no wrapped
\* encoder.
THEOREM EncTypeCorrect == Spec => []EncTypeOK
<1>1. HandleInv /\ RegTypeOK => EncTypeOK
  <2> SUFFICES ASSUME HandleInv, RegTypeOK PROVE EncTypeOK
    OBVIOUS
  <2>1. ops # NoLib => cfg # Closed
    BY SettingsAreNotClosed DEF HandleInv
  <2>2. inner = "open" => param # Closed
    BY SettingsAreNotClosed DEF HandleInv
  <2>3. ops = NoLib <=> cfg = Closed
    BY <2>1 DEF HandleInv
  <2>4. (param # Closed) = (inner = "open")
    BY <2>2 DEF HandleInv
  <2> QED BY <2>3, <2>4 DEF HandleInv, EncTypeOK
<1> QED
  BY <1>1, HandleInvHolds, EncodersRegister, RegTypeCorrect, PTL

\* Encoders: no two registered ones have a type and a fourcc in common.
THEOREM EncodersOneOfEach == Spec => []OneOfEachTag
  BY EncodersRegister, OneOfEach, PTL

\* Encoders: a query without a fourcc is answered with hardware if there is any.
THEOREM EncodersPreferHardware == Spec => []HardwareFirst
  BY EncodersRegister, PrefersHardware, PTL

\* Encoders: an answer changes only with its codec or for new hardware.
THEOREM EncoderAnswersAreStable == Spec => AnswersStable
  BY EncodersRegister, AnswersAreStable, PTL

\* What esp_video_enc.h promises, where Supported holds: a setting answered OK
\* is what every later frame is coded with, across the creation of the wrapped
\* encoder and its failures; a refused one changes nothing.  The settings that
\* Supported leaves out break it.
THEOREM EncodersKeepPromise == ASSUME Supported PROVE Spec => SettingsTakeEffect
<1>1. Init => Promise!Init
  BY DEF Init, Promise!Init
<1>2. HandleInv /\ [Next]_encVars => [Promise!Next]_(Promise!settingVars)
  <2> SUFFICES ASSUME HandleInv, [Next]_encVars
               PROVE  [Promise!Next]_(Promise!settingVars)
    OBVIOUS
  <2> USE DEF Promise!settingVars
  <2>0. InForceNow = IF ops = NoLib THEN Closed ELSE InForce
    BY DEF InForceNow
  <2>1. CASE UNCHANGED encVars
    BY <2>1 DEF encVars, InForce
  <2>2. ASSUME NEW d \in Descs, Register(d) \/ Unregister(d)
        PROVE  UNCHANGED Promise!settingVars
    BY <2>2 DEF Register, Unregister, InForce
  <2>3. ASSUME NEW q \in Query, NEW fps \in Rates, Open(q, fps) PROVE Promise!Next
    <3>1. InForceNow = Closed
      BY <2>3 DEF Open, InForceNow
    <3>2. CASE Fails
      <4>1. Promise!Fail
        BY <3>2 DEF Fails, InForce, Promise!Fail
      <4> QED BY <4>1 DEF Promise!Next
    <3>3. CASE ~ Fails
      <4>1. ops' # NoLib /\ HandleInv' /\ call' = [op |-> "open"]
        BY <2>3, <3>3, OwnIsNotNoLib DEF Open, HandleInv, Defaults, Lazy
      <4>2. (InForceNow = Closed <=> ops = NoLib)'
        BY <4>1, OpenHasSettings, PTL
      <4>3. Promise!Open
        BY <2>0, <3>1, <4>1, <4>2 DEF Promise!Open, InForceNow
      <4> QED BY <4>3 DEF Promise!Next
    <3> QED BY <3>2, <3>3
  <2>4. ASSUME NEW k \in Settable, NEW v \in Arguments(k), Set(k, v)
        PROVE  Promise!Next
    <3>1. /\ ops # NoLib /\ call'.op = "set" /\ call'.key = k
          /\ InForceNow' = IF call'.ok THEN [InForceNow EXCEPT ![k] = call'.value]
                                       ELSE InForceNow
      BY <2>4, SetKeepsPromise
    <3>2. InForceNow # Closed
      BY <3>1, OpenHasSettings
    <3>3. Promise!Set(k)
      BY <3>1, <3>2 DEF Promise!Set, InForceNow
    <3>4. k \in Keys
      BY EncConstants
    <3> QED BY <3>3, <3>4 DEF Promise!Next
  <2>5. CASE Process
    <3>1. /\ InForceNow # Closed /\ InForceNow' = InForceNow
          /\ call' = [op |-> "failed"] \/ call' = [op |-> "code", with |-> InForceNow]
      BY <2>5, ProcessKeepsPromise, OpenHasSettings
    <3>2. Promise!Fail \/ Promise!Code
      BY <3>1 DEF Promise!Fail, Promise!Code, InForceNow
    <3> QED BY <3>2 DEF Promise!Next
  <2>6. CASE Close
    <3>1. InForceNow # Closed /\ InForceNow' = Closed /\ call' = [op |-> "close"]
      BY <2>6, OpenHasSettings DEF Close, InForceNow
    <3>2. Promise!Close
      BY <3>1 DEF Promise!Close, InForceNow
    <3> QED BY <3>2 DEF Promise!Next
  <2> QED BY <2>1, <2>2, <2>3, <2>4, <2>5, <2>6 DEF Next
<1> QED
  BY <1>1, <1>2, HandleInvHolds, PTL DEF Spec, SettingsTakeEffect, Promise!Spec
=============================================================================
