--------------------------- MODULE VideoDecProofs ---------------------------
(***************************************************************************)
(* Theorems about the decoders, for any codecs, streams and buffers: an    *)
(* application that retries gets every frame once, the wrapped decoder     *)
(* gets every unit once, and the frame information is what a retry and a   *)
(* frame need, where the hardware's picture does not grow or turn.         *)
(***************************************************************************)
EXTENDS VideoDec, VideoRegProofs

-----------------------------------------------------------------------------
(* Sizes and places in a stream.                                           *)

LEMMA TimesIsNat == ASSUME NEW m \in Nat, NEW n \in Nat PROVE m * n \in Nat
OBVIOUS

LEMMA DivIsNat == ASSUME NEW m \in Nat, NEW n \in Nat \ {0} PROVE m \div n \in Nat
OBVIOUS

LEMMA Sizes ==
  ASSUME NEW s \in Size
  PROVE  Area(s) \in Nat /\ Aligned(s) \in Size /\ Area(Aligned(s)) \in Nat
<1>1. s.w \in Nat /\ s.h \in Nat
  BY DEF Size
<1>2. AlignUp(s.w) \in Nat
  <2>1. Align \in Nat \ {0} /\ s.w + Align - 1 \in Nat
    BY <1>1, DecConstants
  <2> QED
    BY <2>1, DivIsNat, TimesIsNat DEF AlignUp
<1>3. Aligned(s) \in Size /\ Aligned(s).w = AlignUp(s.w) /\ Aligned(s).h = s.h
  BY <1>2 DEF Aligned, Size
<1>4. s.w * s.h \in Nat /\ AlignUp(s.w) * s.h \in Nat
  BY <1>1, <1>2, TimesIsNat
<1> QED
  BY <1>3, <1>4 DEF Area

\* u is a unit up to the a-th of packet p.
UpTo(u, p, a) == u[1] < p \/ (u[1] = p /\ u[2] <= a)

Places == Nat \X Nat

LEMMA UpToMore ==
  ASSUME NEW u \in Places, NEW p \in Nat, NEW a \in Nat, UpTo(u, p, a)
  PROVE  /\ \A b \in Nat : a <= b => UpTo(u, p, b)
         /\ \A b \in Nat : UpTo(u, p + 1, b)
         /\ \A b \in Nat : a < b => Before(u, <<p, b>>)
BY DEF UpTo, Before, Places

\* A sequence that is increasing stays so when later units are put behind it.
LEMMA Longer ==
  ASSUME NEW f, NEW g, NEW k \in Nat, NEW m \in Nat,
         \A i \in 1 .. k - 1 : Before(f[i], f[i + 1]),
         \A i \in 1 .. k : g[i] = f[i],
         k > 0 => Before(f[k], g[k + 1]),
         \A i \in k + 1 .. m - 1 : Before(g[i], g[i + 1])
  PROVE  \A i \in 1 .. m - 1 : Before(g[i], g[i + 1])
<1> SUFFICES ASSUME NEW i \in 1 .. m - 1 PROVE Before(g[i], g[i + 1])
  OBVIOUS
<1>1. CASE i < k
  <2>1. i \in 1 .. k - 1 /\ i \in 1 .. k /\ i + 1 \in 1 .. k
    BY <1>1
  <2> QED
    BY <2>1
<1>2. CASE i = k
  <2>1. k \in 1 .. k /\ k > 0
    BY <1>2
  <2> QED
    BY <1>2, <2>1
<1>3. CASE i > k
  <2>1. i \in k + 1 .. m - 1
    BY <1>3
  <2> QED
    BY <2>1
<1> QED
  BY <1>1, <1>2, <1>3

LEMMA IncreasingAppend ==
  ASSUME NEW s \in Seq(Places), Increasing(s), NEW u \in Places,
         \A j \in DOMAIN s : Before(s[j], u), NEW t, t = Append(s, u)
  PROVE  t \in Seq(Places) /\ Increasing(t)
<1> DEFINE k == Len(s)
           m == Len(t)
<1>1. /\ k \in Nat /\ DOMAIN s = 1 .. k
      /\ t \in Seq(Places) /\ m = k + 1
      /\ \A i \in 1 .. k : t[i] = s[i]
      /\ t[k + 1] = u
  OBVIOUS
<1>2. \A i \in 1 .. k - 1 : Before(s[i], s[i + 1])
  BY DEF Increasing
<1> HIDE DEF k, m
<1>3. k > 0 => Before(s[k], t[k + 1])
  BY <1>1
<1>4. \A i \in k + 1 .. m - 1 : Before(t[i], t[i + 1])
  BY <1>1
<1>5. \A i \in 1 .. m - 1 : Before(t[i], t[i + 1])
  <2>1. m \in Nat
    BY <1>1
  <2> QED
    BY <1>1, <1>2, <1>3, <1>4, <2>1, Longer
<1> QED
  BY <1>1, <1>5 DEF Increasing, m

LEMMA AppendIs ==
  ASSUME NEW S, NEW s \in Seq(S), NEW u \in S
  PROVE  /\ Append(s, u) \in Seq(S) /\ Append(s, u) # <<>> /\ Len(s) \in Nat
         /\ Len(Append(s, u)) = Len(s) + 1 /\ Append(s, u)[Len(s) + 1] = u
         /\ \A i \in 1 .. Len(s) : Append(s, u)[i] = s[i]
OBVIOUS

LEMMA ConcatIs ==
  ASSUME NEW S, NEW s \in Seq(S), NEW n \in Nat, NEW r \in [1 .. n -> S]
  PROVE  /\ s \o r \in Seq(S) /\ Len(s) \in Nat /\ Len(s \o r) = Len(s) + n
         /\ \A i \in 1 .. Len(s) : (s \o r)[i] = s[i]
         /\ \A i \in 1 .. n : (s \o r)[Len(s) + i] = r[i]
<1>1. r \in Seq(S) /\ Len(r) = n
  OBVIOUS
<1> QED
  BY <1>1

\* g is f, k units up to the a-th of packet p, with the n units behind them.
Extended(f, h, g, k, n, p, a) ==
  /\ k \in Nat /\ n \in Nat \ {0} /\ p \in Nat /\ a \in Nat
  /\ \A i \in 1 .. k : f[i] \in Places /\ UpTo(f[i], p, a) /\ g[i] = f[i]
  /\ \A i \in 1 .. k - 1 : Before(f[i], f[i + 1])
  /\ \A i \in 1 .. n : h[i] = <<p, a + i>> /\ g[k + i] = h[i]

LEMMA LongerBy ==
  ASSUME NEW f, NEW h, NEW g, NEW k, NEW n, NEW p, NEW a, Extended(f, h, g, k, n, p, a)
  PROVE  /\ \A i \in 1 .. k + n - 1 : Before(g[i], g[i + 1])
         /\ \A i \in 1 .. k + n : UpTo(g[i], p, a + n)
<1>0. /\ k \in Nat /\ n \in Nat \ {0} /\ p \in Nat /\ a \in Nat
      /\ \A i \in 1 .. k : f[i] \in Places /\ UpTo(f[i], p, a) /\ g[i] = f[i]
      /\ \A i \in 1 .. k - 1 : Before(f[i], f[i + 1])
      /\ \A i \in 1 .. n : h[i] = <<p, a + i>> /\ g[k + i] = h[i]
  BY DEF Extended
<1> USE <1>0
<1>1. \A i \in 1 .. n - 1 : Before(h[i], h[i + 1])
  <2> SUFFICES ASSUME NEW i \in 1 .. n - 1 PROVE Before(h[i], h[i + 1])
    OBVIOUS
  <2>1. i \in 1 .. n /\ i + 1 \in 1 .. n /\ a + i < a + (i + 1)
    OBVIOUS
  <2> QED
    BY <2>1 DEF Before
<1>2. \A i \in 1 .. n : UpTo(h[i], p, a + n)
  <2> SUFFICES ASSUME NEW i \in 1 .. n PROVE UpTo(h[i], p, a + n)
    OBVIOUS
  <2>1. h[i] = <<p, a + i>> /\ a + i <= a + n
    OBVIOUS
  <2> QED
    BY <2>1 DEF UpTo
<1>3. ASSUME NEW u \in Places, UpTo(u, p, a)
      PROVE  Before(u, h[1]) /\ UpTo(u, p, a + n)
  <2>1. h[1] = <<p, a + 1>> /\ a < a + 1 /\ a <= a + n /\ a + 1 \in Nat /\ a + n \in Nat
    OBVIOUS
  <2> QED
    BY <1>3, <2>1, UpToMore
<1>4. k > 0 => Before(f[k], g[k + 1])
  <2> SUFFICES ASSUME k > 0 PROVE Before(f[k], g[k + 1])
    OBVIOUS
  <2>1. k \in 1 .. k /\ 1 \in 1 .. n
    OBVIOUS
  <2> QED
    BY <1>3, <2>1
<1>5. \A i \in k + 1 .. k + n - 1 : Before(g[i], g[i + 1])
  <2> SUFFICES ASSUME NEW i \in k + 1 .. k + n - 1 PROVE Before(g[i], g[i + 1])
    OBVIOUS
  <2>1. PICK j \in 1 .. n - 1 : i = k + j
    <3>1. i - k \in 1 .. n - 1 /\ i = k + (i - k)
      OBVIOUS
    <3> QED
      BY <3>1
  <2>2. j \in 1 .. n /\ j + 1 \in 1 .. n /\ i + 1 = k + (j + 1)
    BY <2>1
  <2>3. g[i] = h[j] /\ g[i + 1] = h[j + 1]
    BY <2>1, <2>2
  <2> QED
    BY <1>1, <2>1, <2>3
<1>6. \A i \in 1 .. k + n - 1 : Before(g[i], g[i + 1])
  BY <1>4, <1>5, Longer
<1>7. ASSUME NEW i \in 1 .. k + n PROVE UpTo(g[i], p, a + n)
  <2>1. CASE i <= k
    <3>1. i \in 1 .. k
      BY <2>1
    <3> QED
      BY <1>3, <3>1
  <2>2. CASE ~(i <= k)
    <3>1. i - k \in 1 .. n /\ i = k + (i - k)
      BY <2>2
    <3> QED
      BY <1>2, <3>1
  <2> QED
    BY <2>1, <2>2
<1> QED
  BY <1>6, <1>7

LEMMA IncreasingConcat ==
  ASSUME NEW s \in Seq(Places), Increasing(s), NEW p \in Nat, NEW a \in Nat, NEW n \in Nat \ {0},
         \A j \in DOMAIN s : UpTo(s[j], p, a), NEW more \in [1 .. n -> Places],
         \A i \in 1 .. n : more[i] = <<p, a + i>>, NEW t, t = s \o more
  PROVE  /\ t \in Seq(Places) /\ Increasing(t)
         /\ \A j \in DOMAIN t : UpTo(t[j], p, a + n)
<1> DEFINE k == Len(s)
<1>1. /\ t \in Seq(Places) /\ k \in Nat /\ Len(t) = k + n
      /\ \A i \in 1 .. k : t[i] = s[i]
      /\ \A i \in 1 .. n : t[k + i] = more[i]
  <2>1. n \in Nat /\ more \in [1 .. n -> Places] /\ s \in Seq(Places)
    OBVIOUS
  <2>2. /\ s \o more \in Seq(Places) /\ Len(s) \in Nat /\ Len(s \o more) = Len(s) + n
        /\ \A i \in 1 .. Len(s) : (s \o more)[i] = s[i]
        /\ \A i \in 1 .. n : (s \o more)[Len(s) + i] = more[i]
    BY <2>1, ConcatIs
  <2> QED
    BY <2>2
<1>2. /\ DOMAIN s = 1 .. k
      /\ \A i \in 1 .. k : s[i] \in Places
      /\ \A i \in 1 .. k - 1 : Before(s[i], s[i + 1])
  BY DEF Increasing
<1>3. DOMAIN t = 1 .. k + n
  BY <1>1
<1> HIDE DEF k
<1>4. \A i \in 1 .. k : s[i] \in Places /\ UpTo(s[i], p, a) /\ t[i] = s[i]
  BY <1>1, <1>2
<1>5. \A i \in 1 .. n : more[i] = <<p, a + i>> /\ t[k + i] = more[i]
  BY <1>1
<1>6. /\ \A i \in 1 .. k + n - 1 : Before(t[i], t[i + 1])
      /\ \A i \in 1 .. k + n : UpTo(t[i], p, a + n)
  <2>1. k \in Nat /\ \A i \in 1 .. k - 1 : Before(s[i], s[i + 1])
    BY <1>1, <1>2
  <2>2. Extended(s, more, t, k, n, p, a)
    BY <1>4, <1>5, <2>1, Zenon DEF Extended
  <2> QED
    BY <2>2, LongerBy, Zenon
<1>7. Increasing(t)
  <2>1. Len(t) - 1 = k + n - 1
    BY <1>1
  <2> QED
    BY <1>6, <2>1, Zenon DEF Increasing
<1> QED
  BY <1>1, <1>3, <1>6, <1>7, Zenon

-----------------------------------------------------------------------------
(* The inductive invariant for any application, of named parts.            *)

\* What software H.264 has decoded ahead of the place in the packet.
Ahead == IF kept.data = Data THEN kept.consume ELSE 0

Typed ==
  /\ ops \in Own \cup {NoLib}
  /\ opened \in BOOLEAN /\ status \in {"none", "ok", "short", "fail"}
  /\ info \in Size /\ expect \in Nat /\ room \in Nat
  /\ at \in Nat /\ packet \in Nat /\ buf \in Bufs
  /\ kept.unit \in Places /\ kept.consume \in Nat
  /\ ops = NoLib => Fresh
  /\ ops # NoLib => packet <= Len(Packets)

MjpegAt ==
  ops # NoLib /\ ops.type = Mjpeg => kept = Nothing /\ at <= Len(Current)

Fed ==
  /\ fed \in Seq(Places) /\ Increasing(fed)
  /\ \A j \in DOMAIN fed : UpTo(fed[j], packet, at + Ahead)

\* The frame information is that of the kept frame.
KeptInfo ==
  ops # NoLib =>
    /\ kept.consume > 0 => info = Unit(kept.unit)
    /\ status = "short" /\ ops.type = H264 => kept.consume > 0

\* The hardware's header is that of some picture so far.
HwInfo ==
  ops # NoLib /\ ops.type = Mjpeg /\ ops.hw /\ opened =>
    \E p \in 1 .. packet : info = Aligned(Packets[p][1]) /\ expect = Area(info)

MjpegNow ==
  ops # NoLib /\ ops.type = Mjpeg =>
    /\ status \in {"short", "ok"} => packet > 0
    /\ status \in {"short", "ok"} /\ ~ ops.hw => info = Current[1]
    /\ status \in {"short", "ok"} /\ ops.hw => opened = TRUE
    /\ status = "ok" => given # <<>> /\ given[Len(given)] = <<packet, 1>>
    /\ status = "ok" /\ ops.hw => expect = Area(Aligned(Current[1]))

Weak ==
  /\ Typed /\ MjpegAt /\ Fed /\ KeptInfo /\ HwInfo /\ MjpegNow
  /\ given \in Seq(Places)

LEMMA InStream ==
  ASSUME NEW d \in Own, NEW p \in 1 .. Len(Stream[d])
  PROVE  /\ Stream[d][p] \in Seq(Size \cup {Silent})
         /\ d.type = Mjpeg => Len(Stream[d][p]) = 1 /\ Stream[d][p][1] \in Size
<1>1. Stream[d] \in Seq(Seq(Size \cup {Silent}))
  BY DecConstants
<1>2. p \in DOMAIN Stream[d] /\ Stream[d][p] \in Seq(Size \cup {Silent})
  BY <1>1
<1>3. ASSUME d.type = Mjpeg
      PROVE  Len(Stream[d][p]) = 1 /\ Stream[d][p][1] \in Size
  <2>1. Len(Stream[d][p]) = 1 /\ Stream[d][p][1] # Silent
    BY <1>2, <1>3, DecConstants
  <2>2. Stream[d][p][1] \in Size \cup {Silent}
    BY <1>2, <2>1
  <2> QED
    BY <2>1, <2>2
<1> QED
  BY <1>2, <1>3

\* The packet that is passed in.
LEMMA InPacket ==
  ASSUME Typed, ops # NoLib
  PROVE  /\ ops \in Own /\ packet \in Nat
         /\ Current \in Seq(Size \cup {Silent}) /\ Len(Current) \in Nat
         /\ DOMAIN Current = 1 .. Len(Current)
         /\ \A i \in 1 .. Len(Current) : Current[i] \in Size \cup {Silent}
         /\ Len(Current) > 0 => packet > 0
         /\ packet > 0 => packet \in 1 .. Len(Packets) /\ Current = Packets[packet]
         /\ packet > 0 /\ ops.type = Mjpeg => Len(Current) = 1 /\ Current[1] \in Size
         /\ Stream[ops] \in Seq(Seq(Size \cup {Silent})) /\ Len(Stream[ops]) \in Nat
<1>1. ops \in Own /\ packet \in Nat /\ packet <= Len(Packets)
  BY DEF Typed
<1>2. Packets = Stream[ops] /\ Stream[ops] \in Seq(Seq(Size \cup {Silent})) /\ Len(Packets) \in Nat
  BY <1>1, DecConstants DEF Packets
<1>3. CASE packet = 0
  BY <1>1, <1>2, <1>3 DEF Current
<1>4. CASE packet # 0
  <2>1. packet \in 1 .. Len(Stream[ops]) /\ Current = Stream[ops][packet] /\ packet > 0
    BY <1>1, <1>2, <1>4 DEF Current
  <2>2. /\ Stream[ops][packet] \in Seq(Size \cup {Silent})
        /\ ops.type = Mjpeg => Len(Stream[ops][packet]) = 1 /\ Stream[ops][packet][1] \in Size
    BY <1>1, <2>1, InStream
  <2> QED
    BY <1>1, <1>2, <2>1, <2>2
<1> QED
  BY <1>3, <1>4

LEMMA LengthIs == Typed /\ ops # NoLib => Len(Current) \in Nat
BY InPacket

LEMMA PlacesAre ==
  Typed /\ ops # NoLib =>
    /\ DOMAIN Current = 1 .. Len(Current)
    /\ packet > 0 => Current = Packets[packet]
BY InPacket

LEMMA FreshIsWeak == Fresh /\ room \in Nat /\ ops \in Own \cup {NoLib} => Weak
<1> SUFFICES ASSUME Fresh, room \in Nat, ops \in Own \cup {NoLib} PROVE Weak
  OBVIOUS
<1>1. /\ opened = FALSE /\ info = NoSize /\ expect = 0 /\ kept = Nothing
      /\ packet = 0 /\ at = 0 /\ buf \in Bufs /\ status = "none"
      /\ fed = <<>> /\ given = <<>>
  BY DEF Fresh
<1>2. kept.consume = 0 /\ info \in Size
  BY <1>1 DEF Nothing, NoSize, Size
<1>3. Typed
  <2>1. ops # NoLib => packet <= Len(Packets)
    <3> SUFFICES ASSUME ops # NoLib PROVE packet <= Len(Packets)
      OBVIOUS
    <3>1. Stream[ops] \in Seq(Seq(Size \cup {Silent}))
      BY DecConstants
    <3> QED
      BY <1>1, <3>1 DEF Packets
  <2>2. opened \in BOOLEAN /\ status \in {"none", "ok", "short", "fail"}
    BY <1>1, Zenon
  <2>3. expect \in Nat /\ at \in Nat /\ packet \in Nat /\ kept.consume \in Nat
    BY <1>1, <1>2
  <2>4. kept.unit \in Places
    BY <1>1 DEF Nothing, Places
  <2> QED
    BY <1>1, <1>2, <2>1, <2>2, <2>3, <2>4, Zenon DEF Typed
<1>4. MjpegAt /\ Len(Current) = 0
  BY <1>1 DEF MjpegAt, Current
<1>5. Fed /\ given \in Seq(Places)
  BY <1>1 DEF Fed, Increasing
<1>6. KeptInfo /\ MjpegNow
  <2>1. ~ (kept.consume > 0) /\ status # "short" /\ status # "ok"
    BY <1>1, <1>2
  <2> QED
    BY <2>1, Zenon DEF KeptInfo, MjpegNow
<1>7. HwInfo
  BY <1>1, Zenon DEF HwInfo
<1> QED
  BY <1>3, <1>4, <1>5, <1>6, <1>7, Zenon DEF Weak

\* What a call that leaves the packet and the handle alone keeps.
LEMMA SamePacket ==
  ASSUME ops' = ops, packet' = packet
  PROVE  Packets' = Packets /\ Current' = Current
BY DEF Packets, Current

\* Registering and unregistering other codecs.
LEMMA OthersKeepWeak ==
  Weak /\ UNCHANGED <<ops, codecVars, appVars, fed>> => Weak'
<1> SUFFICES ASSUME Weak, UNCHANGED <<ops, codecVars, appVars, fed>> PROVE Weak'
  OBVIOUS
<1>1. /\ ops' = ops /\ opened' = opened /\ info' = info /\ expect' = expect
      /\ kept' = kept /\ packet' = packet /\ buf' = buf /\ at' = at /\ room' = room
      /\ status' = status /\ given' = given /\ dropped' = dropped /\ fed' = fed
  BY DEF codecVars, appVars
<1>2. Packets' = Packets /\ Current' = Current /\ Ahead' = Ahead
  BY <1>1 DEF Packets, Current, Ahead, Data
<1>3. Typed' /\ MjpegAt'
  BY <1>1, <1>2, Zenon DEF Weak, Typed, MjpegAt, Fresh
<1>4. Fed'
  BY <1>1, <1>2, Zenon DEF Weak, Fed, Increasing
<1>5. KeptInfo' /\ HwInfo' /\ MjpegNow'
  BY <1>1, <1>2, Zenon DEF Weak, KeptInfo, HwInfo, MjpegNow, Unit
<1> QED
  BY <1>1, <1>3, <1>4, <1>5, Zenon DEF Weak

\* A handle is opened, or closed.
LEMMA AnewKeepsWeak ==
  ASSUME Weak, Fresh', room' \in Nat, ops' \in Own \cup {NoLib}
  PROVE  Weak'
<1>1. (Fresh /\ room \in Nat /\ ops \in Own \cup {NoLib} => Weak)'
  BY FreshIsWeak, PTL
<1> QED
  BY <1>1

\* Software H.264: a frame that is kept is given once the buffer is enough ...
LEMMA KeptKeepsWeak ==
  ASSUME Weak, ops # NoLib, ops.type = H264, IsKept,
         UNCHANGED <<libs, ops, opened, expect, info, fed>>,
         IF TooSmall(Unit(kept.unit)) THEN Keep("short") /\ UNCHANGED kept
                                      ELSE CopyOutput(kept.unit, kept.consume)
  PROVE  Weak'
<1>1. /\ packet' = packet /\ buf' = buf /\ room' = room /\ dropped' = dropped
      /\ ops' = ops /\ opened' = opened /\ expect' = expect /\ info' = info /\ fed' = fed
  BY DEF Keep, CopyOutput, Give, Return
<1>2. Packets' = Packets /\ Current' = Current
  BY <1>1, SamePacket
<1>3. kept.consume > 0 /\ kept.data = Data /\ Ahead = kept.consume
  BY DEF IsKept, Ahead
<1>4. H264 # Mjpeg
  BY DecConstants
<1>5. MjpegAt' /\ HwInfo' /\ MjpegNow'
  BY <1>1, <1>4, Zenon DEF MjpegAt, HwInfo, MjpegNow
<1>6. CASE TooSmall(Unit(kept.unit))
  <2>1. status' = "short" /\ given' = given /\ at' = at /\ kept' = kept
    BY <1>6 DEF Keep, Return
  <2>2. Ahead' = Ahead
    BY <1>1, <2>1 DEF Ahead, Data
  <2>3. Typed'
    BY <1>1, <1>2, <2>1, Zenon DEF Weak, Typed
  <2>4. Fed'
    BY <1>1, <2>1, <2>2, Zenon DEF Weak, Fed
  <2>5. KeptInfo'
    BY <1>1, <1>2, <1>3, <2>1, Zenon DEF Weak, KeptInfo, Unit
  <2> QED
    BY <1>5, <2>1, <2>3, <2>4, <2>5, Zenon DEF Weak
<1>7. CASE ~ TooSmall(Unit(kept.unit))
  <2>1. /\ status' = "ok" /\ given' = Append(given, kept.unit)
        /\ at' = at + kept.consume /\ kept' = Nothing
    BY <1>7 DEF CopyOutput, Give, Return
  <2>2. kept'.consume = 0 /\ at \in Nat /\ kept.consume \in Nat /\ at' \in Nat
    BY <2>1 DEF Weak, Typed, Nothing
  <2>3. at' + Ahead' = at + Ahead
    BY <1>3, <2>1, <2>2 DEF Ahead
  <2>4. Typed'
    <3>1. kept'.consume \in Nat /\ status' \in {"none", "ok", "short", "fail"} /\ ops' # NoLib
      BY <1>1, <2>1, <2>2
    <3>2. kept'.unit \in Places
      BY <2>1 DEF Nothing, Places
    <3> QED
      BY <1>1, <1>2, <2>2, <3>1, <3>2, Zenon DEF Weak, Typed
  <2>5. Fed'
    BY <1>1, <2>3, Zenon DEF Weak, Fed
  <2>6. KeptInfo'
    <3>1. ~ (kept'.consume > 0) /\ status' # "short"
      BY <2>1, <2>2
    <3> QED
      BY <3>1, Zenon DEF KeptInfo
  <2>7. given' \in Seq(Places)
    BY <2>1 DEF Weak, Typed
  <2> QED
    BY <1>5, <2>4, <2>5, <2>6, <2>7, Zenon DEF Weak
<1> QED
  BY <1>6, <1>7

\* ... and what is decoded comes behind what was.
LEMMA DecodedMore ==
  ASSUME Weak, ops # NoLib, ~ IsKept, NEW n \in 1 .. Len(Current) - at, H264Decode(n)
  PROVE  /\ fed' \in Seq(Places) /\ Increasing(fed')
         /\ \A j \in DOMAIN fed' : UpTo(fed'[j], packet, at + n)
         /\ n \in Nat \ {0} /\ at + n \in Nat /\ at + n <= Len(Current)
         /\ <<packet, at + n>> \in Places /\ packet > 0
         /\ Unit(<<packet, at + n>>) = Current[at + n]
         /\ Current[at + n] \in Size \cup {Silent}
<1>1. at \in Nat /\ packet \in Nat /\ kept.consume \in Nat /\ Typed
  BY DEF Weak, Typed
<1>2. /\ Len(Current) \in Nat
      /\ \A i \in 1 .. Len(Current) : Current[i] \in Size \cup {Silent}
      /\ Len(Current) > 0 => packet > 0
      /\ packet > 0 => Current = Packets[packet]
  BY <1>1, InPacket
<1>3. n \in Nat \ {0} /\ at + n \in Nat /\ at + n <= Len(Current) /\ at + n \in 1 .. Len(Current)
  BY <1>1, <1>2
<1>4. Ahead = 0
  BY <1>1 DEF IsKept, Ahead
<1>5. fed \in Seq(Places) /\ Increasing(fed) /\ \A j \in DOMAIN fed : UpTo(fed[j], packet, at)
  <2>1. at + Ahead = at
    BY <1>1, <1>4
  <2> QED
    BY <2>1, Zenon DEF Weak, Fed
<1>6. fed' = fed \o [i \in 1 .. n |-> <<packet, at + i>>]
  BY DEF H264Decode
<1>7. /\ fed' \in Seq(Places) /\ Increasing(fed')
      /\ \A j \in DOMAIN fed' : UpTo(fed'[j], packet, at + n)
  <2> DEFINE more == [i \in 1 .. n |-> <<packet, at + i>>]
  <2>1. \A i \in 1 .. n : at + i \in Nat
    BY <1>1, <1>3
  <2>2. \A i \in 1 .. n : more[i] = <<packet, at + i>> /\ <<packet, at + i>> \in Places
    BY <1>1, <2>1 DEF Places
  <2>3. more \in [1 .. n -> Places]
    BY <2>2
  <2>4. fed' = fed \o more
    BY <1>6
  <2> HIDE DEF more
  <2> QED
    BY <1>1, <1>3, <1>5, <2>2, <2>3, <2>4, IncreasingConcat
<1>8. packet > 0 /\ Current = Packets[packet] /\ <<packet, at + n>> \in Places
  BY <1>1, <1>2, <1>3 DEF Places
<1>9. Unit(<<packet, at + n>>) = Current[at + n]
  BY <1>8 DEF Unit
<1> QED
  BY <1>2, <1>3, <1>7, <1>8, <1>9

LEMMA H264DecodeKeepsWeak ==
  ASSUME Weak, ops # NoLib, ops.type = H264, ~ IsKept, UNCHANGED <<libs, ops, opened, expect>>,
         NEW n \in 1 .. Len(Current) - at, H264Decode(n)
  PROVE  Weak'
<1> DEFINE last == <<packet, at + n>>
           size == Unit(last)
<1>1. /\ ops' = ops /\ opened' = opened /\ expect' = expect
      /\ \/ /\ size = Silent
            /\ Return("ok") /\ at' = at + n /\ kept' = Nothing
            /\ UNCHANGED <<given, info>>
         \/ /\ size # Silent /\ info' = size
            /\ IF TooSmall(size)
                 THEN /\ Keep("short")
                      /\ kept' = [unit |-> last, data |-> Data, consume |-> n]
                 ELSE CopyOutput(last, n)
  BY DEF H264Decode
<1>2. /\ fed' \in Seq(Places) /\ Increasing(fed')
      /\ \A j \in DOMAIN fed' : UpTo(fed'[j], packet, at + n)
      /\ n \in Nat \ {0} /\ at + n \in Nat
      /\ last \in Places /\ size \in Size \cup {Silent}
  BY DecodedMore
<1> HIDE DEF last, size
<1>3. packet' = packet /\ buf' = buf /\ room' = room /\ dropped' = dropped
  BY <1>1 DEF Keep, CopyOutput, Give, Return
<1>4. Packets' = Packets /\ Current' = Current
  BY <1>1, <1>3, SamePacket
<1>5. MjpegAt' /\ HwInfo' /\ MjpegNow'
  <2>1. H264 # Mjpeg
    BY DecConstants
  <2> QED
    BY <1>1, <2>1, Zenon DEF MjpegAt, HwInfo, MjpegNow
<1>6. ASSUME at' \in Nat, kept'.unit \in Places, kept'.consume \in Nat, info' \in Size,
             status' \in {"none", "ok", "short", "fail"}, at' + Ahead' = at + n,
             kept'.consume > 0 => info' = size /\ kept'.unit = last,
             status' = "short" => kept'.consume > 0,
             given' \in Seq(Places)
      PROVE  Weak'
  <2>1. Typed'
    BY <1>1, <1>3, <1>4, <1>6, Zenon DEF Weak, Typed
  <2>2. Fed'
    BY <1>2, <1>3, <1>6, Zenon DEF Fed
  <2>3. KeptInfo'
    <3>1. size = Packets'[last[1]][last[2]]
      BY <1>4 DEF Unit, size
    <3> QED
      BY <1>6, <3>1, Zenon DEF KeptInfo, Unit
  <2> QED
    BY <1>5, <1>6, <2>1, <2>2, <2>3, Zenon DEF Weak
<1>7. at \in Nat /\ info \in Size /\ given \in Seq(Places) /\ Nothing.unit \in Places
  BY DEF Weak, Typed, Nothing, Places
<1>8. CASE size = Silent /\ Return("ok") /\ at' = at + n /\ kept' = Nothing /\ UNCHANGED <<given, info>>
  <2>1. kept'.consume = 0 /\ status' = "ok"
    BY <1>8 DEF Nothing, Return
  <2>2. Ahead' = 0
    BY <2>1 DEF Ahead
  <2> QED
    BY <1>2, <1>6, <1>7, <1>8, <2>1, <2>2
<1>9. CASE /\ size # Silent /\ info' = size /\ Keep("short")
           /\ kept' = [unit |-> last, data |-> Data, consume |-> n]
  <2>1. kept'.consume = n /\ kept'.unit = last /\ status' = "short" /\ at' = at /\ given' = given
    BY <1>9 DEF Keep, Return
  <2>2. kept'.data = Data /\ Data' = Data
    BY <1>3, <1>9, <2>1 DEF Data
  <2>3. Ahead' = n
    BY <2>1, <2>2 DEF Ahead
  <2> QED
    BY <1>2, <1>6, <1>7, <1>9, <2>1, <2>3
<1>10. CASE size # Silent /\ info' = size /\ CopyOutput(last, n)
  <2>1. /\ kept' = Nothing /\ kept'.consume = 0 /\ status' = "ok"
        /\ at' = at + n /\ given' = Append(given, last)
    BY <1>10 DEF CopyOutput, Give, Return, Nothing
  <2>2. Ahead' = 0
    BY <2>1 DEF Ahead
  <2>3. given' \in Seq(Places)
    BY <1>2, <1>7, <2>1
  <2> QED
    BY <1>2, <1>6, <1>7, <1>10, <2>1, <2>2, <2>3
<1> QED
  BY <1>1, <1>8, <1>9, <1>10

\* A call that fails, or a new buffer, changes what no part tells apart.
LEMMA StatusKeepsWeak ==
  ASSUME Weak, ops # NoLib, room' \in Nat, status' \in {"none", "fail"},
         UNCHANGED <<libs, ops, codecVars, packet, buf, at, given, fed>>
  PROVE  Weak'
<1>1. /\ ops' = ops /\ opened' = opened /\ info' = info /\ expect' = expect /\ kept' = kept
      /\ packet' = packet /\ buf' = buf /\ at' = at /\ given' = given /\ fed' = fed
  BY DEF codecVars
<1>2. Packets' = Packets /\ Current' = Current /\ Ahead' = Ahead
  BY <1>1 DEF Packets, Current, Ahead, Data
<1>3. /\ status' \in {"none", "ok", "short", "fail"} /\ status' \notin {"short", "ok"}
      /\ status' # "ok" /\ status' # "short"
  OBVIOUS
<1>4. Typed' /\ MjpegAt'
  BY <1>1, <1>2, <1>3, Zenon DEF Weak, Typed, MjpegAt
<1>5. Fed' /\ HwInfo'
  BY <1>1, <1>2, Zenon DEF Weak, Fed, HwInfo
<1>6. KeptInfo' /\ MjpegNow'
  BY <1>1, <1>2, <1>3, Zenon DEF Weak, KeptInfo, MjpegNow, Unit
<1> QED
  BY <1>1, <1>4, <1>5, <1>6, Zenon DEF Weak

\* The wrapped library or the decoder refuses.
LEMMA FailKeepsWeak ==
  ASSUME Weak, ops # NoLib, Keep("fail"), UNCHANGED <<libs, ops, codecVars, fed>>
  PROVE  Weak'
<1>1. status' = "fail" /\ room' = room /\ UNCHANGED <<packet, buf, at, given>>
  BY DEF Keep, Return
<1>2. room' \in Nat /\ status' \in {"none", "fail"}
  BY <1>1 DEF Weak, Typed
<1> QED
  BY <1>1, <1>2, StatusKeepsWeak

LEMMA H264KeepsWeak ==
  ASSUME Weak, ops # NoLib, DecodeH264, UNCHANGED <<libs, ops>>
  PROVE  Weak'
<1>1. ops.type = H264 /\ UNCHANGED <<opened, expect>>
  BY DEF DecodeH264
<1>2. CASE IsKept
  <2>1. /\ UNCHANGED <<libs, ops, opened, expect, info, fed>>
        /\ IF TooSmall(Unit(kept.unit)) THEN Keep("short") /\ UNCHANGED kept
                                        ELSE CopyOutput(kept.unit, kept.consume)
    BY <1>2 DEF DecodeH264
  <2> QED
    BY <1>1, <1>2, <2>1, KeptKeepsWeak
<1>3. CASE ~ IsKept
  <2>1. \/ \E n \in 1 .. Len(Current) - at : H264Decode(n)
        \/ Keep("fail") /\ UNCHANGED <<kept, info, fed>>
    BY <1>3 DEF DecodeH264
  <2>2. ASSUME NEW n \in 1 .. Len(Current) - at, H264Decode(n) PROVE Weak'
    BY <1>1, <1>3, <2>2, H264DecodeKeepsWeak
  <2>3. CASE Keep("fail") /\ UNCHANGED <<kept, info, fed>>
    BY <1>1, <2>3, FailKeepsWeak DEF codecVars
  <2> QED
    BY <2>1, <2>2, <2>3
<1> QED
  BY <1>2, <1>3

\* The picture that a MJPEG decoder is given.
LEMMA TheMjpeg ==
  ASSUME Weak, ops # NoLib, ops.type = Mjpeg, at < Len(Current)
  PROVE  /\ at = 0 /\ packet > 0 /\ Len(Current) = 1 /\ Current[1] \in Size
         /\ Unit(<<packet, at + 1>>) = Current[1] /\ <<packet, at + 1>> = <<packet, 1>>
         /\ <<packet, 1>> \in Places /\ Current = Packets[packet]
         /\ packet \in Nat /\ ops # NoLib /\ ops.type # H264 /\ kept = Nothing
<1>1. at \in Nat /\ packet \in Nat /\ Typed /\ kept = Nothing
  BY DEF Weak, Typed, MjpegAt
<1>2. /\ Len(Current) \in Nat /\ (Len(Current) > 0 => packet > 0)
      /\ packet > 0 => Current = Packets[packet]
      /\ packet > 0 => Len(Current) = 1 /\ Current[1] \in Size
  BY <1>1, InPacket
<1>3. packet > 0 /\ Len(Current) = 1 /\ at = 0
  <2>1. Len(Current) > 0
    <3>1. \A m, n \in Nat : m < n => n > 0
      OBVIOUS
    <3> QED
      BY <1>1, <1>2, <3>1, Zenon
  <2>2. packet > 0 /\ Len(Current) = 1
    BY <1>2, <2>1, Zenon
  <2>3. \A m \in Nat : m < 1 => m = 0
    OBVIOUS
  <2> QED
    BY <1>1, <2>2, <2>3, Zenon
<1>4. at + 1 = 1 /\ <<packet, 1>> \in Places
  BY <1>1, <1>3 DEF Places
<1>5. Unit(<<packet, 1>>) = Current[1]
  BY <1>2, <1>3 DEF Unit
<1>6. H264 # Mjpeg
  BY DecConstants
<1> QED
  BY <1>1, <1>2, <1>3, <1>4, <1>5, <1>6

\* What holds of either MJPEG decoder after a call.
LEMMA MjpegKeepsWeak ==
  ASSUME Weak, ops # NoLib, ops.type = Mjpeg, at < Len(Current),
         UNCHANGED <<libs, ops, kept, fed>>,
         \/ Keep("short") /\ opened' = TRUE
         \/ Keep("fail")
         \/ Give(<<packet, at + 1>>, 1) /\ opened' = TRUE,
         opened' \in BOOLEAN, info' \in Size, expect' \in Nat, HwInfo',
         status' \in {"short", "ok"} /\ ~ ops.hw => info' = Current[1],
         status' = "ok" /\ ops.hw => expect' = Area(Aligned(Current[1]))
  PROVE  Weak'
<1>1. /\ ops' = ops /\ kept' = kept /\ fed' = fed
      /\ packet' = packet /\ buf' = buf /\ room' = room /\ dropped' = dropped
  BY DEF Keep, Give, Return
<1>2. Packets' = Packets /\ Current' = Current
  BY <1>1, SamePacket
<1>3. /\ at = 0 /\ packet > 0 /\ Len(Current) = 1 /\ Current[1] \in Size
      /\ <<packet, at + 1>> = <<packet, 1>>
      /\ <<packet, 1>> \in Places /\ ops.type # H264 /\ kept = Nothing
  BY TheMjpeg
<1>4. kept.consume = 0 /\ kept'.consume = 0
  BY <1>1, <1>3 DEF Nothing
<1>5. /\ status' \in {"short", "ok", "fail"} /\ at' \in {0, 1}
      /\ status' \in {"short", "ok"} => opened' = TRUE
      /\ \/ given' = given /\ status' # "ok"
         \/ given' = Append(given, <<packet, 1>>)
  BY <1>3 DEF Keep, Give, Return
<1>6. at' \in Nat /\ status' \in {"none", "ok", "short", "fail"} /\ at' <= Len(Current)
  BY <1>3, <1>5
<1>7. given \in Seq(Places) /\ given' \in Seq(Places)
  <2>1. given \in Seq(Places)
    BY DEF Weak
  <2>2. Append(given, <<packet, 1>>) \in Seq(Places)
    BY <1>3, <2>1, AppendIs
  <2> QED
    BY <1>5, <2>1, <2>2, Zenon
<1>8. status' = "ok" => given' # <<>> /\ given'[Len(given')] = <<packet, 1>>
  BY <1>5, <1>7
<1>9. Typed' /\ MjpegAt'
  <2>1. Typed'
    BY <1>1, <1>2, <1>6, Zenon DEF Weak, Typed
  <2>2. MjpegAt'
    BY <1>1, <1>2, <1>3, <1>6, Zenon DEF MjpegAt
  <2> QED
    BY <2>1, <2>2
<1>10. Fed'
  <2>1. Ahead = 0 /\ Ahead' = 0
    BY <1>4 DEF Ahead
  <2>2. \A j \in DOMAIN fed : fed[j] \in Places /\ UpTo(fed[j], packet, at + Ahead)
    BY DEF Weak, Fed
  <2>3. at + Ahead \in Nat /\ at' + Ahead' \in Nat /\ at + Ahead <= at' + Ahead' /\ packet \in Nat
    <3>1. \A m \in Nat : m + 0 \in Nat /\ 0 + 0 \in Nat /\ 0 + 0 <= m + 0
      OBVIOUS
    <3>2. packet \in Nat
      BY DEF Weak, Typed
    <3> QED
      BY <1>3, <1>6, <2>1, <3>1, <3>2, Zenon
  <2>4. \A j \in DOMAIN fed : UpTo(fed[j], packet, at' + Ahead')
    BY <2>2, <2>3, UpToMore
  <2> QED
    BY <1>1, <2>4, Zenon DEF Weak, Fed
<1>11. KeptInfo'
  <2>1. ~ (kept'.consume > 0) /\ ops'.type # H264
    BY <1>1, <1>3, <1>4
  <2> QED
    BY <2>1, Zenon DEF KeptInfo
<1>12. MjpegNow'
  BY <1>1, <1>2, <1>3, <1>5, <1>8, Zenon DEF MjpegNow
<1> QED
  BY <1>7, <1>9, <1>10, <1>11, <1>12, Zenon DEF Weak

\* What the hardware decoder knows of its header is from the picture it has
\* now, or from one before.
LEMMA HardwareKeepsWeak ==
  ASSUME Weak, ops # NoLib, at < Len(Current), DecodeHardware, UNCHANGED <<libs, ops>>
  PROVE  Weak'
<1> DEFINE u    == <<packet, at + 1>>
           size == Aligned(Unit(u))
<1>1. /\ ops.type = Mjpeg /\ ops.hw /\ UNCHANGED <<kept, fed>>
      /\ \/ Keep("fail") /\ UNCHANGED <<opened, info, expect>>
         \/ /\ opened' = TRUE
            /\ Keep("fail") \/ (TooSmall(size) /\ Keep("short"))
            /\ info' = Parsed(size) /\ expect' = Expected(size)
         \/ /\ opened' = TRUE
            /\ ~ TooSmall(size) /\ Give(u, 1)
            /\ info' = Reparsed(size) /\ expect' = Area(size)
  BY DEF DecodeHardware
<1>2. /\ packet > 0 /\ Current = Packets[packet] /\ packet \in Nat
      /\ size = Aligned(Current[1]) /\ size \in Size /\ Area(size) \in Nat
  BY <1>1, TheMjpeg, Sizes
<1> HIDE DEF u, size
<1>3. /\ ops' = ops /\ packet' = packet /\ opened \in BOOLEAN /\ info \in Size /\ expect \in Nat
      /\ opened => \E p \in 1 .. packet : info = Aligned(Packets[p][1]) /\ expect = Area(info)
  <2>1. opened \in BOOLEAN /\ info \in Size /\ expect \in Nat
    BY DEF Weak, Typed
  <2>2. opened => \E p \in 1 .. packet : info = Aligned(Packets[p][1]) /\ expect = Area(info)
    BY <1>1, Zenon DEF Weak, HwInfo
  <2>3. packet' = packet
    BY <1>1 DEF Keep, Give, Return
  <2> QED
    BY <2>1, <2>2, <2>3
<1>4. Packets' = Packets
  BY <1>3, SamePacket
<1>5. packet \in 1 .. packet
  BY <1>2
<1>6. CASE Keep("fail") /\ UNCHANGED <<opened, info, expect>>
  BY <1>1, <1>6, FailKeepsWeak DEF codecVars
<1>7. ASSUME opened' = TRUE,
             \/ info' = size /\ expect' = Area(size)
             \/ opened /\ info' = info /\ expect' = expect
      PROVE  opened' \in BOOLEAN /\ info' \in Size /\ expect' \in Nat /\ HwInfo'
  <2>1. \E p \in 1 .. packet : info' = Aligned(Packets[p][1]) /\ expect' = Area(info')
    <3>1. CASE info' = size /\ expect' = Area(size)
      BY <1>2, <1>5, <3>1, Zenon
    <3>2. CASE opened /\ info' = info /\ expect' = expect
      BY <1>3, <3>2, Zenon
    <3> QED
      BY <1>7, <3>1, <3>2
  <2>2. HwInfo'
    BY <1>3, <1>4, <2>1, Zenon DEF HwInfo
  <2> QED
    BY <1>2, <1>3, <1>7, <2>2, Zenon
<1>8. CASE /\ opened' = TRUE
           /\ Keep("fail") \/ (TooSmall(size) /\ Keep("short"))
           /\ info' = Parsed(size) /\ expect' = Expected(size)
  <2>1. \/ info' = size /\ expect' = Area(size)
        \/ opened /\ info' = info /\ expect' = expect
    BY <1>8, Zenon DEF Parsed, Expected
  <2>2. opened' \in BOOLEAN /\ info' \in Size /\ expect' \in Nat /\ HwInfo'
    BY <1>7, <1>8, <2>1
  <2>3. status' # "ok"
    BY <1>8 DEF Keep, Return
  <2> QED
    BY <1>1, <1>8, <2>2, <2>3, MjpegKeepsWeak
<1>9. CASE /\ opened' = TRUE /\ Give(u, 1)
           /\ info' = Reparsed(size) /\ expect' = Area(size)
  <2>1. \/ info' = size /\ expect' = Area(size)
        \/ opened /\ info' = info /\ expect' = expect
    BY <1>9, Zenon DEF Reparsed, Parsed, Expected
  <2>2. opened' \in BOOLEAN /\ info' \in Size /\ expect' \in Nat /\ HwInfo'
    BY <1>7, <1>9, <2>1
  <2>3. expect' = Area(Aligned(Current[1]))
    BY <1>2, <1>9
  <2> QED
    BY <1>1, <1>9, <2>2, <2>3, MjpegKeepsWeak DEF u
<1> QED
  BY <1>1, <1>6, <1>8, <1>9

LEMMA SoftwareKeepsWeak ==
  ASSUME Weak, ops # NoLib, at < Len(Current), DecodeSoftware, UNCHANGED <<libs, ops>>
  PROVE  Weak'
<1> DEFINE u    == <<packet, at + 1>>
           size == Unit(u)
<1>1. /\ ops.type = Mjpeg /\ ~ ops.hw /\ UNCHANGED <<kept, expect, fed>>
      /\ \/ Keep("fail") /\ opened' \in {opened, TRUE} /\ UNCHANGED info
         \/ /\ opened' = TRUE /\ info' = size
            /\ Keep("short") \/ Give(u, 1) \/ Keep("fail")
  BY DEF DecodeSoftware
<1>2. size = Current[1] /\ size \in Size
  BY <1>1, TheMjpeg
<1> HIDE DEF u, size
<1>3. opened \in BOOLEAN /\ info \in Size /\ expect \in Nat
  BY DEF Weak, Typed
<1>4. HwInfo' /\ expect' \in Nat
  BY <1>1, <1>3, Zenon DEF HwInfo
<1>5. CASE Keep("fail") /\ opened' \in {opened, TRUE} /\ UNCHANGED info
  <2>1. opened' \in BOOLEAN /\ info' \in Size
    BY <1>3, <1>5, Zenon
  <2>2. status' \notin {"short", "ok"} /\ status' # "ok"
    BY <1>5 DEF Keep, Return
  <2> QED
    BY <1>1, <1>4, <1>5, <2>1, <2>2, MjpegKeepsWeak
<1>6. CASE /\ opened' = TRUE /\ info' = size
           /\ Keep("short") \/ Give(u, 1) \/ Keep("fail")
  <2>1. opened' \in BOOLEAN /\ info' \in Size /\ info' = Current[1]
    BY <1>2, <1>6, Zenon
  <2> QED
    BY <1>1, <1>4, <1>6, <2>1, MjpegKeepsWeak DEF u
<1> QED
  BY <1>1, <1>5, <1>6

LEMMA NextKeepsWeak ==
  ASSUME Weak, NEW b \in Bufs, NextPacket(b)
  PROVE  Weak'
<1>1. /\ ops # NoLib /\ packet < Len(Packets)
      /\ packet' = packet + 1 /\ at' = 0 /\ buf' = b /\ status' = "none"
      /\ ops' = ops /\ opened' = opened /\ info' = info /\ expect' = expect /\ kept' = kept
      /\ room' = room /\ given' = given /\ fed' = fed
  BY DEF NextPacket, codecVars
<1>2. packet \in Nat /\ at \in Nat /\ kept.consume \in Nat /\ Typed
  BY DEF Weak, Typed
<1>3. Packets' = Packets /\ Len(Packets) \in Nat
  BY <1>1, <1>2, InPacket DEF Packets
<1>4. packet' \in Nat /\ packet' <= Len(Packets) /\ at' \in Nat
  BY <1>1, <1>2, <1>3
<1>5. Typed'
  <2>1. status' \in {"none", "ok", "short", "fail"} /\ buf' \in Bufs
    BY <1>1
  <2> QED
    BY <1>1, <1>3, <1>4, <2>1, Zenon DEF Weak, Typed
<1>6. MjpegAt'
  <2> SUFFICES ASSUME ops # NoLib, ops.type = Mjpeg PROVE kept' = Nothing /\ at' <= Len(Current')
    BY <1>1, Zenon DEF MjpegAt
  <2>1. ops' # NoLib /\ Len(Current') \in Nat
    <3>1. (Typed /\ ops # NoLib => Len(Current) \in Nat)'
      BY LengthIs, PTL
    <3> QED
      BY <1>1, <1>5, <3>1
  <2>2. kept = Nothing
    BY <1>1, Zenon DEF Weak, MjpegAt
  <2> QED
    BY <1>1, <2>1, <2>2
<1>7. Fed'
  <2>1. Ahead \in Nat /\ Ahead' \in Nat
    <3>1. kept'.consume \in Nat
      BY <1>1, <1>2
    <3>2. 0 \in Nat
      OBVIOUS
    <3> QED
      BY <1>2, <3>1, <3>2, Zenon DEF Ahead
  <2>2. \A j \in DOMAIN fed : fed[j] \in Places /\ UpTo(fed[j], packet, at + Ahead)
    BY DEF Weak, Fed
  <2>3. at + Ahead \in Nat /\ at' + Ahead' \in Nat
    <3>1. \A m, n \in Nat : m + n \in Nat
      OBVIOUS
    <3> QED
      BY <1>2, <1>4, <2>1, <3>1, Zenon
  <2>4. \A j \in DOMAIN fed : UpTo(fed[j], packet + 1, at' + Ahead')
    BY <1>2, <2>2, <2>3, UpToMore
  <2> QED
    BY <1>1, <2>4, Zenon DEF Weak, Fed
<1>8. status' # "short" /\ status' \notin {"short", "ok"} /\ status' # "ok"
  BY <1>1
<1>9. KeptInfo' /\ MjpegNow'
  BY <1>1, <1>3, <1>8, Zenon DEF Weak, KeptInfo, MjpegNow, Unit
<1>10. HwInfo'
  <2>1. \A p \in 1 .. packet : p \in 1 .. packet + 1
    BY <1>2
  <2> QED
    BY <1>1, <1>3, <2>1, Zenon DEF Weak, HwInfo
<1> QED
  BY <1>1, <1>5, <1>6, <1>7, <1>9, <1>10, Zenon DEF Weak

LEMMA OpenMakesFresh ==
  ASSUME Weak, NEW q \in Query, NEW r \in Rooms, Open(q, r)
  PROVE  Fresh' /\ room' \in Nat /\ ops' \in Own
<1>1. /\ ops = NoLib /\ ops' \in Own /\ room' = r
      /\ UNCHANGED <<opened, info, expect, kept, packet, buf, at, status, given, dropped, fed>>
  BY DEF Open, codecVars
<1>2. Fresh
  BY <1>1, Zenon DEF Weak, Typed
<1>3. Fresh'
  BY <1>1, <1>2, Zenon DEF Fresh
<1>4. room' \in Nat
  BY <1>1, DecConstants
<1> QED
  BY <1>1, <1>3, <1>4

LEMMA CloseMakesFresh ==
  ASSUME Weak, Close
  PROVE  Fresh' /\ room' = 0 /\ ops' = NoLib
<1>1. buf' = buf /\ buf \in Bufs
  BY DEF Close, Weak, Typed
<1> QED
  BY <1>1, Zenon DEF Close, Fresh

LEMMA StepKeepsWeak == Weak /\ [Next]_decVars => Weak'
<1> SUFFICES ASSUME Weak, [Next]_decVars PROVE Weak'
  OBVIOUS
<1>1. CASE UNCHANGED decVars
  BY <1>1, OthersKeepWeak DEF decVars
<1>2. ASSUME NEW d \in Descs, Register(d) \/ Unregister(d) PROVE Weak'
  BY <1>2, OthersKeepWeak DEF Register, Unregister
<1>3. ASSUME NEW q \in Query, NEW r \in Rooms, Open(q, r) PROVE Weak'
  BY <1>3, OpenMakesFresh, AnewKeepsWeak
<1>4. CASE Close
  <2>1. room' \in Nat /\ ops' \in Own \cup {NoLib}
    BY <1>4, CloseMakesFresh
  <2> QED
    BY <1>4, <2>1, CloseMakesFresh, AnewKeepsWeak
<1>5. CASE Decode
  <2>1. /\ ops # NoLib /\ at < Len(Current) /\ UNCHANGED <<libs, ops>>
        /\ DecodeH264 \/ DecodeHardware \/ DecodeSoftware
    BY <1>5 DEF Decode
  <2> QED
    BY <2>1, H264KeepsWeak, HardwareKeepsWeak, SoftwareKeepsWeak
<1>6. CASE Retry
  <2>1. /\ status = "short" /\ room' = Area(info) /\ status' = "none"
        /\ UNCHANGED <<libs, ops, codecVars, packet, buf, at, given, dropped, fed>>
    BY <1>6 DEF Retry
  <2>2. room' \in Nat
    BY <2>1, Sizes DEF Weak, Typed
  <2>3. ops # NoLib
    <3>1. ops = NoLib => status = "none"
      BY Zenon DEF Weak, Typed, Fresh
    <3> QED
      BY <2>1, <3>1
  <2> QED
    BY <2>1, <2>2, <2>3, StatusKeepsWeak
<1>7. ASSUME NEW b \in Bufs, NextPacket(b) PROVE Weak'
  BY <1>7, NextKeepsWeak
<1> QED
  BY <1>1, <1>2, <1>3, <1>4, <1>5, <1>6, <1>7, Zenon DEF Next

LEMMA WeakAtFirst == Init => Weak
BY FreshIsWeak DEF Init

LEMMA WeakHolds == Spec => []Weak
BY WeakAtFirst, StepKeepsWeak, PTL DEF Spec

\* The wrapped decoder gets every unit once, whatever the application does:
\* also one that gives packets up and reuses their buffers.
THEOREM DecodesOnce == Spec => []DecodedOnce
<1>1. Weak => DecodedOnce
  BY DEF Weak, Fed, DecodedOnce
<1> QED
  BY <1>1, WeakHolds, PTL

\* The pictures of the streams that the hardware decodes do not grow.
NeverGrows ==
  \A d \in Own : d.type = Mjpeg /\ d.hw =>
    \A p, q \in 1 .. Len(Stream[d]) :
      p <= q => Area(Aligned(Stream[d][q][1])) <= Area(Aligned(Stream[d][p][1]))

\* After "buffer not enough" a buffer of the size that the frame information
\* tells is enough, also of an application that then gives the packet up.
THEOREM RetryIsEnough == ASSUME NeverGrows PROVE Spec => []RetryFits
<1>1. Weak => RetryFits
  <2> SUFFICES ASSUME Weak, status = "short" PROVE RetryFits
    BY DEF RetryFits
  <2>1. ops # NoLib /\ Typed
    <3>1. ops = NoLib => status = "none"
      BY Zenon DEF Weak, Typed, Fresh
    <3> QED
      BY <3>1 DEF Weak
  <2>2. info \in Size /\ Area(info) \in Nat /\ Area(info) >= Area(info)
    <3>1. info \in Size
      BY DEF Weak, Typed
    <3>2. Area(info) \in Nat
      BY <3>1, Sizes
    <3> QED
      BY <3>1, <3>2
  <2>3. ops \in Own /\ (ops.type = H264 \/ ops.type = Mjpeg)
    BY <2>1, InPacket, DecConstants
  <2>4. CASE ops.type = H264
    <3>1. info = Unit(kept.unit)
      BY <2>1, <2>4, Zenon DEF Weak, KeptInfo
    <3> QED
      BY <2>2, <2>4, <3>1, Zenon DEF RetryFits
  <2>5. CASE ops.type = Mjpeg
    <3>1. ops.type # H264
      BY <2>5, DecConstants
    <3>2. packet > 0 /\ (~ ops.hw => info = Current[1]) /\ (ops.hw => opened)
      BY <2>1, <2>5, Zenon DEF Weak, MjpegNow
    <3>3. CASE ~ ops.hw
      BY <2>2, <3>1, <3>2, <3>3, Zenon DEF RetryFits
    <3>4. CASE ops.hw
      <4>1. PICK p \in 1 .. packet : info = Aligned(Packets[p][1])
        BY <2>1, <2>5, <3>2, <3>4, Zenon DEF Weak, HwInfo
      <4>2. packet \in 1 .. Len(Packets) /\ Current = Packets[packet] /\ Len(Packets) \in Nat
        BY <2>1, <3>2, InPacket DEF Packets
      <4>3. p \in 1 .. Len(Packets) /\ p <= packet
        BY <4>2
      <4>4. Area(Aligned(Current[1])) <= Area(info)
        BY <2>3, <2>5, <3>4, <4>1, <4>2, <4>3, NeverGrows, Zenon DEF NeverGrows, Packets
      <4>5. Area(info) >= Area(Aligned(Current[1]))
        <5>1. Current[1] \in Size
          BY <2>1, <2>5, <3>2, InPacket
        <5>2. Area(Aligned(Current[1])) \in Nat
          BY <5>1, Sizes
        <5> HIDE DEF RetryFits
        <5> QED
          BY <2>2, <4>4, <5>2
      <4> QED
        BY <3>1, <3>4, <4>5, Zenon DEF RetryFits
    <3> QED
      BY <3>3, <3>4
  <2> QED
    BY <2>3, <2>4, <2>5
<1> QED
  BY <1>1, WeakHolds, PTL

-----------------------------------------------------------------------------
(* What more is so for an application that never gives up a packet.        *)

AtNow == ops # NoLib => at <= Len(Current)

Given ==
  /\ Increasing(given)
  /\ \A j \in DOMAIN given : UpTo(given[j], packet, at)

\* The unit needs no frame any more, or not yet.
Answered(p, i) ==
  \/ Packets[p][i] = Silent \/ p \in dropped
  \/ p = packet /\ i > at
  \/ \E j \in DOMAIN given : given[j] = <<p, i>>

Complete ==
  ops # NoLib => \A p \in 1 .. packet : \A i \in DOMAIN Packets[p] : Answered(p, i)

\* The frame that is kept is the next of this packet.
KeptNow ==
  ops # NoLib /\ kept.consume > 0 =>
    /\ ops.type = H264 /\ status \in {"short", "none"} /\ kept.data = Data
    /\ kept.unit = <<packet, at + kept.consume>>
    /\ at + kept.consume <= Len(Current)
    /\ \A i \in at + 1 .. at + kept.consume - 1 : Current[i] = Silent

InfoNow ==
  ops # NoLib /\ ops.type = H264 /\ ~ (kept.consume > 0) /\ given # <<>> =>
    info = Unit(given[Len(given)])

Extra == AtNow /\ Given /\ Complete /\ KeptNow /\ InfoNow

LEMMA FreshIsExtra == Fresh => Extra
<1> SUFFICES ASSUME Fresh PROVE Extra
  OBVIOUS
<1>1. kept = Nothing /\ packet = 0 /\ at = 0 /\ given = <<>>
  BY DEF Fresh
<1>2. Len(Current) = 0 /\ ~ (kept.consume > 0)
  BY <1>1 DEF Current, Nothing
<1>3. AtNow
  BY <1>1, <1>2 DEF AtNow
<1>4. Given /\ Complete
  BY <1>1 DEF Given, Increasing, Complete
<1>5. KeptNow /\ InfoNow
  BY <1>1, <1>2, Zenon DEF KeptNow, InfoNow
<1> QED
  BY <1>3, <1>4, <1>5 DEF Extra

LEMMA OthersKeepExtra ==
  Extra /\ UNCHANGED <<ops, codecVars, appVars, fed>> => Extra'
<1> SUFFICES ASSUME Extra, UNCHANGED <<ops, codecVars, appVars, fed>> PROVE Extra'
  OBVIOUS
<1>1. /\ ops' = ops /\ info' = info /\ kept' = kept /\ packet' = packet /\ buf' = buf
      /\ at' = at /\ status' = status /\ given' = given /\ dropped' = dropped
  BY DEF codecVars, appVars
<1>2. Packets' = Packets /\ Current' = Current /\ Data' = Data
  BY <1>1 DEF Packets, Current, Data
<1>3. AtNow' /\ Given' /\ Complete'
  BY <1>1, <1>2, Zenon DEF Extra, AtNow, Given, Complete, Answered
<1>4. KeptNow' /\ InfoNow'
  BY <1>1, <1>2, Zenon DEF Extra, KeptNow, InfoNow, Unit
<1> QED
  BY <1>3, <1>4 DEF Extra

\* A call that takes nothing and keeps nothing new, or a new buffer.
LEMMA StatusKeepsExtra ==
  ASSUME Extra, UNCHANGED <<ops, kept, packet, buf, at, given, dropped>>,
         ops.type = H264 => info' = info,
         ~ (kept.consume > 0) \/ status' \in {"short", "none"}
  PROVE  Extra'
<1>1. Packets' = Packets /\ Current' = Current /\ Data' = Data
  BY DEF Packets, Current, Data
<1>2. AtNow' /\ Given' /\ Complete'
  BY <1>1, Zenon DEF Extra, AtNow, Given, Complete, Answered
<1>3. KeptNow' /\ InfoNow'
  BY <1>1, Zenon DEF Extra, KeptNow, InfoNow, Unit
<1> QED
  BY <1>2, <1>3 DEF Extra

\* The places the application has got to, when n units are taken whose last
\* may give a frame.
LEMMA Taken ==
  ASSUME Weak, Extra, ops # NoLib, NEW n \in Nat \ {0}, at + n <= Len(Current),
         \A i \in at + 1 .. at + n - 1 : Current[i] = Silent,
         UNCHANGED <<ops, packet, dropped>>, at' = at + n,
         \/ Current[at + n] = Silent /\ given' = given
         \/ given' = Append(given, <<packet, at + n>>)
  PROVE  AtNow' /\ Given' /\ Complete'
<1>1. /\ Packets' = Packets /\ Current' = Current
  BY SamePacket
<1>2. at \in Nat /\ packet \in Nat /\ at + n \in Nat /\ at < at + n /\ given \in Seq(Places) /\ Typed
  BY DEF Weak, Typed
<1>3. packet > 0 /\ Current = Packets[packet] /\ DOMAIN Current = 1 .. Len(Current)
  <2>1. /\ Len(Current) \in Nat /\ DOMAIN Current = 1 .. Len(Current)
        /\ Len(Current) > 0 => packet > 0
        /\ packet > 0 => Current = Packets[packet]
    BY <1>2, InPacket
  <2>2. Len(Current) > 0
    <3>1. \A l, m \in Nat : \A k \in Nat \ {0} : m + k <= l => l > 0
      OBVIOUS
    <3> QED
      BY <1>2, <2>1, <3>1, Zenon
  <2> QED
    BY <2>1, <2>2
<1>4. AtNow'
  BY <1>1 DEF AtNow
<1>5. \A j \in DOMAIN given :
        /\ given[j] \in Places /\ UpTo(given[j], packet, at + n)
        /\ Before(given[j], <<packet, at + n>>)
  <2>1. \A j \in DOMAIN given : given[j] \in Places /\ UpTo(given[j], packet, at)
    BY <1>2 DEF Extra, Given
  <2>2. at <= at + n
    BY <1>2
  <2> QED
    BY <1>2, <2>1, <2>2, UpToMore
<1>6. \A j \in DOMAIN given : j \in DOMAIN given' /\ given'[j] = given[j]
  <2>1. CASE given' = given
    BY <2>1
  <2>2. CASE given' = Append(given, <<packet, at + n>>)
    BY <1>2, <2>2
  <2> QED
    BY <2>1, <2>2
<1>7. \/ Current[at + n] = Silent
      \/ \E j \in DOMAIN given' : given'[j] = <<packet, at + n>>
  <2>1. CASE given' = Append(given, <<packet, at + n>>)
    BY <1>2, <2>1
  <2> QED
    BY <2>1
<1>8. Given'
  <2>1. CASE given' = given
    BY <1>5, <2>1, Zenon DEF Extra, Given
  <2>2. CASE given' = Append(given, <<packet, at + n>>)
    <3>1. <<packet, at + n>> \in Places
      BY <1>2 DEF Places
    <3>2. Increasing(given')
      BY <1>2, <1>5, <2>2, <3>1, IncreasingAppend DEF Extra, Given
    <3>3. \A j \in DOMAIN given' : UpTo(given'[j], packet, at + n)
      <4>1. UpTo(<<packet, at + n>>, packet, at + n)
        BY <1>2 DEF UpTo
      <4>2. \A j \in DOMAIN given' : j \in DOMAIN given \/ given'[j] = <<packet, at + n>>
        BY <1>2, <2>2
      <4> QED
        BY <1>5, <1>6, <4>1, <4>2, Zenon
    <3> QED
      BY <3>2, <3>3, Zenon DEF Given
  <2> QED
    BY <2>1, <2>2
<1>9. Complete'
  <2> SUFFICES ASSUME NEW p \in 1 .. packet, NEW i \in DOMAIN Packets[p]
               PROVE  Answered(p, i)'
    BY <1>1, Zenon DEF Complete
  <2>1. Answered(p, i)
    BY Zenon DEF Extra, Complete
  <2>2. CASE p = packet /\ i > at /\ ~ (i > at + n)
    <3>1. i \in Nat
      BY <1>3, <2>2
    <3>2. i = at + n \/ i \in at + 1 .. at + n - 1
      BY <1>2, <2>2, <3>1
    <3> QED
      BY <1>1, <1>3, <1>7, <2>2, <3>2, Zenon DEF Answered
  <2>3. CASE ~ (p = packet /\ i > at) \/ (p = packet /\ i > at + n)
    BY <1>1, <1>6, <2>1, <2>3, Zenon DEF Answered
  <2> QED
    BY <2>2, <2>3
<1> QED
  BY <1>4, <1>8, <1>9

\* A frame is given: that of the unit the call took last.
LEMMA GiveKeepsExtra ==
  ASSUME Weak, Extra, ops # NoLib, NEW n \in Nat \ {0}, at + n <= Len(Current),
         \A i \in at + 1 .. at + n - 1 : Current[i] = Silent,
         ops' = ops, Give(<<packet, at + n>>, n), ~ (kept'.consume > 0),
         ops.type = H264 => info' = Unit(<<packet, at + n>>)
  PROVE  Extra'
<1>1. /\ packet' = packet /\ dropped' = dropped /\ at' = at + n
      /\ given' = Append(given, <<packet, at + n>>)
  BY DEF Give, Return
<1>2. AtNow' /\ Given' /\ Complete'
  BY <1>1, Taken
<1>3. Packets' = Packets /\ given \in Seq(Places) /\ <<packet, at + n>> \in Places
  BY <1>1, SamePacket DEF Weak, Typed, Places
<1>4. given'[Len(given')] = <<packet, at + n>>
  BY <1>1, <1>3
<1>5. KeptNow'
  BY Zenon DEF KeptNow
<1>6. InfoNow'
  <2>1. Unit(<<packet, at + n>>) = Packets[<<packet, at + n>>[1]][<<packet, at + n>>[2]]
    BY DEF Unit
  <2> QED
    BY <1>3, <1>4, <2>1, Zenon DEF InfoNow, Unit
<1> QED
  BY <1>2, <1>5, <1>6 DEF Extra

LEMMA H264DecodeKeepsExtra ==
  ASSUME Weak, Extra, ops # NoLib, ops.type = H264, ~ IsKept, ops' = ops,
         NEW n \in 1 .. Len(Current) - at, H264Decode(n)
  PROVE  Extra'
<1> DEFINE last == <<packet, at + n>>
           size == Unit(last)
<1>1. /\ \A i \in at + 1 .. at + n - 1 : Current[i] = Silent
      /\ \/ /\ size = Silent
            /\ Return("ok") /\ at' = at + n /\ kept' = Nothing
            /\ UNCHANGED <<given, info>>
         \/ /\ size # Silent /\ info' = size
            /\ IF TooSmall(size)
                 THEN /\ Keep("short")
                      /\ kept' = [unit |-> last, data |-> Data, consume |-> n]
                 ELSE CopyOutput(last, n)
  BY DEF H264Decode
<1>2. /\ n \in Nat \ {0} /\ at + n \in Nat /\ at + n <= Len(Current)
      /\ last \in Places /\ size = Current[at + n]
  BY DecodedMore
<1> HIDE DEF last, size
<1>3. ~ (kept.consume > 0)
  BY Zenon DEF IsKept, Extra, KeptNow
<1>4. CASE size = Silent /\ Return("ok") /\ at' = at + n /\ kept' = Nothing /\ UNCHANGED <<given, info>>
  <2>1. packet' = packet /\ dropped' = dropped /\ ~ (kept'.consume > 0)
    BY <1>4 DEF Return, Nothing
  <2>2. AtNow' /\ Given' /\ Complete'
    BY <1>1, <1>2, <1>4, <2>1, Taken
  <2>3. Packets' = Packets
    BY <2>1, SamePacket
  <2>4. KeptNow' /\ InfoNow'
    BY <1>3, <1>4, <2>1, <2>3, Zenon DEF Extra, KeptNow, InfoNow, Unit
  <2> QED
    BY <2>2, <2>4 DEF Extra
<1>5. CASE /\ size # Silent /\ info' = size /\ Keep("short")
           /\ kept' = [unit |-> last, data |-> Data, consume |-> n]
  <2>1. /\ kept'.consume = n /\ kept'.unit = last /\ kept'.data = Data /\ status' = "short"
        /\ UNCHANGED <<packet, buf, at, given, dropped>>
    BY <1>5 DEF Keep, Return
  <2>2. Packets' = Packets /\ Current' = Current /\ Data' = Data
    BY <2>1, SamePacket DEF Data
  <2>3. AtNow' /\ Given' /\ Complete'
    BY <2>1, <2>2, Zenon DEF Extra, AtNow, Given, Complete, Answered
  <2>4. n > 0 /\ status' \in {"short", "none"}
    BY <1>2, <2>1
  <2>5. KeptNow'
    BY <1>1, <1>2, <2>1, <2>2, <2>4, Zenon DEF KeptNow, last
  <2>6. InfoNow'
    BY <2>1, <2>4, Zenon DEF InfoNow
  <2> QED
    BY <2>3, <2>5, <2>6 DEF Extra
<1>6. CASE size # Silent /\ info' = size /\ CopyOutput(last, n)
  <2>1. Give(last, n) /\ ~ (kept'.consume > 0)
    BY <1>6 DEF CopyOutput, Nothing
  <2> QED
    BY <1>1, <1>2, <1>6, <2>1, GiveKeepsExtra DEF last, size
<1> QED
  BY <1>1, <1>4, <1>5, <1>6

LEMMA H264KeepsExtra ==
  ASSUME Weak, Extra, ops # NoLib, DecodeH264, ops' = ops
  PROVE  Extra'
<1>1. ops.type = H264
  BY DEF DecodeH264
<1>2. CASE IsKept
  <2>1. /\ info' = info
        /\ IF TooSmall(Unit(kept.unit)) THEN Keep("short") /\ UNCHANGED kept
                                        ELSE CopyOutput(kept.unit, kept.consume)
    BY <1>2 DEF DecodeH264
  <2>2. CASE Keep("short") /\ UNCHANGED kept
    <3>1. /\ UNCHANGED <<ops, kept, packet, buf, at, given, dropped>>
          /\ status' \in {"short", "none"}
      BY <2>2 DEF Keep, Return
    <3> QED
      BY <2>1, <3>1, StatusKeepsExtra
  <2>3. CASE CopyOutput(kept.unit, kept.consume)
    <3>1. /\ kept.consume > 0 /\ kept.unit = <<packet, at + kept.consume>>
          /\ at + kept.consume <= Len(Current)
          /\ \A i \in at + 1 .. at + kept.consume - 1 : Current[i] = Silent
      BY <1>2, Zenon DEF IsKept, Extra, KeptNow
    <3>2. kept.consume \in Nat \ {0} /\ info = Unit(kept.unit)
      <4>1. kept.consume \in Nat /\ info = Unit(kept.unit)
        BY <3>1, Zenon DEF Weak, Typed, KeptInfo
      <4> QED
        BY <3>1, <4>1
    <3>3. Give(<<packet, at + kept.consume>>, kept.consume) /\ ~ (kept'.consume > 0)
      BY <2>3, <3>1 DEF CopyOutput, Nothing
    <3>4. info' = Unit(<<packet, at + kept.consume>>)
      BY <2>1, <3>1, <3>2, Zenon
    <3> QED
      BY <3>1, <3>2, <3>3, <3>4, GiveKeepsExtra
  <2> QED
    BY <2>1, <2>2, <2>3
<1>3. CASE ~ IsKept
  <2>1. \/ \E n \in 1 .. Len(Current) - at : H264Decode(n)
        \/ Keep("fail") /\ UNCHANGED <<kept, info, fed>>
    BY <1>3 DEF DecodeH264
  <2>2. ASSUME NEW n \in 1 .. Len(Current) - at, H264Decode(n) PROVE Extra'
    BY <1>1, <1>3, <2>2, H264DecodeKeepsExtra
  <2>3. CASE Keep("fail") /\ UNCHANGED <<kept, info, fed>>
    <3>1. UNCHANGED <<ops, kept, packet, buf, at, given, dropped>> /\ info' = info
      BY <2>3 DEF Keep, Return
    <3>2. ~ (kept.consume > 0)
      BY <1>3, Zenon DEF IsKept, Extra, KeptNow
    <3> QED
      BY <3>1, <3>2, StatusKeepsExtra
  <2> QED
    BY <2>1, <2>2, <2>3
<1> QED
  BY <1>2, <1>3

LEMMA MjpegKeepsExtra ==
  ASSUME Weak, Extra, ops # NoLib, at < Len(Current), ops' = ops,
         DecodeHardware \/ DecodeSoftware
  PROVE  Extra'
<1>1. /\ ops.type = Mjpeg /\ kept' = kept
      /\ Keep("short") \/ Keep("fail") \/ Give(<<packet, at + 1>>, 1)
  BY DEF DecodeHardware, DecodeSoftware
<1>2. /\ at = 0 /\ Len(Current) = 1 /\ ops.type # H264 /\ kept = Nothing
  BY <1>1, TheMjpeg
<1>3. ~ (kept.consume > 0) /\ ~ (kept'.consume > 0)
  BY <1>1, <1>2 DEF Nothing
<1>4. CASE Keep("short") \/ Keep("fail")
  <2>1. UNCHANGED <<ops, kept, packet, buf, at, given, dropped>>
    BY <1>1, <1>4 DEF Keep, Return
  <2> QED
    BY <1>2, <1>3, <2>1, StatusKeepsExtra
<1>5. CASE Give(<<packet, at + 1>>, 1)
  <2>1. /\ 1 \in Nat \ {0} /\ at + 1 <= Len(Current)
        /\ \A i \in at + 1 .. at + 1 - 1 : Current[i] = Silent
    BY <1>2
  <2> QED
    BY <1>2, <1>3, <1>5, <2>1, GiveKeepsExtra
<1> QED
  BY <1>1, <1>4, <1>5

LEMMA NextKeepsExtra ==
  ASSUME Weak, Extra, GivesUp = FALSE, NEW b \in Bufs, NextPacket(b), Weak'
  PROVE  Extra'
<1>1. /\ ops # NoLib
      /\ (status \in {"none", "ok"} /\ at = Len(Current)) \/ status = "fail"
      /\ dropped' = IF at = Len(Current) THEN dropped ELSE dropped \cup {packet}
      /\ packet' = packet + 1 /\ at' = 0 /\ status' = "none"
      /\ ops' = ops /\ info' = info /\ kept' = kept /\ given' = given
  BY DEF NextPacket, codecVars
<1>2. /\ packet \in Nat /\ at \in Nat /\ kept.consume \in Nat /\ Typed
      /\ given \in Seq(Places) /\ Typed'
  BY DEF Weak, Typed
<1>3. /\ Packets' = Packets /\ Len(Current) \in Nat
      /\ DOMAIN Current = 1 .. Len(Current)
      /\ packet > 0 => Current = Packets[packet]
  BY <1>1, <1>2, InPacket DEF Packets
<1>4. ~ (kept.consume > 0)
  <2> SUFFICES ASSUME kept.consume > 0 PROVE FALSE
    OBVIOUS
  <2>1. status \in {"short", "none"} /\ at + kept.consume <= Len(Current)
    BY <1>1, Zenon DEF Extra, KeptNow
  <2>2. status # "fail"
    BY <2>1
  <2>3. at = Len(Current)
    BY <1>1, <2>2
  <2>4. ~ (at + kept.consume <= at)
    BY <1>2
  <2> QED
    BY <2>1, <2>3, <2>4, Zenon
<1>5. AtNow'
  <2>1. (Typed /\ ops # NoLib => Len(Current) \in Nat)'
    BY LengthIs, PTL
  <2>2. \A n \in Nat : 0 <= n
    OBVIOUS
  <2> QED
    BY <1>1, <1>2, <2>1, <2>2, Zenon DEF AtNow
<1>6. Given'
  <2>1. \A j \in DOMAIN given : given[j] \in Places /\ UpTo(given[j], packet, at)
    BY <1>2 DEF Extra, Given
  <2>2. \A j \in DOMAIN given : UpTo(given[j], packet + 1, 0)
    BY <1>2, <2>1, UpToMore
  <2> QED
    BY <1>1, <2>2, Zenon DEF Extra, Given
<1>7. Complete'
  <2> SUFFICES ASSUME NEW p \in 1 .. packet + 1, NEW i \in DOMAIN Packets[p]
               PROVE  Answered(p, i)'
    BY <1>1, <1>3, Zenon DEF Complete
  <2>1. CASE p \in 1 .. packet
    <3>1. Answered(p, i)
      BY <1>1, <2>1, Zenon DEF Extra, Complete
    <3>2. CASE p = packet /\ i > at
      <4>1. packet > 0
        BY <1>2, <2>1, <3>2
      <4>2. i \in 1 .. Len(Current)
        BY <1>3, <3>2, <4>1
      <4>3. at # Len(Current)
        BY <1>3, <3>2, <4>2
      <4>4. p \in dropped'
        BY <1>1, <3>2, <4>3
      <4> QED
        BY <4>4, Zenon DEF Answered
    <3>3. CASE ~ (p = packet /\ i > at)
      <4>1. \A x : x \in dropped => x \in dropped'
        BY <1>1
      <4> QED
        BY <1>1, <1>3, <3>1, <3>3, <4>1, Zenon DEF Answered
    <3> QED
      BY <3>2, <3>3
  <2>2. CASE p = packet + 1
    <3>1. (Typed /\ ops # NoLib => /\ DOMAIN Current = 1 .. Len(Current)
                                   /\ packet > 0 => Current = Packets[packet])'
      BY PlacesAre, PTL
    <3>2. packet' > 0
      BY <1>1, <1>2
    <3>3. i \in 1 .. Len(Current')
      BY <1>1, <1>2, <1>3, <2>2, <3>1, <3>2, Zenon
    <3>4. p = packet' /\ i > at'
      BY <1>1, <2>2, <3>3
    <3> QED
      BY <3>4, Zenon DEF Answered
  <2> QED
    BY <1>2, <2>1, <2>2
<1>8. KeptNow' /\ InfoNow'
  BY <1>1, <1>3, <1>4, Zenon DEF Extra, KeptNow, InfoNow, Unit
<1> QED
  BY <1>5, <1>6, <1>7, <1>8 DEF Extra

Strong == RegInv /\ Weak /\ Extra

LEMMA StepKeepsReg == RegInv /\ [Next]_decVars => RegInv'
<1> SUFFICES ASSUME RegInv, [Next]_decVars PROVE RegInv'
  OBVIOUS
<1>1. CASE libs' = libs
  BY <1>1 DEF RegInv, RegTypeOK, OneOfEachTag
<1>2. ASSUME NEW d \in Descs, Register(d) \/ Unregister(d) PROVE RegInv'
  BY <1>2, AddKeepsInv, RemoveKeepsInv DEF Register, Unregister
<1>3. CASE Close \/ Decode \/ Retry \/ (\E b \in Bufs : NextPacket(b))
  <2>1. libs' = libs
    BY <1>3 DEF Close, Decode, Retry, NextPacket
  <2> QED
    BY <1>1, <2>1
<1>4. ASSUME NEW q \in Query, NEW r \in Rooms, Open(q, r) PROVE RegInv'
  BY <1>1, <1>4 DEF Open
<1> QED
  BY <1>1, <1>2, <1>3, <1>4, Zenon DEF Next, decVars

LEMMA StepKeepsExtra ==
  ASSUME Weak, Extra, GivesUp = FALSE, [Next]_decVars
  PROVE  Extra'
<1>1. CASE UNCHANGED decVars
  BY <1>1, OthersKeepExtra DEF decVars
<1>2. ASSUME NEW d \in Descs, Register(d) \/ Unregister(d) PROVE Extra'
  BY <1>2, OthersKeepExtra DEF Register, Unregister
<1>3. (Fresh => Extra)'
  BY FreshIsExtra, PTL
<1>4. ASSUME NEW q \in Query, NEW r \in Rooms, Open(q, r) PROVE Extra'
  BY <1>3, <1>4, OpenMakesFresh
<1>5. CASE Close
  BY <1>3, <1>5, CloseMakesFresh
<1>6. CASE Decode
  <2>1. /\ ops # NoLib /\ at < Len(Current) /\ ops' = ops
        /\ DecodeH264 \/ DecodeHardware \/ DecodeSoftware
    BY <1>6 DEF Decode
  <2> QED
    BY <2>1, H264KeepsExtra, MjpegKeepsExtra
<1>7. CASE Retry
  <2>1. /\ status' \in {"short", "none"} /\ info' = info
        /\ UNCHANGED <<ops, kept, packet, buf, at, given, dropped>>
    BY <1>7 DEF Retry, codecVars
  <2> QED
    BY <2>1, StatusKeepsExtra
<1>8. ASSUME NEW b \in Bufs, NextPacket(b) PROVE Extra'
  <2>1. Weak'
    BY <1>8, NextKeepsWeak
  <2> QED
    BY <1>8, <2>1, NextKeepsExtra
<1> QED
  BY <1>1, <1>2, <1>4, <1>5, <1>6, <1>7, <1>8, Zenon DEF Next

LEMMA StrongHolds == ASSUME GivesUp = FALSE PROVE Spec => []Strong
<1>1. Init => Strong
  <2> SUFFICES ASSUME Init PROVE Strong
    OBVIOUS
  <2>1. RegInv
    BY DEF Init, RegInit, RegInv, RegTypeOK, OneOfEachTag
  <2>2. Weak
    BY WeakAtFirst
  <2>3. Extra
    BY FreshIsExtra DEF Init
  <2> QED
    BY <2>1, <2>2, <2>3 DEF Strong
<1>2. Strong /\ [Next]_decVars => Strong'
  <2> SUFFICES ASSUME Strong, [Next]_decVars PROVE Strong'
    OBVIOUS
  <2>1. RegInv /\ Weak /\ Extra
    BY DEF Strong
  <2>2. RegInv'
    BY <2>1, StepKeepsReg
  <2>3. Weak'
    BY <2>1, StepKeepsWeak
  <2>4. Extra'
    BY <2>1, StepKeepsExtra
  <2> QED
    BY <2>2, <2>3, <2>4 DEF Strong
<1> QED
  BY <1>1, <1>2, PTL DEF Spec

\* Types; nothing is left of a handle that was closed; no unit is taken that
\* the packet does not have.
THEOREM DecTypeCorrect == ASSUME GivesUp = FALSE PROVE Spec => []DecTypeOK
<1>1. Strong => DecTypeOK
  <2> SUFFICES ASSUME Strong PROVE DecTypeOK
    OBVIOUS
  <2>1. RegTypeOK /\ Typed /\ AtNow
    BY DEF Strong, RegInv, Weak, Extra
  <2>2. DOMAIN info = {"w", "h"}
    BY <2>1 DEF Typed, Size
  <2>3. ops # NoLib => packet \in 0 .. Len(Packets) /\ at \in 0 .. Len(Current)
    <3> SUFFICES ASSUME ops # NoLib
                 PROVE  packet \in 0 .. Len(Packets) /\ at \in 0 .. Len(Current)
      OBVIOUS
    <3>1. packet \in Nat /\ at \in Nat /\ packet <= Len(Packets) /\ at <= Len(Current)
      BY <2>1, Zenon DEF Typed, AtNow
    <3>2. Len(Packets) \in Nat /\ Len(Current) \in Nat
      BY <2>1, InPacket DEF Packets
    <3> QED
      BY <3>1, <3>2
  <2> QED
    BY <2>1, <2>2, <2>3, Zenon DEF DecTypeOK, Typed
<1> QED
  BY <1>1, StrongHolds, PTL

\* The frames come in order, none twice and none lost, when the application
\* tries again until it has them.
THEOREM EveryFrameGiven == ASSUME GivesUp = FALSE PROVE Spec => []EveryFrameOnce
<1>1. Strong => EveryFrameOnce
  BY Zenon DEF Strong, Extra, Given, Complete, Answered, EveryFrameOnce
<1> QED
  BY <1>1, StrongHolds, PTL

\* Among the pictures that the hardware decodes, those of one area have one
\* shape: none is turned.
NoTurn ==
  \A d \in Own : d.type = Mjpeg /\ d.hw =>
    \A p, q \in 1 .. Len(Stream[d]) :
      Area(Aligned(Stream[d][q][1])) = Area(Aligned(Stream[d][p][1]))
        => Aligned(Stream[d][q][1]) = Aligned(Stream[d][p][1])

\* The frame information is that of the frame given last.
THEOREM InfoOfLast ==
  ASSUME GivesUp = FALSE, NoTurn PROVE Spec => []InfoIsCurrent
<1>1. Strong => InfoIsCurrent
  <2> SUFFICES ASSUME Strong, status = "ok", given # <<>> PROVE InfoIsCurrent
    BY DEF InfoIsCurrent
  <2>1. Weak /\ Extra /\ Typed
    BY DEF Strong, Weak
  <2>2. ops # NoLib
    <3>1. ops = NoLib => status = "none"
      BY <2>1, Zenon DEF Typed, Fresh
    <3> QED
      BY <3>1
  <2>3. ops \in Own /\ (ops.type = H264 \/ ops.type = Mjpeg) /\ H264 # Mjpeg
    BY <2>1, <2>2, InPacket, DecConstants
  <2>4. CASE ops.type = H264
    <3>1. ~ (kept.consume > 0)
      <4>1. status \notin {"short", "none"}
        OBVIOUS
      <4> QED
        BY <2>1, <2>2, <4>1, Zenon DEF Extra, KeptNow
    <3>2. info = Unit(given[Len(given)])
      BY <2>1, <2>2, <2>4, <3>1, Zenon DEF Extra, InfoNow
    <3> QED
      BY <2>3, <2>4, <3>2, Zenon DEF InfoIsCurrent
  <2>5. CASE ops.type = Mjpeg
    <3>1. /\ packet > 0 /\ given[Len(given)] = <<packet, 1>>
          /\ ~ ops.hw => info = Current[1]
          /\ ops.hw => opened /\ expect = Area(Aligned(Current[1]))
      <4>1. status \in {"short", "ok"}
        OBVIOUS
      <4> QED
        BY <2>1, <2>2, <2>5, <4>1, Zenon DEF Weak, MjpegNow
    <3>2. packet \in 1 .. Len(Packets) /\ Current = Packets[packet] /\ Len(Packets) \in Nat
      BY <2>1, <2>2, <3>1, InPacket DEF Packets
    <3>3. Unit(given[Len(given)]) = Current[1]
      BY <3>1, <3>2 DEF Unit
    <3>4. CASE ~ ops.hw
      BY <3>1, <3>3, <3>4, Zenon DEF InfoIsCurrent
    <3>5. CASE ops.hw
      <4>1. PICK p \in 1 .. packet : info = Aligned(Packets[p][1]) /\ expect = Area(info)
        BY <2>1, <2>2, <2>5, <3>1, <3>5, Zenon DEF Weak, HwInfo
      <4>2. p \in 1 .. Len(Packets)
        BY <3>2
      <4>3. Area(Aligned(Packets[packet][1])) = Area(Aligned(Packets[p][1]))
        BY <3>1, <3>2, <3>5, <4>1, Zenon
      <4>4. info = Aligned(Current[1])
        BY <2>3, <2>5, <3>2, <3>5, <4>1, <4>2, <4>3, NoTurn, Zenon DEF NoTurn, Packets
      <4> QED
        BY <2>5, <3>3, <3>5, <4>4, Zenon DEF InfoIsCurrent
    <3> QED
      BY <3>4, <3>5
  <2> QED
    BY <2>3, <2>4, <2>5
<1> QED
  BY <1>1, StrongHolds, PTL
=============================================================================
