----------------------------- MODULE SrtpSession -----------------------------
(***************************************************************************)
(* A libsrtp session (srtp.c): the template, the list of the streams, and  *)
(* the key material they own or share.  A stream of the template borrows   *)
(* the ciphers and the key limit of the template; a stream with a policy   *)
(* of its own has its own.  All of it comes from the heap, and every       *)
(* allocation on the way may fail.                                         *)
(*                                                                         *)
(* Which index a packet has and when it is refused is the matter of        *)
(* SrtpStream; here an accepted packet is one step of its stream, and one  *)
(* that is refused (a replay, an expired key) leaves the stream it found   *)
(* or made.                                                                *)
(***************************************************************************)
EXTENDS SrtpKernel, SequencesExt

CONSTANTS Ssrcs,            \* the SSRCs of packets and policies
          Masters,          \* master keys
          Blocks,           \* where the key material of a stream may be: 1 .. n
          InitialCapacity,  \* INITIAL_STREAM_INDEX_SIZE
          MaxIndex,         \* bound: accepted packets of a stream
          AddTwice,         \* input: the application gives an SSRC two policies
          AcrossUpdates     \* history: what an SSRC was used for before an
                            \* update of its stream counts after it, too

ASSUME SessionAssumption ==
  /\ InitialCapacity \in Nat \ {0} /\ MaxIndex \in Nat \ {0}
  /\ Blocks \subseteq Nat /\ IsFiniteSet(Blocks) /\ IsFiniteSet(Ssrcs)
  /\ AcrossUpdates \in BOOLEAN

VARIABLES session, heap

sessionVars == <<kernel, session, heap>>

None == [none |-> TRUE]

Unused == [unused |-> TRUE]

NewStream(ssrc, keys, dir) ==
  [ssrc |-> ssrc, keys |-> keys, dir |-> dir, index |-> 0, rtcp |-> 0,
   used |-> {}, told |-> FALSE]    \* used, told: what happened to it so far

\* The uses of a stream that is made anew by an update, which forgets its
\* direction: those that were not reported go on to count, or are forgotten, too.
Carried(s) == IF AcrossUpdates /\ ~s.told THEN s.used ELSE {}

Wildcards == {"any_outbound", "any_inbound"}
Policies == [ssrc : Ssrcs \cup Wildcards, master : Masters]

\* A wildcard is told from an SSRC by its type, a block in use by its master key.
ASSUME TagsAssumption ==
  /\ Ssrcs \cap Wildcards = {}
  /\ Unused \notin Masters

\* A call meets no failing allocation, or one of these.
Luck == Faults \cup {"none"}

SessionInit ==
  /\ kernel = Insecure
  /\ session = None
  /\ heap = [b \in Blocks |-> Unused]

NewSession == [template |-> None, list |-> <<>>, cap |-> InitialCapacity]

(***************************************************************************)
(* The heap                                                                *)
(***************************************************************************)
Room(h) == {b \in Blocks : h[b] = Unused}
Lowest(blocks) == CHOOSE b \in blocks : \A c \in blocks : b <= c
Allocated(h, master) == [h EXCEPT ![Lowest(Room(h))] = master]

Freed(h, blocks) == [b \in Blocks |-> IF b \in blocks THEN Unused ELSE h[b]]

\* Mutant: what the streams share with the template is freed with them.
OwnShared(streams, template) == {s.keys : s \in streams}

\* srtp_stream_dealloc frees what the stream does not share with the template.
Own(streams, template) ==
  {s.keys : s \in streams} \ (IF template = None THEN {} ELSE {template.keys})

(***************************************************************************)
(* The list of the streams: an entry is found by its SSRC, the first one   *)
(***************************************************************************)
Position(list, ssrc) == SelectInSeq(list, LAMBDA s : s.ssrc = ssrc)
Found(list, ssrc) == Position(list, ssrc) # 0
Stream(ssrc) == session.list[Position(session.list, ssrc)]

Full(s) == Len(s.list) = s.cap

\* Mutant: the array of the list is not enlarged.
InsertedUngrown(s, stream) == [s EXCEPT !.list = Append(@, stream)]

Inserted(s, stream) ==
  [s EXCEPT !.list = Append(@, stream), !.cap = IF Full(s) THEN 2 * @ ELSE @]

(***************************************************************************)
(* srtp_stream_add, on a session and a heap; the result says how it went   *)
(***************************************************************************)
Refused(st) == [st EXCEPT !.ok = FALSE]

srtp_stream_add(st, policy, luck) ==
  LET new == NewStream(policy.ssrc, Lowest(Room(st.heap)), "unknown")
      dir == IF policy.ssrc = "any_outbound" THEN "sender" ELSE "receiver"
      to == [st EXCEPT !.heap = Allocated(@, policy.master)]
  IN  IF ~st.ok \/ ~kernel.secure \/ luck = "alloc" THEN Refused(st)
      ELSE IF policy.ssrc \in Wildcards
           THEN IF st.session.template # None THEN Refused(st)
                ELSE [to EXCEPT !.session.template = [new EXCEPT !.dir = dir]]
           ELSE IF luck = "grow" /\ Full(st.session) THEN Refused(st)
                ELSE [to EXCEPT !.session = Inserted(@, new)]

State == [session |-> session, heap |-> heap, ok |-> TRUE]
Becomes(st) == session' = st.session /\ heap' = st.heap

\* bound: there is a block for every policy of the call.
Fits(n) == Cardinality(Room(heap)) >= n

\* The policies are added one after the other; if one fails all is freed.
srtp_create(policies) ==
  /\ session = None
  /\ Fits(Len(policies))
  /\ AddTwice \/ \A i, j \in DOMAIN policies :
                   policies[i].ssrc = policies[j].ssrc => i = j
  /\ \E luck \in Luck :
       LET begin == [State EXCEPT !.session = NewSession]
           end == FoldLeft(LAMBDA st, p : srtp_stream_add(st, p, luck), begin, policies)
       IN  IF end.ok THEN Becomes(end) ELSE UNCHANGED <<session, heap>>

srtp_dealloc ==
  /\ session # None
  /\ session' = None
  /\ heap' = Freed(heap, Own(ToSet(session.list), session.template)
                           \cup (IF session.template = None THEN {} ELSE {session.template.keys}))

AddStream(policy) ==
  /\ session # None
  /\ Fits(1)
  /\ AddTwice \/ ~Found(session.list, policy.ssrc)
  /\ \E luck \in Luck : Becomes(srtp_stream_add(State, policy, luck))

Removed(st, ssrc) ==
  LET at == Position(st.session.list, ssrc)
  IN  [st EXCEPT !.session.list = RemoveAt(@, at),
                 !.heap = Freed(@, Own({st.session.list[at]}, st.session.template))]

srtp_stream_remove(ssrc) ==
  /\ session # None
  /\ Found(session.list, ssrc)
  /\ Becomes(Removed(State, ssrc))

(***************************************************************************)
(* stream_update: out with the stream of that SSRC, in with the new one,   *)
(* and the stream that is found then gets the old index.                   *)
(***************************************************************************)
stream_update(policy, luck) ==
  LET old == Stream(policy.ssrc)
      added == srtp_stream_add(Removed(State, policy.ssrc), policy, luck)
      at == Position(added.session.list, policy.ssrc)
  IN  /\ Found(session.list, policy.ssrc)
      /\ Becomes(IF added.ok
                 THEN [added EXCEPT !.session.list[at] =
                         [@ EXCEPT !.index = old.index, !.rtcp = old.rtcp,
                                   !.used = Carried(old)]]
                 ELSE added)

(***************************************************************************)
(* update_template_streams.  The callback goes through the list and stops  *)
(* at entry n, whose allocation fails, or comes to the end.  It moves the  *)
(* streams with keys of their own and makes those of the template anew,    *)
(* all into a second list.                                                 *)
(***************************************************************************)
\* No list gets longer: its streams have a block each or an SSRC of the template.
MostStreams == Cardinality(Blocks) + Cardinality(Ssrcs)

Doublings[k \in 0 .. MostStreams] ==
  IF k = 0 THEN InitialCapacity ELSE 2 * Doublings[k - 1]

Capacities == {Doublings[k] : k \in 0 .. MostStreams}
CapacityFor(n) == Min({c \in Capacities : c >= n})

IsOwn(s) == s.keys # session.template.keys

Clone(template, ssrc) == NewStream(ssrc, template.keys, template.dir)

\* Mutant: the RTCP database is not carried over.
RenewedWithoutRtcp(s, template) ==
  IF IsOwn(s) THEN s ELSE [Clone(template, s.ssrc) EXCEPT !.index = s.index]

Renewed(s, template) ==
  IF IsOwn(s) THEN s
  ELSE [Clone(template, s.ssrc) EXCEPT !.index = s.index, !.rtcp = s.rtcp,
                                       !.used = Carried(s)]

StopsAt(n, luck) ==
  \/ luck = "clone" /\ ~IsOwn(session.list[n])
  \/ luck = "grow" /\ n - 1 \in Capacities

\* What the second list holds by then is freed with it.
GivesUpAt(n) ==
  /\ session' = [session EXCEPT !.list = SubSeq(@, n + 1, Len(@))]
  /\ heap' = Freed(heap, Own(ToSet(SubSeq(session.list, 1, n)), session.template))

update_template_streams(policy, luck) ==
  LET new == NewStream(policy.ssrc, Lowest(Room(heap)), "unknown")
      list == session.list
      stops == {n \in DOMAIN list : StopsAt(n, luck)}
  IN  /\ session.template # None
      /\ IF ~kernel.secure \/ luck = "alloc" THEN UNCHANGED <<session, heap>>
         ELSE IF luck \in {"update_init", "update_list"}  \* frees the template only
         THEN heap' = Allocated(heap, policy.master) /\ UNCHANGED session
         ELSE IF stops # {} THEN GivesUpAt(Min(stops))
         ELSE /\ session' = [template |-> new,
                             list |-> [i \in DOMAIN list |-> Renewed(list[i], new)],
                             cap |-> CapacityFor(Len(list))]
              /\ heap' = Freed(Allocated(heap, policy.master), {session.template.keys})

srtp_stream_update(policy, luck) ==
  /\ session # None
  /\ Fits(1)
  /\ IF policy.ssrc \in Wildcards
     THEN update_template_streams(policy, luck)
     ELSE stream_update(policy, luck)

(***************************************************************************)
(* The packets: the stream of the SSRC, or one cloned from the template    *)
(***************************************************************************)
WithClone(st, ssrc, dir, luck) ==
  LET t == st.session.template
  IN  IF t = None \/ luck = "clone" \/ (luck = "grow" /\ Full(st.session)) THEN Refused(st)
      ELSE [st EXCEPT !.session = Inserted(@, [Clone(t, ssrc) EXCEPT !.dir = dir])]

WithStream(ssrc, dir, luck) ==
  IF Found(session.list, ssrc) THEN State ELSE WithClone(State, ssrc, dir, luck)

\* Mutant: the first use does not settle the direction.
TurnedUnsettled(s, dir) ==
  [s EXCEPT !.told = @ \/ s.dir \notin {"unknown", dir}, !.used = @ \cup {dir}]

\* The direction is settled by the first use; against it is an SSRC collision.
Turned(s, dir) ==
  [s EXCEPT !.told = @ \/ s.dir \notin {"unknown", dir},
            !.dir = IF @ = "unknown" THEN dir ELSE @,
            !.used = @ \cup {dir}]

\* bound: the streams have taken fewer than MaxIndex packets.
Bounded(field, ssrc) ==
  Found(session.list, ssrc) => Stream(ssrc)[field] < MaxIndex

\* A packet allocates only where its stream has to be made.
LuckOf(ssrc) == IF Found(session.list, ssrc) THEN {"none"} ELSE Luck

\* accepted: the key is not expired and the packet is no replay.
SessionProtect(ssrc, accepted) ==
  /\ session # None
  /\ Bounded("index", ssrc)
  /\ \E luck \in LuckOf(ssrc) :
       LET st == WithStream(ssrc, "sender", luck)
           at == Position(st.session.list, ssrc)
           s == Turned(st.session.list[at], "sender")
       IN  IF st.ok
           THEN Becomes([st EXCEPT !.session.list[at] =
                                     IF accepted THEN [s EXCEPT !.index = @ + 1] ELSE s])
           ELSE UNCHANGED <<session, heap>>

SessionProtectRtcp(ssrc) ==
  /\ session # None
  /\ Bounded("rtcp", ssrc)
  /\ \E luck \in LuckOf(ssrc) :
       LET dir == IF session.template = None THEN "unknown" ELSE session.template.dir
           st == WithStream(ssrc, dir, luck)
           at == Position(st.session.list, ssrc)
           s == [Turned(st.session.list[at], "sender") EXCEPT !.rtcp = @ + 1]
       IN  IF st.ok
           THEN Becomes([st EXCEPT !.session.list[at] = s])
           ELSE UNCHANGED <<session, heap>>

\* Received, authentic and accepted: the template takes a direction before it
\* is cloned.  A packet that is refused changes nothing of this.
Receives(ssrc, field) ==
  IF Found(session.list, ssrc)
  THEN LET at == Position(session.list, ssrc)
           s == Turned(session.list[at], "receiver")
       IN  session' = [session EXCEPT !.list[at] = [s EXCEPT ![field] = @ + 1]]
  ELSE LET t == Turned(session.template, "receiver")
           turned == [State EXCEPT !.session.template.dir = t.dir]
       IN  \E luck \in Luck :
             LET st == WithClone(turned, ssrc, t.dir, luck)
                 at == Len(st.session.list)
             IN  session' =
                   IF st.ok
                   THEN [st.session EXCEPT !.list[at].used = t.used, !.list[at].told = t.told,
                                           !.list[at][field] = @ + 1]
                   ELSE st.session

Known(ssrc) == session.template = None => Found(session.list, ssrc)

SessionUnprotect(ssrc) ==
  /\ session # None
  /\ Known(ssrc)
  /\ Bounded("index", ssrc)
  /\ Receives(ssrc, "index")
  /\ UNCHANGED heap

SessionUnprotectRtcp(ssrc) ==
  /\ session # None
  /\ Known(ssrc)
  /\ Bounded("rtcp", ssrc)
  /\ Receives(ssrc, "rtcp")
  /\ UNCHANGED heap

KernelStep == (srtp_init \/ srtp_shutdown) /\ UNCHANGED <<session, heap>>

SessionStep ==
  \/ \E policies \in BoundedSeq(Policies, 2) : srtp_create(policies)
  \/ srtp_dealloc
  \/ \E policy \in Policies : AddStream(policy)
  \/ \E ssrc \in Ssrcs : srtp_stream_remove(ssrc)
  \/ \E policy \in Policies, luck \in Luck : srtp_stream_update(policy, luck)
  \/ \E ssrc \in Ssrcs :
       \/ \E accepted \in BOOLEAN : SessionProtect(ssrc, accepted)
       \/ SessionProtectRtcp(ssrc)
       \/ SessionUnprotect(ssrc)
       \/ SessionUnprotectRtcp(ssrc)

SessionNext == KernelStep \/ (SessionStep /\ UNCHANGED kernel)

SessionSpec == SessionInit /\ [][SessionNext]_sessionVars

-----------------------------------------------------------------------------
Directions == {"unknown", "sender", "receiver"}
EntryType(ssrcs) ==
  [ssrc : ssrcs, keys : Blocks, dir : Directions, index : 0 .. MaxIndex,
   rtcp : 0 .. MaxIndex, used : SUBSET {"sender", "receiver"}, told : BOOLEAN]

\* The session and its list are well formed: the entries fit their array, and
\* its size is a doubling of the initial one.
SessionTypeOK ==
  /\ kernel \in KernelType
  /\ heap \in [Blocks -> Masters \cup {Unused}]
  /\ session # None =>
       /\ session.template \in EntryType(Wildcards) \cup {None}
       /\ session.list \in Seq(EntryType(Ssrcs))
       /\ session.cap \in Capacities
       /\ Len(session.list) <= session.cap

\* The key material in use and the key material on the heap are the same at
\* all times: nothing is used after it was freed, nothing is left behind, no
\* two streams own the same, whatever was updated, removed or failed half way.
KeysOwned ==
  LET list == IF session = None THEN <<>> ELSE session.list
      template == IF session = None THEN None ELSE session.template
      owners == {i \in DOMAIN list : template = None \/ list[i].keys # template.keys}
      shared == IF template = None THEN {} ELSE {template.keys}
  IN  /\ {b \in Blocks : heap[b] # Unused} = {list[i].keys : i \in owners} \cup shared
      /\ \A i, j \in owners : list[i].keys = list[j].keys => i = j

\* A stream that was used in both directions since it was made or last updated
\* has raised event_ssrc_collision, also when it was made from a template, by
\* RTP or by RTCP.  Across an update, which srtp_protect's comment does not
\* exclude, it does not hold: with AcrossUpdates it says so, and is violated.
CollisionsReported ==
  session # None =>
    \A i \in DOMAIN session.list :
      session.list[i].used = {"sender", "receiver"} => session.list[i].told

\* An update that meets no failing allocation applies the new key to every
\* stream it is for, and leaves the index and the RTCP database of every
\* stream, and the key of every other stream, as they are.
MasterOf(ssrc) == heap[Stream(ssrc).keys]
UpdateApplies ==
  [][\A policy \in Policies :
       srtp_stream_update(policy, "none") /\ kernel.secure =>
         \A ssrc \in {s \in Ssrcs : Found(session.list, s)} :
           /\ Found(session'.list, ssrc)
           /\ Stream(ssrc)'.index = Stream(ssrc).index
           /\ Stream(ssrc)'.rtcp = Stream(ssrc).rtcp
           /\ MasterOf(ssrc)' =
                IF \/ policy.ssrc = ssrc
                   \/ policy.ssrc \in Wildcards /\ ~IsOwn(Stream(ssrc))
                THEN policy.master ELSE MasterOf(ssrc)]_sessionVars
=============================================================================
