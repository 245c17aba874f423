------------------------------ MODULE VideoReg ------------------------------
(***************************************************************************)
(* The registry of esp_video_codec (src/video_codec_reg.c): a linked list  *)
(* of the codecs that can be opened, the one registered last at its head.  *)
(* Encoders and decoders have a list each and share the code; a module     *)
(* that extends this one has the list of its side.  An entry stands for    *)
(* its description and its ops, which every codec of the library registers *)
(* together, from constants.  Calls that are refused change nothing.       *)
(***************************************************************************)
EXTENDS Naturals, Sequences

CONSTANTS
  Types,  \* esp_video_codec_type_t without NONE
  Tags,   \* fourccs
  NoTag,  \* codec_cc = 0
  Descs   \* the descriptions that are ever registered

Desc  == [type : Types, cc : Tags \cup {NoTag}, hw : BOOLEAN]
Query == [type : Types, cc : Tags \cup {NoTag}]

ASSUME RegConstants ==
  NoTag \notin Tags /\ "none" \notin Types /\ Descs \subseteq Desc

VARIABLE libs   \* video_enc_libs or video_dec_libs

NoLib == [type |-> "none", cc |-> NoTag, hw |-> FALSE]

\* The entries a query accepts: of its type, and of its fourcc if it has one.
Accepted(list, q) ==
  {i \in DOMAIN list : list[i].type = q.type /\ q.cc \in {NoTag, list[i].cc}}

First(S) == CHOOSE i \in S : \A j \in S : i <= j
Last(S)  == CHOOSE i \in S : \A j \in S : i >= j

LibExistsFirst(list, q) ==   \* takes the first entry always
  IF Accepted(list, q) = {} THEN NoLib ELSE list[First(Accepted(list, q))]

\* With a fourcc the first entry; without one the first of hardware, or else
\* the last of software, which is the one registered first.
LibExists(list, q) ==
  LET found    == Accepted(list, q)
      hardware == {i \in found : list[i].hw}
  IN  IF found = {} THEN NoLib
      ELSE list[IF q.cc # NoTag THEN First(found)
                ELSE IF hardware # {} THEN First(hardware) ELSE Last(found)]

AddLibsAgain(d) == libs' = <<d>> \o libs   \* without lib_exists

AddLibsTail(d) ==   \* inserts at the end
  /\ LibExists(libs, [type |-> d.type, cc |-> d.cc]) = NoLib
  /\ libs' = Append(libs, d)

\* add_libs: a codec whose type and fourcc are known already is not added
\* again (and the call says OK).
AddLibs(d) ==
  /\ LibExists(libs, [type |-> d.type, cc |-> d.cc]) = NoLib
  /\ libs' = <<d>> \o libs

Without(list, i) ==
  [j \in 1 .. Len(list) - 1 |-> IF j < i THEN list[j] ELSE list[j + 1]]

RemoveLibs(d) ==
  LET same == {i \in DOMAIN libs : libs[i] = d}
  IN  /\ same # {}
      /\ libs' = Without(libs, First(same))

RegInit == libs = <<>>
RegNext == \E d \in Descs : AddLibs(d) \/ RemoveLibs(d)
RegSpec == RegInit /\ [][RegNext]_libs

-----------------------------------------------------------------------------
\* Type correctness of the list.
RegTypeOK == libs \in Seq(Descs)

\* No two entries answer to the same type and fourcc, so a query with a
\* fourcc has one possible answer whatever the order of registration
\* (lib_exists before the insertion, video_codec_reg.c:75).
OneOfEachTag ==
  \A i, j \in DOMAIN libs :
    libs[i].type = libs[j].type /\ libs[i].cc = libs[j].cc => i = j

\* A query without a fourcc gets hardware if there is any
\* (esp_video_codec_types.h:109, "it will try to prefer hardware implement").
HardwareFirst ==
  \A t \in Types :
    (\E i \in DOMAIN libs : libs[i].type = t /\ libs[i].hw)
      => LibExists(libs, [type |-> t, cc |-> NoTag]).hw

\* What an application gets for a query it has used before changes for two
\* reasons only: that codec was unregistered, or hardware came for a query
\* that leaves the choice open.  Registering or removing other codecs, in
\* whatever order, never does it (the choice in lib_exists, :55-64, against
\* the insertion at the head, :83-88).
AnswerStable(q) ==
  LET before == LibExists(libs, q)
      after  == LibExists(libs, q)'
  IN  \/ before = NoLib
      \/ after = before
      \/ \A i \in DOMAIN libs' : libs'[i] # before
      \/ q.cc = NoTag /\ after.hw

AnswersStable == [][\A q \in Query : AnswerStable(q)]_libs
=============================================================================
