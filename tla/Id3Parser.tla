------------------------------ MODULE Id3Parser ------------------------------
(***************************************************************************)
(* The ID3 parser of esp_extractor (src/esp_extractor_id3_parser.c).  The  *)
(* extractor, a closed library, hands it a reader when it meets a tag; the *)
(* parser keeps what it finds in blocks of memory until it is closed.  Any *)
(* read and any allocation may fail.                                       *)
(*                                                                         *)
(* A block is named by what it is for and by the number of the frame it    *)
(* was taken for: no two are the same, and a name says what is in it.      *)
(***************************************************************************)
EXTENDS Naturals, Sequences, FiniteSets

CONSTANTS
  Ids,         \* frame ids: [first, all, text], see below
  Sizes,       \* frame_size, ext_size
  TagSizes,    \* the size a tag says it has
  MaxExtra,    \* ID3_V2_MAX_EXTRA
  MaxFrames    \* bound: no parse begins, nor is a frame met, after so many

ASSUME Id3Assumption ==
  /\ Sizes \subseteq Nat /\ TagSizes \subseteq Nat
  /\ MaxExtra \in Nat \ {0} /\ MaxFrames \in Nat

VARIABLES
  parser,    \* the handle: "none", "open"
  parsed,    \* parser->parsed
  fields,    \* info.title, author, album, date, genre
  extra,     \* info.extra: Null, or the array and the pairs in it
  cover,     \* info.cover_mime and info.cover
  live,      \* the blocks allocated
  pc,        \* where the parse is, "idle" for none
  tag,       \* the tag being parsed: version, and where it ends
  left, at,  \* left of id3_parse_v2, and the bytes of the tag read or skipped
  frame,     \* the frame being parsed
  value,     \* local: the text copied, or Null
  nth,       \* history: frames so far
  kept,      \* history: for the texts copied, what they are of and their frame
  broken,    \* history: a read failed
  result     \* what the last parse returned

infoVars == <<parsed, fields, extra, cover>>
vars == <<parser, infoVars, live, pc, tag, left, at, frame, value, nth, kept, broken, result>>

Null == <<>>
Block(what, n) == <<what, n>>
Frame(id, size) == [id |-> id, size |-> size]
NoFrame == [size |-> 0]

-----------------------------------------------------------------------------
(* Frame ids: the first three letters and all four, if there are four.     *)

Keys ==
  [title  |-> {"TIT2", "TT2"}, author |-> {"TPE1", "TP1"}, album |-> {"TALB", "TAL"},
   date   |-> {"TDRC", "TYER", "TYE"}, genre |-> {"TCON", "TCO"}]
Fields == DOMAIN Keys

\* id3_is_same_key compares as many letters as the key has.
FieldsOf(id) == {f \in Fields : Keys[f] \cap {id.first, id.all} # {}}

IsPicture(version, id) == IF version = 2 THEN id.first = "PIC" ELSE id.all = "APIC"
HeaderSize(version) == IF version = 2 THEN 6 ELSE 10

\* What a frame is of: the field that has the whole id for a key.
MeantFor(id) == {f \in Fields : (IF id.all = "" THEN id.first ELSE id.all) \in Keys[f]}

-----------------------------------------------------------------------------
NoInfo == /\ fields = [f \in Fields |-> Null]
          /\ extra = [array |-> Null, pairs |-> <<>>]
          /\ cover = [mime |-> Null, data |-> Null]

Init ==
  /\ parser = "none" /\ parsed = FALSE /\ NoInfo /\ live = {}
  /\ pc = "idle" /\ tag = [version |-> 0, end |-> 0] /\ left = 0 /\ at = 0
  /\ frame = NoFrame /\ value = Null
  /\ nth = 0 /\ kept = {} /\ broken = FALSE /\ result = "none"

Goto(to) == pc' = to
Return(res) ==
  /\ pc' = "idle" /\ result' = res
  /\ left' = 0 /\ frame' = NoFrame /\ value' = Null

\* id3_read_full, id3_skip
Reads(size) == at' = at + size /\ UNCHANGED broken
ReadFails == broken' = TRUE /\ UNCHANGED at

-----------------------------------------------------------------------------
HandleBlock == Block("parser", 0)

\* What is allocated is released again when the extractor takes no parser.
esp_extractor_id3_parser_open ==
  /\ parser = "none"
  /\ parser' = "open" /\ parsed' = FALSE
  /\ live' = live \cup {HandleBlock}
  /\ fields' = [f \in Fields |-> Null]
  /\ extra' = [array |-> Null, pairs |-> <<>>]
  /\ cover' = [mime |-> Null, data |-> Null]
  /\ kept' = {} /\ result' = "none"
  /\ UNCHANGED <<pc, tag, left, at, frame, value, nth, broken>>

PairBlocks(pairs) == UNION {{pairs[i].key, pairs[i].value} : i \in DOMAIN pairs}
InfoBlocks ==
  ({fields[f] : f \in Fields} \cup {cover.mime, cover.data, extra.array}
     \cup PairBlocks(extra.pairs)) \ {Null}

\* id3_free_info, and the handle.
esp_extractor_id3_parser_close ==
  /\ parser = "open" /\ pc = "idle"
  /\ parser' = "none" /\ parsed' = FALSE
  /\ live' = live \ ({HandleBlock} \cup InfoBlocks)
  /\ fields' = [f \in Fields |-> Null]
  /\ extra' = [array |-> Null, pairs |-> <<>>]
  /\ cover' = [mime |-> Null, data |-> Null]
  /\ kept' = {}
  /\ UNCHANGED <<pc, tag, left, at, frame, value, nth, broken, result>>

\* The extractor meets a tag.
id3_parse ==
  /\ parser = "open" /\ pc = "idle" /\ nth < MaxFrames
  /\ nth' = nth + 1
  /\ \/ /\ at' = 10 /\ broken' = FALSE
        /\ \/ Goto("v1") /\ tag' = [version |-> 1, end |-> 128] /\ left' = 0
           \/ \E version \in 2 .. 4, size \in TagSizes, flag \in BOOLEAN :
                /\ tag' = [version |-> version, end |-> 10 + size]
                /\ left' = size
                /\ Goto(IF flag /\ size >= 4 THEN "ext" ELSE "loop")
        /\ UNCHANGED <<result, frame, value>>
     \/ Return("failed") /\ ReadFails /\ UNCHANGED tag
  /\ UNCHANGED <<parser, infoVars, live, kept>>

-----------------------------------------------------------------------------
(* id3_parse_v1: fields that are copied replace those there were.          *)

Replaced(copied) == {fields[f] : f \in copied} \ {Null}

id3_parse_v1 ==
  /\ pc = "v1"
  /\ \/ /\ Reads(118)
        /\ \E copied \in SUBSET Fields :
             /\ fields' = [f \in Fields |-> IF f \in copied THEN Block(f, nth) ELSE fields[f]]
             /\ live' = (live \cup {Block(f, nth) : f \in copied}) \ Replaced(copied)
             /\ kept' = kept \cup {<<f, nth>> : f \in copied}
        /\ parsed' = TRUE
        /\ Return("ok")
     \/ ReadFails /\ Return("failed") /\ UNCHANGED <<fields, live, kept, parsed>>
  /\ UNCHANGED <<parser, extra, cover, tag, nth>>

-----------------------------------------------------------------------------
(* id3_parse_v2                                                            *)

Fails == ReadFails /\ Return("failed")

\* The extended header: its size has the four bytes that hold it in version 4.
ExtSize(size) == IF tag.version = 4 THEN size ELSE size + 4
ExtHeader ==
  /\ pc = "ext"
  /\ \/ \E size \in Sizes :
          \/ /\ ExtSize(size) \in 4 .. left
             /\ Reads(ExtSize(size)) /\ left' = left - ExtSize(size)
             /\ Goto("loop") /\ UNCHANGED <<frame, value, result>>
          \/ ExtSize(size) \notin 4 .. left /\ Reads(4) /\ Return("failed")
     \/ Fails
  /\ UNCHANGED <<parser, infoVars, live, tag, nth, kept>>

\* The frame header, and what is decided on it.  Zeros, an empty frame or one
\* that is longer than the tag end the loop.
NoMoreFrames ==
  /\ \/ ReadFails /\ Return("failed")
     \/ /\ Reads(HeaderSize(tag.version)) /\ left' = left - HeaderSize(tag.version)
        /\ Goto("rest") /\ UNCHANGED <<frame, value, result>>
  /\ UNCHANGED <<live, nth>>

KeptFrame(id, size) ==
  /\ Reads(HeaderSize(tag.version))
  /\ \/ /\ live' = live \cup {Block("frame", nth')}
        /\ frame' = Frame(id, size) /\ left' = left - HeaderSize(tag.version)
        /\ Goto("body") /\ UNCHANGED <<value, result>>
     \/ Return("failed") /\ UNCHANGED live

SkippedUncounted(size) ==   \* mutant: left counts the frames that are kept only
  /\ UNCHANGED live
  /\ \/ /\ Reads(HeaderSize(tag.version) + size)
        /\ left' = left - HeaderSize(tag.version)
        /\ UNCHANGED <<pc, frame, value, result>>
     \/ Fails
SkippedFrame(size) ==
  /\ UNCHANGED live
  /\ \/ /\ Reads(HeaderSize(tag.version) + size)
        /\ left' = left - HeaderSize(tag.version) - size
        /\ UNCHANGED <<pc, frame, value, result>>
     \/ Fails

FrameHeader ==
  /\ pc = "loop" /\ left >= HeaderSize(tag.version)
  /\ \/ NoMoreFrames
     \/ /\ nth < MaxFrames /\ nth' = nth + 1
        /\ \E id \in Ids, size \in Sizes \ {0} :
             /\ size <= left - HeaderSize(tag.version)
             /\ IF id.text \/ IsPicture(tag.version, id) THEN KeptFrame(id, size)
                                                         ELSE SkippedFrame(size)
  /\ UNCHANGED <<parser, infoVars, tag, kept>>

FrameBlock == Block("frame", nth)

FrameBody ==
  /\ pc = "body"
  /\ \/ /\ Reads(frame.size)
        /\ Goto(IF frame.id.text THEN "text" ELSE "apic")
        /\ UNCHANGED <<live, left, frame, value, result>>
     \/ Fails /\ live' = live \ {FrameBlock}
  /\ UNCHANGED <<parser, infoVars, tag, nth, kept>>

TextFrameFirst ==   \* mutant: a field that is set is left so
  /\ pc = "text"
  /\ \/ /\ Goto("next") /\ UNCHANGED <<live, fields, value, kept>>
     \/ LET block == Block("text", nth)
        IN  /\ kept' = kept \cup {<<f, nth>> : f \in MeantFor(frame.id)}
            /\ IF FieldsOf(frame.id) = {}
               THEN /\ live' = live \cup {block} /\ value' = block
                    /\ Goto("extra") /\ UNCHANGED fields
               ELSE LET f == CHOOSE g \in Fields : g \in FieldsOf(frame.id)
                    IN  /\ IF fields[f] = Null
                           THEN /\ live' = live \cup {block}
                                /\ fields' = [fields EXCEPT ![f] = block]
                           ELSE UNCHANGED <<live, fields>>
                        /\ Goto("next") /\ UNCHANGED value
  /\ UNCHANGED <<parser, parsed, extra, cover, tag, left, at, frame, nth, broken, result>>
\* id3_keep_text_frame: a field has the text of its last frame.
TextFrame ==
  /\ pc = "text"
  /\ \/ /\ Goto("next") /\ UNCHANGED <<live, fields, value, kept>>
     \/ LET block == Block("text", nth)
        IN  /\ kept' = kept \cup {<<f, nth>> : f \in MeantFor(frame.id)}
            /\ IF FieldsOf(frame.id) = {}
               THEN /\ live' = live \cup {block} /\ value' = block
                    /\ Goto("extra") /\ UNCHANGED fields
               ELSE LET f == CHOOSE g \in Fields : g \in FieldsOf(frame.id)
                    IN  /\ live' = (live \cup {block}) \ {fields[f]}
                        /\ fields' = [fields EXCEPT ![f] = block]
                        /\ Goto("next") /\ UNCHANGED value
  /\ UNCHANGED <<parser, parsed, extra, cover, tag, left, at, frame, nth, broken, result>>

\* id3_add_extra: a text that cannot be added is released.
ExtraFull == Len(extra.pairs) >= MaxExtra
AddExtraLosing ==   \* mutant: a text that cannot be added is lost
  /\ pc = "extra" /\ Goto("next") /\ value' = Null
  /\ \/ ExtraFull /\ UNCHANGED <<live, extra>>
     \/ /\ ~ExtraFull
        /\ LET array == IF extra.array = Null THEN Block("array", nth) ELSE extra.array
           IN  /\ live' = live \cup {array, Block("key", nth)}
               /\ extra' = [array |-> array,
                            pairs |-> Append(extra.pairs,
                                             [key |-> Block("key", nth), value |-> value])]
  /\ UNCHANGED <<parser, parsed, fields, cover, tag, left, at, frame, nth, kept, broken, result>>
AddExtra ==
  /\ pc = "extra" /\ Goto("next") /\ value' = Null
  /\ \/ /\ live' = live \ {value} /\ UNCHANGED extra
     \/ /\ ~ExtraFull
        /\ LET array == IF extra.array = Null THEN Block("array", nth) ELSE extra.array
           IN  \/ /\ live' = (live \cup {array}) \ {value}
                  /\ extra' = [extra EXCEPT !.array = array]
               \/ /\ live' = live \cup {array, Block("key", nth)}
                  /\ extra' = [array |-> array,
                               pairs |-> Append(extra.pairs,
                                                [key |-> Block("key", nth), value |-> value])]
  /\ UNCHANGED <<parser, parsed, fields, cover, tag, left, at, frame, nth, kept, broken, result>>

\* id3_keep_apic_frame.  m and d are where the name of the type and the
\* description end, or frame.size if they do not.
ApicFrame ==
  /\ pc = "apic" /\ Goto("next")
  /\ \/ frame.size < 5 /\ UNCHANGED <<live, cover>>
     \/ /\ frame.size >= 5
        /\ \E m \in 1 .. frame.size :
             \/ m = frame.size /\ UNCHANGED <<live, cover>>
             \/ m + 1 = frame.size /\ UNCHANGED <<live, cover>>
             \/ /\ m + 1 < frame.size
                /\ \E d \in m + 2 .. frame.size, mime \in {Null, Block("mime", nth)} :
                     \/ UNCHANGED <<live, cover>>
                     \/ /\ d < frame.size
                        /\ live' = (live \cup {Block("cover", nth)} \cup ({mime} \ {Null}))
                                     \ {cover.mime, cover.data}
                        /\ cover' = [mime |-> mime, data |-> Block("cover", nth)]
  /\ UNCHANGED <<parser, parsed, fields, extra, tag, left, at, frame, value, nth, kept,
                 broken, result>>

FrameDone ==
  /\ pc = "next" /\ Goto("loop")
  /\ live' = live \ {FrameBlock}
  /\ left' = left - frame.size
  /\ frame' = NoFrame
  /\ UNCHANGED <<parser, infoVars, tag, at, value, nth, kept, broken, result>>

\* The rest is skipped; that this may fail is not looked at.
TagRest ==
  /\ pc = "rest" \/ (pc = "loop" /\ left < HeaderSize(tag.version))
  /\ \/ Reads(left)
     \/ left > 0 /\ ReadFails
  /\ parsed' = TRUE
  /\ Return("ok")
  /\ UNCHANGED <<parser, fields, extra, cover, live, tag, nth, kept>>

Next ==
  \/ esp_extractor_id3_parser_open \/ esp_extractor_id3_parser_close
  \/ id3_parse \/ id3_parse_v1 \/ ExtHeader \/ FrameHeader \/ FrameBody
  \/ TextFrame \/ AddExtra \/ ApicFrame \/ FrameDone \/ TagRest

Spec == Init /\ [][Next]_vars

-----------------------------------------------------------------------------
\* Between two parses what is allocated is what the handle holds, whatever failed
\* in them: a later close gives it all back, and each block once.
BlocksOwned ==
  pc = "idle" =>
    /\ live = IF parser = "open" THEN InfoBlocks \cup {HandleBlock} ELSE {}
    /\ \A f, g \in Fields : fields[f] = fields[g] => f = g \/ fields[f] = Null
    /\ Cardinality(PairBlocks(extra.pairs)) = 2 * Len(extra.pairs)

\* The parser never reads past the end that the tag states, and when it says
\* OK the next read begins just behind the tag, where the stream goes on.
StaysInTag ==
  /\ at <= tag.end \/ pc = "idle"
  /\ result = "ok" /\ pc = "idle" /\ ~broken => at = tag.end

\* A field has the text of the last frame of that field, from whatever tag.
FieldsTakeLast ==
  \A f \in Fields :
    LET of == {k[2] : k \in {j \in kept : j[1] = f}}
    IN  IF fields[f] = Null THEN of = {}
        ELSE fields[f][2] \in of /\ \A n \in of : n <= fields[f][2]
=============================================================================
