--------------------------- MODULE Id3ParserProofs ---------------------------
(***************************************************************************)
(* For any ids, sizes and tags: whatever fails in a parse, the handle      *)
(* holds what is allocated, each block once, and the parser stays in its   *)
(* tag; and, for ids whose first letters are those of their own field      *)
(* only, a field has the text of its last frame.                           *)
(***************************************************************************)
EXTENDS Id3Parser, FiniteSetTheorems, TLAPS

\* While a frame is kept, its block is the parser's.
Working == {"body", "text", "apic", "extra", "next"}
Pcs == {"idle", "v1", "ext", "loop", "rest"} \cup Working

Typed ==
  /\ parser \in {"none", "open"} /\ pc \in Pcs /\ nth \in Nat
  /\ pc # "idle" => nth > 0
  /\ parser = "none" => pc = "idle" /\ NoInfo
  /\ tag \in [version : Nat, end : Nat] /\ at \in Nat /\ left \in Nat
  /\ pc \in Working => frame.size \in Nat

\* left is what there is of the tag, until the body of a frame is read: the
\* frame is taken off left when it is done.
Placed ==
  /\ pc = "v1" => at = 10 /\ tag.end = 128
  /\ pc \in {"ext", "loop", "rest", "body"} => at + left = tag.end
  /\ pc = "ext" => left >= 4
  /\ pc \in Working => frame.size <= left
  /\ pc \in Working \ {"body"} => at + left = tag.end + frame.size
  /\ pc = "idle" /\ result = "ok" /\ ~broken => at = tag.end

\* No block is held yet that was taken for a later frame than this one.
Before == IF pc \in {"v1", "body", "text", "apic", "extra"} THEN nth - 1 ELSE nth

\* The blocks of these kinds taken for the first n frames.
Taken(kinds, n) == kinds \X (1 .. n)
Maybe(kinds, n) == {Null} \cup Taken(kinds, n)
Pair(n) == [key : Taken({"key"}, n), value : Taken({"text"}, n)]

Named ==
  /\ fields = [f \in Fields |-> fields[f]]
  /\ \A f \in Fields : fields[f] \in Maybe({f, "text"}, Before)
  /\ cover \in [mime : Maybe({"mime"}, Before), data : Maybe({"cover"}, Before)]
  /\ extra \in [array : Maybe({"array"}, Before), pairs : Seq(Pair(Before))]
  /\ extra.array = Null => extra.pairs = <<>>
  /\ pc = "extra" => value = Block("text", nth)

\* No block is held twice.
Apart ==
  /\ \A f, g \in Fields : fields[f] = fields[g] => f = g \/ fields[f] = Null
  /\ \A f \in Fields : fields[f] \notin PairBlocks(extra.pairs)
  /\ IsFiniteSet(PairBlocks(extra.pairs))
  /\ Cardinality(PairBlocks(extra.pairs)) = 2 * Len(extra.pairs)

\* What is allocated is what the handle holds and what the parse has in hand.
InHand ==
  (IF parser = "open" THEN {HandleBlock} ELSE {})
   \cup (IF pc \in Working THEN {FrameBlock} ELSE {})
   \cup (IF pc = "extra" THEN {Block("text", nth)} ELSE {})
Held == live = InfoBlocks \cup InHand

Owned == Named /\ Apart /\ Held
Sound == Typed /\ Placed /\ Owned

-----------------------------------------------------------------------------
LEMMA FieldNames == Fields = {"title", "author", "album", "date", "genre"}
BY DEF Fields, Keys

LEMMA HeaderFits == HeaderSize(tag.version) \in Nat /\ HeaderSize(tag.version) > 0
BY DEF HeaderSize

\* Blocks of two kinds are two, and so are blocks of two frames.
LEMMA BlocksDiffer ==
  ASSUME NEW kinds, NEW n \in Nat, NEW b \in Maybe(kinds, n), NEW k, NEW m,
         k \notin kinds \/ m \notin 1 .. n
  PROVE  b # Block(k, m)
BY DEF Maybe, Taken, Block, Null

LEMMA MaybeGrows ==
  ASSUME NEW kinds, NEW n \in Nat, NEW m \in Nat, n <= m
  PROVE  Maybe(kinds, n) \subseteq Maybe(kinds, m) /\ Pair(n) \subseteq Pair(m)
<1>1. 1 .. n \subseteq 1 .. m
  OBVIOUS
<1>2. \A ks : Taken(ks, n) \subseteq Taken(ks, m)
  BY <1>1 DEF Taken
<1> QED
  BY <1>2 DEF Maybe, Pair

LEMMA BlockTaken ==
  ASSUME NEW kinds, NEW n \in Nat, NEW k \in kinds, NEW m \in 1 .. n
  PROVE  Block(k, m) \in Maybe(kinds, n) /\ Block(k, m) \in Taken(kinds, n)
BY DEF Maybe, Taken, Block

\* What is in the blocks of the pairs.
LEMMA InPairs ==
  ASSUME NEW pairs, NEW x
  PROVE  x \in PairBlocks(pairs)
           <=> \E i \in DOMAIN pairs : x \in {pairs[i].key, pairs[i].value}
BY DEF PairBlocks

LEMMA PairKinds ==
  ASSUME NEW n \in Nat, NEW pairs \in Seq(Pair(n)), NEW x \in PairBlocks(pairs)
  PROVE  x \in Taken({"key", "text"}, n)
<1>1. PICK i \in DOMAIN pairs : x \in {pairs[i].key, pairs[i].value}
  BY InPairs
<1>2. pairs[i] \in Pair(n)
  BY <1>1
<1> QED
  BY <1>1, <1>2 DEF Pair, Taken

\* One pair more, of new blocks.
LEMMA PairAdded ==
  ASSUME NEW n \in Nat, NEW pairs \in Seq(Pair(n)), NEW key, NEW val, NEW more,
         more = Append(pairs, [key |-> key, value |-> val]),
         key # val, key \notin PairBlocks(pairs), val \notin PairBlocks(pairs),
         IsFiniteSet(PairBlocks(pairs)),
         Cardinality(PairBlocks(pairs)) = 2 * Len(pairs)
  PROVE  /\ \A x : x \in PairBlocks(more) <=> x \in PairBlocks(pairs) \/ x = key \/ x = val
         /\ IsFiniteSet(PairBlocks(more))
         /\ Cardinality(PairBlocks(more)) = 2 * Len(more)
<1> DEFINE blocks == PairBlocks(pairs)
           size == Len(pairs)
<1>1. /\ DOMAIN more = 1 .. size + 1 /\ DOMAIN pairs = 1 .. size
      /\ Len(more) = size + 1 /\ size \in Nat
      /\ \A i \in 1 .. size : more[i] = pairs[i]
      /\ more[size + 1] = [key |-> key, value |-> val]
  OBVIOUS
<1> HIDE DEF blocks, size
<1>2. ASSUME NEW x
      PROVE  x \in PairBlocks(more) <=> x \in blocks \/ x = key \/ x = val
  <2>1. x \in PairBlocks(more)
          <=> \E i \in 1 .. size + 1 : x \in {more[i].key, more[i].value}
    BY <1>1, InPairs
  <2>2. x \in blocks <=> \E i \in 1 .. size : x \in {pairs[i].key, pairs[i].value}
    BY <1>1, InPairs DEF blocks
  <2>3. x \in {more[size + 1].key, more[size + 1].value} <=> x = key \/ x = val
    BY <1>1
  <2>4. 1 .. size + 1 = (1 .. size) \cup {size + 1}
    BY <1>1
  <2> QED
    BY <1>1, <2>1, <2>2, <2>3, <2>4
<1>3. PairBlocks(more) = (blocks \cup {key}) \cup {val}
  BY <1>2
<1>4. /\ IsFiniteSet(blocks \cup {key})
      /\ Cardinality(blocks \cup {key}) = Cardinality(blocks) + 1
  BY FS_AddElement DEF blocks
<1>5. /\ IsFiniteSet((blocks \cup {key}) \cup {val})
      /\ Cardinality((blocks \cup {key}) \cup {val}) = Cardinality(blocks \cup {key}) + 1
  <2>1. val \notin blocks \cup {key}
    BY DEF blocks
  <2> QED
    BY <1>4, <2>1, FS_AddElement
<1>6. Cardinality(PairBlocks(more)) = 2 * size + 1 + 1
  BY <1>3, <1>4, <1>5 DEF blocks, size
<1>7. Cardinality(PairBlocks(more)) = 2 * Len(more)
  BY <1>1, <1>6
<1> QED
  BY <1>2, <1>3, <1>5, <1>7 DEF blocks

-----------------------------------------------------------------------------
(* Where the parser is in its tag.                                         *)

LEMMA InitPlaced == Init => Typed /\ Placed
<1> SUFFICES ASSUME Init PROVE Typed /\ Placed
  OBVIOUS
<1>1. NoInfo
  BY DEF Init
<1>2. /\ parser = "none" /\ pc = "idle" /\ nth = 0 /\ left = 0 /\ at = 0
      /\ tag = [version |-> 0, end |-> 0] /\ broken = FALSE /\ result = "none"
  BY DEF Init
<1> QED
  BY <1>1, <1>2 DEF Typed, Placed, Pcs, Working

LEMMA OpenPlaced ==
  ASSUME Typed, Placed, esp_extractor_id3_parser_open PROVE Typed' /\ Placed'
BY DEF Typed, Placed, Pcs, Working, esp_extractor_id3_parser_open

LEMMA ClosePlaced ==
  ASSUME Typed, Placed, esp_extractor_id3_parser_close PROVE Typed' /\ Placed'
BY DEF Typed, Placed, Pcs, Working, esp_extractor_id3_parser_close, NoInfo

LEMMA ParsePlaced ==
  ASSUME Typed, Placed, id3_parse PROVE Typed' /\ Placed'
<1>1. CASE Return("failed") /\ ReadFails /\ UNCHANGED tag
  BY <1>1 DEF Typed, Placed, Pcs, Working, id3_parse, Return, ReadFails
<1>2. CASE /\ at' = 10 /\ broken' = FALSE
           /\ Goto("v1") /\ tag' = [version |-> 1, end |-> 128] /\ left' = 0
  <2>1. parser' = "open" /\ pc' = "v1" /\ nth' = nth + 1
    BY <1>2 DEF id3_parse, Goto
  <2> QED
    BY <1>2, <2>1 DEF Typed, Placed, Pcs, Working
<1>3. ASSUME NEW version \in 2 .. 4, NEW size \in TagSizes, NEW flag \in BOOLEAN,
             at' = 10, broken' = FALSE,
             tag' = [version |-> version, end |-> 10 + size], left' = size,
             Goto(IF flag /\ size >= 4 THEN "ext" ELSE "loop")
      PROVE  Typed' /\ Placed'
  <2>1. size \in Nat /\ version \in Nat
    BY Id3Assumption
  <2>2. pc' \in {"ext", "loop"} /\ (pc' = "ext" => size >= 4)
    BY <1>3 DEF Goto
  <2> QED
    <3>1. parser' = "open" /\ nth' = nth + 1
      BY DEF id3_parse
    <3> QED
      BY <1>3, <2>1, <2>2, <3>1 DEF Typed, Placed, Pcs, Working
<1> QED
  BY <1>1, <1>2, <1>3 DEF id3_parse

LEMMA V1Placed ==
  ASSUME Typed, Placed, id3_parse_v1 PROVE Typed' /\ Placed'
<1>1. /\ pc = "v1" /\ pc' = "idle" /\ left' = 0 /\ UNCHANGED <<parser, tag, nth>>
      /\ \/ at' = at + 118 /\ UNCHANGED broken
         \/ broken' = TRUE /\ UNCHANGED at /\ result' = "failed"
  BY DEF id3_parse_v1, Reads, ReadFails, Return
<1> QED
  BY <1>1 DEF Typed, Placed, Pcs, Working

LEMMA ExtPlaced ==
  ASSUME Typed, Placed, ExtHeader PROVE Typed' /\ Placed'
<1>1. CASE Fails
  BY <1>1 DEF Typed, Placed, Pcs, Working, ExtHeader, Fails, ReadFails, Return, infoVars
<1>2. ASSUME NEW size \in Sizes,
             \/ /\ ExtSize(size) \in 4 .. left
                /\ Reads(ExtSize(size)) /\ left' = left - ExtSize(size)
                /\ Goto("loop") /\ UNCHANGED <<frame, value, result>>
             \/ ExtSize(size) \notin 4 .. left /\ Reads(4) /\ Return("failed")
      PROVE  Typed' /\ Placed'
  <2>1. ExtSize(size) \in Nat
    BY Id3Assumption DEF ExtSize
  <2> QED
    BY <1>2, <2>1 DEF Typed, Placed, Pcs, Working, ExtHeader, Reads, Goto, Return, infoVars
<1> QED
  BY <1>1, <1>2 DEF ExtHeader

LEMMA HeaderPlaced ==
  ASSUME Typed, Placed, FrameHeader PROVE Typed' /\ Placed'
<1> DEFINE header == HeaderSize(tag.version)
<1>1. header \in Nat /\ header > 0 /\ pc = "loop" /\ left >= header
  BY HeaderFits DEF FrameHeader
<1>2. UNCHANGED <<parser, infoVars, tag>>
  BY DEF FrameHeader
<1> HIDE DEF header
<1>3. CASE NoMoreFrames
  <2>1. \/ ReadFails /\ Return("failed")
        \/ Reads(header) /\ left' = left - header /\ Goto("rest") /\ UNCHANGED result
    BY <1>3 DEF NoMoreFrames, header
  <2>2. nth' = nth
    BY <1>3 DEF NoMoreFrames
  <2> QED
    <3>1. /\ parser' = parser /\ tag' = tag
          /\ \/ /\ broken' = TRUE /\ at' = at
                /\ pc' = "idle" /\ result' = "failed" /\ left' = 0
             \/ /\ at' = at + header /\ broken' = broken
                /\ left' = left - header /\ pc' = "rest"
      BY <1>2, <2>1 DEF Reads, ReadFails, Return, Goto
    <3> QED
      BY <1>1, <2>2, <3>1 DEF Typed, Placed, Pcs, Working
<1>4. ASSUME NEW id \in Ids, NEW size \in Sizes \ {0}, size <= left - header,
             KeptFrame(id, size) \/ SkippedFrame(size), nth' = nth + 1
      PROVE  Typed' /\ Placed'
  <2>1. size \in Nat
    BY Id3Assumption
  <2>2. \/ Reads(header) /\ frame' = Frame(id, size) /\ left' = left - header /\ Goto("body")
        \/ Reads(header) /\ Return("failed")
        \/ /\ Reads(header + size) /\ left' = left - header - size
           /\ UNCHANGED <<pc, frame, result>>
        \/ ReadFails /\ Return("failed")
    BY <1>4 DEF KeptFrame, SkippedFrame, Fails, header
  <2> QED
    <3>1. /\ parser' = parser /\ tag' = tag
          /\ \/ /\ at' = at + header /\ broken' = broken
                /\ frame'.size = size /\ left' = left - header /\ pc' = "body"
             \/ /\ pc' = "idle" /\ result' = "failed" /\ left' = 0
                /\ (at' = at + header /\ broken' = broken) \/ (at' = at /\ broken' = TRUE)
             \/ /\ at' = at + (header + size) /\ broken' = broken
                /\ left' = left - header - size /\ UNCHANGED <<pc, frame, result>>
      BY <1>2, <2>2 DEF Reads, ReadFails, Return, Goto, Frame
    <3> QED
      BY <1>1, <1>4, <2>1, <3>1 DEF Typed, Placed, Pcs, Working
<1> QED
  BY <1>3, <1>4 DEF FrameHeader, header

LEMMA BodyPlaced ==
  ASSUME Typed, Placed, FrameBody PROVE Typed' /\ Placed'
<1>1. CASE Fails
  BY <1>1 DEF Typed, Placed, Pcs, Working, FrameBody, Fails, ReadFails, Return, infoVars
<1>2. CASE /\ Reads(frame.size)
           /\ Goto(IF frame.id.text THEN "text" ELSE "apic")
           /\ UNCHANGED <<live, left, frame, value, result>>
  <2>1. pc' \in {"text", "apic"}
    BY <1>2 DEF Goto
  <2> QED
    BY <1>2, <2>1 DEF Typed, Placed, Pcs, Working, FrameBody, Reads, infoVars
<1> QED
  BY <1>1, <1>2 DEF FrameBody

\* What is done with a frame moves neither at nor left.
LEMMA FramePlaced ==
  ASSUME Typed, Placed, TextFrame \/ AddExtra \/ ApicFrame PROVE Typed' /\ Placed'
<1>1. /\ pc \in Working \ {"body"} /\ pc' \in {"next", "extra"}
      /\ UNCHANGED <<parser, tag, left, at, frame, nth, broken, result>>
  BY DEF TextFrame, AddExtra, ApicFrame, Goto, Working
<1> QED
  BY <1>1 DEF Typed, Placed, Pcs, Working

LEMMA DonePlaced ==
  ASSUME Typed, Placed, FrameDone PROVE Typed' /\ Placed'
BY DEF Typed, Placed, Pcs, Working, FrameDone, Goto, infoVars

LEMMA RestPlaced ==
  ASSUME Typed, Placed, TagRest PROVE Typed' /\ Placed'
BY HeaderFits DEF Typed, Placed, Pcs, Working, TagRest, Reads, ReadFails, Return

LEMMA StutterPlaced ==
  ASSUME Typed, Placed, UNCHANGED vars PROVE Typed' /\ Placed'
BY DEF Typed, Placed, Pcs, Working, vars, infoVars, NoInfo

LEMMA StepPlaced ==
  ASSUME Typed, Placed, [Next]_vars PROVE Typed' /\ Placed'
BY OpenPlaced, ClosePlaced, ParsePlaced, V1Placed, ExtPlaced, HeaderPlaced, BodyPlaced,
   FramePlaced, DonePlaced, RestPlaced, StutterPlaced DEF Next

LEMMA AlwaysPlaced == Spec => [](Typed /\ Placed)
BY InitPlaced, StepPlaced, PTL DEF Spec

\* The parser never reads past the end that the tag states, and when it says
\* OK, and no read failed, the next one begins just behind the tag.
THEOREM InTag == Spec => []StaysInTag
<1>1. Typed /\ Placed => StaysInTag
  BY DEF Typed, Placed, StaysInTag, Pcs, Working
<1> QED
  BY <1>1, AlwaysPlaced, PTL

-----------------------------------------------------------------------------
(* What holds the blocks.                                                  *)

LEMMA BeforeIsNat == /\ Typed => Before \in Nat /\ Before <= nth
                     /\ Typed' => Before' \in Nat /\ Before' <= nth'
BY DEF Typed, Before, Pcs, Working

LEMMA InInfo ==
  /\ \A x : x \in InfoBlocks <=>
       /\ x # Null
       /\ \/ \E f \in Fields : fields[f] = x
          \/ x \in {cover.mime, cover.data, extra.array}
          \/ x \in PairBlocks(extra.pairs)
  /\ \A x : x \in InfoBlocks' <=>
       /\ x # Null
       /\ \/ \E f \in Fields : fields'[f] = x
          \/ x \in {cover'.mime, cover'.data, extra'.array}
          \/ x \in PairBlocks(extra'.pairs)
BY DEF InfoBlocks, PairBlocks

\* Which kinds there are, and where: a block of a frame or of the handle is
\* not among them, nor is one of this frame before it is stored.
Kinds == Fields \cup {"text", "mime", "cover", "array", "key"}

LEMMA InfoKinds == ASSUME Typed, Named PROVE InfoBlocks \subseteq Taken(Kinds, Before)
<1> SUFFICES ASSUME NEW x \in InfoBlocks PROVE x \in Taken(Kinds, Before)
  OBVIOUS
<1>1. x # Null
  BY InInfo
<1>2. ASSUME NEW kinds, kinds \subseteq Kinds, x \in Maybe(kinds, Before)
      PROVE  x \in Taken(Kinds, Before)
  BY <1>1, <1>2 DEF Maybe, Taken
<1>3. CASE \E f \in Fields : fields[f] = x
  <2>1. PICK f \in Fields : fields[f] = x
    BY <1>3
  <2>2. {f, "text"} \subseteq Kinds
    BY DEF Kinds
  <2>3. x \in Maybe({f, "text"}, Before)
    BY <2>1 DEF Named
  <2> QED
    BY <1>2, <2>2, <2>3
<1>4. CASE x \in {cover.mime, cover.data, extra.array}
  <2>1. {"mime"} \subseteq Kinds /\ {"cover"} \subseteq Kinds /\ {"array"} \subseteq Kinds
    BY DEF Kinds
  <2>2. /\ cover.mime \in Maybe({"mime"}, Before) /\ cover.data \in Maybe({"cover"}, Before)
        /\ extra.array \in Maybe({"array"}, Before)
    BY DEF Named
  <2> QED
    BY <1>2, <1>4, <2>1, <2>2
<1>5. CASE x \in PairBlocks(extra.pairs)
  <2>1. x \in Taken({"key", "text"}, Before)
    BY <1>5, BeforeIsNat, PairKinds DEF Named
  <2> QED
    BY <2>1 DEF Taken, Kinds
<1> QED
  BY <1>3, <1>4, <1>5, InInfo

LEMMA NotInfo ==
  ASSUME Typed, Named
  PROVE  /\ HandleBlock \notin InfoBlocks /\ FrameBlock \notin InfoBlocks
         /\ HandleBlock # FrameBlock
         /\ Before = nth - 1 => \A k : Block(k, nth) \notin InfoBlocks
<1>1. "parser" \notin Kinds /\ "frame" \notin Kinds
  BY FieldNames DEF Kinds
<1>2. ASSUME NEW k, NEW m, k \notin Kinds \/ m \notin 1 .. Before
      PROVE  Block(k, m) \notin InfoBlocks
  BY <1>2, InfoKinds DEF Taken, Block
<1>3. Before = nth - 1 => nth \notin 1 .. Before
  BY DEF Typed
<1> QED
  BY <1>1, <1>2, <1>3 DEF HandleBlock, FrameBlock, Block

\* While nothing is stored, what is stored stays as it is.
LEMMA NothingStored ==
  ASSUME Typed, Named, Apart, Typed', UNCHANGED <<fields, cover, extra>>,
         Before <= Before', pc' # "extra"
  PROVE  Named' /\ Apart' /\ InfoBlocks' = InfoBlocks
<1>1. Before \in Nat /\ Before' \in Nat
  BY BeforeIsNat
<1>2. Pair(Before) \subseteq Pair(Before')
      /\ \A kinds : Maybe(kinds, Before) \subseteq Maybe(kinds, Before')
  BY <1>1, MaybeGrows
<1>3. Named'
  <2>1. \A f \in Fields : fields'[f] \in Maybe({f, "text"}, Before')
    BY <1>2 DEF Named
  <2>2. cover' \in [mime : Maybe({"mime"}, Before'), data : Maybe({"cover"}, Before')]
    BY <1>2 DEF Named
  <2>3. extra' \in [array : Maybe({"array"}, Before'), pairs : Seq(Pair(Before'))]
    <3>1. extra.pairs \in Seq(Pair(Before)) /\ extra.array \in Maybe({"array"}, Before)
          /\ extra = [array |-> extra.array, pairs |-> extra.pairs]
      BY DEF Named
    <3>2. extra.pairs \in Seq(Pair(Before'))
      BY <1>2, <3>1
    <3> QED
      BY <1>2, <3>1, <3>2
  <2> QED
    BY <2>1, <2>2, <2>3 DEF Named
<1>4. Apart'
  BY DEF Apart
<1>5. InfoBlocks' = InfoBlocks
  BY DEF InfoBlocks
<1> QED
  BY <1>3, <1>4, <1>5

\* Fields that get a block each of this frame hold what they held no more.
LEMMA FieldsReplaced ==
  ASSUME Typed, Named, Apart, Before = nth - 1, Before' = nth, nth > 0, pc' # "extra",
         NEW copied \in SUBSET Fields, NEW new,
         \A f \in copied : new[f] \in {Block(f, nth), Block("text", nth)},
         \A f, g \in copied : new[f] = new[g] => f = g,
         fields' = [f \in Fields |-> IF f \in copied THEN new[f] ELSE fields[f]],
         UNCHANGED <<cover, extra>>
  PROVE  /\ Named' /\ Apart'
         /\ InfoBlocks' = (InfoBlocks \cup {new[f] : f \in copied}) \ Replaced(copied)
<1>1. nth \in Nat /\ Before \in Nat /\ Before' \in Nat /\ nth \in 1 .. Before'
      /\ Before <= Before' /\ nth \notin 1 .. Before
  BY DEF Typed
<1>2. Pair(Before) \subseteq Pair(Before')
      /\ \A kinds : Maybe(kinds, Before) \subseteq Maybe(kinds, Before')
  BY <1>1, MaybeGrows
<1>3. \A f \in Fields :
        fields'[f] = IF f \in copied THEN new[f] ELSE fields[f]
  OBVIOUS
<1>4. \A f \in copied : new[f] \in Maybe({f, "text"}, Before')
  BY <1>1, BlockTaken
<1>5. Named'
  <2>1. \A f \in Fields : fields'[f] \in Maybe({f, "text"}, Before')
    BY <1>2, <1>3, <1>4 DEF Named
  <2>2. cover' \in [mime : Maybe({"mime"}, Before'), data : Maybe({"cover"}, Before')]
    BY <1>2 DEF Named
  <2>3. extra.pairs \in Seq(Pair(Before')) /\ extra.array \in Maybe({"array"}, Before')
        /\ extra = [array |-> extra.array, pairs |-> extra.pairs]
    BY <1>2 DEF Named
  <2>4. extra' \in [array : Maybe({"array"}, Before'), pairs : Seq(Pair(Before'))]
    BY <2>3
  <2> QED
    BY <2>1, <2>2, <2>4 DEF Named
<1>6. \A k : Block(k, nth) \notin InfoBlocks /\ Block(k, nth) # Null
  BY NotInfo DEF Block, Null
<1>7. \A f \in copied : new[f] \notin InfoBlocks /\ new[f] # Null
  BY <1>6
<1>8. \A f \in Fields : fields[f] \in InfoBlocks \cup {Null}
  BY InInfo
<1>9. Apart'
  <2>1. \A f, g \in Fields : fields'[f] = fields'[g] => f = g \/ fields'[f] = Null
    BY <1>3, <1>7, <1>8 DEF Apart
  <2>2. \A x \in PairBlocks(extra.pairs) : x \in InfoBlocks \cup {Null}
    BY InInfo
  <2>3. \A f \in Fields : fields'[f] \notin PairBlocks(extra.pairs)
    BY <1>3, <1>7, <2>2 DEF Apart
  <2> QED
    BY <2>1, <2>3 DEF Apart
<1>10. ASSUME NEW f \in Fields, fields[f] # Null
       PROVE  fields[f] \notin {cover.mime, cover.data, extra.array}
  <2>1. /\ cover.mime \in Maybe({"mime"}, Before) /\ cover.data \in Maybe({"cover"}, Before)
        /\ extra.array \in Maybe({"array"}, Before)
    BY DEF Named
  <2>2. PICK k \in {f, "text"}, m \in 1 .. Before : fields[f] = Block(k, m)
    BY <1>10 DEF Named, Maybe, Taken, Block
  <2>3. k \notin {"mime"} /\ k \notin {"cover"} /\ k \notin {"array"}
    BY FieldNames
  <2> QED
    BY <1>1, <2>1, <2>2, <2>3, BlocksDiffer
<1>11. \A x : x \in Replaced(copied) <=> x # Null /\ \E f \in copied : fields[f] = x
  BY DEF Replaced
<1>12. ASSUME NEW x
       PROVE  x \in InfoBlocks'
                <=> (x \in InfoBlocks \/ \E f \in copied : x = new[f]) /\ x \notin Replaced(copied)
  <2>1. CASE \E f \in copied : x = new[f]
    BY <1>3, <1>7, <1>8, <1>11, <2>1, InInfo
  <2>2. CASE ~\E f \in copied : x = new[f]
    <3>1. CASE x \in Replaced(copied)
      <4>1. PICK f \in copied : fields[f] = x /\ x # Null
        BY <1>11, <3>1
      <4>2. x \notin {cover.mime, cover.data, extra.array}
        BY <1>10, <4>1
      <4>3. x \notin PairBlocks(extra.pairs)
        BY <4>1 DEF Apart
      <4>4. \A g \in Fields : fields[g] = x => g = f
        BY <4>1 DEF Apart
      <4> QED
        BY <1>3, <2>2, <3>1, <4>1, <4>2, <4>3, <4>4, InInfo
    <3>2. CASE x \notin Replaced(copied)
      <4>1. x # Null => ((\E f \in Fields : fields'[f] = x)
                           <=> \E f \in Fields : fields[f] = x)
        BY <1>3, <1>11, <2>2, <3>2
      <4> QED
        BY <2>2, <3>2, <4>1, InInfo
    <3> QED
      BY <3>1, <3>2
  <2> QED
    BY <2>1, <2>2
<1>13. InfoBlocks' = (InfoBlocks \cup {new[f] : f \in copied}) \ Replaced(copied)
  BY <1>12
<1> QED
  BY <1>5, <1>9, <1>13

\* A new picture, in place of the one there was.
LEMMA CoverReplaced ==
  ASSUME Typed, Named, Apart, Before = nth - 1, Before' = nth, nth > 0, pc' # "extra",
         NEW mime \in {Null, Block("mime", nth)},
         cover' = [mime |-> mime, data |-> Block("cover", nth)],
         UNCHANGED <<fields, extra>>
  PROVE  /\ Named' /\ Apart'
         /\ InfoBlocks' = (InfoBlocks \cup {Block("cover", nth)} \cup ({mime} \ {Null}))
                            \ {cover.mime, cover.data}
<1>1. nth \in Nat /\ Before \in Nat /\ Before' \in Nat /\ nth \in 1 .. Before'
      /\ Before <= Before' /\ nth \notin 1 .. Before
  BY DEF Typed
<1>2. Pair(Before) \subseteq Pair(Before')
      /\ \A kinds : Maybe(kinds, Before) \subseteq Maybe(kinds, Before')
  BY <1>1, MaybeGrows
<1>3. mime \in Maybe({"mime"}, Before') /\ Block("cover", nth) \in Maybe({"cover"}, Before')
  BY <1>1, BlockTaken DEF Maybe
<1>4. Named'
  <2>1. \A f \in Fields : fields'[f] \in Maybe({f, "text"}, Before')
    BY <1>2 DEF Named
  <2>2. cover' \in [mime : Maybe({"mime"}, Before'), data : Maybe({"cover"}, Before')]
    BY <1>3
  <2>3. extra.pairs \in Seq(Pair(Before')) /\ extra.array \in Maybe({"array"}, Before')
        /\ extra = [array |-> extra.array, pairs |-> extra.pairs]
    BY <1>2 DEF Named
  <2>4. extra' \in [array : Maybe({"array"}, Before'), pairs : Seq(Pair(Before'))]
    BY <2>3
  <2> QED
    BY <2>1, <2>2, <2>4 DEF Named
<1>5. Apart'
  BY DEF Apart
<1>6. \A k : Block(k, nth) \notin InfoBlocks /\ Block(k, nth) # Null
  BY NotInfo DEF Block, Null
<1>7. ASSUME NEW x \in {cover.mime, cover.data}, x # Null
      PROVE  /\ \A f \in Fields : fields[f] # x
             /\ x # extra.array /\ x \notin PairBlocks(extra.pairs)
  <2>1. PICK k \in {"mime", "cover"}, m \in 1 .. Before : x = Block(k, m)
    BY <1>7 DEF Named, Maybe, Taken, Block
  <2>2. \A f \in Fields : k \notin {f, "text"}
    BY FieldNames
  <2>3. k \notin {"array"} /\ k \notin {"key", "text"}
    OBVIOUS
  <2>4. \A f \in Fields : fields[f] \in Maybe({f, "text"}, Before)
    BY DEF Named
  <2>5. extra.array \in Maybe({"array"}, Before)
    BY DEF Named
  <2>6. x \notin Taken({"key", "text"}, Before)
    BY <2>1, <2>3 DEF Taken, Block
  <2>7. x \notin PairBlocks(extra.pairs)
    BY <1>1, <2>6, PairKinds DEF Named
  <2> QED
    BY <1>1, <2>1, <2>2, <2>3, <2>4, <2>5, <2>7, BlocksDiffer
<1>8. cover'.mime = mime /\ cover'.data = Block("cover", nth)
  OBVIOUS
<1>9. cover.mime \in InfoBlocks \cup {Null} /\ cover.data \in InfoBlocks \cup {Null}
  BY InInfo
<1>10. ASSUME NEW x
       PROVE  x \in InfoBlocks'
                <=> /\ x \in InfoBlocks \/ x = Block("cover", nth) \/ (x = mime /\ mime # Null)
                    /\ x \notin {cover.mime, cover.data}
  <2>1. CASE x = Null
    BY <1>6, <2>1, InInfo
  <2>2. CASE x # Null /\ x \in {cover.mime, cover.data}
    BY <1>6, <1>7, <1>8, <1>9, <2>2, InInfo
  <2>3. CASE x # Null /\ x \notin {cover.mime, cover.data}
    BY <1>8, <2>3, InInfo
  <2> QED
    BY <2>1, <2>2, <2>3
<1>11. InfoBlocks' = (InfoBlocks \cup {Block("cover", nth)} \cup ({mime} \ {Null}))
                       \ {cover.mime, cover.data}
  BY <1>10
<1> QED
  BY <1>4, <1>5, <1>11

\* The array of the pairs is there before the first pair.
LEMMA ArrayStored ==
  ASSUME Typed, Named, Apart, Before = nth - 1, Before' = nth, nth > 0, pc' # "extra",
         NEW array,
         array = IF extra.array = Null THEN Block("array", nth) ELSE extra.array,
         extra' = [extra EXCEPT !.array = array],
         UNCHANGED <<fields, cover>>
  PROVE  Named' /\ Apart' /\ InfoBlocks' = InfoBlocks \cup {array}
<1>1. nth \in Nat /\ Before \in Nat /\ Before' \in Nat /\ nth \in 1 .. Before'
      /\ Before <= Before'
  BY DEF Typed
<1>2. Pair(Before) \subseteq Pair(Before')
      /\ \A kinds : Maybe(kinds, Before) \subseteq Maybe(kinds, Before')
  BY <1>1, MaybeGrows
<1>3. extra' = [array |-> array, pairs |-> extra.pairs]
  BY DEF Named
<1>4. array \in Maybe({"array"}, Before') /\ array # Null
  <2>1. Block("array", nth) # Null
    BY DEF Block, Null
  <2>2. Block("array", nth) \in Maybe({"array"}, Before')
    BY <1>1, BlockTaken
  <2> QED
    BY <1>2, <2>1, <2>2 DEF Named
<1>5. Named'
  <2>1. \A f \in Fields : fields'[f] \in Maybe({f, "text"}, Before')
    BY <1>2 DEF Named
  <2>2. cover' \in [mime : Maybe({"mime"}, Before'), data : Maybe({"cover"}, Before')]
    BY <1>2 DEF Named
  <2>3. extra.pairs \in Seq(Pair(Before'))
    BY <1>2 DEF Named
  <2>4. extra' \in [array : Maybe({"array"}, Before'), pairs : Seq(Pair(Before'))]
    BY <1>3, <1>4, <2>3
  <2> QED
    BY <1>3, <1>4, <2>1, <2>2, <2>4 DEF Named
<1>6. Apart'
  BY <1>3 DEF Apart
<1>7. ASSUME NEW x PROVE x \in InfoBlocks' <=> x \in InfoBlocks \/ x = array
  BY <1>3, <1>4, InInfo
<1> QED
  BY <1>5, <1>6, <1>7

\* A pair more, of a key and the text at hand.
LEMMA PairStored ==
  ASSUME Typed, Named, Apart, Before = nth - 1, Before' = nth, nth > 0, pc' # "extra",
         NEW array,
         array = IF extra.array = Null THEN Block("array", nth) ELSE extra.array,
         extra' = [array |-> array,
                   pairs |-> Append(extra.pairs, [key |-> Block("key", nth),
                                                  value |-> Block("text", nth)])],
         UNCHANGED <<fields, cover>>
  PROVE  /\ Named' /\ Apart'
         /\ InfoBlocks' = InfoBlocks \cup {array, Block("key", nth), Block("text", nth)}
<1> DEFINE key == Block("key", nth)
           val == Block("text", nth)
<1>1. nth \in Nat /\ Before \in Nat /\ Before' \in Nat /\ nth \in 1 .. Before'
      /\ Before <= Before'
  BY DEF Typed
<1>2. Pair(Before) \subseteq Pair(Before')
      /\ \A kinds : Maybe(kinds, Before) \subseteq Maybe(kinds, Before')
  BY <1>1, MaybeGrows
<1>3. array \in Maybe({"array"}, Before') /\ array # Null
  <2>1. Block("array", nth) # Null
    BY DEF Block, Null
  <2>2. Block("array", nth) \in Maybe({"array"}, Before')
    BY <1>1, BlockTaken
  <2> QED
    BY <1>2, <2>1, <2>2 DEF Named
<1>4. /\ key \in Taken({"key"}, Before') /\ val \in Taken({"text"}, Before')
      /\ key # val /\ key # Null /\ val # Null
      /\ key \notin InfoBlocks /\ val \notin InfoBlocks
  <2>1. key \in Taken({"key"}, Before') /\ val \in Taken({"text"}, Before')
    BY <1>1, BlockTaken
  <2>2. key # val /\ key # Null /\ val # Null
    BY DEF Block, Null
  <2> QED
    BY <2>1, <2>2, NotInfo
<1>5. key \notin PairBlocks(extra.pairs) /\ val \notin PairBlocks(extra.pairs)
      /\ \A f \in Fields : fields[f] # key /\ fields[f] # val
  BY <1>4, InInfo
<1>6. /\ extra'.array = array
      /\ extra'.pairs = Append(extra.pairs, [key |-> key, value |-> val])
  OBVIOUS
<1> HIDE DEF key, val
<1>7. extra.pairs \in Seq(Pair(Before)) /\ extra.pairs \in Seq(Pair(Before'))
  BY <1>2 DEF Named
<1>8. /\ \A x : x \in PairBlocks(extra'.pairs)
                  <=> x \in PairBlocks(extra.pairs) \/ x = key \/ x = val
      /\ IsFiniteSet(PairBlocks(extra'.pairs))
      /\ Cardinality(PairBlocks(extra'.pairs)) = 2 * Len(extra'.pairs)
  <2>1. /\ IsFiniteSet(PairBlocks(extra.pairs))
        /\ Cardinality(PairBlocks(extra.pairs)) = 2 * Len(extra.pairs)
    BY DEF Apart
  <2>2. Before \in Nat /\ extra.pairs \in Seq(Pair(Before)) /\ key # val
    BY <1>1, <1>4, <1>7
  <2> QED
    BY <1>5, <1>6, <2>1, <2>2, PairAdded
<1>9. Named'
  <2>1. \A f \in Fields : fields'[f] \in Maybe({f, "text"}, Before')
    BY <1>2 DEF Named
  <2>2. cover' \in [mime : Maybe({"mime"}, Before'), data : Maybe({"cover"}, Before')]
    BY <1>2 DEF Named
  <2>3. [key |-> key, value |-> val] \in Pair(Before')
    BY <1>4 DEF Pair
  <2>4. Append(extra.pairs, [key |-> key, value |-> val]) \in Seq(Pair(Before'))
    BY <1>7, <2>3
  <2>5. extra' \in [array : Maybe({"array"}, Before'), pairs : Seq(Pair(Before'))]
    BY <1>3, <2>4 DEF key, val
  <2> QED
    BY <1>3, <1>6, <2>1, <2>2, <2>5 DEF Named
<1>10. Apart'
  BY <1>5, <1>8 DEF Apart
<1>11. ASSUME NEW x
       PROVE  x \in InfoBlocks' <=> x \in InfoBlocks \/ x \in {array, key, val}
  BY <1>3, <1>4, <1>6, <1>8, InInfo
<1> QED
  BY <1>9, <1>10, <1>11 DEF key, val

-----------------------------------------------------------------------------
(* One step per action.                                                    *)

\* With no block held but those of no kind, all is empty.
LEMMA EmptyInfo ==
  /\ NoInfo => InfoBlocks = {}
  /\ NoInfo' => InfoBlocks' = {}
  /\ NoInfo => Apart
  /\ NoInfo' => Apart'
<1>1. PairBlocks(<<>>) = {}
  BY DEF PairBlocks
<1>2. Cardinality({}) = 2 * Len(<<>>) /\ IsFiniteSet({})
  BY FS_EmptySet
<1>3. NoInfo => InfoBlocks = {}
  BY <1>1 DEF NoInfo, InfoBlocks
<1>4. NoInfo' => InfoBlocks' = {}
  BY <1>1 DEF NoInfo, InfoBlocks
<1>5. NoInfo => Apart
  <2> SUFFICES ASSUME NoInfo PROVE Apart
    OBVIOUS
  <2>1. extra.pairs = <<>> /\ \A f \in Fields : fields[f] = Null
    BY DEF NoInfo
  <2> QED
    BY <1>1, <1>2, <2>1 DEF Apart
<1>6. NoInfo' => Apart'
  <2> SUFFICES ASSUME NoInfo' PROVE Apart'
    OBVIOUS
  <2>1. extra'.pairs = <<>> /\ \A f \in Fields : fields'[f] = Null
    BY DEF NoInfo
  <2> QED
    BY <1>1, <1>2, <2>1 DEF Apart
<1> QED
  BY <1>3, <1>4, <1>5, <1>6

LEMMA EmptyNamed ==
  /\ NoInfo /\ pc # "extra" => Named
  /\ NoInfo' /\ pc' # "extra" => Named'
<1>1. /\ \A kinds, n : Null \in Maybe(kinds, n)
      /\ \A n : <<>> \in Seq(Pair(n))
  BY DEF Maybe
<1>2. NoInfo /\ pc # "extra" => Named
  BY <1>1 DEF NoInfo, Named
<1>3. NoInfo' /\ pc' # "extra" => Named'
  BY <1>1 DEF NoInfo, Named
<1> QED
  BY <1>2, <1>3

LEMMA InitOwned == Init => Owned
<1> SUFFICES ASSUME Init PROVE Owned
  OBVIOUS
<1>1. NoInfo /\ pc = "idle" /\ parser = "none" /\ live = {}
  BY DEF Init
<1>2. InHand = {}
  BY <1>1 DEF InHand, Working
<1> QED
  BY <1>1, <1>2, EmptyInfo, EmptyNamed DEF Owned, Held

LEMMA OpenOwned ==
  ASSUME Sound, esp_extractor_id3_parser_open PROVE Owned'
<1>1. /\ NoInfo /\ NoInfo' /\ pc = "idle" /\ pc' = "idle"
      /\ parser = "none" /\ parser' = "open" /\ live' = live \cup {HandleBlock}
  BY DEF esp_extractor_id3_parser_open, Sound, Typed, NoInfo
<1>2. InHand = {} /\ InHand' = {HandleBlock}
  BY <1>1 DEF InHand, Working, HandleBlock
<1> QED
  BY <1>1, <1>2, EmptyInfo, EmptyNamed DEF Sound, Owned, Held

LEMMA CloseOwned ==
  ASSUME Sound, esp_extractor_id3_parser_close PROVE Owned'
<1>1. /\ NoInfo' /\ pc = "idle" /\ pc' = "idle"
      /\ parser = "open" /\ parser' = "none"
      /\ live' = live \ ({HandleBlock} \cup InfoBlocks)
  BY DEF esp_extractor_id3_parser_close, NoInfo
<1>2. InHand = {HandleBlock} /\ InHand' = {}
  BY <1>1 DEF InHand, Working
<1> QED
  BY <1>1, <1>2, EmptyInfo, EmptyNamed DEF Sound, Owned, Held

\* A step that stores nothing, and takes or releases the block of a frame only.
LEMMA OwnedStill ==
  ASSUME Sound, Typed', UNCHANGED <<parser, fields, cover, extra>>, Before <= Before',
         pc # "extra", pc' # "extra",
         live' = (live \ (IF pc \in Working THEN {FrameBlock} ELSE {}))
                   \cup (IF pc' \in Working THEN {FrameBlock'} ELSE {})
  PROVE  Owned'
<1>1. Named' /\ Apart' /\ InfoBlocks' = InfoBlocks
  BY NothingStored DEF Sound, Owned
<1>2. HandleBlock' = HandleBlock
  BY DEF HandleBlock
<1>3. FrameBlock \notin InfoBlocks /\ FrameBlock # HandleBlock
  BY NotInfo DEF Sound, Owned
<1>4. live' = InfoBlocks' \cup InHand'
  BY <1>1, <1>2, <1>3 DEF Sound, Owned, Held, InHand
<1> QED
  BY <1>1, <1>4 DEF Owned, Held

LEMMA ParseOwned ==
  ASSUME Sound, Typed', id3_parse PROVE Owned'
<1>1. pc = "idle" /\ pc' \in {"idle", "v1", "ext", "loop"} /\ nth' = nth + 1
      /\ UNCHANGED <<parser, fields, cover, extra, live>>
  BY DEF id3_parse, Return, Goto, infoVars
<1>2. Before <= Before'
  BY <1>1 DEF Sound, Typed, Before
<1> QED
  BY <1>1, <1>2, OwnedStill DEF Working

LEMMA ExtOwned ==
  ASSUME Sound, Typed', ExtHeader PROVE Owned'
<1>1. pc = "ext" /\ pc' \in {"idle", "loop"} /\ nth' = nth
      /\ UNCHANGED <<parser, fields, cover, extra, live>>
  BY DEF ExtHeader, Fails, Return, Goto, infoVars
<1>2. Before <= Before'
  BY <1>1 DEF Sound, Typed, Before
<1> QED
  BY <1>1, <1>2, OwnedStill DEF Working

LEMMA HeaderOwned ==
  ASSUME Sound, Typed', FrameHeader PROVE Owned'
<1>1. pc = "loop" /\ nth' \in {nth, nth + 1} /\ UNCHANGED <<parser, fields, cover, extra>>
      /\ \/ pc' \in {"idle", "rest", "loop"} /\ live' = live
         \/ /\ pc' = "body" /\ nth' = nth + 1
            /\ live' = live \cup {Block("frame", nth')}
  BY DEF FrameHeader, NoMoreFrames, KeptFrame, SkippedFrame, Fails, Return, Goto, infoVars
<1>2. Before <= Before'
  <2>1. nth \in Nat /\ Before = nth
    BY <1>1 DEF Sound, Typed, Before
  <2>2. Before' \in {nth' - 1, nth'}
    BY DEF Before
  <2>3. CASE pc' = "body"
    BY <1>1, <2>1, <2>2, <2>3
  <2>4. CASE pc' \in {"idle", "rest", "loop"}
    <3>1. Before' = nth'
      BY <2>4 DEF Before
    <3> QED
      BY <1>1, <2>1, <3>1
  <2> QED
    BY <1>1, <2>3, <2>4
<1>3. FrameBlock' = Block("frame", nth')
  BY DEF FrameBlock, Block
<1> QED
  BY <1>1, <1>2, <1>3, OwnedStill DEF Working

LEMMA BodyOwned ==
  ASSUME Sound, Typed', FrameBody PROVE Owned'
<1>1. pc = "body" /\ nth' = nth /\ UNCHANGED <<parser, fields, cover, extra>>
      /\ \/ pc' \in {"text", "apic"} /\ live' = live
         \/ pc' = "idle" /\ live' = live \ {FrameBlock}
  BY DEF FrameBody, Fails, Return, Goto, infoVars
<1>2. Before <= Before'
  BY <1>1 DEF Sound, Typed, Before
<1>3. FrameBlock' = FrameBlock /\ FrameBlock \in live
  BY <1>1 DEF FrameBlock, Block, Sound, Owned, Held, InHand, Working
<1> QED
  BY <1>1, <1>2, <1>3, OwnedStill DEF Working

LEMMA DoneOwned ==
  ASSUME Sound, Typed', FrameDone PROVE Owned'
<1>1. pc = "next" /\ pc' = "loop" /\ nth' = nth /\ live' = live \ {FrameBlock}
      /\ UNCHANGED <<parser, fields, cover, extra>>
  BY DEF FrameDone, Goto, infoVars
<1>2. Before <= Before'
  BY <1>1 DEF Sound, Typed, Before
<1> QED
  BY <1>1, <1>2, OwnedStill DEF Working

LEMMA RestOwned ==
  ASSUME Sound, Typed', TagRest PROVE Owned'
<1>1. pc \in {"rest", "loop"} /\ pc' = "idle" /\ nth' = nth
      /\ UNCHANGED <<parser, fields, cover, extra, live>>
  BY DEF TagRest, Return
<1>2. Before <= Before'
  BY <1>1 DEF Sound, Typed, Before
<1> QED
  BY <1>1, <1>2, OwnedStill DEF Working

LEMMA V1Owned ==
  ASSUME Sound, Typed', id3_parse_v1 PROVE Owned'
<1>1. pc = "v1" /\ pc' = "idle" /\ nth' = nth /\ nth \in Nat /\ nth > 0
      /\ UNCHANGED <<parser, cover, extra>>
  BY DEF id3_parse_v1, Return, Sound, Typed
<1>2. Before = nth - 1 /\ Before' = nth
  BY <1>1 DEF Before
<1>3. CASE UNCHANGED <<fields, live>>
  <2>1. Before <= Before'
    BY <1>1, <1>2
  <2> QED
    BY <1>1, <1>3, <2>1, OwnedStill DEF Working
<1>4. ASSUME NEW copied \in SUBSET Fields,
             fields' = [f \in Fields |-> IF f \in copied THEN Block(f, nth) ELSE fields[f]],
             live' = (live \cup {Block(f, nth) : f \in copied}) \ Replaced(copied)
      PROVE  Owned'
  <2> DEFINE new == [f \in Fields |-> Block(f, nth)]
  <2>1. \A f \in copied : new[f] = Block(f, nth)
    OBVIOUS
  <2>2. \A f, g \in copied : new[f] = new[g] => f = g
    <3>1. \A f, g : Block(f, nth) = Block(g, nth) => f = g
      BY DEF Block
    <3> HIDE DEF new
    <3> QED
      BY <2>1, <3>1
  <2>3. {new[f] : f \in copied} = {Block(f, nth) : f \in copied}
    <3> HIDE DEF new
    <3> QED
      BY <2>1
  <2>4. fields' = [f \in Fields |-> IF f \in copied THEN new[f] ELSE fields[f]]
    BY <1>4
  <2> HIDE DEF new
  <2>5. /\ Named' /\ Apart'
        /\ InfoBlocks' = (InfoBlocks \cup {Block(f, nth) : f \in copied}) \ Replaced(copied)
    <3>1. Typed /\ Named /\ Apart
      BY DEF Sound, Owned
    <3>2. Before = nth - 1 /\ Before' = nth /\ nth > 0 /\ pc' # "extra" /\ UNCHANGED <<cover, extra>>
      BY <1>1, <1>2
    <3>3. \A f \in copied : new[f] \in {Block(f, nth), Block("text", nth)}
      BY <2>1
    <3>4. /\ Named' /\ Apart'
          /\ InfoBlocks' = (InfoBlocks \cup {new[f] : f \in copied}) \ Replaced(copied)
      BY <2>2, <2>4, <3>1, <3>2, <3>3, FieldsReplaced
    <3> QED
      BY <2>3, <3>4
  <2>6. InHand' = InHand /\ InHand \subseteq {HandleBlock}
    BY <1>1 DEF InHand, Working, HandleBlock, Block
  <2>7. Replaced(copied) \subseteq InfoBlocks
    BY InInfo DEF Replaced
  <2>8. HandleBlock \notin InfoBlocks
    BY NotInfo DEF Sound, Owned
  <2>9. live' = InfoBlocks' \cup InHand'
    BY <1>4, <2>5, <2>6, <2>7, <2>8 DEF Sound, Owned, Held
  <2> QED
    BY <2>5, <2>9 DEF Owned, Held
<1> QED
  BY <1>3, <1>4 DEF id3_parse_v1

\* A step between the frame's body and its end: its block stays.
LEMMA InFrame ==
  ASSUME Sound, Typed', pc \in {"text", "apic", "extra"}, nth' = nth, parser' = parser
  PROVE  /\ nth \in Nat /\ nth > 0 /\ Before = nth - 1
         /\ pc' = "next" => Before' = nth
         /\ pc' = "next" => InHand' = {HandleBlock, FrameBlock}
         /\ InHand = {HandleBlock, FrameBlock}
                       \cup IF pc = "extra" THEN {Block("text", nth)} ELSE {}
         /\ HandleBlock # Block("text", nth) /\ FrameBlock # Block("text", nth)
<1>1. parser = "open"
  BY DEF Sound, Typed
<1>2. HandleBlock' = HandleBlock /\ FrameBlock' = FrameBlock
      /\ HandleBlock # Block("text", nth) /\ FrameBlock # Block("text", nth)
  BY DEF HandleBlock, FrameBlock, Block
<1>3. nth \in Nat /\ nth > 0 /\ Before = nth - 1 /\ (pc' = "next" => Before' = nth)
  BY DEF Sound, Typed, Before
<1> QED
  BY <1>1, <1>2, <1>3 DEF InHand, Working

LEMMA TextOwned ==
  ASSUME Sound, Typed', TextFrame PROVE Owned'
<1>1. /\ pc = "text" /\ UNCHANGED <<parser, extra, cover, nth>>
  BY DEF TextFrame
<1>2. /\ nth \in Nat /\ nth > 0 /\ Before = nth - 1 /\ (pc' = "next" => Before' = nth)
      /\ InHand = {HandleBlock, FrameBlock}
      /\ (pc' = "next" => InHand' = {HandleBlock, FrameBlock})
  BY <1>1, InFrame
<1>3. CASE Goto("next") /\ UNCHANGED <<live, fields>>
  <2>1. pc' = "next" /\ Before <= Before'
    BY <1>2, <1>3 DEF Goto
  <2>2. Named' /\ Apart' /\ InfoBlocks' = InfoBlocks
    BY <1>1, <1>3, <2>1, NothingStored DEF Sound, Owned
  <2> QED
    BY <1>2, <1>3, <2>1, <2>2 DEF Sound, Owned, Held
<1>4. CASE /\ live' = live \cup {Block("text", nth)} /\ value' = Block("text", nth)
           /\ Goto("extra") /\ UNCHANGED fields
  <2>1. pc' = "extra" /\ Before' = Before
    BY <1>1, <1>4 DEF Goto, Before
  <2>2. Named'
    BY <1>1, <1>4, <2>1 DEF Sound, Owned, Named, Block
  <2>3. Apart' /\ InfoBlocks' = InfoBlocks
    BY <1>1, <1>4 DEF Sound, Owned, Apart, InfoBlocks
  <2>4. InHand' = InHand \cup {Block("text", nth)}
    BY <1>1, <2>1 DEF InHand, Working, HandleBlock, FrameBlock, Block
  <2> QED
    BY <1>4, <2>2, <2>3, <2>4 DEF Sound, Owned, Held
<1>5. ASSUME NEW f \in Fields,
             live' = (live \cup {Block("text", nth)}) \ {fields[f]},
             fields' = [fields EXCEPT ![f] = Block("text", nth)], Goto("next")
      PROVE  Owned'
  <2> DEFINE new == [g \in Fields |-> Block("text", nth)]
  <2>1. pc' = "next" /\ \A g \in {f} : new[g] = Block("text", nth)
    BY <1>5 DEF Goto
  <2>2. fields' = [g \in Fields |-> IF g \in {f} THEN new[g] ELSE fields[g]]
    BY <1>5 DEF Sound, Owned, Named
  <2>3. {new[g] : g \in {f}} = {Block("text", nth)} /\ {f} \in SUBSET Fields
    BY <2>1
  <2> HIDE DEF new
  <2>4. /\ Named' /\ Apart'
        /\ InfoBlocks' = (InfoBlocks \cup {new[g] : g \in {f}}) \ Replaced({f})
    BY <1>1, <1>2, <2>1, <2>2, <2>3, FieldsReplaced DEF Sound, Owned
  <2>5. Replaced({f}) = {fields[f]} \ {Null}
    BY DEF Replaced
  <2>6. fields[f] \in InfoBlocks \cup {Null}
    BY InInfo
  <2>7. /\ HandleBlock \notin InfoBlocks \cup {Null} /\ FrameBlock \notin InfoBlocks \cup {Null}
        /\ Null \notin InfoBlocks /\ Block("text", nth) # Null
    BY NotInfo, InInfo DEF Sound, Owned, HandleBlock, FrameBlock, Block, Null
  <2>8. live' = InfoBlocks' \cup InHand'
    BY <1>2, <1>5, <2>1, <2>3, <2>4, <2>5, <2>6, <2>7 DEF Sound, Owned, Held
  <2> QED
    BY <2>4, <2>8 DEF Owned, Held
<1> QED
  <2>1. FieldsOf(frame.id) # {} =>
          (CHOOSE g \in Fields : g \in FieldsOf(frame.id)) \in Fields
    BY DEF FieldsOf
  <2> QED
    BY <1>3, <1>4, <1>5, <2>1 DEF TextFrame

LEMMA ExtraOwned ==
  ASSUME Sound, Typed', AddExtra PROVE Owned'
<1>1. /\ pc = "extra" /\ pc' = "next" /\ UNCHANGED <<parser, fields, cover, nth>>
      /\ value = Block("text", nth)
  BY DEF AddExtra, Goto, Sound, Owned, Named
<1>2. /\ nth \in Nat /\ nth > 0 /\ Before = nth - 1 /\ Before' = nth
      /\ InHand = {HandleBlock, FrameBlock, value} /\ InHand' = {HandleBlock, FrameBlock}
      /\ HandleBlock # value /\ FrameBlock # value
  BY <1>1, InFrame
<1>3. \A k : Block(k, nth) \notin InfoBlocks
  BY <1>2, NotInfo DEF Sound, Owned
<1>4. CASE live' = live \ {value} /\ UNCHANGED extra
  <2>1. Before <= Before'
    BY <1>2
  <2>2. Named' /\ Apart' /\ InfoBlocks' = InfoBlocks
    BY <1>1, <1>4, <2>1, NothingStored DEF Sound, Owned
  <2> QED
    BY <1>1, <1>2, <1>3, <1>4, <2>2 DEF Sound, Owned, Held
<1>5. ASSUME NEW array,
             array = IF extra.array = Null THEN Block("array", nth) ELSE extra.array,
             live' = (live \cup {array}) \ {value}, extra' = [extra EXCEPT !.array = array]
      PROVE  Owned'
  <2>1. Named' /\ Apart' /\ InfoBlocks' = InfoBlocks \cup {array}
    BY <1>1, <1>2, <1>5, ArrayStored DEF Sound, Owned
  <2>2. array # value
    <3>1. extra.array \in InfoBlocks \cup {Null} /\ value # Null
      BY <1>1, InInfo DEF Block, Null
    <3> QED
      BY <1>1, <1>3, <1>5, <3>1 DEF Block
  <2> QED
    BY <1>1, <1>2, <1>3, <1>5, <2>1, <2>2 DEF Sound, Owned, Held
<1>6. ASSUME NEW array,
             array = IF extra.array = Null THEN Block("array", nth) ELSE extra.array,
             live' = live \cup {array, Block("key", nth)},
             extra' = [array |-> array,
                       pairs |-> Append(extra.pairs, [key |-> Block("key", nth),
                                                      value |-> value])]
      PROVE  Owned'
  <2>1. /\ Named' /\ Apart'
        /\ InfoBlocks' = InfoBlocks \cup {array, Block("key", nth), value}
    BY <1>1, <1>2, <1>6, PairStored DEF Sound, Owned
  <2> QED
    BY <1>2, <1>6, <2>1 DEF Sound, Owned, Held
<1> QED
  BY <1>4, <1>5, <1>6 DEF AddExtra

LEMMA ApicOwned ==
  ASSUME Sound, Typed', ApicFrame PROVE Owned'
<1>1. /\ pc = "apic" /\ pc' = "next" /\ UNCHANGED <<parser, fields, extra, nth>>
  BY DEF ApicFrame, Goto
<1>2. /\ nth \in Nat /\ nth > 0 /\ Before = nth - 1 /\ Before' = nth
      /\ InHand = {HandleBlock, FrameBlock} /\ InHand' = {HandleBlock, FrameBlock}
  BY <1>1, InFrame
<1>3. CASE UNCHANGED <<live, cover>>
  <2>1. Before <= Before'
    BY <1>2
  <2>2. Named' /\ Apart' /\ InfoBlocks' = InfoBlocks
    BY <1>1, <1>3, <2>1, NothingStored DEF Sound, Owned
  <2> QED
    BY <1>2, <1>3, <2>2 DEF Sound, Owned, Held
<1>4. ASSUME NEW mime \in {Null, Block("mime", nth)},
             live' = (live \cup {Block("cover", nth)} \cup ({mime} \ {Null}))
                       \ {cover.mime, cover.data},
             cover' = [mime |-> mime, data |-> Block("cover", nth)]
      PROVE  Owned'
  <2>1. /\ Named' /\ Apart'
        /\ InfoBlocks' = (InfoBlocks \cup {Block("cover", nth)} \cup ({mime} \ {Null}))
                           \ {cover.mime, cover.data}
    BY <1>1, <1>2, <1>4, CoverReplaced DEF Sound, Owned
  <2>2. cover.mime \in InfoBlocks \cup {Null} /\ cover.data \in InfoBlocks \cup {Null}
    BY InInfo
  <2>3. HandleBlock \notin InfoBlocks \cup {Null} /\ FrameBlock \notin InfoBlocks \cup {Null}
    BY NotInfo DEF Sound, Owned, HandleBlock, FrameBlock, Block, Null
  <2>4. live' = InfoBlocks' \cup InHand'
    BY <1>2, <1>4, <2>1, <2>2, <2>3 DEF Sound, Owned, Held
  <2> QED
    BY <2>1, <2>4 DEF Owned, Held
<1> QED
  BY <1>3, <1>4 DEF ApicFrame

LEMMA StutterOwned ==
  ASSUME Sound, UNCHANGED vars PROVE Owned'
BY DEF Sound, Owned, Named, Apart, Held, InfoBlocks, InHand, Before, HandleBlock, FrameBlock,
       vars, infoVars

LEMMA StepSound == ASSUME Sound, [Next]_vars PROVE Sound'
<1>1. Typed' /\ Placed'
  BY StepPlaced DEF Sound
<1>2. Owned'
  BY <1>1, OpenOwned, CloseOwned, ParseOwned, V1Owned, ExtOwned, HeaderOwned, BodyOwned,
     TextOwned, ExtraOwned, ApicOwned, DoneOwned, RestOwned, StutterOwned DEF Next
<1> QED
  BY <1>1, <1>2 DEF Sound

LEMMA AlwaysSound == Spec => []Sound
<1>1. Init => Sound
  BY InitPlaced, InitOwned DEF Sound
<1> QED
  BY <1>1, StepSound, PTL DEF Spec

\* Between two parses what is allocated is what the handle holds, whatever failed
\* in them: a later close gives it all back, and each block once.
THEOREM AllOwned == Spec => []BlocksOwned
<1>1. Sound => BlocksOwned
  <2> SUFFICES ASSUME Sound, pc = "idle" PROVE BlocksOwned
    BY DEF BlocksOwned
  <2>1. InHand = IF parser = "open" THEN {HandleBlock} ELSE {}
    BY DEF InHand, Working
  <2>2. parser # "open" => InfoBlocks = {}
    BY EmptyInfo DEF Sound, Typed
  <2> QED
    BY <2>1, <2>2 DEF Sound, Owned, Held, Apart, BlocksOwned
<1> QED
  BY <1>1, AlwaysSound, PTL

-----------------------------------------------------------------------------
(* The last text of a field, if no id is taken for another field's.        *)

\* The code compares the first letters of an id with a key of three letters, so
\* this is what the ids of the tags that are parsed have to be like: TCOM and
\* TCOP, which begin as TCO does, are not.
ExactIds == \A id \in Ids : FieldsOf(id) = MeantFor(id)

\* No text was kept yet of a later frame; and the frame at hand has an id.
KeptBefore == \A k \in kept : k \in Fields \X (1 .. Before)
FrameHasId == pc \in {"body", "text"} => frame.id \in Ids

\* What FieldsTakeLast says of one field.
LastOf(f) ==
  IF fields[f] = Null THEN \A k \in kept : k[1] # f
  ELSE /\ \E k \in kept : k[1] = f /\ k[2] = fields[f][2]
       /\ \A k \in kept : k[1] = f => k[2] <= fields[f][2]

Last == KeptBefore /\ FrameHasId /\ \A f \in Fields : LastOf(f)

LEMMA LastIsLast == (\A f \in Fields : LastOf(f)) => FieldsTakeLast
<1> SUFFICES ASSUME NEW f \in Fields, LastOf(f)
             PROVE  LET of == {k[2] : k \in {j \in kept : j[1] = f}}
                    IN  IF fields[f] = Null THEN of = {}
                        ELSE fields[f][2] \in of /\ \A n \in of : n <= fields[f][2]
  BY DEF FieldsTakeLast
<1> QED
  BY DEF LastOf

LEMMA OneField == \A id : \A f, g \in MeantFor(id) : f = g
<1> SUFFICES ASSUME NEW k, NEW f \in Fields, NEW g \in Fields, k \in Keys[f], k \in Keys[g]
             PROVE  f = g
  BY DEF MeantFor
<1>1. /\ Keys["title"] = {"TIT2", "TT2"} /\ Keys["author"] = {"TPE1", "TP1"}
      /\ Keys["album"] = {"TALB", "TAL"} /\ Keys["date"] = {"TDRC", "TYER", "TYE"}
      /\ Keys["genre"] = {"TCON", "TCO"}
  BY DEF Keys
<1> QED
  BY <1>1, FieldNames

\* A copy of a text of this frame to each of these fields is the last there.
LEMMA CopiedLast ==
  ASSUME Typed, Last, Before = nth - 1, nth > 0, Before' = nth, FrameHasId',
         NEW copied \in SUBSET Fields,
         kept' = kept \cup {<<f, nth>> : f \in copied},
         \A f \in copied : \E k : fields'[f] = Block(k, nth),
         \A f \in Fields \ copied : fields'[f] = fields[f]
  PROVE  Last'
<1>1. nth \in Nat
  BY DEF Typed
<1>2. \A k \in kept : k[1] \in Fields /\ k[2] \in 1 .. nth - 1 /\ k = <<k[1], k[2]>>
  BY DEF Last, KeptBefore
<1>3. KeptBefore'
  <2>1. \A k \in kept : k \in Fields \X (1 .. nth)
    BY <1>1, <1>2
  <2>2. \A f \in copied : <<f, nth>> \in Fields \X (1 .. nth)
    BY <1>1
  <2> QED
    BY <2>1, <2>2 DEF KeptBefore
<1>4. ASSUME NEW f \in copied PROVE LastOf(f)'
  <2>1. fields'[f] # Null /\ fields'[f][2] = nth
    BY DEF Block, Null
  <2>2. <<f, nth>> \in kept'
    OBVIOUS
  <2>3. \A k \in kept' : k[2] <= nth
    BY <1>1, <1>2
  <2> QED
    BY <2>1, <2>2, <2>3 DEF LastOf
<1>5. ASSUME NEW f \in Fields \ copied PROVE LastOf(f)'
  <2>1. \A k : (k \in kept' /\ k[1] = f) <=> (k \in kept /\ k[1] = f)
    OBVIOUS
  <2>2. LastOf(f) /\ fields'[f] = fields[f]
    BY DEF Last
  <2> QED
    BY <2>1, <2>2 DEF LastOf
<1> QED
  BY <1>3, <1>4, <1>5 DEF Last

LEMMA StillLast ==
  ASSUME Typed, Typed', Last, FrameHasId', UNCHANGED <<fields, kept>>, Before <= Before'
  PROVE  Last'
<1>1. 1 .. Before \subseteq 1 .. Before'
  BY BeforeIsNat
<1>2. KeptBefore'
  BY <1>1 DEF Last, KeptBefore
<1> QED
  BY <1>2 DEF Last, LastOf

LEMMA StepLast ==
  ASSUME ExactIds, Sound, Sound', Last, [Next]_vars PROVE Last'
<1>1. Typed /\ Typed' /\ Before \in Nat /\ Before' \in Nat /\ nth \in Nat
  BY BeforeIsNat DEF Sound, Typed
<1>2. CASE esp_extractor_id3_parser_open \/ esp_extractor_id3_parser_close
  <2>1. pc' = "idle" /\ kept' = {} /\ fields' = [f \in Fields |-> Null]
    BY <1>1, <1>2 DEF esp_extractor_id3_parser_open, esp_extractor_id3_parser_close, Typed
  <2>2. KeptBefore' /\ FrameHasId'
    BY <2>1 DEF KeptBefore, FrameHasId
  <2>3. ASSUME NEW f \in Fields PROVE LastOf(f)'
    BY <2>1 DEF LastOf
  <2> QED
    BY <2>2, <2>3 DEF Last
<1>3. CASE id3_parse \/ ExtHeader \/ FrameHeader \/ FrameBody \/ FrameDone \/ TagRest
           \/ AddExtra \/ ApicFrame \/ UNCHANGED vars
  <2>1. UNCHANGED <<fields, kept>>
    BY <1>3 DEF id3_parse, ExtHeader, FrameHeader, FrameBody, FrameDone, TagRest,
                AddExtra, ApicFrame, vars, infoVars
  <2>2. FrameHasId'
    <3>1. CASE pc' = pc /\ frame' = frame
      BY <3>1 DEF Last, FrameHasId
    <3>2. CASE pc' \notin {"body", "text"}
      BY <3>2 DEF FrameHasId
    <3>3. CASE FrameBody
      BY <3>3 DEF FrameBody, Goto, Fails, Return, Last, FrameHasId
    <3>4. CASE FrameHeader
      BY <3>4 DEF FrameHeader, NoMoreFrames, KeptFrame, SkippedFrame, Fails, Return, Goto,
                  Frame, Last, FrameHasId
    <3>5. CASE id3_parse
      BY <3>2, <3>5 DEF id3_parse, Return, Goto
    <3> QED
      BY <1>3, <3>1, <3>2, <3>3, <3>4, <3>5
         DEF ExtHeader, FrameDone, TagRest, AddExtra, ApicFrame, Fails, Return, Goto, vars
  <2>3. Before <= Before'
    <3>1. CASE pc' = pc /\ nth' = nth
      BY <1>1, <3>1 DEF Before
    <3>2. CASE /\ pc \in {"ext", "rest", "next", "loop"} /\ nth' = nth
               /\ pc' \in {"idle", "loop", "rest"}
      BY <1>1, <3>2 DEF Before
    <3>3. CASE /\ pc \in {"idle", "loop"} /\ nth' = nth + 1
      BY <1>1, <3>3 DEF Before
    <3>4. CASE pc \in {"body", "extra", "apic"} /\ nth' = nth
      BY <1>1, <3>4 DEF Before
    <3> QED
      BY <1>3, <3>1, <3>2, <3>3, <3>4
         DEF id3_parse, ExtHeader, FrameHeader, NoMoreFrames, FrameBody, FrameDone, TagRest,
             AddExtra, ApicFrame, Fails, Return, Goto, vars
  <2> QED
    BY <1>1, <2>1, <2>2, <2>3, StillLast
<1>4. CASE id3_parse_v1
  <2>1. pc = "v1" /\ pc' = "idle" /\ nth' = nth /\ nth > 0
    BY <1>4 DEF id3_parse_v1, Return, Sound, Typed
  <2>2. Before = nth - 1 /\ Before' = nth /\ FrameHasId'
    BY <2>1 DEF Before, FrameHasId
  <2>3. CASE UNCHANGED <<fields, kept>>
    BY <1>1, <2>2, <2>3, StillLast
  <2>4. ASSUME NEW copied \in SUBSET Fields,
               fields' = [f \in Fields |-> IF f \in copied THEN Block(f, nth) ELSE fields[f]],
               kept' = kept \cup {<<f, nth>> : f \in copied}
        PROVE  Last'
    <3>1. /\ \A f \in copied : fields'[f] = Block(f, nth)
          /\ \A f \in Fields \ copied : fields'[f] = fields[f]
      BY <2>4
    <3> QED
      BY <1>1, <2>1, <2>2, <2>4, <3>1, CopiedLast
  <2> QED
    BY <1>4, <2>3, <2>4 DEF id3_parse_v1
<1>5. CASE TextFrame
  <2>1. pc = "text" /\ nth' = nth /\ frame' = frame /\ nth > 0 /\ frame.id \in Ids
    BY <1>5 DEF TextFrame, Sound, Typed, Last, FrameHasId
  <2>2. Before = nth - 1 /\ (pc' = "next" => Before' = nth) /\ (pc' = "extra" => Before' = Before)
    BY <2>1 DEF Before
  <2>3. pc' \in {"next", "extra"} /\ FrameHasId'
    BY <1>5 DEF TextFrame, Goto, FrameHasId
  <2>4. Before <= Before'
    BY <1>1, <2>2, <2>3
  <2>5. FieldsOf(frame.id) = MeantFor(frame.id)
    BY <2>1 DEF ExactIds
  <2>6. CASE UNCHANGED <<fields, kept>>
    BY <1>1, <2>3, <2>4, <2>6, StillLast
  <2>7. CASE /\ kept' = kept \cup {<<f, nth>> : f \in MeantFor(frame.id)}
             /\ FieldsOf(frame.id) = {} /\ UNCHANGED fields
    <3>1. kept' = kept
      BY <2>5, <2>7
    <3> QED
      BY <2>6, <2>7, <3>1
  <2>8. ASSUME NEW f \in Fields, f \in FieldsOf(frame.id), pc' = "next",
               kept' = kept \cup {<<g, nth>> : g \in MeantFor(frame.id)},
               fields' = [fields EXCEPT ![f] = Block("text", nth)]
        PROVE  Last'
    <3>1. MeantFor(frame.id) = {f}
      BY <2>5, <2>8, OneField
    <3>2. DOMAIN fields = Fields
      BY DEF Sound, Owned, Named
    <3>3. /\ \A g \in {f} : fields'[g] = Block("text", nth)
          /\ \A g \in Fields \ {f} : fields'[g] = fields[g]
      BY <2>8, <3>2
    <3> QED
      BY <1>1, <2>1, <2>2, <2>3, <2>8, <3>1, <3>3, CopiedLast
  <2> QED
    <3>1. FieldsOf(frame.id) # {} =>
            /\ (CHOOSE g \in Fields : g \in FieldsOf(frame.id)) \in Fields
            /\ (CHOOSE g \in Fields : g \in FieldsOf(frame.id)) \in FieldsOf(frame.id)
      BY DEF FieldsOf
    <3> QED
      BY <1>5, <2>6, <2>7, <2>8, <3>1 DEF TextFrame, Goto
<1> QED
  BY <1>2, <1>3, <1>4, <1>5 DEF Next

\* A field has the text of the last frame of that field, from whatever tag.
THEOREM LastTaken == ASSUME ExactIds PROVE Spec => []FieldsTakeLast
<1>1. Init => Last
  BY DEF Init, NoInfo, Last, KeptBefore, FrameHasId, LastOf
<1>2. Last => FieldsTakeLast
  BY LastIsLast DEF Last
<1>3. Sound /\ Sound' /\ Last /\ [Next]_vars => Last'
  BY StepLast
<1> QED
  BY <1>1, <1>2, <1>3, AlwaysSound, PTL DEF Spec
=============================================================================
