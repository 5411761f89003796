---------------------------- MODULE ChunkerProofs ----------------------------
(***************************************************************************)
(* The bounds, the ids and the texts of chunks for every file and every    *)
(* configuration.  A chunk fits because what is packed is never more words *)
(* than tokens were counted for it, although the count is rounded down;    *)
(* its id is its own because a path's occurrences are counted beyond every *)
(* chunk that has the path.  No word is lost because each loop takes a     *)
(* text off the front of one lane and puts it at the end of the lane       *)
(* before.  No block the code reads as Markdown does is cut because every  *)
(* text on its way has the whole of it or nothing: what is left of a body  *)
(* begins with the block's own opening line or with a unit that ends       *)
(* before it.  A section with the headings of others in it is small enough *)
(* never to be taken apart.  And a word knows its heading because the      *)
(* stack is exactly the headings around the one being read.                *)
(***************************************************************************)
EXTENDS Chunker, SequenceTheorems, WellFoundedInduction, TLAPS

Fits(text) == Len(text) <= configuration.maximum \/ OneFence(text)

AllFit(parts) == \A i \in DOMAIN parts : Fits(parts[i].text)

WhatIsPackedFits ==
    /\ AllFit(bounded)
    /\ AllFit(chunks)
    /\ Len(current) <= currentTokens
    /\ currentTokens <= configuration.maximum

OccurrencesAreBeyond ==
    \A i \in DOMAIN chunks :
        /\ chunks[i].path \in DOMAIN occurrences
        /\ chunks[i].occurrence < occurrences[chunks[i].path]

IInv ==
    /\ document \in Documents
    /\ TypeOK
    /\ WhatIsPackedFits
    /\ OccurrencesAreBeyond
    /\ IdsAreUnique

-----------------------------------------------------------------------------
(* Files and paths.                                                        *)

Marks == [level : 1..6, name : Names]

LEMMA DocumentFields ==
    ASSUME document \in Documents
    PROVE  /\ document.preamble \in Seq(Words)
           /\ document.headings \in Seq([level : 1..6, name : Names, body : Seq(Words)])
           /\ document.stem \in Names
           /\ document.title \in Names \cup {NoTitle}
  BY ChunkerAssumption DEF IsBody

LEMMA HeadingFields ==
    ASSUME document \in Documents
    PROVE  /\ Len(document.headings) \in Nat
           /\ DOMAIN document.headings = 1..Len(document.headings)
           /\ \A i \in DOMAIN document.headings :
                /\ document.headings[i].level \in 1..6
                /\ document.headings[i].name \in Names
                /\ document.headings[i].body \in Seq(Words)
  <1> DEFINE headings == document.headings
             S == [level : 1..6, name : Names, body : Seq(Words)]
  <1>1. headings \in Seq(S)
    BY DocumentFields
  <1>2. /\ Len(headings) \in Nat
        /\ DOMAIN headings = 1..Len(headings)
        /\ \A i \in DOMAIN headings : headings[i] \in S
    <2> HIDE DEF headings, S
    <2> QED  BY <1>1
  <1> QED  BY <1>2

(* A nonempty set of indexes has a least one.                              *)
LEMMA LeastIndex ==
    ASSUME NEW T, T \subseteq Nat, T # {}
    PROVE  \E i \in T : \A j \in T : i <= j
  <1>1. PICK i \in T : \A j \in T : ~(<<j, i>> \in OpToRel(<, Nat))
    BY NatLessThanWellFounded, WFMin
  <1>2. \A j \in T : ~(j < i)
    BY <1>1 DEF OpToRel
  <1> QED  BY <1>2

LEMMA TitleIsName ==
    ASSUME document \in Documents
    PROVE  Title \in Names
  <1> DEFINE tops == {i \in DOMAIN document.headings : document.headings[i].level = 1}
  <1>1. CASE document.title # NoTitle
    BY <1>1, DocumentFields DEF Title
  <1>2. CASE document.title = NoTitle /\ tops = {}
    BY <1>2, DocumentFields DEF Title
  <1>3. CASE document.title = NoTitle /\ tops # {}
    <2>1. tops \subseteq Nat
      BY HeadingFields
    <2>2. \E i \in tops : \A j \in tops : i <= j
      BY <1>3, <2>1, LeastIndex
    <2> DEFINE top == CHOOSE i \in tops : \A j \in tops : i <= j
    <2>3. top \in tops
      BY <2>2
    <2>4. document.headings[top].name \in Names
      BY <2>3, HeadingFields
    <2> QED  BY <1>3, <2>4 DEF Title
  <1> QED  BY <1>1, <1>2, <1>3

LEMMA PathIsNames ==
    ASSUME document \in Documents, NEW marks \in Seq(Marks)
    PROVE  PathTo(marks) \in Seq(Names)
  <1> DEFINE names == [i \in DOMAIN marks |-> marks[i].name]
  <1>1. names \in Seq(Names)
    <2>1. Len(marks) \in Nat /\ DOMAIN marks = 1..Len(marks)
      BY LenProperties
    <2>2. \A i \in 1..Len(marks) : marks[i] \in Marks
      BY <2>1, LenProperties
    <2>3. names \in [1..Len(marks) -> Names]
      BY <2>1, <2>2 DEF Marks
    <2> HIDE DEF names
    <2> QED  BY <2>1, <2>3, SeqDef
  <1>2. (IF names # << >> /\ Head(names) = Title THEN Tail(names) ELSE names) \in Seq(Names)
    BY <1>1, HeadTailProperties
  <1>3. <<Title>> \in Seq(Names)
    BY TitleIsName
  <1> QED  BY <1>2, <1>3, ConcatProperties DEF PathTo

-----------------------------------------------------------------------------
(* Texts and their sizes.                                                  *)

(* Rounding down leaves a token for each word.                             *)
LEMMA EstimateBounds ==
    ASSUME NEW text \in Seq(Words)
    PROVE  Estimate(text) \in Nat /\ Len(text) <= Estimate(text)
  <1>1. Len(text) \in Nat
    OBVIOUS
  <1>2. \A n \in Nat : (13 * n) \div 10 \in Nat /\ n <= (13 * n) \div 10
    BY SMT
  <1> QED  BY <1>1, <1>2 DEF Estimate

LEMMA Slices ==
    ASSUME NEW text \in Seq(Words), NEW n \in 1..Len(text)
    PROVE  /\ SubSeq(text, 1, n) \in Seq(Words)
           /\ Len(SubSeq(text, 1, n)) = n
           /\ \A i \in 1..n : SubSeq(text, 1, n)[i] = text[i]
           /\ After(text, n) \in Seq(Words)
  <1>1. /\ n \in Int /\ n + 1 \in Int /\ Len(text) \in Int
        /\ \A i \in 1..n : text[i] \in Words
        /\ \A i \in n + 1..Len(text) : text[i] \in Words
    OBVIOUS
  <1>2. /\ SubSeq(text, 1, n) \in Seq(Words)
        /\ Len(SubSeq(text, 1, n)) = n
        /\ \A i \in 1..n : SubSeq(text, 1, n)[i] = text[i]
    BY <1>1, SubSeqProperties
  <1>3. SubSeq(text, n + 1, Len(text)) \in Seq(Words)
    BY <1>1, SubSeqProperties
  <1> QED  BY <1>2, <1>3 DEF After

LEMMA ConfigurationFields ==
    ASSUME configuration \in Configurations
    PROVE  /\ configuration.minimum \in Nat
           /\ configuration.maximum \in Nat \ {0}
  BY ChunkerAssumption

(* No more words in a group than tokens in a chunk.                        *)
LEMMA GroupBudget ==
    ASSUME configuration \in Configurations
    PROVE  WordsPerGroup \in 1..configuration.maximum
  <1> DEFINE maximum == configuration.maximum
  <1>1. maximum \in Nat \ {0}
    BY ConfigurationFields
  <1>2. \A m \in Nat : (10 * m) \div 13 \in 0..m
    BY SMT
  <1>3. (10 * maximum) \div 13 \in 0..maximum
    BY <1>1, <1>2
  <1> QED  BY <1>1, <1>3 DEF WordsPerGroup

LEMMA GroupsFit ==
    ASSUME configuration \in Configurations,
           NEW text \in Seq(Words), NEW g \in Nat \ {0}
    PROVE  /\ WordGroup(text, g) \in Seq(Words)
           /\ Len(WordGroup(text, g)) <= configuration.maximum
  <1> DEFINE size == WordsPerGroup
             start == (g - 1) * size
             end == g * size
             stop == IF end < Len(text) THEN end ELSE Len(text)
  <1>1. size \in Nat /\ 1 <= size /\ size <= configuration.maximum
        /\ configuration.maximum \in Nat
    BY GroupBudget, ConfigurationFields
  <1>2. start \in Nat /\ end = start + size
    <2> HIDE DEF size
    <2> QED  BY <1>1
  <1>3. stop \in Nat /\ stop <= Len(text) /\ stop <= start + size /\ Len(text) \in Nat
    BY <1>1, <1>2
  <1>4. \A i \in start + 1..stop : text[i] \in Words
    BY <1>2, <1>3
  <1>5. /\ SubSeq(text, start + 1, stop) \in Seq(Words)
        /\ Len(SubSeq(text, start + 1, stop)) =
             IF start + 1 <= stop THEN stop - (start + 1) + 1 ELSE 0
    <2>1. start + 1 \in Int /\ stop \in Int
      BY <1>2, <1>3
    <2> HIDE DEF start, stop
    <2> QED  BY <2>1, <1>4, SubSeqProperties
  <1>6. WordGroup(text, g) = SubSeq(text, start + 1, stop)
    BY DEF WordGroup
  <1> QED
    <2> HIDE DEF start, stop, size
    <2> QED  BY <1>1, <1>2, <1>3, <1>5, <1>6

(* The section before and the one folded into it make a text.              *)
LEMMA CombinedIsText ==
    ASSUME NEW previous \in Sections, NEW s \in Sections
    PROVE  Combined(previous, s) \in Seq(Words)
  <1>1. HeadingLine(s.of) \in Seq(Words)
    BY DEF HeadingLine, Words, Markers, Sections
  <1> QED  BY <1>1, ConcatProperties DEF Combined, Sections

(* What flushing appends fits.                                             *)
LEMMA FlushedFits ==
    ASSUME IInv
    PROVE  Flushed \in Seq(Pieces) /\ AllFit(Flushed)
  <1> USE DEF IInv, TypeOK, WhatIsPackedFits
  <1>1. CASE current = << >>
    BY <1>1 DEF Flushed
  <1>2. CASE current # << >>
    <2>1. Piece(current) \in Pieces
      BY DEF Piece, Pieces, Sections
    <2>2. Fits(Piece(current).text)
      BY ConfigurationFields DEF Piece, Fits
    <2> QED  BY <1>2, <2>1, <2>2, AppendProperties DEF Flushed, AllFit
  <1> QED  BY <1>1, <1>2

-----------------------------------------------------------------------------
(* The loops.                                                              *)

(* What is numbered stays as it is while the pieces are made.              *)
ChunksStand == document' = document /\ configuration' = configuration
               /\ UNCHANGED <<occurrences, chunks>>

LEMMA StandingChunks ==
    ASSUME IInv, ChunksStand
    PROVE  /\ document' \in Documents
           /\ AllFit(chunks)'
           /\ OccurrencesAreBeyond'
           /\ IdsAreUnique'
  BY DEF IInv, ChunksStand, WhatIsPackedFits, AllFit, Fits, OccurrencesAreBeyond,
         IdsAreUnique, ChunkID

LEMMA InitHolds ==
    ASSUME Init
    PROVE  IInv
  <1>1. document \in Documents /\ configuration \in Configurations
    BY DEF Init
  <1>2. /\ Len(document.headings) \in Nat
        /\ document.preamble \in Seq(Words)
        /\ Title \in Names
    BY <1>1, DocumentFields, HeadingFields, TitleIsName
  <1>3. sections \in Seq(Sections)
    <2>1. CASE document.preamble = << >>
      BY <2>1 DEF Init
    <2>2. CASE document.preamble # << >>
      <3> DEFINE s == [of |-> 0, path |-> <<Title>>, text |-> document.preamble]
      <3>1. s \in Sections
        BY <1>2 DEF Sections
      <3>2. sections = <<s>>
        BY <2>2 DEF Init
      <3> HIDE DEF s
      <3> QED  BY <3>1, <3>2
    <2> QED  BY <2>1, <2>2
  <1>4. section \in Sections
    BY DEF Init, Sections
  <1>5. TypeOK
    BY <1>1, <1>2, <1>3, <1>4 DEF Init, TypeOK
  <1>6. WhatIsPackedFits
    BY <1>1, ConfigurationFields DEF Init, WhatIsPackedFits, AllFit
  <1>7. OccurrencesAreBeyond /\ IdsAreUnique
    BY DEF Init, OccurrencesAreBeyond, IdsAreUnique
  <1> QED  BY <1>1, <1>5, <1>6, <1>7 DEF IInv

LEMMA ReadHeadingHolds ==
    ASSUME IInv, ReadHeading
    PROVE  IInv'
  <1>1. /\ document \in Documents /\ next \in Nat /\ 1 <= next
        /\ next <= Len(document.headings) /\ Len(document.headings) \in Nat
        /\ stack \in Seq(Marks) /\ sections \in Seq(Sections)
    BY HeadingFields DEF IInv, TypeOK, ReadHeading, Marks
  <1> DEFINE heading == document.headings[next]
             mark == [level |-> heading.level, name |-> heading.name]
             added == [of |-> next, path |-> PathTo(stack'), text |-> heading.body]
  <1>2. heading.body \in Seq(Words) /\ mark \in Marks
    BY <1>1, HeadingFields DEF Marks
  <1>3. stack' \in Seq(Marks)
    <2>1. PICK n \in 0..Len(stack) : stack' = Append(SubSeq(stack, 1, n), mark)
      BY DEF ReadHeading
    <2>2. \A i \in 1..n : stack[i] \in Marks
      BY <1>1
    <2>3. SubSeq(stack, 1, n) \in Seq(Marks)
      BY <1>1, <2>2, SubSeqProperties
    <2> HIDE DEF mark
    <2> QED  BY <1>2, <2>1, <2>3, AppendProperties
  <1>4. added \in Sections
    BY <1>1, <1>2, <1>3, PathIsNames DEF Sections
  <1>5. sections' \in Seq(Sections)
    <2>1. sections' = sections \/ sections' = Append(sections, added)
      BY DEF ReadHeading
    <2> HIDE DEF added
    <2> QED  BY <1>1, <1>4, <2>1, AppendProperties
  <1>6. /\ next' \in 1..Len(document'.headings) + 1
        /\ UNCHANGED <<document, configuration, phase, merged, packing, bounded,
                       occurrences, chunks>>
    BY <1>1 DEF ReadHeading
  <1>7. TypeOK'
    BY <1>3, <1>5, <1>6 DEF IInv, TypeOK, Marks, packing
  <1> QED
    BY <1>6, <1>7, StandingChunks
    DEF IInv, WhatIsPackedFits, AllFit, Fits, ChunksStand, packing

LEMMA MergeSectionHolds ==
    ASSUME IInv, MergeSection
    PROVE  IInv'
  <1> DEFINE s == Head(sections)
             last == Len(merged)
             grown == [merged[last] EXCEPT !.text = Combined(merged[last], s)]
  <1>1. /\ sections \in Seq(Sections) /\ sections # << >> /\ merged \in Seq(Sections)
    BY DEF IInv, TypeOK, MergeSection
  <1>2. s \in Sections /\ sections' \in Seq(Sections)
    BY <1>1, HeadTailProperties DEF MergeSection
  <1>3. merged' \in Seq(Sections)
    <2>1. CASE last > 0 /\ Folds(merged[last], s)
      <3>1. merged[last] \in Sections /\ last \in 1..Len(merged)
        BY <1>1, <2>1
      <3>2. Combined(merged[last], s) \in Seq(Words)
        BY <1>2, <3>1, CombinedIsText
      <3>3. grown \in Sections
        BY <3>1, <3>2 DEF Sections
      <3>4. merged' = [merged EXCEPT ![last] = grown]
        BY <2>1 DEF MergeSection
      <3> HIDE DEF grown, last
      <3> QED  BY <1>1, <3>1, <3>3, <3>4, ExceptSeq
    <2>2. CASE ~(last > 0 /\ Folds(merged[last], s))
      <3>1. merged' = Append(merged, s)
        BY <2>2 DEF MergeSection
      <3> HIDE DEF s
      <3> QED  BY <1>1, <1>2, <3>1, AppendProperties
    <2> QED  BY <2>1, <2>2
  <1>4. UNCHANGED <<document, configuration, phase, next, stack, packing, bounded,
                    occurrences, chunks>>
    BY DEF MergeSection
  <1>5. TypeOK'
    BY <1>2, <1>3, <1>4 DEF IInv, TypeOK, packing
  <1> QED
    BY <1>4, <1>5, StandingChunks
    DEF IInv, WhatIsPackedFits, AllFit, Fits, ChunksStand, packing

LEMMA KeepSectionHolds ==
    ASSUME IInv, KeepSection
    PROVE  IInv'
  <1> DEFINE s == Head(merged)
             piece == [path |-> s.path, text |-> s.text]
  <1>1. /\ merged \in Seq(Sections) /\ merged # << >> /\ bounded \in Seq(Pieces)
        /\ configuration \in Configurations /\ AllFit(bounded)
    BY DEF IInv, TypeOK, KeepSection, WhatIsPackedFits
  <1>2. s \in Sections /\ merged' \in Seq(Sections)
    BY <1>1, HeadTailProperties DEF KeepSection
  <1>3. piece \in Pieces /\ piece.text \in Seq(Words)
    BY <1>2 DEF Sections, Pieces
  <1>4. Fits(piece.text)
    <2>1. Len(piece.text) <= Estimate(piece.text) /\ Estimate(piece.text) \in Nat
      BY <1>3, EstimateBounds
    <2>2. Estimate(piece.text) <= configuration.maximum
      BY DEF KeepSection
    <2>3. configuration.maximum \in Nat /\ Len(piece.text) \in Nat
      BY <1>1, <1>3, ConfigurationFields
    <2> HIDE DEF piece
    <2> QED  BY <2>1, <2>2, <2>3 DEF Fits
  <1>5. bounded' = Append(bounded, piece)
    BY DEF KeepSection
  <1>6. bounded' \in Seq(Pieces) /\ AllFit(bounded')
    <2> HIDE DEF piece
    <2> QED  BY <1>1, <1>3, <1>4, <1>5, AppendProperties DEF AllFit
  <1>7. UNCHANGED <<document, configuration, phase, next, stack, sections, packing,
                    occurrences, chunks>>
    BY DEF KeepSection
  <1>8. TypeOK'
    BY <1>2, <1>6, <1>7 DEF IInv, TypeOK, packing
  <1> QED
    BY <1>6, <1>7, <1>8, StandingChunks
    DEF IInv, WhatIsPackedFits, AllFit, Fits, ChunksStand, packing

LEMMA SplitSectionHolds ==
    ASSUME IInv, SplitSection
    PROVE  IInv'
  <1>1. merged \in Seq(Sections) /\ merged # << >>
    BY DEF IInv, TypeOK, SplitSection
  <1>2. section' \in Sections /\ merged' \in Seq(Sections)
    BY <1>1, HeadTailProperties DEF SplitSection
  <1>3. TypeOK'
    BY <1>2 DEF IInv, TypeOK, SplitSection
  <1> QED
    BY <1>3, StandingChunks
    DEF IInv, SplitSection, WhatIsPackedFits, AllFit, Fits, ChunksStand

-----------------------------------------------------------------------------
(* Packing and breaking.                                                   *)

(* What a step that packs has to establish.                                *)
LEMMA PackingHolds ==
    ASSUME IInv, ChunksStand, UNCHANGED <<next, stack, sections, merged>>,
           phase' \in {"splitting", "packing", "breaking"},
           section' \in Sections, paragraph' \in Seq(Words), current' \in Seq(Words),
           currentTokens' \in Nat, Len(current') <= currentTokens',
           currentTokens' <= configuration.maximum,
           bounded' \in Seq(Pieces), AllFit(bounded')
    PROVE  IInv'
  <1>1. TypeOK'
    BY DEF IInv, TypeOK, ChunksStand
  <1>2. WhatIsPackedFits'
    BY StandingChunks DEF WhatIsPackedFits, AllFit, Fits, ChunksStand
  <1> QED  BY <1>1, <1>2, StandingChunks DEF IInv

(* A text within the maximum, packed with what is there or after flushing  *)
(* that, leaves no more words than tokens and no more tokens than allowed. *)
LEMMA PackedFits ==
    ASSUME IInv, NEW text \in Seq(Words), Estimate(text) <= configuration.maximum,
           IF Full(Estimate(text))
           THEN /\ bounded' = Flushed
                /\ current' = text
                /\ currentTokens' = Estimate(text)
           ELSE /\ current' = current \o text
                /\ currentTokens' = currentTokens + Estimate(text)
                /\ UNCHANGED bounded
    PROVE  /\ current' \in Seq(Words)
           /\ currentTokens' \in Nat
           /\ Len(current') <= currentTokens'
           /\ currentTokens' <= configuration.maximum
           /\ bounded' \in Seq(Pieces)
           /\ AllFit(bounded')
  <1> DEFINE tokens == Estimate(text)
  <1>1. /\ current \in Seq(Words) /\ currentTokens \in Nat
        /\ configuration.maximum \in Nat /\ Len(current) <= currentTokens
        /\ bounded \in Seq(Pieces) /\ AllFit(bounded)
    BY ConfigurationFields DEF IInv, TypeOK, WhatIsPackedFits
  <1>2. tokens \in Nat /\ Len(text) <= tokens /\ Len(text) \in Nat
    BY EstimateBounds
  <1>3. CASE Full(tokens)
    BY <1>2, <1>3, FlushedFits
  <1>4. CASE ~Full(tokens)
    <2>1. /\ current' = current \o text
          /\ currentTokens' = currentTokens + tokens
          /\ bounded' = bounded
      BY <1>4
    <2>2. /\ current' \in Seq(Words)
          /\ Len(current') = Len(current) + Len(text)
      BY <1>1, <2>1, ConcatProperties
    <2>3. currentTokens + tokens <= configuration.maximum
      <3> HIDE DEF tokens
      <3> QED  BY <1>1, <1>2, <1>4 DEF Full
    <2>4. Len(current) \in Nat
      BY <1>1
    <2> HIDE DEF tokens
    <2> QED  BY <1>1, <1>2, <2>1, <2>2, <2>3, <2>4
  <1> QED  BY <1>3, <1>4

(* Flushing leaves nothing packed.                                         *)
LEMMA NothingPacked ==
    ASSUME IInv, current' = << >>, currentTokens' = 0
    PROVE  /\ current' \in Seq(Words)
           /\ currentTokens' \in Nat
           /\ Len(current') <= currentTokens'
           /\ currentTokens' <= configuration.maximum
  BY ConfigurationFields DEF IInv, TypeOK

(* Taking a unit off the section in hand leaves a section.                 *)
LEMMA TakenUnit ==
    ASSUME IInv, NEW n \in 1..Len(section.text), TakesUnit(n)
    PROVE  /\ SubSeq(section.text, 1, n) \in Seq(Words)
           /\ section' \in Sections
           /\ paragraph \in Seq(Words)
           /\ ChunksStand
           /\ UNCHANGED <<next, stack, sections, merged>>
           /\ phase = "packing"
  <1>1. section \in Sections /\ section.text \in Seq(Words)
    BY DEF IInv, TypeOK, Sections
  <1>2. /\ SubSeq(section.text, 1, n) \in Seq(Words)
        /\ After(section.text, n) \in Seq(Words)
    BY <1>1, Slices
  <1>3. section' \in Sections
    BY <1>1, <1>2 DEF TakesUnit, Sections
  <1> QED  BY <1>2, <1>3 DEF IInv, TypeOK, TakesUnit, ChunksStand

LEMMA PackUnitHolds ==
    ASSUME IInv, PackUnit
    PROVE  IInv'
  <1>1. PICK n \in 1..Len(section.text) :
            LET unit == SubSeq(section.text, 1, n)
                tokens == Estimate(unit)
            IN  /\ TakesUnit(n)
                /\ tokens <= configuration.maximum
                /\ IF Full(tokens)
                   THEN /\ bounded' = Flushed
                        /\ current' = unit
                        /\ currentTokens' = tokens
                   ELSE /\ current' = current \o unit
                        /\ currentTokens' = currentTokens + tokens
                        /\ UNCHANGED bounded
                /\ UNCHANGED <<phase, paragraph>>
    BY DEF PackUnit
  <1> DEFINE unit == SubSeq(section.text, 1, n)
  <1>2. /\ unit \in Seq(Words) /\ section' \in Sections /\ paragraph' \in Seq(Words)
        /\ ChunksStand /\ UNCHANGED <<next, stack, sections, merged>>
        /\ phase' = "packing"
    BY <1>1, TakenUnit
  <1>3. /\ current' \in Seq(Words) /\ currentTokens' \in Nat
        /\ Len(current') <= currentTokens' /\ currentTokens' <= configuration.maximum
        /\ bounded' \in Seq(Pieces) /\ AllFit(bounded')
    <2>1. /\ Estimate(unit) <= configuration.maximum
          /\ IF Full(Estimate(unit))
             THEN /\ bounded' = Flushed
                  /\ current' = unit
                  /\ currentTokens' = Estimate(unit)
             ELSE /\ current' = current \o unit
                  /\ currentTokens' = currentTokens + Estimate(unit)
                  /\ UNCHANGED bounded
      BY <1>1
    <2> HIDE DEF unit
    <2> QED  BY <1>2, <2>1, PackedFits
  <1> QED  BY <1>2, <1>3, PackingHolds

LEMMA EmitAtomicHolds ==
    ASSUME IInv, EmitAtomic
    PROVE  IInv'
  <1>1. PICK n \in 1..Len(section.text) :
            LET unit == SubSeq(section.text, 1, n)
            IN  /\ TakesUnit(n)
                /\ Opens(unit[1])
                /\ bounded' = Append(Flushed, Piece(unit))
                /\ current' = << >>
                /\ currentTokens' = 0
                /\ UNCHANGED <<phase, paragraph>>
    BY DEF EmitAtomic
  <1> DEFINE unit == SubSeq(section.text, 1, n)
  <1>2. /\ unit \in Seq(Words) /\ section' \in Sections /\ paragraph' \in Seq(Words)
        /\ ChunksStand /\ UNCHANGED <<next, stack, sections, merged>>
        /\ phase' = "packing"
    BY <1>1, TakenUnit
  <1>3. OneFence(unit)
    <2>1. /\ section.text \in Seq(Words) /\ Len(section.text) \in Nat
          /\ Len(unit) = n /\ n \in Nat /\ 1 <= n /\ n <= Len(section.text)
          /\ \A i \in 1..n : unit[i] = section.text[i]
      BY Slices DEF IInv, TypeOK, Sections
    <2>2. Opens(unit[1])
      BY <1>1
    <2> HIDE DEF unit
    <2>3. Opens(section.text[1]) /\ LeadingUnit(section.text, n)
      BY <1>1, <2>1, <2>2 DEF TakesUnit
    <2>4. AtomicUnit(unit, n)
      <3>1. DOMAIN unit = 1..n /\ DOMAIN section.text = 1..Len(section.text)
        BY <1>2, <2>1, LenProperties
      <3> QED  BY <2>1, <2>3, <3>1 DEF LeadingUnit, AtomicUnit
    <2>5. unit # << >>
      BY <2>1
    <2> QED  BY <2>1, <2>2, <2>4, <2>5 DEF OneFence, LeadingUnit
  <1>4. Piece(unit) \in Pieces /\ Fits(Piece(unit).text)
    <2>1. section.path \in Seq(Names)
      BY DEF IInv, TypeOK, Sections
    <2> HIDE DEF unit
    <2> QED  BY <1>2, <1>3, <2>1 DEF Piece, Pieces, Fits
  <1>5. bounded' \in Seq(Pieces) /\ AllFit(bounded')
    <2>1. bounded' = Append(Flushed, Piece(unit))
      BY <1>1
    <2>2. Flushed \in Seq(Pieces) /\ AllFit(Flushed)
      BY FlushedFits
    <2> HIDE DEF unit
    <2> QED  BY <1>4, <2>1, <2>2, AppendProperties DEF AllFit
  <1> QED  BY <1>1, <1>2, <1>5, NothingPacked, PackingHolds

LEMMA BreakUnitHolds ==
    ASSUME IInv, BreakUnit
    PROVE  IInv'
  <1>1. PICK n \in 1..Len(section.text) :
            /\ TakesUnit(n)
            /\ bounded' = Flushed
            /\ current' = << >>
            /\ currentTokens' = 0
            /\ paragraph' = SubSeq(section.text, 1, n)
            /\ phase' = "breaking"
    BY DEF BreakUnit
  <1> QED  BY <1>1, TakenUnit, FlushedFits, NothingPacked, PackingHolds

(* Taking a sentence off the paragraph leaves a text.                      *)
LEMMA TakenSentence ==
    ASSUME IInv, NEW n \in 1..Len(paragraph), TakesSentence(n)
    PROVE  /\ SubSeq(paragraph, 1, n) \in Seq(Words)
           /\ Len(SubSeq(paragraph, 1, n)) = n
           /\ paragraph' \in Seq(Words)
           /\ section' \in Sections
           /\ ChunksStand
           /\ UNCHANGED <<next, stack, sections, merged>>
           /\ phase' = "breaking"
  <1>1. /\ SubSeq(paragraph, 1, n) \in Seq(Words)
        /\ Len(SubSeq(paragraph, 1, n)) = n
        /\ After(paragraph, n) \in Seq(Words)
    BY Slices DEF IInv, TypeOK
  <1> QED  BY <1>1 DEF IInv, TypeOK, TakesSentence, ChunksStand

LEMMA PackSentenceHolds ==
    ASSUME IInv, PackSentence
    PROVE  IInv'
  <1>1. PICK n \in 1..Len(paragraph) :
            LET sentence == SubSeq(paragraph, 1, n)
                tokens == Estimate(sentence)
            IN  /\ TakesSentence(n)
                /\ tokens <= configuration.maximum
                /\ IF Full(tokens)
                   THEN /\ bounded' = Flushed
                        /\ current' = sentence
                        /\ currentTokens' = tokens
                   ELSE /\ current' = current \o sentence
                        /\ currentTokens' = currentTokens + tokens
                        /\ UNCHANGED bounded
    BY DEF PackSentence
  <1> DEFINE sentence == SubSeq(paragraph, 1, n)
  <1>2. /\ sentence \in Seq(Words) /\ section' \in Sections /\ paragraph' \in Seq(Words)
        /\ ChunksStand /\ UNCHANGED <<next, stack, sections, merged>>
        /\ phase' = "breaking"
    BY <1>1, TakenSentence
  <1>3. /\ current' \in Seq(Words) /\ currentTokens' \in Nat
        /\ Len(current') <= currentTokens' /\ currentTokens' <= configuration.maximum
        /\ bounded' \in Seq(Pieces) /\ AllFit(bounded')
    <2>1. /\ Estimate(sentence) <= configuration.maximum
          /\ IF Full(Estimate(sentence))
             THEN /\ bounded' = Flushed
                  /\ current' = sentence
                  /\ currentTokens' = Estimate(sentence)
             ELSE /\ current' = current \o sentence
                  /\ currentTokens' = currentTokens + Estimate(sentence)
                  /\ UNCHANGED bounded
      BY <1>1
    <2> HIDE DEF sentence
    <2> QED  BY <1>2, <2>1, PackedFits
  <1> QED  BY <1>2, <1>3, PackingHolds

LEMMA ChopSentenceHolds ==
    ASSUME IInv, ChopSentence
    PROVE  IInv'
  <1>1. PICK n \in 1..Len(paragraph) :
            LET sentence == SubSeq(paragraph, 1, n)
                groups == (n + WordsPerGroup - 1) \div WordsPerGroup
            IN  /\ TakesSentence(n)
                /\ bounded' = Flushed \o [g \in 1..groups |-> Piece(WordGroup(sentence, g))]
                /\ current' = << >>
                /\ currentTokens' = 0
    BY DEF ChopSentence
  <1> DEFINE sentence == SubSeq(paragraph, 1, n)
             groups == (n + WordsPerGroup - 1) \div WordsPerGroup
             pieces == [g \in 1..groups |-> Piece(WordGroup(sentence, g))]
  <1>2. /\ sentence \in Seq(Words) /\ section' \in Sections /\ paragraph' \in Seq(Words)
        /\ ChunksStand /\ UNCHANGED <<next, stack, sections, merged>>
        /\ phase' = "breaking"
    BY <1>1, TakenSentence
  <1>3. groups \in Nat
    <2>1. WordsPerGroup \in Nat \ {0} /\ n \in Nat \ {0}
      BY GroupBudget, ConfigurationFields DEF IInv, TypeOK
    <2>2. \A m, w \in Nat \ {0} : (m + w - 1) \div w \in Nat
      BY SMT
    <2> QED  BY <2>1, <2>2
  <1>4. \A g \in 1..groups : /\ Piece(WordGroup(sentence, g)) \in Pieces
                             /\ Fits(Piece(WordGroup(sentence, g)).text)
    <2> SUFFICES ASSUME NEW g \in 1..groups
                 PROVE  /\ Piece(WordGroup(sentence, g)) \in Pieces
                        /\ Fits(Piece(WordGroup(sentence, g)).text)
      OBVIOUS
    <2>1. g \in Nat \ {0} /\ section.path \in Seq(Names)
      BY <1>3 DEF IInv, TypeOK, Sections
    <2>2. /\ WordGroup(sentence, g) \in Seq(Words)
          /\ Len(WordGroup(sentence, g)) <= configuration.maximum
      BY <1>2, <2>1, GroupsFit DEF IInv, TypeOK
    <2> HIDE DEF sentence
    <2> QED  BY <2>1, <2>2 DEF Piece, Pieces, Fits
  <1>5. pieces \in Seq(Pieces) /\ Len(pieces) = groups
    <2>1. pieces \in [1..groups -> Pieces]
      BY <1>4
    <2> HIDE DEF pieces, groups
    <2> QED  BY <1>3, <2>1, SeqDef
  <1>6. bounded' \in Seq(Pieces) /\ AllFit(bounded')
    <2>1. bounded' = Flushed \o pieces
      BY <1>1
    <2>2. Flushed \in Seq(Pieces) /\ AllFit(Flushed)
      BY FlushedFits
    <2>3. \A i \in 1..Len(pieces) : Fits(pieces[i].text)
      BY <1>4, <1>5
    <2> HIDE DEF pieces, groups, sentence
    <2>4. /\ bounded' \in Seq(Pieces)
          /\ Len(bounded') = Len(Flushed) + Len(pieces)
          /\ \A i \in 1..Len(Flushed) + Len(pieces) :
               bounded'[i] = IF i <= Len(Flushed) THEN Flushed[i]
                             ELSE pieces[i - Len(Flushed)]
      BY <1>5, <2>1, <2>2, ConcatProperties
    <2>5. Len(Flushed) \in Nat /\ Len(pieces) \in Nat
      BY <1>5, <2>2
    <2>6. ASSUME NEW i \in 1..Len(Flushed) + Len(pieces)
          PROVE  Fits(bounded'[i].text)
      <3>1. CASE i <= Len(Flushed)
        BY <2>2, <2>4, <2>5, <3>1 DEF AllFit
      <3>2. CASE ~(i <= Len(Flushed))
        BY <2>3, <2>4, <2>5, <3>2
      <3> QED  BY <3>1, <3>2
    <2> QED  BY <2>4, <2>6 DEF AllFit
  <1> QED  BY <1>1, <1>2, <1>6, NothingPacked, PackingHolds

LEMMA EndsHold ==
    ASSUME IInv, EndParagraph \/ EndSection
    PROVE  IInv'
  <1>1. /\ phase' \in {"splitting", "packing"}
        /\ bounded' = Flushed /\ current' = << >> /\ currentTokens' = 0
        /\ section' \in Sections /\ paragraph' \in Seq(Words)
        /\ ChunksStand /\ UNCHANGED <<next, stack, sections, merged>>
    BY DEF EndParagraph, EndSection, Flush, ChunksStand, IInv, TypeOK
  <1> QED  BY <1>1, FlushedFits, NothingPacked, PackingHolds

-----------------------------------------------------------------------------
(* Numbering.                                                              *)

LEMMA NumberChunkHolds ==
    ASSUME IInv, NumberChunk
    PROVE  IInv'
  <1> DEFINE piece == Head(bounded)
             occurrence == Occurrence(piece.path)
             chunk == [path |-> piece.path, occurrence |-> occurrence, text |-> piece.text]
             Chunk == [path : Seq(Names), occurrence : Nat, text : Seq(Words)]
  <1>1. /\ bounded \in Seq(Pieces) /\ bounded # << >> /\ chunks \in Seq(Chunk)
        /\ AllFit(bounded) /\ AllFit(chunks)
        /\ \A path \in DOMAIN occurrences :
             path \in Seq(Names) /\ occurrences[path] \in Nat
    BY DEF IInv, TypeOK, NumberChunk, WhatIsPackedFits
  <1>2. /\ piece \in Pieces /\ bounded' \in Seq(Pieces)
        /\ Fits(piece.text) /\ AllFit(bounded')
    <2>1. /\ piece \in Pieces /\ bounded' = Tail(bounded) /\ bounded' \in Seq(Pieces)
          /\ Len(bounded') = Len(bounded) - 1
          /\ \A i \in 1..Len(bounded') : bounded'[i] = bounded[i + 1]
      BY <1>1, HeadTailProperties DEF NumberChunk
    <2>2. piece = bounded[1] /\ 1 \in DOMAIN bounded
      BY <1>1
    <2> QED  BY <1>1, <2>1, <2>2 DEF AllFit
  <1>3. piece.path \in Seq(Names) /\ piece.text \in Seq(Words) /\ occurrence \in Nat
    BY <1>1, <1>2 DEF Pieces, Occurrence
  <1>4. chunk \in Chunk
    BY <1>3
  <1>5. /\ chunks' = Append(chunks, chunk)
        /\ occurrences' = [path \in DOMAIN occurrences \cup {piece.path} |->
                             IF path = piece.path THEN occurrence + 1 ELSE occurrences[path]]
        /\ UNCHANGED <<document, configuration, phase, next, stack, sections, merged,
                       packing>>
    BY DEF NumberChunk
  <1>6. /\ chunks' \in Seq(Chunk) /\ Len(chunks') = Len(chunks) + 1
        /\ DOMAIN chunks = 1..Len(chunks) /\ DOMAIN chunks' = 1..Len(chunks) + 1
        /\ \A i \in 1..Len(chunks) : chunks'[i] = chunks[i]
        /\ chunks'[Len(chunks) + 1] = chunk
        /\ Len(chunks) \in Nat
    <2> HIDE DEF chunk, Chunk
    <2> QED  BY <1>1, <1>4, <1>5, AppendProperties, LenProperties
  <1>7. \A path \in DOMAIN occurrences' :
            path \in Seq(Names) /\ occurrences'[path] \in Nat
    <2> HIDE DEF piece, occurrence
    <2> QED  BY <1>1, <1>3, <1>5
  <1>8. TypeOK'
    BY <1>2, <1>5, <1>6, <1>7 DEF IInv, TypeOK, packing
  <1>9. AllFit(chunks')
    <2>1. chunk.text = piece.text
      OBVIOUS
    <2> HIDE DEF chunk, piece
    <2>2. \A i \in 1..Len(chunks) : Fits(chunks'[i].text)
      BY <1>1, <1>6 DEF AllFit
    <2>3. Fits(chunks'[Len(chunks) + 1].text)
      BY <1>2, <1>6, <2>1
    <2>4. \A i \in 1..Len(chunks) + 1 : i \in 1..Len(chunks) \/ i = Len(chunks) + 1
      BY <1>6
    <2> QED  BY <1>6, <2>2, <2>3, <2>4 DEF AllFit
  <1>10. WhatIsPackedFits'
    BY <1>2, <1>5, <1>9 DEF IInv, WhatIsPackedFits, AllFit, Fits, packing
  <1>11. /\ \A path \in DOMAIN occurrences :
              path \in DOMAIN occurrences' /\ occurrences[path] <= occurrences'[path]
         /\ piece.path \in DOMAIN occurrences' /\ occurrences'[piece.path] = occurrence + 1
    <2>1. piece.path \in DOMAIN occurrences => occurrences[piece.path] = occurrence
      BY DEF Occurrence
    <2> HIDE DEF piece, occurrence
    <2> QED  BY <1>1, <1>3, <1>5, <2>1
  <1>12. \A i \in 1..Len(chunks) : chunks[i] \in Chunk
    <2> HIDE DEF Chunk
    <2> QED  BY <1>1
  <1>13. OccurrencesAreBeyond'
    <2> SUFFICES ASSUME NEW i \in 1..Len(chunks) + 1
                 PROVE  /\ chunks'[i].path \in DOMAIN occurrences'
                        /\ chunks'[i].occurrence < occurrences'[chunks'[i].path]
      BY <1>6 DEF OccurrencesAreBeyond
    <2>1. CASE i \in 1..Len(chunks)
      <3>1. /\ chunks'[i] = chunks[i]
            /\ chunks[i].path \in DOMAIN occurrences
            /\ chunks[i].occurrence < occurrences[chunks[i].path]
            /\ chunks[i].occurrence \in Nat
        BY <1>6, <1>12, <2>1 DEF IInv, OccurrencesAreBeyond
      <3>2. /\ chunks[i].path \in DOMAIN occurrences'
            /\ occurrences[chunks[i].path] <= occurrences'[chunks[i].path]
            /\ occurrences[chunks[i].path] \in Nat
            /\ occurrences'[chunks[i].path] \in Nat
        BY <1>1, <1>7, <1>11, <3>1
      <3> QED  BY <3>1, <3>2
    <2>2. CASE i = Len(chunks) + 1
      BY <1>3, <1>6, <1>11, <2>2
    <2> QED  BY <1>6, <2>1, <2>2
  <1>14. IdsAreUnique'
    <2>1. \A i \in 1..Len(chunks) : ChunkID(chunks[i]) # ChunkID(chunk)
      <3> SUFFICES ASSUME NEW i \in 1..Len(chunks), chunks[i].path = piece.path
                   PROVE  chunks[i].occurrence # occurrence
        BY DEF ChunkID
      <3>1. /\ chunks[i].path \in DOMAIN occurrences
            /\ chunks[i].occurrence < occurrences[chunks[i].path]
            /\ chunks[i].occurrence \in Nat
        BY <1>6, <1>12 DEF IInv, OccurrencesAreBeyond
      <3>2. occurrences[chunks[i].path] = occurrence
        BY <3>1 DEF Occurrence
      <3> HIDE DEF occurrence
      <3> QED  BY <1>3, <3>1, <3>2
    <2>2. \A i, j \in 1..Len(chunks) : ChunkID(chunks[i]) = ChunkID(chunks[j]) => i = j
      BY <1>6 DEF IInv, IdsAreUnique
    <2> HIDE DEF chunk, piece, occurrence, Chunk
    <2>3. \A i, j \in 1..Len(chunks) + 1 :
              ChunkID(chunks'[i]) = ChunkID(chunks'[j]) => i = j
      <3> SUFFICES ASSUME NEW i \in 1..Len(chunks) + 1, NEW j \in 1..Len(chunks) + 1,
                          ChunkID(chunks'[i]) = ChunkID(chunks'[j])
                   PROVE  i = j
        OBVIOUS
      <3>1. CASE i \in 1..Len(chunks) /\ j \in 1..Len(chunks)
        BY <1>6, <2>2, <3>1
      <3>2. CASE i = Len(chunks) + 1 \/ j = Len(chunks) + 1
        BY <1>6, <2>1, <3>2
      <3> QED  BY <1>6, <3>1, <3>2
    <2> QED  BY <1>6, <2>3 DEF IdsAreUnique, ChunkID
  <1> QED  BY <1>5, <1>8, <1>10, <1>13, <1>14 DEF IInv

LEMMA NextLoopHolds ==
    ASSUME IInv, NextLoop \/ UNCHANGED vars
    PROVE  IInv'
  <1>1. TypeOK' /\ ChunksStand
    BY DEF IInv, TypeOK, NextLoop, vars, packing, ChunksStand
  <1>2. WhatIsPackedFits'
    BY DEF IInv, NextLoop, vars, packing, WhatIsPackedFits, AllFit, Fits
  <1> QED  BY <1>1, <1>2, StandingChunks DEF IInv

-----------------------------------------------------------------------------
LEMMA NextHolds ==
    ASSUME IInv, [Next]_vars
    PROVE  IInv'
  <1>1. CASE ReadHeading   BY <1>1, ReadHeadingHolds
  <1>2. CASE MergeSection  BY <1>2, MergeSectionHolds
  <1>3. CASE KeepSection   BY <1>3, KeepSectionHolds
  <1>4. CASE SplitSection  BY <1>4, SplitSectionHolds
  <1>5. CASE PackUnit      BY <1>5, PackUnitHolds
  <1>6. CASE EmitAtomic    BY <1>6, EmitAtomicHolds
  <1>7. CASE BreakUnit     BY <1>7, BreakUnitHolds
  <1>8. CASE PackSentence  BY <1>8, PackSentenceHolds
  <1>9. CASE ChopSentence  BY <1>9, ChopSentenceHolds
  <1>10. CASE EndParagraph \/ EndSection  BY <1>10, EndsHold
  <1>11. CASE NumberChunk  BY <1>11, NumberChunkHolds
  <1>12. CASE NextLoop \/ UNCHANGED vars  BY <1>12, NextLoopHolds
  <1>13. CASE Done         BY <1>13, NextLoopHolds DEF Done
  <1> QED
    BY <1>1, <1>2, <1>3, <1>4, <1>5, <1>6, <1>7, <1>8, <1>9, <1>10, <1>11, <1>12, <1>13
    DEF Next

-----------------------------------------------------------------------------
(* What the texts on their way say.                                        *)

(* The words of the file, and the paths of its headings.                   *)
SaidWords ==
    ToSet(document.preamble) \cup
        UNION {ToSet(document.headings[h].body) : h \in DOMAIN document.headings}

Paths == [h \in Nat |-> IF h = 0 THEN <<Title>> ELSE PathOf(h)]

(* The words of fenced blocks the code can tell, and those of no such.     *)
ToldWords == {w \in Words : w.block > 0 /\ ReadsAlike(w.heading, w.block)}

IsLoose(w) == w \notin ToldWords /\ (w.block > 0 => w.line # 0)

(* Of such a block a text has nothing, or all of it.                       *)
Whole(text) ==
    \A v \in ToSet(text) :
        /\ v.block > 0 => v.line # 0
        /\ v \in ToldWords =>
            \A w \in SaidWords : SameBlock(v, w) => w \in ToSet(text)

(* Every word of a text has its heading in the path or before it.          *)
Knows(path, text) ==
    \A i \in DOMAIN text :
        \/ path = Paths[text[i].heading]
        \/ \E h \in 1..i : text[h].heading = text[i].heading /\ text[h].line = 0

IsSound(part) == Whole(part.text) /\ Knows(part.path, part.text)

(* A section as it was read, or what is left of it.                        *)
AsRead(s) ==
    /\ IsBody(s.text, s.of) /\ Whole(s.text) /\ s.path = Paths[s.of]
    /\ ToSet(s.text) \subseteq SaidWords

(* What was merged is never taken apart.                                   *)
IsMerged(s) ==
    /\ IsSound(s)
    /\ Estimate(s.text) <= configuration.maximum \/ AsRead(s)

PackingIsSound ==
    /\ phase \in {"packing", "breaking"} => AsRead(section)
    /\ phase # "breaking" => paragraph = << >>
    /\ phase \notin {"packing", "breaking"} => current = << >> /\ section.text = << >>
    /\ IsBody(paragraph, section.of) /\ \A w \in ToSet(paragraph) : IsLoose(w)
    /\ Whole(current) /\ \A w \in ToSet(current) : w.heading = section.of

AllAreSound(parts) == \A i \in DOMAIN parts : IsSound(parts[i])

(* The headings around the i-th, and the stack of them.                    *)
Open(i) ==
    {j \in 1..i : \A k \in j + 1..i :
        document.headings[j].level < document.headings[k].level}

Ascending(s) == \A k, l \in DOMAIN s : k < l => s[k] < s[l]

AreAround(s, i) == s \in Seq(Nat) /\ ToSet(s) = Open(i) /\ Ascending(s)

MarksOf(s) ==
    [k \in DOMAIN s |-> [level |-> document.headings[s[k]].level,
                         name |-> document.headings[s[k]].name]]

StackFits == \E s : AreAround(s, next - 1) /\ stack = MarksOf(s)

Said == document.preamble \o BodiesFrom(1)

TextsAreSound ==
    /\ \A i \in DOMAIN sections : AsRead(sections[i])
    /\ \A i \in DOMAIN merged : IsMerged(merged[i])
    /\ PackingIsSound
    /\ StackFits
    /\ AllAreSound(bounded)
    /\ AllAreSound(chunks)
    /\ Written(UnderWay) = Said

-----------------------------------------------------------------------------
(* Flattening.                                                             *)

(* A set with 0 that goes on from each number has all numbers to k.        *)
LEMMA CountingUp ==
    ASSUME NEW k \in Nat, NEW S, 0 \in S, \A i \in 1..k : i - 1 \in S => i \in S
    PROVE  k \in S
  <1> DEFINE Missing == {i \in Nat : i \in 0..k /\ i \notin S}
  <1> SUFFICES ASSUME k \notin S PROVE FALSE
    OBVIOUS
  <1>1. Missing # {} /\ Missing \subseteq Nat
    OBVIOUS
  <1>2. PICK i \in Missing : \A j \in Missing : i <= j
    <2> HIDE DEF Missing
    <2> QED  BY <1>1, LeastIndex
  <1>3. i \in 1..k /\ i - 1 \in 0..k
    BY <1>2
  <1>4. i - 1 \notin Missing
    BY <1>2, <1>3
  <1> QED  BY <1>2, <1>3, <1>4

(* What is flattened after each of the parts.                              *)
Flattens(S, parts, f) ==
    /\ f \in [0..Len(parts) -> Seq(S)]
    /\ f[0] = << >>
    /\ \A i \in 1..Len(parts) : f[i] = f[i - 1] \o parts[i]

(* Flattening is what a running concatenation ends with.                   *)
LEMMA FlattenIs ==
    ASSUME NEW S, NEW parts \in Seq(Seq(S)), NEW f, Flattens(S, parts, f)
    PROVE  /\ FlattenSeq(parts) = f[Len(parts)]
           /\ \A i \in 0..Len(parts) : f[i] \in Seq(S)
  <1> DEFINE n == Len(parts)
  <1>1. n \in Nat /\ \A i \in 1..n : parts[i] \in Seq(S)
    BY LenProperties
  <1>2. /\ f \in [0..n -> Seq(S)] /\ f[0] = << >>
        /\ \A i \in 1..n : f[i] = f[i - 1] \o parts[i]
    BY DEF Flattens
  <1>3. CASE n = 0
    <2>1. parts = << >>
      BY <1>1, <1>3, EmptySeq
    <2> QED  BY <1>2, <1>3, <2>1 DEF FlattenSeq
  <1>4. CASE n # 0
    <2> DEFINE h == [i \in 1..n |-> f[i]]
    <2>1. ASSUME NEW i \in 1..n
          PROVE  h[i] = IF i = 1 THEN parts[i] ELSE h[i - 1] \o parts[i]
      <3>1. CASE i = 1
        <4>1. f[i] = f[i - 1] \o parts[i] /\ parts[i] \in Seq(S)
          BY <1>1, <1>2
        <4>2. f[i - 1] = << >>
          <5>1. i - 1 = 0
            BY <3>1
          <5> QED  BY <1>2, <5>1
        <4>3. f[i] = parts[i]
          BY <4>1, <4>2, ConcatEmptySeq
        <4> QED  BY <3>1, <4>3
      <3>2. CASE i # 1
        <4>1. i - 1 \in 1..n
          BY <1>1, <3>2
        <4> QED  BY <1>2, <3>2, <4>1
      <3> QED  BY <3>1, <3>2
    <2>2. h = [i \in 1..n |-> IF i = 1 THEN parts[i] ELSE h[i - 1] \o parts[i]]
      BY <2>1
    <2>3. PICK g : /\ g = [i \in 1..n |-> IF i = 1 THEN parts[i] ELSE g[i - 1] \o parts[i]]
                   /\ FlattenSeq(parts) = g[n]
      BY <1>4, <2>2 DEF FlattenSeq
    <2>4. ASSUME NEW k \in 1..n
          PROVE  g[k] = IF k = 1 THEN parts[k] ELSE g[k - 1] \o parts[k]
      BY <2>3
    <2> HIDE DEF h
    <2>5. g[n] = h[n]
      <3> DEFINE T == {k \in 0..n : k = 0 \/ g[k] = h[k]}
      <3>1. 0 \in T
        BY <1>1
      <3>2. ASSUME NEW k \in 1..n, k - 1 \in T
            PROVE  k \in T
        <4>1. CASE k = 1
          <5>1. g[k] = h[k]
            BY <2>1, <2>4, <4>1
          <5> QED  BY <1>1, <5>1
        <4>2. CASE k # 1
          <5>1. g[k - 1] = h[k - 1]
            BY <1>1, <3>2, <4>2
          <5>2. g[k] = g[k - 1] \o parts[k]
            BY <2>4, <4>2
          <5>3. h[k] = h[k - 1] \o parts[k]
            BY <2>1, <4>2
          <5>4. g[k] = h[k]
            BY <5>1, <5>2, <5>3
          <5> QED  BY <1>1, <5>4
        <4> QED  BY <4>1, <4>2
      <3> HIDE DEF T
      <3>3. n \in T
        BY <1>1, <3>1, <3>2, CountingUp
      <3> QED  BY <1>4, <3>3 DEF T
    <2>6. h[n] = f[n]
      BY <1>1, <1>4 DEF h
    <2> QED  BY <1>2, <2>3, <2>5, <2>6
  <1> QED  BY <1>2, <1>3, <1>4

LEMMA FlattensExists ==
    ASSUME NEW S, NEW parts \in Seq(Seq(S))
    PROVE  \E f : Flattens(S, parts, f)
  <1> DEFINE n == Len(parts)
             Upto(m, f) == f[0] = << >> /\ \A i \in 1..m : f[i] = f[i - 1] \o parts[i]
             T == {m \in 0..n : \E f \in [0..m -> Seq(S)] : Upto(m, f)}
  <1>1. n \in Nat /\ \A i \in 1..n : parts[i] \in Seq(S)
    BY LenProperties
  <1>2. 0 \in T
    <2> DEFINE f == [i \in 0..0 |-> << >>]
    <2>1. f \in [0..0 -> Seq(S)] /\ Upto(0, f)
      OBVIOUS
    <2> HIDE DEF Upto, f
    <2> QED  BY <1>1, <2>1
  <1>3. ASSUME NEW m \in 1..n, m - 1 \in T
        PROVE  m \in T
    <2>1. PICK g \in [0..m - 1 -> Seq(S)] : Upto(m - 1, g)
      BY <1>3
    <2> DEFINE f == [i \in 0..m |-> IF i = m THEN g[m - 1] \o parts[m] ELSE g[i]]
    <2>2. m \in Nat /\ 1 <= m /\ g[m - 1] \in Seq(S)
          /\ g[m - 1] \o parts[m] \in Seq(S)
      <3>1. m - 1 \in 0..m - 1 /\ m \in Nat /\ 1 <= m
        BY <1>1
      <3>2. g[m - 1] \in Seq(S) /\ parts[m] \in Seq(S)
        BY <1>1, <2>1, <3>1
      <3> QED  BY <3>1, <3>2, ConcatProperties
    <2>3. ASSUME NEW i \in 0..m
          PROVE  f[i] \in Seq(S)
      <3>1. i = m \/ i \in 0..m - 1
        BY <2>2
      <3> QED  BY <2>1, <2>2, <3>1
    <2>4. f \in [0..m -> Seq(S)]
      BY <2>3
    <2>5. f[0] = << >> /\ f[m] = f[m - 1] \o parts[m]
      <3>1. 0 # m /\ m - 1 # m /\ 0 \in 0..m /\ m - 1 \in 0..m /\ m \in 0..m
        BY <2>2
      <3>2. f[0] = g[0] /\ f[m] = g[m - 1] \o parts[m]
        BY <3>1
      <3>3. f[m - 1] = g[m - 1]
        BY <3>1
      <3> QED  BY <2>1, <3>2, <3>3
    <2>6. ASSUME NEW i \in 1..m, i # m
          PROVE  f[i] = f[i - 1] \o parts[i]
      <3>1. i \in 1..m - 1 /\ i - 1 # m /\ i - 1 \in 0..m /\ i \in 0..m
        BY <2>2, <2>6
      <3> QED  BY <2>1, <2>6, <3>1
    <2> HIDE DEF f
    <2>7. Upto(m, f)
      BY <2>5, <2>6
    <2>8. m \in 0..n
      BY <1>1
    <2> HIDE DEF Upto
    <2> QED  BY <2>4, <2>7, <2>8
  <1> HIDE DEF T
  <1>4. n \in T
    BY <1>1, <1>2, <1>3, CountingUp
  <1> QED  BY <1>4 DEF T, Flattens

LEMMA FlattenIsText ==
    ASSUME NEW S, NEW parts \in Seq(Seq(S))
    PROVE  FlattenSeq(parts) \in Seq(S)
  <1>1. PICK f : Flattens(S, parts, f)
    BY FlattensExists
  <1>2. Len(parts) \in 0..Len(parts)
    BY LenProperties
  <1> QED  BY <1>1, <1>2, FlattenIs

(* Flattening distributes over joining.                                    *)
LEMMA FlattenConcat ==
    ASSUME NEW S, NEW p \in Seq(Seq(S)), NEW q \in Seq(Seq(S))
    PROVE  FlattenSeq(p \o q) = FlattenSeq(p) \o FlattenSeq(q)
  <1>1. PICK f : Flattens(S, p, f)
    BY FlattensExists
  <1>2. PICK g : Flattens(S, q, g)
    BY FlattensExists
  <1> DEFINE m == Len(p)
             n == Len(q)
             H(i) == IF i <= m THEN f[i] ELSE f[m] \o g[i - m]
             h == [i \in 0..m + n |-> H(i)]
  <1>3. /\ m \in Nat /\ n \in Nat
        /\ \A i \in 1..m : p[i] \in Seq(S)
        /\ \A i \in 1..n : q[i] \in Seq(S)
    BY LenProperties
  <1>4. /\ p \o q \in Seq(Seq(S)) /\ Len(p \o q) = m + n
        /\ \A i \in 1..m + n : (p \o q)[i] = IF i <= m THEN p[i] ELSE q[i - m]
    BY ConcatProperties
  <1>5. /\ FlattenSeq(p) = f[m] /\ FlattenSeq(q) = g[n]
        /\ \A i \in 0..m : f[i] \in Seq(S)
        /\ \A i \in 0..n : g[i] \in Seq(S)
    BY <1>1, <1>2, FlattenIs
  <1>6. /\ f[0] = << >> /\ g[0] = << >>
        /\ \A i \in 1..m : f[i] = f[i - 1] \o p[i]
        /\ \A i \in 1..n : g[i] = g[i - 1] \o q[i]
    BY <1>1, <1>2 DEF Flattens
  <1>7. f[m] \in Seq(S) /\ f[m] \o g[0] = f[m]
    <2>1. m \in 0..m
      BY <1>3
    <2> QED  BY <1>5, <1>6, <2>1, ConcatEmptySeq
  <1> HIDE DEF m, n
  <1>8. ASSUME NEW i \in 0..m + n
        PROVE  H(i) \in Seq(S)
    <2>1. CASE i <= m
      BY <1>3, <1>5, <2>1
    <2>2. CASE ~(i <= m)
      <3>1. i - m \in 0..n
        BY <1>3, <2>2
      <3>2. f[m] \o g[i - m] \in Seq(S)
        BY <1>5, <1>7, <3>1, ConcatProperties
      <3> QED  BY <2>2, <3>2
    <2> QED  BY <2>1, <2>2
  <1>9. ASSUME NEW i \in 1..m + n
        PROVE  H(i) = H(i - 1) \o (p \o q)[i]
    <2>1. CASE i <= m
      <3>1. i \in 1..m /\ i - 1 <= m
        BY <1>3, <2>1
      <3>2. H(i) = f[i] /\ H(i - 1) = f[i - 1] /\ (p \o q)[i] = p[i]
        BY <1>4, <2>1, <3>1
      <3> QED  BY <1>6, <3>1, <3>2
    <2>2. CASE ~(i <= m)
      <3> DEFINE k == i - m
      <3>1. k \in 1..n /\ k - 1 \in 0..n /\ i - 1 - m = k - 1
        BY <1>3, <2>2
      <3>2. H(i) = f[m] \o g[k] /\ (p \o q)[i] = q[k]
        BY <1>4, <2>2
      <3>3. H(i - 1) = f[m] \o g[k - 1]
        <4>1. CASE i - 1 <= m
          <5>1. i - 1 = m /\ k - 1 = 0
            BY <1>3, <2>2, <4>1
          <5> HIDE DEF k
          <5>2. H(i - 1) = f[m]
            BY <4>1, <5>1
          <5> QED  BY <1>7, <5>1, <5>2
        <4>2. CASE ~(i - 1 <= m)
          BY <3>1, <4>2
        <4> QED  BY <4>1, <4>2
      <3> HIDE DEF k, H
      <3>4. g[k] = g[k - 1] \o q[k] /\ g[k - 1] \in Seq(S) /\ q[k] \in Seq(S)
        BY <1>3, <1>5, <1>6, <3>1
      <3>5. (f[m] \o g[k - 1]) \o q[k] = f[m] \o (g[k - 1] \o q[k])
        <4>1. \A s, t, u \in Seq(S) : (s \o t) \o u = s \o (t \o u)
          BY ConcatAssociative
        <4> QED  BY <1>7, <3>4, <4>1
      <3> QED  BY <3>2, <3>3, <3>4, <3>5
    <2> QED  BY <2>1, <2>2
  <1>10. H(0) = << >> /\ H(m + n) = f[m] \o g[n]
    <2>1. 0 <= m
      BY <1>3
    <2>2. CASE n = 0
      <3>1. m + n <= m /\ m + n = m
        BY <1>3, <2>2
      <3> QED  BY <1>6, <1>7, <2>1, <2>2, <3>1
    <2>3. CASE n # 0
      <3>1. ~(m + n <= m) /\ (m + n) - m = n
        BY <1>3, <2>3
      <3> QED  BY <1>6, <2>1, <3>1
    <2> QED  BY <2>2, <2>3
  <1> HIDE DEF H
  <1>11. /\ h \in [0..m + n -> Seq(S)]
         /\ \A i \in 0..m + n : h[i] = H(i)
    BY <1>8
  <1> HIDE DEF h
  <1>12. Flattens(S, p \o q, h)
    <2>1. ASSUME NEW i \in 1..m + n
          PROVE  h[i] = h[i - 1] \o (p \o q)[i]
      <3>1. i \in 0..m + n /\ i - 1 \in 0..m + n
        BY <1>3
      <3> QED  BY <1>9, <1>11, <3>1
    <2>2. h[0] = << >>
      BY <1>3, <1>10, <1>11
    <2> QED  BY <1>4, <1>11, <2>1, <2>2 DEF Flattens
  <1>13. FlattenSeq(p \o q) = h[m + n]
    BY <1>4, <1>12, FlattenIs
  <1>14. m + n \in 0..m + n
    BY <1>3
  <1> QED  BY <1>5, <1>10, <1>11, <1>13, <1>14

LEMMA FlattenOne ==
    ASSUME NEW S, NEW s \in Seq(S)
    PROVE  FlattenSeq(<<s>>) = s
  <1> DEFINE f == [i \in 0..1 |-> IF i = 0 THEN << >> ELSE s]
  <1>1. <<s>> \in Seq(Seq(S)) /\ Len(<<s>>) = 1 /\ <<s>>[1] = s
    OBVIOUS
  <1>2. f[0] = << >> /\ f[1] = s /\ f \in [0..1 -> Seq(S)]
    OBVIOUS
  <1>3. << >> \o s = s
    BY ConcatEmptySeq
  <1>4. Flattens(S, <<s>>, f)
    <2>1. ASSUME NEW i \in 1..1
          PROVE  f[i] = f[i - 1] \o <<s>>[i]
      BY <1>1, <1>2, <1>3
    <2> HIDE DEF f
    <2> QED  BY <1>1, <1>2, <2>1 DEF Flattens
  <1> HIDE DEF f
  <1> QED  BY <1>1, <1>2, <1>4, FlattenIs

-----------------------------------------------------------------------------
(* Texts of parts, and what of a text is written in the file.              *)

LEMMA ConcatWords ==
    ASSUME NEW S, NEW s \in Seq(S), NEW t \in Seq(S)
    PROVE  ToSet(s \o t) = ToSet(s) \cup ToSet(t)
  <1>1. /\ Len(s) \in Nat /\ Len(t) \in Nat /\ DOMAIN s = 1..Len(s) /\ DOMAIN t = 1..Len(t)
        /\ DOMAIN (s \o t) = 1..Len(s) + Len(t)
        /\ \A i \in 1..Len(s) + Len(t) :
             (s \o t)[i] = IF i <= Len(s) THEN s[i] ELSE t[i - Len(s)]
    BY ConcatProperties, LenProperties
  <1>2. ASSUME NEW i \in 1..Len(s)
        PROVE  i \in 1..Len(s) + Len(t) /\ (s \o t)[i] = s[i]
    BY <1>1
  <1>3. ASSUME NEW i \in 1..Len(t)
        PROVE  i + Len(s) \in 1..Len(s) + Len(t) /\ (s \o t)[i + Len(s)] = t[i]
    <2>1. i + Len(s) \in 1..Len(s) + Len(t) /\ ~(i + Len(s) <= Len(s))
          /\ (i + Len(s)) - Len(s) = i
      BY <1>1
    <2> QED  BY <1>1, <2>1
  <1>4. ASSUME NEW i \in 1..Len(s) + Len(t)
        PROVE  (s \o t)[i] \in ToSet(s) \cup ToSet(t)
    <2>1. CASE i <= Len(s)
      BY <1>1, <2>1 DEF ToSet
    <2>2. CASE ~(i <= Len(s))
      <3>1. i - Len(s) \in 1..Len(t)
        BY <1>1, <2>2
      <3> QED  BY <1>1, <2>2, <3>1 DEF ToSet
    <2> QED  BY <2>1, <2>2
  <1>5. ToSet(s) \subseteq ToSet(s \o t)
    <2> SUFFICES ASSUME NEW i \in 1..Len(s)
                 PROVE  s[i] \in ToSet(s \o t)
      BY <1>1 DEF ToSet
    <2> QED  BY <1>1, <1>2 DEF ToSet
  <1>6. ToSet(t) \subseteq ToSet(s \o t)
    <2> SUFFICES ASSUME NEW i \in 1..Len(t)
                 PROVE  t[i] \in ToSet(s \o t)
      BY <1>1 DEF ToSet
    <2> QED  BY <1>1, <1>3 DEF ToSet
  <1>7. ToSet(s \o t) \subseteq ToSet(s) \cup ToSet(t)
    <2> SUFFICES ASSUME NEW i \in 1..Len(s) + Len(t)
                 PROVE  (s \o t)[i] \in ToSet(s) \cup ToSet(t)
      BY <1>1 DEF ToSet
    <2> QED  BY <1>4
  <1> QED  BY <1>5, <1>6, <1>7

LEMMA PartTexts ==
    ASSUME NEW S, \A x \in S : x.text \in Seq(Words), NEW p \in Seq(S)
    PROVE  /\ [i \in DOMAIN p |-> p[i].text] \in Seq(Seq(Words))
           /\ Len([i \in DOMAIN p |-> p[i].text]) = Len(p)
           /\ TextsOf(p) \in Seq(Words)
  <1> DEFINE m == [i \in DOMAIN p |-> p[i].text]
  <1>1. /\ DOMAIN p = 1..Len(p) /\ Len(p) \in Nat
        /\ \A i \in 1..Len(p) : p[i] \in S
    BY LenProperties
  <1>2. m \in [1..Len(p) -> Seq(Words)]
    BY <1>1
  <1>3. m \in Seq(Seq(Words)) /\ Len(m) = Len(p)
    <2> HIDE DEF m
    <2> QED  BY <1>1, <1>2, SeqDef
  <1> QED  BY <1>3, FlattenIsText DEF TextsOf

(* The text of two runs of parts is the text of the one, then the other.   *)
LEMMA TextsConcat ==
    ASSUME NEW S, \A x \in S : x.text \in Seq(Words), NEW p \in Seq(S), NEW q \in Seq(S)
    PROVE  TextsOf(p \o q) = TextsOf(p) \o TextsOf(q)
  <1> DEFINE a == [i \in DOMAIN p |-> p[i].text]
             b == [i \in DOMAIN q |-> q[i].text]
             pq == p \o q
             c == [i \in DOMAIN pq |-> pq[i].text]
  <1>1. /\ pq \in Seq(S) /\ Len(pq) = Len(p) + Len(q)
        /\ \A i \in 1..Len(p) + Len(q) : pq[i] = IF i <= Len(p) THEN p[i] ELSE q[i - Len(p)]
        /\ Len(p) \in Nat /\ Len(q) \in Nat
        /\ DOMAIN p = 1..Len(p) /\ DOMAIN q = 1..Len(q) /\ DOMAIN pq = 1..Len(p) + Len(q)
    <2>1. /\ pq \in Seq(S) /\ Len(pq) = Len(p) + Len(q)
          /\ \A i \in 1..Len(p) + Len(q) :
                pq[i] = IF i <= Len(p) THEN p[i] ELSE q[i - Len(p)]
      BY ConcatProperties
    <2> HIDE DEF pq
    <2> QED  BY <2>1, LenProperties
  <1>2. /\ a \in Seq(Seq(Words)) /\ b \in Seq(Seq(Words)) /\ c \in Seq(Seq(Words))
        /\ Len(a) = Len(p) /\ Len(b) = Len(q) /\ Len(c) = Len(pq)
    <2> HIDE DEF pq
    <2> QED  BY <1>1, PartTexts
  <1>3. c = a \o b
    <2>1. /\ a \o b \in Seq(Seq(Words)) /\ Len(a \o b) = Len(p) + Len(q)
          /\ \A i \in 1..Len(p) + Len(q) :
                (a \o b)[i] = IF i <= Len(p) THEN a[i] ELSE b[i - Len(p)]
      <3> HIDE DEF a, b
      <3> QED  BY <1>2, ConcatProperties
    <2>2. ASSUME NEW i \in 1..Len(p) + Len(q)
          PROVE  c[i] = IF i <= Len(p) THEN a[i] ELSE b[i - Len(p)]
      <3> HIDE DEF pq
      <3>1. c[i] = pq[i].text
        BY <1>1
      <3>2. CASE i <= Len(p)
        <4>1. i \in DOMAIN p
          BY <1>1, <3>2
        <4> QED  BY <1>1, <3>1, <3>2, <4>1
      <3>3. CASE ~(i <= Len(p))
        <4>1. i - Len(p) \in DOMAIN q
          BY <1>1, <3>3
        <4> QED  BY <1>1, <3>1, <3>3, <4>1
      <3> QED  BY <3>2, <3>3
    <2> HIDE DEF a, b, c, pq
    <2> QED  BY <1>1, <1>2, <2>1, <2>2, SeqEqual
  <1>4. FlattenSeq(a \o b) = FlattenSeq(a) \o FlattenSeq(b)
    <2> HIDE DEF a, b
    <2> QED  BY <1>2, FlattenConcat
  <1> QED  BY <1>3, <1>4 DEF TextsOf

LEMMA TextsOfOne ==
    ASSUME NEW x, x.text \in Seq(Words)
    PROVE  TextsOf(<<x>>) = x.text /\ TextsOf(<< >>) = << >>
  <1>1. [i \in DOMAIN <<x>> |-> <<x>>[i].text] = <<x.text>>
    OBVIOUS
  <1>2. [i \in DOMAIN << >> |-> << >>[i].text] = << >>
    OBVIOUS
  <1>3. FlattenSeq(<< >>) = << >>
    BY DEF FlattenSeq
  <1> QED  BY <1>1, <1>2, <1>3, FlattenOne DEF TextsOf

LEMMA TextsAppend ==
    ASSUME NEW S, \A x \in S : x.text \in Seq(Words), NEW p \in Seq(S), NEW x \in S
    PROVE  TextsOf(Append(p, x)) = TextsOf(p) \o x.text
  <1>1. Append(p, x) = p \o <<x>> /\ <<x>> \in Seq(S)
    BY AppendIsConcat
  <1> QED  BY <1>1, TextsConcat, TextsOfOne

LEMMA TextsHead ==
    ASSUME NEW S, \A x \in S : x.text \in Seq(Words), NEW p \in Seq(S), p # << >>
    PROVE  TextsOf(p) = Head(p).text \o TextsOf(Tail(p))
  <1>1. Head(p) \in S /\ Tail(p) \in Seq(S) /\ <<Head(p)>> \in Seq(S)
    BY HeadTailProperties
  <1>2. p = <<Head(p)>> \o Tail(p)
    BY <1>1
  <1> QED  BY <1>1, <1>2, TextsConcat, TextsOfOne

LEMMA TextsSplit ==
    ASSUME NEW S, \A x \in S : x.text \in Seq(Words), NEW p \in Seq(S),
           NEW n \in 0..Len(p)
    PROVE  /\ SubSeq(p, 1, n) \in Seq(S) /\ SubSeq(p, n + 1, Len(p)) \in Seq(S)
           /\ TextsOf(p) = TextsOf(SubSeq(p, 1, n)) \o TextsOf(SubSeq(p, n + 1, Len(p)))
  <1>1. /\ Len(p) \in Nat /\ n \in Int /\ n + 1 \in Int /\ n \in Nat /\ n <= Len(p)
        /\ \A i \in 1..Len(p) : p[i] \in S
    BY LenProperties
  <1>2. SubSeq(p, 1, n) \in Seq(S) /\ SubSeq(p, n + 1, Len(p)) \in Seq(S)
    <2>1. (\A i \in 1..n : p[i] \in S) /\ (\A i \in n + 1..Len(p) : p[i] \in S)
      BY <1>1
    <2> QED  BY <1>1, <2>1, SubSeqProperties
  <1>3. p = SubSeq(p, 1, n) \o SubSeq(p, n + 1, Len(p))
    <2>1. 1 \in 1..Len(p) + 1 /\ n \in 1 - 1..Len(p) /\ Len(p) \in n..Len(p)
      BY <1>1
    <2> QED  BY <2>1, ConcatAdjacentSubSeq, SubSeqFull
  <1> QED  BY <1>2, <1>3, TextsConcat

(* The words of a part are among those of the whole.                       *)
LEMMA TextsHavePart ==
    ASSUME NEW S, \A x \in S : x.text \in Seq(Words), NEW p \in Seq(S),
           NEW i \in DOMAIN p
    PROVE  ToSet(p[i].text) \subseteq ToSet(TextsOf(p))
  <1> DEFINE a == SubSeq(p, 1, i)
             b == SubSeq(p, 1, i - 1)
             c == SubSeq(p, i + 1, Len(p))
  <1>1. i \in 1..Len(p) /\ i \in 0..Len(p) /\ Len(p) \in Nat /\ p[i] \in S
    BY LenProperties
  <1>2. a \in Seq(S) /\ c \in Seq(S) /\ TextsOf(p) = TextsOf(a) \o TextsOf(c)
    BY <1>1, TextsSplit
  <1>3. b \in Seq(S) /\ a = b \o <<p[i]>>
    <2>1. i - 1 \in 0..Len(p)
      BY <1>1
    <2>2. b \in Seq(S)
      BY <2>1, TextsSplit
    <2>3. 1 \in 1..Len(p) /\ i \in 1..Len(p)
      BY <1>1
    <2> QED  BY <2>2, <2>3, SubSeqRecursiveSecond
  <1> HIDE DEF a, b, c
  <1>4. TextsOf(a) = TextsOf(b) \o p[i].text
    <2>1. <<p[i]>> \in Seq(S)
      BY <1>1
    <2> QED  BY <1>1, <1>3, <2>1, TextsConcat, TextsOfOne
  <1>5. TextsOf(a) \in Seq(Words) /\ TextsOf(b) \in Seq(Words) /\ TextsOf(c) \in Seq(Words)
    BY <1>2, <1>3, PartTexts
  <1>6. ToSet(p[i].text) \subseteq ToSet(TextsOf(a))
    BY <1>1, <1>4, <1>5, ConcatWords
  <1> QED  BY <1>2, <1>5, <1>6, ConcatWords

OneWordParts(text) == [i \in DOMAIN text |-> IF text[i].line = 0 THEN << >> ELSE <<text[i]>>]

LEMMA WrittenIsText ==
    ASSUME NEW text \in Seq(Words)
    PROVE  /\ OneWordParts(text) \in Seq(Seq(Words))
           /\ Len(OneWordParts(text)) = Len(text)
           /\ Written(text) = FlattenSeq(OneWordParts(text))
           /\ Written(text) \in Seq(Words)
  <1>1. /\ Len(text) \in Nat /\ DOMAIN text = 1..Len(text)
        /\ \A i \in 1..Len(text) : text[i] \in Words
    BY LenProperties
  <1>2. OneWordParts(text) \in [1..Len(text) -> Seq(Words)]
    <2>1. ASSUME NEW i \in 1..Len(text)
          PROVE  (IF text[i].line = 0 THEN << >> ELSE <<text[i]>>) \in Seq(Words)
      BY <1>1
    <2> QED  BY <1>1, <2>1 DEF OneWordParts
  <1>3. OneWordParts(text) \in Seq(Seq(Words)) /\ Len(OneWordParts(text)) = Len(text)
    BY <1>1, <1>2, SeqDef
  <1> QED  BY <1>3, FlattenIsText DEF Written, OneWordParts

(* What is written in two texts is what is written in each.                *)
LEMMA WrittenConcat ==
    ASSUME NEW s \in Seq(Words), NEW t \in Seq(Words)
    PROVE  Written(s \o t) = Written(s) \o Written(t)
  <1> DEFINE a == OneWordParts(s)
             b == OneWordParts(t)
             st == s \o t
             c == OneWordParts(st)
  <1>1. /\ st \in Seq(Words) /\ Len(st) = Len(s) + Len(t)
        /\ \A i \in 1..Len(s) + Len(t) : st[i] = IF i <= Len(s) THEN s[i] ELSE t[i - Len(s)]
        /\ Len(s) \in Nat /\ Len(t) \in Nat
        /\ DOMAIN s = 1..Len(s) /\ DOMAIN t = 1..Len(t) /\ DOMAIN st = 1..Len(s) + Len(t)
    <2>1. /\ st \in Seq(Words) /\ Len(st) = Len(s) + Len(t)
          /\ \A i \in 1..Len(s) + Len(t) :
                st[i] = IF i <= Len(s) THEN s[i] ELSE t[i - Len(s)]
      BY ConcatProperties
    <2> HIDE DEF st
    <2> QED  BY <2>1, LenProperties
  <1> HIDE DEF st
  <1>2. /\ a \in Seq(Seq(Words)) /\ b \in Seq(Seq(Words)) /\ c \in Seq(Seq(Words))
        /\ Len(a) = Len(s) /\ Len(b) = Len(t) /\ Len(c) = Len(st)
    BY <1>1, WrittenIsText
  <1>3. c = a \o b
    <2>1. /\ a \o b \in Seq(Seq(Words)) /\ Len(a \o b) = Len(s) + Len(t)
          /\ \A i \in 1..Len(s) + Len(t) :
                (a \o b)[i] = IF i <= Len(s) THEN a[i] ELSE b[i - Len(s)]
      <3> DEFINE S == Seq(Words)
      <3>1. a \in Seq(S) /\ b \in Seq(S)
        BY <1>2
      <3> HIDE DEF a, b, S
      <3>2. /\ a \o b \in Seq(S) /\ Len(a \o b) = Len(a) + Len(b)
            /\ \A i \in 1..Len(a) + Len(b) :
                  (a \o b)[i] = IF i <= Len(a) THEN a[i] ELSE b[i - Len(a)]
        BY <3>1, ConcatProperties
      <3> QED  BY <1>2, <3>2 DEF S
    <2>2. ASSUME NEW i \in 1..Len(s) + Len(t)
          PROVE  c[i] = IF i <= Len(s) THEN a[i] ELSE b[i - Len(s)]
      <3>1. c[i] = IF st[i].line = 0 THEN << >> ELSE <<st[i]>>
        BY <1>1 DEF OneWordParts
      <3>2. CASE i <= Len(s)
        <4>1. i \in DOMAIN s
          BY <1>1, <3>2
        <4> QED  BY <1>1, <3>1, <3>2, <4>1 DEF OneWordParts
      <3>3. CASE ~(i <= Len(s))
        <4> DEFINE k == i - Len(s)
        <4>1. k \in DOMAIN t
          BY <1>1, <3>3
        <4>2. st[i] = t[k]
          BY <1>1, <3>3
        <4> HIDE DEF k
        <4>3. b[k] = IF t[k].line = 0 THEN << >> ELSE <<t[k]>>
          BY <4>1 DEF OneWordParts
        <4> QED  BY <3>1, <3>3, <4>2, <4>3 DEF k
      <3> QED  BY <3>2, <3>3
    <2> HIDE DEF a, b, c
    <2> QED  BY <1>1, <1>2, <2>1, <2>2, SeqEqual
  <1>4. FlattenSeq(a \o b) = FlattenSeq(a) \o FlattenSeq(b)
    <2> HIDE DEF a, b
    <2> QED  BY <1>2, FlattenConcat
  <1>5. /\ Written(s) = FlattenSeq(a) /\ Written(t) = FlattenSeq(b)
        /\ Written(st) = FlattenSeq(c)
    BY <1>1, WrittenIsText
  <1> QED  BY <1>3, <1>4, <1>5 DEF st

LEMMA WrittenEmpty == Written(<< >>) = << >>
  <1> DEFINE none == << >>
  <1>1. Len(OneWordParts(none)) = 0 /\ OneWordParts(none) \in Seq(Seq(Words))
        /\ Written(none) = FlattenSeq(OneWordParts(none))
    <2>1. none \in Seq(Words) /\ Len(none) = 0
      OBVIOUS
    <2> HIDE DEF none
    <2> QED  BY <2>1, WrittenIsText
  <1>2. OneWordParts(none) = << >>
    BY <1>1, EmptySeq
  <1> QED  BY <1>1, <1>2 DEF FlattenSeq

LEMMA WrittenWord ==
    ASSUME NEW w \in Words
    PROVE  Written(<<w>>) = IF w.line = 0 THEN << >> ELSE <<w>>
  <1> DEFINE x == IF w.line = 0 THEN << >> ELSE <<w>>
  <1>1. OneWordParts(<<w>>) = <<x>>
    BY DEF OneWordParts
  <1>2. x \in Seq(Words)
    OBVIOUS
  <1> HIDE DEF x
  <1>3. FlattenSeq(<<x>>) = x
    BY <1>2, FlattenOne
  <1>4. Written(<<w>>) = FlattenSeq(OneWordParts(<<w>>))
    BY DEF Written, OneWordParts
  <1> QED  BY <1>1, <1>3, <1>4 DEF x

(* A heading that a merge writes is not written in the file.               *)
LEMMA HeadingLineIsNotWritten ==
    ASSUME NEW of \in Nat
    PROVE  HeadingLine(of) \in Seq(Words) /\ Written(HeadingLine(of)) = << >>
  <1> DEFINE w(i) == [heading |-> of, line |-> 0, sentence |-> 0, word |-> i,
                     marker |-> "none", block |-> 0]
  <1>1. HeadingLine(of) = <<w(1)>> \o <<w(2)>>
    <2>1. HeadingLine(of) = [i \in 1..2 |-> w(i)]
      BY DEF HeadingLine
    <2> HIDE DEF w
    <2> QED  BY <2>1
  <1>2. w(1) \in Words /\ w(2) \in Words /\ w(1).line = 0 /\ w(2).line = 0
    BY DEF Words, Markers
  <1> HIDE DEF w
  <1>3. Written(<<w(1)>>) = << >> /\ Written(<<w(2)>>) = << >>
    BY <1>2, WrittenWord
  <1>4. Written(<<w(1)>> \o <<w(2)>>) = Written(<<w(1)>>) \o Written(<<w(2)>>)
    <2>1. <<w(1)>> \in Seq(Words) /\ <<w(2)>> \in Seq(Words)
      BY <1>2
    <2> QED  BY <2>1, WrittenConcat
  <1>5. << >> \o << >> = << >>
    OBVIOUS
  <1>6. <<w(1)>> \o <<w(2)>> \in Seq(Words)
    BY <1>2
  <1> QED  BY <1>1, <1>3, <1>4, <1>5, <1>6

(* A word of the file is not left out.                                     *)
LEMMA WrittenHasWords ==
    ASSUME NEW text \in Seq(Words), NEW w \in ToSet(text), w.line # 0
    PROVE  w \in ToSet(Written(text))
  <1>1. PICK i \in 1..Len(text) : text[i] = w
    BY LenProperties DEF ToSet
  <1>2. Len(text) \in Nat /\ i \in Nat /\ 1 <= i /\ i <= Len(text) /\ w \in Words
    BY <1>1
  <1> DEFINE a == SubSeq(text, 1, i - 1)
             b == SubSeq(text, i + 1, Len(text))
  <1>3. a \in Seq(Words) /\ b \in Seq(Words)
    <2>1. i - 1 \in Int /\ i + 1 \in Int /\ Len(text) \in Int /\ 1 \in Int
          /\ (\A k \in 1..i - 1 : text[k] \in Words)
          /\ (\A k \in i + 1..Len(text) : text[k] \in Words)
      BY <1>2
    <2> QED  BY <2>1, SubSeqProperties
  <1>4. text = (a \o <<w>>) \o b
    <2>1. SubSeq(text, 1, i) = a \o <<w>>
      <3>1. 1 \in 1..Len(text) /\ i \in 1..Len(text)
        BY <1>2
      <3> QED  BY <1>1, <3>1, SubSeqRecursiveSecond
    <2>2. text = SubSeq(text, 1, i) \o b
      <3>1. 1 \in 1..Len(text) + 1 /\ i \in 1 - 1..Len(text) /\ Len(text) \in i..Len(text)
        BY <1>2
      <3> QED  BY <3>1, ConcatAdjacentSubSeq, SubSeqFull
    <2> QED  BY <2>1, <2>2
  <1> HIDE DEF a, b
  <1>5. <<w>> \in Seq(Words) /\ a \o <<w>> \in Seq(Words)
    BY <1>2, <1>3, ConcatProperties
  <1>6. Written(text) = (Written(a) \o <<w>>) \o Written(b)
    <2>1. Written(text) = Written(a \o <<w>>) \o Written(b)
      BY <1>3, <1>4, <1>5, WrittenConcat
    <2>2. Written(a \o <<w>>) = Written(a) \o Written(<<w>>)
      BY <1>3, <1>5, WrittenConcat
    <2>3. Written(<<w>>) = <<w>>
      BY <1>2, WrittenWord
    <2> QED  BY <2>1, <2>2, <2>3
  <1>7. Written(a) \in Seq(Words) /\ Written(b) \in Seq(Words)
    BY <1>3, WrittenIsText
  <1>8. w \in ToSet(<<w>>)
    BY DEF ToSet
  <1>9. \A s, t \in Seq(Words) : /\ s \o t \in Seq(Words)
                                  /\ ToSet(s \o t) = ToSet(s) \cup ToSet(t)
    BY ConcatWords, ConcatProperties
  <1>10. Written(a) \o <<w>> \in Seq(Words) /\ w \in ToSet(Written(a) \o <<w>>)
    <2> DEFINE one == <<w>>
    <2> HIDE DEF one
    <2>1. one \in Seq(Words) /\ w \in ToSet(one)
      BY <1>5, <1>8 DEF one
    <2>2. Written(a) \o one \in Seq(Words) /\ w \in ToSet(Written(a) \o one)
      BY <1>7, <1>9, <2>1
    <2> QED  BY <2>2 DEF one
  <1>11. ToSet(Written(text)) = ToSet(Written(a) \o <<w>>) \cup ToSet(Written(b))
    BY <1>6, <1>7, <1>9, <1>10
  <1> QED  BY <1>10, <1>11

(* A text says no word twice.                                              *)
SaysOnce(text) == \A i, j \in DOMAIN text : text[i] = text[j] => i = j

LEMMA SaysOnceParts ==
    ASSUME NEW S, NEW s \in Seq(S), NEW t \in Seq(S), SaysOnce(s \o t)
    PROVE  SaysOnce(s) /\ SaysOnce(t) /\ ToSet(s) \cap ToSet(t) = {}
  <1>1. /\ Len(s) \in Nat /\ Len(t) \in Nat /\ DOMAIN s = 1..Len(s) /\ DOMAIN t = 1..Len(t)
        /\ DOMAIN (s \o t) = 1..Len(s) + Len(t)
        /\ \A i \in 1..Len(s) + Len(t) :
             (s \o t)[i] = IF i <= Len(s) THEN s[i] ELSE t[i - Len(s)]
    BY ConcatProperties, LenProperties
  <1>2. ASSUME NEW i \in 1..Len(s)
        PROVE  i \in 1..Len(s) + Len(t) /\ (s \o t)[i] = s[i]
    BY <1>1
  <1>3. ASSUME NEW i \in 1..Len(t)
        PROVE  i + Len(s) \in 1..Len(s) + Len(t) /\ (s \o t)[i + Len(s)] = t[i]
    <2>1. i + Len(s) \in 1..Len(s) + Len(t) /\ ~(i + Len(s) <= Len(s))
          /\ (i + Len(s)) - Len(s) = i
      BY <1>1
    <2> QED  BY <1>1, <2>1
  <1>4. SaysOnce(s)
    <2> SUFFICES ASSUME NEW i \in 1..Len(s), NEW j \in 1..Len(s), s[i] = s[j]
                 PROVE  i = j
      BY <1>1 DEF SaysOnce
    <2> QED  BY <1>1, <1>2 DEF SaysOnce
  <1>5. SaysOnce(t)
    <2> SUFFICES ASSUME NEW i \in 1..Len(t), NEW j \in 1..Len(t), t[i] = t[j]
                 PROVE  i = j
      BY <1>1 DEF SaysOnce
    <2>1. i + Len(s) = j + Len(s)
      BY <1>1, <1>3 DEF SaysOnce
    <2> QED  BY <1>1, <2>1
  <1>6. ToSet(s) \cap ToSet(t) = {}
    <2> SUFFICES ASSUME NEW i \in 1..Len(s), NEW j \in 1..Len(t), s[i] = t[j]
                 PROVE  FALSE
      BY <1>1 DEF ToSet
    <2>1. i = j + Len(s)
      BY <1>1, <1>2, <1>3 DEF SaysOnce
    <2> QED  BY <1>1, <2>1
  <1> QED  BY <1>4, <1>5, <1>6

LEMMA SaysOnceConcat ==
    ASSUME NEW S, NEW s \in Seq(S), NEW t \in Seq(S), SaysOnce(s), SaysOnce(t),
           ToSet(s) \cap ToSet(t) = {}
    PROVE  SaysOnce(s \o t)
  <1>1. /\ Len(s) \in Nat /\ Len(t) \in Nat /\ DOMAIN s = 1..Len(s) /\ DOMAIN t = 1..Len(t)
        /\ DOMAIN (s \o t) = 1..Len(s) + Len(t)
        /\ \A i \in 1..Len(s) + Len(t) :
             (s \o t)[i] = IF i <= Len(s) THEN s[i] ELSE t[i - Len(s)]
    BY ConcatProperties, LenProperties
  <1> SUFFICES ASSUME NEW i \in 1..Len(s) + Len(t), NEW j \in 1..Len(s) + Len(t),
                      (s \o t)[i] = (s \o t)[j]
               PROVE  i = j
    BY <1>1 DEF SaysOnce
  <1>2. CASE i <= Len(s) /\ j <= Len(s)
    <2>1. i \in DOMAIN s /\ j \in DOMAIN s /\ s[i] = s[j]
      BY <1>1, <1>2
    <2> QED  BY <2>1 DEF SaysOnce
  <1>3. CASE ~(i <= Len(s)) /\ ~(j <= Len(s))
    <2>1. /\ i - Len(s) \in DOMAIN t /\ j - Len(s) \in DOMAIN t
          /\ t[i - Len(s)] = t[j - Len(s)]
      BY <1>1, <1>3
    <2>2. i - Len(s) = j - Len(s)
      BY <2>1 DEF SaysOnce
    <2> QED  BY <1>1, <2>2
  <1>4. CASE i <= Len(s) /\ ~(j <= Len(s))
    <2>1. i \in DOMAIN s /\ j - Len(s) \in DOMAIN t /\ s[i] = t[j - Len(s)]
      BY <1>1, <1>4
    <2> QED  BY <2>1 DEF ToSet
  <1>5. CASE ~(i <= Len(s)) /\ j <= Len(s)
    <2>1. j \in DOMAIN s /\ i - Len(s) \in DOMAIN t /\ s[j] = t[i - Len(s)]
      BY <1>1, <1>5
    <2> QED  BY <2>1 DEF ToSet
  <1> QED  BY <1>2, <1>3, <1>4, <1>5

(* Two parts that have a word of the file in common say it twice.          *)
LEMMA PartsShareNoWord ==
    ASSUME NEW S, \A x \in S : x.text \in Seq(Words), NEW p \in Seq(S),
           SaysOnce(Written(TextsOf(p))),
           NEW i \in DOMAIN p, NEW j \in DOMAIN p, i < j,
           NEW w \in ToSet(p[i].text), w \in ToSet(p[j].text), w.line # 0
    PROVE  FALSE
  <1> DEFINE a == SubSeq(p, 1, i)
             b == SubSeq(p, i + 1, Len(p))
  <1>1. /\ Len(p) \in Nat /\ i \in 1..Len(p) /\ j \in 1..Len(p) /\ i \in 0..Len(p)
        /\ \A k \in 1..Len(p) : p[k] \in S
    BY LenProperties
  <1>2. a \in Seq(S) /\ b \in Seq(S) /\ TextsOf(p) = TextsOf(a) \o TextsOf(b)
    BY <1>1, TextsSplit
  <1>3. i \in DOMAIN a /\ a[i] = p[i]
    <2>1. /\ 1 \in Int /\ i \in Int /\ \A k \in 1..i : p[k] \in S
      BY <1>1
    <2>2. /\ Len(a) = IF 1 <= i THEN (i - 1) + 1 ELSE 0
          /\ \A k \in 1..(i - 1) + 1 : a[k] = p[(1 + k) - 1]
      BY <2>1, SubSeqProperties
    <2>3. Len(a) = i /\ i \in 1..(i - 1) + 1 /\ (1 + i) - 1 = i
      BY <1>1, <2>2
    <2>4. a[i] = p[i]
      BY <2>2, <2>3
    <2> HIDE DEF a
    <2>5. i \in DOMAIN a
      BY <1>1, <1>2, <2>3, LenProperties
    <2> QED  BY <2>4, <2>5
  <1>4. j - i \in DOMAIN b /\ b[j - i] = p[j]
    <2>1. /\ i + 1 \in Int /\ Len(p) \in Int /\ \A k \in i + 1..Len(p) : p[k] \in S
      BY <1>1
    <2>2. /\ Len(b) = IF i + 1 <= Len(p) THEN (Len(p) - (i + 1)) + 1 ELSE 0
          /\ \A k \in 1..(Len(p) - (i + 1)) + 1 : b[k] = p[((i + 1) + k) - 1]
      BY <2>1, SubSeqProperties
    <2>3. /\ Len(b) = Len(p) - i /\ j - i \in 1..(Len(p) - (i + 1)) + 1
          /\ ((i + 1) + (j - i)) - 1 = j /\ j - i \in 1..Len(p) - i
      BY <1>1, <2>2
    <2>4. b[j - i] = p[j]
      BY <2>2, <2>3
    <2> HIDE DEF b
    <2>5. j - i \in DOMAIN b
      BY <1>1, <1>2, <2>3, LenProperties
    <2> QED  BY <2>4, <2>5
  <1> HIDE DEF a, b
  <1>5. w \in ToSet(TextsOf(a)) /\ w \in ToSet(TextsOf(b))
    <2>1. w \in ToSet(TextsOf(a))
      BY <1>2, <1>3, TextsHavePart
    <2>2. w \in ToSet(TextsOf(b))
      <3>1. ToSet(b[j - i].text) \subseteq ToSet(TextsOf(b))
        BY <1>2, <1>4, TextsHavePart
      <3> QED  BY <1>4, <3>1
    <2> QED  BY <2>1, <2>2
  <1>6. TextsOf(a) \in Seq(Words) /\ TextsOf(b) \in Seq(Words)
    BY <1>2, PartTexts
  <1>7. w \in ToSet(Written(TextsOf(a))) /\ w \in ToSet(Written(TextsOf(b)))
    BY <1>5, <1>6, WrittenHasWords
  <1>8. SaysOnce(Written(TextsOf(a)) \o Written(TextsOf(b)))
    BY <1>2, <1>6, WrittenConcat
  <1>9. Written(TextsOf(a)) \in Seq(Words) /\ Written(TextsOf(b)) \in Seq(Words)
    BY <1>6, WrittenIsText
  <1> QED  BY <1>7, <1>8, <1>9, SaysOnceParts

-----------------------------------------------------------------------------
(* What the file says.                                                     *)

BodyParts(i) ==
    [j \in 1..Len(document.headings) + 1 - i |-> document.headings[i + j - 1].body]

LEMMA BodyPartsAreTexts ==
    ASSUME document \in Documents, NEW i \in 1..Len(document.headings) + 1
    PROVE  /\ BodyParts(i) \in Seq(Seq(Words))
           /\ Len(BodyParts(i)) = Len(document.headings) + 1 - i
           /\ BodiesFrom(i) = FlattenSeq(BodyParts(i))
           /\ BodiesFrom(i) \in Seq(Words)
  <1> DEFINE n == Len(document.headings)
             m == n + 1 - i
  <1>1. n \in Nat /\ DOMAIN document.headings = 1..n
        /\ \A h \in 1..n : document.headings[h].body \in Seq(Words)
    BY HeadingFields
  <1>2. m \in Nat /\ \A j \in 1..m : i + j - 1 \in 1..n
    BY <1>1
  <1>3. BodyParts(i) \in [1..m -> Seq(Words)]
    BY <1>1, <1>2 DEF BodyParts
  <1>4. BodyParts(i) \in Seq(Seq(Words)) /\ Len(BodyParts(i)) = m
    <2> HIDE DEF m
    <2> QED  BY <1>2, <1>3, SeqDef
  <1> QED  BY <1>4, FlattenIsText DEF BodiesFrom, BodyParts

LEMMA NoBodyIsLeft ==
    ASSUME document \in Documents
    PROVE  BodiesFrom(Len(document.headings) + 1) = << >>
  <1> DEFINE n == Len(document.headings)
  <1>1. n \in Nat /\ n + 1 \in 1..n + 1 /\ n + 1 - (n + 1) = 0
    BY HeadingFields
  <1>2. BodyParts(n + 1) \in Seq(Seq(Words)) /\ Len(BodyParts(n + 1)) = 0
        /\ BodiesFrom(n + 1) = FlattenSeq(BodyParts(n + 1))
    BY <1>1, BodyPartsAreTexts
  <1>3. BodyParts(n + 1) = << >>
    BY <1>2, EmptySeq
  <1> QED  BY <1>2, <1>3 DEF FlattenSeq

(* What is left to read is the next body and what is left after it.        *)
LEMMA NextBody ==
    ASSUME document \in Documents, NEW i \in 1..Len(document.headings)
    PROVE  /\ document.headings[i].body \in Seq(Words)
           /\ BodiesFrom(i) \in Seq(Words)
           /\ BodiesFrom(i + 1) \in Seq(Words)
           /\ BodiesFrom(i) = document.headings[i].body \o BodiesFrom(i + 1)
  <1> DEFINE n == Len(document.headings)
             body == document.headings[i].body
             S == Seq(Words)
             a == <<body>>
             b == BodyParts(i + 1)
             c == BodyParts(i)
  <1>1. /\ n \in Nat /\ DOMAIN document.headings = 1..n
        /\ \A h \in 1..n : document.headings[h].body \in Seq(Words)
    BY HeadingFields
  <1>2. i \in 1..n + 1 /\ i + 1 \in 1..n + 1 /\ i \in Nat /\ body \in Seq(Words)
    BY <1>1
  <1>3. /\ b \in Seq(S) /\ c \in Seq(S)
        /\ Len(b) = n - i /\ Len(c) = (n - i) + 1
        /\ BodiesFrom(i) = FlattenSeq(c) /\ BodiesFrom(i + 1) = FlattenSeq(b)
        /\ BodiesFrom(i) \in Seq(Words) /\ BodiesFrom(i + 1) \in Seq(Words)
    <2>1. n + 1 - i = (n - i) + 1 /\ n + 1 - (i + 1) = n - i
      <3>1. n \in Nat /\ i \in Nat
        BY <1>1, <1>2
      <3> HIDE DEF n
      <3> QED  BY <3>1
    <2>2. /\ BodyParts(i) \in Seq(S) /\ Len(BodyParts(i)) = n + 1 - i
          /\ BodiesFrom(i) = FlattenSeq(BodyParts(i)) /\ BodiesFrom(i) \in Seq(Words)
      BY <1>2, BodyPartsAreTexts
    <2>3. /\ BodyParts(i + 1) \in Seq(S) /\ Len(BodyParts(i + 1)) = n + 1 - (i + 1)
          /\ BodiesFrom(i + 1) = FlattenSeq(BodyParts(i + 1))
          /\ BodiesFrom(i + 1) \in Seq(Words)
      BY <1>2, BodyPartsAreTexts
    <2> QED  BY <2>1, <2>2, <2>3
  <1>4. a \in Seq(S) /\ Len(a) = 1 /\ a[1] = body
    BY <1>2
  <1>5. c = a \o b
    <2>1. /\ a \o b \in Seq(S) /\ Len(a \o b) = Len(a) + Len(b)
          /\ \A k \in 1..Len(a) + Len(b) :
                (a \o b)[k] = IF k <= Len(a) THEN a[k] ELSE b[k - Len(a)]
      <3> HIDE DEF a, b, S
      <3> QED  BY <1>3, <1>4, ConcatProperties
    <2>2. ASSUME NEW k \in 1..(n - i) + 1
          PROVE  c[k] = IF k <= 1 THEN a[k] ELSE b[k - 1]
      <3>1. c[k] = document.headings[(i + k) - 1].body
        BY <1>1, <1>2 DEF BodyParts
      <3>2. CASE k = 1
        <4>1. (i + k) - 1 = i /\ k <= 1
          BY <1>2, <3>2
        <4> QED  BY <1>4, <3>1, <3>2, <4>1
      <3>3. CASE k # 1
        <4> DEFINE l == k - 1
        <4>1. l \in 1..n - i /\ ((i + 1) + l) - 1 = (i + k) - 1 /\ ~(k <= 1)
          BY <1>1, <1>2, <3>3
        <4>2. b[l] = document.headings[((i + 1) + l) - 1].body
          <5> HIDE DEF l
          <5>1. n + 1 - (i + 1) = n - i
            <6>1. n \in Nat /\ i \in Nat
              BY <1>1, <1>2
            <6> HIDE DEF n
            <6> QED  BY <6>1
          <5>2. l \in 1..n + 1 - (i + 1)
            BY <4>1, <5>1
          <5> QED  BY <5>2 DEF BodyParts
        <4> QED  BY <3>1, <4>1, <4>2
      <3> QED  BY <3>2, <3>3
    <2>3. Len(a) + Len(b) = (n - i) + 1 /\ Len(c) = (n - i) + 1 /\ Len(a) = 1
      <3>1. n \in Nat /\ i \in Nat
        BY <1>1, <1>2
      <3> HIDE DEF n, a, b, c
      <3> QED  BY <1>3, <1>4, <3>1
    <2> HIDE DEF a, b, c, S
    <2>4. \A k \in 1..(n - i) + 1 : c[k] = (a \o b)[k]
      BY <2>1, <2>2, <2>3
    <2> QED  BY <1>3, <2>1, <2>3, <2>4, SeqEqual
  <1>6. FlattenSeq(a \o b) = FlattenSeq(a) \o FlattenSeq(b)
    <2>1. a \in Seq(Seq(Words)) /\ b \in Seq(Seq(Words))
      BY <1>3, <1>4
    <2> HIDE DEF a, b, S
    <2> QED  BY <2>1, FlattenConcat
  <1>7. FlattenSeq(a) = body
    BY <1>2, FlattenOne
  <1> QED  BY <1>2, <1>3, <1>5, <1>6, <1>7

LEMMA BodyFields ==
    ASSUME document \in Documents
    PROVE  /\ IsBody(document.preamble, 0)
           /\ \A h \in DOMAIN document.headings : IsBody(document.headings[h].body, h)
  BY ChunkerAssumption

(* A body says no word twice, and its fenced blocks lie in one piece.      *)
LEMMA BodySaysOnce ==
    ASSUME NEW text, NEW h \in Nat, IsBody(text, h)
    PROVE  SaysOnce(text)
  <1>1. text \in Seq(Words) /\ Len(text) \in Nat /\ DOMAIN text = 1..Len(text)
    BY LenProperties DEF IsBody
  <1> SUFFICES ASSUME NEW i \in DOMAIN text, NEW j \in DOMAIN text, text[i] = text[j], i # j
               PROVE  FALSE
    BY DEF SaysOnce
  <1>2. i < j \/ j < i
    BY <1>1
  <1> QED  BY <1>2 DEF IsBody

(* From a heading on, each word is said once, under that heading or later. *)
SaidFrom(i) ==
    /\ SaysOnce(BodiesFrom(i))
    /\ \A w \in ToSet(BodiesFrom(i)) :
        /\ w.heading \in i..Len(document.headings)
        /\ w \in ToSet(document.headings[w.heading].body)
        /\ w.line # 0

LEMMA BodiesAreSaidOnce ==
    ASSUME document \in Documents
    PROVE  SaidFrom(1)
  <1> DEFINE n == Len(document.headings)
             T == {k \in 0..n : SaidFrom(n + 1 - k)}
  <1>1. /\ n \in Nat /\ DOMAIN document.headings = 1..n
        /\ \A h \in 1..n : IsBody(document.headings[h].body, h)
    BY HeadingFields, BodyFields
  <1>2. 0 \in T
    <2>1. n + 1 - 0 = n + 1 /\ BodiesFrom(n + 1) = << >>
      BY <1>1, NoBodyIsLeft
    <2>2. SaidFrom(n + 1)
      BY <2>1 DEF SaidFrom, SaysOnce, ToSet
    <2> QED  BY <1>1, <2>1, <2>2
  <1>3. ASSUME NEW k \in 1..n, k - 1 \in T
        PROVE  k \in T
    <2> DEFINE i == n + 1 - k
               body == document.headings[i].body
    <2>1. i \in 1..n /\ i + 1 = n + 1 - (k - 1) /\ k \in 0..n
      BY <1>1
    <2>2. SaidFrom(i + 1)
      <3>1. SaidFrom(n + 1 - (k - 1))
        BY <1>3
      <3> HIDE DEF i
      <3> QED  BY <2>1, <3>1
    <2> HIDE DEF i
    <2>3. /\ body \in Seq(Words) /\ BodiesFrom(i + 1) \in Seq(Words)
          /\ BodiesFrom(i) = body \o BodiesFrom(i + 1)
      BY <2>1, NextBody
    <2>4. IsBody(body, i) /\ SaysOnce(body)
      BY <1>1, <2>1, BodySaysOnce
    <2>5. \A w \in ToSet(body) : w.heading = i /\ w.line # 0 /\ w \in Words
      <3>1. \A j \in DOMAIN body : body[j].heading = i /\ body[j].line > 1 /\ body[j] \in Words
        BY <2>3, <2>4, LenProperties DEF IsBody
      <3> QED  BY <3>1 DEF ToSet, Words
    <2> HIDE DEF body
    <2>6. \A w \in ToSet(BodiesFrom(i + 1)) : w.heading \in i + 1..n
      BY <2>2 DEF SaidFrom
    <2>7. ToSet(body) \cap ToSet(BodiesFrom(i + 1)) = {}
      <3>1. i \notin i + 1..n
        BY <1>1, <2>1
      <3> QED  BY <2>5, <2>6, <3>1
    <2>8. SaysOnce(BodiesFrom(i))
      BY <2>2, <2>3, <2>4, <2>7, SaysOnceConcat DEF SaidFrom
    <2>9. ASSUME NEW w \in ToSet(BodiesFrom(i))
          PROVE  /\ w.heading \in i..n
                 /\ w \in ToSet(document.headings[w.heading].body)
                 /\ w.line # 0
      <3>1. CASE w \in ToSet(body)
        BY <1>1, <2>1, <2>5, <3>1 DEF body
      <3>2. CASE w \in ToSet(BodiesFrom(i + 1))
        <4>1. w.heading \in i + 1..n => w.heading \in i..n
          BY <1>1, <2>1
        <4> QED  BY <2>2, <3>2, <4>1 DEF SaidFrom
      <3>3. ToSet(BodiesFrom(i)) = ToSet(body) \cup ToSet(BodiesFrom(i + 1))
        BY <2>3, ConcatWords
      <3> QED  BY <3>1, <3>2, <3>3
    <2>10. SaidFrom(i)
      BY <2>8, <2>9 DEF SaidFrom
    <2> QED  BY <2>1, <2>10 DEF i
  <1>4. n \in T
    <2> HIDE DEF T
    <2> QED  BY <1>1, <1>2, <1>3, CountingUp
  <1>5. n + 1 - n = 1
    BY <1>1
  <1> QED  BY <1>4, <1>5

(* A file says each of its words once.                                     *)
LEMMA FileSaysOnce ==
    ASSUME document \in Documents
    PROVE  /\ Said \in Seq(Words) /\ SaysOnce(Said)
           /\ ToSet(Said) \subseteq SaidWords
  <1>1. /\ document.preamble \in Seq(Words) /\ Len(document.headings) \in Nat
        /\ DOMAIN document.headings = 1..Len(document.headings)
        /\ 1 \in 1..Len(document.headings) + 1
    BY DocumentFields, HeadingFields
  <1>2. BodiesFrom(1) \in Seq(Words)
    BY <1>1, BodyPartsAreTexts
  <1>3. SaidFrom(1)
    BY BodiesAreSaidOnce
  <1>4. SaysOnce(document.preamble)
    BY BodyFields, BodySaysOnce
  <1>5. \A w \in ToSet(document.preamble) : w.heading = 0
    BY BodyFields DEF IsBody, ToSet
  <1>6. \A w \in ToSet(BodiesFrom(1)) : w.heading # 0
    BY <1>1, <1>3 DEF SaidFrom
  <1>7. ToSet(document.preamble) \cap ToSet(BodiesFrom(1)) = {}
    BY <1>5, <1>6
  <1>8. ToSet(Said) = ToSet(document.preamble) \cup ToSet(BodiesFrom(1))
    BY <1>1, <1>2, ConcatWords DEF Said
  <1>9. SaysOnce(Said)
    BY <1>1, <1>2, <1>3, <1>4, <1>7, SaysOnceConcat DEF SaidFrom, Said
  <1>10. Said \in Seq(Words)
    BY <1>1, <1>2, ConcatProperties DEF Said
  <1>11. ToSet(BodiesFrom(1)) \subseteq SaidWords
    BY <1>1, <1>3 DEF SaidFrom, SaidWords
  <1> QED  BY <1>8, <1>9, <1>10, <1>11 DEF SaidWords

-----------------------------------------------------------------------------
(* The headings around a heading.                                          *)

(* There is one way to list a set of numbers in order.                     *)
LEMMA AscendingIsOne ==
    ASSUME NEW s \in Seq(Nat), NEW t \in Seq(Nat), Ascending(s), Ascending(t),
           ToSet(s) = ToSet(t)
    PROVE  s = t
  <1>1. /\ Len(s) \in Nat /\ Len(t) \in Nat /\ DOMAIN s = 1..Len(s) /\ DOMAIN t = 1..Len(t)
        /\ \A i \in DOMAIN s : s[i] \in Nat
        /\ \A i \in DOMAIN t : t[i] \in Nat
    BY LenProperties
  <1>2. /\ \A i \in DOMAIN s : \E j \in DOMAIN t : t[j] = s[i]
        /\ \A i \in DOMAIN t : \E j \in DOMAIN s : s[j] = t[i]
    BY DEF ToSet
  <1> DEFINE Differ == {i \in DOMAIN s : i \notin DOMAIN t \/ s[i] # t[i]}
  <1>3. Differ = {}
    <2> SUFFICES ASSUME Differ # {}
                 PROVE  FALSE
      OBVIOUS
    <2>1. Differ \subseteq Nat
      BY <1>1
    <2>2. PICK i \in Differ : \A j \in Differ : i <= j
      <3> HIDE DEF Differ
      <3> QED  BY <2>1, LeastIndex
    <2>3. i \in DOMAIN s /\ i \in Nat
      BY <1>1
    <2>4. \A j \in DOMAIN s : j < i => j \in DOMAIN t /\ s[j] = t[j]
      <3> SUFFICES ASSUME NEW j \in DOMAIN s, j < i
                   PROVE  j \notin Differ
        OBVIOUS
      <3> HIDE DEF Differ
      <3> QED  BY <1>1, <2>2, <2>3
    <2>5. PICK m \in DOMAIN t : t[m] = s[i]
      BY <1>2, <2>3
    <2>6. ~(m < i)
      <3> SUFFICES ASSUME m < i
                   PROVE  FALSE
        OBVIOUS
      <3>1. m \in DOMAIN s
        BY <1>1, <2>3
      <3>2. s[m] = t[m] /\ s[m] < s[i]
        BY <2>3, <2>4, <3>1 DEF Ascending
      <3> QED  BY <1>1, <2>3, <2>5, <3>1, <3>2
    <2>7. i \in DOMAIN t /\ i # m
      <3>1. i \in DOMAIN t
        BY <1>1, <2>3, <2>6
      <3>2. s[i] # t[i]
        BY <2>2, <3>1
      <3> QED  BY <2>5, <3>1, <3>2
    <2>8. t[i] < s[i]
      BY <1>1, <2>3, <2>5, <2>6, <2>7 DEF Ascending
    <2>9. PICK l \in DOMAIN s : s[l] = t[i]
      BY <1>2, <2>7
    <2>10. l < i
      <3> SUFFICES ASSUME ~(l < i)
                   PROVE  FALSE
        OBVIOUS
      <3>1. l = i \/ i < l
        BY <1>1, <2>3
      <3>2. s[i] <= s[l]
        BY <1>1, <2>3, <3>1 DEF Ascending
      <3> QED  BY <1>1, <2>3, <2>7, <2>8, <2>9, <3>2
    <2>11. t[l] = t[i] /\ l \in DOMAIN t
      BY <2>4, <2>9, <2>10
    <2>12. t[l] < t[i]
      BY <2>7, <2>10, <2>11 DEF Ascending
    <2> QED  BY <1>1, <2>7, <2>11, <2>12
  <1>4. \A i \in DOMAIN s : i \in DOMAIN t /\ s[i] = t[i]
    BY <1>3
  <1>5. Len(s) = Len(t)
    <2>1. Len(s) <= Len(t)
      <3>1. CASE Len(s) = 0
        BY <1>1, <3>1
      <3>2. CASE Len(s) # 0
        <4>1. Len(s) \in DOMAIN s
          BY <1>1, <3>2
        <4> QED  BY <1>1, <1>4, <4>1
      <3> QED  BY <3>1, <3>2
    <2>2. ~(Len(s) < Len(t))
      <3> SUFFICES ASSUME Len(s) < Len(t)
                   PROVE  FALSE
        OBVIOUS
      <3> DEFINE e == Len(s) + 1
      <3>1. e \in DOMAIN t
        BY <1>1
      <3>2. PICK l \in DOMAIN s : s[l] = t[e]
        BY <1>2, <3>1
      <3>3. l < e /\ l \in DOMAIN t /\ t[l] = t[e]
        <4>1. l < e
          BY <1>1, <3>2
        <4> HIDE DEF e
        <4> QED  BY <1>4, <3>2, <4>1
      <3> HIDE DEF e
      <3>4. t[l] < t[e] /\ t[e] \in Nat
        BY <1>1, <3>1, <3>3 DEF Ascending
      <3> QED  BY <3>3, <3>4
    <2>3. Len(s) \in Nat /\ Len(t) \in Nat
      BY <1>1
    <2> QED  BY <2>1, <2>2, <2>3
  <1> QED  BY <1>1, <1>4, <1>5, SeqEqual

LEMMA AscendingGrows ==
    ASSUME NEW s \in Seq(Nat), Ascending(s), NEW i \in Nat, ToSet(s) \subseteq 1..i
    PROVE  Len(s) <= i
  <1>1. Len(s) \in Nat /\ DOMAIN s = 1..Len(s) /\ \A k \in 1..Len(s) : s[k] \in 1..i
    BY LenProperties DEF ToSet
  <1> DEFINE T == {k \in 0..Len(s) : k = 0 \/ k <= s[k]}
  <1>2. 0 \in T
    BY <1>1
  <1>3. ASSUME NEW k \in 1..Len(s), k - 1 \in T
        PROVE  k \in T
    <2>1. CASE k = 1
      BY <1>1, <2>1
    <2>2. CASE k # 1
      <3>1. k - 1 \in 1..Len(s) /\ k - 1 < k /\ k - 1 <= s[k - 1]
        BY <1>1, <1>3, <2>2
      <3>2. s[k - 1] < s[k]
        BY <1>1, <3>1 DEF Ascending
      <3>3. k <= s[k]
        BY <1>1, <3>1, <3>2
      <3> QED  BY <1>1, <3>3
    <2> QED  BY <2>1, <2>2
  <1>4. Len(s) \in T
    <2> HIDE DEF T
    <2> QED  BY <1>1, <1>2, <1>3, CountingUp
  <1>5. CASE Len(s) = 0
    BY <1>5
  <1>6. CASE Len(s) # 0
    <2>1. Len(s) \in 1..Len(s) /\ Len(s) <= s[Len(s)]
      BY <1>1, <1>4, <1>6
    <2> QED  BY <1>1, <2>1
  <1> QED  BY <1>5, <1>6

(* The headings around the i-th, in whichever way they are found.          *)
LEMMA AroundIs ==
    ASSUME NEW i \in Nat, NEW s, AreAround(s, i)
    PROVE  Around(i) = s
  <1> DEFINE P(r) == ToSet(r) = Open(i) /\ \A k, l \in DOMAIN r : k < l => r[k] < r[l]
  <1>1. /\ s \in Seq(Nat) /\ Ascending(s) /\ ToSet(s) = Open(i)
        /\ Open(i) \subseteq 1..i /\ Len(s) \in Nat
    BY LenProperties DEF AreAround, Open
  <1>2. Len(s) \in 0..i
    BY <1>1, AscendingGrows
  <1>3. s \in [1..Len(s) -> Open(i)]
    <2>1. DOMAIN s = 1..Len(s) /\ s \in [1..Len(s) -> Nat]
      BY <1>1, LenProperties
    <2>2. \A k \in 1..Len(s) : s[k] \in Open(i)
      BY <1>1, <2>1 DEF ToSet
    <2> QED  BY <2>1, <2>2
  <1>4. s \in SeqOf(Open(i), i)
    BY <1>2, <1>3 DEF SeqOf
  <1>5. P(s)
    BY <1>1 DEF Ascending
  <1>6. Around(i) = CHOOSE r \in SeqOf(Open(i), i) : P(r)
    BY DEF Around, Open
  <1>7. PICK r \in SeqOf(Open(i), i) : P(r) /\ Around(i) = r
    <2> HIDE DEF P
    <2> QED  BY <1>4, <1>5, <1>6
  <1>8. r \in Seq(Nat)
    <2>1. PICK n \in 0..i : r \in [1..n -> Open(i)]
      BY <1>7 DEF SeqOf
    <2>2. r \in [1..n -> Nat] /\ n \in Nat
      BY <1>1, <2>1
    <2> QED  BY <2>2, SeqDef
  <1>9. Ascending(r) /\ ToSet(r) = ToSet(s)
    BY <1>1, <1>7 DEF Ascending
  <1> QED  BY <1>1, <1>7, <1>8, <1>9, AscendingIsOne

(* The path of the headings around one is its path.                        *)
LEMMA PathIsOfNames ==
    ASSUME document \in Documents, NEW i \in 1..Len(document.headings), NEW s, AreAround(s, i)
    PROVE  PathTo(MarksOf(s)) = Paths[i]
  <1>1. Around(i) = s /\ i # 0 /\ s \in Seq(Nat)
    BY HeadingFields, AroundIs DEF AreAround
  <1> DEFINE a == MarksOf(s)
             b == [k \in DOMAIN s |-> document.headings[s[k]]]
  <1>2. DOMAIN a = DOMAIN s /\ DOMAIN b = DOMAIN s
    BY DEF MarksOf
  <1>3. \A k \in DOMAIN s : a[k].name = b[k].name
    BY DEF MarksOf
  <1>4. Paths[i] = PathTo(b)
    BY <1>1, HeadingFields DEF Paths, PathOf
  <1> HIDE DEF a, b
  <1>5. [k \in DOMAIN a |-> a[k].name] = [k \in DOMAIN b |-> b[k].name]
    BY <1>2, <1>3
  <1> QED  BY <1>4, <1>5 DEF PathTo, a

(* A heading closes those of its level and below.                          *)
LEMMA OpenAfter ==
    ASSUME document \in Documents, NEW i \in 1..Len(document.headings)
    PROVE  Open(i) = {i} \cup {j \in Open(i - 1) :
                        document.headings[j].level < document.headings[i].level}
  <1> DEFINE L(j) == document.headings[j].level
             R == {j \in Open(i - 1) : L(j) < L(i)}
  <1>1. i \in Nat /\ 1 <= i
    BY HeadingFields
  <1>2. i \in Open(i)
    <2>1. i \in 1..i /\ i + 1..i = {}
      BY <1>1
    <2> QED  BY <2>1 DEF Open
  <1>3. ASSUME NEW j \in Open(i), j # i
        PROVE  j \in R
    <2>1. j \in 1..i - 1 /\ i \in j + 1..i /\ j + 1..i - 1 \subseteq j + 1..i
      BY <1>1, <1>3 DEF Open
    <2>2. \A k \in j + 1..i : L(j) < L(k)
      BY DEF Open
    <2> QED  BY <2>1, <2>2 DEF Open
  <1>4. ASSUME NEW j \in R
        PROVE  j \in Open(i)
    <2>1. j \in 1..i - 1 /\ (\A k \in j + 1..i - 1 : L(j) < L(k)) /\ L(j) < L(i)
      BY DEF Open
    <2>2. \A k \in j + 1..i : k \in j + 1..i - 1 \/ k = i
      BY <1>1, <2>1
    <2>3. j \in 1..i
      BY <1>1, <2>1
    <2> HIDE DEF L
    <2>4. \A k \in j + 1..i : L(j) < L(k)
      BY <2>1, <2>2
    <2> QED  BY <2>3, <2>4 DEF Open, L
  <1> HIDE DEF L
  <1>5. Open(i) = {i} \cup R
    <2> HIDE DEF R
    <2> QED  BY <1>2, <1>3, <1>4
  <1> QED  BY <1>5 DEF L

(* The stack is the headings around the one that was read.                 *)
LEMMA StackGrows ==
    ASSUME document \in Documents, next \in 1..Len(document.headings), StackFits,
           NEW n \in 0..Len(stack), Encloses(n, document.headings[next]),
           NEW mark, mark = [level |-> document.headings[next].level,
                             name |-> document.headings[next].name]
    PROVE  \E s : AreAround(s, next) /\ Append(SubSeq(stack, 1, n), mark) = MarksOf(s)
  <1> DEFINE L(j) == document.headings[j].level
  <1>1. PICK r : AreAround(r, next - 1) /\ stack = MarksOf(r)
    BY DEF StackFits
  <1>2. /\ r \in Seq(Nat) /\ ToSet(r) = Open(next - 1) /\ Ascending(r)
        /\ Len(r) \in Nat /\ DOMAIN r = 1..Len(r) /\ \A k \in 1..Len(r) : r[k] \in Nat
    BY <1>1, LenProperties DEF AreAround
  <1>3. next \in Nat /\ 1 <= next /\ Len(document.headings) \in Nat
        /\ \A j \in 1..Len(document.headings) : L(j) \in 1..6 /\ L(j) \in Nat
    BY HeadingFields
  <1>4. \A k \in 1..Len(r) : /\ r[k] \in 1..next - 1 /\ r[k] < next
                             /\ r[k] \in 1..Len(document.headings)
                             /\ r[k] \in Open(next - 1)
    <2> SUFFICES ASSUME NEW k \in 1..Len(r)
                 PROVE  /\ r[k] \in 1..next - 1 /\ r[k] < next
                        /\ r[k] \in 1..Len(document.headings)
                        /\ r[k] \in Open(next - 1)
      OBVIOUS
    <2>1. r[k] \in Open(next - 1)
      BY <1>2 DEF ToSet
    <2>2. r[k] \in 1..next - 1
      BY <2>1 DEF Open
    <2> HIDE DEF L
    <2> QED  BY <1>3, <2>1, <2>2
  <1>5. /\ stack \in [1..Len(r) -> [level : 1..6, name : Names]]
        /\ \A k \in 1..Len(r) : stack[k].level = L(r[k])
    BY <1>1, <1>2, <1>4, HeadingFields DEF MarksOf
  <1>6. stack \in Seq([level : 1..6, name : Names]) /\ Len(stack) = Len(r)
    <2> DEFINE M == [level : 1..6, name : Names]
               m == Len(r)
    <2>1. stack \in [1..m -> M] /\ m \in Nat
      BY <1>2, <1>5
    <2> HIDE DEF M, m
    <2>2. stack \in Seq(M) /\ Len(stack) = m
      BY <2>1, SeqDef
    <2> QED  BY <2>2 DEF M, m
  <1>7. \A k, l \in 1..Len(r) : k < l => L(r[k]) < L(r[l])
    <2> SUFFICES ASSUME NEW k \in 1..Len(r), NEW l \in 1..Len(r), k < l
                 PROVE  L(r[k]) < L(r[l])
      OBVIOUS
    <2>1. r[k] < r[l]
      BY <1>2 DEF Ascending
    <2>2. r[l] \in r[k] + 1..next - 1
      BY <1>2, <1>3, <1>4, <2>1
    <2> QED  BY <1>4, <2>2 DEF Open
  <1>71. next \in 1..Len(document.headings)
    OBVIOUS
  <1>8. /\ n > 0 => stack[n].level < L(next)
        /\ \A k \in n + 1..Len(stack) : stack[k].level >= L(next)
    BY DEF Encloses
  <1> HIDE DEF L
  <1>9. \A k \in 1..Len(r) : L(r[k]) < L(next) <=> k <= n
    <2> SUFFICES ASSUME NEW k \in 1..Len(r)
                 PROVE  L(r[k]) < L(next) <=> k <= n
      OBVIOUS
    <2>1. CASE k <= n
      <3>1. n \in 1..Len(r) /\ L(r[n]) < L(next) /\ (k = n \/ k < n)
        <4>1. n \in 1..Len(r) /\ n > 0 /\ (k = n \/ k < n)
          BY <1>2, <1>6, <2>1
        <4> QED  BY <1>5, <1>8, <4>1
      <3>2. L(r[k]) <= L(r[n])
        <4>1. L(r[k]) \in Nat /\ L(r[n]) \in Nat
          BY <1>3, <1>4, <3>1
        <4> QED  BY <1>7, <3>1, <4>1
      <3>3. L(r[k]) \in Nat /\ L(r[n]) \in Nat /\ L(next) \in Nat
        BY <1>3, <1>4, <1>71, <3>1
      <3> HIDE DEF L
      <3> QED  BY <2>1, <3>1, <3>2, <3>3
    <2>2. CASE ~(k <= n)
      <3>1. k \in n + 1..Len(stack)
        BY <1>2, <1>6, <2>2
      <3>2. L(r[k]) >= L(next) /\ L(r[k]) \in Nat /\ L(next) \in Nat
        <4>1. stack[k].level >= L(next)
          BY <1>8, <3>1
        <4>2. stack[k].level = L(r[k]) /\ L(r[k]) \in Nat
          BY <1>3, <1>4, <1>5
        <4> QED  BY <1>3, <1>71, <4>1, <4>2
      <3> HIDE DEF L
      <3> QED  BY <2>2, <3>2
    <2> QED  BY <2>1, <2>2
  <1> DEFINE a == SubSeq(r, 1, n)
             s == Append(a, next)
  <1>10. n \in Nat /\ n <= Len(r)
    BY <1>2, <1>6
  <1>11. a \in Seq(Nat) /\ Len(a) = n /\ \A k \in 1..n : a[k] = r[k]
    <2>1. /\ 1 \in Int /\ n \in Int /\ \A k \in 1..n : r[k] \in Nat
      BY <1>2, <1>10
    <2>2. /\ a \in Seq(Nat) /\ Len(a) = IF 1 <= n THEN (n - 1) + 1 ELSE 0
          /\ \A k \in 1..(n - 1) + 1 : a[k] = r[(1 + k) - 1]
      BY <2>1, SubSeqProperties
    <2> HIDE DEF a
    <2> QED  BY <1>10, <2>2
  <1> HIDE DEF a
  <1>12. /\ s \in Seq(Nat) /\ Len(s) = n + 1 /\ DOMAIN s = 1..n + 1
         /\ (\A k \in 1..n : s[k] = r[k]) /\ s[n + 1] = next
    <2>1. /\ s \in Seq(Nat) /\ Len(s) = n + 1
          /\ (\A k \in 1..n : s[k] = a[k]) /\ s[n + 1] = next
      BY <1>3, <1>11, AppendProperties
    <2> HIDE DEF s
    <2> QED  BY <1>11, <2>1, LenProperties
  <1> HIDE DEF s
  <1>13. ToSet(s) = Open(next)
    <2>1. Open(next) = {next} \cup {j \in Open(next - 1) : L(j) < L(next)}
      BY <1>71, OpenAfter DEF L
    <2>2. ASSUME NEW k \in 1..n + 1
          PROVE  s[k] \in Open(next)
      <3>1. CASE k = n + 1
        BY <1>12, <2>1, <3>1
      <3>2. CASE k # n + 1
        <4>1. k \in 1..n /\ k \in 1..Len(r) /\ k <= n
          BY <1>2, <1>10, <3>2
        <4> HIDE DEF L
        <4>2. s[k] = r[k] /\ r[k] \in Open(next - 1) /\ L(r[k]) < L(next)
          BY <1>4, <1>9, <1>12, <4>1
        <4> QED  BY <2>1, <4>2
      <3> QED  BY <3>1, <3>2
    <2>3. ASSUME NEW j \in Open(next)
          PROVE  \E k \in 1..n + 1 : s[k] = j
      <3>1. CASE j = next
        BY <1>10, <1>12, <3>1
      <3>2. CASE j # next
        <4> HIDE DEF L
        <4>1. j \in ToSet(r) /\ L(j) < L(next)
          BY <1>2, <2>1, <3>2
        <4>2. PICK k \in 1..Len(r) : r[k] = j
          BY <1>2, <4>1 DEF ToSet
        <4>3. k \in 1..n
          BY <1>2, <1>9, <1>10, <4>1, <4>2
        <4>4. k \in 1..n + 1 /\ s[k] = j
          BY <1>10, <1>12, <4>2, <4>3
        <4> QED  BY <4>4
      <3> QED  BY <3>1, <3>2
    <2> QED  BY <1>12, <2>2, <2>3 DEF ToSet
  <1>14. Ascending(s)
    <2> SUFFICES ASSUME NEW k \in 1..n + 1, NEW l \in 1..n + 1, k < l
                 PROVE  s[k] < s[l]
      BY <1>12 DEF Ascending
    <2>1. k \in 1..n /\ k \in 1..Len(r)
      BY <1>2, <1>10
    <2>2. CASE l = n + 1
      BY <1>4, <1>12, <2>1, <2>2
    <2>3. CASE l # n + 1
      <3>1. l \in 1..n /\ l \in DOMAIN r /\ k \in DOMAIN r
        BY <1>2, <1>10, <2>1, <2>3
      <3> QED  BY <1>2, <1>12, <2>1, <3>1 DEF Ascending
    <2> QED  BY <2>2, <2>3
  <1>15. Append(SubSeq(stack, 1, n), mark) = MarksOf(s)
    <2> DEFINE M == [level : 1..6, name : Names]
               b == SubSeq(stack, 1, n)
    <2>1. b \in Seq(M) /\ Len(b) = n /\ \A k \in 1..n : b[k] = stack[k]
      <3>1. /\ 1 \in Int /\ n \in Int /\ \A k \in 1..n : stack[k] \in M
        BY <1>2, <1>5, <1>10
      <3>2. /\ b \in Seq(M) /\ Len(b) = IF 1 <= n THEN (n - 1) + 1 ELSE 0
            /\ \A k \in 1..(n - 1) + 1 : b[k] = stack[(1 + k) - 1]
        <4> HIDE DEF M
        <4> QED  BY <3>1, SubSeqProperties
      <3> HIDE DEF b, M
      <3> QED  BY <1>10, <3>2
    <2>2. mark \in M
      BY HeadingFields
    <2> HIDE DEF b, M
    <2>3. /\ Append(b, mark) \in Seq(M) /\ Len(Append(b, mark)) = n + 1
          /\ (\A k \in 1..n : Append(b, mark)[k] = b[k]) /\ Append(b, mark)[n + 1] = mark
      BY <2>1, <2>2, AppendProperties
    <2>4. ASSUME NEW k \in 1..n + 1
          PROVE  Append(b, mark)[k] = MarksOf(s)[k]
      <3>1. MarksOf(s)[k] = [level |-> document.headings[s[k]].level,
                             name |-> document.headings[s[k]].name]
        BY <1>12 DEF MarksOf
      <3>2. CASE k = n + 1
        BY <1>12, <2>3, <3>1, <3>2
      <3>3. CASE k # n + 1
        <4>1. k \in 1..n /\ k \in DOMAIN r
          BY <1>2, <1>10, <3>3
        <4>2. MarksOf(r)[k] = [level |-> document.headings[r[k]].level,
                               name |-> document.headings[r[k]].name]
          BY <4>1 DEF MarksOf
        <4> QED  BY <1>1, <1>12, <2>1, <2>3, <3>1, <4>1, <4>2
      <3> QED  BY <3>2, <3>3
    <2>5. DOMAIN MarksOf(s) = 1..n + 1
      BY <1>12 DEF MarksOf
    <2>6. MarksOf(s) = [k \in 1..n + 1 |-> MarksOf(s)[k]]
      BY <2>5 DEF MarksOf
    <2>7. Append(b, mark) = [k \in 1..n + 1 |-> Append(b, mark)[k]]
      <3>1. Append(b, mark) \in [1..n + 1 -> M]
        BY <2>3, LenProperties
      <3> QED  BY <3>1
    <2>8. Append(b, mark) = MarksOf(s)
      BY <2>4, <2>6, <2>7
    <2> QED  BY <2>8 DEF b
  <1>16. AreAround(s, next)
    BY <1>12, <1>13, <1>14 DEF AreAround
  <1> QED  BY <1>15, <1>16

LEMMA FileStands ==
    ASSUME document' = document
    PROVE  /\ SaidWords' = SaidWords
           /\ ToldWords' = ToldWords
           /\ Paths' = Paths
           /\ Said' = Said
           /\ BodiesFrom(next)' = BodiesFrom(next')
  <1>1. SaidWords' = SaidWords
    BY DEF SaidWords
  <1>2. Paths' = Paths
    BY DEF Paths, PathOf, PathTo, Around, Title
  <1>3. Said' = Said
    BY DEF Said, BodiesFrom
  <1>4. BodiesFrom(next)' = BodiesFrom(next')
    BY DEF BodiesFrom
  <1>5. ToldWords' = ToldWords
    BY DEF ToldWords, ReadsAlike, EndsWhereRead, Block, Body
  <1> QED  BY <1>1, <1>2, <1>3, <1>4, <1>5

(* Said of the texts that there are after a step, in the file as it was.   *)
LEMMA TextsRestated ==
    ASSUME document' = document, configuration' = configuration,
           \A i \in DOMAIN sections' : AsRead(sections'[i]),
           \A i \in DOMAIN merged' : IsMerged(merged'[i]),
           phase' \in {"packing", "breaking"} => AsRead(section'),
           phase' # "breaking" => paragraph' = << >>,
           phase' \notin {"packing", "breaking"} => current' = << >> /\ section'.text = << >>,
           IsBody(paragraph', section'.of), \A w \in ToSet(paragraph') : IsLoose(w),
           Whole(current'), \A w \in ToSet(current') : w.heading = section'.of,
           \E s : AreAround(s, next' - 1) /\ stack' = MarksOf(s),
           AllAreSound(bounded'), AllAreSound(chunks'),
           Written(UnderWay') = Said
    PROVE  TextsAreSound'
  <1>1. /\ SaidWords' = SaidWords /\ ToldWords' = ToldWords /\ Paths' = Paths /\ Said' = Said
    BY FileStands
  <1>2. (\A i \in DOMAIN sections : AsRead(sections[i]))'
    BY <1>1 DEF AsRead, Whole
  <1>3. (\A i \in DOMAIN merged : IsMerged(merged[i]))'
    BY <1>1 DEF IsMerged, IsSound, AsRead, Whole, Knows
  <1>4. PackingIsSound'
    BY <1>1 DEF PackingIsSound, AsRead, Whole, IsLoose
  <1>5. StackFits'
    BY DEF StackFits, AreAround, Open, MarksOf
  <1>6. AllAreSound(bounded)' /\ AllAreSound(chunks)'
    BY <1>1 DEF AllAreSound, IsSound, Whole, Knows
  <1>7. (Written(UnderWay) = Said)'
    BY <1>1
  <1> QED  BY <1>2, <1>3, <1>4, <1>5, <1>6, <1>7 DEF TextsAreSound

-----------------------------------------------------------------------------
(* Bodies and their parts.                                                 *)

LEMMA EmptyBody ==
    ASSUME NEW h
    PROVE  IsBody(<< >>, h) /\ Whole(<< >>)
  BY DEF IsBody, Whole, ToSet

LEMMA BodySlice ==
    ASSUME NEW text, NEW h, IsBody(text, h), NEW m \in Nat \ {0}, NEW n \in Nat,
           n <= Len(text)
    PROVE  /\ IsBody(SubSeq(text, m, n), h)
           /\ ToSet(SubSeq(text, m, n)) \subseteq ToSet(text)
  <1> DEFINE s == SubSeq(text, m, n)
  <1>1. text \in Seq(Words) /\ Len(text) \in Nat /\ DOMAIN text = 1..Len(text)
        /\ \A i \in 1..Len(text) : text[i] \in Words
    BY LenProperties DEF IsBody
  <1>2. /\ s \in Seq(Words)
        /\ Len(s) = IF m <= n THEN (n - m) + 1 ELSE 0
        /\ \A i \in 1..(n - m) + 1 : s[i] = text[(m + i) - 1]
    <2>1. m \in Int /\ n \in Int /\ \A i \in m..n : text[i] \in Words
      BY <1>1
    <2> QED  BY <2>1, SubSeqProperties
  <1> HIDE DEF s
  <1>3. DOMAIN s = 1..Len(s)
    BY <1>2, LenProperties
  <1>4. \A i \in DOMAIN s : /\ (m + i) - 1 \in DOMAIN text
                            /\ s[i] = text[(m + i) - 1]
    BY <1>1, <1>2, <1>3
  <1>5. ASSUME NEW i \in DOMAIN s, NEW j \in DOMAIN s, i < j
        PROVE  /\ s[i] # s[j]
               /\ s[i].line <= s[j].line
               /\ s[i].line = s[j].line =>
                    s[i].marker = s[j].marker /\ s[i].block = s[j].block
               /\ s[j].block > 0 => s[i].block <= s[j].block
               /\ s[i].block > 0 /\ s[i].block = s[j].block =>
                    \A g \in i..j : s[g].block = s[i].block
    <2> DEFINE k == (m + i) - 1
               l == (m + j) - 1
    <2>1. k \in DOMAIN text /\ l \in DOMAIN text /\ s[i] = text[k] /\ s[j] = text[l]
      BY <1>4
    <2>2. k < l
      BY <1>3, <1>5, <1>2
    <2>3. \A g \in i..j : s[g] = text[(m + g) - 1] /\ (m + g) - 1 \in k..l
      BY <1>3, <1>4, <1>5, <1>2
    <2> HIDE DEF k, l
    <2> QED  BY <2>1, <2>2, <2>3 DEF IsBody
  <1>6. ASSUME NEW i \in DOMAIN s
        PROVE  s[i].heading = h /\ s[i].line > 1 /\ s[i] \in ToSet(text)
    <2> DEFINE k == (m + i) - 1
    <2>1. k \in DOMAIN text /\ s[i] = text[k]
      BY <1>4
    <2> HIDE DEF k
    <2> QED  BY <2>1 DEF IsBody, ToSet
  <1>7. IsBody(s, h)
    BY <1>2, <1>5, <1>6 DEF IsBody
  <1>8. ToSet(s) \subseteq ToSet(text)
    BY <1>6 DEF ToSet
  <1> QED  BY <1>7, <1>8 DEF s

LEMMA Cut ==
    ASSUME NEW S, NEW text \in Seq(S), NEW n \in 1..Len(text)
    PROVE  /\ SubSeq(text, 1, n) \in Seq(S) /\ After(text, n) \in Seq(S)
           /\ text = SubSeq(text, 1, n) \o After(text, n)
           /\ ToSet(text) = ToSet(SubSeq(text, 1, n)) \cup ToSet(After(text, n))
           /\ Len(SubSeq(text, 1, n)) = n
           /\ \A i \in 1..n : SubSeq(text, 1, n)[i] = text[i]
  <1>1. Len(text) \in Nat /\ n \in Nat /\ 1 <= n /\ n <= Len(text)
        /\ \A i \in 1..Len(text) : text[i] \in S
    BY LenProperties
  <1>2. SubSeq(text, 1, n) \in Seq(S) /\ After(text, n) \in Seq(S)
    <2>1. /\ 1 \in Int /\ n \in Int /\ n + 1 \in Int /\ Len(text) \in Int
          /\ \A i \in 1..n : text[i] \in S
          /\ \A i \in n + 1..Len(text) : text[i] \in S
      BY <1>1
    <2> QED  BY <2>1, SubSeqProperties DEF After
  <1>3. text = SubSeq(text, 1, n) \o After(text, n)
    <2>1. 1 \in 1..Len(text) + 1 /\ n \in 1 - 1..Len(text) /\ Len(text) \in n..Len(text)
      BY <1>1
    <2> QED  BY <2>1, ConcatAdjacentSubSeq, SubSeqFull DEF After
  <1>4. ToSet(text) = ToSet(SubSeq(text, 1, n)) \cup ToSet(After(text, n))
    BY <1>2, <1>3, ConcatWords
  <1>5. /\ Len(SubSeq(text, 1, n)) = IF 1 <= n THEN (n - 1) + 1 ELSE 0
        /\ \A i \in 1..(n - 1) + 1 : SubSeq(text, 1, n)[i] = text[(1 + i) - 1]
    <2>1. /\ 1 \in Int /\ n \in Int /\ \A i \in 1..n : text[i] \in S
      BY <1>1
    <2> QED  BY <2>1, SubSeqProperties
  <1>6. Len(SubSeq(text, 1, n)) = n /\ \A i \in 1..n : SubSeq(text, 1, n)[i] = text[i]
    BY <1>1, <1>5
  <1> QED  BY <1>2, <1>3, <1>4, <1>6

LEMMA BodyHasHeading ==
    ASSUME NEW text, NEW h, IsBody(text, h)
    PROVE  \A w \in ToSet(text) : w.heading = h
  BY DEF IsBody, ToSet

(* Words of a body by their lines: a block is lines one after the other.   *)
LEMMA BodyLines ==
    ASSUME NEW text, NEW h, IsBody(text, h)
    PROVE  /\ \A u, v \in ToSet(text) : u.line = v.line =>
                u.marker = v.marker /\ u.block = v.block
           /\ \A u, v \in ToSet(text) : u.line < v.line /\ v.block > 0 =>
                u.block <= v.block
           /\ \A u, v, w \in ToSet(text) :
                u.line <= v.line /\ v.line <= w.line /\ u.block = w.block /\ u.block > 0 =>
                    v.block = u.block
  <1>1. DOMAIN text \subseteq Nat /\ \A i \in DOMAIN text : text[i] \in Words
    <2>1. text \in Seq(Words)
      BY DEF IsBody
    <2> QED  BY <2>1, LenProperties
  <1>2. \A i \in DOMAIN text : text[i].line \in Nat /\ text[i].block \in Nat
    BY <1>1 DEF Words
  <1>3. \A i, j \in DOMAIN text : text[i].line = text[j].line =>
            text[i].marker = text[j].marker /\ text[i].block = text[j].block
    <2> SUFFICES ASSUME NEW i \in DOMAIN text, NEW j \in DOMAIN text,
                        text[i].line = text[j].line
                 PROVE  text[i].marker = text[j].marker /\ text[i].block = text[j].block
      OBVIOUS
    <2>1. i < j \/ j < i \/ i = j
      BY <1>1
    <2> QED  BY <2>1 DEF IsBody
  <1>4. \A i, j \in DOMAIN text : text[i].line < text[j].line => i < j
    <2> SUFFICES ASSUME NEW i \in DOMAIN text, NEW j \in DOMAIN text,
                        text[i].line < text[j].line, ~(i < j)
                 PROVE  FALSE
      OBVIOUS
    <2>1. j < i \/ i = j
      BY <1>1
    <2>2. text[j].line <= text[i].line
      BY <2>1, <1>2 DEF IsBody
    <2> QED  BY <1>2, <2>2
  <1>5. ASSUME NEW i \in DOMAIN text, NEW j \in DOMAIN text, text[i].line < text[j].line,
               text[j].block > 0
        PROVE  text[i].block <= text[j].block
    BY <1>4, <1>5 DEF IsBody
  <1>6. ASSUME NEW i \in DOMAIN text, NEW k \in DOMAIN text, NEW j \in DOMAIN text,
               text[i].line <= text[k].line, text[k].line <= text[j].line,
               text[i].block = text[j].block, text[i].block > 0
        PROVE  text[k].block = text[i].block
    <2>1. CASE text[i].line = text[k].line \/ text[k].line = text[j].line
      BY <1>3, <1>6, <2>1
    <2>2. CASE text[i].line < text[k].line /\ text[k].line < text[j].line
      <3>1. i < k /\ k < j /\ k \in i..j /\ i < j
        BY <1>1, <1>4, <2>2
      <3> QED  BY <1>6, <3>1 DEF IsBody
    <2> QED  BY <1>2, <1>6, <2>1, <2>2
  <1> QED  BY <1>3, <1>5, <1>6 DEF ToSet

(* A nonempty set of indexes up to a bound has a greatest one.             *)
LEMMA GreatestIndex ==
    ASSUME NEW n \in Nat, NEW T, T \subseteq 1..n, T # {}
    PROVE  \E i \in T : \A j \in T : j <= i
  <1> DEFINE S == {k \in Nat : \E i \in T : k = n - i}
  <1>1. \A i \in T : i \in Nat /\ n - i \in S
    OBVIOUS
  <1>2. S \subseteq Nat /\ S # {}
    BY <1>1
  <1>3. PICK k \in S : \A l \in S : k <= l
    BY <1>2, LeastIndex
  <1>4. PICK i \in T : k = n - i
    BY <1>3
  <1>5. ASSUME NEW j \in T PROVE j <= i
    <2>1. k <= n - j
      BY <1>1, <1>3
    <2> QED  BY <1>1, <1>4, <2>1
  <1> QED  BY <1>5

(* What is said under a heading is its body.                               *)
LEMMA SaidUnder ==
    ASSUME document \in Documents, NEW v \in SaidWords
    PROVE  /\ IsBody(Body(v.heading), v.heading)
           /\ \A w \in SaidWords : w.heading = v.heading => w \in ToSet(Body(v.heading))
           /\ v \in Words /\ v.heading \in Nat /\ v.block \in Nat /\ v.line \in Nat
  <1>1. /\ IsBody(document.preamble, 0)
        /\ \A h \in DOMAIN document.headings : IsBody(document.headings[h].body, h)
    BY BodyFields
  <1>2. \A h \in DOMAIN document.headings : h # 0
    BY HeadingFields
  <1>3. \A w \in ToSet(document.preamble) : w.heading = 0
    BY <1>1, BodyHasHeading
  <1>4. \A h \in DOMAIN document.headings : \A w \in ToSet(document.headings[h].body) :
            w.heading = h
    BY <1>1, BodyHasHeading
  <1>5. \A w \in SaidWords :
            \/ w \in ToSet(document.preamble) /\ w.heading = 0
            \/ /\ w.heading \in DOMAIN document.headings
               /\ w \in ToSet(document.headings[w.heading].body)
    BY <1>3, <1>4 DEF SaidWords
  <1>6. \A w \in SaidWords : w \in ToSet(Body(w.heading)) /\ IsBody(Body(w.heading), w.heading)
    BY <1>1, <1>2, <1>5 DEF Body
  <1>7. v \in Words
    <2>1. Body(v.heading) \in Seq(Words) /\ v \in ToSet(Body(v.heading))
      BY <1>6 DEF IsBody
    <2> HIDE DEF Body
    <2> QED  BY <2>1 DEF ToSet
  <1> QED  BY <1>6, <1>7 DEF Words

LEMMA HeadingOfSaid ==
    ASSUME document \in Documents, NEW v \in SaidWords
    PROVE  v.heading = 0 \/ v.heading \in DOMAIN document.headings
  <1>1. \A w \in ToSet(document.preamble) : w.heading = 0
    BY BodyFields, BodyHasHeading
  <1>2. \A h \in DOMAIN document.headings : \A w \in ToSet(document.headings[h].body) :
            w.heading = h
    BY BodyFields, BodyHasHeading
  <1> QED  BY <1>1, <1>2 DEF SaidWords

(* A block before one the code can tell it can tell, too.                  *)
LEMMA ToldBefore ==
    ASSUME NEW h, IsBody(Body(h), h), NEW a \in Nat \ {0}, NEW b \in Nat, a <= b,
           ReadsAlike(h, b), Block(h, b) # {}
    PROVE  ReadsAlike(h, a)
  <1> DEFINE W == ToSet(Body(h))
  <1>1. /\ \A u, v \in W : u.line < v.line /\ v.block > 0 => u.block <= v.block
        /\ \A u, v \in W : u.line = v.line => u.block = v.block
    BY BodyLines
  <1>2. \A w \in W : w.line \in Nat /\ w.block \in Nat
    <2>1. Body(h) \in Seq(Words)
      BY DEF IsBody
    <2>2. \A w \in W : w \in Words
      BY <2>1 DEF ToSet
    <2> QED  BY <2>2 DEF Words
  <1>3. ASSUME NEW w \in W, w.block \in 1..a
        PROVE  EndsWhereRead(h, w.block)
    <2>1. w.block \in 1..b
      BY <1>3
    <2> QED  BY <2>1 DEF ReadsAlike
  <1>4. ASSUME NEW w \in W, w.block = 0, Opens(w), NEW u \in Block(h, a)
        PROVE  u.line < w.line
    <2>1. PICK v \in Block(h, b) : TRUE
      OBVIOUS
    <2>2. v \in W /\ v.block = b /\ u \in W /\ u.block = a
      BY DEF Block
    <2>3. v.line < w.line
      BY <1>4 DEF ReadsAlike
    <2>4. CASE a = b
      BY <1>4, <2>4 DEF ReadsAlike
    <2>5. CASE a < b
      <3>1. ~(v.line < u.line) /\ v.line # u.line
        BY <1>1, <2>2, <2>5
      <3> QED  BY <1>2, <2>2, <2>3, <3>1
    <2> QED  BY <2>4, <2>5
  <1> QED  BY <1>3, <1>4 DEF ReadsAlike

(* Taking a unit off what is left of a body cuts no block the code can     *)
(* tell.  Either the text begins with such a block, and the unit is that   *)
(* block; or nothing the unit takes is in one.                             *)
LEMMA ToldBlockIsTaken ==
    ASSUME NEW text, NEW h, IsBody(text, h), Whole(text),
           ToSet(text) \subseteq SaidWords, document \in Documents,
           NEW n \in 1..Len(text), LeadingUnit(text, n), text[1] \in ToldWords
    PROVE  /\ Opens(text[1])
           /\ \A i \in 1..Len(text) : text[i].block = text[1].block <=> i <= n
  <1> DEFINE first == text[1]
             b == first.block
             W == ToSet(Body(h))
  <1>1. /\ Len(text) \in Nat /\ DOMAIN text = 1..Len(text) /\ n \in Nat /\ 1 <= n
        /\ n <= Len(text) /\ 1 \in 1..Len(text)
    BY LenProperties DEF IsBody
  <1>2. /\ \A i \in 1..Len(text) : text[i] \in SaidWords /\ text[i].heading = h
        /\ \A j \in ToSet(text) : \E i \in 1..Len(text) : text[i] = j
    BY <1>1 DEF IsBody, ToSet
  <1>3. /\ IsBody(Body(h), h)
        /\ \A w \in SaidWords : w.heading = h => w \in W
    BY <1>1, <1>2, SaidUnder
  <1>4. \A w \in W : w.heading = h /\ w.line \in Nat /\ w.block \in Nat
    <2>1. Body(h) \in Seq(Words)
      BY <1>3 DEF IsBody
    <2>2. \A w \in W : w \in Words
      BY <2>1 DEF ToSet
    <2> QED  BY <1>3, <2>2, BodyHasHeading DEF Words
  <1>5. \A i \in 1..Len(text) : text[i] \in W
    BY <1>2, <1>3
  <1>6. /\ \A u, v \in W : u.line = v.line => u.marker = v.marker /\ u.block = v.block
        /\ \A u, v, w \in W :
            u.line <= v.line /\ v.line <= w.line /\ u.block = w.block /\ u.block > 0 =>
                v.block = u.block
    BY <1>3, BodyLines
  <1>7. \A i, j \in 1..Len(text) : i <= j => text[i].line <= text[j].line
    <2> SUFFICES ASSUME NEW i \in 1..Len(text), NEW j \in 1..Len(text), i <= j
                 PROVE  text[i].line <= text[j].line
      OBVIOUS
    <2>1. i < j \/ i = j
      BY <1>1
    <2> QED  BY <1>1, <1>4, <1>5, <2>1 DEF IsBody
  <1>8. /\ b > 0 /\ first \in Block(h, b)
        /\ \A v \in Block(h, b) : /\ v \in W /\ v.block = b
                                  /\ \E i \in 1..Len(text) : text[i] = v
    <2>1. b > 0 /\ first \in W
      BY <1>1, <1>5 DEF ToldWords
    <2>2. W \subseteq SaidWords
      <3>1. h = 0 \/ h \in DOMAIN document.headings
        BY <1>1, <1>2, HeadingOfSaid
      <3> QED  BY <3>1 DEF Body, SaidWords
    <2>3. \A v \in W : v.block = b => v \in ToSet(text)
      <3>1. first \in ToSet(text) /\ first.heading = h
        BY <1>1, <1>2 DEF ToSet
      <3> QED  BY <1>4, <2>2, <3>1 DEF Whole, SameBlock
    <2> QED  BY <1>2, <2>1, <2>3 DEF Block
  <1>9. EndsWhereRead(h, b)
    <2>1. ReadsAlike(h, b)
      BY <1>1, <1>2 DEF ToldWords
    <2>2. b \in 1..b /\ first \in W
      BY <1>1, <1>4, <1>5, <1>8
    <2> QED  BY <2>1, <2>2 DEF ReadsAlike
  <1> HIDE DEF W
  <1>10. PICK m \in Markers \ {"none"} :
            \A w \in Block(h, b) :
                LET isFirst == \A v \in Block(h, b) : w.line <= v.line
                    isLast == \A v \in Block(h, b) : v.line <= w.line
                IN  /\ isFirst => w.marker = m
                    /\ ~isFirst /\ ~isLast => w.marker # m
                    /\ isLast => \/ ~isFirst /\ w.marker = m
                                 \/ \A v \in W : v.line <= w.line
    BY <1>9 DEF EndsWhereRead, W
  <1>11. \A v \in Block(h, b) : first.line <= v.line
    BY <1>1, <1>7, <1>8
  <1>12. first.marker = m /\ Opens(first)
    BY <1>8, <1>10, <1>11 DEF Opens
  <1> DEFINE closing == {i \in DOMAIN text : /\ text[i].marker = text[1].marker
                                            /\ ~SameLine(text[i], text[1])}
  <1>13. /\ \A i \in closing : i <= n => SameLine(text[i], text[n])
         /\ n < Len(text) => n \in closing /\ ~SameLine(text[n + 1], text[n])
    BY <1>12 DEF LeadingUnit, AtomicUnit
  <1>14. closing = {i \in 1..Len(text) : text[i].marker = m /\ text[i].line # first.line}
    BY <1>1, <1>2, <1>12 DEF SameLine
  <1> HIDE DEF closing
  <1>15. ASSUME NEW i \in 1..n, text[i].block # b
         PROVE  FALSE
    <2>1. i \in 1..Len(text) /\ i <= n /\ n \in 1..Len(text)
      BY <1>1
    <2>2. \A v \in Block(h, b) : v.line < text[i].line
      <3> SUFFICES ASSUME NEW v \in Block(h, b), ~(v.line < text[i].line)
                   PROVE  FALSE
        OBVIOUS
      <3>1. text[i].line <= v.line
        BY <1>4, <1>5, <1>8, <2>1
      <3>2. first.line <= text[i].line
        BY <1>1, <1>7, <2>1
      <3> QED  BY <1>1, <1>5, <1>6, <1>8, <1>15, <2>1, <3>1, <3>2
    <2>3. PICK j \in 1..Len(text) : /\ text[j] \in Block(h, b)
                                    /\ \A k \in 1..Len(text) : text[k] \in Block(h, b) => k <= j
      <3> DEFINE T == {k \in 1..Len(text) : text[k] \in Block(h, b)}
      <3>1. T \subseteq 1..Len(text) /\ 1 \in T
        BY <1>1, <1>8
      <3>2. \E j \in T : \A k \in T : k <= j
        <4> HIDE DEF T
        <4> QED  BY <1>1, <3>1, GreatestIndex
      <3> QED  BY <3>2
    <2>4. \A v \in Block(h, b) : v.line <= text[j].line
      BY <1>7, <1>8, <2>3
    <2>5. text[j].line < text[i].line
      BY <2>2, <2>3
    <2>6. ~(\A v \in W : v.line <= text[j].line)
      BY <1>4, <1>5, <2>1, <2>5
    <2>7. text[j].marker = m /\ ~(\A v \in Block(h, b) : text[j].line <= v.line)
      BY <1>10, <2>3, <2>4, <2>6
    <2>8. text[j].line # first.line
      BY <1>11, <2>7
    <2>9. j \in closing
      BY <1>14, <2>7, <2>8
    <2>10. j <= n
      <3>1. ~(i <= j)
        BY <1>4, <1>5, <1>7, <2>1, <2>5
      <3> QED  BY <1>1, <3>1
    <2>11. text[j].line = text[n].line
      BY <1>13, <2>9, <2>10 DEF SameLine
    <2>12. text[i].line <= text[n].line
      BY <1>7, <2>1
    <2> QED  BY <1>4, <1>5, <2>1, <2>5, <2>11, <2>12
  <1>16. ASSUME NEW i \in 1..Len(text), i > n, text[i].block = b
         PROVE  FALSE
    <2>1. n < Len(text) /\ n + 1 \in 1..Len(text) /\ n + 1 <= i /\ n \in 1..Len(text)
          /\ n \in 1..n
      BY <1>1, <1>16
    <2>2. n \in closing /\ text[n + 1].line # text[n].line
      BY <1>2, <1>13, <2>1 DEF SameLine
    <2>3. text[n].line < text[i].line
      <3>1. text[n].line <= text[n + 1].line /\ text[n + 1].line <= text[i].line
        <4>1. n <= n + 1
          BY <1>1
        <4> QED  BY <1>7, <2>1, <4>1
      <3> QED  BY <1>4, <1>5, <2>1, <2>2, <3>1
    <2>4. text[n] \in Block(h, b) /\ text[i] \in Block(h, b)
      BY <1>5, <1>15, <1>16, <2>1 DEF Block, W
    <2>5. text[n].marker = m /\ text[n].line # first.line
      BY <1>14, <2>2
    <2>6. ~(\A v \in Block(h, b) : text[n].line <= v.line)
      <3>1. ~(text[n].line <= first.line)
        BY <1>1, <1>4, <1>5, <1>7, <2>1, <2>5
      <3> QED  BY <1>8, <3>1
    <2>7. ~(\A v \in Block(h, b) : v.line <= text[n].line)
      <3>1. ~(text[i].line <= text[n].line)
        BY <1>4, <1>5, <2>1, <2>3
      <3> QED  BY <2>4, <3>1
    <2> QED  BY <1>10, <2>4, <2>5, <2>6, <2>7
  <1>17. \A i \in 1..Len(text) : text[i].block = b <=> i <= n
    <2> SUFFICES ASSUME NEW i \in 1..Len(text)
                 PROVE  text[i].block = b <=> i <= n
      OBVIOUS
    <2>1. i <= n => i \in 1..n
      BY <1>1
    <2>2. ~(i <= n) => i > n
      BY <1>1
    <2> QED  BY <1>15, <1>16, <2>1, <2>2
  <1> QED  BY <1>12, <1>17

LEMMA LooseUnitIsTaken ==
    ASSUME NEW text, NEW h, IsBody(text, h), Whole(text),
           ToSet(text) \subseteq SaidWords, document \in Documents,
           NEW n \in 1..Len(text), LeadingUnit(text, n), text[1] \notin ToldWords
    PROVE  \A i \in 1..n : text[i] \notin ToldWords
  <1> DEFINE first == text[1]
             W == ToSet(Body(h))
  <1>1. /\ Len(text) \in Nat /\ DOMAIN text = 1..Len(text) /\ n \in Nat /\ 1 <= n
        /\ n <= Len(text) /\ 1 \in 1..Len(text)
    BY LenProperties DEF IsBody
  <1>2. /\ \A i \in 1..Len(text) : /\ text[i] \in SaidWords /\ text[i].heading = h
                                  /\ text[i] \in ToSet(text)
        /\ \A j \in ToSet(text) : \E i \in 1..Len(text) : text[i] = j
    BY <1>1 DEF IsBody, ToSet
  <1>3. /\ IsBody(Body(h), h)
        /\ \A w \in SaidWords : w.heading = h => w \in W
    BY <1>1, <1>2, SaidUnder
  <1>4. \A w \in W : w.heading = h /\ w.line \in Nat /\ w.block \in Nat /\ w \in Words
    <2>1. Body(h) \in Seq(Words)
      BY <1>3 DEF IsBody
    <2>2. \A w \in W : w \in Words
      BY <2>1 DEF ToSet
    <2> QED  BY <1>3, <2>2, BodyHasHeading DEF Words
  <1>5. \A i \in 1..Len(text) : text[i] \in W
    BY <1>2, <1>3
  <1>6. /\ \A u, v \in W : u.line = v.line => u.marker = v.marker /\ u.block = v.block
        /\ \A u, v \in W : u.line < v.line /\ v.block > 0 => u.block <= v.block
    BY <1>3, BodyLines
  <1>7. \A i, j \in 1..Len(text) : i <= j => text[i].line <= text[j].line
    <2> SUFFICES ASSUME NEW i \in 1..Len(text), NEW j \in 1..Len(text), i <= j
                 PROVE  text[i].line <= text[j].line
      OBVIOUS
    <2>1. i < j \/ i = j
      BY <1>1
    <2> QED  BY <1>1, <1>4, <1>5, <2>1 DEF IsBody
  <1> SUFFICES ASSUME NEW i \in 1..n, text[i] \in ToldWords
               PROVE  FALSE
    OBVIOUS
  <1> DEFINE v == text[i]
             b == v.block
  <1>8. /\ i \in 1..Len(text) /\ 1 <= i /\ v \in W /\ first \in W
        /\ b > 0 /\ b \in Nat /\ ReadsAlike(h, b) /\ v \in Block(h, b)
    <2>1. i \in 1..Len(text) /\ 1 <= i
      BY <1>1
    <2> QED  BY <1>1, <1>2, <1>4, <1>5, <2>1 DEF ToldWords, Block
  <1> HIDE DEF W
  <1>9. first.block # b
    BY <1>1, <1>2, <1>4, <1>8 DEF ToldWords
  <1>10. first.line < v.line
    <2>1. first.line <= v.line
      BY <1>1, <1>7, <1>8
    <2> QED  BY <1>4, <1>6, <1>8, <1>9, <2>1
  <1>11. first.block = 0
    <2>1. first.block <= b
      BY <1>6, <1>8, <1>10
    <2>2. ASSUME first.block > 0 PROVE FALSE
      <3>1. first.block \in Nat \ {0}
        BY <1>4, <1>8, <2>2
      <3>2. ReadsAlike(h, first.block)
        BY <1>3, <1>8, <2>1, <3>1, ToldBefore
      <3> QED  BY <1>1, <1>2, <1>4, <1>8, <2>2, <3>2 DEF ToldWords
    <2> QED  BY <1>4, <1>8, <2>2
  <1>12. ~Opens(first)
    <2> SUFFICES ASSUME Opens(first) PROVE FALSE
      OBVIOUS
    <2>1. v.line < first.line
      BY <1>8, <1>11 DEF ReadsAlike, W
    <2> QED  BY <1>4, <1>8, <1>10, <2>1
  <1>13. \A k \in 1..n - 1 : GoesOn(text[k], text[k + 1])
    BY <1>12 DEF LeadingUnit, ProseUnit
  <1>14. \A u \in Block(h, b) : \E k \in 1..Len(text) : text[k] = u
    <2>1. \A u \in Block(h, b) : u \in W /\ u.block = b
      BY DEF Block, W
    <2>2. W \subseteq SaidWords
      <3>1. h = 0 \/ h \in DOMAIN document.headings
        BY <1>1, <1>2, HeadingOfSaid
      <3> QED  BY <3>1 DEF Body, SaidWords, W
    <2>3. \A u \in Block(h, b) : SameBlock(v, u)
      BY <1>2, <1>4, <1>8, <2>1 DEF SameBlock
    <2> QED  BY <1>2, <1>8, <2>1, <2>2, <2>3 DEF Whole
  <1>15. PICK p \in 1..Len(text) : /\ text[p] \in Block(h, b)
                                  /\ \A k \in 1..Len(text) : text[k] \in Block(h, b) => p <= k
    <2> DEFINE T == {k \in 1..Len(text) : text[k] \in Block(h, b)}
    <2>1. T \subseteq Nat /\ i \in T
      BY <1>8
    <2>2. \E p \in T : \A k \in T : p <= k
      <3> HIDE DEF T
      <3> QED  BY <2>1, LeastIndex
    <2> QED  BY <2>2
  <1>16. Opens(text[p])
    <2>1. EndsWhereRead(h, b)
      <3>1. b \in 1..b
        BY <1>8
      <3> QED  BY <1>8, <3>1 DEF ReadsAlike, W
    <2>2. \A u \in Block(h, b) : text[p].line <= u.line
      BY <1>7, <1>14, <1>15
    <2> QED  BY <1>15, <2>1, <2>2 DEF EndsWhereRead, Opens
  <1>17. p <= i /\ p # 1
    <2>1. p <= i
      BY <1>8, <1>15
    <2>2. text[p].block = b
      BY <1>15 DEF Block
    <2> QED  BY <1>9, <2>1, <2>2
  <1>18. p - 1 \in 1..n - 1 /\ (p - 1) + 1 = p
    BY <1>1, <1>17
  <1>19. GoesOn(text[p - 1], text[p])
    BY <1>13, <1>18
  <1> QED  BY <1>16, <1>19 DEF GoesOn

LEMMA UnitIsTaken ==
    ASSUME NEW text, NEW h, IsBody(text, h), Whole(text),
           ToSet(text) \subseteq SaidWords, document \in Documents,
           NEW n \in 1..Len(text), LeadingUnit(text, n)
    PROVE  LET unit == SubSeq(text, 1, n)
               rest == After(text, n)
           IN  /\ IsBody(unit, h) /\ Whole(unit)
               /\ IsBody(rest, h) /\ Whole(rest)
               /\ text = unit \o rest
               /\ ~Opens(unit[1]) => \A w \in ToSet(unit) : IsLoose(w)
               /\ ToSet(rest) \subseteq SaidWords
  <1> DEFINE unit == SubSeq(text, 1, n)
             rest == After(text, n)
  <1>1. /\ text \in Seq(Words) /\ Len(text) \in Nat /\ DOMAIN text = 1..Len(text)
        /\ n \in Nat /\ 1 <= n /\ n <= Len(text)
        /\ \A i \in 1..Len(text) : text[i] \in Words
    BY LenProperties DEF IsBody
  <1>2. /\ unit \in Seq(Words) /\ rest \in Seq(Words) /\ text = unit \o rest
        /\ ToSet(text) = ToSet(unit) \cup ToSet(rest)
        /\ Len(unit) = n /\ \A i \in 1..n : unit[i] = text[i]
    <2>1. text \in Seq(Words)
      BY <1>1
    <2>2. /\ SubSeq(text, 1, n) \in Seq(Words) /\ After(text, n) \in Seq(Words)
          /\ text = SubSeq(text, 1, n) \o After(text, n)
          /\ ToSet(text) = ToSet(SubSeq(text, 1, n)) \cup ToSet(After(text, n))
          /\ Len(SubSeq(text, 1, n)) = n
          /\ \A i \in 1..n : SubSeq(text, 1, n)[i] = text[i]
      <3> HIDE DEF unit, rest
      <3> QED  BY <2>1, Cut
    <2> QED  BY <2>2
  <1>3. IsBody(unit, h) /\ IsBody(rest, h)
    BY <1>1, BodySlice DEF After
  <1>4. DOMAIN unit = 1..n
    BY <1>2, LenProperties
  <1>5. \A w \in ToSet(unit) : \E i \in 1..n : w = text[i]
    BY <1>2, <1>4 DEF ToSet
  <1> HIDE DEF unit
  <1>6. \A w \in ToSet(rest) : \E i \in 1..Len(text) : i > n /\ w = text[i]
    <2>1. /\ Len(rest) = IF n + 1 <= Len(text) THEN (Len(text) - (n + 1)) + 1 ELSE 0
          /\ \A i \in 1..(Len(text) - (n + 1)) + 1 : rest[i] = text[((n + 1) + i) - 1]
      <3>1. n + 1 \in Int /\ Len(text) \in Int /\ \A i \in n + 1..Len(text) : text[i] \in Words
        BY <1>1
      <3> QED  BY <3>1, SubSeqProperties DEF After
    <2> HIDE DEF rest
    <2>2. DOMAIN rest = 1..Len(rest)
      BY <1>2, LenProperties
    <2>3. ASSUME NEW i \in DOMAIN rest
          PROVE  \E j \in 1..Len(text) : j > n /\ rest[i] = text[j]
      <3>1. /\ rest[i] = text[((n + 1) + i) - 1]
            /\ ((n + 1) + i) - 1 \in 1..Len(text) /\ ((n + 1) + i) - 1 > n
        <4>1. i \in 1..Len(rest) /\ Len(rest) \in Nat /\ i \in Nat
          BY <1>2, <2>2, LenProperties
        <4>2. i \in 1..(Len(text) - (n + 1)) + 1
          <5>1. i <= IF n + 1 <= Len(text) THEN (Len(text) - (n + 1)) + 1 ELSE 0
            BY <2>1, <4>1
          <5> QED  BY <1>1, <4>1, <5>1
        <4>3. ((n + 1) + i) - 1 \in 1..Len(text) /\ ((n + 1) + i) - 1 > n
          BY <1>1, <4>1, <4>2
        <4> QED  BY <2>1, <4>2, <4>3
      <3> QED  BY <3>1
    <2> QED  BY <2>3 DEF ToSet
  <1> HIDE DEF rest
  <1>7. /\ \A w \in ToSet(text) : w.block > 0 => w.line # 0
        /\ \A v \in ToSet(text) : v \in ToldWords =>
            \A w \in SaidWords : SameBlock(v, w) => w \in ToSet(unit) \cup ToSet(rest)
    BY <1>2 DEF Whole
  <1>8. ToSet(rest) \subseteq SaidWords
    BY <1>2
  <1>9. CASE text[1] \in ToldWords
    <2>1. /\ Opens(text[1])
          /\ \A i \in 1..Len(text) : text[i].block = text[1].block <=> i <= n
      BY <1>9, ToldBlockIsTaken
    <2>2. \A w \in ToSet(unit) : w.block = text[1].block
      BY <1>1, <1>5, <2>1
    <2>3. \A w \in ToSet(rest) : w.block # text[1].block
      BY <1>1, <1>6, <2>1
    <2>4. Whole(unit) /\ Whole(rest)
      BY <1>2, <1>7, <2>2, <2>3 DEF Whole, SameBlock
    <2>5. Opens(unit[1])
      BY <1>1, <1>2, <2>1
    <2> QED  BY <1>2, <1>3, <1>8, <2>4, <2>5 DEF unit, rest
  <1>10. CASE text[1] \notin ToldWords
    <2>1. \A i \in 1..n : text[i] \notin ToldWords
      BY <1>10, LooseUnitIsTaken
    <2>2. \A w \in ToSet(unit) : w \notin ToldWords
      BY <1>5, <2>1
    <2>3. \A w \in ToSet(unit) : IsLoose(w)
      BY <1>2, <1>7, <2>2 DEF IsLoose
    <2>4. Whole(unit)
      BY <2>3 DEF Whole, IsLoose
    <2>5. ASSUME NEW v \in ToSet(rest), v \in ToldWords, NEW w \in SaidWords, SameBlock(v, w)
          PROVE  w \in ToSet(rest)
      <3>1. w \in ToSet(unit) \cup ToSet(rest)
        BY <1>2, <1>7, <2>5
      <3>2. w \in Words
        BY SaidUnder
      <3>3. w \in ToldWords
        BY <2>5, <3>2 DEF SameBlock, ToldWords
      <3> QED  BY <2>2, <3>1, <3>3
    <2>6. Whole(rest)
      BY <1>2, <1>7, <2>5 DEF Whole
    <2> QED  BY <1>2, <1>3, <1>8, <2>3, <2>4, <2>6 DEF unit, rest
  <1> QED  BY <1>9, <1>10

LEMMA LooseIsWhole ==
    ASSUME NEW text, \A w \in ToSet(text) : IsLoose(w)
    PROVE  Whole(text)
  BY DEF Whole, IsLoose

LEMMA JoinedIsWhole ==
    ASSUME NEW s \in Seq(Words), NEW t \in Seq(Words), Whole(s), Whole(t)
    PROVE  Whole(s \o t)
  <1>1. ToSet(s \o t) = ToSet(s) \cup ToSet(t)
    BY ConcatWords
  <1> QED  BY <1>1 DEF Whole

(* A text whose words all have the heading at the end of the path.         *)
LEMMA PathIsKnown ==
    ASSUME NEW path, NEW text, NEW h, path = Paths[h],
           \A w \in ToSet(text) : w.heading = h
    PROVE  Knows(path, text)
  BY DEF Knows, ToSet

LEMMA ReadIsSound ==
    ASSUME NEW s, AsRead(s)
    PROVE  IsSound(s)
  BY PathIsKnown, BodyHasHeading DEF AsRead, IsSound

-----------------------------------------------------------------------------
(* What is under way.                                                      *)

ChunkParts == [path : Seq(Names), occurrence : Nat, text : Seq(Words)]

LEMMA HaveTexts ==
    /\ \A x \in ChunkParts : x.text \in Seq(Words)
    /\ \A x \in Pieces : x.text \in Seq(Words)
    /\ \A x \in Sections : x.text \in Seq(Words)
  BY DEF ChunkParts, Pieces, Sections

(* Between the chunks and the sections not yet split.                      *)
Middle == ((TextsOf(bounded) \o current) \o paragraph) \o section.text

LEMMA Concats ==
    ASSUME NEW S
    PROVE  \A x, y, z \in Seq(S) : x \o y \in Seq(S) /\ (x \o y) \o z = x \o (y \o z)
  <1> SUFFICES ASSUME NEW x \in Seq(S), NEW y \in Seq(S), NEW z \in Seq(S)
               PROVE  x \o y \in Seq(S) /\ (x \o y) \o z = x \o (y \o z)
    OBVIOUS
  <1>1. x \o y \in Seq(S)
    BY ConcatProperties
  <1>2. (x \o y) \o z = x \o (y \o z)
    BY ConcatAssociative
  <1> QED  BY <1>1, <1>2

AreTexts(c, b, u, p, s) ==
    /\ c \in Seq(Words) /\ b \in Seq(Words) /\ u \in Seq(Words)
    /\ p \in Seq(Words) /\ s \in Seq(Words)

LEMMA Regrouped ==
    ASSUME NEW c, NEW b, NEW u, NEW p, NEW s, AreTexts(c, b, u, p, s)
    PROVE     /\ ((b \o u) \o p) \o s \in Seq(Words)
              /\ (((c \o b) \o u) \o p) \o s = c \o (((b \o u) \o p) \o s)
  <1> DEFINE bu == b \o u
             bup == bu \o p
  <1>1. bu \in Seq(Words) /\ (c \o b) \o u = c \o bu
    BY Concats DEF AreTexts
  <1>2. bup \in Seq(Words) /\ (c \o bu) \o p = c \o bup
    <2> HIDE DEF bu
    <2> QED  BY <1>1, Concats DEF AreTexts
  <1>3. bup \o s \in Seq(Words) /\ (c \o bup) \o s = c \o (bup \o s)
    <2> HIDE DEF bup
    <2> QED  BY <1>2, Concats DEF AreTexts
  <1> QED  BY <1>1, <1>2, <1>3, Zenon

LEMMA LanesAreTexts ==
    ASSUME IInv
    PROVE  /\ chunks \in Seq(ChunkParts) /\ bounded \in Seq(Pieces)
           /\ merged \in Seq(Sections) /\ sections \in Seq(Sections) /\ section \in Sections
           /\ TextsOf(chunks) \in Seq(Words) /\ TextsOf(bounded) \in Seq(Words)
           /\ current \in Seq(Words) /\ paragraph \in Seq(Words)
           /\ section.text \in Seq(Words)
           /\ TextsOf(merged) \in Seq(Words) /\ TextsOf(sections) \in Seq(Words)
           /\ BodiesFrom(next) \in Seq(Words)
           /\ Middle \in Seq(Words)
  <1>1. /\ chunks \in Seq(ChunkParts) /\ bounded \in Seq(Pieces)
        /\ merged \in Seq(Sections) /\ sections \in Seq(Sections) /\ section \in Sections
        /\ current \in Seq(Words) /\ paragraph \in Seq(Words) /\ section.text \in Seq(Words)
    BY DEF IInv, TypeOK, ChunkParts, Sections
  <1>2. TextsOf(chunks) \in Seq(Words)
    BY <1>1, HaveTexts, PartTexts
  <1>3. TextsOf(bounded) \in Seq(Words)
    BY <1>1, HaveTexts, PartTexts
  <1>4. TextsOf(merged) \in Seq(Words) /\ TextsOf(sections) \in Seq(Words)
    BY <1>1, HaveTexts, PartTexts
  <1>5. BodiesFrom(next) \in Seq(Words)
    BY BodyPartsAreTexts DEF IInv, TypeOK
  <1>6. Middle \in Seq(Words)
    <2> DEFINE b == TextsOf(bounded)
               s == section.text
    <2>1. AreTexts(b, b, current, paragraph, s)
      BY <1>1, <1>3 DEF AreTexts
    <2>2. ((b \o current) \o paragraph) \o s \in Seq(Words)
      <3> HIDE DEF b, s
      <3> QED  BY <2>1, Regrouped
    <2> QED  BY <2>2 DEF Middle
  <1> QED  BY <1>1, <1>2, <1>3, <1>4, <1>5, <1>6

LEMMA UnderWayIs ==
    ASSUME IInv
    PROVE  UnderWay = (((TextsOf(chunks) \o Middle) \o TextsOf(merged)) \o TextsOf(sections))
                        \o BodiesFrom(next)
  <1> DEFINE c == TextsOf(chunks)
             b == TextsOf(bounded)
             u == current
             p == paragraph
             s == section.text
  <1>1. AreTexts(c, b, u, p, s)
    BY LanesAreTexts DEF AreTexts
  <1>2. (((c \o b) \o u) \o p) \o s = c \o (((b \o u) \o p) \o s)
    <2> HIDE DEF c, b, u, p, s
    <2> QED  BY <1>1, Regrouped
  <1> QED  BY <1>2 DEF UnderWay, Middle

LEMMA UnderWayWillBe ==
    ASSUME document' = document, IInv'
    PROVE  /\ TextsOf(chunks') \in Seq(Words) /\ Middle' \in Seq(Words)
           /\ TextsOf(merged') \in Seq(Words) /\ TextsOf(sections') \in Seq(Words)
           /\ BodiesFrom(next') \in Seq(Words)
           /\ UnderWay' = (((TextsOf(chunks') \o Middle') \o TextsOf(merged'))
                             \o TextsOf(sections')) \o BodiesFrom(next')
  <1>1. /\ chunks' \in Seq(ChunkParts) /\ bounded' \in Seq(Pieces)
        /\ merged' \in Seq(Sections) /\ sections' \in Seq(Sections) /\ section' \in Sections
        /\ current' \in Seq(Words) /\ paragraph' \in Seq(Words) /\ section'.text \in Seq(Words)
        /\ next' \in 1..Len(document.headings) + 1 /\ document \in Documents
    BY DEF IInv, TypeOK, ChunkParts, Sections
  <1>2. TextsOf(chunks') \in Seq(Words)
    BY <1>1, HaveTexts, PartTexts
  <1>3. TextsOf(bounded') \in Seq(Words)
    BY <1>1, HaveTexts, PartTexts
  <1>4. TextsOf(merged') \in Seq(Words) /\ TextsOf(sections') \in Seq(Words)
    BY <1>1, HaveTexts, PartTexts
  <1>5. BodiesFrom(next') \in Seq(Words)
    BY <1>1, BodyPartsAreTexts
  <1>6. Middle' = ((TextsOf(bounded') \o current') \o paragraph') \o section'.text
    BY DEF Middle
  <1>7. Middle' \in Seq(Words)
    <2> DEFINE b == TextsOf(bounded')
               u == current'
               p == paragraph'
               s == section'.text
    <2>1. AreTexts(b, b, u, p, s)
      BY <1>1, <1>3 DEF AreTexts
    <2>2. ((b \o u) \o p) \o s \in Seq(Words)
      <3> HIDE DEF b, u, p, s
      <3> QED  BY <2>1, Regrouped
    <2> QED  BY <2>2, <1>6
  <1>8. BodiesFrom(next)' = BodiesFrom(next')
    BY FileStands
  <1>9. UnderWay' = ((((((TextsOf(chunks') \o TextsOf(bounded')) \o current') \o paragraph')
                        \o section'.text) \o TextsOf(merged')) \o TextsOf(sections'))
                        \o BodiesFrom(next')
    BY <1>8 DEF UnderWay
  <1>10. (((TextsOf(chunks') \o TextsOf(bounded')) \o current') \o paragraph')
            \o section'.text = TextsOf(chunks') \o Middle'
    <2> DEFINE c == TextsOf(chunks')
               b == TextsOf(bounded')
               u == current'
               p == paragraph'
               s == section'.text
    <2>1. AreTexts(c, b, u, p, s)
      BY <1>1, <1>2, <1>3 DEF AreTexts
    <2>2. (((c \o b) \o u) \o p) \o s = c \o (((b \o u) \o p) \o s)
      <3> HIDE DEF c, b, u, p, s
      <3> QED  BY <2>1, Regrouped
    <2> QED  BY <2>2, <1>6
  <1> QED  BY <1>2, <1>4, <1>5, <1>7, <1>9, <1>10, Zenon

(* What holds of parts that stay as they are.                              *)
LEMMA SoundNow ==
    ASSUME TextsAreSound
    PROVE  /\ \A i \in DOMAIN sections : AsRead(sections[i])
           /\ \A i \in DOMAIN merged : IsMerged(merged[i])
           /\ \E s : AreAround(s, next - 1) /\ stack = MarksOf(s)
           /\ AllAreSound(bounded) /\ AllAreSound(chunks)
           /\ Written(UnderWay) = Said
           /\ PackingIsSound
  BY DEF TextsAreSound, StackFits

(* A step that packs keeps the texts if it keeps what it has in hand.      *)
LEMMA PackingKeeps ==
    ASSUME IInv, IInv', TextsAreSound, ChunksStand,
           UNCHANGED <<next, stack, sections, merged>>, Middle' = Middle,
           phase' \in {"packing", "breaking"} => AsRead(section'),
           phase' # "breaking" => paragraph' = << >>,
           phase' \notin {"packing", "breaking"} => current' = << >> /\ section'.text = << >>,
           IsBody(paragraph', section'.of), \A w \in ToSet(paragraph') : IsLoose(w),
           Whole(current'), \A w \in ToSet(current') : w.heading = section'.of,
           AllAreSound(bounded')
    PROVE  TextsAreSound'
  <1>1. /\ document' = document /\ configuration' = configuration /\ chunks' = chunks
        /\ next' = next /\ stack' = stack /\ sections' = sections /\ merged' = merged
    BY DEF ChunksStand
  <1>2. UnderWay' = UnderWay
    BY <1>1, UnderWayIs, UnderWayWillBe
  <1>3. \E s : AreAround(s, next' - 1) /\ stack' = MarksOf(s)
    BY <1>1, SoundNow
  <1>4. /\ \A i \in DOMAIN sections' : AsRead(sections'[i])
        /\ \A i \in DOMAIN merged' : IsMerged(merged'[i])
        /\ AllAreSound(chunks')
        /\ Written(UnderWay') = Said
    BY <1>1, <1>2, SoundNow
  <1> QED  BY <1>1, <1>3, <1>4, TextsRestated

-----------------------------------------------------------------------------
(* What is in hand.                                                        *)

InHand(text) ==
    /\ text \in Seq(Words) /\ Whole(text)
    /\ \A w \in ToSet(text) : w.heading = section.of

LEMMA HandsAreSound ==
    ASSUME IInv, TextsAreSound, phase \in {"packing", "breaking"}
    PROVE  /\ AsRead(section) /\ InHand(current)
           /\ IsBody(paragraph, section.of) /\ \A w \in ToSet(paragraph) : IsLoose(w)
           /\ phase = "packing" => paragraph = << >>
  <1>1. PackingIsSound /\ current \in Seq(Words)
    BY SoundNow, LanesAreTexts
  <1> QED  BY <1>1 DEF PackingIsSound, InHand

LEMMA PieceIsSound ==
    ASSUME IInv, AsRead(section), NEW text, InHand(text)
    PROVE  Piece(text) \in Pieces /\ IsSound(Piece(text)) /\ Piece(text).text = text
  <1>1. section.path \in Seq(Names)
    BY LanesAreTexts DEF Sections
  <1>2. Knows(section.path, text)
    BY PathIsKnown DEF AsRead, InHand
  <1> QED  BY <1>1, <1>2 DEF Piece, Pieces, IsSound, InHand

LEMMA AppendedSound ==
    ASSUME NEW S, NEW parts \in Seq(S), AllAreSound(parts), NEW x \in S, IsSound(x)
    PROVE  AllAreSound(Append(parts, x))
  BY DEF AllAreSound

LEMMA EmptyTexts ==
    ASSUME NEW t \in Seq(Words)
    PROVE  t \o << >> = t /\ << >> \o t = t /\ << >> \in Seq(Words)
  BY ConcatEmptySeq, EmptySeq

(* flushCurrent keeps what was packed.                                     *)
LEMMA FlushedSound ==
    ASSUME IInv, TextsAreSound, phase \in {"packing", "breaking"}
    PROVE  /\ Flushed \in Seq(Pieces) /\ AllAreSound(Flushed)
           /\ TextsOf(Flushed) = TextsOf(bounded) \o current
           /\ TextsOf(Flushed) \in Seq(Words)
  <1>1. /\ bounded \in Seq(Pieces) /\ TextsOf(bounded) \in Seq(Words)
        /\ AllAreSound(bounded) /\ current \in Seq(Words)
    BY LanesAreTexts, SoundNow
  <1>2. /\ Piece(current) \in Pieces /\ IsSound(Piece(current))
        /\ Piece(current).text = current
    BY HandsAreSound, PieceIsSound
  <1>3. CASE current = << >>
    <2>1. TextsOf(bounded) \o current = TextsOf(bounded)
      BY <1>1, <1>3, EmptyTexts
    <2> QED  BY <1>1, <1>3, <2>1 DEF Flushed
  <1>4. CASE current # << >>
    <2>1. Flushed = Append(bounded, Piece(current))
      BY <1>4 DEF Flushed
    <2>2. TextsOf(Append(bounded, Piece(current))) = TextsOf(bounded) \o Piece(current).text
      BY <1>1, <1>2, HaveTexts, TextsAppend
    <2>3. Append(bounded, Piece(current)) \in Seq(Pieces)
      BY <1>1, <1>2
    <2>4. AllAreSound(Append(bounded, Piece(current)))
      BY <1>1, <1>2, AppendedSound
    <2>5. TextsOf(bounded) \o current \in Seq(Words)
      BY <1>1, Concats
    <2> QED  BY <1>2, <2>1, <2>2, <2>3, <2>4, <2>5
  <1> QED  BY <1>3, <1>4

(* A unit that is taken off the section is packed, emitted or broken.      *)
LEMMA UnitMoved ==
    ASSUME IInv, IInv', document' = document, TextsAreSound, phase = "packing",
           NEW x \in Seq(Words),
           section.text = x \o section'.text,
           (TextsOf(bounded') \o current') \o paragraph' = (TextsOf(bounded) \o current) \o x
    PROVE  Middle' = Middle
  <1> DEFINE b == TextsOf(bounded)
             u == current
             bu == b \o u
             r == section'.text
  <1>1. b \in Seq(Words) /\ u \in Seq(Words)
    BY LanesAreTexts
  <1>2. r \in Seq(Words)
    <2>1. section' \in Sections
      BY DEF IInv, TypeOK
    <2> QED  BY <2>1, HaveTexts
  <1>3. bu \in Seq(Words)
    <2> HIDE DEF b, u
    <2> QED  BY <1>1, Concats
  <1>4. Middle = bu \o (x \o r)
    <2>1. Middle = (bu \o << >>) \o (x \o r)
      BY HandsAreSound DEF Middle
    <2>2. bu \o << >> = bu
      <3> HIDE DEF bu
      <3> QED  BY <1>3, EmptyTexts
    <2> HIDE DEF bu, r
    <2> QED  BY <2>1, <2>2
  <1>5. Middle' = (bu \o x) \o r
    <2>1. Middle' = ((TextsOf(bounded') \o current') \o paragraph') \o section'.text
      BY DEF Middle
    <2> QED  BY <2>1
  <1>6. (bu \o x) \o r = bu \o (x \o r)
    <2> HIDE DEF bu, r
    <2> QED  BY <1>2, <1>3, Concats
  <1> QED  BY <1>4, <1>5, <1>6

(* A sentence that is taken off the paragraph is packed or chopped.        *)
LEMMA SentenceMoved ==
    ASSUME IInv, IInv', document' = document, NEW x \in Seq(Words),
           section'.text = section.text,
           paragraph = x \o paragraph',
           TextsOf(bounded') \o current' = (TextsOf(bounded) \o current) \o x
    PROVE  Middle' = Middle
  <1> DEFINE b == TextsOf(bounded)
             u == current
             bu == b \o u
             p == paragraph'
             r == section.text
  <1>1. b \in Seq(Words) /\ u \in Seq(Words)
    BY LanesAreTexts
  <1>2. p \in Seq(Words)
    BY DEF IInv, TypeOK
  <1>3. bu \in Seq(Words)
    <2> HIDE DEF b, u
    <2> QED  BY <1>1, Concats
  <1>4. Middle = (bu \o (x \o p)) \o r
    BY DEF Middle
  <1>5. Middle' = ((bu \o x) \o p) \o r
    <2>1. Middle' = ((TextsOf(bounded') \o current') \o paragraph') \o section'.text
      BY DEF Middle
    <2> QED  BY <2>1
  <1>6. (bu \o x) \o p = bu \o (x \o p)
    <2> HIDE DEF bu, p
    <2> QED  BY <1>2, <1>3, Concats
  <1> QED  BY <1>4, <1>5, <1>6

(* What is packed goes after what was packed, or is all that is.           *)
LEMMA PackedSound ==
    ASSUME IInv, TextsAreSound, phase \in {"packing", "breaking"},
           NEW x, InHand(x), section'.of = section.of,
           IF Full(Estimate(x))
           THEN /\ bounded' = Flushed
                /\ current' = x
           ELSE /\ current' = current \o x
                /\ UNCHANGED bounded
    PROVE  /\ TextsOf(bounded') \o current' = (TextsOf(bounded) \o current) \o x
           /\ Whole(current') /\ \A w \in ToSet(current') : w.heading = section'.of
           /\ AllAreSound(bounded')
  <1>1. /\ TextsOf(bounded) \in Seq(Words) /\ current \in Seq(Words) /\ x \in Seq(Words)
        /\ AllAreSound(bounded) /\ InHand(current)
    BY LanesAreTexts, SoundNow, HandsAreSound DEF InHand
  <1>2. CASE Full(Estimate(x))
    BY <1>2, FlushedSound DEF InHand
  <1>3. CASE ~Full(Estimate(x))
    <2>1. bounded' = bounded /\ current' = current \o x
      BY <1>3
    <2>2. TextsOf(bounded) \o (current \o x) = (TextsOf(bounded) \o current) \o x
      <3> DEFINE b == TextsOf(bounded)
                 u == current
      <3>1. b \o (u \o x) = (b \o u) \o x
        <4>1. b \in Seq(Words) /\ u \in Seq(Words) /\ x \in Seq(Words)
          BY <1>1
        <4> HIDE DEF b, u
        <4> QED  BY <4>1, Concats
      <3> QED  BY <3>1
    <2>3. Whole(current \o x)
      BY <1>1, JoinedIsWhole DEF InHand
    <2>4. ToSet(current \o x) = ToSet(current) \cup ToSet(x)
      BY <1>1, ConcatWords
    <2>5. \A w \in ToSet(current \o x) : w.heading = section.of
      BY <1>1, <2>4 DEF InHand
    <2> QED  BY <1>1, <2>1, <2>2, <2>3, <2>5
  <1> QED  BY <1>2, <1>3

-----------------------------------------------------------------------------
(* Breaking by words.                                                      *)

(* Groups of w words are enough for m words, and one less is not.          *)
LEMMA GroupsCover ==
    ASSUME NEW m \in Nat \ {0}, NEW w \in Nat \ {0}
    PROVE  LET groups == (m + w - 1) \div w
           IN  /\ groups \in Nat \ {0}
               /\ m <= groups * w
               /\ \A g \in 1..groups : (g - 1) * w \in Nat /\ (g - 1) * w < m
  <1> DEFINE q == (m + w - 1) \div w
  <1>1. q \in Nat /\ q * w <= m + w - 1 /\ m + w - 1 < (q * w) + w
    BY SMT
  <1>2. q * w \in Nat
    BY <1>1
  <1> HIDE DEF q
  <1>3. q # 0
    BY <1>1
  <1>4. m <= q * w
    <2> DEFINE p == q * w
    <2> HIDE DEF p
    <2>1. p \in Nat /\ m + w - 1 < p + w
      BY <1>1, <1>2 DEF p
    <2>2. m <= p
      BY <2>1
    <2> QED  BY <2>2 DEF p
  <1>5. ASSUME NEW g \in 1..q
        PROVE  (g - 1) * w \in Nat /\ (g - 1) * w < m
    <2>1. PICK d \in Nat : g + d = q
      <3>1. q - g \in Nat /\ g + (q - g) = q
        BY <1>1
      <3> QED  BY <3>1
    <2>2. (g - 1) * w \in Nat /\ d * w \in Nat
      BY <1>1
    <2>3. q * w = ((g - 1) * w) + (w + (d * w))
      BY <2>1, SMT
    <2> DEFINE a == (g - 1) * w
               b == d * w
               c == q * w
    <2>4. a \in Nat /\ b \in Nat /\ c \in Nat /\ c = a + (w + b) /\ c <= m + w - 1
      BY <1>1, <1>2, <2>2, <2>3
    <2> HIDE DEF a, b, c
    <2>5. a < m
      BY <2>4
    <2> QED  BY <2>4, <2>5 DEF a
  <1> QED  BY <1>1, <1>3, <1>4, <1>5 DEF q

(* Two slices that meet are one slice.                                     *)
LEMMA SlicesJoin ==
    ASSUME NEW text \in Seq(Words), NEW a \in Nat, NEW b \in Nat, a <= b, b <= Len(text)
    PROVE  /\ SubSeq(text, 1, b) = SubSeq(text, 1, a) \o SubSeq(text, a + 1, b)
           /\ SubSeq(text, 1, a) \in Seq(Words)
           /\ SubSeq(text, a + 1, b) \in Seq(Words)
  <1>1. Len(text) \in Nat /\ \A i \in 1..Len(text) : text[i] \in Words
    BY LenProperties
  <1> DEFINE s == SubSeq(text, 1, a)
             t == SubSeq(text, a + 1, b)
             u == SubSeq(text, 1, b)
  <1>2. s \in Seq(Words) /\ Len(s) = a /\ \A i \in 1..a : s[i] = text[i]
    <2>1. \A i \in 1..a : text[i] \in Words
      BY <1>1
    <2> QED  BY <2>1, <1>1, SubSeqProperties
  <1>3. u \in Seq(Words) /\ Len(u) = b /\ \A i \in 1..b : u[i] = text[i]
    <2>1. \A i \in 1..b : text[i] \in Words
      BY <1>1
    <2> QED  BY <2>1, <1>1, SubSeqProperties
  <1>4. t \in Seq(Words) /\ Len(t) = b - a /\ \A i \in 1..b - a : t[i] = text[a + i]
    <2>1. \A i \in a + 1..b : text[i] \in Words
      BY <1>1
    <2>2. a + 1 \in Int /\ b \in Int
      OBVIOUS
    <2>3. /\ t \in Seq(Words)
          /\ Len(t) = IF a + 1 <= b THEN (b - (a + 1)) + 1 ELSE 0
          /\ \A i \in 1..(b - (a + 1)) + 1 : t[i] = text[((a + 1) + i) - 1]
      BY <2>1, <2>2, SubSeqProperties
    <2> HIDE DEF t
    <2>4. \A i \in 1..b - a : i \in 1..(b - (a + 1)) + 1 /\ ((a + 1) + i) - 1 = a + i
      OBVIOUS
    <2> QED  BY <2>3, <2>4
  <1> HIDE DEF s, t, u
  <1>5. /\ s \o t \in Seq(Words) /\ Len(s \o t) = Len(s) + Len(t)
        /\ \A i \in 1..Len(s) + Len(t) :
              (s \o t)[i] = IF i <= Len(s) THEN s[i] ELSE t[i - Len(s)]
    BY <1>2, <1>4, ConcatProperties
  <1> DEFINE j == s \o t
  <1>6. j \in Seq(Words) /\ Len(j) = b
        /\ \A i \in 1..b : j[i] = IF i <= a THEN s[i] ELSE t[i - a]
    BY <1>2, <1>4, <1>5
  <1> HIDE DEF j
  <1>7. \A i \in 1..b : j[i] = u[i]
    <2> SUFFICES ASSUME NEW i \in 1..b PROVE j[i] = u[i]
      OBVIOUS
    <2>1. CASE i <= a
      BY <1>2, <1>3, <1>6, <2>1
    <2>2. CASE ~(i <= a)
      <3>1. i - a \in 1..b - a /\ a + (i - a) = i
        BY <2>2
      <3>2. t[i - a] = text[i]
        BY <1>4, <3>1
      <3> QED  BY <1>3, <1>6, <2>2, <3>2
    <2> QED  BY <2>1, <2>2
  <1>8. j = u
    BY <1>3, <1>6, <1>7, SeqEqual
  <1> QED  BY <1>2, <1>4, <1>8 DEF j, s, t, u

(* splitByWords leaves no word out.                                        *)
LEMMA GroupsMakeTheText ==
    ASSUME NEW text \in Seq(Words), Len(text) # 0, configuration \in Configurations,
           NEW groups, groups = (Len(text) + WordsPerGroup - 1) \div WordsPerGroup,
           NEW parts \in Seq(Seq(Words)), Len(parts) = groups,
           \A g \in 1..groups : parts[g] = WordGroup(text, g)
    PROVE  FlattenSeq(parts) = text
  <1> DEFINE n == Len(text)
             size == WordsPerGroup
             Upto(k) == IF k * size < n THEN k * size ELSE n
             f == [k \in 0..groups |-> SubSeq(text, 1, Upto(k))]
  <1>1. n \in Nat \ {0} /\ size \in Nat \ {0}
    <2>1. size \in Nat /\ 1 <= size
      BY GroupBudget, ConfigurationFields
    <2> QED  BY <2>1
  <1>2. /\ groups \in Nat \ {0} /\ n <= groups * size
        /\ \A g \in 1..groups : (g - 1) * size \in Nat /\ (g - 1) * size < n
    <2> HIDE DEF n, size
    <2>1. groups = (n + size - 1) \div size
      BY DEF n, size
    <2> QED  BY <1>1, <2>1, GroupsCover
  <1>3. ASSUME NEW k \in 0..groups
        PROVE  Upto(k) \in Nat /\ Upto(k) <= n
    <2> HIDE DEF n, size
    <2>1. k * size \in Nat
      BY <1>1, <1>2
    <2> QED  BY <1>1, <2>1
  <1>4. f[0] = << >>
    <2>1. Upto(0) = 0
      <3> HIDE DEF n, size
      <3> QED  BY <1>1
    <2>2. f[0] = SubSeq(text, 1, Upto(0))
      BY <1>2
    <2>3. f[0] = SubSeq(text, 1, 0)
      BY <2>1, <2>2
    <2>4. SubSeq(text, 1, 0) = << >>
      OBVIOUS
    <2> QED  BY <2>3, <2>4
  <1>5. f[groups] = text
    <2>1. Upto(groups) = n
      <3> HIDE DEF n, size
      <3>1. groups * size \in Nat
        BY <1>1, <1>2
      <3> QED  BY <1>1, <1>2, <3>1
    <2>2. f[groups] = SubSeq(text, 1, Upto(groups))
      <3>1. groups \in 0..groups
        BY <1>2
      <3>2. \A k \in 0..groups : f[k] = SubSeq(text, 1, Upto(k))
        OBVIOUS
      <3> HIDE DEF f, Upto
      <3> QED  BY <3>1, <3>2
    <2>3. f[groups] = SubSeq(text, 1, Len(text))
      BY <2>1, <2>2
    <2>4. SubSeq(text, 1, Len(text)) = text
      BY SubSeqFull
    <2> QED  BY <2>3, <2>4
  <1>6. ASSUME NEW k \in 0..groups
        PROVE  f[k] \in Seq(Words)
    <2>1. f[k] = SubSeq(text, 1, Upto(k))
      OBVIOUS
    <2>2. Upto(k) \in Nat /\ Upto(k) <= Len(text) /\ 0 \in Nat /\ 0 <= Upto(k)
      BY <1>3
    <2> HIDE DEF f, Upto
    <2>3. SubSeq(text, 1, Upto(k)) \in Seq(Words)
      BY <2>2, SlicesJoin
    <2> QED  BY <2>1, <2>3
  <1>7. ASSUME NEW g \in 1..groups
        PROVE  f[g] = f[g - 1] \o parts[g]
    <2> DEFINE a == (g - 1) * size
               b == Upto(g)
    <2>1. g - 1 \in 0..groups /\ g \in 0..groups
      BY <1>2
    <2>2. Upto(g - 1) = a
      BY <1>2
    <2>3. f[g - 1] = SubSeq(text, 1, a) /\ f[g] = SubSeq(text, 1, b)
      BY <2>1, <2>2
    <2>4. parts[g] = SubSeq(text, a + 1, b)
      BY DEF WordGroup
    <2>5. a \in Nat /\ b \in Nat /\ b <= Len(text) /\ a <= b
      <3>1. a \in Nat /\ a < n
        BY <1>2
      <3>2. b \in Nat /\ b <= n
        BY <1>3, <2>1
      <3>3. g * size = a + size
        BY <1>1, SMT
      <3> DEFINE e == g * size
      <3>4. b = IF e < n THEN e ELSE n
        OBVIOUS
      <3>5. e = a + size
        BY <3>3
      <3> HIDE DEF n, size, a, b, e
      <3>6. a <= b
        BY <1>1, <3>1, <3>4, <3>5
      <3> QED  BY <3>1, <3>2, <3>6 DEF n
    <2> HIDE DEF f, a, b
    <2> QED  BY <2>3, <2>4, <2>5, SlicesJoin
  <1>8. Flattens(Words, parts, f)
    <2>1. f \in [0..groups -> Seq(Words)]
      BY <1>6
    <2> HIDE DEF f
    <2> QED  BY <2>1, <1>4, <1>7 DEF Flattens
  <1> HIDE DEF f
  <1> QED  BY <1>5, <1>8, FlattenIs

-----------------------------------------------------------------------------
(* Packing and breaking, step by step.                                     *)

LEMMA UnitInHand ==
    ASSUME IInv, TextsAreSound, NEW n \in 1..Len(section.text), TakesUnit(n)
    PROVE  LET unit == SubSeq(section.text, 1, n)
           IN  /\ InHand(unit) /\ IsBody(unit, section.of)
               /\ ~Opens(unit[1]) => \A w \in ToSet(unit) : IsLoose(w)
               /\ section.text = unit \o section'.text
               /\ AsRead(section') /\ section'.of = section.of
               /\ ChunksStand /\ UNCHANGED <<next, stack, sections, merged>>
               /\ phase = "packing" /\ paragraph = << >>
  <1> DEFINE unit == SubSeq(section.text, 1, n)
             rest == After(section.text, n)
  <1>1. /\ ChunksStand /\ UNCHANGED <<next, stack, sections, merged>>
        /\ phase = "packing"
    BY TakenUnit
  <1>2. AsRead(section) /\ paragraph = << >>
    BY <1>1, HandsAreSound
  <1>3. LeadingUnit(section.text, n) /\ section' = [section EXCEPT !.text = rest]
    BY DEF TakesUnit
  <1>4. /\ IsBody(unit, section.of) /\ Whole(unit)
        /\ IsBody(rest, section.of) /\ Whole(rest)
        /\ section.text = unit \o rest
        /\ ~Opens(unit[1]) => \A w \in ToSet(unit) : IsLoose(w)
        /\ ToSet(rest) \subseteq SaidWords
    <2>1. /\ IsBody(section.text, section.of) /\ Whole(section.text)
          /\ ToSet(section.text) \subseteq SaidWords /\ document \in Documents
      BY <1>2 DEF AsRead, IInv
    <2> QED  BY <2>1, <1>3, UnitIsTaken
  <1>5. section'.text = rest /\ section'.of = section.of /\ section'.path = section.path
    <2>1. section \in [of : Nat, path : Seq(Names), text : Seq(Words)]
      BY LanesAreTexts DEF Sections
    <2> HIDE DEF rest
    <2> QED  BY <2>1, <1>3
  <1>6. InHand(unit)
    BY <1>4, BodyHasHeading DEF InHand, IsBody
  <1>7. AsRead(section')
    <2> HIDE DEF rest, unit
    <2> QED  BY <1>2, <1>4, <1>5 DEF AsRead
  <1> HIDE DEF rest
  <1> QED  BY <1>1, <1>2, <1>4, <1>5, <1>6, <1>7

LEMMA SentenceInHand ==
    ASSUME IInv, TextsAreSound, NEW n \in 1..Len(paragraph), TakesSentence(n)
    PROVE  LET sentence == SubSeq(paragraph, 1, n)
           IN  /\ InHand(sentence) /\ IsBody(sentence, section.of)
               /\ \A w \in ToSet(sentence) : IsLoose(w)
               /\ paragraph = sentence \o paragraph'
               /\ IsBody(paragraph', section.of)
               /\ \A w \in ToSet(paragraph') : IsLoose(w)
               /\ AsRead(section) /\ section' = section
               /\ ChunksStand /\ UNCHANGED <<next, stack, sections, merged>>
               /\ phase = "breaking" /\ phase' = "breaking"
  <1> DEFINE sentence == SubSeq(paragraph, 1, n)
             rest == After(paragraph, n)
  <1>1. /\ phase = "breaking" /\ paragraph' = rest /\ section' = section
        /\ ChunksStand /\ UNCHANGED <<next, stack, sections, merged>>
        /\ phase' = "breaking"
    BY DEF TakesSentence, ChunksStand
  <1>2. /\ AsRead(section) /\ IsBody(paragraph, section.of)
        /\ \A w \in ToSet(paragraph) : IsLoose(w)
    BY <1>1, HandsAreSound
  <1>3. paragraph \in Seq(Words) /\ Len(paragraph) \in Nat
    BY LanesAreTexts
  <1>4. /\ paragraph = sentence \o rest
        /\ ToSet(paragraph) = ToSet(sentence) \cup ToSet(rest)
    BY <1>3, Cut
  <1>5. IsBody(sentence, section.of) /\ IsBody(rest, section.of)
    <2>1. 1 \in Nat \ {0} /\ n \in Nat /\ n <= Len(paragraph) /\ n + 1 \in Nat \ {0}
          /\ Len(paragraph) <= Len(paragraph)
      BY <1>3
    <2>2. IsBody(SubSeq(paragraph, 1, n), section.of)
      BY <1>2, <2>1, BodySlice
    <2>3. IsBody(SubSeq(paragraph, n + 1, Len(paragraph)), section.of)
      BY <1>2, <1>3, <2>1, BodySlice
    <2> QED  BY <2>2, <2>3 DEF After
  <1> HIDE DEF sentence, rest
  <1>6. /\ \A w \in ToSet(sentence) : IsLoose(w)
        /\ \A w \in ToSet(rest) : IsLoose(w)
    BY <1>2, <1>4
  <1>7. InHand(sentence)
    BY <1>5, <1>6, BodyHasHeading, LooseIsWhole DEF InHand, IsBody
  <1> QED  BY <1>1, <1>2, <1>4, <1>5, <1>6, <1>7 DEF sentence

LEMMA NothingInHand ==
    /\ ToSet(<< >>) = {}
    /\ Whole(<< >>)
    /\ \A h : IsBody(<< >>, h)
  <1>1. ToSet(<< >>) = {}
    BY DEF ToSet
  <1> QED  BY <1>1, EmptyBody

LEMMA PackUnitSound ==
    ASSUME IInv, IInv', TextsAreSound, PackUnit
    PROVE  TextsAreSound'
  <1>1. PICK n \in 1..Len(section.text) :
            LET unit == SubSeq(section.text, 1, n)
                tokens == Estimate(unit)
            IN  /\ TakesUnit(n)
                /\ IF Full(tokens)
                   THEN bounded' = Flushed /\ current' = unit
                   ELSE current' = current \o unit /\ UNCHANGED bounded
                /\ UNCHANGED <<phase, paragraph>>
    BY DEF PackUnit
  <1> DEFINE unit == SubSeq(section.text, 1, n)
  <1>2. /\ InHand(unit) /\ section.text = unit \o section'.text
        /\ AsRead(section') /\ section'.of = section.of
        /\ ChunksStand /\ UNCHANGED <<next, stack, sections, merged>>
        /\ phase = "packing" /\ paragraph = << >>
        /\ phase' = "packing" /\ paragraph' = << >>
    BY <1>1, UnitInHand
  <1>3. IF Full(Estimate(unit)) THEN bounded' = Flushed /\ current' = unit
                                ELSE current' = current \o unit /\ UNCHANGED bounded
    BY <1>1
  <1> HIDE DEF unit
  <1>4. /\ TextsOf(bounded') \o current' = (TextsOf(bounded) \o current) \o unit
        /\ Whole(current') /\ \A w \in ToSet(current') : w.heading = section'.of
        /\ AllAreSound(bounded')
    BY <1>2, <1>3, PackedSound
  <1>5. (TextsOf(bounded') \o current') \o paragraph' = (TextsOf(bounded) \o current) \o unit
    <2> DEFINE b == TextsOf(bounded)
               u == current
               bu == b \o u
               all == bu \o unit
    <2>1. b \in Seq(Words) /\ u \in Seq(Words) /\ unit \in Seq(Words)
      BY <1>2, LanesAreTexts DEF InHand
    <2>2. bu \in Seq(Words)
      <3> HIDE DEF b, u
      <3> QED  BY <2>1, Concats
    <2>3. all \in Seq(Words)
      <3> HIDE DEF bu
      <3> QED  BY <2>1, <2>2, Concats
    <2>4. all \o << >> = all
      <3> HIDE DEF all
      <3> QED  BY <2>3, EmptyTexts
    <2> QED  BY <1>2, <1>4, <2>4
  <1>6. Middle' = Middle
    BY <1>2, <1>5, UnitMoved DEF InHand, ChunksStand
  <1>7. IsBody(paragraph', section'.of) /\ \A w \in ToSet(paragraph') : IsLoose(w)
    BY <1>2, NothingInHand
  <1> QED  BY <1>2, <1>4, <1>6, <1>7, PackingKeeps

LEMMA EmitAtomicSound ==
    ASSUME IInv, IInv', TextsAreSound, EmitAtomic
    PROVE  TextsAreSound'
  <1>1. PICK n \in 1..Len(section.text) :
            LET unit == SubSeq(section.text, 1, n)
            IN  /\ TakesUnit(n)
                /\ bounded' = Append(Flushed, Piece(unit))
                /\ current' = << >>
                /\ UNCHANGED <<phase, paragraph>>
    BY DEF EmitAtomic
  <1> DEFINE unit == SubSeq(section.text, 1, n)
  <1>2. /\ InHand(unit) /\ section.text = unit \o section'.text
        /\ AsRead(section') /\ section'.of = section.of
        /\ ChunksStand /\ UNCHANGED <<next, stack, sections, merged>>
        /\ phase = "packing" /\ paragraph = << >>
        /\ phase' = "packing" /\ paragraph' = << >> /\ current' = << >>
    BY <1>1, UnitInHand
  <1>3. bounded' = Append(Flushed, Piece(unit))
    BY <1>1
  <1> HIDE DEF unit
  <1>4. /\ Flushed \in Seq(Pieces) /\ AllAreSound(Flushed)
        /\ TextsOf(Flushed) = TextsOf(bounded) \o current /\ TextsOf(Flushed) \in Seq(Words)
        /\ Piece(unit) \in Pieces /\ IsSound(Piece(unit)) /\ Piece(unit).text = unit
    BY <1>2, FlushedSound, HandsAreSound, PieceIsSound
  <1>5. AllAreSound(bounded')
    BY <1>3, <1>4, AppendedSound
  <1>6. TextsOf(bounded') = TextsOf(Flushed) \o unit /\ TextsOf(bounded') \in Seq(Words)
    <2>1. TextsOf(bounded') = TextsOf(Flushed) \o Piece(unit).text
      BY <1>3, <1>4, HaveTexts, TextsAppend
    <2>2. TextsOf(bounded') \in Seq(Words)
      <3>1. bounded' \in Seq(Pieces)
        BY DEF IInv, TypeOK
      <3> QED  BY <3>1, HaveTexts, PartTexts
    <2> QED  BY <1>4, <2>1, <2>2
  <1>7. (TextsOf(bounded') \o current') \o paragraph' = (TextsOf(bounded) \o current) \o unit
    <2> DEFINE b == TextsOf(bounded')
    <2>1. (b \o << >>) \o << >> = b
      <3>1. b \in Seq(Words)
        BY <1>6
      <3> HIDE DEF b
      <3> QED  BY <3>1, EmptyTexts
    <2> QED  BY <1>2, <1>4, <1>6, <2>1
  <1>8. Middle' = Middle
    BY <1>2, <1>7, UnitMoved DEF InHand, ChunksStand
  <1>9. /\ IsBody(paragraph', section'.of) /\ \A w \in ToSet(paragraph') : IsLoose(w)
        /\ Whole(current') /\ \A w \in ToSet(current') : w.heading = section'.of
    BY <1>2, NothingInHand
  <1> QED  BY <1>2, <1>5, <1>8, <1>9, PackingKeeps

LEMMA BreakUnitSound ==
    ASSUME IInv, IInv', TextsAreSound, BreakUnit
    PROVE  TextsAreSound'
  <1>1. PICK n \in 1..Len(section.text) :
            LET unit == SubSeq(section.text, 1, n)
            IN  /\ TakesUnit(n)
                /\ ~Opens(unit[1])
                /\ bounded' = Flushed
                /\ current' = << >>
                /\ paragraph' = unit
                /\ phase' = "breaking"
    BY DEF BreakUnit
  <1> DEFINE unit == SubSeq(section.text, 1, n)
  <1>2. /\ InHand(unit) /\ IsBody(unit, section.of)
        /\ ~Opens(unit[1]) => \A w \in ToSet(unit) : IsLoose(w)
        /\ section.text = unit \o section'.text
        /\ AsRead(section') /\ section'.of = section.of
        /\ ChunksStand /\ UNCHANGED <<next, stack, sections, merged>>
        /\ phase = "packing"
    BY <1>1, UnitInHand
  <1>3. /\ ~Opens(unit[1]) /\ bounded' = Flushed /\ current' = << >> /\ paragraph' = unit
        /\ phase' = "breaking"
    BY <1>1
  <1> HIDE DEF unit
  <1>4. /\ AllAreSound(Flushed) /\ TextsOf(Flushed) = TextsOf(bounded) \o current
        /\ TextsOf(Flushed) \in Seq(Words)
    BY <1>2, FlushedSound
  <1>5. (TextsOf(bounded') \o current') \o paragraph' = (TextsOf(bounded) \o current) \o unit
    <2> DEFINE b == TextsOf(Flushed)
    <2>1. b \o << >> = b
      <3>1. b \in Seq(Words)
        BY <1>4
      <3> HIDE DEF b
      <3> QED  BY <3>1, EmptyTexts
    <2> QED  BY <1>3, <1>4, <2>1
  <1>6. Middle' = Middle
    BY <1>2, <1>5, UnitMoved DEF InHand, ChunksStand
  <1>7. /\ IsBody(paragraph', section'.of) /\ \A w \in ToSet(paragraph') : IsLoose(w)
        /\ Whole(current') /\ \A w \in ToSet(current') : w.heading = section'.of
    BY <1>2, <1>3, NothingInHand
  <1> QED  BY <1>2, <1>3, <1>4, <1>6, <1>7, PackingKeeps

LEMMA PackSentenceSound ==
    ASSUME IInv, IInv', TextsAreSound, PackSentence
    PROVE  TextsAreSound'
  <1>1. PICK n \in 1..Len(paragraph) :
            LET sentence == SubSeq(paragraph, 1, n)
                tokens == Estimate(sentence)
            IN  /\ TakesSentence(n)
                /\ IF Full(tokens)
                   THEN bounded' = Flushed /\ current' = sentence
                   ELSE current' = current \o sentence /\ UNCHANGED bounded
    BY DEF PackSentence
  <1> DEFINE sentence == SubSeq(paragraph, 1, n)
  <1>2. /\ InHand(sentence) /\ paragraph = sentence \o paragraph'
        /\ IsBody(paragraph', section.of) /\ \A w \in ToSet(paragraph') : IsLoose(w)
        /\ AsRead(section) /\ section' = section
        /\ ChunksStand /\ UNCHANGED <<next, stack, sections, merged>>
        /\ phase = "breaking" /\ phase' = "breaking"
    BY <1>1, SentenceInHand
  <1>3. IF Full(Estimate(sentence))
        THEN bounded' = Flushed /\ current' = sentence
        ELSE current' = current \o sentence /\ UNCHANGED bounded
    BY <1>1
  <1> HIDE DEF sentence
  <1>4. /\ TextsOf(bounded') \o current' = (TextsOf(bounded) \o current) \o sentence
        /\ Whole(current') /\ \A w \in ToSet(current') : w.heading = section'.of
        /\ AllAreSound(bounded')
    BY <1>2, <1>3, PackedSound
  <1>5. Middle' = Middle
    BY <1>2, <1>4, SentenceMoved DEF InHand, ChunksStand
  <1> QED  BY <1>2, <1>4, <1>5, PackingKeeps

(* splitByWords keeps the texts.                                           *)
LEMMA ChopSentenceSound ==
    ASSUME IInv, IInv', TextsAreSound, ChopSentence
    PROVE  TextsAreSound'
  <1>1. PICK n \in 1..Len(paragraph) :
            LET sentence == SubSeq(paragraph, 1, n)
                groups == (n + WordsPerGroup - 1) \div WordsPerGroup
            IN  /\ TakesSentence(n)
                /\ bounded' = Flushed \o [g \in 1..groups |-> Piece(WordGroup(sentence, g))]
                /\ current' = << >>
    BY DEF ChopSentence
  <1> DEFINE sentence == SubSeq(paragraph, 1, n)
             groups == (n + WordsPerGroup - 1) \div WordsPerGroup
             pieces == [g \in 1..groups |-> Piece(WordGroup(sentence, g))]
             texts == [i \in DOMAIN pieces |-> pieces[i].text]
  <1>2. /\ InHand(sentence) /\ IsBody(sentence, section.of)
        /\ \A w \in ToSet(sentence) : IsLoose(w)
        /\ paragraph = sentence \o paragraph'
        /\ IsBody(paragraph', section.of) /\ \A w \in ToSet(paragraph') : IsLoose(w)
        /\ AsRead(section) /\ section' = section
        /\ ChunksStand /\ UNCHANGED <<next, stack, sections, merged>>
        /\ phase = "breaking" /\ phase' = "breaking"
    BY <1>1, SentenceInHand
  <1>3. sentence \in Seq(Words) /\ Len(sentence) = n /\ n \in Nat \ {0}
    BY <1>1, TakenSentence
  <1>4. configuration \in Configurations /\ WordsPerGroup \in Nat \ {0}
    <2>1. configuration \in Configurations
      BY DEF IInv, TypeOK
    <2> QED  BY <2>1, GroupBudget, ConfigurationFields
  <1>5. groups \in Nat
    <2>1. \A m, w \in Nat \ {0} : (m + w - 1) \div w \in Nat
      BY SMT
    <2> QED  BY <1>3, <1>4, <2>1
  <1>6. ASSUME NEW g \in 1..groups
        PROVE  /\ Piece(WordGroup(sentence, g)) \in Pieces
               /\ IsSound(Piece(WordGroup(sentence, g)))
               /\ Piece(WordGroup(sentence, g)).text = WordGroup(sentence, g)
    <2> DEFINE text == WordGroup(sentence, g)
    <2>1. text \in Seq(Words)
      <3>1. g \in Nat \ {0}
        BY <1>5
      <3> HIDE DEF sentence, groups
      <3> QED  BY <1>3, <1>4, <3>1, GroupsFit
    <2>2. ToSet(text) \subseteq ToSet(sentence)
      <3> DEFINE size == WordsPerGroup
                 end == g * size
                 stop == IF end < Len(sentence) THEN end ELSE Len(sentence)
                 start == (g - 1) * size
      <3>1. end \in Nat /\ start \in Nat
        <4>1. g \in Nat /\ g - 1 \in Nat
          BY <1>5
        <4> HIDE DEF size, groups
        <4>2. size \in Nat
          BY <1>4 DEF size
        <4> QED  BY <4>1, <4>2
      <3>2. start + 1 \in Nat \ {0} /\ stop \in Nat /\ stop <= Len(sentence)
        <4> HIDE DEF start, end, sentence, groups
        <4>1. Len(sentence) \in Nat
          BY <1>3
        <4> QED  BY <3>1, <4>1
      <3>3. text = SubSeq(sentence, start + 1, stop)
        BY DEF WordGroup
      <3> HIDE DEF start, stop, end, sentence, text, groups
      <3> QED  BY <1>2, <3>2, <3>3, BodySlice
    <2> HIDE DEF text, sentence, groups
    <2>3. InHand(text)
      BY <1>2, <2>1, <2>2, LooseIsWhole DEF InHand
    <2>4. /\ Piece(text) \in Pieces /\ IsSound(Piece(text)) /\ Piece(text).text = text
      BY <1>2, <2>3, PieceIsSound
    <2> QED  BY <2>4 DEF text
  <1>7. /\ pieces \in Seq(Pieces) /\ Len(pieces) = groups /\ DOMAIN pieces = 1..groups
        /\ \A g \in 1..groups : pieces[g] = Piece(WordGroup(sentence, g))
    <2>1. pieces \in [1..groups -> Pieces] /\ DOMAIN pieces = 1..groups
          /\ \A g \in 1..groups : pieces[g] = Piece(WordGroup(sentence, g))
      BY <1>6
    <2> HIDE DEF pieces, groups
    <2> QED  BY <1>5, <2>1, SeqDef
  <1> HIDE DEF pieces
  <1>8. /\ texts \in Seq(Seq(Words)) /\ Len(texts) = groups
        /\ \A g \in 1..groups : texts[g] = WordGroup(sentence, g)
        /\ TextsOf(pieces) = FlattenSeq(texts)
    <2>1. /\ texts \in Seq(Seq(Words)) /\ Len(texts) = groups
      <3> HIDE DEF groups
      <3> QED  BY <1>7, HaveTexts, PartTexts
    <2>2. \A g \in 1..groups : texts[g] = WordGroup(sentence, g)
      <3> HIDE DEF groups, sentence
      <3> QED  BY <1>6, <1>7
    <2> QED  BY <2>1, <2>2 DEF TextsOf
  <1>9. TextsOf(pieces) = sentence
    <2>1. groups = (Len(sentence) + WordsPerGroup - 1) \div WordsPerGroup
          /\ Len(sentence) # 0
      BY <1>3
    <2> HIDE DEF groups, sentence, texts
    <2> QED  BY <1>3, <1>4, <1>8, <2>1, GroupsMakeTheText
  <1>10. bounded' = Flushed \o pieces /\ current' = << >>
    BY <1>1 DEF pieces
  <1>11. \A i \in DOMAIN pieces : IsSound(pieces[i])
    <2> HIDE DEF groups, sentence
    <2> QED  BY <1>6, <1>7
  <1> HIDE DEF sentence, groups, texts
  <1>12. /\ Flushed \in Seq(Pieces) /\ AllAreSound(Flushed)
         /\ TextsOf(Flushed) = TextsOf(bounded) \o current
    BY <1>2, FlushedSound
  <1>13. TextsOf(bounded') = (TextsOf(bounded) \o current) \o sentence
    <2>1. TextsOf(Flushed \o pieces) = TextsOf(Flushed) \o TextsOf(pieces)
      BY <1>7, <1>12, HaveTexts, TextsConcat
    <2> QED  BY <1>9, <1>10, <1>12, <2>1
  <1>14. TextsOf(bounded') \o current' = (TextsOf(bounded) \o current) \o sentence
    <2> DEFINE b == TextsOf(bounded')
    <2>1. b \in Seq(Words)
      <3>1. bounded' \in Seq(Pieces)
        BY DEF IInv, TypeOK
      <3> QED  BY <3>1, HaveTexts, PartTexts
    <2>2. b \o << >> = b
      <3> HIDE DEF b
      <3> QED  BY <2>1, EmptyTexts
    <2> QED  BY <1>10, <1>13, <2>2
  <1>15. AllAreSound(bounded')
    <2>1. /\ Len(Flushed) \in Nat /\ DOMAIN Flushed = 1..Len(Flushed)
          /\ Len(pieces) \in Nat /\ DOMAIN pieces = 1..Len(pieces)
      BY <1>7, <1>12, LenProperties
    <2>2. /\ Len(bounded') = Len(Flushed) + Len(pieces)
          /\ DOMAIN bounded' = 1..Len(bounded')
          /\ \A i \in 1..Len(Flushed) + Len(pieces) :
               bounded'[i] = IF i <= Len(Flushed) THEN Flushed[i]
                             ELSE pieces[i - Len(Flushed)]
      BY <1>7, <1>10, <1>12, ConcatProperties, LenProperties
    <2>3. ASSUME NEW i \in DOMAIN bounded'
          PROVE  IsSound(bounded'[i])
      <3>1. CASE i <= Len(Flushed)
        BY <1>12, <2>1, <2>2, <3>1 DEF AllAreSound
      <3>2. CASE ~(i <= Len(Flushed))
        <4>1. i - Len(Flushed) \in DOMAIN pieces
          BY <2>1, <2>2, <3>2
        <4> QED  BY <1>11, <2>1, <2>2, <3>2, <4>1
      <3> QED  BY <3>1, <3>2
    <2> QED  BY <2>3 DEF AllAreSound
  <1>16. Middle' = Middle
    BY <1>2, <1>14, SentenceMoved DEF InHand, ChunksStand
  <1>17. Whole(current') /\ \A w \in ToSet(current') : w.heading = section'.of
    BY <1>10, NothingInHand
  <1> QED  BY <1>2, <1>15, <1>16, <1>17, PackingKeeps

LEMMA EndsAreSound ==
    ASSUME IInv, IInv', TextsAreSound, EndParagraph \/ EndSection
    PROVE  TextsAreSound'
  <1>1. /\ bounded' = Flushed /\ current' = << >> /\ section' = section
        /\ paragraph' = paragraph
        /\ ChunksStand /\ UNCHANGED <<next, stack, sections, merged>>
    BY DEF EndParagraph, EndSection, Flush, ChunksStand
  <1>2. \/ phase = "breaking" /\ phase' = "packing" /\ paragraph = << >>
        \/ phase = "packing" /\ phase' = "splitting" /\ section.text = << >>
    BY DEF EndParagraph, EndSection, Flush
  <1>3. /\ AsRead(section)
        /\ phase = "packing" => paragraph = << >>
        /\ AllAreSound(Flushed)
        /\ TextsOf(Flushed) = TextsOf(bounded) \o current /\ TextsOf(Flushed) \in Seq(Words)
    BY <1>2, HandsAreSound, FlushedSound
  <1>4. Middle' = Middle
    <2>1. Middle' = ((TextsOf(bounded') \o current') \o paragraph') \o section'.text
      BY DEF Middle
    <2> DEFINE b == TextsOf(Flushed)
    <2>2. b \o << >> = b
      <3>1. b \in Seq(Words)
        BY <1>3
      <3> HIDE DEF b
      <3> QED  BY <3>1, EmptyTexts
    <2> QED  BY <1>1, <1>3, <2>1, <2>2 DEF Middle
  <1>5. paragraph' = << >>
    BY <1>1, <1>2, <1>3
  <1>6. /\ IsBody(paragraph', section'.of) /\ \A w \in ToSet(paragraph') : IsLoose(w)
        /\ Whole(current') /\ \A w \in ToSet(current') : w.heading = section'.of
    BY <1>1, <1>5, NothingInHand
  <1> QED  BY <1>1, <1>2, <1>3, <1>4, <1>5, <1>6, PackingKeeps

-----------------------------------------------------------------------------
(* Reading.                                                                *)

AreFour(a, b, c, d) ==
    a \in Seq(Words) /\ b \in Seq(Words) /\ c \in Seq(Words) /\ d \in Seq(Words)

(* What one loop takes from its lane, the lane before it gets.             *)
LEMMA HandedOn ==
    ASSUME NEW a, NEW b, NEW c, NEW d, AreFour(a, b, c, d)
    PROVE  (a \o b) \o (c \o d) = (a \o (b \o c)) \o d
  <1> DEFINE ab == a \o b
             bc == b \o c
  <1>1. /\ a \in Seq(Words) /\ b \in Seq(Words) /\ c \in Seq(Words) /\ d \in Seq(Words)
    BY DEF AreFour
  <1>2. ab \in Seq(Words) /\ bc \in Seq(Words) /\ ab \o c = a \o bc
    BY <1>1, Concats
  <1>3. (ab \o c) \o d = ab \o (c \o d)
    <2>1. ab \in Seq(Words) /\ c \in Seq(Words) /\ d \in Seq(Words)
      BY <1>1, <1>2
    <2> HIDE DEF ab
    <2> QED  BY <2>1, ConcatAssociative
  <1> QED  BY <1>2, <1>3

(* A fenced block is in one body.                                          *)
LEMMA BodiesAreWhole ==
    ASSUME document \in Documents
    PROVE  /\ Whole(document.preamble)
           /\ \A h \in DOMAIN document.headings : Whole(document.headings[h].body)
           /\ \A w \in SaidWords : w.line # 0
  <1>1. /\ \A w \in ToSet(document.preamble) : w.heading = 0 /\ w.line # 0
        /\ \A h \in DOMAIN document.headings : \A w \in ToSet(document.headings[h].body) :
              w.heading = h /\ w.line # 0
    <2>1. ASSUME NEW text, NEW h, IsBody(text, h)
          PROVE  \A w \in ToSet(text) : w.heading = h /\ w.line # 0
      <3>1. \A i \in DOMAIN text : text[i].line \in Nat /\ text[i].heading = h
                                     /\ text[i].line > 1
        <4>1. text \in Seq(Words) /\ \A i \in DOMAIN text : text[i] \in Words
          BY <2>1 DEF IsBody
        <4> QED  BY <2>1, <4>1 DEF IsBody, Words
      <3> QED  BY <3>1 DEF ToSet
    <2> QED  BY <2>1, BodyFields
  <1>2. \A h \in DOMAIN document.headings : h # 0
    BY HeadingFields
  <1>3. \A w \in SaidWords : \/ w \in ToSet(document.preamble)
                             \/ \E h \in DOMAIN document.headings :
                                    w \in ToSet(document.headings[h].body)
    BY DEF SaidWords
  <1>4. Whole(document.preamble)
    <2> SUFFICES ASSUME NEW v \in ToSet(document.preamble), NEW w \in SaidWords,
                        SameBlock(v, w)
                 PROVE  w \in ToSet(document.preamble)
      BY <1>1 DEF Whole
    <2>1. w.heading = 0
      BY <1>1 DEF SameBlock
    <2> QED  BY <1>1, <1>2, <1>3, <2>1
  <1>5. ASSUME NEW h \in DOMAIN document.headings
        PROVE  Whole(document.headings[h].body)
    <2> SUFFICES ASSUME NEW v \in ToSet(document.headings[h].body), NEW w \in SaidWords,
                        SameBlock(v, w)
                 PROVE  w \in ToSet(document.headings[h].body)
      BY <1>1 DEF Whole
    <2>1. w.heading = h
      BY <1>1 DEF SameBlock
    <2> QED  BY <1>1, <1>2, <1>3, <2>1
  <1> QED  BY <1>1, <1>3, <1>4, <1>5

(* A text without headings is all written.                                 *)
LEMMA WrittenIsAll ==
    ASSUME NEW text \in Seq(Words), \A w \in ToSet(text) : w.line # 0
    PROVE  Written(text) = text
  <1> DEFINE n == Len(text)
             parts == OneWordParts(text)
             f == [k \in 0..n |-> SubSeq(text, 1, k)]
  <1>1. /\ n \in Nat /\ DOMAIN text = 1..n
        /\ \A i \in 1..n : text[i] \in Words /\ text[i].line # 0
    BY LenProperties DEF ToSet
  <1>2. parts \in Seq(Seq(Words)) /\ Len(parts) = n /\ Written(text) = FlattenSeq(parts)
    BY WrittenIsText
  <1>3. \A i \in 1..n : parts[i] = <<text[i]>>
    BY <1>1 DEF OneWordParts
  <1>4. \A k \in 0..n : f[k] \in Seq(Words)
    <2> SUFFICES ASSUME NEW k \in 0..n PROVE SubSeq(text, 1, k) \in Seq(Words)
      OBVIOUS
    <2>1. \A i \in 1..k : text[i] \in Words
      BY <1>1
    <2> QED  BY <1>1, <2>1, SubSeqProperties
  <1>5. f[0] = << >>
    <2>1. SubSeq(text, 1, 0) = << >>
      OBVIOUS
    <2> QED  BY <1>1, <2>1
  <1>6. ASSUME NEW i \in 1..n
        PROVE  f[i] = f[i - 1] \o parts[i]
    <2>1. i - 1 \in 0..n /\ i \in 0..n /\ i - 1 \in Nat /\ i \in Nat /\ i - 1 <= i
          /\ i <= Len(text) /\ (i - 1) + 1 = i
      BY <1>1
    <2>2. SubSeq(text, 1, i) = SubSeq(text, 1, i - 1) \o SubSeq(text, (i - 1) + 1, i)
      BY <2>1, SlicesJoin
    <2>3. SubSeq(text, (i - 1) + 1, i) = <<text[i]>>
      <3>1. SubSeq(text, i, i) = <<text[i]>>
        <4>1. i \in Int /\ \A j \in i..i : text[j] \in Words
          BY <1>1
        <4>2. /\ SubSeq(text, i, i) \in Seq(Words)
              /\ Len(SubSeq(text, i, i)) = IF i <= i THEN (i - i) + 1 ELSE 0
              /\ \A j \in 1..(i - i) + 1 : SubSeq(text, i, i)[j] = text[(i + j) - 1]
          BY <4>1, SubSeqProperties
        <4> DEFINE t == SubSeq(text, i, i)
        <4>3. t \in Seq(Words) /\ Len(t) = 1 /\ t[1] = text[(i + 1) - 1]
          <5> HIDE DEF t
          <5> QED  BY <4>2, <4>1 DEF t
        <4>4. (i + 1) - 1 = i
          OBVIOUS
        <4>5. t = <<t[1]>>
          <5> HIDE DEF t
          <5> QED  BY <4>3
        <4> QED  BY <4>3, <4>4, <4>5
      <3> QED  BY <2>1, <3>1
    <2>4. f[i] = SubSeq(text, 1, i) /\ f[i - 1] = SubSeq(text, 1, i - 1)
      BY <2>1
    <2> QED  BY <1>3, <2>2, <2>3, <2>4
  <1>7. Flattens(Words, parts, f)
    <2>1. f \in [0..n -> Seq(Words)]
      BY <1>4
    <2> HIDE DEF f, parts
    <2> QED  BY <1>2, <1>5, <1>6, <2>1 DEF Flattens
  <1>8. f[n] = text
    <2>1. SubSeq(text, 1, Len(text)) = text
      BY SubSeqFull
    <2> QED  BY <1>1, <2>1
  <1> HIDE DEF f, parts
  <1> QED  BY <1>2, <1>7, <1>8, FlattenIs

LEMMA InitIsSound ==
    ASSUME Init
    PROVE  TextsAreSound
  <1>1. IInv /\ document \in Documents
    BY InitHolds DEF IInv
  <1>2. /\ document.preamble \in Seq(Words) /\ IsBody(document.preamble, 0)
        /\ Whole(document.preamble)
    BY <1>1, DocumentFields, BodyFields, BodiesAreWhole
  <1> DEFINE first == [of |-> 0, path |-> <<Title>>, text |-> document.preamble]
  <1>3. /\ phase = "reading" /\ next = 1 /\ stack = << >> /\ merged = << >>
        /\ section.text = << >> /\ paragraph = << >> /\ current = << >>
        /\ bounded = << >> /\ chunks = << >>
        /\ sections = IF document.preamble = << >> THEN << >> ELSE <<first>>
    BY DEF Init
  <1>4. AsRead(first)
    <2>1. ToSet(document.preamble) \subseteq SaidWords
      BY DEF SaidWords
    <2>2. Paths[0] = <<Title>>
      BY DEF Paths
    <2> QED  BY <1>2, <2>1, <2>2 DEF AsRead
  <1>5. TextsOf(sections) = document.preamble
    <2>1. first.text = document.preamble
      OBVIOUS
    <2> HIDE DEF first
    <2>2. TextsOf(<<first>>) = document.preamble /\ TextsOf(<< >>) = << >>
      BY <1>2, <2>1, TextsOfOne
    <2> QED  BY <1>3, <2>2
  <1>6. \A i \in DOMAIN sections : AsRead(sections[i])
    <2> HIDE DEF first
    <2> QED  BY <1>3, <1>4
  <1>7. StackFits
    <2>1. next - 1 = 0
      BY <1>3
    <2>2. Open(0) = {}
      BY DEF Open
    <2>3. AreAround(<< >>, 0)
      <3>1. << >> \in Seq(Nat) /\ DOMAIN << >> = {}
        OBVIOUS
      <3>2. Ascending(<< >>)
        BY DEF Ascending
      <3> QED  BY <2>2, <3>1, <3>2, NothingInHand DEF AreAround
    <2>4. MarksOf(<< >>) = << >>
      BY DEF MarksOf
    <2> QED  BY <1>3, <2>1, <2>3, <2>4 DEF StackFits
  <1>8. PackingIsSound
    BY <1>3, NothingInHand DEF PackingIsSound
  <1>9. Written(UnderWay) = Said
    <2>1. TextsOf(bounded) = << >> /\ TextsOf(chunks) = << >> /\ TextsOf(merged) = << >>
      <3>1. TextsOf(<< >>) = << >>
        BY DEF TextsOf, FlattenSeq
      <3> QED  BY <1>3, <3>1
    <2>2. << >> \o << >> = << >>
      BY EmptyTexts
    <2>3. UnderWay = (<< >> \o document.preamble) \o BodiesFrom(1)
      BY <1>3, <1>5, <2>1, <2>2 DEF UnderWay
    <2>4. UnderWay = Said
      BY <1>2, <2>3, EmptyTexts DEF Said
    <2>5. Written(Said) = Said
      BY <1>1, FileSaysOnce, BodiesAreWhole, WrittenIsAll
    <2> QED  BY <2>4, <2>5
  <1>10. /\ AllAreSound(bounded) /\ AllAreSound(chunks)
         /\ \A i \in DOMAIN merged : IsMerged(merged[i])
    BY <1>3 DEF AllAreSound
  <1> QED  BY <1>6, <1>7, <1>8, <1>9, <1>10 DEF TextsAreSound

(* Steps outside packing have nothing in hand.                             *)
LEMMA OutsidePacking ==
    ASSUME IInv, TextsAreSound, document' = document, configuration' = configuration,
           UNCHANGED packing,
           phase \notin {"packing", "breaking"}, phase' \notin {"packing", "breaking"},
           \A i \in DOMAIN sections' : AsRead(sections'[i]),
           \A i \in DOMAIN merged' : IsMerged(merged'[i]),
           \E s : AreAround(s, next' - 1) /\ stack' = MarksOf(s),
           AllAreSound(bounded'), AllAreSound(chunks'),
           Written(UnderWay') = Said
    PROVE  TextsAreSound'
  <1>1. PackingIsSound
    BY SoundNow
  <1>2. /\ document' = document /\ configuration' = configuration
        /\ section' = section /\ paragraph' = paragraph /\ current' = current
    BY DEF packing
  <1>3. /\ phase' # "breaking" => paragraph' = << >>
        /\ phase' \notin {"packing", "breaking"} => current' = << >> /\ section'.text = << >>
        /\ IsBody(paragraph', section'.of) /\ \A w \in ToSet(paragraph') : IsLoose(w)
        /\ Whole(current') /\ \A w \in ToSet(current') : w.heading = section'.of
    BY <1>1, <1>2 DEF PackingIsSound
  <1> QED  BY <1>2, <1>3, TextsRestated

LEMMA OutsideIs ==
    ASSUME IInv, TextsAreSound, phase \notin {"packing", "breaking"}
    PROVE  Middle = TextsOf(bounded)
  <1>1. current = << >> /\ section.text = << >> /\ paragraph = << >>
    BY SoundNow DEF PackingIsSound
  <1> DEFINE b == TextsOf(bounded)
  <1>2. ((b \o << >>) \o << >>) \o << >> = b
    <2>1. b \in Seq(Words)
      BY LanesAreTexts
    <2> HIDE DEF b
    <2> QED  BY <2>1, EmptyTexts
  <1> QED  BY <1>1, <1>2 DEF Middle

(* A step of buildSections keeps the texts.                                *)
LEMMA ReadHeadingSound ==
    ASSUME IInv, IInv', TextsAreSound, ReadHeading
    PROVE  TextsAreSound'
  <1>1. /\ document \in Documents /\ next \in 1..Len(document.headings)
        /\ Len(document.headings) \in Nat
        /\ DOMAIN document.headings = 1..Len(document.headings)
    BY HeadingFields DEF IInv, TypeOK, ReadHeading
  <1> DEFINE heading == document.headings[next]
             body == heading.body
             mark == [level |-> heading.level, name |-> heading.name]
             added == [of |-> next, path |-> PathTo(stack'), text |-> body]
  <1>2. PICK n \in 0..Len(stack) : /\ Encloses(n, heading)
                                   /\ stack' = Append(SubSeq(stack, 1, n), mark)
    BY DEF ReadHeading
  <1>3. PICK s : AreAround(s, next) /\ stack' = MarksOf(s)
    <2>1. \E s : AreAround(s, next) /\ Append(SubSeq(stack, 1, n), mark) = MarksOf(s)
      BY <1>1, <1>2, StackGrows DEF TextsAreSound
    <2> QED  BY <1>2, <2>1
  <1>4. /\ phase = "reading" /\ phase' = "reading" /\ next' = next + 1
        /\ ChunksStand /\ UNCHANGED packing
        /\ merged' = merged /\ bounded' = bounded /\ chunks' = chunks
        /\ sections' = IF body = << >>
                          /\ next < Len(document.headings)
                          /\ document.headings[next + 1].level > heading.level
                       THEN sections ELSE Append(sections, added)
    BY DEF ReadHeading, ChunksStand
  <1>5. next' - 1 = next
    BY <1>1, <1>4
  <1>6. AsRead(added)
    <2>1. IsBody(body, next) /\ Whole(body)
      BY <1>1, BodyFields, BodiesAreWhole
    <2>2. PathTo(stack') = Paths[next]
      BY <1>1, <1>3, PathIsOfNames
    <2>3. ToSet(body) \subseteq SaidWords
      BY <1>1 DEF SaidWords
    <2> HIDE DEF body
    <2> QED  BY <2>1, <2>2, <2>3 DEF AsRead
  <1>7. /\ body \in Seq(Words) /\ BodiesFrom(next + 1) \in Seq(Words)
        /\ BodiesFrom(next) = body \o BodiesFrom(next + 1)
    BY <1>1, NextBody
  <1>8. added.text = body /\ added \in Sections
    <2>1. next \in Nat
      BY <1>1
    <2>2. PathTo(stack') \in Seq(Names)
      <3>1. stack' \in Seq(Marks)
        BY DEF IInv, TypeOK, Marks
      <3> QED  BY <1>1, <3>1, PathIsNames
    <2> HIDE DEF body
    <2> QED  BY <1>7, <2>1, <2>2 DEF Sections
  <1> HIDE DEF added, body
  <1>9. sections \in Seq(Sections) /\ \A i \in DOMAIN sections : AsRead(sections[i])
    BY LanesAreTexts, SoundNow
  <1>10. /\ \A i \in DOMAIN sections' : AsRead(sections'[i])
         /\ TextsOf(sections') = TextsOf(sections) \o body
    <2>1. CASE sections' = sections /\ body = << >>
      <3>1. TextsOf(sections) \in Seq(Words)
        BY LanesAreTexts
      <3> QED  BY <1>9, <2>1, <3>1, EmptyTexts
    <2>2. CASE sections' = Append(sections, added)
      <3>1. TextsOf(Append(sections, added)) = TextsOf(sections) \o added.text
        BY <1>8, <1>9, HaveTexts, TextsAppend
      <3>2. \A i \in DOMAIN Append(sections, added) : AsRead(Append(sections, added)[i])
        BY <1>6, <1>8, <1>9
      <3> QED  BY <1>8, <2>2, <3>1, <3>2
    <2>3. \/ sections' = sections /\ body = << >>
          \/ sections' = Append(sections, added)
      BY <1>4
    <2> QED  BY <2>1, <2>2, <2>3
  <1>11. UnderWay' = UnderWay
    <2>1. Middle' = Middle
      BY <1>4 DEF packing, Middle
    <2> DEFINE a == (TextsOf(chunks) \o Middle) \o TextsOf(merged)
               c == TextsOf(sections)
               d == BodiesFrom(next + 1)
    <2>2. UnderWay = (a \o c) \o (body \o d)
      BY <1>7, UnderWayIs
    <2>3. UnderWay' = (a \o (c \o body)) \o d
      BY <1>4, <1>10, <2>1, UnderWayWillBe DEF ChunksStand
    <2>4. AreFour(a, c, body, d)
      <3>1. c \in Seq(Words) /\ d \in Seq(Words)
        BY <1>7, LanesAreTexts
      <3>2. a \in Seq(Words)
        <4> DEFINE x == TextsOf(chunks)
                   y == TextsOf(merged)
                   xm == x \o Middle
        <4>1. x \in Seq(Words) /\ Middle \in Seq(Words) /\ y \in Seq(Words)
          BY LanesAreTexts
        <4>2. xm \in Seq(Words)
          <5> HIDE DEF x
          <5> QED  BY <4>1, Concats
        <4>3. xm \o y \in Seq(Words)
          <5> HIDE DEF xm, y
          <5> QED  BY <4>1, <4>2, Concats
        <4> QED  BY <4>3
      <3> QED  BY <1>7, <3>1, <3>2 DEF AreFour
    <2> HIDE DEF a, c, d
    <2> QED  BY <2>2, <2>3, <2>4, HandedOn
  <1> QED  BY <1>3, <1>4, <1>5, <1>10, <1>11, SoundNow, OutsidePacking DEF ChunksStand

-----------------------------------------------------------------------------
(* Merging.                                                                *)

LEMMA ConcatAt ==
    ASSUME NEW S, NEW s \in Seq(S), NEW t \in Seq(S)
    PROVE  /\ DOMAIN (s \o t) = 1..Len(s) + Len(t) /\ Len(s \o t) = Len(s) + Len(t)
           /\ \A i \in 1..Len(s) : (s \o t)[i] = s[i]
           /\ \A i \in 1..Len(t) : (s \o t)[Len(s) + i] = t[i]
  <1>1. /\ s \o t \in Seq(S) /\ Len(s \o t) = Len(s) + Len(t)
        /\ \A i \in 1..Len(s) + Len(t) :
              (s \o t)[i] = IF i <= Len(s) THEN s[i] ELSE t[i - Len(s)]
    BY ConcatProperties
  <1>2. Len(s) \in Nat /\ Len(t) \in Nat
    BY LenProperties
  <1> DEFINE st == s \o t
  <1>3. DOMAIN st = 1..Len(st)
    <2>1. st \in Seq(S)
      BY <1>1
    <2> HIDE DEF st
    <2> QED  BY <2>1, LenProperties
  <1>4. ASSUME NEW i \in 1..Len(s) PROVE (s \o t)[i] = s[i]
    BY <1>1, <1>2
  <1>5. ASSUME NEW i \in 1..Len(t) PROVE (s \o t)[Len(s) + i] = t[i]
    <2>1. /\ Len(s) + i \in 1..Len(s) + Len(t) /\ ~(Len(s) + i <= Len(s))
          /\ (Len(s) + i) - Len(s) = i
      BY <1>2
    <2> QED  BY <1>1, <2>1
  <1> QED  BY <1>1, <1>3, <1>4, <1>5

(* A section that grows says what it said and what the one it takes in     *)
(* said, whose heading it has written before it.                           *)
LEMMA CombinedIsSound ==
    ASSUME NEW previous \in Sections, NEW s \in Sections, IsSound(previous), AsRead(s)
    PROVE  LET text == Combined(previous, s)
           IN  /\ text \in Seq(Words)
               /\ Whole(text) /\ Knows(previous.path, text)
               /\ Written(text) = Written(previous.text) \o Written(s.text)
  <1> DEFINE p == previous.text
             line == HeadingLine(s.of)
             t == s.text
             pl == p \o line
             text == pl \o t
  <1>1. /\ p \in Seq(Words) /\ line \in Seq(Words) /\ t \in Seq(Words)
        /\ Written(line) = << >>
    <2>1. s.of \in Nat
      BY DEF Sections
    <2> QED  BY <2>1, HaveTexts, HeadingLineIsNotWritten
  <1>2. /\ Len(line) = 2 /\ DOMAIN line = 1..2
        /\ \A i \in 1..2 : /\ line[i].heading = s.of /\ line[i].line = 0 /\ line[i].block = 0
    BY DEF HeadingLine
  <1>3. /\ Whole(p) /\ Whole(t) /\ \A i \in DOMAIN t : t[i].heading = s.of
        /\ Knows(previous.path, p)
    BY DEF IsSound, AsRead, IsBody
  <1>4. Combined(previous, s) = text
    BY DEF Combined
  <1> HIDE DEF p, line, t
  <1>5. Whole(line)
    <2>1. \A w \in ToSet(line) : IsLoose(w)
      BY <1>2 DEF ToSet, IsLoose, ToldWords
    <2> QED  BY <2>1, LooseIsWhole
  <1>6. pl \in Seq(Words) /\ text \in Seq(Words)
    <2>1. pl \in Seq(Words)
      BY <1>1, Concats
    <2> HIDE DEF pl
    <2> QED  BY <1>1, <2>1, Concats
  <1>7. Whole(text)
    <2>1. Whole(pl)
      BY <1>1, <1>3, <1>5, JoinedIsWhole
    <2> HIDE DEF pl
    <2> QED  BY <1>1, <1>3, <1>6, <2>1, JoinedIsWhole
  <1>8. Written(text) = Written(p) \o Written(t)
    <2>1. Written(pl) = Written(p) \o Written(line)
      BY <1>1, WrittenConcat
    <2>2. Written(p) \o << >> = Written(p)
      <3>1. Written(p) \in Seq(Words)
        BY <1>1, WrittenIsText
      <3> QED  BY <3>1, EmptyTexts
    <2>3. Written(text) = Written(pl) \o Written(t)
      <3> HIDE DEF pl
      <3> QED  BY <1>1, <1>6, WrittenConcat
    <2> QED  BY <1>1, <2>1, <2>2, <2>3
  <1>9. Knows(previous.path, text)
    <2>1. /\ Len(p) \in Nat /\ DOMAIN p = 1..Len(p)
          /\ Len(t) \in Nat /\ DOMAIN t = 1..Len(t)
      BY <1>1, LenProperties
    <2>2. /\ Len(pl) = Len(p) + 2
          /\ \A i \in 1..Len(p) : pl[i] = p[i]
          /\ \A i \in 1..2 : pl[Len(p) + i] = line[i]
      <3>1. /\ Len(p \o line) = Len(p) + Len(line)
            /\ \A i \in 1..Len(p) : (p \o line)[i] = p[i]
            /\ \A i \in 1..Len(line) : (p \o line)[Len(p) + i] = line[i]
        BY <1>1, ConcatAt
      <3>2. Len(line) = 2
        BY <1>2
      <3> QED  BY <3>1, <3>2
    <2>3. /\ DOMAIN text = 1..(Len(p) + 2) + Len(t)
          /\ \A i \in 1..Len(p) + 2 : text[i] = pl[i]
          /\ \A i \in 1..Len(t) : text[(Len(p) + 2) + i] = t[i]
      <3> HIDE DEF pl
      <3>1. /\ DOMAIN (pl \o t) = 1..Len(pl) + Len(t)
            /\ \A i \in 1..Len(pl) : (pl \o t)[i] = pl[i]
            /\ \A i \in 1..Len(t) : (pl \o t)[Len(pl) + i] = t[i]
        BY <1>1, <1>6, ConcatAt
      <3> QED  BY <2>2, <3>1
    <2> HIDE DEF pl, text
    <2>4. /\ \A i \in 1..Len(p) : text[i] = p[i]
          /\ \A i \in 1..2 : text[Len(p) + i] = line[i]
      <3>1. ASSUME NEW i \in 1..Len(p) PROVE text[i] = p[i]
        <4>1. i \in 1..Len(p) + 2
          BY <2>1
        <4> QED  BY <2>2, <2>3, <4>1
      <3>2. ASSUME NEW i \in 1..2 PROVE text[Len(p) + i] = line[i]
        <4>1. Len(p) + i \in 1..Len(p) + 2
          BY <2>1
        <4> QED  BY <2>2, <2>3, <4>1
      <3> QED  BY <3>1, <3>2
    <2>5. SUFFICES ASSUME NEW i \in DOMAIN text
                   PROVE  \/ previous.path = Paths[text[i].heading]
                          \/ \E h \in 1..i : /\ text[h].heading = text[i].heading
                                             /\ text[h].line = 0
      BY DEF Knows
    <2>6. CASE i <= Len(p)
      <3>1. i \in 1..Len(p) /\ text[i] = p[i] /\ \A h \in 1..i : text[h] = p[h]
        BY <2>1, <2>3, <2>4, <2>6
      <3> QED  BY <1>3, <2>1, <3>1 DEF Knows
    <2>7. CASE i > Len(p) /\ i <= Len(p) + 2
      <3>1. i - Len(p) \in 1..2 /\ Len(p) + (i - Len(p)) = i /\ i \in 1..i
        BY <2>1, <2>3, <2>7
      <3>2. text[i] = line[i - Len(p)]
        BY <2>4, <3>1
      <3> QED  BY <1>2, <3>1, <3>2
    <2>8. CASE i > Len(p) + 2
      <3>1. /\ i - (Len(p) + 2) \in 1..Len(t) /\ (Len(p) + 2) + (i - (Len(p) + 2)) = i
            /\ Len(p) + 1 \in 1..i
        BY <2>1, <2>3, <2>8
      <3>2. text[i] = t[i - (Len(p) + 2)]
        BY <2>3, <3>1
      <3>3. text[i].heading = s.of
        BY <1>3, <2>1, <3>1, <3>2
      <3>4. text[Len(p) + 1] = line[1]
        BY <2>4
      <3> QED  BY <1>2, <3>1, <3>3, <3>4
    <2> QED  BY <2>1, <2>3, <2>6, <2>7, <2>8
  <1> QED  BY <1>4, <1>6, <1>7, <1>8, <1>9 DEF p, t

LEMMA FrontAndLast ==
    ASSUME NEW S, NEW p \in Seq(S), p # << >>
    PROVE  LET front == SubSeq(p, 1, Len(p) - 1)
           IN  /\ front \in Seq(S) /\ Len(front) = Len(p) - 1
               /\ \A i \in 1..Len(p) - 1 : front[i] = p[i]
               /\ p = Append(front, p[Len(p)])
  <1> DEFINE n == Len(p)
             front == SubSeq(p, 1, n - 1)
  <1>1. /\ n \in Nat \ {0} /\ DOMAIN p = 1..n /\ \A i \in 1..n : p[i] \in S
    BY LenProperties, EmptySeq
  <1>2. front \in Seq(S) /\ Len(front) = n - 1 /\ \A i \in 1..n - 1 : front[i] = p[i]
    <2>1. n - 1 \in Nat /\ n - 1 \in Int /\ \A i \in 1..n - 1 : p[i] \in S
      <3> HIDE DEF n
      <3> QED  BY <1>1
    <2> DEFINE m == n - 1
    <2>2. m \in Nat /\ 1 \in Int /\ m \in Int /\ \A i \in 1..m : p[i] \in S
      BY <2>1
    <2>3. /\ SubSeq(p, 1, m) \in Seq(S) /\ Len(SubSeq(p, 1, m)) = m
          /\ \A i \in 1..m : SubSeq(p, 1, m)[i] = p[i]
      <3> HIDE DEF m
      <3>1. /\ SubSeq(p, 1, m) \in Seq(S)
            /\ Len(SubSeq(p, 1, m)) = IF 1 <= m THEN (m - 1) + 1 ELSE 0
            /\ \A i \in 1..(m - 1) + 1 : SubSeq(p, 1, m)[i] = p[(1 + i) - 1]
        BY <2>2, SubSeqProperties
      <3>2. (m - 1) + 1 = m /\ \A i \in 1..m : (1 + i) - 1 = i
        BY <2>2
      <3>3. Len(SubSeq(p, 1, m)) = m
        BY <2>2, <3>1, <3>2
      <3> QED  BY <3>1, <3>2, <3>3
    <2> QED  BY <2>3
  <1> HIDE DEF front, n
  <1>3. /\ Append(front, p[n]) \in Seq(S) /\ Len(Append(front, p[n])) = n
        /\ \A i \in 1..n : Append(front, p[n])[i] = IF i = n THEN p[n] ELSE front[i]
    <2>1. p[n] \in S /\ (n - 1) + 1 = n
      BY <1>1
    <2>2. /\ Append(front, p[n]) \in Seq(S) /\ Len(Append(front, p[n])) = Len(front) + 1
          /\ \A i \in 1..Len(front) : Append(front, p[n])[i] = front[i]
          /\ Append(front, p[n])[Len(front) + 1] = p[n]
      BY <1>2, <2>1, AppendProperties
    <2>3. \A i \in 1..n : i = n \/ i \in 1..n - 1
      BY <1>1
    <2> QED  BY <1>2, <2>1, <2>2, <2>3
  <1>4. \A i \in 1..n : Append(front, p[n])[i] = p[i]
    <2>1. \A i \in 1..n : i = n \/ i \in 1..n - 1
      BY <1>1
    <2> QED  BY <1>2, <1>3, <2>1
  <1>5. Append(front, p[n]) = p
    BY <1>3, <1>4, SeqEqual DEF n
  <1> QED  BY <1>2, <1>5 DEF front, n

(* A section that is merged goes to the end of the lane or into its last.  *)
LEMMA MergedIsSound ==
    ASSUME IInv, IInv', TextsAreSound, MergeSection
    PROVE  /\ \A i \in DOMAIN merged' : IsMerged(merged'[i])
           /\ Written(TextsOf(merged')) =
                Written(TextsOf(merged)) \o Written(Head(sections).text)
  <1> DEFINE s == Head(sections)
             last == Len(merged)
  <1>1. /\ merged \in Seq(Sections) /\ sections \in Seq(Sections) /\ sections # << >>
        /\ s \in Sections /\ AsRead(s) /\ last \in Nat /\ DOMAIN merged = 1..last
        /\ \A i \in DOMAIN merged : IsMerged(merged[i])
    <2>1. merged \in Seq(Sections) /\ sections \in Seq(Sections) /\ sections # << >>
      BY LanesAreTexts DEF MergeSection
    <2>2. s \in Sections /\ s = sections[1] /\ 1 \in DOMAIN sections
      BY <2>1
    <2> QED  BY <2>1, <2>2, SoundNow, LenProperties
  <1>2. merged' = IF last > 0 /\ Folds(merged[last], s)
                  THEN [merged EXCEPT ![last].text = Combined(merged[last], s)]
                  ELSE Append(merged, s)
    BY DEF MergeSection
  <1> HIDE DEF s
  <1>3. CASE ~(last > 0 /\ Folds(merged[last], s))
    <2>1. merged' = Append(merged, s)
      BY <1>2, <1>3
    <2>2. IsMerged(s)
      BY <1>1, ReadIsSound DEF IsMerged
    <2>3. TextsOf(merged') = TextsOf(merged) \o s.text
      BY <1>1, <2>1, HaveTexts, TextsAppend
    <2>4. TextsOf(merged) \in Seq(Words) /\ s.text \in Seq(Words)
      BY <1>1, LanesAreTexts, HaveTexts
    <2>5. Written(TextsOf(merged')) = Written(TextsOf(merged)) \o Written(s.text)
      <3> DEFINE g == TextsOf(merged)
      <3>1. Written(g \o s.text) = Written(g) \o Written(s.text)
        <4> HIDE DEF g
        <4> QED  BY <2>4, WrittenConcat DEF g
      <3> QED  BY <2>3, <3>1
    <2>6. \A i \in DOMAIN merged' : IsMerged(merged'[i])
      BY <1>1, <2>1, <2>2
    <2> QED  BY <2>5, <2>6 DEF s
  <1>4. CASE last > 0 /\ Folds(merged[last], s)
    <2> DEFINE old == merged[last]
               text == Combined(old, s)
               grown == [old EXCEPT !.text = text]
               front == SubSeq(merged, 1, last - 1)
    <2>1. old \in Sections /\ IsMerged(old) /\ last \in 1..last
      BY <1>1, <1>4
    <2>2. /\ text \in Seq(Words) /\ Whole(text) /\ Knows(old.path, text)
          /\ Written(text) = Written(old.text) \o Written(s.text)
      BY <1>1, <2>1, CombinedIsSound DEF IsMerged
    <2>3. Estimate(text) <= configuration.maximum
      BY <1>4 DEF Folds
    <2> HIDE DEF text
    <2>4. grown \in Sections /\ grown.text = text /\ grown.path = old.path
      BY <2>1, <2>2 DEF Sections
    <2>5. IsMerged(grown)
      <3> HIDE DEF grown
      <3> QED  BY <2>2, <2>3, <2>4 DEF IsMerged, IsSound
    <2>6. /\ merged' = [merged EXCEPT ![last] = grown]
          /\ Len(merged') = last /\ DOMAIN merged' = 1..last /\ merged'[last] = grown
          /\ \A i \in 1..last : i # last => merged'[i] = merged[i]
      <3>1. merged' = [merged EXCEPT ![last] = grown]
        BY <1>2, <1>4 DEF text
      <3> HIDE DEF grown, last
      <3>2. merged' \in Seq(Sections) /\ Len(merged') = last
        BY <1>1, <2>1, <2>4, <3>1 DEF last
      <3> QED  BY <1>1, <2>1, <3>1, <3>2
    <2> HIDE DEF grown
    <2>7. \A i \in DOMAIN merged' : IsMerged(merged'[i])
      BY <1>1, <2>5, <2>6
    <2>8. front \in Seq(Sections) /\ merged = Append(front, old) /\ merged' = Append(front, grown)
      <3>1. /\ front \in Seq(Sections) /\ Len(front) = last - 1
            /\ \A i \in 1..last - 1 : front[i] = merged[i]
            /\ merged = Append(front, old)
        <4>1. merged # << >>
          BY <1>4
        <4> QED  BY <1>1, <4>1, FrontAndLast
      <3> DEFINE after == SubSeq(merged', 1, last - 1)
      <3>2. /\ after \in Seq(Sections) /\ Len(after) = last - 1
            /\ \A i \in 1..last - 1 : after[i] = merged'[i]
            /\ merged' = Append(after, grown)
        <4>1. merged' \in Seq(Sections)
          BY DEF IInv, TypeOK
        <4>2. merged' # << >>
          <5> HIDE DEF last
          <5> QED  BY <1>4, <2>6
        <4>3. LET rest == SubSeq(merged', 1, Len(merged') - 1)
              IN  /\ rest \in Seq(Sections) /\ Len(rest) = Len(merged') - 1
                  /\ \A i \in 1..Len(merged') - 1 : rest[i] = merged'[i]
                  /\ merged' = Append(rest, merged'[Len(merged')])
          BY <4>1, <4>2, FrontAndLast
        <4> HIDE DEF last
        <4> QED  BY <2>6, <4>3
      <3> HIDE DEF front, after, old
      <3>3. \A i \in 1..last - 1 : after[i] = front[i]
        <4>1. \A i \in 1..last - 1 : i \in 1..last /\ i # last
          <5> HIDE DEF last
          <5> QED  BY <1>1
        <4> QED  BY <2>6, <3>1, <3>2, <4>1
      <3>4. after = front
        BY <3>1, <3>2, <3>3, SeqEqual
      <3> QED  BY <3>1, <3>2, <3>4
    <2> DEFINE f == TextsOf(front)
               o == old.text
    <2>9. /\ f \in Seq(Words) /\ o \in Seq(Words) /\ s.text \in Seq(Words)
          /\ TextsOf(merged) = f \o o /\ TextsOf(merged') = f \o text
      <3>1. TextsOf(Append(front, old)) = f \o o /\ TextsOf(Append(front, grown)) = f \o grown.text
            /\ f \in Seq(Words)
        <4> HIDE DEF front, old
        <4> QED  BY <2>1, <2>4, <2>8, HaveTexts, TextsAppend, PartTexts
      <3> QED  BY <1>1, <2>1, <2>4, <2>8, <3>1, HaveTexts
    <2>10. Written(o \o s.text) = Written(o) \o Written(s.text)
           /\ Written(f \o o) = Written(f) \o Written(o)
           /\ Written(f \o text) = Written(f) \o Written(text)
      <3> HIDE DEF f, o
      <3> QED  BY <2>2, <2>9, WrittenConcat
    <2>11. Written(f) \in Seq(Words) /\ Written(o) \in Seq(Words) /\ Written(s.text) \in Seq(Words)
      <3> HIDE DEF f, o
      <3> QED  BY <2>9, WrittenIsText
    <2>12. Written(f) \o (Written(o) \o Written(s.text))
              = (Written(f) \o Written(o)) \o Written(s.text)
      <3> DEFINE x == Written(f)
                 y == Written(o)
                 z == Written(s.text)
      <3>1. (x \o y) \o z = x \o (y \o z)
        <4>1. x \in Seq(Words) /\ y \in Seq(Words) /\ z \in Seq(Words)
          BY <2>11
        <4> HIDE DEF x, y, z
        <4> QED  BY <4>1, ConcatAssociative
      <3> QED  BY <3>1
    <2>13. Written(TextsOf(merged')) = Written(TextsOf(merged)) \o Written(s.text)
      BY <2>2, <2>9, <2>10, <2>12
    <2> QED  BY <2>7, <2>13 DEF s
  <1> QED  BY <1>3, <1>4

LEMMA WrittenLanes ==
    ASSUME NEW a, NEW g, NEW s, NEW r, AreFour(a, g, s, r)
    PROVE  /\ Written(((a \o g) \o s) \o r)
                = ((Written(a) \o Written(g)) \o Written(s)) \o Written(r)
           /\ AreFour(Written(a), Written(g), Written(s), Written(r))
  <1> DEFINE ag == a \o g
             ags == ag \o s
  <1>1. a \in Seq(Words) /\ g \in Seq(Words) /\ s \in Seq(Words) /\ r \in Seq(Words)
    BY DEF AreFour
  <1>2. ag \in Seq(Words) /\ Written(ag) = Written(a) \o Written(g)
    BY <1>1, Concats, WrittenConcat
  <1>3. ags \in Seq(Words) /\ Written(ags) = Written(ag) \o Written(s)
    <2> HIDE DEF ag
    <2> QED  BY <1>1, <1>2, Concats, WrittenConcat
  <1>4. Written(ags \o r) = Written(ags) \o Written(r)
    <2> HIDE DEF ags
    <2> QED  BY <1>1, <1>3, WrittenConcat
  <1>5. AreFour(Written(a), Written(g), Written(s), Written(r))
    BY <1>1, WrittenIsText DEF AreFour
  <1> QED  BY <1>2, <1>3, <1>4, <1>5

LEMMA TakenHead ==
    ASSUME NEW S, \A x \in S : x.text \in Seq(Words), NEW p \in Seq(S), p # << >>
    PROVE  /\ Head(p) \in S /\ Head(p) = p[1] /\ 1 \in DOMAIN p
           /\ Tail(p) \in Seq(S)
           /\ \A i \in DOMAIN Tail(p) : i + 1 \in DOMAIN p /\ Tail(p)[i] = p[i + 1]
           /\ TextsOf(p) = Head(p).text \o TextsOf(Tail(p))
           /\ Head(p).text \in Seq(Words) /\ TextsOf(Tail(p)) \in Seq(Words)
  <1>1. /\ Head(p) \in S /\ Head(p) = p[1] /\ 1 \in DOMAIN p /\ Tail(p) \in Seq(S)
        /\ \A i \in DOMAIN Tail(p) : i + 1 \in DOMAIN p /\ Tail(p)[i] = p[i + 1]
    OBVIOUS
  <1>2. TextsOf(p) = Head(p).text \o TextsOf(Tail(p))
    BY TextsHead
  <1>3. TextsOf(Tail(p)) \in Seq(Words)
    BY <1>1, PartTexts
  <1> QED  BY <1>1, <1>2, <1>3

(* A step of mergeUndersized keeps the texts.                              *)
LEMMA MergeSectionSound ==
    ASSUME IInv, IInv', TextsAreSound, MergeSection
    PROVE  TextsAreSound'
  <1>1. /\ phase = "merging" /\ phase' = "merging" /\ sections # << >>
        /\ sections' = Tail(sections) /\ ChunksStand /\ UNCHANGED packing
        /\ next' = next /\ stack' = stack /\ bounded' = bounded /\ chunks' = chunks
    BY DEF MergeSection, ChunksStand
  <1> DEFINE s == Head(sections)
  <1>2. /\ sections \in Seq(Sections) /\ \A i \in DOMAIN sections : AsRead(sections[i])
    BY LanesAreTexts, SoundNow
  <1>3. /\ \A i \in DOMAIN Tail(sections) : /\ i + 1 \in DOMAIN sections
                                            /\ Tail(sections)[i] = sections[i + 1]
        /\ TextsOf(sections) = s.text \o TextsOf(Tail(sections))
        /\ s.text \in Seq(Words) /\ TextsOf(Tail(sections)) \in Seq(Words)
    BY <1>1, <1>2, HaveTexts, TakenHead
  <1>4. \A i \in DOMAIN sections' : AsRead(sections'[i])
    BY <1>1, <1>2, <1>3
  <1>5. /\ \A i \in DOMAIN merged' : IsMerged(merged'[i])
        /\ Written(TextsOf(merged')) = Written(TextsOf(merged)) \o Written(s.text)
    BY MergedIsSound
  <1>6. Written(UnderWay') = Said
    <2>1. Middle' = Middle
      BY <1>1 DEF packing, Middle
    <2> DEFINE a == TextsOf(chunks) \o Middle
               g == TextsOf(merged)
               h == TextsOf(merged')
               t == s.text
               u == TextsOf(Tail(sections))
               c == TextsOf(sections)
               r == BodiesFrom(next)
    <2>2. UnderWay = ((a \o g) \o c) \o r
      BY UnderWayIs
    <2>3. UnderWay' = ((a \o h) \o u) \o r
      BY <1>1, <2>1, UnderWayWillBe DEF ChunksStand
    <2>4. a \in Seq(Words)
      <3> DEFINE x == TextsOf(chunks)
      <3>1. x \in Seq(Words) /\ Middle \in Seq(Words)
        BY LanesAreTexts
      <3> HIDE DEF x
      <3>2. x \o Middle \in Seq(Words)
        BY <3>1, Concats
      <3> QED  BY <3>2 DEF x
    <2>5. g \in Seq(Words) /\ c \in Seq(Words) /\ r \in Seq(Words) /\ h \in Seq(Words)
      BY LanesAreTexts, <1>1, UnderWayWillBe DEF ChunksStand
    <2>6. AreFour(a, g, c, r) /\ AreFour(a, h, u, r) /\ t \in Seq(Words) /\ u \in Seq(Words)
      BY <1>3, <2>4, <2>5 DEF AreFour
    <2>7. c = t \o u /\ Written(h) = Written(g) \o Written(t)
      BY <1>3, <1>5
    <2> HIDE DEF a, g, h, t, u, c, r
    <2>8. Written(c) = Written(t) \o Written(u)
      BY <2>6, <2>7, WrittenConcat
    <2>9. /\ Written(((a \o g) \o c) \o r)
                = ((Written(a) \o Written(g)) \o Written(c)) \o Written(r)
          /\ Written(((a \o h) \o u) \o r)
                = ((Written(a) \o Written(h)) \o Written(u)) \o Written(r)
      BY <2>6, WrittenLanes
    <2>10. AreFour(Written(a), Written(g), Written(t), Written(u))
      BY <2>4, <2>5, <2>6, WrittenIsText DEF AreFour
    <2>11. (Written(a) \o Written(g)) \o (Written(t) \o Written(u))
              = (Written(a) \o (Written(g) \o Written(t))) \o Written(u)
      BY <2>10, HandedOn
    <2>12. Written(UnderWay') = Written(UnderWay)
      BY <2>2, <2>3, <2>7, <2>8, <2>9, <2>11
    <2> QED  BY <2>12, SoundNow
  <1> QED  BY <1>1, <1>4, <1>5, <1>6, SoundNow, OutsidePacking DEF ChunksStand

-----------------------------------------------------------------------------
(* Splitting.                                                              *)

(* A section goes on, as it is or to be packed.                            *)
LEMMA SectionGoesOn ==
    ASSUME IInv, IInv', TextsAreSound, document' = document,
           merged # << >>, merged' = Tail(merged),
           UNCHANGED <<sections, next, chunks>>
    PROVE  /\ Head(merged) \in Sections /\ IsMerged(Head(merged))
           /\ Head(merged).text \in Seq(Words)
           /\ \A i \in DOMAIN merged' : IsMerged(merged'[i])
           /\ Middle' = Middle \o Head(merged).text => UnderWay' = UnderWay
  <1>1. merged \in Seq(Sections) /\ \A i \in DOMAIN merged : IsMerged(merged[i])
    BY LanesAreTexts, SoundNow
  <1>2. /\ Head(merged) \in Sections /\ Head(merged) = merged[1] /\ 1 \in DOMAIN merged
        /\ \A i \in DOMAIN Tail(merged) : /\ i + 1 \in DOMAIN merged
                                          /\ Tail(merged)[i] = merged[i + 1]
        /\ TextsOf(merged) = Head(merged).text \o TextsOf(Tail(merged))
        /\ Head(merged).text \in Seq(Words) /\ TextsOf(Tail(merged)) \in Seq(Words)
    BY <1>1, HaveTexts, TakenHead
  <1>3. ASSUME Middle' = Middle \o Head(merged).text
        PROVE  UnderWay' = UnderWay
    <2> DEFINE a == TextsOf(chunks)
               h == Head(merged).text
               g == TextsOf(Tail(merged))
               s == TextsOf(sections)
               r == BodiesFrom(next)
               m == Middle
    <2>1. UnderWay = (((a \o m) \o (h \o g)) \o s) \o r
      BY <1>2, UnderWayIs
    <2>2. UnderWay' = (((a \o (m \o h)) \o g) \o s) \o r
      BY <1>3, UnderWayWillBe
    <2>3. AreFour(a, m, h, g)
      BY <1>2, LanesAreTexts DEF AreFour
    <2> HIDE DEF a, m, h, g, s, r
    <2>4. (a \o m) \o (h \o g) = (a \o (m \o h)) \o g
      BY <2>3, HandedOn
    <2> QED  BY <2>1, <2>2, <2>4
  <1> QED  BY <1>1, <1>2, <1>3

LEMMA KeepSectionSound ==
    ASSUME IInv, IInv', TextsAreSound, KeepSection
    PROVE  TextsAreSound'
  <1> DEFINE h == Head(merged)
             piece == [path |-> h.path, text |-> h.text]
  <1>1. /\ phase = "splitting" /\ phase' = "splitting" /\ merged # << >>
        /\ merged' = Tail(merged) /\ bounded' = Append(bounded, piece)
        /\ ChunksStand /\ UNCHANGED packing
        /\ next' = next /\ stack' = stack /\ sections' = sections /\ chunks' = chunks
    BY DEF KeepSection, ChunksStand
  <1>2. /\ h \in Sections /\ IsMerged(h) /\ h.text \in Seq(Words)
        /\ \A i \in DOMAIN merged' : IsMerged(merged'[i])
        /\ Middle' = Middle \o h.text => UnderWay' = UnderWay
    BY <1>1, SectionGoesOn DEF ChunksStand
  <1> HIDE DEF h
  <1>3. piece \in Pieces /\ IsSound(piece) /\ piece.text = h.text
    BY <1>2 DEF Pieces, Sections, IsMerged, IsSound
  <1> HIDE DEF piece
  <1>4. bounded \in Seq(Pieces) /\ AllAreSound(bounded)
    BY LanesAreTexts, SoundNow
  <1>5. AllAreSound(bounded') /\ TextsOf(bounded') = TextsOf(bounded) \o h.text
    BY <1>1, <1>3, <1>4, AppendedSound, HaveTexts, TextsAppend
  <1>6. Middle' = Middle \o h.text
    <2>1. current = << >> /\ section.text = << >> /\ paragraph = << >>
      BY <1>1, SoundNow DEF PackingIsSound
    <2>2. Middle' = ((TextsOf(bounded') \o << >>) \o << >>) \o << >>
      BY <1>1, <2>1 DEF Middle, packing
    <2> DEFINE b == TextsOf(bounded')
    <2>3. ((b \o << >>) \o << >>) \o << >> = b
      <3>1. b \in Seq(Words)
        BY <1>1, UnderWayWillBe, HaveTexts, PartTexts DEF IInv, TypeOK
      <3> HIDE DEF b
      <3> QED  BY <3>1, EmptyTexts
    <2>4. Middle = TextsOf(bounded)
      BY <1>1, OutsideIs
    <2> QED  BY <1>5, <2>2, <2>3, <2>4
  <1>7. Written(UnderWay') = Said
    BY <1>2, <1>6, SoundNow
  <1> QED  BY <1>1, <1>2, <1>5, <1>7, SoundNow, OutsidePacking DEF ChunksStand

LEMMA SplitSectionSound ==
    ASSUME IInv, IInv', TextsAreSound, SplitSection
    PROVE  TextsAreSound'
  <1> DEFINE h == Head(merged)
  <1>1. /\ phase = "splitting" /\ phase' = "packing" /\ merged # << >>
        /\ Estimate(h.text) > configuration.maximum
        /\ merged' = Tail(merged) /\ section' = h
        /\ ChunksStand /\ paragraph' = paragraph /\ current' = current /\ bounded' = bounded
        /\ next' = next /\ stack' = stack /\ sections' = sections /\ chunks' = chunks
    BY DEF SplitSection, ChunksStand
  <1>2. /\ h \in Sections /\ IsMerged(h) /\ h.text \in Seq(Words)
        /\ \A i \in DOMAIN merged' : IsMerged(merged'[i])
        /\ Middle' = Middle \o h.text => UnderWay' = UnderWay
    BY <1>1, SectionGoesOn DEF ChunksStand
  <1> HIDE DEF h
  <1>3. AsRead(h)
    <2>1. configuration.maximum \in Nat
      BY ConfigurationFields DEF IInv, TypeOK
    <2>2. Estimate(h.text) \in Nat
      BY <1>2, EstimateBounds
    <2>3. ~(Estimate(h.text) <= configuration.maximum)
      BY <1>1, <2>1, <2>2
    <2> QED  BY <1>2, <2>3 DEF IsMerged
  <1>4. current = << >> /\ section.text = << >> /\ paragraph = << >>
    BY <1>1, SoundNow DEF PackingIsSound
  <1>5. Middle' = Middle \o h.text
    <2>1. Middle' = ((TextsOf(bounded) \o << >>) \o << >>) \o h.text
      BY <1>1, <1>4 DEF Middle
    <2> DEFINE b == TextsOf(bounded)
    <2>2. (b \o << >>) \o << >> = b
      <3>1. b \in Seq(Words)
        BY LanesAreTexts
      <3> HIDE DEF b
      <3> QED  BY <3>1, EmptyTexts
    <2>3. Middle = TextsOf(bounded)
      BY <1>1, OutsideIs
    <2> QED  BY <2>1, <2>2, <2>3
  <1>6. Written(UnderWay') = Said
    BY <1>2, <1>5, SoundNow
  <1>7. /\ IsBody(paragraph', section'.of) /\ \A w \in ToSet(paragraph') : IsLoose(w)
        /\ Whole(current') /\ \A w \in ToSet(current') : w.heading = section'.of
        /\ paragraph' = << >> /\ AsRead(section')
    BY <1>1, <1>3, <1>4, NothingInHand
  <1>8. /\ document' = document /\ configuration' = configuration
        /\ AllAreSound(bounded') /\ AllAreSound(chunks')
        /\ \A i \in DOMAIN sections' : AsRead(sections'[i])
        /\ \E s : AreAround(s, next' - 1) /\ stack' = MarksOf(s)
    BY <1>1, SoundNow DEF ChunksStand
  <1> QED  BY <1>1, <1>2, <1>6, <1>7, <1>8, TextsRestated

-----------------------------------------------------------------------------
(* Numbering, and from one loop to the next.                               *)

LEMMA NumberChunkSound ==
    ASSUME IInv, IInv', TextsAreSound, NumberChunk
    PROVE  TextsAreSound'
  <1> DEFINE h == Head(bounded)
  <1>1. /\ phase = "numbering" /\ phase' = "numbering" /\ bounded # << >>
        /\ bounded' = Tail(bounded) /\ UNCHANGED packing
        /\ document' = document /\ configuration' = configuration
        /\ next' = next /\ stack' = stack /\ sections' = sections /\ merged' = merged
    BY DEF NumberChunk
  <1> DEFINE chunk == [path |-> h.path, occurrence |-> Occurrence(h.path), text |-> h.text]
  <1>2. chunks' = Append(chunks, chunk)
    BY DEF NumberChunk
  <1>3. /\ bounded \in Seq(Pieces) /\ chunks \in Seq(ChunkParts)
        /\ AllAreSound(bounded) /\ AllAreSound(chunks)
    BY LanesAreTexts, SoundNow
  <1>4. /\ h \in Pieces /\ h = bounded[1] /\ 1 \in DOMAIN bounded
        /\ Tail(bounded) \in Seq(Pieces)
        /\ \A i \in DOMAIN Tail(bounded) : /\ i + 1 \in DOMAIN bounded
                                           /\ Tail(bounded)[i] = bounded[i + 1]
        /\ TextsOf(bounded) = h.text \o TextsOf(Tail(bounded))
        /\ h.text \in Seq(Words) /\ TextsOf(Tail(bounded)) \in Seq(Words)
    BY <1>1, <1>3, HaveTexts, TakenHead
  <1> HIDE DEF h
  <1>5. AllAreSound(bounded')
    BY <1>1, <1>3, <1>4 DEF AllAreSound
  <1>6. chunk.text = h.text /\ IsSound(chunk)
    BY <1>3, <1>4 DEF AllAreSound, IsSound
  <1>7. chunk \in ChunkParts
    <2>1. chunks' \in Seq(ChunkParts)
      BY DEF IInv, TypeOK, ChunkParts
    <2> HIDE DEF chunk
    <2>2. Len(chunks) + 1 \in DOMAIN chunks' /\ chunks'[Len(chunks) + 1] = chunk
      BY <1>2, <1>3
    <2> QED  BY <2>1, <2>2
  <1> HIDE DEF chunk
  <1>8. AllAreSound(chunks') /\ TextsOf(chunks') = TextsOf(chunks) \o h.text
    BY <1>2, <1>3, <1>6, <1>7, AppendedSound, HaveTexts, TextsAppend
  <1>9. UnderWay' = UnderWay
    <2>1. Middle = h.text \o TextsOf(Tail(bounded))
      BY <1>1, <1>4, OutsideIs
    <2>2. Middle' = TextsOf(Tail(bounded))
      <3>1. current = << >> /\ section.text = << >> /\ paragraph = << >>
        BY <1>1, SoundNow DEF PackingIsSound
      <3>2. Middle' = ((TextsOf(bounded') \o << >>) \o << >>) \o << >>
        BY <1>1, <3>1 DEF Middle, packing
      <3> DEFINE b == TextsOf(bounded')
      <3>3. ((b \o << >>) \o << >>) \o << >> = b
        <4>1. b \in Seq(Words)
          BY <1>1, <1>4
        <4> HIDE DEF b
        <4> QED  BY <4>1, EmptyTexts
      <3> QED  BY <1>1, <3>2, <3>3
    <2> DEFINE c == TextsOf(chunks)
               t == h.text
               b == TextsOf(Tail(bounded))
    <2>3. (c \o t) \o b = c \o (t \o b)
      <3>1. c \in Seq(Words) /\ t \in Seq(Words) /\ b \in Seq(Words)
        BY <1>4, LanesAreTexts
      <3> HIDE DEF c, t, b
      <3> QED  BY <3>1, ConcatAssociative
    <2>4. TextsOf(chunks') \o Middle' = TextsOf(chunks) \o Middle
      BY <1>8, <2>1, <2>2, <2>3
    <2> QED  BY <1>1, <2>4, UnderWayIs, UnderWayWillBe
  <1>10. Written(UnderWay') = Said
    BY <1>9, SoundNow
  <1> QED  BY <1>1, <1>5, <1>8, <1>10, SoundNow, OutsidePacking

LEMMA NextLoopSound ==
    ASSUME IInv, IInv', TextsAreSound, NextLoop
    PROVE  TextsAreSound'
  <1>1. /\ phase \notin {"packing", "breaking"} /\ phase' \notin {"packing", "breaking"}
        /\ ChunksStand /\ UNCHANGED packing
        /\ next' = next /\ stack' = stack /\ sections' = sections /\ merged' = merged
        /\ bounded' = bounded /\ chunks' = chunks
    BY DEF NextLoop, ChunksStand
  <1>2. Middle' = Middle
    BY <1>1 DEF Middle, packing
  <1>3. UnderWay' = UnderWay
    BY <1>1, <1>2, UnderWayIs, UnderWayWillBe DEF ChunksStand
  <1>4. Written(UnderWay') = Said
    BY <1>3, SoundNow
  <1> QED  BY <1>1, <1>4, SoundNow, OutsidePacking DEF ChunksStand

LEMMA StandingSound ==
    ASSUME IInv, IInv', TextsAreSound, UNCHANGED vars
    PROVE  TextsAreSound'
  <1>1. /\ ChunksStand /\ UNCHANGED <<next, stack, sections, merged>>
        /\ phase' = phase /\ section' = section /\ paragraph' = paragraph
        /\ current' = current /\ bounded' = bounded
    BY DEF vars, packing, ChunksStand
  <1>2. Middle' = Middle
    BY <1>1 DEF Middle
  <1>3. /\ AllAreSound(bounded') /\ PackingIsSound
    BY <1>1, SoundNow
  <1> QED
    BY <1>1, <1>2, <1>3, PackingKeeps DEF PackingIsSound

(* No step loses, repeats or cuts a text.                                  *)
LEMMA NextIsSound ==
    ASSUME IInv, IInv', TextsAreSound, [Next]_vars
    PROVE  TextsAreSound'
  <1>1. CASE ReadHeading
    BY <1>1, ReadHeadingSound
  <1>2. CASE MergeSection
    BY <1>2, MergeSectionSound
  <1>3. CASE KeepSection
    BY <1>3, KeepSectionSound
  <1>4. CASE SplitSection
    BY <1>4, SplitSectionSound
  <1>5. CASE PackUnit
    BY <1>5, PackUnitSound
  <1>6. CASE EmitAtomic
    BY <1>6, EmitAtomicSound
  <1>7. CASE BreakUnit
    BY <1>7, BreakUnitSound
  <1>8. CASE PackSentence
    BY <1>8, PackSentenceSound
  <1>9. CASE ChopSentence
    BY <1>9, ChopSentenceSound
  <1>10. CASE EndParagraph \/ EndSection
    BY <1>10, EndsAreSound
  <1>11. CASE NumberChunk
    BY <1>11, NumberChunkSound
  <1>12. CASE NextLoop
    BY <1>12, NextLoopSound
  <1>13. CASE Done \/ UNCHANGED vars
    BY <1>13, StandingSound DEF Done
  <1> QED
    BY <1>1, <1>2, <1>3, <1>4, <1>5, <1>6, <1>7, <1>8, <1>9, <1>10, <1>11, <1>12, <1>13
    DEF Next

LEMMA TextsInvariance == Spec => [](IInv /\ TextsAreSound)
  <1>1. Init => IInv /\ TextsAreSound
    BY InitHolds, InitIsSound
  <1>2. (IInv /\ TextsAreSound) /\ [Next]_vars => (IInv /\ TextsAreSound)'
    BY NextHolds, NextIsSound
  <1> QED  BY <1>1, <1>2, PTL DEF Spec

(* What is at the front of a text that says its words once.                *)
LEMMA FrontSaysOnce ==
    ASSUME NEW a, NEW g, NEW s, NEW r, AreFour(a, g, s, r),
           SaysOnce(((a \o g) \o s) \o r)
    PROVE  SaysOnce(a) /\ ToSet(a) \subseteq ToSet(((a \o g) \o s) \o r)
  <1> DEFINE ag == a \o g
             ags == ag \o s
  <1>1. a \in Seq(Words) /\ g \in Seq(Words) /\ s \in Seq(Words) /\ r \in Seq(Words)
    BY DEF AreFour
  <1>2. ag \in Seq(Words)
    BY <1>1, Concats
  <1>3. ags \in Seq(Words)
    <2> HIDE DEF ag
    <2> QED  BY <1>1, <1>2, Concats
  <1>4. SaysOnce(ags) /\ ToSet(ags \o r) = ToSet(ags) \cup ToSet(r)
    <2> HIDE DEF ags
    <2>1. SaysOnce(ags \o r)
      BY DEF ags
    <2> QED  BY <1>1, <1>3, <2>1, SaysOnceParts, ConcatWords
  <1>5. SaysOnce(ag) /\ ToSet(ag \o s) = ToSet(ag) \cup ToSet(s)
    <2> HIDE DEF ag
    <2> QED  BY <1>1, <1>2, <1>4, SaysOnceParts, ConcatWords
  <1>6. SaysOnce(a) /\ ToSet(a \o g) = ToSet(a) \cup ToSet(g)
    BY <1>1, <1>5, SaysOnceParts, ConcatWords
  <1> QED  BY <1>4, <1>5, <1>6

(* Chunks say a word at most once, and only words of the file.             *)
LEMMA ChunksSayOnce ==
    ASSUME IInv, TextsAreSound
    PROVE  LET written == Written(TextsOf(chunks))
           IN  SaysOnce(written) /\ ToSet(written) \subseteq SaidWords
  <1> DEFINE x == TextsOf(chunks)
             m == Middle
             a == x \o m
             g == TextsOf(merged)
             s == TextsOf(sections)
             r == BodiesFrom(next)
             said == ((Written(a) \o Written(g)) \o Written(s)) \o Written(r)
  <1>1. x \in Seq(Words) /\ m \in Seq(Words)
    BY LanesAreTexts
  <1>2. a \in Seq(Words) /\ Written(a) = Written(x) \o Written(m)
    <2> HIDE DEF x, m
    <2> QED  BY <1>1, Concats, WrittenConcat
  <1>3. AreFour(a, g, s, r)
    BY <1>2, LanesAreTexts DEF AreFour
  <1>4. UnderWay = ((a \o g) \o s) \o r
    BY UnderWayIs
  <1>5. said = Said /\ AreFour(Written(a), Written(g), Written(s), Written(r))
    <2>1. Written(UnderWay) = Said
      BY SoundNow
    <2> HIDE DEF a, g, s, r
    <2> QED  BY <1>3, <1>4, <2>1, WrittenLanes DEF said
  <1>6. SaysOnce(Said) /\ ToSet(Said) \subseteq SaidWords
    BY FileSaysOnce DEF IInv
  <1>7. SaysOnce(Written(a)) /\ ToSet(Written(a)) \subseteq SaidWords
    <2> HIDE DEF a, g, s, r
    <2>1. SaysOnce(said)
      BY <1>5, <1>6
    <2>2. SaysOnce(Written(a)) /\ ToSet(Written(a)) \subseteq ToSet(said)
      BY <1>5, <2>1, FrontSaysOnce DEF said
    <2> QED  BY <1>5, <1>6, <2>2
  <1>8. SaysOnce(Written(x)) /\ ToSet(Written(x)) \subseteq ToSet(Written(a))
    <2>1. Written(x) \in Seq(Words) /\ Written(m) \in Seq(Words)
      <3> HIDE DEF x, m
      <3> QED  BY <1>1, WrittenIsText
    <2>2. SaysOnce(Written(x) \o Written(m))
      BY <1>2, <1>7
    <2>3. ToSet(Written(x) \o Written(m)) = ToSet(Written(x)) \cup ToSet(Written(m))
      BY <2>1, ConcatWords
    <2>4. SaysOnce(Written(x))
      BY <2>1, <2>2, SaysOnceParts
    <2> QED  BY <1>2, <2>3, <2>4
  <1> QED  BY <1>7, <1>8

(* The three properties hold of every file, in every configuration.        *)
LEMMA Invariance == Spec => []IInv
  <1>1. Init => IInv
    BY InitHolds
  <1>2. IInv /\ [Next]_vars => IInv'
    BY NextHolds
  <1> QED  BY <1>1, <1>2, PTL DEF Spec

(* Every loop hands texts, sections and pieces of the right shape to the   *)
(* next (Chunker.swift:31).                                                *)
THEOREM TypesHold == Spec => []TypeOK
  <1>1. IInv => TypeOK
    BY DEF IInv
  <1> QED  BY <1>1, Invariance, PTL

(* No two chunks of one file have the same id (Chunker.swift:35).          *)
THEOREM IdsHold == Spec => []IdsAreUnique
  <1>1. IInv => IdsAreUnique
    BY DEF IInv
  <1> QED  BY <1>1, Invariance, PTL

(* No chunk but a single fenced block has more words than the maximum has  *)
(* tokens (Chunker.swift:105, 210).                                        *)
THEOREM BoundsHold == Spec => []ChunksFit
  <1>1. IInv => ChunksFit
    BY DEF IInv, WhatIsPackedFits, AllFit, Fits, ChunksFit
  <1> QED  BY <1>1, Invariance, PTL

(* Packing, merging and breaking lose nothing, repeat nothing and keep the *)
(* order (Chunker.swift:11).                                               *)
THEOREM TextHolds == Spec => []TextIsKept
  <1>1. IInv /\ TextsAreSound => TextIsKept
    BY SoundNow DEF Said, TextIsKept
  <1> QED  BY <1>1, TextsInvariance, PTL

(* No fenced block is in two chunks, if up to its end the code reads       *)
(* fences as Markdown does (Chunker.swift:125, 158, 177, 189).             *)
THEOREM FencesHold == Spec => []FencesStayWhole
  <1>1. ASSUME IInv, TextsAreSound
        PROVE  FencesStayWhole
    <2> SUFFICES ASSUME NEW i \in DOMAIN chunks, NEW j \in DOMAIN chunks, i # j,
                        NEW v \in ToSet(chunks[i].text), NEW w \in ToSet(chunks[j].text),
                        v.block > 0, ReadsAlike(v.heading, v.block), SameBlock(v, w)
                 PROVE  FALSE
      BY DEF FencesStayWhole
    <2>1. /\ chunks \in Seq(ChunkParts) /\ \A x \in ChunkParts : x.text \in Seq(Words)
          /\ Whole(chunks[i].text) /\ Whole(chunks[j].text)
      BY <1>1, LanesAreTexts, HaveTexts, SoundNow DEF AllAreSound, IsSound
    <2>2. w.line # 0 /\ v \in ToldWords
      <3>1. v \in Words
        BY <2>1 DEF ToSet
      <3> QED  BY <2>1, <3>1 DEF Whole, SameBlock, ToldWords
    <2> DEFINE written == Written(TextsOf(chunks))
    <2>3. SaysOnce(written) /\ ToSet(written) \subseteq SaidWords
      BY <1>1, ChunksSayOnce
    <2>4. w \in ToSet(written)
      <3>1. ToSet(chunks[j].text) \subseteq ToSet(TextsOf(chunks))
            /\ TextsOf(chunks) \in Seq(Words)
        BY <2>1, TextsHavePart, PartTexts
      <3> QED  BY <2>2, <3>1, WrittenHasWords
    <2>5. w \in ToSet(chunks[i].text)
      BY <2>1, <2>2, <2>3, <2>4 DEF Whole
    <2>6. i \in Nat /\ j \in Nat
      BY <2>1, LenProperties
    <2>7. ~(i < j)
      <3> SUFFICES ASSUME i < j PROVE FALSE
        OBVIOUS
      <3> QED  BY <2>1, <2>2, <2>3, <2>5, PartsShareNoWord
    <2>8. ~(j < i)
      <3> SUFFICES ASSUME j < i PROVE FALSE
        OBVIOUS
      <3> QED  BY <2>1, <2>2, <2>3, <2>5, PartsShareNoWord
    <2> QED  BY <2>6, <2>7, <2>8
  <1> QED  BY <1>1, TextsInvariance, PTL

(* A word is in a chunk that has its heading: at the end of its path, with *)
(* all that are around it, or written into its text before it              *)
(* (Chunker.swift:96).                                                     *)
THEOREM HeadingsHold == Spec => []TextKnowsItsHeading
  <1>1. ASSUME IInv, TextsAreSound
        PROVE  TextKnowsItsHeading
    <2> SUFFICES ASSUME NEW c \in DOMAIN chunks, NEW i \in DOMAIN chunks[c].text
                 PROVE  LET w == chunks[c].text[i]
                        IN  \/ w.heading > 0 /\ chunks[c].path = PathOf(w.heading)
                            \/ w.heading = 0 /\ chunks[c].path = <<Title>>
                            \/ \E h \in 1..i : /\ chunks[c].text[h].heading = w.heading
                                               /\ chunks[c].text[h].line = 0
      BY DEF TextKnowsItsHeading
    <2> DEFINE w == chunks[c].text[i]
    <2>1. chunks \in Seq(ChunkParts) /\ \A x \in ChunkParts : x.text \in Seq(Words)
      BY <1>1, LanesAreTexts, HaveTexts
    <2>2. w.heading \in Nat
      <3>1. chunks[c].text \in Seq(Words)
        BY <2>1
      <3>2. w \in Words
        BY <3>1
      <3> QED  BY <3>2 DEF Words
    <2>3. \/ chunks[c].path = Paths[w.heading]
          \/ \E h \in 1..i : chunks[c].text[h].heading = w.heading /\ chunks[c].text[h].line = 0
      BY <1>1, SoundNow DEF AllAreSound, IsSound, Knows
    <2>4. Paths[w.heading] = IF w.heading = 0 THEN <<Title>> ELSE PathOf(w.heading)
      <3> HIDE DEF w
      <3> QED  BY <2>2 DEF Paths
    <2> QED  BY <2>2, <2>3, <2>4
  <1> QED  BY <1>1, TextsInvariance, PTL

=============================================================================
