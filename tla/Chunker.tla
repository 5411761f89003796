------------------------------- MODULE Chunker -------------------------------
(***************************************************************************)
(* From a Markdown file to its chunks: MarkdownParser.buildSections makes  *)
(* a section of each heading, Chunker.mergeUndersized folds small sections *)
(* into the one before, splitOversized takes large ones apart, and chunk   *)
(* numbers what shares a heading path.  One action is one iteration of one *)
(* of these loops; they run one after the other, on one file.              *)
(*                                                                         *)
(* A text is a sequence of words, which is what its size is estimated by.  *)
(* A word is a place in the file: its heading (0 before the first), the    *)
(* line under it, the sentence, and the word in the sentence.  Blank lines *)
(* are numbers no word has.  A heading that a merge writes into a text is  *)
(* line 0, and a blank line follows it.  Names are taken after             *)
(* NameNormalizer.normalize, as chunk ids are, and are one word long.      *)
(*                                                                         *)
(* What fenced blocks a file has is said twice.  A word's block is the     *)
(* fenced block of Markdown it stands in (0 for none), which the code      *)
(* never asks.  Its marker is what its line begins with, blanks aside,     *)
(* which is all the code goes by to tell a fenced block.                   *)
(***************************************************************************)
EXTENDS Naturals, Sequences, SequencesExt

CONSTANTS
    Documents,       \* files: title, stem, preamble and headings with bodies
    Configurations,  \* ChunkingConfiguration: minimum and maximum tokens
    Names,           \* what titles and headings say
    NoTitle          \* a file whose front matter names no title

Markers == {"none", "backticks", "tildes"}
Words == [heading : Nat, line : Nat, sentence : Nat, word : Nat,
          marker : Markers, block : Nat]

SameLine(v, w) == v.heading = w.heading /\ v.line = w.line
SameBlock(v, w) == v.heading = w.heading /\ v.block = w.block

(* What is written under a heading: its words name their places, line 1 is *)
(* blank, and a fenced block is lines one after the other.                 *)
IsBody(text, heading) ==
    /\ text \in Seq(Words)
    /\ \A i \in DOMAIN text : text[i].heading = heading /\ text[i].line > 1
    /\ \A i, j \in DOMAIN text : i < j =>
        /\ text[i] # text[j]
        /\ text[i].line <= text[j].line
        /\ text[i].line = text[j].line =>
            text[i].marker = text[j].marker /\ text[i].block = text[j].block
        /\ text[j].block > 0 => text[i].block <= text[j].block
        /\ text[i].block > 0 /\ text[i].block = text[j].block =>
            \A k \in i..j : text[k].block = text[i].block

(* A text of nothing fits every configuration.  A maximum of zero would    *)
(* make every word a chunk larger than allowed.                            *)
ASSUME ChunkerAssumption ==
    /\ Configurations \subseteq [minimum : Nat, maximum : Nat \ {0}]
    /\ \A d \in Documents :
        /\ IsBody(d.preamble, 0)
        /\ d.headings \in Seq([level : 1..6, name : Names, body : Seq(Words)])
        /\ \A h \in DOMAIN d.headings : IsBody(d.headings[h].body, h)
        /\ d.stem \in Names /\ d.title \in Names \cup {NoTitle}

VARIABLES
    document,       \* the file, as swift-markdown and the front matter give it
    configuration,
    phase,          \* the loop that is running
    next,           \* index of the heading buildSections is at
    stack,          \* the headings around it: level and name
    sections,       \* sections not yet merged
    merged,         \* what mergeUndersized made of those before
    section,        \* the section splitOversized has in hand, what is left of it
    paragraph,      \* what splitLongParagraph has left of an oversized one
    current,        \* the words packed so far
    currentTokens,  \* the sum of the estimates of what was packed
    bounded,        \* sections within bounds, not yet numbered
    occurrences,    \* per heading path, how many chunks have it
    chunks

packing == <<section, paragraph, current, currentTokens>>
vars == <<document, configuration, phase, next, stack, sections, merged,
          packing, bounded, occurrences, chunks>>

(* TokenEstimator.estimate: 1.3 tokens a word, rounded down.  One word is  *)
(* one token already, so the estimate of a text is never zero.             *)
Estimate(text) == (13 * Len(text)) \div 10

(* The word budget splitByWords inverts the estimate to.                   *)
WordsPerGroup ==
    LET budget == (10 * configuration.maximum) \div 13
    IN  IF budget < 1 THEN 1 ELSE budget

(* Mutation of the next definition: an absent title is taken for one.      *)
TitleOfFrontMatter == document.title

(* resolveTitle: the front matter's, else the first heading of level 1,    *)
(* else the name of the file.                                              *)
Title ==
    LET tops == {i \in DOMAIN document.headings : document.headings[i].level = 1}
    IN  IF document.title # NoTitle THEN document.title
        ELSE IF tops = {} THEN document.stem
        ELSE document.headings[CHOOSE i \in tops : \A j \in tops : i <= j].name

(* currentPath: rooted at the title, which a heading of the same name does *)
(* not repeat.                                                             *)
PathTo(marks) ==
    LET names == [i \in DOMAIN marks |-> marks[i].name]
    IN  <<Title>> \o IF names # << >> /\ Head(names) = Title THEN Tail(names) ELSE names

(* paragraphs: a line that begins with a marker opens a unit, which the    *)
(* next line that begins with the same three characters closes, or nothing *)
(* does.  Any other unit ends at a blank line or before a marker.          *)
Opens(w) == w.marker # "none"

(* Mutation of the next definition: any marker closes.                     *)
AtomicToAnyMarker(text, n) ==
    LET closing == {i \in DOMAIN text : Opens(text[i]) /\ ~SameLine(text[i], text[1])}
    IN  /\ \A i \in closing : i <= n => SameLine(text[i], text[n])
        /\ n < Len(text) => n \in closing /\ ~SameLine(text[n + 1], text[n])

AtomicUnit(text, n) ==
    LET closing == {i \in DOMAIN text : /\ text[i].marker = text[1].marker
                                        /\ ~SameLine(text[i], text[1])}
    IN  /\ \A i \in closing : i <= n => SameLine(text[i], text[n])
        /\ n < Len(text) => n \in closing /\ ~SameLine(text[n + 1], text[n])

GoesOn(v, w) ==
    ~Opens(w) /\ v.heading = w.heading /\ w.line \in {v.line, v.line + 1}

ProseUnit(text, n) ==
    /\ \A i \in 1..n - 1 : GoesOn(text[i], text[i + 1])
    /\ n < Len(text) => ~GoesOn(text[n], text[n + 1])

LeadingUnit(text, n) ==
    IF Opens(text[1]) THEN AtomicUnit(text, n) ELSE ProseUnit(text, n)

(* Within a unit a sentence is a maximal run of words of one number.       *)
SameSentence(v, w) == v.heading = w.heading /\ v.sentence = w.sentence

LeadingSentence(text, n) ==
    /\ \A i \in 1..n : SameSentence(text[i], text[1])
    /\ n < Len(text) => ~SameSentence(text[n + 1], text[1])

After(text, n) == SubSeq(text, n + 1, Len(text))

Init ==
    /\ document \in Documents
    /\ configuration \in Configurations
    /\ phase = "reading"
    /\ next = 1
    /\ stack = << >>
    /\ sections = IF document.preamble = << >> THEN << >>
                  ELSE <<[of |-> 0, path |-> <<Title>>, text |-> document.preamble]>>
    /\ merged = << >>
    /\ section = [of |-> 0, path |-> << >>, text |-> << >>]
    /\ paragraph = << >>
    /\ current = << >>
    /\ currentTokens = 0
    /\ bounded = << >>
    /\ occurrences = [path \in {} |-> 0]
    /\ chunks = << >>

-----------------------------------------------------------------------------
(* buildSections                                                           *)

(* Mutation of the next definition: a heading leaves its siblings open.    *)
EnclosesSiblings(n, heading) ==
    /\ n > 0 => stack[n].level <= heading.level
    /\ \A i \in n + 1..Len(stack) : stack[i].level > heading.level

(* A heading closes those of its level and below.  It makes a section      *)
(* unless it has nothing but other headings under it.                      *)
Encloses(n, heading) ==
    /\ n > 0 => stack[n].level < heading.level
    /\ \A i \in n + 1..Len(stack) : stack[i].level >= heading.level

ReadHeading ==
    /\ phase = "reading"
    /\ next <= Len(document.headings)
    /\ LET heading == document.headings[next]
           mark == [level |-> heading.level, name |-> heading.name]
           hasChildSection == /\ next < Len(document.headings)
                              /\ document.headings[next + 1].level > heading.level
       IN  /\ \E n \in 0..Len(stack) :
                /\ Encloses(n, heading)
                /\ stack' = Append(SubSeq(stack, 1, n), mark)
           /\ sections' = IF heading.body = << >> /\ hasChildSection THEN sections
                          ELSE Append(sections, [of   |-> next,
                                                 path |-> PathTo(stack'),
                                                 text |-> heading.body])
    /\ next' = next + 1
    /\ UNCHANGED <<document, configuration, phase, merged, packing, bounded,
                   occurrences, chunks>>

-----------------------------------------------------------------------------
(* mergeUndersized.  Every path has the title, so no section is dropped.   *)

(* headingLine: the marker and the leaf of the path.                       *)
HeadingLine(of) ==
    [i \in 1..2 |-> [heading |-> of, line |-> 0, sentence |-> 0, word |-> i,
                     marker |-> "none", block |-> 0]]

Combined(previous, s) == previous.text \o HeadingLine(s.of) \o s.text

(* The section before is too small, and with this one not too large.       *)
Folds(previous, s) ==
    /\ Estimate(previous.text) < configuration.minimum
    /\ Estimate(Combined(previous, s)) <= configuration.maximum

MergeSection ==
    /\ phase = "merging"
    /\ sections # << >>
    /\ sections' = Tail(sections)
    /\ LET s == Head(sections)
           last == Len(merged)
       IN  merged' = IF last > 0 /\ Folds(merged[last], s)
                     THEN [merged EXCEPT ![last].text = Combined(merged[last], s)]
                     ELSE Append(merged, s)
    /\ UNCHANGED <<document, configuration, phase, next, stack, packing, bounded,
                   occurrences, chunks>>

-----------------------------------------------------------------------------
(* splitOversized and splitLongParagraph                                   *)

Piece(text) == [path |-> section.path, text |-> text]

(* flushCurrent, and its copies in splitLongParagraph.                     *)
Flushed == IF current = << >> THEN bounded ELSE Append(bounded, Piece(current))

(* Mutation of the next definition: what is to be added does not count.    *)
FullAlready(n) == currentTokens > configuration.maximum

Full(n) == currentTokens + n > configuration.maximum

KeepSection ==
    /\ phase = "splitting"
    /\ merged # << >>
    /\ Estimate(Head(merged).text) <= configuration.maximum
    /\ bounded' = Append(bounded, [path |-> Head(merged).path, text |-> Head(merged).text])
    /\ merged' = Tail(merged)
    /\ UNCHANGED <<document, configuration, phase, next, stack, sections, packing,
                   occurrences, chunks>>

SplitSection ==
    /\ phase = "splitting"
    /\ merged # << >>
    /\ Estimate(Head(merged).text) > configuration.maximum
    /\ section' = Head(merged)
    /\ merged' = Tail(merged)
    /\ phase' = "packing"
    /\ UNCHANGED <<document, configuration, next, stack, sections, paragraph, current,
                   currentTokens, bounded, occurrences, chunks>>

(* The next unit of the section in hand, which is taken off it.            *)
TakesUnit(n) ==
    /\ phase = "packing"
    /\ LeadingUnit(section.text, n)
    /\ section' = [section EXCEPT !.text = After(section.text, n)]
    /\ UNCHANGED <<document, configuration, next, stack, sections, merged, occurrences,
                   chunks>>

PackUnit == \E n \in 1..Len(section.text) :
    LET unit == SubSeq(section.text, 1, n)
        tokens == Estimate(unit)
    IN  /\ TakesUnit(n)
        /\ tokens <= configuration.maximum
        /\ IF Full(tokens)
           THEN /\ bounded' = Flushed
                /\ current' = unit
                /\ currentTokens' = tokens
           ELSE /\ current' = current \o unit
                /\ currentTokens' = currentTokens + tokens
                /\ UNCHANGED bounded
        /\ UNCHANGED <<phase, paragraph>>

(* A unit a marker opens, over the maximum, becomes a chunk as it is.      *)
EmitAtomic == \E n \in 1..Len(section.text) :
    LET unit == SubSeq(section.text, 1, n)
    IN  /\ TakesUnit(n)
        /\ Estimate(unit) > configuration.maximum
        /\ Opens(unit[1])
        /\ bounded' = Append(Flushed, Piece(unit))
        /\ current' = << >>
        /\ currentTokens' = 0
        /\ UNCHANGED <<phase, paragraph>>

BreakUnit == \E n \in 1..Len(section.text) :
    LET unit == SubSeq(section.text, 1, n)
    IN  /\ TakesUnit(n)
        /\ Estimate(unit) > configuration.maximum
        /\ ~Opens(unit[1])
        /\ bounded' = Flushed
        /\ current' = << >>
        /\ currentTokens' = 0
        /\ paragraph' = unit
        /\ phase' = "breaking"

TakesSentence(n) ==
    /\ phase = "breaking"
    /\ LeadingSentence(paragraph, n)
    /\ paragraph' = After(paragraph, n)
    /\ UNCHANGED <<document, configuration, phase, next, stack, sections, merged,
                   section, occurrences, chunks>>

PackSentence == \E n \in 1..Len(paragraph) :
    LET sentence == SubSeq(paragraph, 1, n)
        tokens == Estimate(sentence)
    IN  /\ TakesSentence(n)
        /\ tokens <= configuration.maximum
        /\ IF Full(tokens)
           THEN /\ bounded' = Flushed
                /\ current' = sentence
                /\ currentTokens' = tokens
           ELSE /\ current' = current \o sentence
                /\ currentTokens' = currentTokens + tokens
                /\ UNCHANGED bounded

(* Mutation of the next definition: the last word of a group is left out.  *)
WordGroupWithoutLast(text, g) ==
    LET end == g * WordsPerGroup
    IN  SubSeq(text, (g - 1) * WordsPerGroup + 1, (IF end < Len(text) THEN end ELSE Len(text)) - 1)

(* splitByWords: groups of WordsPerGroup, the last of what is left.        *)
WordGroup(text, g) ==
    LET end == g * WordsPerGroup
    IN  SubSeq(text, (g - 1) * WordsPerGroup + 1, IF end < Len(text) THEN end ELSE Len(text))

ChopSentence == \E n \in 1..Len(paragraph) :
    LET sentence == SubSeq(paragraph, 1, n)
        groups == (n + WordsPerGroup - 1) \div WordsPerGroup
    IN  /\ TakesSentence(n)
        /\ Estimate(sentence) > configuration.maximum
        /\ bounded' = Flushed \o [g \in 1..groups |-> Piece(WordGroup(sentence, g))]
        /\ current' = << >>
        /\ currentTokens' = 0

(* The end of a paragraph, or of the section, flushes what was packed.     *)
Flush(left, then) ==
    /\ left = << >>
    /\ phase' = then
    /\ bounded' = Flushed
    /\ current' = << >>
    /\ currentTokens' = 0
    /\ UNCHANGED <<document, configuration, next, stack, sections, merged, section,
                   paragraph, occurrences, chunks>>

EndParagraph == phase = "breaking" /\ Flush(paragraph, "packing")
EndSection == phase = "packing" /\ Flush(section.text, "splitting")

-----------------------------------------------------------------------------
(* chunk                                                                   *)

(* Mutation of the next definition: only siblings next to one another are  *)
(* counted.                                                                *)
OccurrenceInRun(path) ==
    IF chunks # << >> /\ chunks[Len(chunks)].path = path THEN occurrences[path] ELSE 0

(* occurrences[key, default: 0]                                            *)
Occurrence(path) == IF path \in DOMAIN occurrences THEN occurrences[path] ELSE 0

NumberChunk ==
    /\ phase = "numbering"
    /\ bounded # << >>
    /\ LET piece == Head(bounded)
           occurrence == Occurrence(piece.path)
       IN  /\ occurrences' = [path \in DOMAIN occurrences \cup {piece.path} |->
                                IF path = piece.path THEN occurrence + 1
                                ELSE occurrences[path]]
           /\ chunks' = Append(chunks, [path |-> piece.path, occurrence |-> occurrence,
                                        text |-> piece.text])
    /\ bounded' = Tail(bounded)
    /\ UNCHANGED <<document, configuration, phase, next, stack, sections, merged, packing>>

(* ChunkID(document:headingPath:occurrence:), within one document.         *)
ChunkID(chunk) == <<chunk.path, chunk.occurrence>>

(* Each loop runs once the one before is through.                          *)
NextLoop ==
    /\ \/ phase = "reading" /\ next > Len(document.headings) /\ phase' = "merging"
       \/ phase = "merging" /\ sections = << >> /\ phase' = "splitting"
       \/ phase = "splitting" /\ merged = << >> /\ phase' = "numbering"
       \/ phase = "numbering" /\ bounded = << >> /\ phase' = "done"
    /\ UNCHANGED <<document, configuration, next, stack, sections, merged, packing,
                   bounded, occurrences, chunks>>

Done == phase = "done" /\ UNCHANGED vars

Next ==
    \/ ReadHeading
    \/ MergeSection
    \/ KeepSection
    \/ SplitSection
    \/ PackUnit
    \/ EmitAtomic
    \/ BreakUnit
    \/ PackSentence
    \/ ChopSentence
    \/ EndParagraph
    \/ EndSection
    \/ NumberChunk
    \/ NextLoop
    \/ Done

Spec == Init /\ [][Next]_vars

-----------------------------------------------------------------------------
(* Properties                                                              *)

Sections == [of : Nat, path : Seq(Names), text : Seq(Words)]
Pieces == [path : Seq(Names), text : Seq(Words)]

(* The types of what the loops hand to one another.                        *)
TypeOK ==
    /\ configuration \in Configurations
    /\ phase \in {"reading", "merging", "splitting", "packing", "breaking", "numbering",
                  "done"}
    /\ next \in 1..Len(document.headings) + 1
    /\ stack \in Seq([level : 1..6, name : Names])
    /\ sections \in Seq(Sections)
    /\ merged \in Seq(Sections)
    /\ section \in Sections
    /\ paragraph \in Seq(Words)
    /\ current \in Seq(Words)
    /\ currentTokens \in Nat
    /\ bounded \in Seq(Pieces)
    /\ \A path \in DOMAIN occurrences : path \in Seq(Names) /\ occurrences[path] \in Nat
    /\ chunks \in Seq([path : Seq(Names), occurrence : Nat, text : Seq(Words)])

(* No two chunks of a file have one id, whatever headings repeat and       *)
(* however often a section is split: the second would replace the first in *)
(* the chunks table (Chunker.swift:35).                                    *)
IdsAreUnique ==
    \A i, j \in DOMAIN chunks : ChunkID(chunks[i]) = ChunkID(chunks[j]) => i = j

(* A chunk has at most as many words as its maximum has tokens, unless it  *)
(* is one unit that a marker opens.  Its estimate may exceed the maximum:  *)
(* estimates of packed units are rounded down one by one                   *)
(* (Chunker.swift:138, 229).                                               *)
OneFence(text) == text # << >> /\ Opens(text[1]) /\ LeadingUnit(text, Len(text))

ChunksFit ==
    \A i \in DOMAIN chunks :
        Len(chunks[i].text) <= configuration.maximum \/ OneFence(chunks[i].text)

(* The words of the file, and those that are somewhere between reading and *)
(* numbering, in order.                                                    *)
BodiesFrom(i) ==
    FlattenSeq([j \in 1..Len(document.headings) + 1 - i |-> document.headings[i + j - 1].body])

TextsOf(parts) == FlattenSeq([i \in DOMAIN parts |-> parts[i].text])

UnderWay ==
    TextsOf(chunks) \o TextsOf(bounded) \o current \o paragraph \o section.text
        \o TextsOf(merged) \o TextsOf(sections) \o BodiesFrom(next)

(* A text without the headings that merges wrote into it.                  *)
Written(text) ==
    FlattenSeq([i \in DOMAIN text |-> IF text[i].line = 0 THEN << >> ELSE <<text[i]>>])

(* Merging, packing, flushing and breaking lose no word, repeat none and   *)
(* keep their order: what chunks are made of is what the file says         *)
(* (Chunker.swift:11).                                                     *)
TextIsKept == Written(UnderWay) = document.preamble \o BodiesFrom(1)

Body(h) == IF h = 0 THEN document.preamble ELSE document.headings[h].body

Block(h, b) == {w \in ToSet(Body(h)) : w.block = b}

(* A block is closed where the code looks for its end: its first line has  *)
(* a marker, its last has the same one or is the last of the body, and no  *)
(* line between has it.                                                    *)
EndsWhereRead(h, b) ==
    \E m \in Markers \ {"none"} :
        \A w \in Block(h, b) :
            LET isFirst == \A v \in Block(h, b) : w.line <= v.line
                isLast == \A v \in Block(h, b) : v.line <= w.line
            IN  /\ isFirst => w.marker = m
                /\ ~isFirst /\ ~isLast => w.marker # m
                /\ isLast => \/ ~isFirst /\ w.marker = m
                             \/ \A v \in ToSet(Body(h)) : v.line <= w.line

(* The code reads the body as Markdown does up to the end of a block: each *)
(* block so far ends where it looks for its end, and nothing before that   *)
(* is none begins with a marker.                                           *)
ReadsAlike(h, b) ==
    \A w \in ToSet(Body(h)) :
        /\ w.block \in 1..b => EndsWhereRead(h, w.block)
        /\ w.block = 0 /\ Opens(w) => \A v \in Block(h, b) : v.line < w.line

(* No chunk has a part of a fenced block another chunk has a part of, as   *)
(* far as the code reads fences as Markdown does (Chunker.swift:125, 158). *)
(* Where it does not, as where a line in a block of four backticks begins  *)
(* with three, it may cut the block (Chunker.swift:177, 189).              *)
FencesStayWhole ==
    \A i, j \in DOMAIN chunks : i # j =>
        \A v \in ToSet(chunks[i].text) :
            v.block > 0 /\ ReadsAlike(v.heading, v.block) =>
                \A w \in ToSet(chunks[j].text) : ~SameBlock(v, w)

(* The headings around the i-th, said without a stack: those no heading in *)
(* between closes, outermost first.                                        *)
Around(i) ==
    LET open == {j \in 1..i : \A k \in j + 1..i :
                    document.headings[j].level < document.headings[k].level}
    IN  CHOOSE s \in SeqOf(open, i) :
            ToSet(s) = open /\ \A k, l \in DOMAIN s : k < l => s[k] < s[l]

PathOf(i) == PathTo([k \in DOMAIN Around(i) |-> document.headings[Around(i)[k]]])

(* A word is in a chunk that has its heading: at the end of its path, with *)
(* all that are around it, or written into its text before it              *)
(* (Chunker.swift:96).                                                     *)
TextKnowsItsHeading ==
    \A c \in DOMAIN chunks :
        \A i \in DOMAIN chunks[c].text :
            LET w == chunks[c].text[i]
            IN  \/ w.heading > 0 /\ chunks[c].path = PathOf(w.heading)
                \/ w.heading = 0 /\ chunks[c].path = <<Title>>
                \/ \E h \in 1..i : /\ chunks[c].text[h].heading = w.heading
                                   /\ chunks[c].text[h].line = 0

===============================================================================
