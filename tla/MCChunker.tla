------------------------------ MODULE MCChunker ------------------------------
(***************************************************************************)
(* Files small enough to list, with every boundary of the three            *)
(* configurations in reach: a sentence of one to six words, paragraphs of  *)
(* several, fenced blocks below and above the maximum, and fences that     *)
(* Markdown and the code read differently.                                 *)
(***************************************************************************)
EXTENDS Chunker

MCConfigurations == {
    [minimum |-> 3, maximum |-> 4],
    [minimum |-> 1, maximum |-> 1],
    [minimum |-> 6, maximum |-> 9]}

MCNames == {"auth", "token", "file"}

(* A part of a body is lines and what stands between blank lines only; a   *)
(* line is its number in the part, what it begins with, the block of the   *)
(* part it is in, and the lengths of its sentences.                        *)
Line(number, marker, block, lengths) ==
    [number |-> number, marker |-> marker, block |-> block, lengths |-> lengths]

Prose(lengths) == <<Line(1, "none", 0, lengths)>>

Fence(inside) == <<
    Line(1, "backticks", 1, <<1>>),
    Line(2, "none", 1, <<inside>>),
    Line(3, "backticks", 1, <<1>>)>>

(* One sentence over two lines, the second of which begins like a fence.   *)
CodeSpan == <<Line(1, "none", 0, <<2>>), Line(2, "backticks", 0, <<1>>)>>

(* Prose with nothing between it and the fence, and a blank line inside.   *)
Tight == <<
    Line(1, "none", 0, <<1>>),
    Line(2, "tildes", 1, <<1>>),
    Line(3, "none", 1, <<1>>),
    Line(5, "none", 1, <<2>>),
    Line(6, "tildes", 1, <<1>>)>>

(* Tildes around a line of backticks; four backticks around one of three.  *)
Enclosing(marker) == <<
    Line(1, marker, 1, <<1>>),
    Line(2, "backticks", 1, <<1>>),
    Line(4, "none", 1, <<3>>),
    Line(5, marker, 1, <<1>>)>>

(* A fence in a list item, which ends with the item or with the file, and  *)
(* one that begins with the mark of the item.                              *)
Unclosed == <<Line(1, "backticks", 1, <<1>>), Line(2, "none", 1, <<4>>)>>
InItem == <<
    Line(1, "none", 1, <<2>>),
    Line(2, "none", 1, <<3>>),
    Line(3, "backticks", 1, <<1>>)>>

Plain == {Prose(<<1>>), Prose(<<2>>), Prose(<<5>>), Prose(<<3, 3>>), Fence(0), Fence(4)}
Odd == {CodeSpan, Tight, Enclosing("tildes"), Enclosing("backticks"), Unclosed, InItem}

BodyOf(parts, h) ==
    FlattenSeq([p \in DOMAIN parts |->
        FlattenSeq([l \in DOMAIN parts[p] |->
            LET line == parts[p][l]
            IN  FlattenSeq([s \in DOMAIN line.lengths |->
                    [w \in 1..line.lengths[s] |->
                        [heading |-> h, line |-> 10 * p + line.number,
                         sentence |-> 10 * p + s, word |-> w, marker |-> line.marker,
                         block |-> IF line.block = 0 THEN 0 ELSE p]]])])])

Heading(level, name, parts, h) ==
    [level |-> level, name |-> name, body |-> BodyOf(parts, h)]

UpTo(n, S) == UNION {[1..k -> S] : k \in 0..n}

(* Three headings of any shape over bodies of at most one short unit.      *)
Outlines == {
    [title |-> title, stem |-> "file", preamble |-> BodyOf(preamble, 0),
     headings |-> [h \in 1..3 |-> Heading(levels[h], names[h], bodies[h], h)]] :
        title \in {"auth", "none"},
        preamble \in UpTo(1, {Prose(<<2>>)}),
        levels \in [1..3 -> 1..3],
        names \in [1..3 -> {"auth", "token"}],
        bodies \in [1..3 -> UpTo(1, {Prose(<<1>>), Prose(<<5>>)})]}

(* Two sections of one name, so that a split of the first renumbers the    *)
(* second.                                                                 *)
Repeated == {
    [title |-> "none", stem |-> "file", preamble |-> << >>,
     headings |-> <<Heading(2, "token", first, 1), Heading(2, "token", second, 2)>>] :
        first \in UpTo(2, Plain), second \in UpTo(2, Plain)}

(* One long section.                                                       *)
Long == {
    [title |-> "none", stem |-> "file", preamble |-> BodyOf(parts, 0), headings |-> << >>] :
        parts \in UpTo(2, Plain \cup Odd) \cup [1..3 -> Plain]}

MCDocuments == Outlines \cup Repeated \cup Long

=============================================================================
