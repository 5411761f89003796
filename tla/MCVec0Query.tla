---------------------------- MODULE MCVec0Query ----------------------------
(***************************************************************************)
(* Small tables, and queries of them, for TLC.                             *)
(***************************************************************************)
EXTENDS Vec0Query

CONSTANTS id1, id2, id3, Note

MCIds == {id1, id2, id3}
MCPartitions == 1..2
MCVectors == 0..2

(* Distances are even; the odd numbers between them are bounds that no f32 *)
(* equals.                                                                 *)
MCDistance == [pair \in MCVectors \X MCVectors |->
                 2 * (IF pair[1] <= pair[2] THEN pair[2] - pair[1] ELSE pair[1] - pair[2])]
MCSingle(bound) == CASE bound = 1 -> 0 [] bound = 3 -> 4 [] OTHER -> bound
MCAuxiliaries == {Note}

(* Shorter than the view, as long, and longer. *)
Short == <<1>>
Full == <<1, 2>>
Long == <<1, 2, 1>>
Longer == <<1, 2, 1, 1>>
Other == <<2>>
MCTexts == {Short, Full, Long, Longer, Other}

(* Rows of every partition and length of text, and one with each fault.    *)
MCNewRows ==
    LET good == [part |-> 1, vector |-> 0, meta |-> Short, aux |-> Note]
    IN  {good,
         [part |-> 1, vector |-> 2, meta |-> Long, aux |-> Null],
         [part |-> Null, vector |-> 1, meta |-> Long, aux |-> Note],
         [part |-> 2, vector |-> 0, meta |-> Full, aux |-> Note],
         [good EXCEPT !.part = Mistyped], [good EXCEPT !.vector = Mistyped],
         [good EXCEPT !.meta = Mistyped], [good EXCEPT !.aux = Mistyped]}

MCChanges ==
    LET none == [key |-> NoChange, part |-> NoChange, vector |-> NoChange,
                 meta |-> NoChange, aux |-> NoChange]
    IN  {[none EXCEPT !.vector = 0, !.meta = Short],
         [none EXCEPT !.vector = Null, !.meta = Long],
         [none EXCEPT !.meta = Short, !.vector = Mistyped],
         [none EXCEPT !.aux = Null, !.meta = Mistyped],
         [none EXCEPT !.key = "another", !.vector = 0], [none EXCEPT !.part = 1]}

Is(column, op, value) == [column |-> column, op |-> op, value |-> value]

Wheres ==
    {{}, {Is("id", "in", {id1, id2})}, {Is("id", "in", {id1}), Is("id", "in", {id2})},
     {Is("id", "=", id1)}, {Is("id", "=", id1), Is("id", "=", id2)},
     {Is("id", "=", id1), Is("part", "<", 2)},
     {Is("part", "is", Null)}, {Is("part", "is", 1), Is("distance", "<", 2)},
     {Is("part", "in", {1, 2})}, {Is("part", "in", {})},
     {Is("part", "in", {1, 2}), Is("part", "in", {2}), Is("meta", "!=", Short)},
     {Is("part", "in", {1, 2}), Is("id", "in", {id1, id2}), Is("distance", "<=", 2)},
     {Is("part", "in", {1, 2}), Is("meta", "<", Longer)},
     {Is("meta", "in", {Short, Long})}, {Is("meta", "is", Long)},
     {Is("aux", "=", Note)}, {Is("distance", "=", 1)},
     {Is("part", "=", 1), Is("meta", "!=", Short), Is("id", "in", {id1, id2})},
     {Is("part", "<=", 1), Is("meta", "<", Longer)}}
    \cup {{Is("part", op, 1)} : op \in Comparisons}
    \cup {{Is("meta", op, text)} : op \in Comparisons, text \in {Full, Long, Other}}
    \cup {{Is("distance", op, bound)} : op \in Orderings, bound \in 1..3}

Knn(vector, bounds, order, where) ==
    [vector |-> vector, bounds |-> bounds, order |-> order, where |-> where]

ByK(k) == {[by |-> "k", k |-> k]}

MCQueries ==
    {Knn(1, ByK(k), "distance", where) : k \in {1, 2}, where \in Wheres}
    \cup {Knn(NoMatch, {}, "none", where) : where \in Wheres}
    \cup {Knn(0, bounds, order, {}) :
            bounds \in {{}, ByK(-1), ByK(0), ByK(3), ByK(4), {[by |-> "limit", k |-> 1]},
                        ByK(1) \cup {[by |-> "limit", k |-> 1]}},
            order \in {"none", "distance", "descending"}}
    \cup {Knn(Mistyped, ByK(1), "none", {})}
    \cup {Knn(0, bounds, "none", {Is("part", "in", {1, 2})}) :
            bounds \in {ByK(1), ByK(-1), {[by |-> "limit", k |-> 1]}}}
=============================================================================
