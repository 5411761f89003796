----------------------------- MODULE Vec0Query -----------------------------
(***************************************************************************)
(* Queries of a vec0 table: xBestIndex chooses between the k nearest rows, *)
(* one row and all rows, and says which constraints of the WHERE clause    *)
(* xFilter will apply; SQLite checks the others on the rows it is given.   *)
(* The k nearest are found chunk by chunk, with a bitmap per constraint.   *)
(*                                                                         *)
(* A query is a MATCH with its vector or none, "k = ?" and LIMIT clauses,  *)
(* what it is ordered by, and a set of constraints.  Distances are those   *)
(* of the column's metric, f32s of which none is a NaN, and bounds f64s;   *)
(* integers stand for both.  Texts have no NULs.                           *)
(***************************************************************************)
EXTENDS Vec0, FiniteSetsExt, SequencesExt

CONSTANTS
    Distance,   \* the metric, a function of pairs of vectors
    Single(_),  \* the cast of an f64 to an f32, which distances are
    KMax,       \* SQLITE_VEC_VEC0_K_MAX
    NoMatch,    \* the vector of a query that is not about nearness
    Queries     \* the queries asked

Orderings == {"<", "<=", ">", ">="}

(* Casting rounds to one of the f32s on either side: it takes no bound     *)
(* past a distance.                                                        *)
IsBound(value) ==
    /\ value \in Int /\ Single(value) \in Int
    /\ \A pair \in Vectors \X Vectors :
         /\ Distance[pair] <= value => Distance[pair] <= Single(value)
         /\ value <= Distance[pair] => Single(value) <= Distance[pair]

IsQuery(q) ==
    /\ q.vector \in Vectors \cup {Mistyped, NoMatch}
    /\ q.bounds \subseteq [by : {"k", "limit"}, k : Int]
    /\ q.order \in {"none", "distance", "descending", "another", "two"}
    /\ \A c \in q.where :
         /\ c.column \in {"id", "part", "meta", "aux", "distance"}
         /\ c.op \in {"=", "!=", "in", "is"} \cup Orderings
         /\ c.op = "in" => Null \notin c.value
         /\ c.column = "meta" =>
              IF c.op = "in" THEN c.value \subseteq Seq(Nat \ {0})
              ELSE c.value \in Seq(Nat \ {0})
         /\ c.column = "distance" /\ c.op \in Orderings => IsBound(c.value)

ASSUME QueryAssumption ==
    /\ Distance \in [Vectors \X Vectors -> Int]
    /\ KMax \in Nat
    /\ NoMatch \notin Vectors /\ NoMatch # Mistyped
    /\ Partitions \subseteq Int
    /\ Texts \subseteq Seq(Nat \ {0})
    /\ \A q \in Queries : IsQuery(q)

Comparisons == {"=", "!="} \cup Orderings

(* What a comparison says when the left side is less or equal.             *)
Compares(op, less, equal) ==
    CASE op = "=" -> equal
      [] op = "!=" -> ~equal
      [] op = "<" -> less
      [] op = "<=" -> less \/ equal
      [] op = ">" -> ~(less \/ equal)
      [] op = ">=" -> ~less

On(column, q) == {c \in q.where : c.column = column}

K(q) == (CHOOSE b \in q.bounds : TRUE).k

(* An "in" on the partition, unlike one on another column, is taken for    *)
(* "=": xBestIndex does not ask whether it is one (sqlite3_vtab_in), so    *)
(* SQLite calls xFilter once for each value in the list.                   *)
Split(q) == {c \in On("part", q) : c.op = "in"}

(* The query as each call of xFilter sees it. *)
Narrowed(q, value) ==
    [vector |-> q.vector, bounds |-> q.bounds, order |-> q.order,
     where |-> (q.where \ Split(q))
               \cup {[column |-> "part", op |-> "=", value |-> value[c]] : c \in Split(q)}]

ListedValues(q) ==
    {value \in [Split(q) -> UNION {c.value : c \in Split(q)}] :
        \A c \in Split(q) : value[c] \in c.value}

Runs(q) ==
    IF Split(q) = {} THEN {q} ELSE {Narrowed(q, value) : value \in ListedValues(q)}

---------------------------------------------------------------------------
(* vec0BestIndex. *)

(* Constraints that are errors, on the columns where others are not just   *)
(* left to SQLite.                                                         *)
RejectsConstraint(c) ==
    \/ c.column = "aux"
    \/ c.column = "meta" /\ c.op \notin Comparisons \cup {"in"}
    \/ c.column = "distance" /\ c.op \notin Orderings

(* SQLite takes back a LIMIT on what several calls of xFilter find, and    *)
(* vec0 then misses its k.                                                 *)
RejectsKnn(q) ==
    \/ Cardinality(q.bounds) # 1
    \/ Split(q) # {} /\ \E b \in q.bounds : b.by = "limit"
    \/ q.order \notin {"none", "distance"}
    \/ \E c \in q.where : RejectsConstraint(c)

(* One "in" on the id, for whatever plan. *)
Rejects(q) ==
    \/ Cardinality({c \in On("id", q) : c.op = "in"}) > 1
    \/ q.vector # NoMatch /\ RejectsKnn(q)

Plan(q) == IF q.vector # NoMatch THEN "knn"
           ELSE IF \E c \in On("id", q) : c.op = "=" THEN "point"
           ELSE "fullscan"

(* The constraints that are given to xFilter and that SQLite omits.        *)
PushedKnn(q) ==
    {c \in On("id", q) : c.op = "in"}
    \cup {c \in On("part", q) : c.op \in Comparisons \cup {"in"}}
    \cup On("meta", q) \cup On("distance", q)

(* Mutation of the next definition: a point query has every constraint on  *)
(* the id omitted.                                                         *)
PushedIds(q) ==
    CASE Plan(q) = "knn" -> PushedKnn(q)
      [] Plan(q) = "point" -> {c \in On("id", q) : c.op = "="}
      [] Plan(q) = "fullscan" -> {}

Pushed(q) ==
    CASE Plan(q) = "knn" -> PushedKnn(q)
      [] Plan(q) = "point" -> {CHOOSE c \in On("id", q) : c.op = "="}
      [] Plan(q) = "fullscan" -> {}

---------------------------------------------------------------------------
(* Text metadata. *)

(* strncmp, on texts without NULs that a NUL ends. *)
Strncmp(s, t, n) ==
    LET At(u, i) == IF i <= Len(u) THEN u[i] ELSE 0
        differ == {i \in 1..n : At(s, i) # At(t, i)}
    IN  IF differ = {} THEN 0 ELSE At(s, Min(differ)) - At(t, Min(differ))

ComparesPrefix(view, target) ==
    Strncmp(view.prefix, target, Min({view.n, ViewLen, Len(target)}))

(* = and != need the whole text when length and prefix agree; orderings    *)
(* whenever the text is not shorter than the view.                         *)
NeedsWhole(view, op, target) ==
    IF op \in Orderings THEN view.n >= ViewLen
    ELSE view.n = Len(target) /\ IsLong(view) /\ ComparesPrefix(view, target) = 0

TextEquals(view, whole, target) ==
    /\ view.n = Len(target)
    /\ ComparesPrefix(view, target) = 0
    /\ IsLong(view) => Strncmp(whole, target, view.n) = 0

(* Less than, equal to or greater than 0, as the text is to the target.    *)
TextOrder(view, whole, target) ==
    IF view.n >= ViewLen THEN Strncmp(whole, target, view.n)
    ELSE IF ComparesPrefix(view, target) = 0 THEN view.n - Len(target)
    ELSE ComparesPrefix(view, target)

TextMatches(view, whole, op, target) ==
    IF op \in Orderings
    THEN Compares(op, TextOrder(view, whole, target) < 0, TextOrder(view, whole, target) = 0)
    ELSE Compares(op, FALSE, TextEquals(view, whole, target))

(* "in" is = with one of several targets. *)
Targets(c) == IF c.op = "in" THEN c.value ELSE {c.value}
TargetOp(c) == IF c.op = "in" THEN "=" ELSE c.op

(* vec0_get_metadata_text_long_value finds no row, or one of another       *)
(* length.  Every slot of the chunk is looked at, in use or not.           *)
FilterTextFails(t, b, c) ==
    \E o \in Offsets, target \in Targets(c) :
        LET view == t.blobs[b].views[o]
            r == t.chunks[b].rowids[o]
        IN  /\ NeedsWhole(view, TargetOp(c), target)
            /\ r \notin DOMAIN t.texts \/ Len(t.texts[r]) # view.n

FilterText(t, b, c) ==
    {o \in Offsets :
        LET view == t.blobs[b].views[o]
            r == t.chunks[b].rowids[o]
        IN  \E target \in Targets(c) :
                TextMatches(view, IF r \in DOMAIN t.texts THEN t.texts[r] ELSE << >>,
                            TargetOp(c), target)}

---------------------------------------------------------------------------
(* vec0Filter_knn. *)

(* Mutation of the next definition: NULL satisfies everything. *)
ChunksIterOfNull(t, q) ==
    {b \in DOMAIN t.chunks :
        \A c \in On("part", q) \cap Pushed(q) :
            \/ t.chunks[b].part = Null
            \/ Compares(c.op, t.chunks[b].part < c.value, t.chunks[b].part = c.value)}

(* vec0_chunks_iter, a comparison of SQL, in which NULL satisfies nothing. *)
ChunksIter(t, q) ==
    {b \in DOMAIN t.chunks :
        \A c \in On("part", q) \cap Pushed(q) :
            /\ t.chunks[b].part # Null
            /\ Compares(c.op, t.chunks[b].part < c.value, t.chunks[b].part = c.value)}

(* The ids of "id in" as rowids; one that is not there ends the query,     *)
(* with no rows and no error, when keys are text: the error code is that   *)
(* of an inner rc.                                                         *)
RowidsIn(t, c) == {r \in DOMAIN t.rowids : IdOf(t, r) \in c.value}

GivesUp(t, q) ==
    PkIsText /\ \E c \in On("id", q) \cap Pushed(q) : ~(c.value \subseteq IdsIn(t))

BitmapRowids(t, b, q) ==
    {o \in t.chunks[b].valid :
        \A c \in On("id", q) \cap Pushed(q) : t.chunks[b].rowids[o] \in RowidsIn(t, c)}

BitmapMetadata(t, b, q) ==
    {o \in Offsets : \A c \in On("meta", q) : o \in FilterText(t, b, c)}

DistanceAt(t, b, o, q) == Distance[<<t.blobs[b].vectors[o], q.vector>>]

(* The bound is cast to an f32 first. *)
WithinDistance(t, b, q) ==
    {o \in Offsets :
        \A c \in On("distance", q) :
            Compares(c.op, DistanceAt(t, b, o, q) < Single(c.value),
                           DistanceAt(t, b, o, q) = Single(c.value))}

Candidates(t, b, q) ==
    BitmapRowids(t, b, q) \cap BitmapMetadata(t, b, q) \cap WithinDistance(t, b, q)

(* The one of several offsets that min_idx takes next: the last of those   *)
(* nearest.                                                                *)
Nearest(t, b, q, left) ==
    CHOOSE o \in left :
        \A p \in left :
            \/ DistanceAt(t, b, o, q) < DistanceAt(t, b, p, q)
            \/ DistanceAt(t, b, o, q) = DistanceAt(t, b, p, q) /\ p <= o

MinIdx(t, b, q, k) ==
    LET taken[i \in 0..k] ==
            IF i = 0 THEN << >>
            ELSE LET left == Candidates(t, b, q) \ ToSet(taken[i - 1])
                 IN  IF left = {} THEN taken[i - 1]
                     ELSE Append(taken[i - 1], Nearest(t, b, q, left))
    IN  taken[k]

RowsAt(t, b, q, top) ==
    [i \in 1..Len(top) |-> [rowid |-> t.chunks[b].rowids[top[i]],
                            distance |-> DistanceAt(t, b, top[i], q)]]

TopOfChunk(t, b, q) == RowsAt(t, b, q, MinIdx(t, b, q, Min({K(q), ChunkSize})))

(* The first n of two sorted lists, the first list before the second. *)
TakeHead(s) ==
    IF s.a = << >> /\ s.b = << >> THEN s
    ELSE IF s.b = << >> \/ (s.a # << >> /\ s.a[1].distance <= s.b[1].distance)
    THEN [out |-> Append(s.out, s.a[1]), a |-> Tail(s.a), b |-> s.b]
    ELSE [out |-> Append(s.out, s.b[1]), a |-> s.a, b |-> Tail(s.b)]

MergeSortedLists(list, other, n) ==
    LET step[i \in 0..n] ==
            IF i = 0 THEN [out |-> << >>, a |-> list, b |-> other] ELSE TakeHead(step[i - 1])
    IN  step[n].out

(* Chunk after chunk, in the order of their ids. *)
KnnChunksIter(t, q) ==
    LET best[c \in 0..MaxRowid] ==
            IF c = 0 THEN << >>
            ELSE IF c \in ChunksIter(t, q)
                 THEN MergeSortedLists(best[c - 1], TopOfChunk(t, c, q), K(q))
                 ELSE best[c - 1]
    IN  best[MaxRowid]

FilterKnn(t, q) == IF K(q) = 0 \/ GivesUp(t, q) THEN << >> ELSE KnnChunksIter(t, q)

FilterKnnFails(t, q) ==
    \/ q.vector = Mistyped
    \/ K(q) < 0 \/ K(q) > KMax
    \/ /\ K(q) # 0 /\ ~GivesUp(t, q)
       /\ \E b \in ChunksIter(t, q), c \in On("meta", q) : FilterTextFails(t, b, c)

---------------------------------------------------------------------------
(* vec0Filter, all its calls, and the columns of the rows found. *)

(* SQLite does not let vec0 sort what several calls find: it sorts, when   *)
(* there is an ORDER BY; else the rows come in whatever order.             *)
Arranged(q, found) ==
    CHOOSE s \in [1..Cardinality(found) -> found] :
        /\ ToSet(s) = found
        /\ q.order = "distance" =>
             \A i, j \in DOMAIN s : i < j => s[i].distance <= s[j].distance

FilterRuns(t, q) ==
    IF Split(q) = {} THEN FilterKnn(t, q)
    ELSE Arranged(q, UNION {ToSet(FilterKnn(t, run)) : run \in Runs(q)})

(* In the order of their slots. *)
FilterFullscan(t) ==
    LET Place(r) == ChunkOf(t, r) * ChunkSize + OffsetOf(t, r)
        order == CHOOSE s \in [1..Cardinality(DOMAIN t.rowids) -> DOMAIN t.rowids] :
                     \A i, j \in DOMAIN s : i < j => Place(s[i]) < Place(s[j])
    IN  [i \in DOMAIN order |-> [rowid |-> order[i], distance |-> Null]]

FilterPoint(t, q) ==
    LET id == (CHOOSE c \in Pushed(q) : TRUE).value
    IN  IF id \in IdsIn(t) THEN <<[rowid |-> RowidFromId(t, id), distance |-> Null]>> ELSE << >>

Filter(t, q) ==
    CASE Plan(q) = "knn" -> FilterRuns(t, q)
      [] Plan(q) = "point" -> FilterPoint(t, q)
      [] Plan(q) = "fullscan" -> FilterFullscan(t)

FilterFails(t, q) == Plan(q) = "knn" /\ \E run \in Runs(q) : FilterKnnFails(t, run)

Columns(t, found) ==
    [id |-> IdOf(t, found.rowid), distance |-> found.distance, row |-> RowAt(t, found.rowid)]

---------------------------------------------------------------------------
(* What SQL says of a constraint, which is also how SQLite checks those    *)
(* it does not omit.                                                       *)

TextLess(s, t) ==
    \/ Len(s) < Len(t) /\ SubSeq(t, 1, Len(s)) = s
    \/ \E i \in 1..Min({Len(s), Len(t)}) :
           SubSeq(s, 1, i - 1) = SubSeq(t, 1, i - 1) /\ s[i] < t[i]

ValueLess(column, x, y) == IF column = "meta" THEN TextLess(x, y) ELSE x < y

ColumnOf(answer, column) ==
    CASE column = "id" -> answer.id
      [] column = "distance" -> answer.distance
      [] column = "part" -> answer.row.part
      [] column = "meta" -> answer.row.meta
      [] column = "aux" -> answer.row.aux

Satisfies(answer, c) ==
    LET x == ColumnOf(answer, c.column)
    IN  CASE c.op = "is" -> x = c.value
          [] c.op = "in" -> x \in c.value
          [] c.op \in {"=", "!="} -> x # Null /\ Compares(c.op, FALSE, x = c.value)
          [] c.op \in Orderings ->
                x # Null /\ Compares(c.op, ValueLess(c.column, x, c.value), x = c.value)

(* The rows of the result, at their places among those found. *)
Kept(t, q, found) ==
    LET kept == {i \in 1..Len(found) :
                    \A c \in q.where \ Pushed(q) : Satisfies(Columns(t, found[i]), c)}
    IN  [i \in kept |-> Columns(t, found[i])]

Answer(t, q) == Kept(t, q, Filter(t, q))

---------------------------------------------------------------------------
(* Properties, of the committed tables. *)

Valid(q) == q.vector # Mistyped /\ (Plan(q) = "knn" => K(q) \in 0..KMax)

(* Rows with their distance from what the query asks about.                *)
Everything(t, q) ==
    {Columns(t, [rowid |-> r,
                 distance |-> IF q.vector = NoMatch THEN Null
                              ELSE Distance[<<VectorData(t, r), q.vector>>]])
        : r \in DOMAIN t.rowids}

Satisfying(t, q, constraints) ==
    {row \in Everything(t, q) : \A c \in constraints : Satisfies(row, c)}

(* What strncmp misjudges: a whole text is compared up to its own length,  *)
(* so a target that continues it counts as equal.                          *)
Misjudges(t, q) ==
    \E r \in DOMAIN t.texts, c \in On("meta", q) :
        /\ c.op \in {"<", ">="}
        /\ Len(t.texts[r]) < Len(c.value)
        /\ SubSeq(c.value, 1, Len(t.texts[r])) = t.texts[r]

(* What the cast misjudges: a bound that becomes a row's distance.         *)
Rounds(t, q) ==
    \E row \in Everything(t, q), c \in On("distance", q) :
        row.distance = Single(c.value) /\ Single(c.value) # c.value

(* The k nearest: each row found satisfies every constraint and comes once,*)
(* in order of distance if they were asked for in order or come from one   *)
(* call.  Each call finds no more than k, and a row that satisfies every   *)
(* constraint and is left out has k others as near as it among those that  *)
(* satisfy what is pushed down, which is what a call limits.               *)
AreNearest(t, q, answer) ==
    /\ ToSet(answer) \subseteq Satisfying(t, q, q.where)
    /\ \A i, j \in DOMAIN answer :
           i < j => /\ answer[i].id # answer[j].id
                    /\ q.order = "distance" \/ Split(q) = {} =>
                          answer[i].distance <= answer[j].distance
    /\ \A run \in Runs(q) :
         LET limited == Satisfying(t, run, Pushed(run))
         IN  /\ Cardinality(ToSet(answer) \cap limited) <= K(q)
             /\ \A row \in Satisfying(t, run, run.where) \ ToSet(answer) :
                  K(q) <= Cardinality({other \in limited \ {row} :
                                          other.distance <= row.distance})

(* However rows came to lie in chunks, a query for the k nearest rows that *)
(* is answered at all finds them: k for each value of an "in" on the       *)
(* partition, else k, under every combination of constraints.  Excepted    *)
(* are queries that compare a long text with a longer one it begins, that  *)
(* ask for text ids of which some are not there, or that bound the         *)
(* distance by a number whose cast is the distance of a row.               *)
KnnIsExact ==
    txn = "none" =>
        \A q \in Queries :
            (/\ Plan(q) = "knn" /\ ~Rejects(q) /\ ~FilterFails(committed, q)
             /\ ~GivesUp(committed, q) /\ ~Misjudges(committed, q) /\ ~Rounds(committed, q))
            => AreNearest(committed, q, Answer(committed, q))

AreExactly(answer, rows) ==
    /\ ToSet(answer) = rows
    /\ \A i, j \in DOMAIN answer : answer[i].id = answer[j].id => i = j

(* A query that is not about nearness finds exactly the rows that satisfy  *)
(* it, each once, whether it looks up a row or scans them all.             *)
LookupsAreExact ==
    txn = "none" =>
        \A q \in Queries :
            (Plan(q) # "knn" /\ ~Rejects(q)) =>
                AreExactly(Answer(committed, q), Satisfying(committed, q, q.where))

(* A query that is planned and valid is answered, with one exception: an   *)
(* ordering of texts fails as soon as a chunk it looks at has a text that  *)
(* exactly fills the view, since that one is in no table of long texts.    *)
(* Chunks are searched slot by slot, used or not, so this needs free slots *)
(* to be blank.                                                            *)
QueriesAnswer ==
    txn = "none" =>
        \A q \in Queries :
            (~Rejects(q) /\ Valid(q)) =>
                (FilterFails(committed, q) <=>
                    /\ Plan(q) = "knn" /\ K(q) # 0 /\ ~GivesUp(committed, q)
                    /\ \E c \in On("meta", q) :
                        /\ c.op \in Orderings
                        /\ \E row \in Satisfying(committed, q, On("part", q) \cap Pushed(q)) :
                               Len(row.row.meta) = ViewLen)
=============================================================================
