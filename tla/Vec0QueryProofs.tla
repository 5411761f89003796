-------------------------- MODULE Vec0QueryProofs --------------------------
(***************************************************************************)
(* The answers of Vec0Query, for every table, metric, query and limit.     *)
(* Of Good tables the slots in use and the rows are the same thing seen    *)
(* from two sides, so a search of chunks, slot by slot, is about rows; the *)
(* text of a row is compared by its view and its long text as SQL would    *)
(* compare it.  The k nearest of all rows are those of the chunks, merged: *)
(* what is left out of a chunk's list, or of a merge, has k others that    *)
(* are as near.                                                            *)
(***************************************************************************)
EXTENDS Vec0Query, Vec0Proofs, FiniteSetTheorems

-----------------------------------------------------------------------------
(* Slots and rows.                                                         *)

LEMMA SlotOfRow ==
    ASSUME NEW t, Good(t), NEW r \in DOMAIN t.rowids
    PROVE  /\ ChunkOf(t, r) \in DOMAIN t.chunks
           /\ OffsetOf(t, r) \in t.chunks[ChunkOf(t, r)].valid
           /\ t.chunks[ChunkOf(t, r)].rowids[OffsetOf(t, r)] = r
BY SlotIsOwn

LEMMA RowOfSlot ==
    ASSUME NEW t, Good(t), NEW b \in DOMAIN t.chunks, NEW o \in t.chunks[b].valid,
           NEW r, r = t.chunks[b].rowids[o]
    PROVE  /\ r \in DOMAIN t.rowids /\ ChunkOf(t, r) = b /\ OffsetOf(t, r) = o
           /\ o \in Offsets /\ ViewOf(t, r) = t.blobs[b].views[o]
           /\ PartitionValue(t, r) = t.chunks[b].part
           /\ VectorData(t, r) = t.blobs[b].vectors[o]
<1>1. r \in DOMAIN t.rowids /\ ChunkOf(t, r) = b /\ OffsetOf(t, r) = o
  BY DEF Good, PositionsHold, SlotsHaveRows
<1> QED
  BY <1>1, SlotIsOwn DEF ViewOf, PartitionValue, VectorData

LEMMA FreeSlot ==
    ASSUME NEW t, Good(t), NEW b \in DOMAIN t.chunks, NEW o \in Offsets \ t.chunks[b].valid
    PROVE  t.blobs[b].views[o] = BlankView
BY DEF Good, NothingIsLeft, FreeSlotsAreBlank

(* What is known of a row's text from its view.                            *)
LEMMA TextOfView ==
    ASSUME NEW t, Good(t), NEW r \in DOMAIN t.rowids
    PROVE  /\ MetadataValue(t, r) \in Texts
           /\ ViewOf(t, r) = View(MetadataValue(t, r))
           /\ ViewOf(t, r).n = Len(MetadataValue(t, r)) /\ ViewOf(t, r).n \in Nat
           /\ r \in DOMAIN t.texts <=> IsLong(ViewOf(t, r))
           /\ r \in DOMAIN t.texts => t.texts[r] = MetadataValue(t, r)
<1>1. /\ \E text \in Texts : ViewOf(t, r) = View(text)
      /\ r \in DOMAIN t.texts <=> IsLong(ViewOf(t, r))
      /\ r \in DOMAIN t.texts => View(t.texts[r]) = ViewOf(t, r)
  BY RowIsThere
<1>2. r \in DOMAIN t.texts => t.texts[r] = MetadataValue(t, r)
  BY <1>1 DEF MetadataValue
<1>3. ViewOf(t, r) = View(MetadataValue(t, r))
  BY <1>1, <1>2, ShortTextIsItsView DEF MetadataValue
<1>4. MetadataValue(t, r) \in Texts
  BY MetadataIsText
<1>5. Len(MetadataValue(t, r)) \in Nat
  BY <1>4, Vec0Assumption
<1>6. ViewOf(t, r).n = Len(MetadataValue(t, r))
  BY <1>3 DEF View
<1> QED
  BY <1>1, <1>2, <1>3, <1>4, <1>5, <1>6

-----------------------------------------------------------------------------
(* When a query fails.                                                     *)

(* Orderings look for the whole of a text that just fits; equality never   *)
(* looks for a text that is not there; and a blank slot is shorter than a  *)
(* view.                                                                   *)
LEMMA WhenTextFails ==
    ASSUME NEW t, Good(t), NEW b \in DOMAIN t.chunks,
           NEW c, c.op \in Comparisons \cup {"in"}
    PROVE  FilterTextFails(t, b, c) <=>
               /\ c.op \in Orderings
               /\ \E o \in t.chunks[b].valid : t.blobs[b].views[o].n = ViewLen
<1>1. TargetOp(c) \in Orderings <=> c.op \in Orderings
  BY DEF TargetOp, Orderings
<1>2. c.op \in Orderings => Targets(c) = {c.value}
  BY DEF Targets, Orderings
<1>3. ViewLen \in Nat /\ ViewLen > 0
  BY Vec0Assumption
<1>4. \A o \in t.chunks[b].valid : o \in Offsets
  BY RowOfSlot
<1>5. ASSUME NEW o \in Offsets, NEW target, NEW op,
             NeedsWhole(t.blobs[b].views[o], op, target),
             t.chunks[b].rowids[o] \notin DOMAIN t.texts
             \/ Len(t.texts[t.chunks[b].rowids[o]]) # t.blobs[b].views[o].n
      PROVE  op \in Orderings /\ o \in t.chunks[b].valid /\ t.blobs[b].views[o].n = ViewLen
  <2> DEFINE view == t.blobs[b].views[o]
             r == t.chunks[b].rowids[o]
  <2>1. o \in t.chunks[b].valid
    <3> SUFFICES ASSUME o \notin t.chunks[b].valid PROVE FALSE
      OBVIOUS
    <3>1. view.n = 0
      BY FreeSlot DEF BlankView
    <3> QED
      BY <1>3, <1>5, <3>1 DEF NeedsWhole, IsLong
  <2>2. r \in DOMAIN t.rowids /\ ViewOf(t, r) = view
    BY <2>1, RowOfSlot
  <2>3. view.n \in Nat /\ (IsLong(view) => r \in DOMAIN t.texts /\ Len(t.texts[r]) = view.n)
    BY <2>2, TextOfView
  <2>4. ~IsLong(view)
    BY <1>5, <2>3
  <2> QED
    BY <1>3, <1>5, <2>1, <2>3, <2>4 DEF NeedsWhole, IsLong
<1>6. ASSUME c.op \in Orderings, NEW o \in t.chunks[b].valid, t.blobs[b].views[o].n = ViewLen
      PROVE  FilterTextFails(t, b, c)
  <2> DEFINE view == t.blobs[b].views[o]
             r == t.chunks[b].rowids[o]
  <2>1. r \in DOMAIN t.rowids /\ ViewOf(t, r) = view
    BY RowOfSlot
  <2>2. r \notin DOMAIN t.texts
    BY <1>3, <1>6, <2>1, TextOfView DEF IsLong
  <2>3. NeedsWhole(view, TargetOp(c), c.value)
    BY <1>1, <1>3, <1>6 DEF NeedsWhole
  <2> QED
    BY <1>2, <1>4, <1>6, <2>2, <2>3 DEF FilterTextFails
<1> QED
  BY <1>1, <1>5, <1>6 DEF FilterTextFails

(* The constraints on the partition that a search of the k nearest applies *)
(* are the comparisons.                                                    *)
LEMMA PushedOnPartition ==
    ASSUME NEW q, Plan(q) = "knn"
    PROVE  /\ On("part", q) \cap Pushed(q) =
                {c \in On("part", q) : c.op \in Comparisons \cup {"in"}}
           /\ Split(q) = {} => \A c \in On("part", q) \cap Pushed(q) : c.op \in Comparisons
BY DEF Pushed, PushedKnn, Split, On

LEMMA ChunkSatisfies ==
    ASSUME NEW t, NEW q, NEW r, NEW row,
           row.row.part = PartitionValue(t, r), NEW c \in On("part", q), c.op \in Comparisons
    PROVE  Satisfies(row, c) <=>
               LET part == t.chunks[ChunkOf(t, r)].part
               IN  part # Null /\ Compares(c.op, part < c.value, part = c.value)
<1>1. ColumnOf(row, c.column) = t.chunks[ChunkOf(t, r)].part /\ c.column = "part"
  BY DEF On, ColumnOf, PartitionValue
<1>2. CASE c.op \in Orderings
  BY <1>1, <1>2 DEF Satisfies, ValueLess, Orderings
<1>3. CASE c.op \in {"=", "!="}
  BY <1>1, <1>3 DEF Satisfies, Compares
<1> QED
  BY <1>2, <1>3 DEF Comparisons

(* The row of Everything that is made of one of the table.                 *)
RowFor(t, q, r) ==
    Columns(t, [rowid |-> r,
                distance |-> IF q.vector = NoMatch THEN Null
                             ELSE Distance[<<VectorData(t, r), q.vector>>]])

LEMMA EverythingIsRows == ASSUME NEW t, NEW q PROVE Everything(t, q) = {RowFor(t, q, r) : r \in DOMAIN t.rowids}
BY DEF Everything, RowFor

LEMMA RowForFields ==
    ASSUME NEW t, NEW q, NEW r
    PROVE  /\ RowFor(t, q, r).id = IdOf(t, r)
           /\ RowFor(t, q, r).row = RowAt(t, r)
           /\ RowFor(t, q, r).row.part = PartitionValue(t, r)
           /\ RowFor(t, q, r).row.meta = MetadataValue(t, r)
           /\ q.vector # NoMatch => RowFor(t, q, r).distance = Distance[<<VectorData(t, r), q.vector>>]
           /\ q.vector = NoMatch => RowFor(t, q, r).distance = Null
BY DEF RowFor, Columns, RowAt

(* The chunks that are searched are those of the rows whose partition fits.*)
LEMMA ChunksOfRows ==
    ASSUME NEW t, Good(t), NEW q, Plan(q) = "knn", Split(q) = {}, NEW r \in DOMAIN t.rowids
    PROVE  ChunkOf(t, r) \in ChunksIter(t, q) <=>
               \A c \in On("part", q) \cap Pushed(q) : Satisfies(RowFor(t, q, r), c)
<1>1. \A c \in On("part", q) \cap Pushed(q) :
        Satisfies(RowFor(t, q, r), c) <=>
           /\ t.chunks[ChunkOf(t, r)].part # Null
           /\ Compares(c.op, t.chunks[ChunkOf(t, r)].part < c.value, t.chunks[ChunkOf(t, r)].part = c.value)
  <2> SUFFICES ASSUME NEW c \in On("part", q) \cap Pushed(q)
               PROVE  Satisfies(RowFor(t, q, r), c) <=>
                   /\ t.chunks[ChunkOf(t, r)].part # Null
                   /\ Compares(c.op, t.chunks[ChunkOf(t, r)].part < c.value, t.chunks[ChunkOf(t, r)].part = c.value)
    OBVIOUS
  <2>1. c \in On("part", q) /\ c.op \in Comparisons
    BY PushedOnPartition
  <2>2. RowFor(t, q, r).row.part = PartitionValue(t, r)
    BY RowForFields
  <2> QED
    BY <2>1, <2>2, ChunkSatisfies
<1>2. ChunkOf(t, r) \in DOMAIN t.chunks
  BY SlotOfRow
<1> QED
  BY <1>1, <1>2 DEF ChunksIter

-----------------------------------------------------------------------------
(* The calls of xFilter.                                                   *)

(* What narrowing a query puts in the place of its "in"s.                  *)
Equals(q, value) == {[column |-> "part", op |-> "=", value |-> value[c]] : c \in Split(q)}

(* A row is in the partition that was chosen.                              *)
IsChosen(q, value, row) ==
    \A c \in Split(q) : row.row.part # Null /\ row.row.part = value[c]

LEMMA NarrowedIs ==
    ASSUME NEW q, Plan(q) = "knn", NEW value
    PROVE  /\ Narrowed(q, value).vector = q.vector /\ Narrowed(q, value).bounds = q.bounds
           /\ Narrowed(q, value).order = q.order
           /\ Narrowed(q, value).where = (q.where \ Split(q)) \cup Equals(q, value)
           /\ Plan(Narrowed(q, value)) = "knn"
           /\ Split(Narrowed(q, value)) = {}
           /\ \A column \in {"id", "meta", "distance"} :
                On(column, Narrowed(q, value)) = On(column, q)
           /\ Pushed(Narrowed(q, value)) = (Pushed(q) \ Split(q)) \cup Equals(q, value)
           /\ On("part", Narrowed(q, value)) \cap Pushed(Narrowed(q, value)) =
                ((On("part", q) \cap Pushed(q)) \ Split(q)) \cup Equals(q, value)
<1> DEFINE n == Narrowed(q, value)
<1>1. /\ n.vector = q.vector /\ n.bounds = q.bounds /\ n.order = q.order
      /\ n.where = (q.where \ Split(q)) \cup Equals(q, value)
  BY DEF Narrowed, Equals
<1>2. \A d \in Equals(q, value) : d.column = "part" /\ d.op = "="
  BY DEF Equals
<1> HIDE DEF n
<1>3. \A d : d \in Split(q) <=> d \in q.where /\ d.column = "part" /\ d.op = "in"
  BY DEF Split, On
<1>4. q.vector # NoMatch /\ Plan(n) = "knn"
  BY <1>1 DEF Plan
<1>5. Split(n) = {}
  BY <1>1, <1>2, <1>3 DEF Split, On
<1>6. \A column \in {"id", "meta", "distance"} : On(column, n) = On(column, q)
  BY <1>1, <1>2, <1>3 DEF On
<1>7. On("part", n) = (On("part", q) \ Split(q)) \cup Equals(q, value)
  BY <1>1, <1>2 DEF On
<1>8. Pushed(n) = PushedKnn(n) /\ Pushed(q) = PushedKnn(q)
  BY <1>4 DEF Pushed
<1>9. "=" \in Comparisons
  BY DEF Comparisons
<1>10. \A d : /\ d \in On("id", q) \/ d \in On("meta", q) \/ d \in On("distance", q) => d \notin Split(q)
              /\ d \in On("part", q) => d \notin On("id", q) /\ d \notin On("meta", q) /\ d \notin On("distance", q)
              /\ d \in Equals(q, value) => d \notin On("id", q) /\ d \notin On("meta", q) /\ d \notin On("distance", q)
  BY <1>2, <1>3 DEF On
<1>11. \A d \in On("part", q) \ Split(q) : d.op # "in"
  BY DEF Split
<1>12. Pushed(n) = (Pushed(q) \ Split(q)) \cup Equals(q, value)
  <2> SUFFICES ASSUME NEW d PROVE d \in PushedKnn(n) <=> d \in (PushedKnn(q) \ Split(q)) \cup Equals(q, value)
    BY <1>8
  <2> QED
    BY <1>2, <1>6, <1>7, <1>9, <1>10, <1>11 DEF PushedKnn
<1>13. On("part", n) \cap Pushed(n) = ((On("part", q) \cap Pushed(q)) \ Split(q)) \cup Equals(q, value)
  BY <1>7, <1>12
<1> QED
  BY <1>1, <1>4, <1>5, <1>6, <1>12, <1>13 DEF n

(* A row satisfies what takes the place of the "in"s if it is in the       *)
(* partition chosen, and the "in"s if there is a choice that is its own.   *)
LEMMA EqualsMean ==
    ASSUME NEW q, NEW value, NEW row
    PROVE  (\A d \in Equals(q, value) : Satisfies(row, d)) <=> IsChosen(q, value, row)
<1>1. ASSUME NEW d, d.column = "part", d.op = "="
      PROVE  Satisfies(row, d) <=> row.row.part # Null /\ row.row.part = d.value
  BY <1>1 DEF Satisfies, ColumnOf, Compares, Orderings
<1>2. ASSUME NEW c \in Split(q)
      PROVE  Satisfies(row, [column |-> "part", op |-> "=", value |-> value[c]])
             <=> row.row.part # Null /\ row.row.part = value[c]
  BY <1>1
<1> QED
  BY <1>2 DEF Equals, IsChosen

LEMMA SomeChoice ==
    ASSUME NEW q, IsQuery(q), NEW row
    PROVE  (\A c \in Split(q) : Satisfies(row, c)) <=> \E value \in ListedValues(q) : IsChosen(q, value, row)
<1>1. ASSUME NEW c \in Split(q)
      PROVE  /\ Satisfies(row, c) <=> row.row.part \in c.value
             /\ Null \notin c.value
  BY DEF IsQuery, Split, On, Satisfies, ColumnOf, Orderings
<1>2. ASSUME \A c \in Split(q) : Satisfies(row, c)
      PROVE  \E value \in ListedValues(q) : IsChosen(q, value, row)
  <2> DEFINE value == [c \in Split(q) |-> row.row.part]
  <2>1. value \in ListedValues(q) /\ IsChosen(q, value, row)
    BY <1>1, <1>2 DEF ListedValues, IsChosen
  <2> QED
    BY <2>1
<1>3. ASSUME NEW value \in ListedValues(q), IsChosen(q, value, row), NEW c \in Split(q)
      PROVE  Satisfies(row, c)
  BY <1>1, <1>3 DEF ListedValues, IsChosen
<1> QED
  BY <1>2, <1>3

LEMMA OneChoice ==
    ASSUME NEW q, NEW value \in ListedValues(q), NEW other \in ListedValues(q), NEW row,
           IsChosen(q, value, row), IsChosen(q, other, row)
    PROVE  value = other
<1> DEFINE some == UNION {c.value : c \in Split(q)}
<1>1. value \in [Split(q) -> some] /\ other \in [Split(q) -> some]
  BY DEF ListedValues
<1>2. \A c \in Split(q) : value[c] = other[c]
  BY DEF IsChosen
<1> HIDE DEF some
<1> QED
  BY <1>1, <1>2

(* A call of xFilter is a query without an "in" on the partition, whose    *)
(* rows satisfy the whole.                                                 *)
LEMMA RunIs ==
    ASSUME NEW t, NEW q, IsQuery(q), Plan(q) = "knn", NEW run \in Runs(q)
    PROVE  /\ IsQuery(run) /\ Plan(run) = "knn" /\ Split(run) = {}
           /\ run.vector = q.vector /\ K(run) = K(q)
           /\ RejectsKnn(run) => RejectsKnn(q)
           /\ On("meta", run) = On("meta", q)
           /\ GivesUp(t, run) <=> GivesUp(t, q)
           /\ Misjudges(t, run) => Misjudges(t, q)
           /\ Rounds(t, run) => Rounds(t, q)
           /\ run.where \ Pushed(run) = q.where \ Pushed(q)
           /\ \A r : RowFor(t, run, r) = RowFor(t, q, r)
           /\ \A row : (\A c \in Pushed(run) : Satisfies(row, c)) => (\A c \in Pushed(q) : Satisfies(row, c))
           /\ \A row : (\A c \in run.where : Satisfies(row, c)) => (\A c \in q.where : Satisfies(row, c))
<1>1. CASE Split(q) = {}
  <2>1. run = q
    BY <1>1 DEF Runs
  <2> QED
    BY <1>1, <2>1
<1>2. CASE Split(q) # {}
  <2>1. PICK value \in ListedValues(q) : run = Narrowed(q, value)
    BY <1>2 DEF Runs
  <2>2. /\ run.vector = q.vector /\ run.bounds = q.bounds /\ run.order = q.order
        /\ run.where = (q.where \ Split(q)) \cup Equals(q, value)
        /\ Plan(run) = "knn" /\ Split(run) = {}
        /\ On("id", run) = On("id", q) /\ On("meta", run) = On("meta", q)
        /\ On("distance", run) = On("distance", q)
        /\ Pushed(run) = (Pushed(q) \ Split(q)) \cup Equals(q, value)
    BY <2>1, NarrowedIs
  <2>3. \A d \in Equals(q, value) : d.column = "part" /\ d.op = "="
    BY DEF Equals
  <2>4. IsQuery(run)
    BY <2>2, <2>3 DEF IsQuery
  <2>5. K(run) = K(q)
    BY <2>2 DEF K
  <2>6. RejectsKnn(run) => RejectsKnn(q)
    <3>1. \A d \in Equals(q, value) : ~RejectsConstraint(d)
      BY <2>3 DEF RejectsConstraint
    <3> QED
      BY <2>2, <3>1 DEF RejectsKnn
  <2>7. GivesUp(t, run) <=> GivesUp(t, q)
    <3>1. \A d \in On("id", q) : d \notin Split(q) /\ d \notin Equals(q, value)
      BY <2>3 DEF Split, On
    <3>2. On("id", run) \cap Pushed(run) = On("id", q) \cap Pushed(q)
      BY <2>2, <3>1
    <3> QED
      BY <3>2 DEF GivesUp
  <2>8. Misjudges(t, run) => Misjudges(t, q)
    BY <2>2 DEF Misjudges
  <2>9. \A r : RowFor(t, run, r) = RowFor(t, q, r)
    BY <2>2 DEF RowFor
  <2>10. Rounds(t, run) => Rounds(t, q)
    <3>1. Everything(t, run) = Everything(t, q)
      BY <2>2 DEF Everything
    <3> QED
      BY <2>2, <3>1 DEF Rounds
  <2>11. Split(q) \subseteq Pushed(q) /\ Split(q) \subseteq q.where
    BY DEF Split, Pushed, PushedKnn, On
  <2>12. run.where \ Pushed(run) = q.where \ Pushed(q)
    <3>1. \A d \in Equals(q, value) : d \in q.where => d \in Pushed(q)
      BY <2>3 DEF Pushed, PushedKnn, On, Comparisons
    <3> QED
      BY <2>2, <2>11, <3>1
  <2>13. ASSUME NEW row, \A d \in Equals(q, value) : Satisfies(row, d), NEW c \in Split(q)
         PROVE  Satisfies(row, c)
    BY <2>13, EqualsMean, SomeChoice
  <2>14. ASSUME NEW row, \A c \in Pushed(run) : Satisfies(row, c), NEW c \in Pushed(q)
         PROVE  Satisfies(row, c)
    BY <2>2, <2>13, <2>14
  <2>15. ASSUME NEW row, \A c \in run.where : Satisfies(row, c), NEW c \in q.where
         PROVE  Satisfies(row, c)
    BY <2>2, <2>13, <2>15
  <2> QED
    BY <2>2, <2>4, <2>5, <2>6, <2>7, <2>8, <2>9, <2>10, <2>12, <2>14, <2>15
<1> QED
  BY <1>1, <1>2

(* A row that satisfies what is pushed on the partition does so for one    *)
(* call, and for no other.                                                 *)
LEMMA RunOfRow ==
    ASSUME NEW q, IsQuery(q), Plan(q) = "knn", NEW row
    PROVE  (\A c \in On("part", q) \cap Pushed(q) : Satisfies(row, c)) <=>
               \E run \in Runs(q) : \A c \in On("part", run) \cap Pushed(run) : Satisfies(row, c)
<1>1. CASE Split(q) = {}
  BY <1>1 DEF Runs
<1>2. CASE Split(q) # {}
  <2> DEFINE parts == On("part", q) \cap Pushed(q)
  <2>1. ASSUME NEW value \in ListedValues(q)
        PROVE  /\ Narrowed(q, value) \in Runs(q)
               /\ (\A c \in On("part", Narrowed(q, value)) \cap Pushed(Narrowed(q, value)) : Satisfies(row, c))
                  <=> (\A c \in parts \ Split(q) : Satisfies(row, c)) /\ IsChosen(q, value, row)
    <3>1. On("part", Narrowed(q, value)) \cap Pushed(Narrowed(q, value)) = (parts \ Split(q)) \cup Equals(q, value)
      BY NarrowedIs
    <3> QED
      BY <1>2, <3>1, EqualsMean DEF Runs
  <2>2. \A run \in Runs(q) : \E value \in ListedValues(q) : run = Narrowed(q, value)
    BY <1>2 DEF Runs
  <2>3. Split(q) \subseteq parts
    BY DEF Split, Pushed, PushedKnn, On
  <2>4. (\A c \in Split(q) : Satisfies(row, c)) <=> \E value \in ListedValues(q) : IsChosen(q, value, row)
    BY SomeChoice
  <2> QED
    BY <2>1, <2>2, <2>3, <2>4
<1> QED
  BY <1>1, <1>2

LEMMA RunIsOwn ==
    ASSUME NEW q, Plan(q) = "knn", NEW run \in Runs(q), NEW other \in Runs(q), NEW row,
           \A c \in Pushed(run) : Satisfies(row, c),
           \A c \in Pushed(other) : Satisfies(row, c)
    PROVE  run = other
<1>1. CASE Split(q) = {}
  BY <1>1 DEF Runs
<1>2. CASE Split(q) # {}
  <2>1. PICK value \in ListedValues(q) : run = Narrowed(q, value)
    BY <1>2 DEF Runs
  <2>2. PICK value2 \in ListedValues(q) : other = Narrowed(q, value2)
    BY <1>2 DEF Runs
  <2>3. IsChosen(q, value, row) /\ IsChosen(q, value2, row)
    BY <2>1, <2>2, NarrowedIs, EqualsMean
  <2> QED
    BY <2>1, <2>2, <2>3, OneChoice
<1> QED
  BY <1>1, <1>2

(* A row that satisfies the whole satisfies one call.                      *)
LEMMA RunSatisfied ==
    ASSUME NEW q, IsQuery(q), Plan(q) = "knn", NEW row, \A c \in q.where : Satisfies(row, c)
    PROVE  \E run \in Runs(q) : \A c \in run.where : Satisfies(row, c)
<1>1. CASE Split(q) = {}
  BY <1>1 DEF Runs
<1>2. CASE Split(q) # {}
  <2>1. PICK value \in ListedValues(q) : IsChosen(q, value, row)
    BY SomeChoice DEF Split, On
  <2>2. Narrowed(q, value) \in Runs(q)
    BY <1>2 DEF Runs
  <2> QED
    BY <2>1, <2>2, NarrowedIs, EqualsMean
<1> QED
  BY <1>1, <1>2

(* Exactly an ordering of texts, where a text just fits the view, fails a  *)
(* query that is planned and valid, whatever the history of the table.     *)
THEOREM FailuresAreKnown == Spec => []QueriesAnswer
<1>1. IInv => QueriesAnswer
  <2> SUFFICES ASSUME IInv, NEW q \in Queries, ~Rejects(q), Valid(q)
               PROVE  FilterFails(committed, q) <=>
                    /\ Plan(q) = "knn" /\ K(q) # 0 /\ ~GivesUp(committed, q)
                    /\ \E c \in On("meta", q) :
                        /\ c.op \in Orderings
                        /\ \E row \in Satisfying(committed, q, On("part", q) \cap Pushed(q)) :
                               Len(row.row.meta) = ViewLen
    BY DEF QueriesAnswer
  <2> DEFINE t == committed
             Parts == On("part", q) \cap Pushed(q)
  <2>1. Good(t)
    BY DEF IInv
  <2> HIDE DEF t, Parts
  <2>2. CASE Plan(q) = "knn"
    <3>1. /\ IsQuery(q) /\ \A c \in On("meta", q) : c.op \in Comparisons \cup {"in"}
          /\ q.vector # Mistyped /\ ~(K(q) < 0 \/ K(q) > KMax)
      BY <2>2, QueryAssumption DEF Valid, Rejects, RejectsKnn, RejectsConstraint, On, Plan
    <3>2. ASSUME NEW run \in Runs(q), NEW c \in On("meta", q), NEW b \in ChunksIter(t, run), FilterTextFails(t, b, c)
          PROVE  /\ c.op \in Orderings
                 /\ \E row \in Satisfying(t, q, Parts) : Len(row.row.meta) = ViewLen
      <4>1. b \in DOMAIN t.chunks
        BY DEF ChunksIter
      <4>2. PICK o \in t.chunks[b].valid : t.blobs[b].views[o].n = ViewLen
        BY <2>1, <3>1, <3>2, <4>1, WhenTextFails
      <4> DEFINE r == t.chunks[b].rowids[o]
      <4>3. r \in DOMAIN t.rowids /\ ChunkOf(t, r) = b /\ ViewOf(t, r).n = ViewLen
        BY <2>1, <4>1, <4>2, RowOfSlot
      <4> HIDE DEF r
      <4>4. Len(RowFor(t, q, r).row.meta) = ViewLen
        <5>1. RowFor(t, q, r).row.meta = MetadataValue(t, r)
          BY RowForFields
        <5>2. ViewOf(t, r).n = Len(MetadataValue(t, r))
          BY <2>1, <4>3, TextOfView
        <5> QED
          BY <4>3, <5>1, <5>2
      <4>5. RowFor(t, q, r) \in Satisfying(t, q, Parts)
        <5>1. Plan(run) = "knn" /\ Split(run) = {} /\ RowFor(t, run, r) = RowFor(t, q, r)
          BY <2>2, <3>1, RunIs
        <5>2. \A d \in On("part", run) \cap Pushed(run) : Satisfies(RowFor(t, q, r), d)
          BY <2>1, <4>3, <5>1, ChunksOfRows
        <5> QED
          BY <2>2, <3>1, <4>3, <5>2, RunOfRow, EverythingIsRows DEF Satisfying, Parts
      <4> QED
        BY <2>1, <3>1, <3>2, <4>1, <4>4, <4>5, WhenTextFails
    <3>3. ASSUME NEW c \in On("meta", q), c.op \in Orderings,
                 NEW row \in Satisfying(t, q, Parts), Len(row.row.meta) = ViewLen
          PROVE  \E run \in Runs(q) : \E b \in ChunksIter(t, run) : FilterTextFails(t, b, c)
      <4>1. PICK r \in DOMAIN t.rowids : row = RowFor(t, q, r)
        BY EverythingIsRows DEF Satisfying
      <4>2. PICK run \in Runs(q) : \A d \in On("part", run) \cap Pushed(run) : Satisfies(row, d)
        BY <2>2, <3>1, RunOfRow DEF Satisfying, Parts
      <4>3. ChunkOf(t, r) \in ChunksIter(t, run) /\ ChunkOf(t, r) \in DOMAIN t.chunks
        <5>1. Plan(run) = "knn" /\ Split(run) = {} /\ RowFor(t, run, r) = RowFor(t, q, r)
          BY <2>2, <3>1, RunIs
        <5> QED
          BY <2>1, <4>1, <4>2, <5>1, ChunksOfRows DEF ChunksIter
      <4>4. ViewOf(t, r).n = ViewLen
        <5>1. RowFor(t, q, r).row.meta = MetadataValue(t, r)
          BY RowForFields
        <5>2. ViewOf(t, r).n = Len(MetadataValue(t, r))
          BY <2>1, TextOfView
        <5> QED
          BY <3>3, <4>1, <5>1, <5>2
      <4>5. OffsetOf(t, r) \in t.chunks[ChunkOf(t, r)].valid
            /\ t.blobs[ChunkOf(t, r)].views[OffsetOf(t, r)].n = ViewLen
        BY <2>1, <4>4, SlotOfRow DEF ViewOf
      <4> QED
        BY <2>1, <3>1, <3>3, <4>3, <4>5, WhenTextFails
    <3>4. ASSUME NEW run \in Runs(q)
          PROVE  FilterKnnFails(t, run) <=>
                   /\ K(q) # 0 /\ ~GivesUp(t, q)
                   /\ \E b \in ChunksIter(t, run), c \in On("meta", q) : FilterTextFails(t, b, c)
      BY <2>2, <3>1, RunIs DEF FilterKnnFails
    <3>5. FilterFails(t, q) <=> \E run \in Runs(q) : FilterKnnFails(t, run)
      BY <2>2 DEF FilterFails
    <3> QED
      BY <2>2, <3>2, <3>3, <3>4, <3>5 DEF t, Parts
  <2>3. CASE Plan(q) # "knn"
    BY <2>3 DEF FilterFails
  <2> QED
    BY <2>2, <2>3
<1> QED
  BY <1>1, InvariantHolds, PTL

-----------------------------------------------------------------------------
(* Looking up rows.                                                        *)

(* Finitely many things with numbers of their own can be listed in order.  *)
LEMMA SomeListIsSorted ==
    ASSUME NEW S, IsFiniteSet(S), NEW M \in Nat, NEW place \in [S -> 0..M],
           \A x, y \in S : place[x] = place[y] => x = y
    PROVE  \E s \in [1..Cardinality(S) -> S] :
               \A i, j \in DOMAIN s : i < j => place[s[i]] < place[s[j]]
<1> DEFINE Below(m) == {x \in S : place[x] < m}
           Sorted(m) == \E s \in [1..Cardinality(Below(m)) -> Below(m)] :
                            \A i, j \in DOMAIN s : i < j => place[s[i]] < place[s[j]]
           Unsorted == {m \in Nat : ~Sorted(m)}
<1>1. Sorted(0)
  <2>1. Below(0) = {}
    OBVIOUS
  <2>2. Cardinality(Below(0)) = 0
    BY <2>1, FS_EmptySet
  <2> DEFINE s == [i \in 1..0 |-> 0]
  <2>3. s \in [1..0 -> Below(0)] /\ DOMAIN s = {}
    OBVIOUS
  <2> QED
    BY <2>2, <2>3
<1>2. ASSUME NEW m \in Nat, Sorted(m)
      PROVE  Sorted(m + 1)
  <2>1. PICK s \in [1..Cardinality(Below(m)) -> Below(m)] :
            \A i, j \in DOMAIN s : i < j => place[s[i]] < place[s[j]]
    BY <1>2
  <2>2. IsFiniteSet(Below(m))
    BY FS_Subset
  <2> DEFINE n == Cardinality(Below(m))
  <2>3. n \in Nat
    BY <2>2, FS_CardinalityType
  <2>4. CASE \E x \in S : place[x] = m
    <3>1. PICK x \in S : place[x] = m
      BY <2>4
    <3>2. Below(m + 1) = Below(m) \cup {x} /\ x \notin Below(m)
      BY <3>1
    <3>3. Cardinality(Below(m + 1)) = n + 1
      BY <2>2, <3>2, FS_AddElement
    <3> DEFINE longer == [i \in 1..n + 1 |-> IF i = n + 1 THEN x ELSE s[i]]
    <3>6. s \in [1..n -> Below(m)]
      BY <2>1
    <3>4. longer \in [1..n + 1 -> Below(m + 1)]
      <4>1. ASSUME NEW i \in 1..n + 1 PROVE (IF i = n + 1 THEN x ELSE s[i]) \in Below(m + 1)
        <5>1. i = n + 1 \/ i \in 1..n
          BY <2>3
        <5> QED
          BY <3>2, <3>6, <5>1
      <4> QED
        BY <4>1
    <3> HIDE DEF n
    <3>5. ASSUME NEW i \in 1..n + 1, NEW j \in 1..n + 1, i < j
          PROVE  place[longer[i]] < place[longer[j]]
      <4>1. i \in 1..n /\ i # n + 1 /\ longer[i] = s[i] /\ s[i] \in Below(m)
        BY <2>3, <3>5 DEF n
      <4>2. CASE j = n + 1
        BY <3>1, <4>1, <4>2
      <4>3. CASE j # n + 1
        BY <2>1, <2>3, <3>5, <4>1, <4>3 DEF n
      <4> QED
        BY <4>2, <4>3
    <3> QED
      BY <3>3, <3>4, <3>5
  <2>5. CASE ~\E x \in S : place[x] = m
    <3>1. Below(m + 1) = Below(m)
      BY <2>5
    <3> QED
      BY <2>1, <3>1
  <2> QED
    BY <2>4, <2>5
<1>3. Sorted(M + 1)
  <2> SUFFICES ASSUME ~Sorted(M + 1) PROVE FALSE
    OBVIOUS
  <2> HIDE DEF Sorted
  <2>1. M + 1 \in Unsorted
    OBVIOUS
  <2>2. PICK m \in Unsorted : \A k \in Unsorted : m <= k
    BY <2>1, SomeNumberIsFirst
  <2>3. m # 0
    BY <1>1, <2>2
  <2>4. m - 1 \in Nat /\ ~(m - 1 \in Unsorted)
    BY <2>2, <2>3
  <2> QED
    BY <1>2, <2>2, <2>4
<1>4. Below(M + 1) = S
  OBVIOUS
<1> QED
  BY <1>3, <1>4

(* A slot is told by its place. *)
LEMMA PlaceIsOwn ==
    ASSUME NEW b \in Nat, NEW c \in Nat, NEW n \in Nat \ {0}, NEW o \in 0..n - 1, NEW p \in 0..n - 1,
           b * n + o = c * n + p
    PROVE  b = c /\ o = p
<1>1. ASSUME NEW x \in Nat, NEW y \in Nat, x < y PROVE x * n + n <= y * n
  <2>1. (y - x - 1) * n >= 0
    BY <1>1
  <2>2. (y - x - 1) * n = y * n - x * n - n
    OBVIOUS
  <2>3. x * n \in Int /\ y * n \in Int
    OBVIOUS
  <2> QED
    BY <2>1, <2>2, <2>3
<1>2. b * n \in Int /\ c * n \in Int
  OBVIOUS
<1>3. ~(b < c) /\ ~(c < b)
  BY <1>1, <1>2
<1>4. b = c
  BY <1>3
<1> QED
  BY <1>2, <1>4

LEMMA RowsCanBeListed ==
    ASSUME NEW t, Good(t)
    PROVE  /\ IsFiniteSet(DOMAIN t.rowids)
           /\ \E s \in [1..Cardinality(DOMAIN t.rowids) -> DOMAIN t.rowids] :
                \A i, j \in DOMAIN s :
                    i < j => ChunkOf(t, s[i]) * ChunkSize + OffsetOf(t, s[i])
                             < ChunkOf(t, s[j]) * ChunkSize + OffsetOf(t, s[j])
<1> DEFINE S == DOMAIN t.rowids
           M == (MaxRowid + 1) * ChunkSize
           place == [r \in S |-> ChunkOf(t, r) * ChunkSize + OffsetOf(t, r)]
<1>1. MinRowid \in Int /\ MaxRowid \in Nat /\ ChunkSize \in Nat \ {0}
  BY Vec0Assumption
<1>2. \A r \in S : ChunkOf(t, r) \in 1..MaxRowid /\ OffsetOf(t, r) \in 0..ChunkSize - 1
  BY SlotIsOwn DEF Good, AreTables, Offsets
<1>3. IsFiniteSet(S)
  <2>1. S \in SUBSET (MinRowid..MaxRowid)
    BY SlotIsOwn DEF Rowids
  <2>2. IsFiniteSet(MinRowid..MaxRowid)
    BY <1>1, FS_Interval
  <2> QED
    BY <2>1, <2>2, FS_Subset
<1>4. M \in Nat
  BY <1>1
<1>5. ASSUME NEW r \in S PROVE ChunkOf(t, r) * ChunkSize + OffsetOf(t, r) \in 0..M
  <2>1. ASSUME NEW c \in 1..MaxRowid, NEW o \in 0..ChunkSize - 1
        PROVE  c * ChunkSize + o \in 0..M
    <3>1. (MaxRowid - c) * ChunkSize >= 0 /\ c * ChunkSize >= 0
      BY <1>1
    <3>2. (MaxRowid - c) * ChunkSize = MaxRowid * ChunkSize - c * ChunkSize
      BY <1>1
    <3>3. M = MaxRowid * ChunkSize + ChunkSize
      BY <1>1
    <3>4. MaxRowid * ChunkSize \in Int /\ c * ChunkSize \in Int
      BY <1>1
    <3> HIDE DEF M
    <3> QED
      BY <1>1, <3>1, <3>2, <3>3, <3>4
  <2> QED
    BY <1>2, <2>1
<1>6. place \in [S -> 0..M]
  BY <1>5
<1>7. ASSUME NEW r \in S, NEW p \in S, place[r] = place[p] PROVE r = p
  <2>1. ChunkOf(t, r) * ChunkSize + OffsetOf(t, r) = ChunkOf(t, p) * ChunkSize + OffsetOf(t, p)
    BY <1>7
  <2>2. ChunkOf(t, r) = ChunkOf(t, p) /\ OffsetOf(t, r) = OffsetOf(t, p)
    <3>1. ASSUME NEW b \in 1..MaxRowid, NEW c \in 1..MaxRowid,
                 NEW o \in 0..ChunkSize - 1, NEW u \in 0..ChunkSize - 1,
                 b * ChunkSize + o = c * ChunkSize + u
          PROVE  b = c /\ o = u
      BY <1>1, <3>1, PlaceIsOwn
    <3> QED
      BY <1>2, <2>1, <3>1
  <2> QED
    BY <2>2, SlotIsOwn
<1>8. PICK s \in [1..Cardinality(S) -> S] : \A i, j \in DOMAIN s : i < j => place[s[i]] < place[s[j]]
  <2> HIDE DEF S, M, place
  <2> QED
    BY <1>3, <1>4, <1>6, <1>7, SomeListIsSorted
<1>9. \A i \in DOMAIN s : place[s[i]] = ChunkOf(t, s[i]) * ChunkSize + OffsetOf(t, s[i])
  BY <1>8
<1> QED
  BY <1>3, <1>8, <1>9

(* A list of rows, each once, that are those that satisfy what is pushed.  *)
Lists(t, q, found) ==
    /\ Len(found) \in Nat
    /\ \A i \in 1..Len(found) :
         /\ found[i].rowid \in DOMAIN t.rowids
         /\ Columns(t, found[i]) = RowFor(t, q, found[i].rowid)
         /\ \A c \in Pushed(q) : Satisfies(Columns(t, found[i]), c)
    /\ \A r \in DOMAIN t.rowids :
         (\A c \in Pushed(q) : Satisfies(RowFor(t, q, r), c))
         => \E i \in 1..Len(found) : found[i].rowid = r
    /\ \A i, j \in 1..Len(found) : found[i].rowid = found[j].rowid => i = j

LEMMA ScanLists ==
    ASSUME NEW t, Good(t), NEW q, Plan(q) = "fullscan"
    PROVE  Lists(t, q, Filter(t, q))
<1> DEFINE n == Cardinality(DOMAIN t.rowids)
           Place(r) == ChunkOf(t, r) * ChunkSize + OffsetOf(t, r)
           order == CHOOSE s \in [1..n -> DOMAIN t.rowids] :
                        \A i, j \in DOMAIN s : i < j => Place(s[i]) < Place(s[j])
           found == [i \in DOMAIN order |-> [rowid |-> order[i], distance |-> Null]]
<1>1. /\ order \in [1..n -> DOMAIN t.rowids]
      /\ \A i, j \in DOMAIN order : i < j => Place(order[i]) < Place(order[j])
  BY RowsCanBeListed
<1>2. n \in Nat
  BY RowsCanBeListed, FS_CardinalityType
<1>3. Filter(t, q) = found /\ q.vector = NoMatch /\ Pushed(q) = {}
  BY DEF Filter, FilterFullscan, Plan, Pushed
<1>4. \A r \in DOMAIN t.rowids : Place(r) \in Int
  BY SlotIsOwn, Vec0Assumption DEF Good, AreTables, Offsets
<1> HIDE DEF n, Place, order
<1>5. order \in Injection(1..n, DOMAIN t.rowids)
  <2>1. ASSUME NEW i \in 1..n, NEW j \in 1..n, i # j PROVE order[i] # order[j]
    <3>1. order[i] \in DOMAIN t.rowids /\ order[j] \in DOMAIN t.rowids /\ DOMAIN order = 1..n
      BY <1>1
    <3>2. i < j \/ j < i
      BY <1>2, <2>1
    <3>3. Place(order[i]) < Place(order[j]) \/ Place(order[j]) < Place(order[i])
      BY <1>1, <3>1, <3>2
    <3> QED
      BY <1>4, <3>1, <3>3
  <2> QED
    BY <1>1, <2>1 DEF Injection, IsInjective
<1>6. order \in Surjection(1..n, DOMAIN t.rowids)
  <2>1. Cardinality(1..n) = n
    BY <1>2, FS_Interval
  <2>2. IsFiniteSet(DOMAIN t.rowids)
    BY RowsCanBeListed
  <2> QED
    BY <1>5, <2>1, <2>2, FS_Injection DEF n
<1>7. Len(found) = n /\ DOMAIN found = 1..n
  <2>1. found \in Seq([rowid : DOMAIN t.rowids, distance : {Null}])
    <3>1. found \in [1..n -> [rowid : DOMAIN t.rowids, distance : {Null}]]
      BY <1>1
    <3> QED
      BY <1>2, <3>1
  <2> QED
    BY <1>1, <1>2, <2>1
<1>8. \A i \in 1..n : found[i] = [rowid |-> order[i], distance |-> Null] /\ order[i] \in DOMAIN t.rowids
  BY <1>1
<1>9. \A i \in 1..n : Columns(t, found[i]) = RowFor(t, q, found[i].rowid)
  <2> SUFFICES ASSUME NEW i \in 1..n PROVE Columns(t, found[i]) = RowFor(t, q, found[i].rowid)
    OBVIOUS
  <2>1. found[i] = [rowid |-> order[i], distance |-> Null] /\ found[i].rowid = order[i]
    BY <1>8
  <2>2. RowFor(t, q, order[i]) = Columns(t, [rowid |-> order[i], distance |-> Null])
    BY <1>3 DEF RowFor
  <2> HIDE DEF found
  <2> QED
    BY <2>1, <2>2
<1>10. \A i, j \in 1..n : found[i].rowid = found[j].rowid => i = j
  BY <1>5, <1>8 DEF Injection, IsInjective
<1>11. \A r \in DOMAIN t.rowids : \E i \in 1..n : found[i].rowid = r
  BY <1>6, <1>8 DEF Surjection
<1> HIDE DEF found
<1> QED
  BY <1>2, <1>3, <1>7, <1>8, <1>9, <1>10, <1>11 DEF Lists

LEMMA IdIsNotNull == ASSUME NEW t, Good(t), NEW r \in DOMAIN t.rowids PROVE IdOf(t, r) # Null
<1>1. IdOf(t, r) \in Keys
  BY ContentsAtId
<1> QED
  BY <1>1, Vec0Assumption DEF Keys, Rowids

LEMMA PointLists ==
    ASSUME NEW t, Good(t), NEW q, Plan(q) = "point"
    PROVE  Lists(t, q, Filter(t, q))
<1> DEFINE c == CHOOSE c \in On("id", q) : c.op = "="
           found == FilterPoint(t, q)
<1>1. c \in On("id", q) /\ c.op = "=" /\ c.column = "id"
  BY DEF Plan, On
<1>2. q.vector = NoMatch /\ Pushed(q) = {c} /\ Filter(t, q) = found
  BY DEF Plan, Pushed, Filter
<1> HIDE DEF c
<1>3. found = IF c.value \in IdsIn(t) THEN <<[rowid |-> RowidFromId(t, c.value), distance |-> Null]>>
              ELSE << >>
  BY <1>2 DEF FilterPoint
<1>4. ASSUME NEW r \in DOMAIN t.rowids
      PROVE  Satisfies(RowFor(t, q, r), c) <=> IdOf(t, r) = c.value
  <2>1. ColumnOf(RowFor(t, q, r), c.column) = IdOf(t, r)
    BY <1>1, RowForFields DEF ColumnOf
  <2> QED
    BY <1>1, <2>1, IdIsNotNull DEF Satisfies, Compares
<1>5. CASE c.value \in IdsIn(t)
  <2>1. PICK r \in DOMAIN t.rowids : IdOf(t, r) = c.value
    BY <1>5 DEF IdsIn
  <2>2. RowidFromId(t, c.value) = r
    BY <2>1, RowOfItsId
  <2>3. found = <<[rowid |-> r, distance |-> Null]>>
    BY <1>3, <1>5, <2>2
  <2>4. Len(found) = 1 /\ found[1].rowid = r
    BY <2>3
  <2>5. Columns(t, found[1]) = RowFor(t, q, r)
    BY <1>2, <2>3 DEF RowFor
  <2>6. \A p \in DOMAIN t.rowids : IdOf(t, p) = c.value => p = r
    BY <2>1, <2>2, RowOfItsId
  <2> HIDE DEF found
  <2> QED
    BY <1>2, <1>4, <2>1, <2>4, <2>5, <2>6 DEF Lists
<1>6. CASE c.value \notin IdsIn(t)
  <2>1. Len(found) = 0
    BY <1>3, <1>6
  <2>2. \A r \in DOMAIN t.rowids : IdOf(t, r) # c.value
    BY <1>6 DEF IdsIn
  <2> HIDE DEF found
  <2> QED
    BY <1>2, <1>4, <2>1, <2>2 DEF Lists
<1> QED
  BY <1>5, <1>6

(* What SQLite keeps of such a list are the rows that satisfy the query.   *)
LEMMA ListIsAnswered ==
    ASSUME NEW t, Good(t), NEW q, Lists(t, q, Filter(t, q)),
           \A c \in Pushed(q) : c \in q.where
    PROVE  AreExactly(Answer(t, q), Satisfying(t, q, q.where))
<1> DEFINE found == Filter(t, q)
           kept == {i \in 1..Len(found) :
                       \A c \in q.where \ Pushed(q) : Satisfies(Columns(t, found[i]), c)}
           answer == [i \in kept |-> Columns(t, found[i])]
<1>1. Answer(t, q) = answer
  BY DEF Answer, Kept
<1>2. \A i \in kept : i \in 1..Len(found) /\ answer[i] = RowFor(t, q, found[i].rowid)
                      /\ found[i].rowid \in DOMAIN t.rowids
  BY DEF Lists
<1>3. \A i \in kept : \A c \in q.where : Satisfies(answer[i], c)
  BY DEF Lists
<1>4. ASSUME NEW r \in DOMAIN t.rowids, \A c \in q.where : Satisfies(RowFor(t, q, r), c)
      PROVE  \E i \in kept : answer[i] = RowFor(t, q, r)
  <2>1. PICK i \in 1..Len(found) : found[i].rowid = r
    BY <1>4 DEF Lists
  <2>2. Columns(t, found[i]) = RowFor(t, q, r)
    BY <2>1 DEF Lists
  <2> QED
    BY <1>4, <2>1, <2>2
<1>5. DOMAIN answer = kept
  OBVIOUS
<1>6. ASSUME NEW i \in kept, NEW j \in kept, answer[i].id = answer[j].id PROVE i = j
  <2>1. IdOf(t, found[i].rowid) = IdOf(t, found[j].rowid)
    <3>1. RowFor(t, q, found[i].rowid).id = RowFor(t, q, found[j].rowid).id
      BY <1>2, <1>6
    <3>2. ASSUME NEW r PROVE RowFor(t, q, r).id = IdOf(t, r)
      BY RowForFields
    <3> HIDE DEF found
    <3> QED
      BY <3>1, <3>2
  <2>2. found[i].rowid = found[j].rowid
    BY <1>2, <2>1, RowOfItsId
  <2> QED
    BY <1>2, <2>2 DEF Lists
<1>7. ToSet(answer) = Satisfying(t, q, q.where)
  <2> HIDE DEF answer, kept
  <2>1. ToSet(answer) = {answer[i] : i \in kept}
    BY <1>5 DEF ToSet
  <2> QED
    BY <1>2, <1>3, <1>4, <2>1, EverythingIsRows DEF Satisfying
<1> HIDE DEF answer
<1> QED
  BY <1>1, <1>5, <1>6, <1>7 DEF AreExactly

(* A lookup and a scan find exactly the rows that satisfy the query, each  *)
(* once, however rows came to lie in chunks.                               *)
THEOREM LookupsFindRows == Spec => []LookupsAreExact
<1>1. IInv => LookupsAreExact
  <2> SUFFICES ASSUME IInv, NEW q \in Queries, Plan(q) # "knn"
               PROVE  AreExactly(Answer(committed, q), Satisfying(committed, q, q.where))
    BY DEF LookupsAreExact
  <2>1. Good(committed)
    BY DEF IInv
  <2>2. Plan(q) \in {"point", "fullscan"}
    BY DEF Plan
  <2>3. Lists(committed, q, Filter(committed, q))
    BY <2>1, <2>2, PointLists, ScanLists
  <2>4. \A c \in Pushed(q) : c \in q.where
    BY <2>2 DEF Pushed, Plan, On
  <2> QED
    BY <2>1, <2>3, <2>4, ListIsAnswered
<1> QED
  BY <1>1, InvariantHolds, PTL

-----------------------------------------------------------------------------
(* Comparing texts.                                                        *)

Bytes == Nat \ {0}

CharAt(text, i) == IF i <= Len(text) THEN text[i] ELSE 0

LEMMA MinOfTwo ==
    ASSUME NEW a \in Int, NEW b \in Int
    PROVE  Min({a, b}) = IF a <= b THEN a ELSE b
BY DEF Min

LEMMA MinOfThree ==
    ASSUME NEW a \in Int, NEW b \in Int, NEW c \in Int
    PROVE  /\ Min({a, b, c}) \in {a, b, c}
           /\ Min({a, b, c}) <= a /\ Min({a, b, c}) <= b /\ Min({a, b, c}) <= c
<1>1. \E x \in {a, b, c} : \A y \in {a, b, c} : x <= y
  <2>1. CASE a <= b /\ a <= c
    BY <2>1
  <2>2. CASE b <= a /\ b <= c
    BY <2>2
  <2>3. CASE c <= a /\ c <= b
    BY <2>3
  <2> QED
    BY <2>1, <2>2, <2>3
<1> QED
  BY <1>1 DEF Min

(* strncmp is 0, or the difference where two texts first differ.           *)
LEMMA StrncmpIs ==
    ASSUME NEW s \in Seq(Nat), NEW u \in Seq(Nat), NEW n \in Nat
    PROVE  \/ /\ Strncmp(s, u, n) = 0
              /\ \A i \in 1..n : CharAt(s, i) = CharAt(u, i)
           \/ \E i \in 1..n :
                /\ CharAt(s, i) # CharAt(u, i)
                /\ \A j \in 1..i - 1 : CharAt(s, j) = CharAt(u, j)
                /\ Strncmp(s, u, n) = CharAt(s, i) - CharAt(u, i)
<1> DEFINE differ == {i \in 1..n : CharAt(s, i) # CharAt(u, i)}
<1>1. Strncmp(s, u, n) = IF differ = {} THEN 0
                         ELSE CharAt(s, Min(differ)) - CharAt(u, Min(differ))
  BY DEF Strncmp, CharAt
<1>2. CASE differ = {}
  BY <1>1, <1>2
<1>3. CASE differ # {}
  <2>1. differ \in SUBSET Nat
    OBVIOUS
  <2>2. \E i \in differ : \A j \in differ : i <= j
    <3> HIDE DEF differ
    <3> QED
      BY <1>3, <2>1, SomeNumberIsFirst
  <2>3. Min(differ) \in differ /\ \A j \in differ : Min(differ) <= j
    <3> HIDE DEF differ
    <3> QED
      BY <2>2 DEF Min
  <2> DEFINE i == Min(differ)
  <2>4. i \in 1..n /\ CharAt(s, i) # CharAt(u, i)
    BY <2>3
  <2>5. ASSUME NEW j \in 1..i - 1 PROVE CharAt(s, j) = CharAt(u, j)
    <3>1. j \in 1..n /\ ~(i <= j)
      BY <2>4
    <3>2. j \notin differ
      <4> HIDE DEF differ
      <4> QED
        BY <2>3, <3>1
    <3> QED
      BY <3>1, <3>2
  <2> QED
    BY <1>1, <1>3, <2>4, <2>5
<1> QED
  BY <1>2, <1>3

(* How one text stands to another.                                         *)
Differ(s, u, i) ==
    /\ i \in 1..Len(s) /\ i \in 1..Len(u) /\ s[i] # u[i]
    /\ \A j \in 1..i - 1 : s[j] = u[j]

Begins(s, u) == Len(s) <= Len(u) /\ \A j \in 1..Len(s) : s[j] = u[j]

LEMMA HowTextsCompare ==
    ASSUME NEW s \in Seq(Bytes), NEW u \in Seq(Bytes)
    PROVE  Begins(s, u) \/ Begins(u, s) \/ \E i \in Nat : Differ(s, u, i)
<1> DEFINE differ == {i \in Nat : i \in 1..Len(s) /\ i \in 1..Len(u) /\ s[i] # u[i]}
<1>1. CASE differ = {}
  <2>1. \A i \in 1..Len(s) : i \in 1..Len(u) => s[i] = u[i]
    BY <1>1
  <2> QED
    BY <2>1 DEF Begins
<1>2. CASE differ # {}
  <2>1. PICK i \in differ : \A j \in differ : i <= j
    BY <1>2, SomeNumberIsFirst
  <2>2. \A j \in 1..i - 1 : s[j] = u[j]
    BY <2>1
  <2> QED
    BY <2>1, <2>2 DEF Differ
<1> QED
  BY <1>1, <1>2

LEMMA SamePrefix ==
    ASSUME NEW s \in Seq(Bytes), NEW u \in Seq(Bytes), NEW i \in Nat, i <= Len(s), i <= Len(u)
    PROVE  SubSeq(s, 1, i) = SubSeq(u, 1, i) <=> \A j \in 1..i : s[j] = u[j]
<1> DEFINE x == SubSeq(s, 1, i)
           y == SubSeq(u, 1, i)
<1>1. /\ x \in Seq(Bytes) /\ Len(x) = i /\ \A j \in 1..i : x[j] = s[j]
      /\ y \in Seq(Bytes) /\ Len(y) = i /\ \A j \in 1..i : y[j] = u[j]
  OBVIOUS
<1> HIDE DEF x, y
<1>2. x = y <=> \A j \in 1..i : x[j] = y[j]
  BY <1>1
<1> QED
  BY <1>1, <1>2 DEF x, y

LEMMA WholeIsPrefix ==
    ASSUME NEW s \in Seq(Bytes)
    PROVE  SubSeq(s, 1, Len(s)) = s
OBVIOUS

LEMMA SameTexts ==
    ASSUME NEW s \in Seq(Bytes), NEW u \in Seq(Bytes), Len(s) = Len(u),
           \A j \in 1..Len(s) : s[j] = u[j]
    PROVE  s = u
OBVIOUS

LEMMA WhenTextsDiffer ==
    ASSUME NEW s \in Seq(Bytes), NEW u \in Seq(Bytes), NEW i, Differ(s, u, i)
    PROVE  /\ TextLess(s, u) <=> s[i] < u[i]
           /\ s # u
           /\ ~Begins(s, u) /\ ~Begins(u, s)
<1>1. i \in 1..Len(s) /\ i \in 1..Len(u) /\ s[i] # u[i] /\ \A j \in 1..i - 1 : s[j] = u[j]
  BY DEF Differ
<1>2. Len(s) \in Nat /\ Len(u) \in Nat
  OBVIOUS
<1>3. Min({Len(s), Len(u)}) = IF Len(s) <= Len(u) THEN Len(s) ELSE Len(u)
  BY <1>2, MinOfTwo
<1>4. s[i] < u[i] => TextLess(s, u)
  <2>1. SubSeq(s, 1, i - 1) = SubSeq(u, 1, i - 1)
    BY <1>1, <1>2, SamePrefix
  <2>2. i \in 1..Min({Len(s), Len(u)})
    BY <1>1, <1>2, <1>3
  <2> QED
    BY <2>1, <2>2 DEF TextLess
<1>5. ~(Len(s) < Len(u) /\ SubSeq(u, 1, Len(s)) = s)
  <2> SUFFICES ASSUME Len(s) < Len(u), SubSeq(u, 1, Len(s)) = s PROVE FALSE
    OBVIOUS
  <2>1. SubSeq(u, 1, Len(s)) = SubSeq(s, 1, Len(s))
    BY WholeIsPrefix
  <2>2. u[i] = s[i]
    BY <1>1, <1>2, <2>1, SamePrefix
  <2> QED
    BY <1>1, <2>2
<1>6. ASSUME NEW j \in 1..Min({Len(s), Len(u)}),
             SubSeq(s, 1, j - 1) = SubSeq(u, 1, j - 1), s[j] < u[j]
      PROVE  s[i] < u[i]
  <2>1. j \in 1..Len(s) /\ j \in 1..Len(u)
    BY <1>2, <1>3
  <2>2. \A k \in 1..j - 1 : s[k] = u[k]
    <3>1. j - 1 \in Nat /\ j - 1 <= Len(s) /\ j - 1 <= Len(u)
      BY <1>2, <2>1
    <3> QED
      BY <1>6, <3>1, SamePrefix
  <2>3. ~(i < j)
    BY <1>1, <2>1, <2>2
  <2>4. ~(j < i)
    <3> SUFFICES ASSUME j < i PROVE FALSE
      OBVIOUS
    <3>1. s[j] = u[j] /\ s[j] \in Nat
      BY <1>1, <2>1 DEF Bytes
    <3> QED
      BY <1>6, <3>1
  <2>5. i = j
    BY <1>1, <2>1, <2>3, <2>4
  <2> QED
    BY <1>6, <2>5
<1>7. TextLess(s, u) => s[i] < u[i]
  BY <1>5, <1>6 DEF TextLess
<1> QED
  BY <1>1, <1>4, <1>7 DEF Begins

LEMMA WhenTextBegins ==
    ASSUME NEW s \in Seq(Bytes), NEW u \in Seq(Bytes), Begins(s, u)
    PROVE  /\ TextLess(s, u) <=> Len(s) < Len(u)
           /\ s = u <=> Len(s) = Len(u)
           /\ ~TextLess(u, s)
           /\ Len(s) < Len(u) => SubSeq(u, 1, Len(s)) = s
<1>1. Len(s) \in Nat /\ Len(u) \in Nat /\ Len(s) <= Len(u) /\ \A j \in 1..Len(s) : s[j] = u[j]
  BY DEF Begins
<1>2. SubSeq(u, 1, Len(s)) = s
  <2>1. SubSeq(u, 1, Len(s)) = SubSeq(s, 1, Len(s))
    BY <1>1, SamePrefix
  <2> QED
    BY <2>1, WholeIsPrefix
<1>3. s = u <=> Len(s) = Len(u)
  BY <1>1, SameTexts
<1>4. /\ Min({Len(s), Len(u)}) = Len(s)
      /\ Min({Len(u), Len(s)}) = Len(s)
  BY <1>1, MinOfTwo
<1>5. \A j \in 1..Len(s) : s[j] \in Nat /\ ~(s[j] < u[j]) /\ ~(u[j] < s[j])
  <2> SUFFICES ASSUME NEW j \in 1..Len(s)
               PROVE  s[j] \in Nat /\ ~(s[j] < u[j]) /\ ~(u[j] < s[j])
    OBVIOUS
  <2>1. s[j] \in Bytes /\ s[j] = u[j]
    BY <1>1
  <2>2. s[j] \in Nat
    BY <2>1 DEF Bytes
  <2> QED
    BY <2>1, <2>2
<1>6. TextLess(s, u) <=> Len(s) < Len(u)
  BY <1>2, <1>4, <1>5 DEF TextLess
<1>7. ~TextLess(u, s)
  <2>1. ~(Len(u) < Len(s))
    BY <1>1
  <2>2. ~\E i \in 1..Len(s) : u[i] < s[i]
    BY <1>5
  <2> QED
    BY <1>4, <2>1, <2>2 DEF TextLess
<1> QED
  BY <1>2, <1>3, <1>6, <1>7

LEMMA StrncmpOfAgreeing ==
    ASSUME NEW s \in Seq(Bytes), NEW u \in Seq(Bytes), NEW n \in Nat
    PROVE  /\ Strncmp(s, u, n) \in Int
           /\ Strncmp(s, u, n) = 0 <=> \A i \in 1..n : CharAt(s, i) = CharAt(u, i)
<1>1. s \in Seq(Nat) /\ u \in Seq(Nat)
  BY DEF Bytes
<1>2. \A i \in 1..n : CharAt(s, i) \in Nat /\ CharAt(u, i) \in Nat
  BY <1>1 DEF CharAt
<1>3. CASE \A i \in 1..n : CharAt(s, i) = CharAt(u, i)
  BY <1>1, <1>3, StrncmpIs
<1>4. CASE ~\A i \in 1..n : CharAt(s, i) = CharAt(u, i)
  <2>1. PICK k \in 1..n : /\ CharAt(s, k) # CharAt(u, k)
                          /\ \A j \in 1..k - 1 : CharAt(s, j) = CharAt(u, j)
                          /\ Strncmp(s, u, n) = CharAt(s, k) - CharAt(u, k)
    BY <1>1, <1>4, StrncmpIs
  <2>2. CharAt(s, k) \in Nat /\ CharAt(u, k) \in Nat
    BY <1>2
  <2> QED
    BY <1>4, <2>1, <2>2
<1> QED
  BY <1>3, <1>4

LEMMA StrncmpOfDiffering ==
    ASSUME NEW s \in Seq(Bytes), NEW u \in Seq(Bytes), NEW n \in Nat, NEW i \in 1..n,
           CharAt(s, i) # CharAt(u, i), \A j \in 1..i - 1 : CharAt(s, j) = CharAt(u, j)
    PROVE  Strncmp(s, u, n) = CharAt(s, i) - CharAt(u, i)
<1>1. s \in Seq(Nat) /\ u \in Seq(Nat)
  BY DEF Bytes
<1>2. PICK k \in 1..n : /\ CharAt(s, k) # CharAt(u, k)
                        /\ \A j \in 1..k - 1 : CharAt(s, j) = CharAt(u, j)
                        /\ Strncmp(s, u, n) = CharAt(s, k) - CharAt(u, k)
  BY <1>1, StrncmpIs
<1>3. ~(k < i) /\ ~(i < k)
  BY <1>2
<1>4. k = i
  BY <1>3
<1> QED
  BY <1>2, <1>4

LEMMA StrncmpOfTexts ==
    ASSUME NEW s \in Seq(Bytes), NEW u \in Seq(Bytes), NEW n \in Nat
    PROVE  /\ \A i : Differ(s, u, i) /\ i <= n => Strncmp(s, u, n) = s[i] - u[i]
           /\ Begins(s, u) /\ n <= Len(s) => Strncmp(s, u, n) = 0
           /\ Begins(u, s) /\ n <= Len(u) => Strncmp(s, u, n) = 0
           /\ Begins(u, s) /\ Len(u) < n /\ n <= Len(s) => Strncmp(s, u, n) > 0
<1>1. ASSUME NEW i, Differ(s, u, i), i <= n PROVE Strncmp(s, u, n) = s[i] - u[i]
  <2>1. i \in 1..n /\ i \in 1..Len(s) /\ i \in 1..Len(u) /\ s[i] # u[i] /\ \A j \in 1..i - 1 : s[j] = u[j]
    BY <1>1 DEF Differ
  <2>2. CharAt(s, i) = s[i] /\ CharAt(u, i) = u[i]
    BY <2>1 DEF CharAt
  <2>3. \A j \in 1..i - 1 : CharAt(s, j) = CharAt(u, j)
    BY <2>1 DEF CharAt
  <2> QED
    BY <2>1, <2>2, <2>3, StrncmpOfDiffering
<1>2. ASSUME Begins(s, u), n <= Len(s) PROVE Strncmp(s, u, n) = 0
  <2>1. \A i \in 1..n : CharAt(s, i) = CharAt(u, i)
    BY <1>2 DEF Begins, CharAt
  <2> QED
    BY <2>1, StrncmpOfAgreeing
<1>3. ASSUME Begins(u, s), n <= Len(u) PROVE Strncmp(s, u, n) = 0
  <2>1. \A i \in 1..n : CharAt(s, i) = CharAt(u, i)
    BY <1>3 DEF Begins, CharAt
  <2> QED
    BY <2>1, StrncmpOfAgreeing
<1>4. ASSUME Begins(u, s), Len(u) < n, n <= Len(s) PROVE Strncmp(s, u, n) > 0
  <2> DEFINE i == Len(u) + 1
  <2>1. i \in 1..n /\ i \in 1..Len(s)
    BY <1>4
  <2>2. CharAt(s, i) = s[i] /\ CharAt(u, i) = 0 /\ s[i] \in Bytes
    BY <2>1 DEF CharAt
  <2>3. \A j \in 1..i - 1 : CharAt(s, j) = CharAt(u, j)
    BY <1>4 DEF Begins, CharAt
  <2>4. s[i] \in Nat /\ s[i] > 0
    BY <2>2 DEF Bytes
  <2>5. Strncmp(s, u, n) = CharAt(s, i) - CharAt(u, i)
    <3> HIDE DEF i
    <3> QED
      BY <2>1, <2>2, <2>3, <2>4, StrncmpOfDiffering
  <2> QED
    BY <2>2, <2>4, <2>5
<1> QED
  BY <1>1, <1>2, <1>3, <1>4

(* The order of a text and a target from the view and the long text: it is *)
(* right unless a long text begins the target.                             *)
LEMMA TextOrderIs ==
    ASSUME NEW s \in Seq(Bytes), NEW u \in Seq(Bytes), NEW view, view = View(s), view.n # ViewLen,
           NEW whole, IsLong(view) => whole = s,
           ~(IsLong(view) /\ Begins(s, u) /\ Len(s) < Len(u))
    PROVE  /\ TextOrder(view, whole, u) < 0 <=> TextLess(s, u)
           /\ TextOrder(view, whole, u) = 0 <=> s = u
<1>1. Len(s) \in Nat /\ Len(u) \in Nat /\ ViewLen \in Nat /\ view.n = Len(s)
  BY Vec0Assumption DEF View
<1>2. \A i : Differ(s, u, i) => s[i] \in Nat /\ u[i] \in Nat /\ s[i] # u[i]
                                /\ i \in 1..Len(s) /\ i \in 1..Len(u)
  BY DEF Differ, Bytes
<1>3. CASE IsLong(view)
  <2>1. TextOrder(view, whole, u) = Strncmp(s, u, Len(s))
    BY <1>1, <1>3 DEF TextOrder, IsLong
  <2>2. CASE Begins(s, u)
    <3>1. Len(s) = Len(u)
      BY <1>1, <1>3, <2>2 DEF Begins
    <3> QED
      BY <1>1, <2>1, <2>2, <3>1, StrncmpOfTexts, WhenTextBegins
  <2>3. CASE Begins(u, s) /\ ~Begins(s, u)
    <3>1. Len(u) < Len(s)
      <4>1. Len(u) <= Len(s)
        BY <2>3 DEF Begins
      <4>2. Len(u) # Len(s)
        BY <1>1, <2>3 DEF Begins
      <4> QED
        BY <1>1, <4>1, <4>2
    <3>2. Strncmp(s, u, Len(s)) > 0
      BY <1>1, <2>3, <3>1, StrncmpOfTexts
    <3>3. ~TextLess(s, u) /\ s # u
      BY <1>1, <2>3, <3>1, WhenTextBegins
    <3>4. Strncmp(s, u, Len(s)) \in Int
      BY <1>1, StrncmpOfAgreeing
    <3> QED
      BY <2>1, <3>2, <3>3, <3>4
  <2>4. CASE \E i \in Nat : Differ(s, u, i)
    <3>1. PICK i \in Nat : Differ(s, u, i)
      BY <2>4
    <3>2. Strncmp(s, u, Len(s)) = s[i] - u[i]
      BY <1>1, <1>2, <3>1, StrncmpOfTexts
    <3>3. (TextLess(s, u) <=> s[i] < u[i]) /\ s # u
      BY <3>1, WhenTextsDiffer
    <3> QED
      BY <1>2, <2>1, <3>1, <3>2, <3>3
  <2> QED
    BY <2>2, <2>3, <2>4, HowTextsCompare
<1>4. CASE ~IsLong(view)
  <2> DEFINE m == Min({view.n, ViewLen, Len(u)})
             c == Strncmp(s, u, m)
  <2>1. Len(s) < ViewLen /\ view.prefix = s
    BY <1>1, <1>4 DEF IsLong, View
  <2>2. m \in Nat /\ m <= Len(s) /\ m <= Len(u) /\ (m = Len(s) \/ m = Len(u))
    <3>1. m \in {Len(s), ViewLen, Len(u)} /\ m <= Len(s) /\ m <= ViewLen /\ m <= Len(u)
      <4>1. /\ m \in {view.n, ViewLen, Len(u)}
            /\ m <= view.n /\ m <= ViewLen /\ m <= Len(u)
        <5>1. view.n \in Int /\ ViewLen \in Int /\ Len(u) \in Int
          BY <1>1
        <5> QED
          BY <5>1, MinOfThree
      <4> HIDE DEF m
      <4> QED
        BY <1>1, <4>1
    <3> HIDE DEF m
    <3> QED
      BY <1>1, <2>1, <3>1
  <2>3. TextOrder(view, whole, u) = IF c = 0 THEN Len(s) - Len(u) ELSE c
    BY <1>1, <2>1 DEF TextOrder, ComparesPrefix
  <2> HIDE DEF m
  <2>4. CASE Begins(s, u)
    <3>1. c = 0
      BY <2>2, <2>4, StrncmpOfTexts
    <3>2. Len(s) <= Len(u)
      BY <2>4 DEF Begins
    <3> QED
      BY <1>1, <2>3, <2>4, <3>1, <3>2, WhenTextBegins
  <2>5. CASE Begins(u, s)
    <3>1. c = 0
      BY <2>2, <2>5, StrncmpOfTexts
    <3>2. Len(u) <= Len(s)
      BY <2>5 DEF Begins
    <3>3. (s = u <=> Len(s) = Len(u)) /\ ~TextLess(s, u)
      BY <2>5, WhenTextBegins
    <3> QED
      BY <1>1, <2>3, <3>1, <3>2, <3>3
  <2>6. CASE \E i \in Nat : Differ(s, u, i)
    <3>1. PICK i \in Nat : Differ(s, u, i)
      BY <2>6
    <3>2. i <= m
      BY <1>1, <1>2, <2>2, <3>1
    <3>3. c = s[i] - u[i]
      BY <2>2, <3>1, <3>2, StrncmpOfTexts
    <3>4. (TextLess(s, u) <=> s[i] < u[i]) /\ s # u
      BY <3>1, WhenTextsDiffer
    <3> HIDE DEF c
    <3> QED
      BY <1>2, <2>3, <3>1, <3>3, <3>4
  <2> QED
    BY <2>4, <2>5, <2>6, HowTextsCompare
<1> QED
  BY <1>3, <1>4

LEMMA TextEqualsIs ==
    ASSUME NEW s \in Seq(Bytes), NEW u \in Seq(Bytes), NEW view, view = View(s),
           NEW whole, IsLong(view) => whole = s
    PROVE  TextEquals(view, whole, u) <=> s = u
<1>1. Len(s) \in Nat /\ Len(u) \in Nat /\ ViewLen \in Nat /\ view.n = Len(s)
  BY Vec0Assumption DEF View
<1> DEFINE m == Min({view.n, ViewLen, Len(u)})
<1>2. m \in Nat /\ m <= Len(s) /\ m <= Len(u) /\ m <= ViewLen /\ (m = Len(s) \/ m = Len(u) \/ m = ViewLen)
  <2>1. m \in {Len(s), ViewLen, Len(u)} /\ m <= Len(s) /\ m <= ViewLen /\ m <= Len(u)
    <3>1. /\ m \in {view.n, ViewLen, Len(u)}
          /\ m <= view.n /\ m <= ViewLen /\ m <= Len(u)
      <4>1. view.n \in Int /\ ViewLen \in Int /\ Len(u) \in Int
        BY <1>1
      <4> QED
        BY <4>1, MinOfThree
    <3> HIDE DEF m
    <3> QED
      BY <1>1, <3>1
  <2> HIDE DEF m
  <2> QED
    BY <1>1, <2>1
<1>3. ComparesPrefix(view, u) = Strncmp(view.prefix, u, m)
  BY DEF ComparesPrefix
<1> HIDE DEF m
<1>4. view.prefix \in Seq(Bytes) /\ Len(view.prefix) >= m /\ \A i \in 1..m : view.prefix[i] = s[i]
  <2>1. CASE Len(s) <= ViewLen
    BY <1>1, <1>2, <2>1 DEF View
  <2>2. CASE ~(Len(s) <= ViewLen)
    <3>1. view.prefix = SubSeq(s, 1, ViewLen)
      BY <2>2 DEF View
    <3> QED
      BY <1>1, <1>2, <2>2, <3>1
  <2> QED
    BY <2>1, <2>2
<1>5. ASSUME s = u PROVE TextEquals(view, whole, u)
  <2>1. \A i \in 1..m : CharAt(view.prefix, i) = CharAt(u, i)
    BY <1>1, <1>2, <1>4, <1>5 DEF CharAt
  <2>2. ComparesPrefix(view, u) = 0
    BY <1>2, <1>3, <1>4, <2>1, StrncmpOfAgreeing
  <2>3. Strncmp(s, u, Len(s)) = 0
    BY <1>1, <1>5, StrncmpOfAgreeing
  <2> QED
    BY <1>1, <1>5, <2>2, <2>3 DEF TextEquals
<1>6. ASSUME TextEquals(view, whole, u) PROVE s = u
  <2>1. Len(s) = Len(u) /\ ComparesPrefix(view, u) = 0 /\ (IsLong(view) => Strncmp(s, u, Len(s)) = 0)
    BY <1>1, <1>6 DEF TextEquals
  <2>2. CASE IsLong(view)
    <3>1. \A i \in 1..Len(s) : CharAt(s, i) = CharAt(u, i)
      BY <1>1, <2>1, <2>2, StrncmpOfAgreeing
    <3>2. \A i \in 1..Len(s) : s[i] = u[i]
      BY <1>1, <2>1, <3>1 DEF CharAt
    <3> QED
      BY <2>1, <3>2, SameTexts
  <2>3. CASE ~IsLong(view)
    <3>1. m = Len(s)
      BY <1>1, <1>2, <2>1, <2>3 DEF IsLong
    <3>2. \A i \in 1..m : CharAt(view.prefix, i) = CharAt(u, i)
      BY <1>2, <1>3, <1>4, <2>1, StrncmpOfAgreeing
    <3>3. \A i \in 1..Len(s) : s[i] = u[i]
      BY <1>1, <1>4, <2>1, <3>1, <3>2 DEF CharAt
    <3> QED
      BY <2>1, <3>3, SameTexts
  <2> QED
    BY <2>2, <2>3
<1> QED
  BY <1>5, <1>6

(* What the view and the long text of a row say of its text.               *)
LEMMA TextMatchesIs ==
    ASSUME NEW s \in Seq(Bytes), NEW u \in Seq(Bytes), NEW view, view = View(s),
           NEW whole, IsLong(view) => whole = s,
           NEW op \in Comparisons, op \in Orderings => view.n # ViewLen,
           op \in {"<", ">="} => ~(IsLong(view) /\ Begins(s, u) /\ Len(s) < Len(u))
    PROVE  TextMatches(view, whole, op, u) <=> Compares(op, TextLess(s, u), s = u)
<1>1. CASE op \notin Orderings
  <2>1. op \in {"=", "!="}
    BY <1>1 DEF Comparisons
  <2>2. TextEquals(view, whole, u) <=> s = u
    BY TextEqualsIs
  <2> QED
    BY <1>1, <2>1, <2>2 DEF TextMatches, Compares
<1>2. CASE op \in Orderings /\ ~(IsLong(view) /\ Begins(s, u) /\ Len(s) < Len(u))
  <2>1. /\ TextOrder(view, whole, u) < 0 <=> TextLess(s, u)
        /\ TextOrder(view, whole, u) = 0 <=> s = u
    BY <1>2, TextOrderIs
  <2> QED
    BY <1>2, <2>1 DEF TextMatches, Compares, Orderings
<1>3. CASE op \in Orderings /\ IsLong(view) /\ Begins(s, u) /\ Len(s) < Len(u)
  <2>1. op \in {"<=", ">"}
    BY <1>3 DEF Orderings
  <2>2. Len(s) \in Nat /\ view.n = Len(s) /\ ViewLen \in Nat
    BY Vec0Assumption DEF View
  <2>3. TextOrder(view, whole, u) = 0
    <3>1. Strncmp(s, u, Len(s)) = 0
      BY <1>3, <2>2, StrncmpOfTexts
    <3> QED
      BY <1>3, <2>2, <3>1 DEF TextOrder, IsLong
  <2>4. TextLess(s, u) /\ s # u
    BY <1>3, WhenTextBegins
  <2> QED
    BY <1>3, <2>1, <2>3, <2>4 DEF TextMatches, Compares
<1> QED
  BY <1>1, <1>2, <1>3

(* A slot in use passes a constraint on the text if its row satisfies it,  *)
(* unless the constraint fails or misjudges.                               *)
LEMMA FilterTextIs ==
    ASSUME NEW t, Good(t), NEW q, IsQuery(q), NEW c \in On("meta", q), c.op \in Comparisons \cup {"in"},
           NEW b \in DOMAIN t.chunks, NEW o \in t.chunks[b].valid,
           NEW r, r = t.chunks[b].rowids[o],
           ~FilterTextFails(t, b, c), ~Misjudges(t, q)
    PROVE  o \in FilterText(t, b, c) <=> Satisfies(RowFor(t, q, r), c)
<1> DEFINE s == MetadataValue(t, r)
           view == t.blobs[b].views[o]
           whole == IF r \in DOMAIN t.texts THEN t.texts[r] ELSE << >>
<1>1. r \in DOMAIN t.rowids /\ ViewOf(t, r) = view /\ o \in Offsets
  BY RowOfSlot
<1>2. /\ s \in Texts /\ view = View(s) /\ view.n = Len(s)
      /\ r \in DOMAIN t.texts <=> IsLong(view)
      /\ r \in DOMAIN t.texts => t.texts[r] = s
  BY <1>1, TextOfView
<1>3. s \in Seq(Bytes)
  BY <1>2, QueryAssumption DEF Bytes
<1>4. c.op \in Orderings => view.n # ViewLen
  BY WhenTextFails
<1>5. c.column = "meta" /\ c \in q.where
  BY DEF On
<1>6. \A u \in Targets(c) : u \in Seq(Bytes)
  BY <1>5 DEF IsQuery, Targets, Bytes
<1>7. o \in FilterText(t, b, c) <=> \E u \in Targets(c) : TextMatches(view, whole, TargetOp(c), u)
  BY <1>1 DEF FilterText
<1>8. ColumnOf(RowFor(t, q, r), c.column) = s
  <2>1. RowFor(t, q, r).row.meta = s
    BY DEF RowFor, Columns, RowAt
  <2> QED
    BY <1>5, <2>1 DEF ColumnOf
<1>9. ASSUME c.op \in {"<", ">="}, IsLong(view), Begins(s, c.value), Len(s) < Len(c.value)
      PROVE  FALSE
  <2>1. c.value \in Seq(Bytes)
    BY <1>6, <1>9 DEF Targets
  <2>2. SubSeq(c.value, 1, Len(s)) = s
    BY <1>3, <1>9, <2>1, WhenTextBegins
  <2> QED
    BY <1>2, <1>9, <2>2 DEF Misjudges
<1>10. IsLong(view) => whole = s
  BY <1>2
<1> HIDE DEF s, view, whole
<1>11. s # Null
  BY <1>2, Vec0Assumption
<1>12. CASE c.op = "in"
  <2>1. ASSUME NEW u \in Targets(c) PROVE TextMatches(view, whole, "=", u) <=> s = u
    <3>1. u \in Seq(Bytes) /\ "=" \in Comparisons /\ "=" \notin Orderings /\ "=" \notin {"<", ">="}
      BY <1>6 DEF Comparisons, Orderings
    <3>2. TextMatches(view, whole, "=", u) <=> Compares("=", TextLess(s, u), s = u)
      BY <1>2, <1>3, <1>10, <3>1, TextMatchesIs
    <3> QED
      BY <3>2 DEF Compares
  <2>2. Targets(c) = c.value /\ TargetOp(c) = "="
    BY <1>12 DEF Targets, TargetOp
  <2>3. Satisfies(RowFor(t, q, r), c) <=> s \in c.value
    BY <1>8, <1>12 DEF Satisfies, Orderings
  <2> QED
    BY <1>7, <2>1, <2>2, <2>3
<1>13. CASE c.op # "in"
  <2>1. c.op \in Comparisons /\ Targets(c) = {c.value} /\ TargetOp(c) = c.op
    BY <1>13 DEF Targets, TargetOp
  <2>2. c.value \in Seq(Bytes)
    BY <1>6, <2>1
  <2>3. TextMatches(view, whole, c.op, c.value) <=> Compares(c.op, TextLess(s, c.value), s = c.value)
    <3> DEFINE op == c.op
               u == c.value
    <3>1. op \in Comparisons /\ u \in Seq(Bytes) /\ (op \in Orderings => view.n # ViewLen)
      BY <1>4, <2>1, <2>2
    <3>2. op \in {"<", ">="} => ~(IsLong(view) /\ Begins(s, u) /\ Len(s) < Len(u))
      BY <1>9
    <3> HIDE DEF op, u
    <3>3. TextMatches(view, whole, op, u) <=> Compares(op, TextLess(s, u), s = u)
      BY <1>2, <1>3, <1>10, <3>1, <3>2, TextMatchesIs
    <3> QED
      BY <3>3 DEF op, u
  <2>4. Satisfies(RowFor(t, q, r), c) <=> Compares(c.op, TextLess(s, c.value), s = c.value)
    <3>1. CASE c.op \in Orderings
      BY <1>5, <1>8, <1>11, <3>1 DEF Satisfies, ValueLess, Orderings
    <3>2. CASE c.op \in {"=", "!="}
      BY <1>8, <1>11, <3>2 DEF Satisfies, Compares
    <3> QED
      BY <2>1, <3>1, <3>2 DEF Comparisons
  <2> QED
    BY <1>7, <2>1, <2>3, <2>4
<1> QED
  BY <1>12, <1>13

-----------------------------------------------------------------------------
(* Recursions.                                                             *)

LEMMA CountingUp ==
    ASSUME NEW k \in Nat, NEW S, 0 \in S, \A i \in 1..k : i - 1 \in S => i \in S
    PROVE  k \in S
<1> DEFINE Missing == {i \in Nat : i \in 0..k /\ i \notin S}
<1> SUFFICES ASSUME k \notin S PROVE FALSE
  OBVIOUS
<1>0. Missing # {}
  OBVIOUS
<1>1. PICK i \in Missing : \A j \in Missing : i <= j
  BY <1>0, SomeNumberIsFirst
<1>2. i \in 1..k /\ i - 1 \in 0..k
  BY <1>1
<1>3. i - 1 \notin Missing
  BY <1>1, <1>2
<1> QED
  BY <1>1, <1>2, <1>3

(* Steps from a value on can be numbered, so recursions have solutions.    *)
StepsOf(X, a, k, F, f) ==
    f \in [0..k -> X] /\ f[0] = a /\ \A i \in 1..k : f[i] = F[i][f[i - 1]]

LEMMA StepsExist ==
    ASSUME NEW X, NEW a \in X, NEW k \in Nat, NEW F \in [1..k -> [X -> X]]
    PROVE  \E f : StepsOf(X, a, k, F, f)
<1> DEFINE Steps(m, f) == f[0] = a /\ \A i \in 1..m : f[i] = F[i][f[i - 1]]
           S == {m \in 0..k : \E f \in [0..m -> X] : Steps(m, f)}
<1>1. 0 \in S
  <2> DEFINE f == [i \in 0..0 |-> a]
  <2>1. f \in [0..0 -> X] /\ Steps(0, f) /\ 0 \in 0..k
    OBVIOUS
  <2> HIDE DEF f, Steps
  <2> QED
    BY <2>1
<1>2. ASSUME NEW m \in 1..k, m - 1 \in S
      PROVE  m \in S
  <2>1. PICK g \in [0..m - 1 -> X] : Steps(m - 1, g)
    BY <1>2
  <2> DEFINE f == [i \in 0..m |-> IF i = m THEN F[m][g[m - 1]] ELSE g[i]]
  <2>2. g[m - 1] \in X /\ F[m][g[m - 1]] \in X
    BY <2>1
  <2>3. ASSUME NEW i \in 0..m PROVE f[i] \in X
    <3>1. i = m \/ i \in 0..m - 1
      OBVIOUS
    <3> QED
      BY <2>1, <2>2, <3>1
  <2>4. f \in [0..m -> X]
    BY <2>3
  <2>5. f[0] = a /\ f[m] = F[m][f[m - 1]]
    BY <2>1
  <2>6. ASSUME NEW i \in 1..m, i # m PROVE f[i] = F[i][f[i - 1]]
    <3>1. i \in 1..m - 1 /\ i - 1 # m /\ i - 1 \in 0..m
      BY <2>6
    <3> QED
      BY <2>1, <2>6, <3>1
  <2> HIDE DEF f
  <2>7. Steps(m, f)
    BY <2>5, <2>6
  <2> QED
    BY <2>4, <2>7
<1> HIDE DEF S
<1>3. k \in S
  BY <1>1, <1>2, CountingUp
<1> QED
  BY <1>3 DEF S, StepsOf

-----------------------------------------------------------------------------
(* The k nearest slots of a chunk.                                         *)

(* min_idx takes one of the nearest.                                       *)
LEMMA NearestIs ==
    ASSUME NEW t, NEW b, NEW q, NEW left \in SUBSET Offsets, left # {},
           \A o \in Offsets : DistanceAt(t, b, o, q) \in Int
    PROVE  /\ Nearest(t, b, q, left) \in left
           /\ \A p \in left : DistanceAt(t, b, Nearest(t, b, q, left), q) <= DistanceAt(t, b, p, q)
<1> DEFINE D(o) == DistanceAt(t, b, o, q)
           Best(o, some) == \A p \in some : D(o) < D(p) \/ (D(o) = D(p) /\ p <= o)
           S == {m \in 0..ChunkSize :
                    \A some \in SUBSET (0..m - 1) : some # {} => \E o \in some : Best(o, some)}
<1>1. ChunkSize \in Nat /\ \A o \in 0..ChunkSize - 1 : D(o) \in Int
  BY Vec0Assumption DEF Offsets
<1> HIDE DEF D
<1>2. 0 \in S
  <2>1. 0..0 - 1 = {} /\ 0 \in 0..ChunkSize
    BY <1>1
  <2> QED
    BY <2>1
<1>3. ASSUME NEW m \in 1..ChunkSize, m - 1 \in S
      PROVE  m \in S
  <2> SUFFICES ASSUME NEW some \in SUBSET (0..m - 1), some # {}
               PROVE  \E o \in some : Best(o, some)
    BY <1>1
  <2> DEFINE rest == some \ {m - 1}
  <2>1. rest \in SUBSET (0..(m - 1) - 1)
    BY <1>1
  <2>2. CASE rest = {}
    <3>1. some = {m - 1}
      BY <2>2
    <3>2. Best(m - 1, some)
      BY <1>1, <3>1
    <3> QED
      BY <3>1, <3>2
  <2>3. CASE rest # {}
    <3>1. PICK o \in rest : Best(o, rest)
      BY <1>3, <2>1, <2>3
    <3>2. \A p \in some : p \in Int /\ D(p) \in Int /\ (p = m - 1 \/ p \in rest)
      BY <1>1
    <3>3. CASE m - 1 \in some /\ D(m - 1) <= D(o)
      <4>1. Best(m - 1, some)
        <5> SUFFICES ASSUME NEW p \in some PROVE D(m - 1) < D(p) \/ (D(m - 1) = D(p) /\ p <= m - 1)
          OBVIOUS
        <5>1. p <= m - 1 /\ D(m - 1) \in Int /\ D(o) \in Int /\ D(p) \in Int
          BY <1>1, <3>2, <3>3
        <5>2. D(m - 1) <= D(p)
          BY <3>1, <3>2, <3>3, <5>1
        <5> QED
          BY <5>1, <5>2
      <4> QED
        BY <3>3, <4>1
    <3>4. CASE ~(m - 1 \in some /\ D(m - 1) <= D(o))
      <4>1. ASSUME NEW p \in some PROVE D(o) < D(p) \/ (D(o) = D(p) /\ p <= o)
        <5>1. CASE p = m - 1
          BY <3>2, <3>4, <5>1
        <5>2. CASE p \in rest
          BY <3>1, <5>2
        <5> QED
          BY <3>2, <5>1, <5>2
      <4> QED
        BY <4>1
    <3> QED
      BY <3>3, <3>4
  <2> QED
    BY <2>2, <2>3
<1> HIDE DEF S
<1>4. ChunkSize \in S
  BY <1>1, <1>2, <1>3, CountingUp
<1>5. PICK o \in left : Best(o, left)
  BY <1>4 DEF S, Offsets
<1>6. Nearest(t, b, q, left) \in left /\ Best(Nearest(t, b, q, left), left)
  BY <1>5 DEF Nearest, D
<1>7. \A p \in left : p \in 0..ChunkSize - 1
  BY DEF Offsets
<1>8. \A p \in left : D(Nearest(t, b, q, left)) <= D(p)
  BY <1>1, <1>6, <1>7
<1> QED
  BY <1>6, <1>8 DEF D

(* The recursion of min_idx has a solution.                                *)
TakesNearest(t, b, q, k, f) ==
    /\ f \in [0..k -> Seq(Candidates(t, b, q))]
    /\ f[0] = << >> /\ MinIdx(t, b, q, k) = f[k]
    /\ \A i \in 1..k :
         LET left == Candidates(t, b, q) \ ToSet(f[i - 1])
         IN  f[i] = IF left = {} THEN f[i - 1] ELSE Append(f[i - 1], Nearest(t, b, q, left))

LEMMA MinIdxSteps ==
    ASSUME NEW t, NEW b, NEW q, NEW k \in Nat,
           \A o \in Offsets : DistanceAt(t, b, o, q) \in Int,
           Candidates(t, b, q) \in SUBSET Offsets
    PROVE  \E f : TakesNearest(t, b, q, k, f)
<1> DEFINE C == Candidates(t, b, q)
           X == Seq(C)
           Longer(s) == IF C \ ToSet(s) = {} THEN s ELSE Append(s, Nearest(t, b, q, C \ ToSet(s)))
           F == [i \in 1..k |-> [s \in X |-> Longer(s)]]
           none == << >>
<1>1. ASSUME NEW s \in X PROVE Longer(s) \in X
  <2>1. C \ ToSet(s) # {} => Nearest(t, b, q, C \ ToSet(s)) \in C
    BY NearestIs
  <2> HIDE DEF C
  <2> QED
    BY <2>1
<1> HIDE DEF Longer, C
<1>2. F \in [1..k -> [X -> X]]
  BY <1>1
<1>3. none \in X
  OBVIOUS
<1>4. PICK f \in [0..k -> X] : f[0] = none /\ \A i \in 1..k : f[i] = F[i][f[i - 1]]
  <2> HIDE DEF F, X, none
  <2>1. PICK f : StepsOf(X, none, k, F, f)
    BY <1>2, <1>3, StepsExist
  <2> QED
    BY <2>1 DEF StepsOf
<1>5. ASSUME NEW i \in 1..k PROVE f[i - 1] \in X /\ f[i] = Longer(f[i - 1])
  <2>1. i - 1 \in 0..k
    OBVIOUS
  <2>2. f[i - 1] \in X
    BY <1>4, <2>1
  <2> HIDE DEF X
  <2> QED
    BY <1>4, <2>2
<1>6. f = [i \in 0..k |-> IF i = 0 THEN << >> ELSE Longer(f[i - 1])]
  BY <1>4, <1>5
<1>7. PICK g : g = [i \in 0..k |-> IF i = 0 THEN << >> ELSE Longer(g[i - 1])] /\ MinIdx(t, b, q, k) = g[k]
  BY <1>6 DEF MinIdx, Longer, C
<1>8. g[k] = f[k]
  <2> DEFINE S == {i \in 0..k : g[i] = f[i]}
  <2>1. 0 \in S
    BY <1>4, <1>7
  <2>2. ASSUME NEW i \in 1..k, i - 1 \in S PROVE i \in S
    BY <1>5, <1>7, <2>2
  <2> HIDE DEF S
  <2>3. k \in S
    BY <2>1, <2>2, CountingUp
  <2> QED
    BY <2>3 DEF S
<1> QED
  BY <1>4, <1>5, <1>7, <1>8 DEF Longer, C, TakesNearest

(* The k nearest candidates of a chunk, in order of distance.              *)
AreTop(t, b, q, k, top) ==
    /\ top \in Seq(Candidates(t, b, q)) /\ Len(top) <= k
    /\ \A i, j \in 1..Len(top) :
         i < j => top[i] # top[j] /\ DistanceAt(t, b, top[i], q) <= DistanceAt(t, b, top[j], q)
    /\ \A p \in Candidates(t, b, q) :
         \/ \E i \in 1..Len(top) : top[i] = p
         \/ /\ Len(top) = k
            /\ \A i \in 1..Len(top) : DistanceAt(t, b, top[i], q) <= DistanceAt(t, b, p, q)

LEMMA MinIdxFinds ==
    ASSUME NEW t, NEW b, NEW q, NEW k \in Nat,
           \A o \in Offsets : DistanceAt(t, b, o, q) \in Int,
           Candidates(t, b, q) \in SUBSET Offsets,
           NEW top, top = MinIdx(t, b, q, k)
    PROVE  AreTop(t, b, q, k, top)
<1> DEFINE C == Candidates(t, b, q)
           D(o) == DistanceAt(t, b, o, q)
           Has(s, p) == \E i \in 1..Len(s) : s[i] = p
           Sorted(s) == \A i, j \in 1..Len(s) : i < j => s[i] # s[j] /\ D(s[i]) <= D(s[j])
           Ahead(s, m) == \A p \in C :
                             Has(s, p) \/ (Len(s) = m /\ \A i \in 1..Len(s) : D(s[i]) <= D(p))
           TopSoFar(s, m) == s \in Seq(C) /\ Len(s) <= m /\ Sorted(s) /\ Ahead(s, m)
<1>1. PICK f \in [0..k -> Seq(C)] :
        /\ f[0] = << >> /\ top = f[k]
        /\ \A i \in 1..k :
             LET left == C \ ToSet(f[i - 1])
             IN  f[i] = IF left = {} THEN f[i - 1] ELSE Append(f[i - 1], Nearest(t, b, q, left))
  <2>1. PICK f : TakesNearest(t, b, q, k, f)
    BY MinIdxSteps
  <2> QED
    BY <2>1 DEF TakesNearest
<1>2. \A o \in C : o \in Offsets /\ D(o) \in Int
  OBVIOUS
<1> HIDE DEF C, D
<1> DEFINE S == {m \in 0..k : TopSoFar(f[m], m)}
<1>3. 0 \in S
  BY <1>1
<1>4. ASSUME NEW m \in 1..k, m - 1 \in S PROVE m \in S
  <2> DEFINE s == f[m - 1]
             left == C \ ToSet(s)
             o == Nearest(t, b, q, left)
  <2>1. s \in Seq(C) /\ Len(s) <= m - 1 /\ Sorted(s) /\ Ahead(s, m - 1) /\ m \in 0..k
    <3>1. TopSoFar(f[m - 1], m - 1) /\ m \in 0..k
      <4> HIDE DEF TopSoFar
      <4> QED
        BY <1>4
    <3> QED
      BY <3>1
  <2>2. \A p : p \in left <=> p \in C /\ ~Has(s, p)
    BY <2>1 DEF ToSet
  <2>3. f[m] = IF left = {} THEN s ELSE Append(s, o)
    BY <1>1
  <2>4. CASE left = {}
    <3>1. f[m] = s
      BY <2>3, <2>4
    <3>2. \A p \in C : Has(s, p)
      BY <2>2, <2>4
    <3> HIDE DEF s
    <3>3. TopSoFar(s, m)
      BY <2>1, <3>2
    <3> QED
      BY <2>1, <3>1, <3>3
  <2>5. CASE left # {}
    <3>1. o \in left /\ \A p \in left : D(o) <= D(p)
      BY <1>2, <2>5, NearestIs DEF C, D
    <3>2. Len(s) = m - 1 /\ \A i \in 1..Len(s) : D(s[i]) <= D(o)
      BY <2>1, <2>2, <3>1
    <3>3. o \in C /\ ~Has(s, o) /\ f[m] = Append(s, o)
      BY <2>2, <2>3, <2>5, <3>1
    <3> DEFINE u == Append(s, o)
    <3> HIDE DEF s, left, o
    <3>4. u \in Seq(C) /\ Len(u) = m /\ u[m] = o /\ \A i \in 1..m - 1 : u[i] = s[i]
      BY <2>1, <3>2, <3>3
    <3> HIDE DEF u
    <3>5. ASSUME NEW i \in 1..m, NEW j \in 1..m, i < j PROVE u[i] # u[j] /\ D(u[i]) <= D(u[j])
      <4>1. i \in 1..m - 1 /\ u[i] = s[i]
        BY <3>4, <3>5
      <4>2. CASE j = m
        BY <3>2, <3>3, <3>4, <4>1, <4>2
      <4>3. CASE j # m
        <5>1. j \in 1..m - 1 /\ u[j] = s[j]
          BY <3>4, <4>3
        <5> QED
          BY <2>1, <3>2, <3>5, <4>1, <5>1
      <4> QED
        BY <4>2, <4>3
    <3>6. ASSUME NEW p \in C, ~Has(u, p) PROVE \A i \in 1..m : D(u[i]) <= D(p)
      <4>1. ~Has(s, p)
        <5> SUFFICES ASSUME NEW i \in 1..Len(s), s[i] = p PROVE Has(u, p)
          BY <3>6
        <5>1. u[i] = p /\ i \in 1..Len(u)
          BY <3>2, <3>4
        <5> QED
          BY <5>1
      <4>2. p \in left
        BY <2>2, <4>1
      <4>3. \A i \in 1..m - 1 : D(s[i]) <= D(p)
        BY <2>1, <3>2, <4>1
      <4>4. D(u[m]) <= D(p)
        BY <3>1, <3>4, <4>2
      <4>5. \A i \in 1..m : i = m \/ i \in 1..m - 1
        OBVIOUS
      <4> QED
        BY <3>4, <4>3, <4>4, <4>5
    <3>7. TopSoFar(u, m)
      BY <3>4, <3>5, <3>6
    <3>8. f[m] = u
      BY <3>3 DEF u
    <3> QED
      BY <2>1, <3>7, <3>8
  <2> QED
    BY <2>4, <2>5
<1>5. k \in S
  <2> HIDE DEF S
  <2> QED
    BY <1>3, <1>4, CountingUp
<1>6. TopSoFar(top, k)
  BY <1>1, <1>5
<1> QED
  BY <1>6 DEF C, D, AreTop

-----------------------------------------------------------------------------
(* Merging what was found with what a chunk has.                           *)

Finds == [rowid : Int, distance : Int]

In(e, list) == \E i \in 1..Len(list) : list[i] = e

(* In order of distance, each row once. *)
Ranked(list) ==
    /\ list \in Seq(Finds)
    /\ \A i, j \in 1..Len(list) :
         i < j => list[i].rowid # list[j].rowid /\ list[i].distance <= list[j].distance

Apart(list, other) ==
    \A i \in 1..Len(list), j \in 1..Len(other) : list[i].rowid # other[j].rowid

NotAfter(list, other) ==
    \A i \in 1..Len(list), j \in 1..Len(other) : list[i].distance <= other[j].distance

LEMMA HeadAndTail ==
    ASSUME NEW x, Ranked(x), x # << >>
    PROVE  /\ Tail(x) \in Seq(Finds) /\ Len(x) \in Nat /\ Len(x) >= 1 /\ Len(Tail(x)) = Len(x) - 1
           /\ x[1] \in Finds /\ \A i \in 1..Len(x) - 1 : Tail(x)[i] = x[i + 1]
           /\ Ranked(Tail(x))
           /\ \A i \in 1..Len(x) - 1 :
                Tail(x)[i].rowid # x[1].rowid /\ x[1].distance <= Tail(x)[i].distance
           /\ \A e : In(e, x) <=> In(e, Tail(x)) \/ e = x[1]
<1>1. x \in Seq(Finds)
  BY DEF Ranked
<1>2. /\ Tail(x) \in Seq(Finds) /\ Len(x) \in Nat /\ Len(x) >= 1 /\ Len(Tail(x)) = Len(x) - 1
      /\ x[1] \in Finds /\ \A i \in 1..Len(x) - 1 : Tail(x)[i] = x[i + 1]
  BY <1>1
<1> DEFINE y == Tail(x)
<1> HIDE DEF y
<1>3. Len(y) = Len(x) - 1 /\ \A i \in 1..Len(x) - 1 : y[i] = x[i + 1] /\ i + 1 \in 1..Len(x)
  BY <1>2 DEF y
<1>4. Ranked(y)
  BY <1>2, <1>3 DEF Ranked, y
<1>5. \A i \in 1..Len(x) - 1 : y[i].rowid # x[1].rowid /\ x[1].distance <= y[i].distance
  BY <1>2, <1>3 DEF Ranked
<1>6. ASSUME NEW e PROVE In(e, x) <=> In(e, y) \/ e = x[1]
  <2>1. ASSUME NEW i \in 1..Len(x), x[i] = e, i # 1 PROVE In(e, y)
    <3>1. i - 1 \in 1..Len(y) /\ y[i - 1] = e
      BY <1>2, <1>3, <2>1
    <3> QED
      BY <3>1 DEF In
  <2>2. ASSUME NEW i \in 1..Len(y), y[i] = e PROVE In(e, x)
    <3>1. i + 1 \in 1..Len(x) /\ x[i + 1] = e
      BY <1>2, <1>3, <2>2
    <3> QED
      BY <3>1 DEF In
  <2>3. e = x[1] => In(e, x)
    BY <1>2 DEF In
  <2> QED
    BY <2>1, <2>2, <2>3 DEF In
<1> QED
  BY <1>2, <1>4, <1>5, <1>6 DEF y

(* What is out, and what is left of two lists. *)
Mergeable(out, x, y) ==
    /\ Ranked(out) /\ Ranked(x) /\ Ranked(y)
    /\ Apart(out, x) /\ Apart(out, y) /\ Apart(x, y)
    /\ NotAfter(out, x) /\ NotAfter(out, y)

TakesFirst(out, x, more, rest) ==
    /\ \A e : In(e, more) <=> In(e, out) \/ e = x[1]
    /\ \A e : In(e, x) <=> In(e, rest) \/ e = x[1]
    /\ Len(more) = Len(out) + 1 /\ Len(rest) = Len(x) - 1 /\ Len(x) \in Nat /\ Len(x) >= 1

MayGoFirst(x, y) == x # << >> /\ (y = << >> \/ x[1].distance <= y[1].distance)

(* Taking the head of the list that is not after the other keeps what is   *)
(* out and what is left in order.                                          *)
LEMMA HeadIsTaken ==
    ASSUME NEW out, NEW x, NEW y, Mergeable(out, x, y), MayGoFirst(x, y)
    PROVE  /\ Mergeable(Append(out, x[1]), Tail(x), y)
           /\ TakesFirst(out, x, Append(out, x[1]), Tail(x))
<1> DEFINE more == Append(out, x[1])
           rest == Tail(x)
<1>0. /\ Ranked(out) /\ Ranked(x) /\ Ranked(y)
      /\ Apart(out, x) /\ Apart(out, y) /\ Apart(x, y)
      /\ NotAfter(out, x) /\ NotAfter(out, y)
      /\ x # << >> /\ (y = << >> \/ x[1].distance <= y[1].distance)
  BY DEF Mergeable, MayGoFirst
<1>1. /\ Len(rest) = Len(x) - 1 /\ Len(x) \in Nat /\ Len(x) >= 1 /\ x[1] \in Finds
      /\ \A i \in 1..Len(rest) : rest[i] = x[i + 1] /\ i + 1 \in 1..Len(x)
      /\ Ranked(rest)
      /\ \A i \in 1..Len(rest) : rest[i].rowid # x[1].rowid /\ x[1].distance <= rest[i].distance
      /\ \A e : In(e, x) <=> In(e, rest) \/ e = x[1]
  BY <1>0, HeadAndTail
<1>12. more = Append(out, x[1])
  OBVIOUS
<1> HIDE DEF more, rest
<1>2. out \in Seq(Finds) /\ Len(out) \in Nat
  BY <1>0 DEF Ranked
<1>3. /\ more \in Seq(Finds) /\ Len(more) = Len(out) + 1
      /\ more[Len(out) + 1] = x[1] /\ \A i \in 1..Len(out) : more[i] = out[i]
  BY <1>1, <1>2, <1>12
<1>4. \A i \in 1..Len(more) : i = Len(out) + 1 \/ i \in 1..Len(out)
  BY <1>2, <1>3
<1>5. 1 \in 1..Len(x)
  BY <1>1
<1>6. Ranked(more)
  <2> SUFFICES ASSUME NEW i \in 1..Len(more), NEW j \in 1..Len(more), i < j
               PROVE  more[i].rowid # more[j].rowid /\ more[i].distance <= more[j].distance
    BY <1>3 DEF Ranked
  <2>1. i \in 1..Len(out) /\ more[i] = out[i]
    BY <1>2, <1>3, <1>4
  <2>2. CASE j = Len(out) + 1
    BY <1>0, <1>3, <1>5, <2>1, <2>2 DEF Apart, NotAfter
  <2>3. CASE j \in 1..Len(out)
    BY <1>0, <1>3, <2>1, <2>3 DEF Ranked
  <2> QED
    BY <1>4, <2>2, <2>3
<1>7. Apart(more, rest) /\ NotAfter(more, rest)
  <2> SUFFICES ASSUME NEW i \in 1..Len(more), NEW j \in 1..Len(rest)
               PROVE  more[i].rowid # rest[j].rowid /\ more[i].distance <= rest[j].distance
    BY DEF Apart, NotAfter
  <2>1. CASE i = Len(out) + 1
    BY <1>1, <1>3, <2>1
  <2>2. CASE i \in 1..Len(out)
    BY <1>0, <1>1, <1>3, <2>2 DEF Apart, NotAfter
  <2> QED
    BY <1>4, <2>1, <2>2
<1>8. ASSUME NEW j \in 1..Len(y)
      PROVE  x[1].rowid # y[j].rowid /\ x[1].distance <= y[j].distance
  <2>1. y \in Seq(Finds) /\ Len(y) \in Nat /\ Len(y) >= 1 /\ y # << >>
    BY <1>0 DEF Ranked
  <2>2. y[1].distance <= y[j].distance
    <3>1. y[1] \in Finds /\ y[j] \in Finds
      BY <2>1
    <3>2. CASE j = 1
      BY <3>1, <3>2 DEF Finds
    <3>3. CASE j # 1
      BY <1>0, <2>1, <3>3 DEF Ranked
    <3> QED
      BY <3>2, <3>3
  <2>3. x[1].distance \in Int /\ y[1].distance \in Int /\ y[j].distance \in Int
    <3>1. y[1] \in Finds /\ y[j] \in Finds
      BY <2>1
    <3> QED
      BY <1>1, <3>1 DEF Finds
  <2> QED
    BY <1>0, <1>5, <2>1, <2>2, <2>3 DEF Apart
<1>9. Apart(more, y) /\ NotAfter(more, y)
  <2> SUFFICES ASSUME NEW i \in 1..Len(more), NEW j \in 1..Len(y)
               PROVE  more[i].rowid # y[j].rowid /\ more[i].distance <= y[j].distance
    BY DEF Apart, NotAfter
  <2>1. CASE i = Len(out) + 1
    BY <1>3, <1>8, <2>1
  <2>2. CASE i \in 1..Len(out)
    BY <1>0, <1>3, <2>2 DEF Apart, NotAfter
  <2> QED
    BY <1>4, <2>1, <2>2
<1>10. Apart(rest, y)
  BY <1>0, <1>1 DEF Apart
<1>11. ASSUME NEW e PROVE In(e, more) <=> In(e, out) \/ e = x[1]
  <2>1. Len(out) + 1 \in 1..Len(more) /\ \A i \in 1..Len(out) : i \in 1..Len(more)
    BY <1>2, <1>3
  <2> QED
    BY <1>3, <1>4, <2>1 DEF In
<1> QED
  BY <1>0, <1>1, <1>3, <1>6, <1>7, <1>9, <1>10, <1>11 DEF Mergeable, TakesFirst, more, rest

(* How far a merge has come after m steps.                                 *)
Merging(s, list, other, m) ==
    /\ s \in [out : Seq(Finds), a : Seq(Finds), b : Seq(Finds)]
    /\ Mergeable(s.out, s.a, s.b)
    /\ \A e : In(e, list) \/ In(e, other) <=> In(e, s.out) \/ In(e, s.a) \/ In(e, s.b)
    /\ \A e : In(e, s.a) => In(e, list)
    /\ \A e : In(e, s.b) => In(e, other)
    /\ Len(s.out) + Len(s.a) + Len(s.b) = Len(list) + Len(other)
    /\ Len(s.a) <= Len(list) /\ Len(s.b) <= Len(other)
    /\ \A e : In(e, s.out) => \/ In(e, list) /\ Len(s.a) < Len(list)
                              \/ In(e, other) /\ Len(s.b) < Len(other)
    /\ Len(s.out) <= m
    /\ (s.a = << >> /\ s.b = << >>) \/ Len(s.out) = m

LEMMA MergeStarts ==
    ASSUME NEW list, NEW other, Ranked(list), Ranked(other), Apart(list, other)
    PROVE  Merging([out |-> << >>, a |-> list, b |-> other], list, other, 0)
<1>1. list \in Seq(Finds) /\ other \in Seq(Finds) /\ Len(list) \in Nat /\ Len(other) \in Nat
  BY DEF Ranked
<1>2. Ranked(<< >>) /\ Len(<< >>) = 0 /\ \A e : ~In(e, << >>)
  BY DEF Ranked, In
<1>3. \A l : Apart(<< >>, l) /\ NotAfter(<< >>, l)
  BY DEF Apart, NotAfter
<1> QED
  BY <1>1, <1>2, <1>3 DEF Merging, Mergeable

LEMMA MergeGoesOn ==
    ASSUME NEW list, NEW other, Ranked(list), Ranked(other), NEW m \in Nat,
           NEW s, Merging(s, list, other, m)
    PROVE  Merging(TakeHead(s), list, other, m + 1)
<1>1. /\ Len(s.out) \in Nat /\ Len(s.a) \in Nat /\ Len(s.b) \in Nat
      /\ Len(list) \in Nat /\ Len(other) \in Nat
  BY DEF Merging, Mergeable, Ranked
<1>2. CASE s.a = << >> /\ s.b = << >>
  <2>1. TakeHead(s) = s /\ Len(s.out) <= m + 1
    BY <1>1, <1>2 DEF TakeHead, Merging
  <2> QED
    BY <1>2, <2>1 DEF Merging
<1>3. CASE MayGoFirst(s.a, s.b)
  <2> DEFINE first == s.a[1]
             u == [out |-> Append(s.out, first), a |-> Tail(s.a), b |-> s.b]
  <2>1. TakeHead(s) = u
    BY <1>3 DEF TakeHead, MayGoFirst
  <2>2. Mergeable(u.out, u.a, u.b) /\ TakesFirst(s.out, s.a, u.out, u.a) /\ u.b = s.b
    BY <1>3, HeadIsTaken DEF Merging
  <2>3. u \in [out : Seq(Finds), a : Seq(Finds), b : Seq(Finds)]
    BY <2>2 DEF Ranked, Mergeable
  <2>4. s.a # << >>
    BY <1>3 DEF MayGoFirst
  <2> HIDE DEF u
  <2>5. Len(u.out) = m + 1
    BY <2>2, <2>4 DEF Merging, TakesFirst
  <2>6. \A e : In(e, u.out) => \/ In(e, list) /\ Len(u.a) < Len(list)
                               \/ In(e, other) /\ Len(u.b) < Len(other)
    BY <1>1, <2>2 DEF Merging, TakesFirst
  <2>7. /\ \A e : In(e, list) \/ In(e, other) <=> In(e, u.out) \/ In(e, u.a) \/ In(e, u.b)
        /\ \A e : In(e, u.a) => In(e, list)
        /\ \A e : In(e, u.b) => In(e, other)
    BY <2>2 DEF Merging, TakesFirst
  <2>8. /\ Len(u.out) + Len(u.a) + Len(u.b) = Len(list) + Len(other)
        /\ Len(u.a) <= Len(list) /\ Len(u.b) <= Len(other)
    <3>1. /\ Len(u.out) = Len(s.out) + 1 /\ Len(u.a) = Len(s.a) - 1
          /\ Len(u.b) = Len(s.b)
      BY <2>2 DEF TakesFirst
    <3>2. /\ Len(s.out) + Len(s.a) + Len(s.b) = Len(list) + Len(other)
          /\ Len(s.a) <= Len(list) /\ Len(s.b) <= Len(other)
      BY DEF Merging
    <3> DEFINE o1 == Len(s.out)
               a1 == Len(s.a)
               b1 == Len(s.b)
               l1 == Len(list)
               l2 == Len(other)
    <3>3. o1 \in Nat /\ a1 \in Nat /\ b1 \in Nat /\ l1 \in Nat /\ l2 \in Nat
      BY <1>1
    <3>4. o1 + a1 + b1 = l1 + l2 /\ a1 <= l1 /\ b1 <= l2
      BY <3>2
    <3>5. Len(u.out) = o1 + 1 /\ Len(u.a) = a1 - 1 /\ Len(u.b) = b1
      BY <3>1
    <3>6. l1 = Len(list) /\ l2 = Len(other)
      OBVIOUS
    <3> HIDE DEF o1, a1, b1, l1, l2
    <3> QED
      BY <3>3, <3>4, <3>5, <3>6
  <2> QED
    BY <2>1, <2>2, <2>3, <2>5, <2>6, <2>7, <2>8 DEF Merging
<1>4. CASE s.b # << >> /\ ~MayGoFirst(s.a, s.b)
  <2> DEFINE first == s.b[1]
             u == [out |-> Append(s.out, first), a |-> s.a, b |-> Tail(s.b)]
  <2>1. TakeHead(s) = u
    BY <1>4 DEF TakeHead, MayGoFirst
  <2>2. MayGoFirst(s.b, s.a)
    <3> SUFFICES ASSUME s.a # << >> PROVE s.b[1].distance <= s.a[1].distance
      BY <1>4 DEF MayGoFirst
    <3>1. s.a[1] \in Finds /\ s.b[1] \in Finds
      BY <1>4, HeadAndTail DEF Merging, Mergeable
    <3> QED
      BY <1>4, <3>1 DEF Finds, MayGoFirst
  <2>3. Mergeable(s.out, s.b, s.a)
    BY DEF Merging, Mergeable, Apart
  <2>4. Mergeable(u.out, u.b, u.a) /\ TakesFirst(s.out, s.b, u.out, u.b) /\ u.a = s.a
    BY <2>2, <2>3, HeadIsTaken
  <2>5. u \in [out : Seq(Finds), a : Seq(Finds), b : Seq(Finds)]
    BY <2>4 DEF Ranked, Mergeable
  <2> HIDE DEF u
  <2>6. Mergeable(u.out, u.a, u.b)
    BY <2>4 DEF Mergeable, Apart
  <2>7. Len(u.out) = m + 1
    BY <1>4, <2>4 DEF Merging, TakesFirst
  <2>8. \A e : In(e, u.out) => \/ In(e, list) /\ Len(u.a) < Len(list)
                               \/ In(e, other) /\ Len(u.b) < Len(other)
    BY <1>1, <2>4 DEF Merging, TakesFirst
  <2>9. /\ \A e : In(e, list) \/ In(e, other) <=> In(e, u.out) \/ In(e, u.a) \/ In(e, u.b)
        /\ \A e : In(e, u.a) => In(e, list)
        /\ \A e : In(e, u.b) => In(e, other)
    BY <2>4 DEF Merging, TakesFirst
  <2>10. /\ Len(u.out) + Len(u.a) + Len(u.b) = Len(list) + Len(other)
         /\ Len(u.a) <= Len(list) /\ Len(u.b) <= Len(other)
    <3>1. /\ Len(u.out) = Len(s.out) + 1 /\ Len(u.b) = Len(s.b) - 1
          /\ Len(u.a) = Len(s.a)
      BY <2>4 DEF TakesFirst
    <3>2. /\ Len(s.out) + Len(s.a) + Len(s.b) = Len(list) + Len(other)
          /\ Len(s.a) <= Len(list) /\ Len(s.b) <= Len(other)
      BY DEF Merging
    <3> DEFINE o1 == Len(s.out)
               a1 == Len(s.a)
               b1 == Len(s.b)
               l1 == Len(list)
               l2 == Len(other)
    <3>3. o1 \in Nat /\ a1 \in Nat /\ b1 \in Nat /\ l1 \in Nat /\ l2 \in Nat
      BY <1>1
    <3>4. o1 + a1 + b1 = l1 + l2 /\ a1 <= l1 /\ b1 <= l2
      BY <3>2
    <3>5. Len(u.out) = o1 + 1 /\ Len(u.a) = a1 /\ Len(u.b) = b1 - 1
      BY <3>1
    <3>6. l1 = Len(list) /\ l2 = Len(other)
      OBVIOUS
    <3> HIDE DEF o1, a1, b1, l1, l2
    <3> QED
      BY <3>3, <3>4, <3>5, <3>6
  <2> QED
    BY <2>1, <2>5, <2>6, <2>7, <2>8, <2>9, <2>10 DEF Merging
<1> QED
  BY <1>2, <1>3, <1>4 DEF MayGoFirst

(* The recursion of merge_sorted_lists has a solution.                     *)
MergeStates == [out : Seq(Finds), a : Seq(Finds), b : Seq(Finds)]

Merges(list, other, n, f) ==
    /\ f \in [0..n -> MergeStates]
    /\ f[0] = [out |-> << >>, a |-> list, b |-> other]
    /\ \A i \in 1..n : f[i] = TakeHead(f[i - 1])
    /\ MergeSortedLists(list, other, n) = f[n].out

LEMMA HeadsAreFinds ==
    ASSUME NEW s \in MergeStates
    PROVE  TakeHead(s) \in MergeStates
<1>1. CASE s.a = << >> /\ s.b = << >>
  BY <1>1 DEF TakeHead
<1> USE DEF MergeStates
<1>2. CASE s.a # << >>
  <2>1. s.a[1] \in Finds /\ Tail(s.a) \in Seq(Finds)
    BY <1>2
  <2>2. CASE s.b # << >>
    <3>1. s.b[1] \in Finds /\ Tail(s.b) \in Seq(Finds)
      BY <2>2
    <3>2. Append(s.out, s.a[1]) \in Seq(Finds) /\ Append(s.out, s.b[1]) \in Seq(Finds)
      BY <2>1, <3>1
    <3> QED
      BY <2>1, <3>1, <3>2 DEF TakeHead
  <2>3. CASE s.b = << >>
    <3>1. Append(s.out, s.a[1]) \in Seq(Finds)
      BY <2>1
    <3> QED
      BY <1>2, <2>1, <2>3, <3>1 DEF TakeHead
  <2> QED
    BY <2>2, <2>3
<1>3. CASE s.a = << >> /\ s.b # << >>
  <2>1. s.b[1] \in Finds /\ Tail(s.b) \in Seq(Finds)
    BY <1>3
  <2>2. Append(s.out, s.b[1]) \in Seq(Finds)
    BY <2>1
  <2> QED
    BY <1>3, <2>1, <2>2 DEF TakeHead
<1> QED
  BY <1>1, <1>2, <1>3

LEMMA MergeSteps ==
    ASSUME NEW list \in Seq(Finds), NEW other \in Seq(Finds), NEW n \in Nat
    PROVE  \E f : Merges(list, other, n, f)
<1> DEFINE start == [out |-> << >>, a |-> list, b |-> other]
           F == [i \in 1..n |-> [s \in MergeStates |-> TakeHead(s)]]
<1>1. start \in MergeStates
  BY DEF MergeStates
<1> HIDE DEF start
<1>2. F \in [1..n -> [MergeStates -> MergeStates]]
  BY HeadsAreFinds
<1>3. \E f \in [0..n -> MergeStates] : f[0] = start /\ \A i \in 1..n : f[i] = F[i][f[i - 1]]
  <2> DEFINE X == MergeStates
  <2>1. start \in X /\ F \in [1..n -> [X -> X]]
    BY <1>1, <1>2
  <2> HIDE DEF F, X
  <2>2. PICK f : StepsOf(X, start, n, F, f)
    BY <2>1, StepsExist
  <2> QED
    BY <2>2 DEF X, StepsOf
<1>31. PICK f \in [0..n -> MergeStates] : f[0] = start /\ \A i \in 1..n : f[i] = F[i][f[i - 1]]
  BY <1>3
<1>4. ASSUME NEW i \in 1..n PROVE f[i - 1] \in MergeStates /\ f[i] = TakeHead(f[i - 1])
  <2>1. i - 1 \in 0..n
    OBVIOUS
  <2>2. f[i - 1] \in MergeStates
    BY <1>31, <2>1
  <2> QED
    BY <1>31, <2>2
<1>5. f = [i \in 0..n |-> IF i = 0 THEN start ELSE TakeHead(f[i - 1])]
  BY <1>31, <1>4
<1>6. PICK g : /\ g = [i \in 0..n |-> IF i = 0 THEN start ELSE TakeHead(g[i - 1])]
               /\ MergeSortedLists(list, other, n) = g[n].out
  BY <1>5 DEF MergeSortedLists, start
<1>7. g[n] = f[n]
  <2> DEFINE S == {i \in 0..n : g[i] = f[i]}
  <2>1. 0 \in S
    BY <1>31, <1>6
  <2>2. ASSUME NEW i \in 1..n, i - 1 \in S PROVE i \in S
    BY <1>4, <1>6, <2>2
  <2> HIDE DEF S
  <2>3. n \in S
    BY <2>1, <2>2, CountingUp
  <2> QED
    BY <2>3 DEF S
<1> QED
  BY <1>31, <1>4, <1>6, <1>7 DEF Merges, start

(* What has come out in the end: the first n of both lists, and if one of  *)
(* them has n all of its own are as far or are out.                        *)
AreFirst(list, other, n, out) ==
    /\ Ranked(out) /\ Len(out) <= n
    /\ \A e : In(e, out) => In(e, list) \/ In(e, other)
    /\ \A e : In(e, list) \/ In(e, other) =>
         \/ In(e, out)
         \/ Len(out) = n /\ \A i \in 1..n : out[i].distance <= e.distance
    /\ Len(list) = n => /\ Len(out) = n
                        /\ \A i \in 1..n : \E e : In(e, list) /\ out[i].distance <= e.distance
    /\ Len(other) = n => /\ Len(out) = n
                         /\ \A i \in 1..n : \E e : In(e, other) /\ out[i].distance <= e.distance

LEMMA MergeFinds ==
    ASSUME NEW list, NEW other, Ranked(list), Ranked(other), Apart(list, other),
           NEW n \in Nat, NEW out, out = MergeSortedLists(list, other, n)
    PROVE  AreFirst(list, other, n, out)
<1>1. list \in Seq(Finds) /\ other \in Seq(Finds)
  BY DEF Ranked
<1>2. PICK g : Merges(list, other, n, g)
  BY <1>1, MergeSteps
<1> DEFINE S == {m \in 0..n : Merging(g[m], list, other, m)}
<1>9. n \in S
  <2>1. 0 \in S
    BY <1>2, MergeStarts DEF Merges
  <2>2. ASSUME NEW m \in 1..n, m - 1 \in S PROVE m \in S
    <3>1. Merging(g[m - 1], list, other, m - 1) /\ m - 1 \in Nat /\ m \in 0..n
      BY <2>2
    <3>2. g[m] = TakeHead(g[m - 1])
      BY <1>2, <3>1 DEF Merges
    <3>3. Merging(TakeHead(g[m - 1]), list, other, m - 1 + 1)
      BY <3>1, MergeGoesOn
    <3>4. m - 1 + 1 = m
      OBVIOUS
    <3> QED
      BY <3>1, <3>2, <3>3, <3>4
  <2> HIDE DEF S
  <2> QED
    BY <2>1, <2>2, CountingUp
<1> DEFINE s == g[n]
<1>10. Merging(s, list, other, n) /\ out = s.out
  BY <1>2, <1>9 DEF Merges
<1> HIDE DEF s, S
<1>11. /\ Len(s.out) \in Nat /\ Len(s.a) \in Nat /\ Len(s.b) \in Nat
       /\ Len(list) \in Nat /\ Len(other) \in Nat
  BY <1>10 DEF Merging, Mergeable, Ranked
<1>12. Ranked(out) /\ Len(out) <= n
  BY <1>10 DEF Merging, Mergeable
<1>13. \A e : In(e, out) => In(e, list) \/ In(e, other)
  BY <1>10 DEF Merging
<1>14. ASSUME NEW e, In(e, list) \/ In(e, other), ~In(e, out)
       PROVE  Len(out) = n /\ \A i \in 1..n : out[i].distance <= e.distance
  <2>1. In(e, s.a) \/ In(e, s.b)
    BY <1>10, <1>14 DEF Merging
  <2>2. Len(out) = n
    BY <1>10, <2>1 DEF Merging, In
  <2>3. NotAfter(s.out, s.a) /\ NotAfter(s.out, s.b)
    BY <1>10 DEF Merging, Mergeable
  <2> QED
    BY <1>10, <2>1, <2>2, <2>3 DEF NotAfter, In
<1>15. ASSUME Len(list) = n \/ Len(other) = n PROVE Len(out) = n
  <2>1. CASE s.a = << >> /\ s.b = << >>
    <3>1. Len(out) = Len(list) + Len(other)
      BY <1>10, <1>11, <2>1 DEF Merging
    <3> QED
      BY <1>11, <1>12, <1>15, <3>1
  <2> QED
    BY <1>10, <2>1 DEF Merging
<1>16. ASSUME Len(list) = n, NEW i \in 1..n
       PROVE  \E e : In(e, list) /\ out[i].distance <= e.distance
  <2>1. In(out[i], out) /\ out[i] \in Finds
    BY <1>12, <1>15, <1>16 DEF In, Ranked
  <2>2. CASE In(out[i], list)
    BY <2>1, <2>2 DEF Finds
  <2>3. CASE Len(s.b) < Len(other)
    <3>1. Len(s.a) > 0
      BY <1>10, <1>11, <1>15, <1>16, <2>3 DEF Merging
    <3>2. In(s.a[1], s.a) /\ 1 \in 1..Len(s.a)
      BY <1>11, <3>1 DEF In
    <3>3. out[i].distance <= s.a[1].distance
      BY <1>10, <1>15, <1>16, <3>2 DEF Merging, Mergeable, NotAfter
    <3> QED
      BY <1>10, <3>2, <3>3 DEF Merging
  <2> QED
    BY <1>10, <2>1, <2>2, <2>3 DEF Merging
<1>17. ASSUME Len(other) = n, NEW i \in 1..n
       PROVE  \E e : In(e, other) /\ out[i].distance <= e.distance
  <2>1. In(out[i], out) /\ out[i] \in Finds
    BY <1>12, <1>15, <1>17 DEF In, Ranked
  <2>2. CASE In(out[i], other)
    BY <2>1, <2>2 DEF Finds
  <2>3. CASE Len(s.a) < Len(list)
    <3>1. Len(s.b) > 0
      BY <1>10, <1>11, <1>15, <1>17, <2>3 DEF Merging
    <3>2. In(s.b[1], s.b) /\ 1 \in 1..Len(s.b)
      BY <1>11, <3>1 DEF In
    <3>3. out[i].distance <= s.b[1].distance
      BY <1>10, <1>15, <1>17, <3>2 DEF Merging, Mergeable, NotAfter
    <3> QED
      BY <1>10, <3>2, <3>3 DEF Merging
  <2> QED
    BY <1>10, <2>1, <2>2, <2>3 DEF Merging
<1> QED
  BY <1>12, <1>13, <1>14, <1>15, <1>16, <1>17 DEF AreFirst

-----------------------------------------------------------------------------
(* The k nearest rows.                                                     *)

(* A search of the k nearest that neither fails nor misjudges.             *)
Searches(t, q) ==
    /\ Good(t)
    /\ IsQuery(q) /\ Plan(q) = "knn" /\ ~RejectsKnn(q) /\ q.vector \in Vectors
    /\ Split(q) = {}
    /\ \A b \in ChunksIter(t, q), c \in On("meta", q) : ~FilterTextFails(t, b, c)
    /\ ~Misjudges(t, q) /\ ~Rounds(t, q)

LEMMA SlotsAreFar ==
    ASSUME NEW t, NEW q, Searches(t, q), NEW b \in ChunksIter(t, q)
    PROVE  /\ b \in DOMAIN t.chunks /\ b \in 1..MaxRowid
           /\ t.chunks[b].valid \in SUBSET Offsets
           /\ \A o \in Offsets : t.blobs[b].vectors[o] \in Vectors
           /\ \A o \in Offsets : DistanceAt(t, b, o, q) \in Int
<1>1. b \in DOMAIN t.chunks /\ Good(t) /\ q.vector \in Vectors
  BY DEF ChunksIter, Searches
<1>2. b \in 1..MaxRowid /\ t.chunks[b] \in Chunks /\ b \in DOMAIN t.blobs /\ t.blobs[b] \in Blobs
  BY <1>1, GoodChunksHold DEF ChunksHold, BlobsBelongToChunks
<1>3. t.chunks[b].valid \in SUBSET Offsets
  BY <1>2 DEF Chunks
<1>4. \A o \in Offsets : t.blobs[b].vectors[o] \in Vectors
  BY <1>2 DEF Blobs
<1>5. \A o \in Offsets : DistanceAt(t, b, o, q) \in Int
  <2> SUFFICES ASSUME NEW o \in Offsets PROVE DistanceAt(t, b, o, q) \in Int
    OBVIOUS
  <2>1. <<t.blobs[b].vectors[o], q.vector>> \in Vectors \X Vectors
    BY <1>1, <1>4
  <2> QED
    BY <2>1, QueryAssumption DEF DistanceAt
<1> QED
  BY <1>1, <1>2, <1>3, <1>4, <1>5

LEMMA SlotRow ==
    ASSUME NEW t, NEW q, Searches(t, q), NEW b \in ChunksIter(t, q), NEW o \in t.chunks[b].valid,
           NEW r, r = t.chunks[b].rowids[o]
    PROVE  /\ r \in DOMAIN t.rowids /\ ChunkOf(t, r) = b /\ OffsetOf(t, r) = o
           /\ VectorData(t, r) \in Vectors
           /\ RowFor(t, q, r).distance = DistanceAt(t, b, o, q)
           /\ RowFor(t, q, r).distance \in Int
<1>1. Good(t) /\ b \in DOMAIN t.chunks /\ o \in Offsets /\ q.vector # NoMatch
  BY SlotsAreFar, QueryAssumption DEF Searches
<1>2. /\ r \in DOMAIN t.rowids /\ ChunkOf(t, r) = b /\ OffsetOf(t, r) = o
      /\ VectorData(t, r) = t.blobs[b].vectors[o]
  BY <1>1, RowOfSlot
<1>3. RowFor(t, q, r).distance = Distance[<<VectorData(t, r), q.vector>>]
  BY <1>1 DEF RowFor, Columns
<1>4. RowFor(t, q, r).distance = DistanceAt(t, b, o, q)
  BY <1>2, <1>3 DEF DistanceAt
<1> QED
  BY <1>1, <1>2, <1>4, SlotsAreFar

LEMMA PushedAre ==
    ASSUME NEW t, NEW q, Searches(t, q), NEW c
    PROVE  /\ c \in Pushed(q) <=> \/ c \in On("id", q) /\ c.op = "in"
                                  \/ c \in On("part", q) \cap Pushed(q)
                                  \/ c \in On("meta", q)
                                  \/ c \in On("distance", q)
           /\ c \in On("id", q) \cap Pushed(q) <=> c \in On("id", q) /\ c.op = "in"
           /\ c \in On("meta", q) => c.op \in Comparisons \cup {"in"}
           /\ c \in On("distance", q) => c.op \in Orderings
           /\ c \in Pushed(q) => c \in q.where
<1>1. Pushed(q) = PushedKnn(q) /\ \A d \in q.where : ~RejectsConstraint(d)
  BY DEF Searches, Pushed, RejectsKnn
<1>2. /\ c \in On("meta", q) => c.op \in Comparisons \cup {"in"}
      /\ c \in On("distance", q) => c.op \in Orderings
  BY <1>1 DEF RejectsConstraint, On
<1>3. c \in Pushed(q) => c \in q.where
  BY <1>1 DEF PushedKnn, On
<1>4. c \in On("id", q) \cap Pushed(q) <=> c \in On("id", q) /\ c.op = "in"
  BY <1>1 DEF PushedKnn, On
<1>5. c \in Pushed(q) <=> \/ c \in On("id", q) /\ c.op = "in"
                          \/ c \in On("part", q) \cap Pushed(q)
                          \/ c \in On("meta", q)
                          \/ c \in On("distance", q)
  BY <1>1 DEF PushedKnn, On
<1> QED
  BY <1>2, <1>3, <1>4, <1>5

Passes(t, q, r) == \A c \in Pushed(q) : Satisfies(RowFor(t, q, r), c)

LEMMA CandidatesAre ==
    ASSUME NEW t, NEW q, Searches(t, q), NEW b \in ChunksIter(t, q), NEW o
    PROVE  o \in Candidates(t, b, q) <=>
               o \in t.chunks[b].valid /\ Passes(t, q, t.chunks[b].rowids[o])
<1> DEFINE r == t.chunks[b].rowids[o]
<1>1. o \in Candidates(t, b, q) => o \in t.chunks[b].valid
  BY DEF Candidates, BitmapRowids
<1> SUFFICES ASSUME o \in t.chunks[b].valid
             PROVE  o \in Candidates(t, b, q) <=> Passes(t, q, r)
  BY <1>1
<1>2. /\ b \in DOMAIN t.chunks /\ o \in Offsets /\ r \in DOMAIN t.rowids /\ ChunkOf(t, r) = b
      /\ VectorData(t, r) \in Vectors
      /\ RowFor(t, q, r).distance = DistanceAt(t, b, o, q)
      /\ RowFor(t, q, r).distance \in Int
  BY SlotsAreFar, SlotRow
<1> DEFINE row == RowFor(t, q, r)
<1>3. ASSUME NEW c \in On("id", q), c.op = "in"
      PROVE  r \in RowidsIn(t, c) <=> Satisfies(row, c)
  <2>1. c.column = "id" /\ row.id = IdOf(t, r)
    BY DEF RowFor, Columns, On
  <2> HIDE DEF row, r
  <2>2. Satisfies(row, c) <=> IdOf(t, r) \in c.value
    BY <1>3, <2>1 DEF Satisfies, ColumnOf, Orderings
  <2> QED
    BY <1>2, <2>2 DEF RowidsIn
<1>4. ASSUME NEW c \in On("part", q) \cap Pushed(q) PROVE Satisfies(row, c)
  BY <1>2, ChunksOfRows DEF Searches
<1>5. ASSUME NEW c \in On("meta", q) PROVE o \in FilterText(t, b, c) <=> Satisfies(row, c)
  <2>1. c.op \in Comparisons \cup {"in"} /\ ~FilterTextFails(t, b, c) /\ ~Misjudges(t, q) /\ Good(t)
    BY PushedAre DEF Searches
  <2> QED
    BY <1>2, <2>1, FilterTextIs DEF Searches
<1>6. ASSUME NEW c \in On("distance", q)
      PROVE  Compares(c.op, DistanceAt(t, b, o, q) < Single(c.value), DistanceAt(t, b, o, q) = Single(c.value))
             <=> Satisfies(row, c)
  <2> DEFINE v == c.value
             d == row.distance
  <2>1. /\ c \in q.where /\ c.op \in Orderings /\ c.column = "distance"
        /\ d \in Int /\ d # Null /\ d = DistanceAt(t, b, o, q)
    BY <1>2, PushedAre, Vec0Assumption DEF On
  <2>2. /\ v \in Int /\ Single(v) \in Int
        /\ d <= v => d <= Single(v)
        /\ v <= d => Single(v) <= d
    <3>1. IsBound(v)
      BY <2>1 DEF IsQuery, Searches
    <3>2. d = Distance[<<VectorData(t, r), q.vector>>] /\ q.vector \in Vectors
      BY QueryAssumption, RowForFields DEF Searches
    <3>3. VectorData(t, r) \in Vectors
      BY <1>2
    <3> QED
      BY <3>1, <3>2, <3>3 DEF IsBound
  <2>3. d = Single(v) => v = Single(v)
    <3>1. row \in Everything(t, q)
      BY <1>2, EverythingIsRows
    <3> QED
      BY <3>1 DEF Searches, Rounds
  <2>4. Satisfies(row, c) <=> Compares(c.op, d < v, d = v)
    BY <2>1 DEF Satisfies, ColumnOf, Orderings, ValueLess
  <2> HIDE DEF d, v
  <2>5. /\ d < v <=> d < Single(v)
        /\ d = v <=> d = Single(v)
    BY <2>1, <2>2, <2>3
  <2> QED
    BY <2>1, <2>4, <2>5 DEF v
<1> HIDE DEF row, r
<1>7. o \in BitmapRowids(t, b, q) <=> \A c \in On("id", q) : c.op = "in" => Satisfies(row, c)
  BY <1>3, PushedAre DEF BitmapRowids, r
<1>8. o \in BitmapMetadata(t, b, q) <=> \A c \in On("meta", q) : Satisfies(row, c)
  BY <1>2, <1>5 DEF BitmapMetadata
<1>9. o \in WithinDistance(t, b, q) <=> \A c \in On("distance", q) : Satisfies(row, c)
  BY <1>2, <1>6 DEF WithinDistance
<1>10. Passes(t, q, r) <=> \A c \in Pushed(q) : Satisfies(row, c)
  BY DEF Passes, row
<1> QED
  BY <1>4, <1>7, <1>8, <1>9, <1>10, PushedAre DEF Candidates

(* What a search finds of a row. *)
Find(t, q, r) == [rowid |-> r, distance |-> RowFor(t, q, r).distance]

(* The finds of the k nearest of some rows.                                *)
FindsOf(t, q, rows, k, found) ==
    /\ Ranked(found) /\ Len(found) <= k
    /\ \A e : In(e, found) => \E r \in rows : e = Find(t, q, r)
    /\ \A r \in rows : \/ In(Find(t, q, r), found)
                       \/ /\ Len(found) = k
                          /\ \A i \in 1..k : found[i].distance <= RowFor(t, q, r).distance

RowsIn(t, q, b) == {r \in DOMAIN t.rowids : ChunkOf(t, r) = b /\ Passes(t, q, r)}

LEMMA SlotIsFind ==
    ASSUME NEW t, NEW q, Searches(t, q), NEW b \in ChunksIter(t, q), NEW o \in Candidates(t, b, q),
           NEW r, r = t.chunks[b].rowids[o]
    PROVE  /\ o \in Offsets /\ r \in RowsIn(t, q, b) /\ OffsetOf(t, r) = o
           /\ Find(t, q, r) = [rowid |-> r, distance |-> DistanceAt(t, b, o, q)]
           /\ Find(t, q, r) \in Finds
<1>1. o \in t.chunks[b].valid /\ Passes(t, q, r)
  BY CandidatesAre
<1>2. /\ r \in DOMAIN t.rowids /\ ChunkOf(t, r) = b /\ OffsetOf(t, r) = o
      /\ RowFor(t, q, r).distance = DistanceAt(t, b, o, q)
      /\ RowFor(t, q, r).distance \in Int
  BY <1>1, SlotRow
<1>3. r \in Int
  BY <1>2, SlotIsOwn, Vec0Assumption DEF Searches, Rowids
<1>4. o \in Offsets
  BY <1>1, SlotsAreFar
<1> QED
  BY <1>1, <1>2, <1>3, <1>4 DEF Find, RowsIn, Finds

LEMMA FindIsSlot ==
    ASSUME NEW t, NEW q, Searches(t, q), NEW b \in ChunksIter(t, q), NEW r \in RowsIn(t, q, b)
    PROVE  OffsetOf(t, r) \in Candidates(t, b, q) /\ t.chunks[b].rowids[OffsetOf(t, r)] = r
<1>1. /\ OffsetOf(t, r) \in t.chunks[b].valid
      /\ t.chunks[b].rowids[OffsetOf(t, r)] = r
  BY SlotOfRow DEF RowsIn, Searches
<1>2. Passes(t, q, r)
  BY DEF RowsIn
<1> QED
  BY <1>1, <1>2, CandidatesAre

LEMMA TopFinds ==
    ASSUME NEW t, NEW q, Searches(t, q), K(q) \in Nat, NEW b \in ChunksIter(t, q)
    PROVE  FindsOf(t, q, RowsIn(t, q, b), K(q), TopOfChunk(t, b, q))
<1> DEFINE n == K(q)
           k == Min({K(q), ChunkSize})
           idx == MinIdx(t, b, q, k)
           C == Candidates(t, b, q)
           D(o) == DistanceAt(t, b, o, q)
           top == RowsAt(t, b, q, idx)
           row(o) == t.chunks[b].rowids[o]
<1>1. ChunkSize \in Nat /\ k = (IF n <= ChunkSize THEN n ELSE ChunkSize) /\ k \in Nat
  <2>1. ChunkSize \in Nat
    BY Vec0Assumption
  <2> QED
    BY <2>1, MinOfTwo
<1>2. C \in SUBSET Offsets /\ \A o \in Offsets : D(o) \in Int
  BY SlotsAreFar, SlotIsFind
<1>3. /\ idx \in Seq(C) /\ Len(idx) <= k
      /\ \A i, j \in 1..Len(idx) : i < j => idx[i] # idx[j] /\ D(idx[i]) <= D(idx[j])
      /\ \A p \in C : \/ \E i \in 1..Len(idx) : idx[i] = p
                      \/ /\ Len(idx) = k
                         /\ \A i \in 1..Len(idx) : D(idx[i]) <= D(p)
  <2>1. k \in Nat /\ C \in SUBSET Offsets /\ \A o \in Offsets : DistanceAt(t, b, o, q) \in Int
    BY <1>1, <1>2
  <2> HIDE DEF k
  <2>2. AreTop(t, b, q, k, MinIdx(t, b, q, k))
    BY <2>1, MinIdxFinds
  <2> QED
    BY <2>2 DEF AreTop
<1>4. TopOfChunk(t, b, q) = top
  BY DEF TopOfChunk
<1>5. \A o \in C : /\ o \in Offsets /\ row(o) \in RowsIn(t, q, b) /\ OffsetOf(t, row(o)) = o
                   /\ Find(t, q, row(o)) = [rowid |-> row(o), distance |-> D(o)]
                   /\ Find(t, q, row(o)) \in Finds
  BY SlotIsFind
<1>6. top = [i \in 1..Len(idx) |-> [rowid |-> row(idx[i]), distance |-> D(idx[i])]]
  BY DEF RowsAt
<1> HIDE DEF k, idx, C, D, top, row
<1>7. \A i \in 1..Len(idx) : idx[i] \in C /\ top[i] = [rowid |-> row(idx[i]), distance |-> D(idx[i])]
                             /\ top[i] = Find(t, q, row(idx[i])) /\ top[i] \in Finds
                             /\ top[i].rowid = row(idx[i]) /\ top[i].distance = D(idx[i])
  BY <1>3, <1>5, <1>6
<1>8. Len(idx) \in Nat
  BY <1>3
<1>9. top \in Seq(Finds) /\ Len(top) = Len(idx)
  <2>1. top \in [1..Len(idx) -> Finds]
    BY <1>6, <1>7
  <2> QED
    BY <1>8, <2>1
<1>10. Ranked(top)
  <2> SUFFICES ASSUME NEW i \in 1..Len(idx), NEW j \in 1..Len(idx), i < j
               PROVE  top[i].rowid # top[j].rowid /\ top[i].distance <= top[j].distance
    BY <1>9 DEF Ranked
  <2>1. idx[i] # idx[j] /\ D(idx[i]) <= D(idx[j])
    BY <1>3
  <2>2. row(idx[i]) # row(idx[j])
    BY <1>5, <1>7, <2>1
  <2> QED
    BY <1>7, <2>1, <2>2
<1>11. ASSUME NEW e, In(e, top) PROVE \E r \in RowsIn(t, q, b) : e = Find(t, q, r)
  BY <1>5, <1>7, <1>9, <1>11 DEF In
<1>12. ASSUME NEW r \in RowsIn(t, q, b), ~In(Find(t, q, r), top)
       PROVE  Len(top) = n /\ \A i \in 1..n : top[i].distance <= RowFor(t, q, r).distance
  <2> DEFINE p == OffsetOf(t, r)
  <2>1. p \in C /\ row(p) = r
    BY FindIsSlot DEF C, row
  <2> HIDE DEF p
  <2>2. ~\E i \in 1..Len(idx) : idx[i] = p
    BY <1>7, <1>9, <1>12, <2>1 DEF In
  <2>3. Len(idx) = k /\ \A i \in 1..Len(idx) : D(idx[i]) <= D(p)
    BY <1>3, <2>1, <2>2
  <2>4. RowFor(t, q, r).distance = D(p)
    <3>1. Find(t, q, r).distance = D(p)
      BY <1>5, <2>1
    <3> QED
      BY <3>1 DEF Find
  <2>5. k = n
    <3> SUFFICES ASSUME k = ChunkSize PROVE FALSE
      BY <1>1
    <3>1. idx \in Injection(1..ChunkSize, Offsets)
      <4>1. idx \in [1..ChunkSize -> Offsets]
        BY <1>2, <1>3, <2>3
      <4>2. ASSUME NEW i \in 1..ChunkSize, NEW j \in 1..ChunkSize, idx[i] = idx[j] PROVE i = j
        BY <1>1, <1>3, <2>3, <4>2
      <4> QED
        BY <4>1, <4>2 DEF Injection, IsInjective
    <3>2. /\ IsFiniteSet(Offsets) /\ Cardinality(Offsets) = ChunkSize
          /\ Cardinality(1..ChunkSize) = ChunkSize
      <4>1. 0 \in Int /\ 1 \in Int /\ ChunkSize \in Int /\ ChunkSize - 1 \in Int /\ ~(0 > ChunkSize - 1) /\ ~(1 > ChunkSize)
        BY Vec0Assumption
      <4>2. IsFiniteSet(0..ChunkSize - 1) /\ Cardinality(0..ChunkSize - 1) = (ChunkSize - 1) - 0 + 1
        BY <4>1, FS_Interval
      <4>3. Cardinality(1..ChunkSize) = ChunkSize - 1 + 1
        BY <4>1, FS_Interval
      <4> QED
        BY <1>1, <4>2, <4>3 DEF Offsets
    <3>3. idx \in Surjection(1..ChunkSize, Offsets)
      BY <3>1, <3>2, FS_Injection
    <3> QED
      BY <1>2, <2>1, <2>2, <2>3, <3>3 DEF Surjection
  <2> QED
    BY <1>7, <1>9, <2>3, <2>4, <2>5
<1>13. Len(top) <= n
  BY <1>1, <1>3, <1>8, <1>9
<1> QED
  BY <1>4, <1>10, <1>11, <1>12, <1>13 DEF FindsOf

Far(t, q, rows) == \A r \in rows : RowFor(t, q, r).distance \in Int

LEMMA FindsMerge ==
    ASSUME NEW t, NEW q, NEW k \in Nat, NEW rows, NEW more, Far(t, q, rows), Far(t, q, more),
           rows \cap more = {},
           NEW list, FindsOf(t, q, rows, k, list), NEW other, FindsOf(t, q, more, k, other)
    PROVE  FindsOf(t, q, rows \cup more, k, MergeSortedLists(list, other, k))
<1> DEFINE out == MergeSortedLists(list, other, k)
<1>1. /\ Ranked(list) /\ Len(list) <= k
      /\ \A e : In(e, list) => \E r \in rows : e = Find(t, q, r)
      /\ \A r \in rows : \/ In(Find(t, q, r), list)
                         \/ /\ Len(list) = k
                            /\ \A i \in 1..k : list[i].distance <= RowFor(t, q, r).distance
      /\ Ranked(other) /\ Len(other) <= k
      /\ \A e : In(e, other) => \E r \in more : e = Find(t, q, r)
      /\ \A r \in more : \/ In(Find(t, q, r), other)
                         \/ /\ Len(other) = k
                            /\ \A i \in 1..k : other[i].distance <= RowFor(t, q, r).distance
  BY DEF FindsOf
<1>2. \A r : Find(t, q, r).rowid = r /\ Find(t, q, r).distance = RowFor(t, q, r).distance
  BY DEF Find
<1>3. Apart(list, other)
  <2> SUFFICES ASSUME NEW i \in 1..Len(list), NEW j \in 1..Len(other) PROVE list[i].rowid # other[j].rowid
    BY DEF Apart
  <2>1. In(list[i], list) /\ In(other[j], other)
    BY DEF In
  <2>2. PICK r \in rows : list[i] = Find(t, q, r)
    BY <1>1, <2>1
  <2>3. PICK p \in more : other[j] = Find(t, q, p)
    BY <1>1, <2>1
  <2>4. list[i].rowid = r /\ other[j].rowid = p
    BY <1>2, <2>2, <2>3
  <2> QED
    BY <2>4
<1>4. /\ Ranked(out) /\ Len(out) <= k
      /\ \A e : In(e, out) => In(e, list) \/ In(e, other)
      /\ \A e : In(e, list) \/ In(e, other) =>
           \/ In(e, out)
           \/ Len(out) = k /\ \A i \in 1..k : out[i].distance <= e.distance
      /\ Len(list) = k => /\ Len(out) = k
                          /\ \A i \in 1..k : \E e : In(e, list) /\ out[i].distance <= e.distance
      /\ Len(other) = k => /\ Len(out) = k
                           /\ \A i \in 1..k : \E e : In(e, other) /\ out[i].distance <= e.distance
  <2>1. AreFirst(list, other, k, MergeSortedLists(list, other, k))
    BY <1>1, <1>3, MergeFinds
  <2> QED
    BY <2>1 DEF AreFirst
<1> HIDE DEF out
<1>5. ASSUME NEW some, Ranked(some), NEW e, In(e, some) PROVE e.distance \in Int
  <2>1. some \in Seq(Finds)
    BY <1>5 DEF Ranked
  <2>2. PICK i \in 1..Len(some) : some[i] = e
    BY <1>5 DEF In
  <2>3. e \in Finds
    BY <2>1, <2>2
  <2> QED
    BY <2>3 DEF Finds
<1>6. Len(out) = k => \A i \in 1..k : out[i].distance \in Int
  BY <1>4, <1>5 DEF In
<1>7. ASSUME NEW some, NEW r, RowFor(t, q, r).distance \in Int,
             \A e : In(e, some) => In(e, list) \/ In(e, other),
             Len(some) = k, \A i \in 1..k : some[i].distance <= RowFor(t, q, r).distance,
             Len(out) = k, \A i \in 1..k : \E e : In(e, some) /\ out[i].distance <= e.distance
      PROVE  \A i \in 1..k : out[i].distance <= RowFor(t, q, r).distance
  <2> SUFFICES ASSUME NEW i \in 1..k PROVE out[i].distance <= RowFor(t, q, r).distance
    OBVIOUS
  <2>1. PICK e : In(e, some) /\ out[i].distance <= e.distance
    BY <1>7
  <2>2. e.distance <= RowFor(t, q, r).distance
    BY <1>7, <2>1 DEF In
  <2>3. e.distance \in Int /\ out[i].distance \in Int
    BY <1>1, <1>5, <1>6, <1>7, <2>1
  <2> QED
    BY <1>7, <2>1, <2>2, <2>3
<1>8. ASSUME NEW r \in rows \cup more, ~In(Find(t, q, r), out)
      PROVE  Len(out) = k /\ \A i \in 1..k : out[i].distance <= RowFor(t, q, r).distance
  <2>1. RowFor(t, q, r).distance \in Int
    BY DEF Far
  <2>2. CASE In(Find(t, q, r), list) \/ In(Find(t, q, r), other)
    BY <1>2, <1>4, <1>8, <2>2
  <2>3. CASE r \in rows /\ ~In(Find(t, q, r), list)
    BY <1>1, <1>4, <1>7, <2>1, <2>3
  <2>4. CASE r \in more /\ ~In(Find(t, q, r), other)
    BY <1>1, <1>4, <1>7, <2>1, <2>4
  <2> QED
    BY <2>2, <2>3, <2>4
<1> QED
  BY <1>1, <1>4, <1>8 DEF FindsOf, out

LEMMA MergedAreFinds ==
    ASSUME NEW list \in Seq(Finds), NEW other \in Seq(Finds), NEW n \in Nat
    PROVE  MergeSortedLists(list, other, n) \in Seq(Finds)
<1>1. PICK f : Merges(list, other, n, f)
  BY MergeSteps
<1>2. f[n] \in MergeStates /\ MergeSortedLists(list, other, n) = f[n].out
  BY <1>1 DEF Merges
<1> QED
  BY <1>2 DEF MergeStates

(* The rows of the chunks searched up to one.                              *)
RowsUpTo(t, q, c) ==
    {r \in DOMAIN t.rowids : ChunkOf(t, r) \in ChunksIter(t, q) /\ ChunkOf(t, r) <= c /\ Passes(t, q, r)}

LEMMA RowsAreFar ==
    ASSUME NEW t, NEW q, Searches(t, q), NEW r \in DOMAIN t.rowids, ChunkOf(t, r) \in ChunksIter(t, q)
    PROVE  RowFor(t, q, r).distance \in Int
<1>1. /\ OffsetOf(t, r) \in t.chunks[ChunkOf(t, r)].valid
      /\ t.chunks[ChunkOf(t, r)].rowids[OffsetOf(t, r)] = r
  BY SlotOfRow DEF Searches
<1> QED
  BY <1>1, SlotRow

LEMMA KnnChunksSteps ==
    ASSUME NEW t, NEW q, Searches(t, q), K(q) \in Nat
    PROVE  \E f : /\ f[0] = << >> /\ KnnChunksIter(t, q) = f[MaxRowid]
                  /\ \A c \in 1..MaxRowid :
                       f[c] = IF c \in ChunksIter(t, q)
                              THEN MergeSortedLists(f[c - 1], TopOfChunk(t, c, q), K(q))
                              ELSE f[c - 1]
<1> DEFINE X == Seq(Finds)
           n == MaxRowid
           none == << >>
           Merged(c, s) == IF c \in ChunksIter(t, q)
                          THEN MergeSortedLists(s, TopOfChunk(t, c, q), K(q)) ELSE s
           F == [c \in 1..n |-> [s \in X |-> Merged(c, s)]]
<1>1. ASSUME NEW c \in 1..n, NEW s \in X PROVE Merged(c, s) \in X
  <2>1. c \in ChunksIter(t, q) => TopOfChunk(t, c, q) \in Seq(Finds)
    BY TopFinds DEF FindsOf, Ranked
  <2> QED
    BY <2>1, MergedAreFinds
<1> HIDE DEF Merged
<1>2. none \in X /\ n \in Nat /\ F \in [1..n -> [X -> X]]
  BY <1>1, Vec0Assumption
<1>3. PICK f : StepsOf(X, none, n, F, f)
  <2> HIDE DEF F, X, none, n
  <2> QED
    BY <1>2, StepsExist
<1>4. f \in [0..n -> X] /\ f[0] = << >> /\ \A c \in 1..n : f[c] = F[c][f[c - 1]]
  BY <1>3 DEF StepsOf
<1>5. ASSUME NEW c \in 1..n PROVE f[c] = Merged(c, f[c - 1])
  <2>1. c - 1 \in 0..n
    BY <1>2
  <2>2. f[c - 1] \in X
    BY <1>4, <2>1
  <2> HIDE DEF X
  <2> QED
    BY <1>4, <2>2
<1> HIDE DEF X, n
<1>6. f = [c \in 0..n |-> IF c = 0 THEN << >> ELSE Merged(c, f[c - 1])]
  BY <1>2, <1>4, <1>5
<1>7. PICK g : g = [c \in 0..n |-> IF c = 0 THEN << >> ELSE Merged(c, g[c - 1])] /\ KnnChunksIter(t, q) = g[n]
  BY <1>6 DEF KnnChunksIter, Merged, n
<1>8. g[0] = << >> /\ \A c \in 1..n : g[c] = Merged(c, g[c - 1])
  BY <1>2, <1>7
<1> QED
  BY <1>7, <1>8 DEF Merged, n

LEMMA KnnFinds ==
    ASSUME NEW t, NEW q, Searches(t, q), K(q) \in Nat
    PROVE  FindsOf(t, q, {r \in DOMAIN t.rowids : Passes(t, q, r)}, K(q), KnnChunksIter(t, q))
<1> DEFINE n == MaxRowid
           k == K(q)
<1>1. PICK f : /\ f[0] = << >> /\ KnnChunksIter(t, q) = f[MaxRowid]
               /\ \A c \in 1..MaxRowid :
                    f[c] = IF c \in ChunksIter(t, q)
                           THEN MergeSortedLists(f[c - 1], TopOfChunk(t, c, q), K(q))
                           ELSE f[c - 1]
  BY KnnChunksSteps
<1> DEFINE S == {c \in 0..n : FindsOf(t, q, RowsUpTo(t, q, c), k, f[c])}
<1>2. n \in Nat
  BY Vec0Assumption
<1>3. \A c \in ChunksIter(t, q) : c \in 1..n
  BY SlotsAreFar
<1>4. 0 \in S
  <2>1. RowsUpTo(t, q, 0) = {}
    BY <1>3 DEF RowsUpTo
  <2>2. Ranked(<< >>) /\ Len(<< >>) = 0 /\ \A e : ~In(e, << >>)
    BY DEF Ranked, In
  <2>3. FindsOf(t, q, {}, k, << >>)
    BY <2>2 DEF FindsOf
  <2>4. FindsOf(t, q, RowsUpTo(t, q, 0), k, f[0])
    BY <1>1, <2>1, <2>3
  <2> QED
    BY <1>2, <2>4
<1>5. ASSUME NEW c \in 1..n, c - 1 \in S PROVE c \in S
  <2>1. c \in 0..n /\ FindsOf(t, q, RowsUpTo(t, q, c - 1), k, f[c - 1])
    BY <1>2, <1>5
  <2>2. CASE c \in ChunksIter(t, q)
    <3>1. FindsOf(t, q, RowsIn(t, q, c), k, TopOfChunk(t, c, q))
      BY <2>2, TopFinds
    <3>2. RowsUpTo(t, q, c) = RowsUpTo(t, q, c - 1) \cup RowsIn(t, q, c)
      <4>1. ASSUME NEW d \in ChunksIter(t, q) PROVE d <= c <=> d <= c - 1 \/ d = c
        <5>1. d \in 1..n
          BY <1>3
        <5> QED
          BY <1>2, <5>1
      <4>2. \A r : r \in RowsUpTo(t, q, c) <=> r \in RowsUpTo(t, q, c - 1) \/ r \in RowsIn(t, q, c)
        BY <2>2, <4>1 DEF RowsUpTo, RowsIn
      <4> QED
        BY <4>2
    <3>3. RowsUpTo(t, q, c - 1) \cap RowsIn(t, q, c) = {}
      BY DEF RowsUpTo, RowsIn
    <3>4. Far(t, q, RowsUpTo(t, q, c - 1)) /\ Far(t, q, RowsIn(t, q, c))
      BY <2>2, RowsAreFar DEF Far, RowsUpTo, RowsIn
    <3>5. f[c] = MergeSortedLists(f[c - 1], TopOfChunk(t, c, q), k)
      BY <1>1, <2>2
    <3>6. FindsOf(t, q, RowsUpTo(t, q, c - 1) \cup RowsIn(t, q, c), k, f[c])
      BY <2>1, <3>1, <3>3, <3>4, <3>5, FindsMerge
    <3> QED
      BY <2>1, <3>2, <3>6
  <2>3. CASE c \notin ChunksIter(t, q)
    <3>1. RowsUpTo(t, q, c) = RowsUpTo(t, q, c - 1)
      <4>1. ASSUME NEW d \in ChunksIter(t, q) PROVE d <= c <=> d <= c - 1
        <5>1. d \in 1..n /\ d # c
          BY <1>3, <2>3
        <5> QED
          BY <1>2, <5>1
      <4>2. \A r : r \in RowsUpTo(t, q, c) <=> r \in RowsUpTo(t, q, c - 1)
        BY <4>1 DEF RowsUpTo
      <4> QED
        BY <4>2
    <3>2. f[c] = f[c - 1]
      BY <1>1, <2>3
    <3> QED
      BY <2>1, <3>1, <3>2
  <2> QED
    BY <2>2, <2>3
<1>6. n \in S
  <2> HIDE DEF S
  <2> QED
    BY <1>2, <1>4, <1>5, CountingUp
<1>7. RowsUpTo(t, q, n) = {r \in DOMAIN t.rowids : Passes(t, q, r)}
  <2>1. ASSUME NEW r \in DOMAIN t.rowids, Passes(t, q, r) PROVE ChunkOf(t, r) \in ChunksIter(t, q)
    BY <2>1, ChunksOfRows DEF Passes, Searches
  <2> QED
    BY <1>2, <1>3, <2>1 DEF RowsUpTo
<1> QED
  BY <1>1, <1>6, <1>7

LEMMA EverythingIsFinite == ASSUME NEW t, Good(t), NEW q PROVE IsFiniteSet(Everything(t, q))
<1> DEFINE f == [r \in DOMAIN t.rowids |-> RowFor(t, q, r)]
<1>1. f \in Surjection(DOMAIN t.rowids, {RowFor(t, q, r) : r \in DOMAIN t.rowids})
  BY DEF Surjection
<1>2. IsFiniteSet({RowFor(t, q, r) : r \in DOMAIN t.rowids})
  <2> HIDE DEF f
  <2> QED
    BY <1>1, RowsCanBeListed, FS_Surjection
<1> QED
  BY <1>2, EverythingIsRows

LEMMA FindReads ==
    ASSUME NEW t, NEW q, NEW r
    PROVE  Columns(t, Find(t, q, r)) = RowFor(t, q, r)
BY DEF Columns, Find, RowFor

(* A row is told by its id.                                                *)
LEMMA RowForIsOwn ==
    ASSUME NEW t, Good(t), NEW q, NEW r \in DOMAIN t.rowids, NEW p \in DOMAIN t.rowids,
           RowFor(t, q, r).id = RowFor(t, q, p).id
    PROVE  r = p
<1>1. IdOf(t, r) = IdOf(t, p)
  BY DEF RowFor, Columns
<1> QED
  BY <1>1, RowOfItsId

(* What a search found, in order or put in order.                          *)
Gathers(t, q, found) ==
    /\ found \in Seq(Finds)
    /\ \A i, j \in 1..Len(found) :
         i < j => /\ found[i].rowid # found[j].rowid
                  /\ q.order = "distance" \/ Split(q) = {} => found[i].distance <= found[j].distance
    /\ \A e : In(e, found) <=> \E run \in Runs(q) : In(e, FilterKnn(t, run))

(* What the calls find of the k nearest of the rows that pass what is      *)
(* pushed down is answered right.                                          *)
LEMMA FindsAreAnswered ==
    ASSUME NEW t, Good(t), NEW q, IsQuery(q), Plan(q) = "knn", Runs(q) # {} => K(q) \in Nat,
           \A run \in Runs(q) :
               FindsOf(t, q, {r \in DOMAIN t.rowids : Passes(t, run, r)}, K(q), FilterKnn(t, run)),
           NEW found, found = Filter(t, q), Gathers(t, q, found)
    PROVE  AreNearest(t, q, Answer(t, q))
<1> DEFINE P(run) == {r \in DOMAIN t.rowids : Passes(t, run, r)}
           kept == {i \in 1..Len(found) :
                       \A c \in q.where \ Pushed(q) : Satisfies(Columns(t, found[i]), c)}
           answer == [i \in kept |-> Columns(t, found[i])]
           k == K(q)
           part(run) == FilterKnn(t, run)
<1>1. Answer(t, q) = answer
  BY DEF Answer, Kept
<1>2. ASSUME NEW run \in Runs(q)
      PROVE  /\ Ranked(part(run)) /\ Len(part(run)) <= k
             /\ \A e : In(e, part(run)) => \E r \in P(run) : e = Find(t, q, r)
             /\ \A r \in P(run) : \/ In(Find(t, q, r), part(run))
                                 \/ /\ Len(part(run)) = k
                                    /\ \A i \in 1..k : part(run)[i].distance <= RowFor(t, q, r).distance
  BY DEF FindsOf
<1>3. ASSUME NEW run \in Runs(q)
      PROVE  /\ \A r : RowFor(t, run, r) = RowFor(t, q, r)
             /\ Everything(t, run) = Everything(t, q)
             /\ run.where \ Pushed(run) = q.where \ Pushed(q)
             /\ \A c \in Pushed(run) : c \in run.where
             /\ \A row : (\A c \in Pushed(run) : Satisfies(row, c)) => (\A c \in Pushed(q) : Satisfies(row, c))
             /\ \A row : (\A c \in run.where : Satisfies(row, c)) => (\A c \in q.where : Satisfies(row, c))
  <2>1. run.vector = q.vector /\ Plan(run) = "knn"
    BY RunIs
  <2>2. Everything(t, run) = Everything(t, q)
    BY <2>1 DEF Everything
  <2>3. \A c \in Pushed(run) : c \in run.where
    BY <2>1 DEF Pushed, PushedKnn, On
  <2> QED
    BY <2>2, <2>3, RunIs
<1> HIDE DEF k, part
<1>4. \A run \in Runs(q) : \A r \in P(run) :
         /\ r \in DOMAIN t.rowids
         /\ RowFor(t, q, r) \in Everything(t, q)
         /\ \A c \in Pushed(run) : Satisfies(RowFor(t, q, r), c)
         /\ \A c \in Pushed(q) : Satisfies(RowFor(t, q, r), c)
  BY <1>3, EverythingIsRows DEF Passes
<1> HIDE DEF P
<1>5. /\ Len(found) \in Nat
      /\ \A e : In(e, found) <=> \E run \in Runs(q) : In(e, part(run))
      /\ \A i, j \in 1..Len(found) :
           i < j => /\ found[i].rowid # found[j].rowid
                    /\ q.order = "distance" \/ Split(q) = {} => found[i].distance <= found[j].distance
  BY DEF Gathers, part
<1>6. ASSUME NEW i \in 1..Len(found)
      PROVE  \E run \in Runs(q) : \E r \in P(run) :
                /\ In(found[i], part(run)) /\ found[i] = Find(t, q, r) /\ found[i].rowid = r
                /\ Columns(t, found[i]) = RowFor(t, q, r)
                /\ found[i].distance = RowFor(t, q, r).distance
  <2>1. In(found[i], found)
    BY DEF In
  <2>2. PICK run \in Runs(q) : In(found[i], part(run))
    BY <1>5, <2>1
  <2>3. PICK r \in P(run) : found[i] = Find(t, q, r)
    BY <1>2, <2>2
  <2>4. found[i].rowid = r /\ found[i].distance = RowFor(t, q, r).distance
    BY <2>3 DEF Find
  <2>5. Columns(t, found[i]) = RowFor(t, q, r)
    BY <2>3, FindReads
  <2> QED
    BY <2>2, <2>3, <2>4, <2>5
<1>7. DOMAIN answer = kept /\ \A i \in kept : i \in 1..Len(found) /\ answer[i] = Columns(t, found[i])
  OBVIOUS
<1>8. \A i \in kept : answer[i] \in Everything(t, q) /\ \A c \in q.where : Satisfies(answer[i], c)
  <2> SUFFICES ASSUME NEW i \in kept
               PROVE  answer[i] \in Everything(t, q) /\ \A c \in q.where : Satisfies(answer[i], c)
    OBVIOUS
  <2>1. answer[i] = Columns(t, found[i]) /\ \A c \in q.where \ Pushed(q) : Satisfies(answer[i], c)
    OBVIOUS
  <2>2. PICK run \in Runs(q) : \E r \in P(run) : Columns(t, found[i]) = RowFor(t, q, r)
    BY <1>6
  <2>3. PICK r \in P(run) : Columns(t, found[i]) = RowFor(t, q, r)
    BY <2>2
  <2> HIDE DEF answer, kept
  <2>4. answer[i] \in Everything(t, q) /\ \A c \in Pushed(q) : Satisfies(answer[i], c)
    BY <1>4, <2>1, <2>3
  <2> QED
    BY <2>1, <2>4
<1>9. \A e : e \in ToSet(answer) <=> \E i \in kept : e = answer[i]
  <2> HIDE DEF answer, kept
  <2> QED
    BY <1>7 DEF ToSet
<1>10. \A i \in 1..Len(found) :
         (\A c \in q.where \ Pushed(q) : Satisfies(Columns(t, found[i]), c)) => i \in kept
  OBVIOUS
<1> HIDE DEF answer, kept
<1>11. ToSet(answer) \subseteq Satisfying(t, q, q.where)
  BY <1>8, <1>9 DEF Satisfying
<1>12. ASSUME NEW i \in kept, NEW j \in kept, i < j
       PROVE  /\ answer[i].id # answer[j].id
              /\ q.order = "distance" \/ Split(q) = {} => answer[i].distance <= answer[j].distance
  <2> DEFINE Is(u, r) == /\ r \in DOMAIN t.rowids /\ found[u].rowid = r
                        /\ Columns(t, found[u]) = RowFor(t, q, r)
                        /\ found[u].distance = RowFor(t, q, r).distance
  <2>1. ASSUME NEW u \in kept PROVE \E r : Is(u, r)
    <3>1. PICK run \in Runs(q) : \E r \in P(run) : Is(u, r)
      BY <1>4, <1>6, <1>7
    <3> HIDE DEF Is
    <3> QED
      BY <3>1
  <2>2. PICK r : Is(i, r)
    BY <2>1
  <2>3. PICK p : Is(j, p)
    BY <2>1
  <2>4. RowFor(t, q, r).id # RowFor(t, q, p).id
    BY <1>4, <1>5, <1>7, <1>12, <2>2, <2>3, RowForIsOwn
  <2> QED
    BY <1>5, <1>7, <1>12, <2>2, <2>3, <2>4
<1>13. ASSUME NEW run \in Runs(q)
       PROVE  Cardinality(ToSet(answer) \cap Satisfying(t, run, Pushed(run))) <= k
  <2> DEFINE n == Len(part(run))
             Some == ToSet(answer) \cap Satisfying(t, run, Pushed(run))
             All == {Columns(t, part(run)[i]) : i \in 1..n}
             h == [i \in 1..n |-> Columns(t, part(run)[i])]
  <2>1. n \in Nat /\ n <= k
    BY <1>2 DEF Ranked
  <2>2. h \in Surjection(1..n, All)
    BY DEF Surjection
  <2>3. IsFiniteSet(1..n) /\ Cardinality(1..n) = n
    <3>1. 1 \in Int /\ n \in Int
      BY <2>1
    <3>2. IsFiniteSet(1..n) /\ Cardinality(1..n) = IF 1 > n THEN 0 ELSE n - 1 + 1
      BY <3>1, FS_Interval
    <3> QED
      BY <2>1, <3>2
  <2>4. ASSUME NEW row \in Some PROVE row \in All
    <3>1. PICK i \in kept : row = answer[i]
      BY <1>9
    <3>2. PICK other \in Runs(q) : \E r \in P(other) :
             /\ In(found[i], part(other)) /\ Columns(t, found[i]) = RowFor(t, q, r)
      BY <1>6, <1>7
    <3>3. PICK r \in P(other) :
             /\ In(found[i], part(other)) /\ Columns(t, found[i]) = RowFor(t, q, r)
      BY <3>2
    <3>4. row = RowFor(t, q, r) /\ row = Columns(t, found[i])
      BY <1>7, <3>1, <3>3
    <3>5. \A c \in Pushed(run) : Satisfies(row, c)
      BY DEF Satisfying
    <3>6. \A c \in Pushed(other) : Satisfies(row, c)
      BY <1>4, <3>3, <3>4
    <3>7. other = run
      BY <3>5, <3>6, RunIsOwn
    <3> QED
      BY <3>3, <3>4, <3>7 DEF In
  <2> HIDE DEF h, All, Some, n
  <2>5. IsFiniteSet(All) /\ Cardinality(All) <= n
    BY <2>2, <2>3, FS_Surjection
  <2>6. Some \subseteq All
    BY <2>4
  <2>7. Cardinality(Some) <= Cardinality(All) /\ Cardinality(All) \in Nat /\ Cardinality(Some) \in Nat
    BY <2>5, <2>6, FS_Subset, FS_CardinalityType
  <2>8. k \in Nat
    BY DEF k
  <2> QED
    BY <2>1, <2>5, <2>7, <2>8 DEF Some
<1>14. ASSUME NEW run \in Runs(q), NEW row \in Satisfying(t, run, run.where) \ ToSet(answer)
       PROVE  k <= Cardinality({other \in Satisfying(t, run, Pushed(run)) \ {row} :
                                   other.distance <= row.distance})
  <2> DEFINE Others == {other \in Satisfying(t, run, Pushed(run)) \ {row} : other.distance <= row.distance}
             list == part(run)
             h == [i \in 1..k |-> Columns(t, list[i])]
  <2>1. PICK r \in DOMAIN t.rowids : row = RowFor(t, q, r)
    BY <1>3, EverythingIsRows DEF Satisfying
  <2>2. \A c \in run.where : Satisfies(RowFor(t, q, r), c)
    BY <2>1 DEF Satisfying
  <2>3. r \in P(run)
    BY <1>3, <2>2 DEF P, Passes
  <2>4. ~In(Find(t, q, r), list)
    <3> SUFFICES ASSUME In(Find(t, q, r), list) PROVE FALSE
      OBVIOUS
    <3>1. PICK i \in 1..Len(found) : found[i] = Find(t, q, r)
      BY <1>5 DEF In
    <3>2. Columns(t, found[i]) = RowFor(t, q, r)
      BY <3>1, FindReads
    <3>3. i \in kept
      BY <1>3, <1>10, <2>2, <3>2
    <3>4. row \in ToSet(answer)
      BY <1>7, <1>9, <2>1, <3>2, <3>3
    <3> QED
      BY <3>4
  <2>5. Len(list) = k /\ \A i \in 1..k : list[i].distance <= RowFor(t, q, r).distance
    BY <1>2, <2>3, <2>4
  <2>6. k \in Nat
    BY DEF k
  <2> HIDE DEF list
  <2>7. ASSUME NEW i \in 1..k
        PROVE  \E p \in P(run) : /\ list[i] = Find(t, q, p) /\ list[i].rowid = p
                                 /\ Columns(t, list[i]) = RowFor(t, q, p)
                                 /\ list[i].distance = RowFor(t, q, p).distance
    <3>1. In(list[i], list)
      BY <2>5 DEF In
    <3>2. PICK p \in P(run) : list[i] = Find(t, q, p)
      BY <1>2, <3>1 DEF list
    <3>3. list[i].rowid = p /\ list[i].distance = RowFor(t, q, p).distance
      BY <3>2 DEF Find
    <3>4. Columns(t, list[i]) = RowFor(t, q, p)
      BY <3>2, FindReads
    <3> QED
      BY <3>2, <3>3, <3>4
  <2>8. ASSUME NEW i \in 1..k PROVE h[i] \in Others
    <3>1. h[i] = Columns(t, list[i])
      OBVIOUS
    <3>2. PICK p \in P(run) : /\ list[i] = Find(t, q, p)
                               /\ Columns(t, list[i]) = RowFor(t, q, p)
                               /\ list[i].distance = RowFor(t, q, p).distance
      BY <2>7
    <3> HIDE DEF h
    <3>3. h[i] \in Satisfying(t, run, Pushed(run)) /\ h[i].distance <= row.distance
      BY <1>3, <1>4, <2>1, <2>5, <3>1, <3>2 DEF Satisfying
    <3>4. h[i] # row
      <4> SUFFICES ASSUME h[i] = row PROVE FALSE
        OBVIOUS
      <4>1. p = r
        BY <1>4, <2>1, <3>1, <3>2, RowForIsOwn
      <4>2. In(Find(t, q, r), list)
        BY <2>5, <3>2, <4>1 DEF In
      <4> QED
        BY <2>4, <4>2
    <3> QED
      BY <3>3, <3>4
  <2>9. h \in Injection(1..k, Others)
    <3>1. ASSUME NEW i \in 1..k, NEW j \in 1..k, i < j PROVE h[i] # h[j]
      <4>1. h[i] = Columns(t, list[i]) /\ h[j] = Columns(t, list[j])
        OBVIOUS
      <4> HIDE DEF h
      <4>2. list[i].rowid # list[j].rowid
        BY <1>2, <2>5, <3>1 DEF list, Ranked
      <4>3. PICK p \in P(run) : list[i].rowid = p /\ Columns(t, list[i]) = RowFor(t, q, p)
        BY <2>7
      <4>4. PICK u \in P(run) : list[j].rowid = u /\ Columns(t, list[j]) = RowFor(t, q, u)
        BY <2>7
      <4>5. RowFor(t, q, p).id # RowFor(t, q, u).id
        BY <1>4, <4>2, <4>3, <4>4, RowForIsOwn
      <4> QED
        BY <4>1, <4>3, <4>4, <4>5
    <3>2. h \in [1..k -> Others]
      BY <2>8
    <3> HIDE DEF h
    <3>3. ASSUME NEW i \in 1..k, NEW j \in 1..k, h[i] = h[j] PROVE i = j
      <4>1. i < j \/ j < i \/ i = j
        BY <2>6
      <4> QED
        BY <3>1, <3>3, <4>1
    <3> QED
      BY <3>2, <3>3 DEF Injection, IsInjective
  <2>10. IsFiniteSet(Others)
    <3>1. Others \subseteq Everything(t, q)
      BY <1>3 DEF Satisfying
    <3> QED
      BY <3>1, EverythingIsFinite, FS_Subset
  <2>11. Cardinality(1..k) = k
    <3>1. 1 \in Int /\ k \in Int
      BY <2>6
    <3>2. Cardinality(1..k) = IF 1 > k THEN 0 ELSE k - 1 + 1
      BY <3>1, FS_Interval
    <3> QED
      BY <2>6, <3>2
  <2> HIDE DEF h, Others
  <2>12. k <= Cardinality(Others)
    BY <2>9, <2>10, <2>11, FS_Injection
  <2> QED
    BY <2>12 DEF Others
<1> QED
  BY <1>1, <1>7, <1>11, <1>12, <1>13, <1>14 DEF AreNearest, k

(* Finitely many finds can be put in the order of their distances: each at *)
(* the place that so many are before it, ties being told by the rowid.     *)
LEMMA SomeListIsRanked ==
    ASSUME NEW S \in SUBSET Finds, IsFiniteSet(S), \A d, e \in S : d.rowid = e.rowid => d = e
    PROVE  \E s \in [1..Cardinality(S) -> S] :
               /\ ToSet(s) = S
               /\ \A i, j \in DOMAIN s : i < j => s[i].distance <= s[j].distance
<1> DEFINE Before(e) == {d \in S : d.distance < e.distance \/ (d.distance = e.distance /\ d.rowid < e.rowid)}
           n == Cardinality(S)
           place == [e \in S |-> Cardinality(Before(e))]
<1>1. \A e \in S : e.rowid \in Int /\ e.distance \in Int
  BY DEF Finds
<1>2. n \in Nat
  BY FS_CardinalityType
<1>3. ASSUME NEW e \in S
      PROVE  IsFiniteSet(Before(e)) /\ Cardinality(Before(e)) \in Nat /\ Cardinality(Before(e)) <= n
  BY FS_Subset, FS_CardinalityType
<1>4. ASSUME NEW d \in S, NEW e \in S, d \in Before(e)
      PROVE  Cardinality(Before(d)) < Cardinality(Before(e))
  <2>1. d \notin Before(d)
    BY <1>1
  <2>2. Before(d) \subseteq Before(e)
    BY <1>1, <1>4
  <2>3. Before(d) # Before(e)
    BY <1>4, <2>1
  <2> HIDE DEF Before
  <2>4. Cardinality(Before(d)) <= Cardinality(Before(e)) /\ Cardinality(Before(d)) # Cardinality(Before(e))
    BY <1>3, <2>2, <2>3, FS_Subset
  <2> QED
    BY <1>3, <2>4
<1>5. ASSUME NEW d \in S, NEW e \in S, d # e PROVE d \in Before(e) \/ e \in Before(d)
  BY <1>1, <1>5
<1>6. ASSUME NEW d \in S, NEW e \in S, d \in Before(e) PROVE d.distance <= e.distance
  BY <1>1, <1>6
<1> HIDE DEF Before
<1>7. place \in [S -> 0..n]
  BY <1>2, <1>3
<1>8. \A d, e \in S : place[d] = place[e] => d = e
  BY <1>3, <1>4, <1>5
<1>9. PICK s \in [1..n -> S] : \A i, j \in DOMAIN s : i < j => place[s[i]] < place[s[j]]
  <2> HIDE DEF n, place
  <2> QED
    BY <1>2, <1>7, <1>8, SomeListIsSorted DEF n
<1>10. ASSUME NEW i \in 1..n, NEW j \in 1..n, i < j
       PROVE  s[i] # s[j] /\ s[i] \in Before(s[j])
  <2>1. s[i] \in S /\ s[j] \in S /\ place[s[i]] < place[s[j]]
    BY <1>9, <1>10
  <2>2. Cardinality(Before(s[i])) < Cardinality(Before(s[j]))
    BY <2>1
  <2> QED
    BY <1>3, <1>4, <1>5, <2>1, <2>2
<1> HIDE DEF place
<1>11. s \in Injection(1..n, S)
  <2>1. ASSUME NEW i \in 1..n, NEW j \in 1..n, s[i] = s[j] PROVE i = j
    <3>1. i < j \/ j < i \/ i = j
      BY <1>2
    <3> QED
      BY <1>10, <2>1, <3>1
  <2> QED
    BY <1>9, <2>1 DEF Injection, IsInjective
<1>12. Cardinality(1..n) = n
  <2>1. 1 \in Int /\ n \in Int
    BY <1>2
  <2>2. Cardinality(1..n) = IF 1 > n THEN 0 ELSE n - 1 + 1
    BY <2>1, FS_Interval
  <2> QED
    BY <1>2, <2>2
<1>13. s \in Surjection(1..n, S)
  BY <1>11, <1>12, FS_Injection
<1>14. ToSet(s) = S
  BY <1>9, <1>13 DEF ToSet, Surjection
<1>15. \A i, j \in DOMAIN s : i < j => s[i].distance <= s[j].distance
  BY <1>6, <1>9, <1>10
<1> QED
  BY <1>9, <1>14, <1>15

LEMMA LimitIsNumber ==
    ASSUME NEW q, IsQuery(q), ~RejectsKnn(q)
    PROVE  K(q) \in Int
<1>1. Cardinality(q.bounds) = 1
  BY DEF RejectsKnn
<1>2. q.bounds # {}
  BY <1>1, FS_EmptySet
<1>3. (CHOOSE b \in q.bounds : TRUE) \in q.bounds
  BY <1>2
<1>4. \A b \in q.bounds : b.k \in Int
  BY DEF IsQuery
<1> QED
  BY <1>3, <1>4 DEF K

(* What one call finds.                                                    *)
LEMMA RunFinds ==
    ASSUME NEW t, Good(t), NEW q, IsQuery(q), Plan(q) = "knn", ~RejectsKnn(q),
           ~GivesUp(t, q), ~Misjudges(t, q), ~Rounds(t, q),
           NEW run \in Runs(q), ~FilterKnnFails(t, run)
    PROVE  /\ K(q) \in Nat
           /\ FindsOf(t, q, {r \in DOMAIN t.rowids : Passes(t, run, r)}, K(q), FilterKnn(t, run))
<1> DEFINE P == {r \in DOMAIN t.rowids : Passes(t, run, r)}
<1>1. /\ IsQuery(run) /\ Plan(run) = "knn" /\ Split(run) = {} /\ ~RejectsKnn(run)
      /\ K(run) = K(q) /\ ~GivesUp(t, run) /\ ~Misjudges(t, run) /\ ~Rounds(t, run)
      /\ \A r : RowFor(t, run, r) = RowFor(t, q, r)
  BY RunIs
<1>2. K(run) \in Nat
  BY <1>1, LimitIsNumber DEF FilterKnnFails
<1>3. run.vector \in Vectors
  BY <1>1 DEF FilterKnnFails, IsQuery, Plan
<1>4. FindsOf(t, run, P, K(run), FilterKnn(t, run))
  <2>1. CASE K(run) = 0
    <3>1. FilterKnn(t, run) = << >>
      BY <2>1 DEF FilterKnn
    <3>2. Ranked(<< >>) /\ Len(<< >>) = 0 /\ \A e : ~In(e, << >>)
      BY DEF Ranked, In
    <3> QED
      BY <2>1, <3>1, <3>2 DEF FindsOf
  <2>2. CASE K(run) # 0
    <3>1. Searches(t, run)
      BY <1>1, <1>3, <2>2 DEF Searches, FilterKnnFails
    <3>2. FilterKnn(t, run) = KnnChunksIter(t, run)
      BY <1>1, <2>2 DEF FilterKnn
    <3> QED
      BY <1>2, <3>1, <3>2, KnnFinds
  <2> QED
    BY <2>1, <2>2
<1>5. \A r : Find(t, run, r) = Find(t, q, r)
  BY <1>1 DEF Find
<1> HIDE DEF P
<1>6. FindsOf(t, q, P, K(q), FilterKnn(t, run))
  BY <1>1, <1>4, <1>5 DEF FindsOf
<1> QED
  BY <1>1, <1>2, <1>6 DEF P

(* What all calls find, once arranged.                                     *)
LEMMA FoundGathers ==
    ASSUME NEW t, Good(t), NEW q, Plan(q) = "knn",
           \A run \in Runs(q) :
               FindsOf(t, q, {r \in DOMAIN t.rowids : Passes(t, run, r)}, K(q), FilterKnn(t, run))
    PROVE  Gathers(t, q, Filter(t, q))
<1>1. Filter(t, q) = FilterRuns(t, q)
  BY DEF Filter
<1>2. CASE Split(q) = {}
  <2>1. Runs(q) = {q} /\ Filter(t, q) = FilterKnn(t, q)
    BY <1>1, <1>2 DEF Runs, FilterRuns
  <2>2. Ranked(FilterKnn(t, q))
    BY <2>1 DEF FindsOf
  <2> QED
    BY <2>1, <2>2 DEF Gathers, Ranked
<1>3. CASE Split(q) # {}
  <2> DEFINE S == UNION {ToSet(FilterKnn(t, run)) : run \in Runs(q)}
             n == Cardinality(S)
             All == {Find(t, q, r) : r \in DOMAIN t.rowids}
             found == Arranged(q, S)
  <2>1. \A run \in Runs(q) :
          /\ FilterKnn(t, run) \in Seq(Finds)
          /\ \A e : In(e, FilterKnn(t, run)) => e \in All
    BY DEF FindsOf, Ranked
  <2>2. \A run \in Runs(q) : \A e :
          e \in ToSet(FilterKnn(t, run)) <=> In(e, FilterKnn(t, run))
    <3> SUFFICES ASSUME NEW run \in Runs(q), NEW e
                 PROVE  e \in ToSet(FilterKnn(t, run)) <=> In(e, FilterKnn(t, run))
      OBVIOUS
    <3>1. DOMAIN FilterKnn(t, run) = 1..Len(FilterKnn(t, run))
      BY <2>1
    <3> QED
      BY <3>1 DEF ToSet, In
  <2>3. \A e : e \in S <=> \E run \in Runs(q) : In(e, FilterKnn(t, run))
    BY <2>2
  <2>4. S \in SUBSET Finds
    <3> SUFFICES ASSUME NEW run \in Runs(q), NEW e, In(e, FilterKnn(t, run)) PROVE e \in Finds
      BY <2>3
    <3> QED
      BY <2>1 DEF In
  <2>5. IsFiniteSet(S)
    <3> DEFINE h == [r \in DOMAIN t.rowids |-> Find(t, q, r)]
    <3>1. h \in Surjection(DOMAIN t.rowids, All)
      BY DEF Surjection
    <3> HIDE DEF h
    <3>2. IsFiniteSet(All)
      BY <3>1, RowsCanBeListed, FS_Surjection
    <3>3. S \subseteq All
      BY <2>1, <2>3
    <3> QED
      BY <3>2, <3>3, FS_Subset
  <2>6. \A d, e \in S : d.rowid = e.rowid => d = e
    <3> SUFFICES ASSUME NEW d \in All, NEW e \in All, d.rowid = e.rowid PROVE d = e
      BY <2>1, <2>3
    <3> QED
      BY DEF Find
  <2>7. Filter(t, q) = found
    BY <1>1, <1>3 DEF FilterRuns
  <2> HIDE DEF S, All
  <2>8. \E s \in [1..n -> S] :
          /\ ToSet(s) = S
          /\ q.order = "distance" => \A i, j \in DOMAIN s : i < j => s[i].distance <= s[j].distance
    BY <2>4, <2>5, <2>6, SomeListIsRanked
  <2>9. /\ found \in [1..n -> S] /\ ToSet(found) = S
        /\ q.order = "distance" =>
             \A i, j \in DOMAIN found : i < j => found[i].distance <= found[j].distance
    BY <2>8 DEF Arranged
  <2> HIDE DEF found
  <2>10. n \in Nat
    BY <2>5, FS_CardinalityType
  <2>11. found \in Seq(Finds) /\ Len(found) = n /\ DOMAIN found = 1..n
    <3>1. found \in [1..n -> Finds]
      BY <2>4, <2>9
    <3> HIDE DEF n
    <3> QED
      BY <2>10, <3>1
  <2>12. \A e : In(e, found) <=> \E run \in Runs(q) : In(e, FilterKnn(t, run))
    BY <2>3, <2>9, <2>11 DEF In, ToSet
  <2>13. found \in Injection(1..n, S)
    <3>1. found \in Surjection(1..n, S)
      BY <2>9, <2>11 DEF ToSet, Surjection
    <3>2. IsFiniteSet(1..n) /\ Cardinality(1..n) = n
      <4>1. 1 \in Int /\ n \in Int
        BY <2>10
      <4>2. IsFiniteSet(1..n) /\ Cardinality(1..n) = IF 1 > n THEN 0 ELSE n - 1 + 1
        BY <4>1, FS_Interval
      <4> QED
        BY <2>10, <4>2
    <3> QED
      BY <3>1, <3>2, FS_Surjection
  <2> HIDE DEF n
  <2>14. ASSUME NEW i \in 1..n, NEW j \in 1..n, i < j
         PROVE  /\ found[i].rowid # found[j].rowid
                /\ q.order = "distance" => found[i].distance <= found[j].distance
    <3>1. found[i] # found[j]
      BY <2>10, <2>13, <2>14 DEF Injection, IsInjective
    <3>2. found[i] \in S /\ found[j] \in S
      BY <2>9
    <3> QED
      BY <2>6, <2>9, <2>11, <2>14, <3>1, <3>2
  <2> QED
    BY <1>3, <2>7, <2>11, <2>12, <2>14 DEF Gathers
<1> QED
  BY <1>2, <1>3

(* The k nearest rows are found, each once and in order, for every metric, *)
(* size of chunk, limit and combination of constraints: k by each call of  *)
(* xFilter, of which there is one for each value of an "in" on the         *)
(* partition and else one.  Excepted are a query about a text that the     *)
(* target continues, one for ids that are not there, and one whose bound   *)
(* on the distance is rounded to the distance of a row.                    *)
THEOREM NearestAreFound == Spec => []KnnIsExact
<1>1. IInv => KnnIsExact
  <2> SUFFICES ASSUME IInv, NEW q \in Queries, Plan(q) = "knn", ~Rejects(q),
                      ~FilterFails(committed, q), ~GivesUp(committed, q),
                      ~Misjudges(committed, q), ~Rounds(committed, q)
               PROVE  AreNearest(committed, q, Answer(committed, q))
    BY DEF KnnIsExact
  <2>1. Good(committed)
    BY DEF IInv
  <2>2. IsQuery(q) /\ ~RejectsKnn(q)
    BY QueryAssumption DEF Plan, Rejects
  <2>3. ASSUME NEW run \in Runs(q)
        PROVE  /\ K(q) \in Nat
               /\ FindsOf(committed, q, {r \in DOMAIN committed.rowids : Passes(committed, run, r)},
                          K(q), FilterKnn(committed, run))
    <3>1. ~FilterKnnFails(committed, run)
      BY DEF FilterFails
    <3> QED
      BY <2>1, <2>2, <3>1, RunFinds
  <2>4. Gathers(committed, q, Filter(committed, q))
    BY <2>1, <2>3, FoundGathers
  <2> QED
    BY <2>1, <2>2, <2>3, <2>4, FindsAreAnswered
<1> QED
  BY <1>1, InvariantHolds, PTL

=============================================================================
