----------------------------- MODULE Vec0Proofs -----------------------------
(***************************************************************************)
(* The storage of Vec0 is sound for every table, size of chunk, width of a *)
(* view and transaction: Good tables stay Good through every statement     *)
(* that succeeds, and a transaction that fails goes back to Good ones.     *)
(* Each statement is first described field by field; what a field lemma    *)
(* says is all that the lemma on Good needs to know of the statement.      *)
(*                                                                         *)
(* And Vec0 implements VectorTable.  Of Good tables the contents are a     *)
(* function of the ids, and each statement changes them at one id only:    *)
(* a row that another statement is about keeps its slot, its blobs, its    *)
(* text and its auxiliary value, so it reads as it did.                    *)
(***************************************************************************)
EXTENDS Vec0, WellFoundedInduction, TLAPS

IsRecord(t) ==
    DOMAIN t = {"rowids", "chunks", "blobs", "texts", "aux", "lastRowid", "lastChunk"}

(* The view of a row is that of a text, and no leftover blank.             *)
ViewsAreOfTexts(t) ==
    \A r \in DOMAIN t.rowids : \E text \in Texts : ViewOf(t, r) = View(text)

Good(t) ==
    /\ IsRecord(t)
    /\ AreTables(t)
    /\ PositionsHold(t)
    /\ NothingIsLeft(t)
    /\ ViewsAreOfTexts(t)

IInv ==
    /\ Good(committed)
    /\ txn # "failed" => Good(working)
    /\ txn \in {"none", "open", "failed"}
    /\ statements \in 0..MaxStatements

-----------------------------------------------------------------------------
(* Choosing a slot.                                                        *)

(* What is true of the chunks whatever becomes of the rows.                *)
ChunksHold(t) ==
    /\ IsRecord(t)
    /\ \A c \in DOMAIN t.chunks :
         c \in 1..MaxRowid /\ t.chunks[c] \in Chunks /\ c <= t.lastChunk
    /\ \A b \in DOMAIN t.blobs : t.blobs[b] \in Blobs
    /\ t.lastChunk \in 0..MaxRowid
    /\ BlobsBelongToChunks(t)
    /\ FreeSlotsAreBlank(t)

LEMMA GoodChunksHold ==
    ASSUME NEW t, Good(t)
    PROVE  ChunksHold(t)
BY DEF Good, ChunksHold, AreTables, PositionsHold, CountersAreAhead, NothingIsLeft

LEMMA SomeNumberIsFirst ==
    ASSUME NEW S \in SUBSET Nat, S # {}
    PROVE  \E n \in S : \A m \in S : n <= m
<1> DEFINE Less == {ss \in Nat \X Nat : ss[1] < ss[2]}
<1>1. IsWellFoundedOn(Less, Nat)
  BY NatLessThanWellFounded DEF OpToRel
<1>2. \E n \in S : \A m \in S : <<m, n>> \notin Less
  <2> HIDE DEF Less
  <2> QED
    BY <1>1, WFMin
<1>3. \A n, m \in Nat : m < n => <<m, n>> \in Less
  OBVIOUS
<1> HIDE DEF Less
<1>4. PICK n \in S : \A m \in S : ~(m < n)
  BY <1>2, <1>3
<1> QED
  BY <1>4

(* A set of chunk ids has a last one: count down from the greatest.        *)
LEMMA SomeChunkIsLatest ==
    ASSUME NEW S \in SUBSET (1..MaxRowid), S # {}
    PROVE  Latest(S) \in S
<1> DEFINE Distances == {MaxRowid - c : c \in S}
<1>1. \A c \in S : c \in Nat /\ MaxRowid - c \in Nat
  BY Vec0Assumption
<1>2. Distances \in SUBSET Nat /\ Distances # {}
  BY <1>1
<1> HIDE DEF Distances
<1>3. PICK n \in Distances : \A m \in Distances : n <= m
  BY <1>2, SomeNumberIsFirst
<1>4. PICK c \in S : n = MaxRowid - c
  BY DEF Distances
<1>5. ASSUME NEW d \in S
      PROVE  d <= c
  <2>1. MaxRowid - d \in Distances
    BY DEF Distances
  <2>2. n <= MaxRowid - d
    BY <1>3, <2>1
  <2> QED
    BY <1>1, <1>4, <2>2, Vec0Assumption
<1> QED
  BY <1>5 DEF Latest

(* Where a row of this partition goes: a slot that is free and blank, of a *)
(* chunk of the partition, which is new or is as it was.                   *)
LEMMA RoomIsMade ==
    ASSUME NEW t, ChunksHold(t),
           NEW part \in Partitions \cup {Null},
           ~RejectsChunk(t, part),
           NEW u, u = WithRoom(t, part),
           NEW c, c = NextChunk(t, part),
           NEW o, o = NextOffset(t, part)
    PROVE  /\ IsRecord(u)
           /\ u.rowids = t.rowids /\ u.texts = t.texts /\ u.aux = t.aux
           /\ u.lastRowid = t.lastRowid
           /\ u.lastChunk \in 0..MaxRowid /\ t.lastChunk <= u.lastChunk
           /\ c \in 1..MaxRowid /\ c <= u.lastChunk
           /\ DOMAIN u.chunks = DOMAIN t.chunks \cup {c}
           /\ DOMAIN u.blobs = DOMAIN t.blobs \cup {c}
           /\ \A d \in DOMAIN t.chunks :
                u.chunks[d] = t.chunks[d] /\ u.blobs[d] = t.blobs[d]
           /\ u.chunks[c] \in Chunks /\ u.blobs[c] \in Blobs
           /\ u.chunks[c].part = part /\ u.blobs[c].rowid = c
           /\ c \notin DOMAIN t.chunks => u.chunks[c].valid = {}
           /\ o \in Offsets \ u.chunks[c].valid
           /\ \A p \in Offsets \ u.chunks[c].valid :
                /\ u.chunks[c].rowids[p] = 0
                /\ u.blobs[c].vectors[p] = ZeroVector
                /\ u.blobs[c].views[p] = BlankView
<1> USE Vec0Assumption
<1>1. CASE NeedsChunk(t, part)
  <2>1. /\ u = NewChunk(t, part) /\ c = t.lastChunk + 1 /\ o = 0
        /\ t.lastChunk # MaxRowid
    BY <1>1 DEF WithRoom, NextChunk, NextOffset, RejectsChunk
  <2>2. c \in 1..MaxRowid /\ c \notin DOMAIN t.chunks /\ DOMAIN t.blobs = DOMAIN t.chunks
    BY <2>1 DEF ChunksHold, BlobsBelongToChunks
  <2>3. /\ u.chunks = Put(t.chunks, c, [part |-> part, valid |-> {},
                                        rowids |-> [p \in Offsets |-> 0]])
        /\ u.blobs = Put(t.blobs, c, [rowid |-> c,
                                      vectors |-> [p \in Offsets |-> ZeroVector],
                                      views |-> [p \in Offsets |-> BlankView]])
        /\ u.lastChunk = c
        /\ u.rowids = t.rowids /\ u.texts = t.texts /\ u.aux = t.aux
        /\ u.lastRowid = t.lastRowid
        /\ IsRecord(u)
    BY <2>1 DEF NewChunk, BlobRowid, ChunksHold, IsRecord
  <2>4. /\ DOMAIN u.chunks = DOMAIN t.chunks \cup {c}
        /\ DOMAIN u.blobs = DOMAIN t.blobs \cup {c}
        /\ \A d \in DOMAIN t.chunks :
             u.chunks[d] = t.chunks[d] /\ u.blobs[d] = t.blobs[d]
        /\ u.chunks[c] = [part |-> part, valid |-> {}, rowids |-> [p \in Offsets |-> 0]]
        /\ u.blobs[c] = [rowid |-> c, vectors |-> [p \in Offsets |-> ZeroVector],
                         views |-> [p \in Offsets |-> BlankView]]
    BY <2>2, <2>3 DEF Put
  <2>5. u.chunks[c] \in Chunks /\ u.blobs[c] \in Blobs
    BY <2>2, <2>4 DEF Chunks, Blobs, Views
  <2>6. o \in Offsets
    BY <2>1 DEF Offsets
  <2>7. u.lastChunk \in 0..MaxRowid /\ t.lastChunk <= u.lastChunk /\ c <= u.lastChunk
    BY <2>1, <2>2, <2>3 DEF ChunksHold
  <2>8. /\ u.chunks[c].valid = {} /\ u.chunks[c].part = part /\ u.blobs[c].rowid = c
        /\ \A p \in Offsets :
             /\ u.chunks[c].rowids[p] = 0
             /\ u.blobs[c].vectors[p] = ZeroVector
             /\ u.blobs[c].views[p] = BlankView
    BY <2>4
  <2> QED
    BY <2>2, <2>3, <2>4, <2>5, <2>6, <2>7, <2>8
<1>2. CASE ~NeedsChunk(t, part)
  <2>1. /\ u = t /\ c = Latest(ChunksOf(t, part))
        /\ ChunksOf(t, part) # {} /\ FreeOffsets(t, c) # {}
    BY <1>2 DEF WithRoom, NextChunk, NeedsChunk
  <2>2. c \in ChunksOf(t, part)
    <3>1. ChunksOf(t, part) \in SUBSET (1..MaxRowid)
      BY DEF ChunksOf, ChunksHold
    <3> QED
      BY <2>1, <3>1, SomeChunkIsLatest
  <2>3. c \in DOMAIN t.chunks /\ t.chunks[c].part = part
    BY <2>2 DEF ChunksOf
  <2>4. o \in FreeOffsets(t, c)
    <3>1. FreeOffsets(t, c) \in SUBSET Nat
      BY DEF FreeOffsets, Offsets
    <3>2. \E p \in FreeOffsets(t, c) : \A q \in FreeOffsets(t, c) : p <= q
      BY <2>1, <3>1, SomeNumberIsFirst
    <3> QED
      BY <1>2, <3>2 DEF NextOffset
  <2> QED
    BY <2>1, <2>3, <2>4 DEF ChunksHold, BlobsBelongToChunks, FreeSlotsAreBlank, FreeOffsets
<1> QED
  BY <1>1, <1>2

-----------------------------------------------------------------------------
(* INSERT.                                                                 *)

(* The new row's rowid is new, and so is its key.                          *)
LEMMA RowidIsNew ==
    ASSUME NEW t, Good(t),
           NEW id \in Keys \cup {Null}, ~RejectsId(t, id),
           NEW r, r = NextRowid(t, id)
    PROVE  /\ r \in Rowids /\ r \notin DOMAIN t.rowids
           /\ PkIsText => id \in Ids /\ id \notin IdsIn(t)
<1> USE Vec0Assumption
<1>1. t.lastRowid \in 0..MaxRowid /\ \A q \in DOMAIN t.rowids : q \in Int /\ q <= t.lastRowid
  BY DEF Good, AreTables, PositionsHold, CountersAreAhead, Rowids
<1>2. CASE PkIsText \/ id = Null
  <2>1. r = t.lastRowid + 1 /\ t.lastRowid # MaxRowid
    BY <1>2 DEF NextRowid, RejectsId
  <2>2. r \in Rowids /\ r \notin DOMAIN t.rowids
    BY <1>1, <2>1 DEF Rowids
  <2> QED
    BY <2>2 DEF RejectsId, Keys
<1>3. CASE ~PkIsText /\ id # Null
  BY <1>3 DEF NextRowid, RejectsId, Keys
<1> QED
  BY <1>2, <1>3

(* Step 1 of an INSERT touches _rowids only.                               *)
LEMMA RowidStepFields ==
    ASSUME NEW t, Good(t),
           NEW id \in Keys \cup {Null}, ~RejectsId(t, id),
           NEW r, r = NextRowid(t, id),
           NEW s, s = InsertRowidStep(t, id)
    PROVE  /\ ChunksHold(s)
           /\ s.chunks = t.chunks /\ s.blobs = t.blobs /\ s.lastChunk = t.lastChunk
           /\ s.texts = t.texts /\ s.aux = t.aux
           /\ s.rowids = Put(t.rowids, r, [id |-> IF PkIsText THEN id ELSE Null,
                                           chunk |-> Null, offset |-> Null])
           /\ s.lastRowid \in 0..MaxRowid
           /\ t.lastRowid <= s.lastRowid /\ r <= s.lastRowid
<1> USE Vec0Assumption
<1>1. r \in Rowids /\ r \notin DOMAIN t.rowids
  BY RowidIsNew
<1>2. IsRecord(t) /\ ChunksHold(t) /\ t.lastRowid \in 0..MaxRowid
  BY GoodChunksHold DEF Good, AreTables
<1>3. /\ IsRecord(s)
      /\ s.chunks = t.chunks /\ s.blobs = t.blobs /\ s.lastChunk = t.lastChunk
      /\ s.texts = t.texts /\ s.aux = t.aux
      /\ s.rowids = Put(t.rowids, r, [id |-> IF PkIsText THEN id ELSE Null,
                                      chunk |-> Null, offset |-> Null])
      /\ s.lastRowid = IF r > t.lastRowid THEN r ELSE t.lastRowid
  BY <1>2 DEF InsertRowidStep, IsRecord
<1>4. ChunksHold(s)
  BY <1>2, <1>3 DEF ChunksHold, BlobsBelongToChunks, FreeSlotsAreBlank
<1>5. /\ s.lastRowid \in 0..MaxRowid
      /\ t.lastRowid <= s.lastRowid /\ r <= s.lastRowid
  BY <1>1, <1>2, <1>3 DEF Rowids
<1> QED
  BY <1>3, <1>4, <1>5

(* A row that is not refused is one of values of the declared types.       *)
LEMMA RowIsTyped ==
    ASSUME NEW row \in NewRows
    PROVE  /\ ~RejectsRow(row) => row.part \in Partitions \cup {Null} /\ row.vector \in Vectors
           /\ row.meta # Mistyped => row.meta \in Texts
           /\ row.aux \in Auxiliaries \cup {Null, Mistyped}
BY Vec0Assumption DEF RejectsRow

(* The text of a metadata column: its view, and beside it or not the whole.*)
LEMMA BlankIsShort == ~IsLong(BlankView)
BY Vec0Assumption DEF IsLong, BlankView

(* What an INSERT makes of every shadow table.                             *)
LEMMA InsertedFields ==
    ASSUME NEW t, Good(t),
           NEW id \in Keys \cup {Null}, NEW row \in NewRows,
           ~RejectsInsert(t, id, row),
           NEW r, r = NextRowid(t, id),
           NEW s, s = InsertRowidStep(t, id),
           NEW c, c = NextChunk(s, row.part),
           NEW o, o = NextOffset(s, row.part),
           NEW u, u = WithRoom(s, row.part),
           NEW w, w = Inserted(t, id, row)
    PROVE  /\ IsRecord(w)
           /\ DOMAIN w.rowids = DOMAIN s.rowids
           /\ w.rowids[r] = [id |-> s.rowids[r].id, chunk |-> c, offset |-> o]
           /\ \A q \in DOMAIN t.rowids : w.rowids[q] = t.rowids[q]
           /\ DOMAIN w.chunks = DOMAIN u.chunks
           /\ \A d \in DOMAIN u.chunks \ {c} : w.chunks[d] = u.chunks[d]
           /\ w.chunks[c] = [part |-> row.part, valid |-> u.chunks[c].valid \cup {o},
                             rowids |-> [u.chunks[c].rowids EXCEPT ![o] = r]]
           /\ DOMAIN w.blobs = DOMAIN u.blobs
           /\ \A d \in DOMAIN u.blobs \ {c} : w.blobs[d] = u.blobs[d]
           /\ w.blobs[c] = [rowid |-> c,
                            vectors |-> [u.blobs[c].vectors EXCEPT ![o] = row.vector],
                            views |-> [u.blobs[c].views EXCEPT ![o] = View(row.meta)]]
           /\ w.texts = IF IsLong(View(row.meta)) THEN Put(t.texts, r, row.meta) ELSE t.texts
           /\ w.aux = Put(t.aux, r, row.aux)
           /\ w.lastRowid = s.lastRowid /\ w.lastChunk = u.lastChunk
<1> DEFINE v == InsertWriteFinalStep(u, r, c, o, row.vector)
           x == WithAux(v, r, row.aux)
<1>1. ~RejectsRow(row) /\ ~RejectsId(t, id) /\ ~RejectsChunk(s, row.part)
  BY DEF RejectsInsert
<1>2. row.part \in Partitions \cup {Null} /\ row.vector \in Vectors
  BY <1>1, RowIsTyped
<1>3. /\ ChunksHold(s) /\ s.texts = t.texts /\ s.aux = t.aux
      /\ DOMAIN s.rowids = DOMAIN t.rowids \cup {r}
      /\ \A q \in DOMAIN t.rowids : s.rowids[q] = t.rowids[q]
      /\ s.rowids[r] = [id |-> IF PkIsText THEN id ELSE Null, chunk |-> Null, offset |-> Null]
      /\ r \notin DOMAIN t.rowids
  <2>1. r \notin DOMAIN t.rowids
    BY <1>1, RowidIsNew
  <2>2. ~RejectsId(t, id)
    BY <1>1
  <2>3. /\ ChunksHold(s) /\ s.texts = t.texts /\ s.aux = t.aux
        /\ s.rowids = Put(t.rowids, r, [id |-> IF PkIsText THEN id ELSE Null,
                                        chunk |-> Null, offset |-> Null])
    BY <2>2, RowidStepFields
  <2> QED
    BY <2>1, <2>3 DEF Put
<1>4. /\ IsRecord(u)
      /\ u.rowids = s.rowids /\ u.texts = s.texts /\ u.aux = s.aux
      /\ u.lastRowid = s.lastRowid
      /\ c \in DOMAIN u.chunks /\ c \in DOMAIN u.blobs
      /\ u.chunks[c] \in Chunks /\ u.blobs[c] \in Blobs
      /\ u.chunks[c].part = row.part /\ u.blobs[c].rowid = c
      /\ o \in Offsets
      /\ u.blobs[c].views[o] = BlankView
  BY <1>1, <1>2, <1>3, RoomIsMade
<1>5. /\ IsRecord(v) /\ v.texts = u.texts /\ v.aux = u.aux
      /\ v.lastRowid = u.lastRowid /\ v.lastChunk = u.lastChunk
      /\ v.rowids = [u.rowids EXCEPT ![r].chunk = c, ![r].offset = o]
      /\ v.chunks = [u.chunks EXCEPT ![c].valid = @ \cup {o}, ![c].rowids[o] = r]
      /\ v.blobs = [u.blobs EXCEPT ![c].vectors[o] = row.vector]
  BY <1>4 DEF InsertWriteFinalStep, IsRecord
<1>6. x = Described(t, id, row)
  BY DEF Described, Positioned
<1> HIDE DEF v
<1>7. /\ IsRecord(x) /\ x.texts = v.texts /\ x.aux = Put(v.aux, r, row.aux)
      /\ x.lastRowid = v.lastRowid /\ x.lastChunk = v.lastChunk
      /\ x.rowids = v.rowids /\ x.chunks = v.chunks /\ x.blobs = v.blobs
  BY <1>5 DEF WithAux, IsRecord
<1> HIDE DEF x
<1>8. /\ DOMAIN v.rowids = DOMAIN s.rowids
      /\ v.rowids[r] = [id |-> s.rowids[r].id, chunk |-> c, offset |-> o]
      /\ \A q \in DOMAIN t.rowids : v.rowids[q] = t.rowids[q]
  BY <1>3, <1>4, <1>5
<1>9. /\ DOMAIN v.chunks = DOMAIN u.chunks
      /\ \A d \in DOMAIN u.chunks \ {c} : v.chunks[d] = u.chunks[d]
      /\ v.chunks[c] = [part |-> row.part, valid |-> u.chunks[c].valid \cup {o},
                        rowids |-> [u.chunks[c].rowids EXCEPT ![o] = r]]
  <2>1. u.chunks[c] = [part |-> row.part, valid |-> u.chunks[c].valid,
                       rowids |-> u.chunks[c].rowids]
    BY <1>4 DEF Chunks
  <2>2. /\ DOMAIN v.chunks = DOMAIN u.chunks
        /\ \A d \in DOMAIN u.chunks \ {c} : v.chunks[d] = u.chunks[d]
        /\ v.chunks[c] = [u.chunks[c] EXCEPT !.valid = @ \cup {o}, !.rowids[o] = r]
    BY <1>4, <1>5
  <2>3. [u.chunks[c] EXCEPT !.valid = @ \cup {o}] =
            [part |-> row.part, valid |-> u.chunks[c].valid \cup {o},
             rowids |-> u.chunks[c].rowids]
    BY <2>1
  <2>4. v.chunks[c] = [[part |-> row.part, valid |-> u.chunks[c].valid \cup {o},
                        rowids |-> u.chunks[c].rowids] EXCEPT !.rowids[o] = r]
    BY <2>2, <2>3
  <2> QED
    BY <2>2, <2>4
<1>10. /\ DOMAIN v.blobs = DOMAIN u.blobs
       /\ \A d \in DOMAIN u.blobs \ {c} : v.blobs[d] = u.blobs[d]
       /\ v.blobs[c] = [rowid |-> c,
                        vectors |-> [u.blobs[c].vectors EXCEPT ![o] = row.vector],
                        views |-> u.blobs[c].views]
  BY <1>4, <1>5 DEF Blobs
<1>11. ChunkOf(x, r) = c /\ OffsetOf(x, r) = o
  BY <1>7, <1>8 DEF ChunkOf, OffsetOf
<1>12. w = WriteMetadataValue(x, r, c, o, row.meta, FALSE)
  BY <1>6, <1>11 DEF Inserted
<1>13. ~IsLong(x.blobs[c].views[o])
  BY <1>4, <1>7, <1>10, BlankIsShort
<1>14. /\ IsRecord(w) /\ w.aux = x.aux
       /\ w.lastRowid = x.lastRowid /\ w.lastChunk = x.lastChunk
       /\ w.rowids = x.rowids /\ w.chunks = x.chunks
       /\ w.blobs = [x.blobs EXCEPT ![c].views[o] = View(row.meta)]
       /\ w.texts = IF IsLong(View(row.meta)) THEN Put(x.texts, r, row.meta) ELSE x.texts
  BY <1>7, <1>12, <1>13 DEF WriteMetadataValue, IsRecord
<1>15. /\ DOMAIN w.blobs = DOMAIN u.blobs
       /\ \A d \in DOMAIN u.blobs \ {c} : w.blobs[d] = u.blobs[d]
       /\ w.blobs[c] = [rowid |-> c,
                        vectors |-> [u.blobs[c].vectors EXCEPT ![o] = row.vector],
                        views |-> [u.blobs[c].views EXCEPT ![o] = View(row.meta)]]
  BY <1>4, <1>7, <1>10, <1>14
<1>16. /\ w.texts = IF IsLong(View(row.meta)) THEN Put(t.texts, r, row.meta) ELSE t.texts
       /\ w.aux = Put(t.aux, r, row.aux)
       /\ w.lastRowid = s.lastRowid /\ w.lastChunk = u.lastChunk
       /\ w.rowids = v.rowids /\ w.chunks = v.chunks /\ IsRecord(w)
  BY <1>3, <1>4, <1>5, <1>7, <1>14
<1> QED
  BY <1>8, <1>9, <1>15, <1>16

(* The new row r is in slot o of chunk c, and all else is as it was.       *)
Placed(t, w, id, row, r, c, o) ==
    /\ IsRecord(w)
    /\ r \in Rowids /\ r \notin DOMAIN t.rowids
    /\ PkIsText => id \in Ids /\ id \notin IdsIn(t)
    /\ row.part \in Partitions \cup {Null} /\ row.vector \in Vectors
    /\ row.meta \in Texts /\ row.aux \in Auxiliaries \cup {Null, Mistyped}
    /\ c \in 1..MaxRowid /\ o \in Offsets
    /\ c \in DOMAIN t.chunks => o \notin t.chunks[c].valid /\ t.chunks[c].part = row.part
    /\ DOMAIN w.rowids = DOMAIN t.rowids \cup {r}
    /\ w.rowids[r] = [id |-> IF PkIsText THEN id ELSE Null, chunk |-> c, offset |-> o]
    /\ \A q \in DOMAIN t.rowids : w.rowids[q] = t.rowids[q]
    /\ DOMAIN w.chunks = DOMAIN t.chunks \cup {c}
    /\ DOMAIN w.blobs = DOMAIN t.chunks \cup {c}
    /\ \A d \in DOMAIN t.chunks \ {c} :
         w.chunks[d] = t.chunks[d] /\ w.blobs[d] = t.blobs[d]
    /\ w.chunks[c] \in Chunks /\ w.blobs[c] \in Blobs
    /\ w.chunks[c].part = row.part /\ w.blobs[c].rowid = c
    /\ o \in w.chunks[c].valid /\ w.chunks[c].rowids[o] = r
    /\ w.blobs[c].vectors[o] = row.vector /\ w.blobs[c].views[o] = View(row.meta)
    /\ \A p \in Offsets \ {o} :
         IF c \in DOMAIN t.chunks
         THEN /\ p \in w.chunks[c].valid <=> p \in t.chunks[c].valid
              /\ w.chunks[c].rowids[p] = t.chunks[c].rowids[p]
              /\ w.blobs[c].vectors[p] = t.blobs[c].vectors[p]
              /\ w.blobs[c].views[p] = t.blobs[c].views[p]
         ELSE /\ p \notin w.chunks[c].valid
              /\ w.chunks[c].rowids[p] = 0
              /\ w.blobs[c].vectors[p] = ZeroVector
              /\ w.blobs[c].views[p] = BlankView
    /\ w.texts = IF IsLong(View(row.meta)) THEN Put(t.texts, r, row.meta) ELSE t.texts
    /\ w.aux = Put(t.aux, r, row.aux)
    /\ w.lastRowid \in 0..MaxRowid /\ t.lastRowid <= w.lastRowid /\ r <= w.lastRowid
    /\ w.lastChunk \in 0..MaxRowid /\ t.lastChunk <= w.lastChunk /\ c <= w.lastChunk

LEMMA InsertedIsPlaced ==
    ASSUME NEW t, Good(t),
           NEW id \in Keys \cup {Null}, NEW row \in NewRows,
           ~RejectsInsert(t, id, row),
           NEW r, r = NextRowid(t, id),
           NEW s, s = InsertRowidStep(t, id),
           NEW c, c = NextChunk(s, row.part),
           NEW o, o = NextOffset(s, row.part),
           NEW w, w = Inserted(t, id, row)
    PROVE  Placed(t, w, id, row, r, c, o)
<1> DEFINE u == WithRoom(s, row.part)
           x == Described(t, id, row)
<1> HIDE DEF u, x
<1>1. /\ ~RejectsRow(row) /\ ~RejectsId(t, id) /\ ~RejectsChunk(s, row.part)
      /\ ~RejectsMetadata(x, r, ChunkOf(x, r), OffsetOf(x, r), row.meta, FALSE)
  BY DEF RejectsInsert, x
<1>2. row.part \in Partitions \cup {Null} /\ row.vector \in Vectors /\ row.meta \in Texts
  BY <1>1, RowIsTyped DEF RejectsMetadata
<1>3. row.aux \in Auxiliaries \cup {Null, Mistyped}
  BY RowIsTyped
<1>4. /\ r \in Rowids /\ r \notin DOMAIN t.rowids
      /\ PkIsText => id \in Ids /\ id \notin IdsIn(t)
  BY <1>1, RowidIsNew
<1>5. /\ ChunksHold(s)
      /\ s.chunks = t.chunks /\ s.blobs = t.blobs /\ s.lastChunk = t.lastChunk
      /\ s.rowids = Put(t.rowids, r, [id |-> IF PkIsText THEN id ELSE Null,
                                      chunk |-> Null, offset |-> Null])
      /\ s.lastRowid \in 0..MaxRowid
      /\ t.lastRowid <= s.lastRowid /\ r <= s.lastRowid
  BY <1>1, RowidStepFields
<1>6. /\ u.lastChunk \in 0..MaxRowid /\ t.lastChunk <= u.lastChunk
      /\ c \in 1..MaxRowid /\ c <= u.lastChunk
      /\ DOMAIN u.chunks = DOMAIN t.chunks \cup {c}
      /\ DOMAIN u.blobs = DOMAIN t.blobs \cup {c}
      /\ \A d \in DOMAIN t.chunks :
           u.chunks[d] = t.chunks[d] /\ u.blobs[d] = t.blobs[d]
      /\ u.chunks[c] \in Chunks /\ u.blobs[c] \in Blobs
      /\ u.chunks[c].part = row.part /\ u.blobs[c].rowid = c
      /\ c \notin DOMAIN t.chunks => u.chunks[c].valid = {}
      /\ o \in Offsets /\ o \notin u.chunks[c].valid
      /\ \A p \in Offsets \ u.chunks[c].valid :
           /\ u.chunks[c].rowids[p] = 0
           /\ u.blobs[c].vectors[p] = ZeroVector
           /\ u.blobs[c].views[p] = BlankView
  BY <1>1, <1>2, <1>5, RoomIsMade DEF u
<1>7. /\ IsRecord(w)
      /\ DOMAIN w.rowids = DOMAIN s.rowids
      /\ w.rowids[r] = [id |-> s.rowids[r].id, chunk |-> c, offset |-> o]
      /\ \A q \in DOMAIN t.rowids : w.rowids[q] = t.rowids[q]
      /\ DOMAIN w.chunks = DOMAIN u.chunks
      /\ \A d \in DOMAIN u.chunks \ {c} : w.chunks[d] = u.chunks[d]
      /\ w.chunks[c] = [part |-> row.part, valid |-> u.chunks[c].valid \cup {o},
                        rowids |-> [u.chunks[c].rowids EXCEPT ![o] = r]]
      /\ DOMAIN w.blobs = DOMAIN u.blobs
      /\ \A d \in DOMAIN u.blobs \ {c} : w.blobs[d] = u.blobs[d]
      /\ w.blobs[c] = [rowid |-> c,
                       vectors |-> [u.blobs[c].vectors EXCEPT ![o] = row.vector],
                       views |-> [u.blobs[c].views EXCEPT ![o] = View(row.meta)]]
      /\ w.texts = IF IsLong(View(row.meta)) THEN Put(t.texts, r, row.meta) ELSE t.texts
      /\ w.aux = Put(t.aux, r, row.aux)
      /\ w.lastRowid = s.lastRowid /\ w.lastChunk = u.lastChunk
  BY InsertedFields DEF u
<1>8. DOMAIN t.blobs = DOMAIN t.chunks
  BY DEF Good, NothingIsLeft, BlobsBelongToChunks
<1>9. /\ DOMAIN w.rowids = DOMAIN t.rowids \cup {r}
      /\ w.rowids[r] = [id |-> IF PkIsText THEN id ELSE Null, chunk |-> c, offset |-> o]
  BY <1>5, <1>7 DEF Put
<1>10. /\ DOMAIN w.chunks = DOMAIN t.chunks \cup {c}
       /\ DOMAIN w.blobs = DOMAIN t.chunks \cup {c}
       /\ \A d \in DOMAIN t.chunks \ {c} :
            w.chunks[d] = t.chunks[d] /\ w.blobs[d] = t.blobs[d]
  BY <1>6, <1>7, <1>8
<1>11. /\ u.chunks[c].rowids \in [Offsets -> Int]
       /\ u.chunks[c].valid \in SUBSET Offsets
       /\ u.blobs[c].vectors \in [Offsets -> Vectors]
       /\ u.blobs[c].views \in [Offsets -> Views]
       /\ c \in Int /\ r \in Int /\ View(row.meta) \in Views
  BY <1>2, <1>4, <1>6, Vec0Assumption DEF Chunks, Blobs, Views, Rowids
<1>12. w.chunks[c] \in Chunks
  BY <1>2, <1>6, <1>7, <1>11 DEF Chunks
<1>13. w.blobs[c] \in Blobs
  BY <1>2, <1>6, <1>7, <1>11 DEF Blobs
<1>14. /\ o \in w.chunks[c].valid /\ w.chunks[c].rowids[o] = r
       /\ w.chunks[c].part = row.part /\ w.blobs[c].rowid = c
       /\ w.blobs[c].vectors[o] = row.vector /\ w.blobs[c].views[o] = View(row.meta)
       /\ \A p \in Offsets \ {o} :
            /\ p \in w.chunks[c].valid <=> p \in u.chunks[c].valid
            /\ w.chunks[c].rowids[p] = u.chunks[c].rowids[p]
            /\ w.blobs[c].vectors[p] = u.blobs[c].vectors[p]
            /\ w.blobs[c].views[p] = u.blobs[c].views[p]
  BY <1>6, <1>7, <1>11
<1>15. \A p \in Offsets \ {o} :
         IF c \in DOMAIN t.chunks
         THEN /\ p \in w.chunks[c].valid <=> p \in t.chunks[c].valid
              /\ w.chunks[c].rowids[p] = t.chunks[c].rowids[p]
              /\ w.blobs[c].vectors[p] = t.blobs[c].vectors[p]
              /\ w.blobs[c].views[p] = t.blobs[c].views[p]
         ELSE /\ p \notin w.chunks[c].valid
              /\ w.chunks[c].rowids[p] = 0
              /\ w.blobs[c].vectors[p] = ZeroVector
              /\ w.blobs[c].views[p] = BlankView
  BY <1>6, <1>14
<1>16. c \in DOMAIN t.chunks => o \notin t.chunks[c].valid /\ t.chunks[c].part = row.part
  BY <1>6
<1> QED
  BY <1>2, <1>3, <1>4, <1>5, <1>6, <1>7, <1>9, <1>10, <1>12, <1>13, <1>14, <1>15, <1>16
  DEF Placed

(* A row's slot, and that no other row has it.                             *)
LEMMA SlotIsOwn ==
    ASSUME NEW t, Good(t), NEW q \in DOMAIN t.rowids
    PROVE  /\ q \in Rowids /\ q \in Int
           /\ ChunkOf(t, q) \in DOMAIN t.chunks /\ ChunkOf(t, q) \in DOMAIN t.blobs
           /\ OffsetOf(t, q) \in Offsets
           /\ OffsetOf(t, q) \in t.chunks[ChunkOf(t, q)].valid
           /\ t.chunks[ChunkOf(t, q)].rowids[OffsetOf(t, q)] = q
           /\ \A p \in DOMAIN t.rowids :
                ChunkOf(t, p) = ChunkOf(t, q) /\ OffsetOf(t, p) = OffsetOf(t, q) => p = q
<1>1. /\ DOMAIN t.rowids \subseteq Rowids /\ DOMAIN t.blobs = DOMAIN t.chunks
      /\ \A c \in DOMAIN t.chunks : t.chunks[c].valid \subseteq Offsets
  BY DEF Good, AreTables, NothingIsLeft, BlobsBelongToChunks, Chunks
<1>2. \A p \in DOMAIN t.rowids :
        /\ ChunkOf(t, p) \in DOMAIN t.chunks
        /\ OffsetOf(t, p) \in t.chunks[ChunkOf(t, p)].valid
        /\ t.chunks[ChunkOf(t, p)].rowids[OffsetOf(t, p)] = p
  BY DEF Good, PositionsHold, RowsHaveSlots
<1>3. q \in Int
  BY <1>1, Vec0Assumption DEF Rowids
<1> QED
  BY <1>1, <1>2, <1>3

LEMMA PlacedIsGood ==
    ASSUME NEW t, Good(t), NEW w, NEW id, NEW row, NEW r, NEW c, NEW o,
           Placed(t, w, id, row, r, c, o)
    PROVE  Good(w)
<1>1. \A q \in DOMAIN t.rowids :
        /\ q # r /\ w.rowids[q] = t.rowids[q]
        /\ ChunkOf(w, q) = ChunkOf(t, q) /\ OffsetOf(w, q) = OffsetOf(t, q)
        /\ IdOf(w, q) = IdOf(t, q)
        /\ ChunkOf(t, q) \in DOMAIN t.chunks /\ OffsetOf(t, q) \in Offsets
        /\ OffsetOf(t, q) \in t.chunks[ChunkOf(t, q)].valid
        /\ t.chunks[ChunkOf(t, q)].rowids[OffsetOf(t, q)] = q
        /\ ChunkOf(t, q) = c => OffsetOf(t, q) # o
  BY SlotIsOwn DEF Placed, ChunkOf, OffsetOf, IdOf
<1>2. ChunkOf(w, r) = c /\ OffsetOf(w, r) = o /\ IdOf(w, r) = IF PkIsText THEN id ELSE r
  BY DEF Placed, ChunkOf, OffsetOf, IdOf
<1>3. AreTables(w)
  <2>1. /\ DOMAIN w.rowids \subseteq Rowids
        /\ \A q \in DOMAIN w.rowids : w.rowids[q] \in Entries
    <3>1. w.rowids[r] \in Entries
      BY Vec0Assumption DEF Placed, Entries
    <3> QED
      BY <1>1, <3>1 DEF Placed, Good, AreTables
  <2>2. /\ \A d \in DOMAIN w.chunks : d \in 1..MaxRowid /\ w.chunks[d] \in Chunks
        /\ \A d \in DOMAIN w.blobs : w.blobs[d] \in Blobs
    BY DEF Placed, Good, AreTables, NothingIsLeft, BlobsBelongToChunks
  <2>3. /\ \A q \in DOMAIN w.texts : w.texts[q] \in Texts
        /\ \A q \in DOMAIN w.aux : w.aux[q] \in Auxiliaries \cup {Null, Mistyped}
    BY DEF Placed, Put, Good, AreTables
  <2>4. w.lastRowid \in 0..MaxRowid /\ w.lastChunk \in 0..MaxRowid
    BY DEF Placed
  <2>5. IdsIn(w) \subseteq Keys
    BY <1>1, <1>2 DEF Placed, Good, AreTables, IdsIn, Keys
  <2> QED
    BY <2>1, <2>2, <2>3, <2>4, <2>5 DEF AreTables
<1>4. \A d \in DOMAIN t.chunks, p \in Offsets :
        d # c \/ p # o =>
          /\ p \in w.chunks[d].valid <=> p \in t.chunks[d].valid
          /\ w.chunks[d].rowids[p] = t.chunks[d].rowids[p]
          /\ w.blobs[d].vectors[p] = t.blobs[d].vectors[p]
          /\ w.blobs[d].views[p] = t.blobs[d].views[p]
  BY DEF Placed
<1>5. RowsHaveSlots(w)
  BY <1>1, <1>2, <1>4 DEF Placed, RowsHaveSlots
<1>6. SlotsHaveRows(w)
  <2> SUFFICES ASSUME NEW d \in DOMAIN w.chunks, NEW p \in w.chunks[d].valid
               PROVE  LET q == w.chunks[d].rowids[p]
                      IN  q \in DOMAIN w.rowids /\ ChunkOf(w, q) = d /\ OffsetOf(w, q) = p
    BY DEF SlotsHaveRows
  <2>1. p \in Offsets
    BY <1>3 DEF AreTables, Chunks
  <2>2. CASE d = c /\ p = o
    BY <1>2, <2>2 DEF Placed
  <2>3. CASE d # c \/ p # o
    <3>1. d \in DOMAIN t.chunks /\ p \in t.chunks[d].valid
      BY <1>4, <2>1, <2>3 DEF Placed
    <3>2. w.chunks[d].rowids[p] = t.chunks[d].rowids[p]
      BY <1>4, <2>1, <2>3, <3>1
    <3>3. LET q == t.chunks[d].rowids[p]
          IN  q \in DOMAIN t.rowids /\ ChunkOf(t, q) = d /\ OffsetOf(t, q) = p
      BY <3>1 DEF Good, PositionsHold, SlotsHaveRows
    <3> QED
      BY <1>1, <3>2, <3>3 DEF Placed
  <2> QED
    BY <2>2, <2>3
<1>7. CountersAreAhead(w)
  <2>1. /\ \A q \in DOMAIN t.rowids : q \in Int /\ q <= t.lastRowid
        /\ \A d \in DOMAIN t.chunks : d \in Int /\ d <= t.lastChunk
        /\ t.lastRowid \in Int /\ t.lastChunk \in Int
    BY SlotIsOwn DEF Good, AreTables, PositionsHold, CountersAreAhead
  <2> QED
    BY <2>1 DEF Placed, CountersAreAhead
<1>8. IdsAreUnique(w)
  <2>1. \A q \in DOMAIN t.rowids : IdOf(w, q) # IdOf(w, r)
    BY <1>1, <1>2 DEF Placed, IdsIn, IdOf
  <2> QED
    BY <1>1, <2>1 DEF Placed, Good, PositionsHold, IdsAreUnique
<1>9. BlobsBelongToChunks(w) /\ ChunksAreUsed(w)
  <2>1. \A d \in DOMAIN t.chunks : t.blobs[d].rowid = d /\ t.chunks[d].valid # {}
    BY DEF Good, NothingIsLeft, BlobsBelongToChunks, ChunksAreUsed
  <2> QED
    BY <2>1 DEF Placed, BlobsBelongToChunks, ChunksAreUsed
<1>10. FreeSlotsAreBlank(w)
  BY <1>4 DEF Placed, Good, NothingIsLeft, FreeSlotsAreBlank
<1>11. AuxBelongsToRows(w)
  BY DEF Placed, Put, Good, NothingIsLeft, AuxBelongsToRows
<1>12. /\ ViewOf(w, r) = View(row.meta)
       /\ \A q \in DOMAIN t.rowids : ViewOf(w, q) = ViewOf(t, q)
  BY <1>1, <1>2, <1>4 DEF Placed, ViewOf
<1>13. TextsBelongToViews(w)
  <2>1. /\ DOMAIN t.texts = {q \in DOMAIN t.rowids : IsLong(ViewOf(t, q))}
        /\ \A q \in DOMAIN t.texts : View(t.texts[q]) = ViewOf(t, q)
    BY DEF Good, NothingIsLeft, TextsBelongToViews
  <2>2. CASE IsLong(View(row.meta))
    BY <1>1, <1>12, <2>1, <2>2 DEF Placed, Put, TextsBelongToViews
  <2>3. CASE ~IsLong(View(row.meta))
    BY <1>1, <1>12, <2>1, <2>3 DEF Placed, TextsBelongToViews
  <2> QED
    BY <2>2, <2>3
<1>14. ViewsAreOfTexts(w)
  BY <1>12 DEF Placed, Good, ViewsAreOfTexts
<1> QED
  BY <1>3, <1>5, <1>6, <1>7, <1>8, <1>9, <1>10, <1>11, <1>13, <1>14
  DEF Good, PositionsHold, NothingIsLeft, Placed

LEMMA InsertedIsGood ==
    ASSUME NEW t, Good(t),
           NEW id \in Keys \cup {Null}, NEW row \in NewRows,
           ~RejectsInsert(t, id, row)
    PROVE  Good(Inserted(t, id, row))
BY InsertedIsPlaced, PlacedIsGood

-----------------------------------------------------------------------------
(* DELETE.                                                                 *)

(* What a DELETE makes of every shadow table before it looks at the chunk. *)
LEMMA ErasedFields ==
    ASSUME NEW t, Good(t), NEW r \in DOMAIN t.rowids,
           NEW c, c = ChunkOf(t, r), NEW o, o = OffsetOf(t, r),
           NEW w, w = Erased(t, r, c, o)
    PROVE  /\ IsRecord(w)
           /\ w.rowids = Drop(t.rowids, r) /\ w.aux = Drop(t.aux, r)
           /\ w.texts = IF IsLong(ViewOf(t, r)) THEN Drop(t.texts, r) ELSE t.texts
           /\ w.lastRowid = t.lastRowid /\ w.lastChunk = t.lastChunk
           /\ DOMAIN w.chunks = DOMAIN t.chunks /\ DOMAIN w.blobs = DOMAIN t.blobs
           /\ \A d \in DOMAIN t.chunks \ {c} : w.chunks[d] = t.chunks[d]
           /\ \A d \in DOMAIN t.blobs \ {c} : w.blobs[d] = t.blobs[d]
           /\ w.chunks[c] = [part |-> t.chunks[c].part, valid |-> t.chunks[c].valid \ {o},
                             rowids |-> [t.chunks[c].rowids EXCEPT ![o] = 0]]
           /\ w.blobs[c] = [rowid |-> c,
                            vectors |-> [t.blobs[c].vectors EXCEPT ![o] = ZeroVector],
                            views |-> [t.blobs[c].views EXCEPT ![o] = BlankView]]
<1>1. /\ IsRecord(t)
      /\ c \in DOMAIN t.chunks /\ c \in DOMAIN t.blobs /\ o \in Offsets
      /\ t.chunks[c] \in Chunks /\ t.blobs[c] \in Blobs /\ t.blobs[c].rowid = c
  BY SlotIsOwn DEF Good, AreTables, NothingIsLeft, BlobsBelongToChunks
<1>2. /\ t.chunks[c] = [part |-> t.chunks[c].part, valid |-> t.chunks[c].valid,
                        rowids |-> t.chunks[c].rowids]
      /\ t.blobs[c] = [rowid |-> c, vectors |-> t.blobs[c].vectors,
                       views |-> t.blobs[c].views]
  BY <1>1 DEF Chunks, Blobs
<1> DEFINE v == ClearValidity(t, c, o)
           z == ClearRowid(v, c, o)
           a == ClearVectors(z, c, o)
           e == DeleteRowids(a, r)
           x == DeleteAux(e, r)
<1>3. w = ClearMetadata(x, r, c, o)
  BY DEF Erased, Vacated
<1>4. /\ IsRecord(v)
      /\ v.rowids = t.rowids /\ v.aux = t.aux /\ v.texts = t.texts /\ v.blobs = t.blobs
      /\ v.lastRowid = t.lastRowid /\ v.lastChunk = t.lastChunk
      /\ v.chunks = [t.chunks EXCEPT ![c].valid = @ \ {o}]
  BY <1>1 DEF ClearValidity, IsRecord
<1> HIDE DEF v
<1>5. /\ IsRecord(z)
      /\ z.rowids = v.rowids /\ z.aux = v.aux /\ z.texts = v.texts /\ z.blobs = v.blobs
      /\ z.lastRowid = v.lastRowid /\ z.lastChunk = v.lastChunk
      /\ z.chunks = [v.chunks EXCEPT ![c].rowids[o] = 0]
  BY <1>4 DEF ClearRowid, IsRecord
<1> HIDE DEF z
<1>6. /\ IsRecord(a)
      /\ a.rowids = z.rowids /\ a.aux = z.aux /\ a.texts = z.texts /\ a.chunks = z.chunks
      /\ a.lastRowid = z.lastRowid /\ a.lastChunk = z.lastChunk
      /\ a.blobs = [z.blobs EXCEPT ![c].vectors[o] = ZeroVector]
  BY <1>5 DEF ClearVectors, IsRecord
<1> HIDE DEF a
<1>7. /\ IsRecord(e)
      /\ e.rowids = Drop(a.rowids, r) /\ e.aux = a.aux /\ e.texts = a.texts
      /\ e.chunks = a.chunks /\ e.blobs = a.blobs
      /\ e.lastRowid = a.lastRowid /\ e.lastChunk = a.lastChunk
  BY <1>6 DEF DeleteRowids, IsRecord
<1> HIDE DEF e
<1>8. /\ IsRecord(x)
      /\ x.rowids = e.rowids /\ x.aux = Drop(e.aux, r) /\ x.texts = e.texts
      /\ x.chunks = e.chunks /\ x.blobs = e.blobs
      /\ x.lastRowid = e.lastRowid /\ x.lastChunk = e.lastChunk
  BY <1>7 DEF DeleteAux, IsRecord
<1> HIDE DEF x
<1>9. /\ IsRecord(w)
      /\ w.rowids = x.rowids /\ w.aux = x.aux /\ w.chunks = x.chunks
      /\ w.lastRowid = x.lastRowid /\ w.lastChunk = x.lastChunk
      /\ w.blobs = [x.blobs EXCEPT ![c].views[o] = BlankView]
      /\ w.texts = IF IsLong(x.blobs[c].views[o]) THEN Drop(x.texts, r) ELSE x.texts
  BY <1>3, <1>8 DEF ClearMetadata, IsRecord
<1>10. /\ DOMAIN w.chunks = DOMAIN t.chunks
       /\ \A d \in DOMAIN t.chunks \ {c} : w.chunks[d] = t.chunks[d]
       /\ w.chunks[c] = [part |-> t.chunks[c].part, valid |-> t.chunks[c].valid \ {o},
                         rowids |-> [t.chunks[c].rowids EXCEPT ![o] = 0]]
  <2>1. /\ DOMAIN v.chunks = DOMAIN t.chunks
        /\ \A d \in DOMAIN t.chunks \ {c} : v.chunks[d] = t.chunks[d]
        /\ v.chunks[c] = [part |-> t.chunks[c].part, valid |-> t.chunks[c].valid \ {o},
                          rowids |-> t.chunks[c].rowids]
    BY <1>1, <1>2, <1>4
  <2>2. /\ DOMAIN z.chunks = DOMAIN t.chunks
        /\ \A d \in DOMAIN t.chunks \ {c} : z.chunks[d] = t.chunks[d]
        /\ z.chunks[c] = [part |-> t.chunks[c].part, valid |-> t.chunks[c].valid \ {o},
                          rowids |-> [t.chunks[c].rowids EXCEPT ![o] = 0]]
    <3>1. /\ DOMAIN z.chunks = DOMAIN v.chunks
          /\ \A d \in DOMAIN v.chunks \ {c} : z.chunks[d] = v.chunks[d]
          /\ z.chunks[c] = [v.chunks[c] EXCEPT !.rowids[o] = 0]
      BY <1>1, <1>5, <2>1
    <3>2. [v.chunks[c] EXCEPT !.rowids[o] = 0] =
              [part |-> t.chunks[c].part, valid |-> t.chunks[c].valid \ {o},
               rowids |-> [t.chunks[c].rowids EXCEPT ![o] = 0]]
      BY <2>1
    <3> QED
      BY <2>1, <3>1, <3>2
  <2> QED
    BY <1>6, <1>7, <1>8, <1>9, <2>2
<1>11. /\ DOMAIN a.blobs = DOMAIN t.blobs
       /\ \A d \in DOMAIN t.blobs \ {c} : a.blobs[d] = t.blobs[d]
       /\ a.blobs[c] = [rowid |-> c,
                        vectors |-> [t.blobs[c].vectors EXCEPT ![o] = ZeroVector],
                        views |-> t.blobs[c].views]
  BY <1>1, <1>2, <1>4, <1>5, <1>6
<1>12. /\ DOMAIN w.blobs = DOMAIN t.blobs
       /\ \A d \in DOMAIN t.blobs \ {c} : w.blobs[d] = t.blobs[d]
       /\ w.blobs[c] = [rowid |-> c,
                        vectors |-> [t.blobs[c].vectors EXCEPT ![o] = ZeroVector],
                        views |-> [t.blobs[c].views EXCEPT ![o] = BlankView]]
  BY <1>1, <1>7, <1>8, <1>9, <1>11
<1>13. w.texts = IF IsLong(ViewOf(t, r)) THEN Drop(t.texts, r) ELSE t.texts
  BY <1>4, <1>5, <1>6, <1>7, <1>8, <1>9, <1>11 DEF ViewOf
<1> QED
  BY <1>4, <1>5, <1>6, <1>7, <1>8, <1>9, <1>10, <1>12, <1>13

(* The row r is gone, its chunk too when it was the last, and all else is  *)
(* as it was.                                                              *)
Removed(t, w, r, c, o) ==
    /\ IsRecord(w)
    /\ DOMAIN w.rowids = DOMAIN t.rowids \ {r}
    /\ \A q \in DOMAIN t.rowids \ {r} : w.rowids[q] = t.rowids[q]
    /\ DOMAIN w.aux = DOMAIN t.aux \ {r}
    /\ \A q \in DOMAIN t.aux \ {r} : w.aux[q] = t.aux[q]
    /\ DOMAIN w.texts = DOMAIN t.texts \ {r}
    /\ \A q \in DOMAIN t.texts \ {r} : w.texts[q] = t.texts[q]
    /\ w.lastRowid = t.lastRowid /\ w.lastChunk = t.lastChunk
    /\ DOMAIN w.blobs = DOMAIN w.chunks
    /\ DOMAIN w.chunks \subseteq DOMAIN t.chunks
    /\ \A d \in DOMAIN t.chunks \ {c} :
         /\ d \in DOMAIN w.chunks
         /\ w.chunks[d] = t.chunks[d] /\ w.blobs[d] = t.blobs[d]
    /\ c \in DOMAIN w.chunks <=> t.chunks[c].valid # {o}
    /\ c \in DOMAIN w.chunks =>
         /\ w.chunks[c] \in Chunks /\ w.blobs[c] \in Blobs
         /\ w.chunks[c].part = t.chunks[c].part /\ w.blobs[c].rowid = c
         /\ o \notin w.chunks[c].valid /\ w.chunks[c].rowids[o] = 0
         /\ w.blobs[c].vectors[o] = ZeroVector /\ w.blobs[c].views[o] = BlankView
         /\ \A p \in Offsets \ {o} :
              /\ p \in w.chunks[c].valid <=> p \in t.chunks[c].valid
              /\ w.chunks[c].rowids[p] = t.chunks[c].rowids[p]
              /\ w.blobs[c].vectors[p] = t.blobs[c].vectors[p]
              /\ w.blobs[c].views[p] = t.blobs[c].views[p]

LEMMA DeletedIsRemoved ==
    ASSUME NEW t, Good(t), NEW r \in DOMAIN t.rowids,
           NEW c, c = ChunkOf(t, r), NEW o, o = OffsetOf(t, r),
           NEW w, w = Deleted(t, r)
    PROVE  Removed(t, w, r, c, o)
<1> DEFINE e == Erased(t, r, c, o)
<1> HIDE DEF e
<1>1. /\ c \in DOMAIN t.chunks /\ o \in Offsets /\ o \in t.chunks[c].valid
      /\ DOMAIN t.blobs = DOMAIN t.chunks /\ \A d \in DOMAIN t.blobs : t.blobs[d].rowid = d
      /\ t.chunks[c] \in Chunks /\ t.blobs[c] \in Blobs
  BY SlotIsOwn DEF Good, AreTables, NothingIsLeft, BlobsBelongToChunks
<1>2. /\ IsRecord(e)
      /\ e.rowids = Drop(t.rowids, r) /\ e.aux = Drop(t.aux, r)
      /\ e.texts = IF IsLong(ViewOf(t, r)) THEN Drop(t.texts, r) ELSE t.texts
      /\ e.lastRowid = t.lastRowid /\ e.lastChunk = t.lastChunk
      /\ DOMAIN e.chunks = DOMAIN t.chunks /\ DOMAIN e.blobs = DOMAIN t.blobs
      /\ \A d \in DOMAIN t.chunks \ {c} : e.chunks[d] = t.chunks[d]
      /\ \A d \in DOMAIN t.blobs \ {c} : e.blobs[d] = t.blobs[d]
      /\ e.chunks[c] = [part |-> t.chunks[c].part, valid |-> t.chunks[c].valid \ {o},
                        rowids |-> [t.chunks[c].rowids EXCEPT ![o] = 0]]
      /\ e.blobs[c] = [rowid |-> c,
                       vectors |-> [t.blobs[c].vectors EXCEPT ![o] = ZeroVector],
                       views |-> [t.blobs[c].views EXCEPT ![o] = BlankView]]
  BY ErasedFields DEF e
<1>3. w = DeleteChunkIfEmpty(e, c)
  BY DEF Deleted, e
<1>4. /\ IsRecord(w)
      /\ w.rowids = e.rowids /\ w.aux = e.aux /\ w.texts = e.texts
      /\ w.lastRowid = e.lastRowid /\ w.lastChunk = e.lastChunk
      /\ e.chunks[c].valid # {} => w.chunks = e.chunks /\ w.blobs = e.blobs
      /\ e.chunks[c].valid = {} =>
           /\ w.chunks = Drop(e.chunks, c)
           /\ w.blobs = [b \in {b \in DOMAIN e.blobs : e.blobs[b].rowid # c} |-> e.blobs[b]]
  BY <1>2, <1>3 DEF DeleteChunkIfEmpty, IsRecord
<1>5. /\ DOMAIN w.rowids = DOMAIN t.rowids \ {r}
      /\ \A q \in DOMAIN t.rowids \ {r} : w.rowids[q] = t.rowids[q]
      /\ DOMAIN w.aux = DOMAIN t.aux \ {r}
      /\ \A q \in DOMAIN t.aux \ {r} : w.aux[q] = t.aux[q]
  BY <1>2, <1>4 DEF Drop
<1>6. /\ DOMAIN w.texts = DOMAIN t.texts \ {r}
      /\ \A q \in DOMAIN t.texts \ {r} : w.texts[q] = t.texts[q]
  <2>1. r \in DOMAIN t.texts <=> IsLong(ViewOf(t, r))
    BY DEF Good, NothingIsLeft, TextsBelongToViews
  <2> QED
    BY <1>2, <1>4, <2>1 DEF Drop
<1>7. \A d \in DOMAIN e.blobs : e.blobs[d].rowid = d
  BY <1>1, <1>2
<1>8. e.chunks[c].valid = {} <=> t.chunks[c].valid = {o}
  BY <1>1, <1>2
<1>9. CASE e.chunks[c].valid = {}
  <2>1. DOMAIN w.chunks = DOMAIN t.chunks \ {c} /\ DOMAIN w.blobs = DOMAIN w.chunks
    BY <1>1, <1>2, <1>4, <1>7, <1>9 DEF Drop
  <2>2. \A d \in DOMAIN t.chunks \ {c} :
          w.chunks[d] = t.chunks[d] /\ w.blobs[d] = t.blobs[d]
    BY <1>1, <1>2, <1>4, <1>7, <1>9 DEF Drop
  <2> QED
    BY <1>2, <1>4, <1>5, <1>6, <1>8, <1>9, <2>1, <2>2 DEF Removed
<1>10. CASE e.chunks[c].valid # {}
  <2>1. /\ DOMAIN w.chunks = DOMAIN t.chunks /\ DOMAIN w.blobs = DOMAIN w.chunks
        /\ \A d \in DOMAIN t.chunks \ {c} :
             w.chunks[d] = t.chunks[d] /\ w.blobs[d] = t.blobs[d]
        /\ w.chunks[c] = e.chunks[c] /\ w.blobs[c] = e.blobs[c]
    BY <1>1, <1>2, <1>4, <1>10
  <2>2. w.chunks[c] \in Chunks /\ w.blobs[c] \in Blobs
    <3>1. ZeroVector \in Vectors /\ BlankView \in Views /\ c \in Int
      BY <1>1, Vec0Assumption DEF Views, Good, AreTables
    <3> QED
      BY <1>1, <1>2, <2>1, <3>1 DEF Chunks, Blobs
  <2>3. /\ w.chunks[c].part = t.chunks[c].part /\ w.blobs[c].rowid = c
        /\ o \notin w.chunks[c].valid /\ w.chunks[c].rowids[o] = 0
        /\ w.blobs[c].vectors[o] = ZeroVector /\ w.blobs[c].views[o] = BlankView
        /\ \A p \in Offsets \ {o} :
             /\ p \in w.chunks[c].valid <=> p \in t.chunks[c].valid
             /\ w.chunks[c].rowids[p] = t.chunks[c].rowids[p]
             /\ w.blobs[c].vectors[p] = t.blobs[c].vectors[p]
             /\ w.blobs[c].views[p] = t.blobs[c].views[p]
    BY <1>1, <1>2, <2>1 DEF Chunks, Blobs
  <2> QED
    BY <1>1, <1>2, <1>4, <1>5, <1>6, <1>8, <1>10, <2>1, <2>2, <2>3 DEF Removed
<1> QED
  BY <1>9, <1>10

LEMMA RemovedIsGood ==
    ASSUME NEW t, Good(t), NEW r \in DOMAIN t.rowids,
           NEW c, c = ChunkOf(t, r), NEW o, o = OffsetOf(t, r),
           NEW w, Removed(t, w, r, c, o)
    PROVE  Good(w)
<1>1. /\ c \in DOMAIN t.chunks /\ o \in Offsets /\ o \in t.chunks[c].valid
      /\ t.chunks[c].rowids[o] = r
  BY SlotIsOwn
<1>2. \A d \in DOMAIN w.chunks, p \in Offsets :
        d # c \/ p # o =>
          /\ d \in DOMAIN t.chunks
          /\ p \in w.chunks[d].valid <=> p \in t.chunks[d].valid
          /\ w.chunks[d].rowids[p] = t.chunks[d].rowids[p]
          /\ w.blobs[d].vectors[p] = t.blobs[d].vectors[p]
          /\ w.blobs[d].views[p] = t.blobs[d].views[p]
  BY DEF Removed
<1>3. AreTables(w)
  <2>1. /\ DOMAIN w.rowids \subseteq Rowids
        /\ \A q \in DOMAIN w.rowids : w.rowids[q] \in Entries
    BY DEF Removed, Good, AreTables
  <2>2. /\ \A d \in DOMAIN w.chunks : d \in 1..MaxRowid /\ w.chunks[d] \in Chunks
        /\ \A d \in DOMAIN w.blobs : w.blobs[d] \in Blobs
    BY DEF Removed, Good, AreTables, NothingIsLeft, BlobsBelongToChunks
  <2>3. /\ \A q \in DOMAIN w.texts : w.texts[q] \in Texts
        /\ \A q \in DOMAIN w.aux : w.aux[q] \in Auxiliaries \cup {Null, Mistyped}
    BY DEF Removed, Good, AreTables
  <2>4. w.lastRowid \in 0..MaxRowid /\ w.lastChunk \in 0..MaxRowid
    BY DEF Removed, Good, AreTables
  <2>5. IdsIn(w) \subseteq Keys
    BY DEF Removed, Good, AreTables, IdsIn, IdOf
  <2> QED
    BY <2>1, <2>2, <2>3, <2>4, <2>5 DEF AreTables
<1>4. \A q \in DOMAIN w.rowids :
        /\ q \in DOMAIN t.rowids /\ q # r
        /\ ChunkOf(w, q) = ChunkOf(t, q) /\ OffsetOf(w, q) = OffsetOf(t, q)
        /\ IdOf(w, q) = IdOf(t, q)
        /\ ChunkOf(t, q) \in DOMAIN t.chunks /\ OffsetOf(t, q) \in Offsets
        /\ OffsetOf(t, q) \in t.chunks[ChunkOf(t, q)].valid
        /\ t.chunks[ChunkOf(t, q)].rowids[OffsetOf(t, q)] = q
        /\ ChunkOf(t, q) = c => OffsetOf(t, q) # o
  <2> SUFFICES ASSUME NEW q \in DOMAIN w.rowids
               PROVE  /\ q \in DOMAIN t.rowids /\ q # r
                      /\ ChunkOf(w, q) = ChunkOf(t, q) /\ OffsetOf(w, q) = OffsetOf(t, q)
                      /\ IdOf(w, q) = IdOf(t, q)
                      /\ ChunkOf(t, q) \in DOMAIN t.chunks /\ OffsetOf(t, q) \in Offsets
                      /\ OffsetOf(t, q) \in t.chunks[ChunkOf(t, q)].valid
                      /\ t.chunks[ChunkOf(t, q)].rowids[OffsetOf(t, q)] = q
                      /\ ChunkOf(t, q) = c => OffsetOf(t, q) # o
    OBVIOUS
  <2>1. q \in DOMAIN t.rowids /\ q # r /\ w.rowids[q] = t.rowids[q]
    BY DEF Removed
  <2>2. /\ ChunkOf(w, q) = ChunkOf(t, q) /\ OffsetOf(w, q) = OffsetOf(t, q)
        /\ IdOf(w, q) = IdOf(t, q)
    BY <2>1 DEF ChunkOf, OffsetOf, IdOf
  <2> QED
    BY <2>1, <2>2, SlotIsOwn
<1>5. \A q \in DOMAIN w.rowids : ChunkOf(t, q) \in DOMAIN w.chunks
  <2> SUFFICES ASSUME NEW q \in DOMAIN w.rowids, ChunkOf(t, q) = c
               PROVE  c \in DOMAIN w.chunks
    BY <1>4 DEF Removed
  <2>1. OffsetOf(t, q) \in t.chunks[c].valid /\ OffsetOf(t, q) # o
    BY <1>4
  <2> QED
    BY <2>1 DEF Removed
<1>6. RowsHaveSlots(w)
  BY <1>2, <1>4, <1>5 DEF RowsHaveSlots
<1>7. SlotsHaveRows(w)
  <2> SUFFICES ASSUME NEW d \in DOMAIN w.chunks, NEW p \in w.chunks[d].valid
               PROVE  LET q == w.chunks[d].rowids[p]
                      IN  q \in DOMAIN w.rowids /\ ChunkOf(w, q) = d /\ OffsetOf(w, q) = p
    BY DEF SlotsHaveRows
  <2>1. p \in Offsets
    BY <1>3 DEF AreTables, Chunks
  <2>2. d # c \/ p # o
    BY DEF Removed
  <2>3. /\ d \in DOMAIN t.chunks /\ p \in t.chunks[d].valid
        /\ w.chunks[d].rowids[p] = t.chunks[d].rowids[p]
    BY <1>2, <2>1, <2>2
  <2>4. LET q == t.chunks[d].rowids[p]
        IN  q \in DOMAIN t.rowids /\ ChunkOf(t, q) = d /\ OffsetOf(t, q) = p
    BY <2>3 DEF Good, PositionsHold, SlotsHaveRows
  <2>5. t.chunks[d].rowids[p] # r
    BY <2>2, <2>4
  <2> QED
    BY <1>4, <2>3, <2>4, <2>5 DEF Removed
<1>8. CountersAreAhead(w)
  BY <1>4 DEF Removed, Good, PositionsHold, CountersAreAhead
<1>9. IdsAreUnique(w)
  BY <1>4 DEF Good, PositionsHold, IdsAreUnique
<1>10. BlobsBelongToChunks(w)
  BY DEF Removed, Good, NothingIsLeft, BlobsBelongToChunks
<1>11. ChunksAreUsed(w)
  <2> SUFFICES ASSUME NEW d \in DOMAIN w.chunks
               PROVE  w.chunks[d].valid # {}
    BY DEF ChunksAreUsed
  <2>1. CASE d # c
    BY <2>1 DEF Removed, Good, NothingIsLeft, ChunksAreUsed
  <2>2. CASE d = c
    <3>1. t.chunks[c].valid # {o}
      BY <2>2 DEF Removed
    <3>2. PICK p \in t.chunks[c].valid : p # o
      BY <1>1, <3>1
    <3>3. p \in Offsets
      BY <1>1, <3>2 DEF Good, AreTables, Chunks
    <3> QED
      BY <1>2, <2>2, <3>2, <3>3
  <2> QED
    BY <2>1, <2>2
<1>12. FreeSlotsAreBlank(w)
  <2> SUFFICES ASSUME NEW d \in DOMAIN w.chunks, NEW p \in Offsets \ w.chunks[d].valid
               PROVE  /\ w.chunks[d].rowids[p] = 0
                      /\ w.blobs[d].vectors[p] = ZeroVector
                      /\ w.blobs[d].views[p] = BlankView
    BY <1>10 DEF FreeSlotsAreBlank, BlobsBelongToChunks
  <2>1. CASE d = c /\ p = o
    BY <2>1 DEF Removed
  <2>2. CASE d # c \/ p # o
    BY <1>2, <2>2 DEF Good, NothingIsLeft, FreeSlotsAreBlank
  <2> QED
    BY <2>1, <2>2
<1>13. AuxBelongsToRows(w)
  BY DEF Removed, Good, NothingIsLeft, AuxBelongsToRows
<1>14. \A q \in DOMAIN w.rowids : ViewOf(w, q) = ViewOf(t, q)
  BY <1>2, <1>4, <1>5 DEF ViewOf
<1>15. TextsBelongToViews(w)
  BY <1>4, <1>14 DEF Removed, Good, NothingIsLeft, TextsBelongToViews
<1>16. ViewsAreOfTexts(w)
  BY <1>4, <1>14 DEF Good, ViewsAreOfTexts
<1> QED
  BY <1>3, <1>6, <1>7, <1>8, <1>9, <1>10, <1>11, <1>12, <1>13, <1>15, <1>16
  DEF Good, PositionsHold, NothingIsLeft, Removed

LEMMA DeletedIsGood ==
    ASSUME NEW t, Good(t), NEW r \in DOMAIN t.rowids
    PROVE  Good(Deleted(t, r))
BY DeletedIsRemoved, RemovedIsGood

-----------------------------------------------------------------------------
(* UPDATE.                                                                 *)

(* Only what the row r, in slot o of chunk c, says is changed.             *)
Changed(t, w, r, c, o) ==
    /\ IsRecord(w)
    /\ w.rowids = t.rowids /\ w.chunks = t.chunks
    /\ w.lastRowid = t.lastRowid /\ w.lastChunk = t.lastChunk
    /\ DOMAIN w.blobs = DOMAIN t.blobs
    /\ \A d \in DOMAIN t.blobs \ {c} : w.blobs[d] = t.blobs[d]
    /\ w.blobs[c] \in Blobs /\ w.blobs[c].rowid = c
    /\ \A p \in Offsets \ {o} :
         /\ w.blobs[c].vectors[p] = t.blobs[c].vectors[p]
         /\ w.blobs[c].views[p] = t.blobs[c].views[p]
    /\ \E text \in Texts : w.blobs[c].views[o] = View(text)
    /\ DOMAIN w.aux = DOMAIN t.aux
    /\ \A q \in DOMAIN t.aux \ {r} : w.aux[q] = t.aux[q]
    /\ w.aux[r] \in Auxiliaries \cup {Null, Mistyped}
    /\ DOMAIN w.texts \ {r} = DOMAIN t.texts \ {r}
    /\ \A q \in DOMAIN t.texts \ {r} : w.texts[q] = t.texts[q]
    /\ r \in DOMAIN w.texts <=> IsLong(w.blobs[c].views[o])
    /\ r \in DOMAIN w.texts =>
         w.texts[r] \in Texts /\ View(w.texts[r]) = w.blobs[c].views[o]

(* The slot of a row of Good tables, as Changed speaks of it.              *)
LEMMA RowIsThere ==
    ASSUME NEW t, Good(t), NEW r \in DOMAIN t.rowids,
           NEW c, c = ChunkOf(t, r), NEW o, o = OffsetOf(t, r)
    PROVE  /\ IsRecord(t)
           /\ c \in DOMAIN t.blobs /\ o \in Offsets
           /\ t.blobs[c] \in Blobs /\ t.blobs[c].rowid = c
           /\ ViewOf(t, r) = t.blobs[c].views[o]
           /\ \E text \in Texts : t.blobs[c].views[o] = View(text)
           /\ r \in DOMAIN t.aux /\ t.aux[r] \in Auxiliaries \cup {Null, Mistyped}
           /\ r \in DOMAIN t.texts <=> IsLong(t.blobs[c].views[o])
           /\ r \in DOMAIN t.texts =>
                t.texts[r] \in Texts /\ View(t.texts[r]) = t.blobs[c].views[o]
<1>1. c \in DOMAIN t.blobs /\ o \in Offsets
  BY SlotIsOwn
<1>2. ViewOf(t, r) = t.blobs[c].views[o]
  BY DEF ViewOf
<1>3. \E text \in Texts : t.blobs[c].views[o] = View(text)
  BY <1>2 DEF Good, ViewsAreOfTexts
<1>4. /\ IsRecord(t) /\ t.blobs[c] \in Blobs /\ t.blobs[c].rowid = c
      /\ r \in DOMAIN t.aux /\ t.aux[r] \in Auxiliaries \cup {Null, Mistyped}
  BY <1>1 DEF Good, AreTables, NothingIsLeft, BlobsBelongToChunks, AuxBelongsToRows
<1>5. /\ r \in DOMAIN t.texts <=> IsLong(t.blobs[c].views[o])
      /\ r \in DOMAIN t.texts =>
           t.texts[r] \in Texts /\ View(t.texts[r]) = t.blobs[c].views[o]
  BY <1>2 DEF Good, AreTables, NothingIsLeft, TextsBelongToViews
<1> QED
  BY <1>1, <1>2, <1>3, <1>4, <1>5

LEMMA SameIsChanged ==
    ASSUME NEW t, Good(t), NEW r \in DOMAIN t.rowids,
           NEW c, c = ChunkOf(t, r), NEW o, o = OffsetOf(t, r)
    PROVE  Changed(t, t, r, c, o)
BY RowIsThere DEF Changed

LEMMA AuxIsChanged ==
    ASSUME NEW t, Good(t), NEW r \in DOMAIN t.rowids,
           NEW c, c = ChunkOf(t, r), NEW o, o = OffsetOf(t, r),
           NEW value \in Auxiliaries \cup {Null, NoChange, Mistyped},
           NEW w, w = UpdatedAux(t, r, value)
    PROVE  Changed(t, w, r, c, o)
<1>1. CASE value = NoChange
  BY <1>1, SameIsChanged DEF UpdatedAux
<1>2. CASE value # NoChange
  <2>1. /\ IsRecord(w)
        /\ w.rowids = t.rowids /\ w.chunks = t.chunks /\ w.blobs = t.blobs
        /\ w.texts = t.texts
        /\ w.lastRowid = t.lastRowid /\ w.lastChunk = t.lastChunk
        /\ w.aux = [q \in DOMAIN t.aux |-> IF q = r THEN value ELSE t.aux[q]]
    BY <1>2, RowIsThere DEF UpdatedAux, IsRecord
  <2> QED
    BY <1>2, <2>1, RowIsThere DEF Changed
<1> QED
  BY <1>1, <1>2

LEMMA MetadataIsChanged ==
    ASSUME NEW t, Good(t), NEW r \in DOMAIN t.rowids,
           NEW c, c = ChunkOf(t, r), NEW o, o = OffsetOf(t, r),
           NEW text \in Texts \cup {NoChange},
           NEW w, w = UpdatedMetadata(t, r, text)
    PROVE  Changed(t, w, r, c, o)
<1>1. CASE text = NoChange
  BY <1>1, SameIsChanged DEF UpdatedMetadata
<1>2. CASE text # NoChange
  <2> DEFINE view == View(text)
  <2>1. /\ IsRecord(t)
        /\ c \in DOMAIN t.blobs /\ o \in Offsets
        /\ t.blobs[c] \in Blobs /\ t.blobs[c].rowid = c
        /\ r \in DOMAIN t.aux /\ t.aux[r] \in Auxiliaries \cup {Null, Mistyped}
        /\ r \in DOMAIN t.texts <=> IsLong(t.blobs[c].views[o])
    BY RowIsThere
  <2>2. text \in Texts /\ view \in Views
    BY <1>2 DEF Views
  <2>3. w = WriteMetadataValue(t, r, c, o, text, TRUE)
    BY <1>2 DEF UpdatedMetadata
  <2> HIDE DEF view
  <2>4. /\ IsRecord(w)
        /\ w.rowids = t.rowids /\ w.chunks = t.chunks /\ w.aux = t.aux
        /\ w.lastRowid = t.lastRowid /\ w.lastChunk = t.lastChunk
        /\ w.blobs = [t.blobs EXCEPT ![c].views[o] = view]
        /\ w.texts = IF IsLong(view) THEN Put(t.texts, r, text)
                     ELSE IF IsLong(t.blobs[c].views[o]) THEN Drop(t.texts, r) ELSE t.texts
    BY <2>1, <2>3 DEF WriteMetadataValue, IsRecord, view
  <2>5. t.blobs[c] = [rowid |-> c, vectors |-> t.blobs[c].vectors,
                      views |-> t.blobs[c].views]
    BY <2>1 DEF Blobs
  <2>6. /\ DOMAIN w.blobs = DOMAIN t.blobs
        /\ \A d \in DOMAIN t.blobs \ {c} : w.blobs[d] = t.blobs[d]
        /\ w.blobs[c] = [rowid |-> c, vectors |-> t.blobs[c].vectors,
                         views |-> [t.blobs[c].views EXCEPT ![o] = view]]
    BY <2>1, <2>4, <2>5
  <2>7. t.blobs[c].views \in [Offsets -> Views] /\ t.blobs[c].vectors \in [Offsets -> Vectors]
        /\ c \in Int
    BY <2>1 DEF Blobs
  <2>8. w.blobs[c] \in Blobs
    <3>1. [t.blobs[c].views EXCEPT ![o] = view] \in [Offsets -> Views]
      BY <2>2, <2>7
    <3> QED
      BY <2>6, <2>7, <3>1 DEF Blobs
  <2>9. /\ w.blobs[c].rowid = c /\ w.blobs[c].views[o] = view
        /\ \A p \in Offsets \ {o} :
             /\ w.blobs[c].vectors[p] = t.blobs[c].vectors[p]
             /\ w.blobs[c].views[p] = t.blobs[c].views[p]
    BY <2>1, <2>6, <2>7
  <2>10. /\ DOMAIN w.texts \ {r} = DOMAIN t.texts \ {r}
         /\ \A q \in DOMAIN t.texts \ {r} : w.texts[q] = t.texts[q]
         /\ r \in DOMAIN w.texts <=> IsLong(view)
         /\ r \in DOMAIN w.texts => w.texts[r] = text
    BY <2>1, <2>4 DEF Put, Drop
  <2> QED
    BY <2>1, <2>2, <2>4, <2>6, <2>8, <2>9, <2>10 DEF Changed, view
<1> QED
  BY <1>1, <1>2

LEMMA VectorIsChanged ==
    ASSUME NEW t, Good(t), NEW r \in DOMAIN t.rowids,
           NEW c, c = ChunkOf(t, r), NEW o, o = OffsetOf(t, r),
           NEW vector \in Vectors \cup {Null, NoChange},
           NEW w, w = UpdatedVector(t, r, vector)
    PROVE  Changed(t, w, r, c, o)
<1>1. CASE vector \in {NoChange, Null}
  BY <1>1, SameIsChanged DEF UpdatedVector
<1>2. CASE vector \notin {NoChange, Null}
  <2>1. /\ IsRecord(t)
        /\ c \in DOMAIN t.blobs /\ o \in Offsets
        /\ t.blobs[c] \in Blobs /\ t.blobs[c].rowid = c
        /\ r \in DOMAIN t.aux /\ t.aux[r] \in Auxiliaries \cup {Null, Mistyped}
        /\ \E text \in Texts : t.blobs[c].views[o] = View(text)
        /\ r \in DOMAIN t.texts <=> IsLong(t.blobs[c].views[o])
        /\ r \in DOMAIN t.texts =>
             t.texts[r] \in Texts /\ View(t.texts[r]) = t.blobs[c].views[o]
    BY RowIsThere
  <2>2. w = [t EXCEPT !.blobs[c].vectors[o] = vector]
    BY <1>2 DEF UpdatedVector
  <2>3. /\ IsRecord(w)
        /\ w.rowids = t.rowids /\ w.chunks = t.chunks /\ w.aux = t.aux /\ w.texts = t.texts
        /\ w.lastRowid = t.lastRowid /\ w.lastChunk = t.lastChunk
        /\ w.blobs = [t.blobs EXCEPT ![c].vectors[o] = vector]
    BY <2>1, <2>2 DEF IsRecord
  <2>4. t.blobs[c] = [rowid |-> c, vectors |-> t.blobs[c].vectors,
                      views |-> t.blobs[c].views]
    BY <2>1 DEF Blobs
  <2>5. /\ DOMAIN w.blobs = DOMAIN t.blobs
        /\ \A d \in DOMAIN t.blobs \ {c} : w.blobs[d] = t.blobs[d]
        /\ w.blobs[c] = [rowid |-> c, vectors |-> [t.blobs[c].vectors EXCEPT ![o] = vector],
                         views |-> t.blobs[c].views]
    BY <2>1, <2>3, <2>4
  <2>6. t.blobs[c].views \in [Offsets -> Views] /\ t.blobs[c].vectors \in [Offsets -> Vectors]
        /\ c \in Int
    BY <2>1 DEF Blobs
  <2>7. w.blobs[c] \in Blobs
    <3>1. [t.blobs[c].vectors EXCEPT ![o] = vector] \in [Offsets -> Vectors]
      BY <1>2, <2>6
    <3> QED
      BY <2>5, <2>6, <3>1 DEF Blobs
  <2>8. /\ w.blobs[c].rowid = c /\ w.blobs[c].views = t.blobs[c].views
        /\ \A p \in Offsets \ {o} : w.blobs[c].vectors[p] = t.blobs[c].vectors[p]
    BY <2>1, <2>5, <2>6
  <2> QED
    BY <2>1, <2>3, <2>5, <2>7, <2>8 DEF Changed
<1> QED
  BY <1>1, <1>2

LEMMA ChangedIsGood ==
    ASSUME NEW t, Good(t), NEW r \in DOMAIN t.rowids,
           NEW c, c = ChunkOf(t, r), NEW o, o = OffsetOf(t, r),
           NEW w, Changed(t, w, r, c, o)
    PROVE  Good(w)
<1>1. AreTables(w)
  <2>1. \A d \in DOMAIN w.blobs : w.blobs[d] \in Blobs
    BY DEF Changed, Good, AreTables
  <2>2. /\ \A q \in DOMAIN w.texts : w.texts[q] \in Texts
        /\ \A q \in DOMAIN w.aux : w.aux[q] \in Auxiliaries \cup {Null, Mistyped}
    BY DEF Changed, Good, AreTables
  <2>3. IdsIn(w) \subseteq Keys
    BY DEF Changed, Good, AreTables, IdsIn, IdOf
  <2> QED
    BY <2>1, <2>2, <2>3 DEF Changed, Good, AreTables
<1>2. PositionsHold(w)
  BY DEF Changed, Good, PositionsHold, RowsHaveSlots, SlotsHaveRows, CountersAreAhead,
         IdsAreUnique, ChunkOf, OffsetOf, IdOf
<1>3. BlobsBelongToChunks(w) /\ ChunksAreUsed(w) /\ AuxBelongsToRows(w)
  BY DEF Changed, Good, NothingIsLeft, BlobsBelongToChunks, ChunksAreUsed, AuxBelongsToRows
<1>4. /\ c \in DOMAIN t.chunks /\ o \in t.chunks[c].valid
      /\ DOMAIN t.blobs = DOMAIN t.chunks
  BY SlotIsOwn DEF Good, NothingIsLeft, BlobsBelongToChunks
<1>5. FreeSlotsAreBlank(w)
  <2> SUFFICES ASSUME NEW d \in DOMAIN t.chunks, NEW p \in Offsets \ t.chunks[d].valid
               PROVE  /\ t.chunks[d].rowids[p] = 0
                      /\ w.blobs[d].vectors[p] = ZeroVector
                      /\ w.blobs[d].views[p] = BlankView
    BY DEF FreeSlotsAreBlank, Changed
  <2>1. d # c \/ p # o
    BY <1>4
  <2>2. w.blobs[d].vectors[p] = t.blobs[d].vectors[p] /\ w.blobs[d].views[p] = t.blobs[d].views[p]
    BY <1>4, <2>1 DEF Changed
  <2> QED
    BY <2>2 DEF Good, NothingIsLeft, FreeSlotsAreBlank
<1>6. /\ ViewOf(w, r) = w.blobs[c].views[o]
      /\ \A q \in DOMAIN t.rowids \ {r} : ViewOf(w, q) = ViewOf(t, q)
  <2>1. \A q \in DOMAIN t.rowids \ {r} :
          /\ ChunkOf(w, q) = ChunkOf(t, q) /\ OffsetOf(w, q) = OffsetOf(t, q)
          /\ ChunkOf(t, q) \in DOMAIN t.blobs /\ OffsetOf(t, q) \in Offsets
          /\ ChunkOf(t, q) # c \/ OffsetOf(t, q) # o
    BY SlotIsOwn DEF Changed, ChunkOf, OffsetOf
  <2> QED
    BY <2>1 DEF Changed, ViewOf, ChunkOf, OffsetOf
<1>7. TextsBelongToViews(w)
  BY <1>6 DEF Changed, Good, NothingIsLeft, TextsBelongToViews
<1>8. ViewsAreOfTexts(w)
  BY <1>6 DEF Changed, Good, ViewsAreOfTexts
<1> QED
  BY <1>1, <1>2, <1>3, <1>5, <1>7, <1>8 DEF Good, NothingIsLeft, Changed

(* An UPDATE is three of these.                                            *)
LEMMA UpdatedIsChanged ==
    ASSUME NEW t, Good(t), NEW r \in DOMAIN t.rowids,
           NEW change \in Changes, ~RejectsUpdate(t, r, change),
           NEW c, c = ChunkOf(t, r), NEW o, o = OffsetOf(t, r),
           NEW a, a = UpdatedAux(t, r, change.aux),
           NEW m, m = UpdatedMetadata(a, r, change.meta)
    PROVE  /\ Good(a) /\ Changed(t, a, r, c, o)
           /\ Good(m) /\ Changed(a, m, r, c, o)
           /\ Good(Updated(t, r, change)) /\ Changed(m, Updated(t, r, change), r, c, o)
<1>1. /\ change.aux \in Auxiliaries \cup {Null, NoChange, Mistyped}
      /\ change.meta \in Texts \cup {NoChange}
      /\ change.vector \in Vectors \cup {Null, NoChange}
  BY Vec0Assumption DEF RejectsUpdate, RejectsUpdatedMetadata, RejectsMetadata
<1>2. Changed(t, a, r, c, o) /\ Good(a)
  BY <1>1, AuxIsChanged, ChangedIsGood
<1>3. r \in DOMAIN a.rowids /\ c = ChunkOf(a, r) /\ o = OffsetOf(a, r)
  BY <1>2 DEF Changed, ChunkOf, OffsetOf
<1>4. Changed(a, m, r, c, o) /\ Good(m)
  <2>1. Changed(a, m, r, c, o)
    BY <1>1, <1>2, <1>3, MetadataIsChanged
  <2> QED
    BY <1>2, <1>3, <2>1, ChangedIsGood
<1>5. r \in DOMAIN m.rowids /\ c = ChunkOf(m, r) /\ o = OffsetOf(m, r)
  BY <1>3, <1>4 DEF Changed, ChunkOf, OffsetOf
<1>6. Updated(t, r, change) = UpdatedVector(m, r, change.vector)
  BY DEF Updated
<1>7. Changed(m, Updated(t, r, change), r, c, o)
  BY <1>1, <1>4, <1>5, <1>6, VectorIsChanged
<1> QED
  BY <1>2, <1>4, <1>5, <1>7, ChangedIsGood

-----------------------------------------------------------------------------
(* The invariant.                                                          *)

LEMMA NewTablesAreGood == Good(NewTables)
<1> DEFINE t == NewTables
<1>1. /\ IsRecord(t)
      /\ t.rowids = Nothing /\ t.chunks = Nothing /\ t.blobs = Nothing
      /\ t.texts = Nothing /\ t.aux = Nothing /\ t.lastRowid = 0 /\ t.lastChunk = 0
  BY DEF IsRecord, NewTables
<1>2. DOMAIN Nothing = {}
  BY DEF Nothing
<1> HIDE DEF t
<1>3. AreTables(t)
  BY <1>1, <1>2, Vec0Assumption DEF AreTables, IdsIn
<1>4. PositionsHold(t)
  BY <1>1, <1>2
  DEF PositionsHold, RowsHaveSlots, SlotsHaveRows, CountersAreAhead, IdsAreUnique
<1>5. NothingIsLeft(t)
  BY <1>1, <1>2
  DEF NothingIsLeft, BlobsBelongToChunks, ChunksAreUsed, FreeSlotsAreBlank,
      AuxBelongsToRows, TextsBelongToViews
<1>6. ViewsAreOfTexts(t)
  BY <1>1, <1>2 DEF ViewsAreOfTexts
<1> QED
  BY <1>1, <1>3, <1>4, <1>5, <1>6 DEF Good, t

LEMMA InitIsSafe ==
    ASSUME Init
    PROVE  IInv
BY NewTablesAreGood, Vec0Assumption DEF Init, IInv

(* A statement that succeeds leaves Good tables ...                        *)
LEMMA WriteIsSafe ==
    ASSUME IInv, NEW tables, Good(tables), Write(tables)
    PROVE  IInv'
<1>1. /\ committed' = committed /\ working' = tables /\ txn' = "open"
      /\ statements' \in 0..MaxStatements
  BY Vec0Assumption DEF Write, Writable, IInv
<1>2. Good(committed) /\ Good(tables)
  BY DEF IInv
<1>3. Good(committed') /\ Good(working')
  <2> HIDE DEF Good
  <2> QED
    BY <1>1, <1>2
<1> QED
  BY <1>1, <1>3 DEF IInv

(* ... and of one that fails nothing is asked but the committed ones.      *)
LEMMA FailIsSafe ==
    ASSUME IInv, NEW remains, Fail(remains)
    PROVE  IInv'
<1>1. committed' = committed /\ txn' = "failed" /\ statements' = statements
  BY DEF Fail
<1>2. Good(committed')
  BY <1>1 DEF IInv
<1> QED
  BY <1>1, <1>2 DEF IInv

LEMMA StepIsSafe ==
    ASSUME IInv, [Next]_vars
    PROVE  IInv'
<1>1. ASSUME NEW id \in Keys \cup {Null}, NEW row \in NewRows, Insert(id, row)
      PROVE  IInv'
  <2>1. Good(working) /\ ~RejectsInsert(working, id, row) /\ Write(Inserted(working, id, row))
    BY <1>1 DEF Insert, Write, Writable, IInv
  <2>2. Good(Inserted(working, id, row))
    BY <2>1, InsertedIsGood
  <2> QED
    BY <2>1, <2>2, WriteIsSafe
<1>2. ASSUME NEW id \in Keys \cup {Null}, NEW row \in NewRows, InsertFails(id, row)
      PROVE  IInv'
  BY <1>2, FailIsSafe DEF InsertFails
<1>3. ASSUME NEW r \in DOMAIN working.rowids, Delete(r)
      PROVE  IInv'
  <2>1. Good(working) /\ Write(Deleted(working, r))
    BY <1>3 DEF Delete, Write, Writable, IInv
  <2>2. Good(Deleted(working, r))
    BY <2>1, DeletedIsGood
  <2> QED
    BY <2>1, <2>2, WriteIsSafe
<1>4. ASSUME NEW r \in DOMAIN working.rowids, DeleteFails(r)
      PROVE  IInv'
  BY <1>4, FailIsSafe DEF DeleteFails
<1>5. ASSUME NEW r \in DOMAIN working.rowids, NEW change \in Changes, Update(r, change)
      PROVE  IInv'
  <2>1. /\ Good(working) /\ ~RejectsUpdate(working, r, change)
        /\ Write(Updated(working, r, change))
    BY <1>5 DEF Update, Write, Writable, IInv
  <2>2. Good(Updated(working, r, change))
    BY <2>1, UpdatedIsChanged
  <2> QED
    BY <2>1, <2>2, WriteIsSafe
<1>6. ASSUME NEW r \in DOMAIN working.rowids, NEW change \in Changes, UpdateFails(r, change)
      PROVE  IInv'
  BY <1>6, FailIsSafe DEF UpdateFails
<1>7. CASE Recreate
  BY <1>7, NewTablesAreGood, WriteIsSafe DEF Recreate
<1>8. CASE Commit
  <2>1. /\ txn = "open" /\ committed' = working /\ working' = working
        /\ txn' = "none" /\ statements' = 0
    BY <1>8 DEF Commit
  <2>2. Good(working)
    BY <2>1 DEF IInv
  <2>3. Good(committed') /\ Good(working')
    BY <2>1, <2>2
  <2> QED
    BY <2>1, <2>3, Vec0Assumption DEF IInv
<1>9. CASE Rollback
  <2>1. working' = committed /\ committed' = committed /\ txn' = "none" /\ statements' = 0
    BY <1>9 DEF Rollback
  <2>2. Good(committed)
    BY DEF IInv
  <2>3. Good(committed') /\ Good(working')
    BY <2>1, <2>2
  <2> QED
    BY <2>1, <2>3, Vec0Assumption DEF IInv
<1>10. CASE UNCHANGED vars
  <2>1. committed' = committed /\ working' = working /\ txn' = txn /\ statements' = statements
    BY <1>10 DEF vars
  <2>2. Good(committed') /\ (txn' # "failed" => Good(working'))
    BY <2>1 DEF IInv
  <2> QED
    BY <2>1, <2>2 DEF IInv
<1> QED
  BY <1>1, <1>2, <1>3, <1>4, <1>5, <1>6, <1>7, <1>8, <1>9, <1>10
  DEF Next, Inserting, Deleting, Updating

(* Good tables, committed and in the transaction, are an invariant.        *)
THEOREM InvariantHolds == Spec => []IInv
<1>1. Init => IInv
  BY InitIsSafe
<1>2. IInv /\ [Next]_vars => IInv'
  BY StepIsSafe
<1> QED
  BY <1>1, <1>2, PTL DEF Spec

(* The shadow tables always have the columns xCreate declares: no          *)
(* statement writes a rowid past SQLite's last, an offset past the chunk,  *)
(* or a value of another type than its column's.                           *)
THEOREM TypeCorrect == Spec => []TypeOK
<1>1. IInv => TypeOK
  BY DEF IInv, Good, TypeOK
<1> QED
  BY <1>1, InvariantHolds, PTL

(* _rowids and the chunks always name each other, row for slot, and no     *)
(* rowid, chunk id or key is ever given twice.                             *)
THEOREM PositionsAlwaysAgree == Spec => []PositionsAgree
<1>1. IInv => PositionsAgree
  BY DEF IInv, Good, PositionsAgree
<1> QED
  BY <1>1, InvariantHolds, PTL

(* No deleted row ever leaves anything in any shadow table.                *)
THEOREM NothingIsEverLeft == Spec => []DeletesLeaveNothing
<1>1. IInv => DeletesLeaveNothing
  BY DEF IInv, Good, DeletesLeaveNothing
<1> QED
  BY <1>1, InvariantHolds, PTL

-----------------------------------------------------------------------------
(* Reading Good tables.                                                    *)

LEMMA RowOfItsId ==
    ASSUME NEW t, Good(t), NEW r \in DOMAIN t.rowids
    PROVE  RowidFromId(t, IdOf(t, r)) = r
BY DEF RowidFromId, Good, PositionsHold, IdsAreUnique

LEMMA ContentsAtId ==
    ASSUME NEW t, Good(t), NEW r \in DOMAIN t.rowids
    PROVE  /\ IdOf(t, r) \in DOMAIN Contents(t) /\ IdOf(t, r) \in Keys
           /\ Contents(t)[IdOf(t, r)] = RowAt(t, r)
<1>1. IdOf(t, r) \in IdsIn(t)
  BY DEF IdsIn
<1>2. IdOf(t, r) \in Keys
  BY <1>1 DEF Good, AreTables
<1>3. DOMAIN Contents(t) = IdsIn(t)
  BY DEF Contents
<1>4. Contents(t)[IdOf(t, r)] = RowAt(t, RowidFromId(t, IdOf(t, r)))
  BY <1>1 DEF Contents
<1> QED
  BY <1>1, <1>2, <1>3, <1>4, RowOfItsId

(* A text that is not long is its own view.                                *)
LEMMA ShortTextIsItsView ==
    ASSUME NEW text \in Texts, ~IsLong(View(text))
    PROVE  View(text).prefix = text
<1>1. Len(text) \in Nat /\ ViewLen \in Nat
  BY Vec0Assumption
<1>2. Len(text) <= ViewLen
  BY <1>1 DEF IsLong, View
<1> QED
  BY <1>2 DEF View

LEMMA MetadataIsText ==
    ASSUME NEW t, Good(t), NEW r \in DOMAIN t.rowids
    PROVE  MetadataValue(t, r) \in Texts
<1>1. PICK text \in Texts : ViewOf(t, r) = View(text)
  BY DEF Good, ViewsAreOfTexts
<1>2. CASE IsLong(ViewOf(t, r))
  BY <1>2 DEF MetadataValue, Good, AreTables, NothingIsLeft, TextsBelongToViews
<1>3. CASE ~IsLong(ViewOf(t, r))
  BY <1>1, <1>3, ShortTextIsItsView DEF MetadataValue
<1> QED
  BY <1>2, <1>3

LEMMA RowAtIsRow ==
    ASSUME NEW t, Good(t), NEW r \in DOMAIN t.rowids
    PROVE  RowAt(t, r) \in Rows
<1>1. /\ ChunkOf(t, r) \in DOMAIN t.chunks /\ ChunkOf(t, r) \in DOMAIN t.blobs
      /\ OffsetOf(t, r) \in Offsets
  BY SlotIsOwn
<1>2. PartitionValue(t, r) \in Partitions \cup {Null}
  BY <1>1 DEF PartitionValue, Good, AreTables, Chunks
<1>3. VectorData(t, r) \in Vectors
  BY <1>1 DEF VectorData, Good, AreTables, Blobs
<1>4. t.aux[r] \in Auxiliaries \cup {Null, Mistyped}
  BY DEF Good, AreTables, NothingIsLeft, AuxBelongsToRows
<1> QED
  BY <1>2, <1>3, <1>4, MetadataIsText DEF RowAt, Rows

(* The contents, but for what is at one id, are those of the rows that do  *)
(* not have it.                                                            *)
LEMMA OthersAreKept ==
    ASSUME NEW t, Good(t), NEW w, Good(w), NEW id,
           \A q \in DOMAIN t.rowids : IdOf(t, q) # id =>
             q \in DOMAIN w.rowids /\ IdOf(w, q) = IdOf(t, q) /\ RowAt(w, q) = RowAt(t, q),
           \A q \in DOMAIN w.rowids : IdOf(w, q) # id =>
             q \in DOMAIN t.rowids /\ IdOf(w, q) = IdOf(t, q)
    PROVE  Table!Without(Contents(w), id) = Table!Without(Contents(t), id)
<1>1. DOMAIN Contents(t) = IdsIn(t) /\ DOMAIN Contents(w) = IdsIn(w)
  BY DEF Contents
<1>2. IdsIn(w) \ {id} = IdsIn(t) \ {id}
  BY DEF IdsIn
<1>3. ASSUME NEW i \in IdsIn(t) \ {id}
      PROVE  Contents(w)[i] = Contents(t)[i]
  <2>1. PICK q \in DOMAIN t.rowids : i = IdOf(t, q)
    BY DEF IdsIn
  <2>2. q \in DOMAIN w.rowids /\ IdOf(w, q) = i /\ RowAt(w, q) = RowAt(t, q)
    BY <2>1
  <2>3. Contents(t)[i] = RowAt(t, q)
    BY <2>1, ContentsAtId
  <2>4. Contents(w)[i] = RowAt(w, q)
    BY <2>2, ContentsAtId
  <2> QED
    BY <2>2, <2>3, <2>4
<1> QED
  BY <1>1, <1>2, <1>3 DEF Table!Without

-----------------------------------------------------------------------------
(* What each statement does to the row it is about, and to the others.     *)

LEMMA PlacedReads ==
    ASSUME NEW t, Good(t), NEW w, NEW id, NEW row, NEW r, NEW c, NEW o,
           Placed(t, w, id, row, r, c, o)
    PROVE  /\ RowAt(w, r) = [part |-> row.part, vector |-> row.vector,
                             meta |-> row.meta, aux |-> row.aux]
           /\ \A q \in DOMAIN t.rowids :
                IdOf(w, q) = IdOf(t, q) /\ RowAt(w, q) = RowAt(t, q)
<1>1. ChunkOf(w, r) = c /\ OffsetOf(w, r) = o
  BY DEF Placed, ChunkOf, OffsetOf
<1>2. ViewOf(w, r) = View(row.meta)
  BY <1>1 DEF Placed, ViewOf
<1>3. MetadataValue(w, r) = row.meta
  <2>1. row.meta \in Texts
    BY DEF Placed
  <2>2. IsLong(View(row.meta)) => w.texts[r] = row.meta
    BY DEF Placed, Put
  <2> QED
    BY <1>2, <2>1, <2>2, ShortTextIsItsView DEF MetadataValue
<1>4. /\ PartitionValue(w, r) = row.part /\ VectorData(w, r) = row.vector
      /\ w.aux[r] = row.aux
  BY <1>1 DEF Placed, PartitionValue, VectorData, Put
<1>5. RowAt(w, r) = [part |-> row.part, vector |-> row.vector,
                     meta |-> row.meta, aux |-> row.aux]
  BY <1>3, <1>4 DEF RowAt
<1>6. ASSUME NEW q \in DOMAIN t.rowids
      PROVE  IdOf(w, q) = IdOf(t, q) /\ RowAt(w, q) = RowAt(t, q)
  <2> DEFINE d == ChunkOf(t, q)
             p == OffsetOf(t, q)
  <2>1. /\ d \in DOMAIN t.chunks /\ p \in Offsets /\ p \in t.chunks[d].valid
        /\ q \in DOMAIN t.aux
        /\ q \in DOMAIN t.texts <=> IsLong(ViewOf(t, q))
    BY SlotIsOwn DEF Good, NothingIsLeft, AuxBelongsToRows, TextsBelongToViews
  <2>2. q # r /\ w.rowids[q] = t.rowids[q]
    BY DEF Placed
  <2>3. ChunkOf(w, q) = d /\ OffsetOf(w, q) = p /\ IdOf(w, q) = IdOf(t, q)
    BY <2>2 DEF ChunkOf, OffsetOf, IdOf
  <2> HIDE DEF d, p
  <2>4. d # c \/ p # o
    BY <2>1 DEF Placed
  <2>5. /\ w.chunks[d].part = t.chunks[d].part
        /\ w.blobs[d].vectors[p] = t.blobs[d].vectors[p]
        /\ w.blobs[d].views[p] = t.blobs[d].views[p]
    BY <2>1, <2>4 DEF Placed
  <2>6. /\ PartitionValue(w, q) = PartitionValue(t, q)
        /\ VectorData(w, q) = VectorData(t, q)
        /\ ViewOf(w, q) = ViewOf(t, q)
    BY <2>3, <2>5 DEF PartitionValue, VectorData, ViewOf, d, p
  <2>7. w.aux[q] = t.aux[q]
    BY <2>1, <2>2 DEF Placed, Put
  <2>8. IsLong(ViewOf(t, q)) => w.texts[q] = t.texts[q]
    BY <2>1, <2>2 DEF Placed, Put
  <2> QED
    BY <2>3, <2>6, <2>7, <2>8 DEF RowAt, MetadataValue
<1> QED
  BY <1>5, <1>6

LEMMA RemovedReads ==
    ASSUME NEW t, Good(t), NEW r \in DOMAIN t.rowids,
           NEW c, c = ChunkOf(t, r), NEW o, o = OffsetOf(t, r),
           NEW w, Removed(t, w, r, c, o)
    PROVE  \A q \in DOMAIN t.rowids \ {r} :
             IdOf(w, q) = IdOf(t, q) /\ RowAt(w, q) = RowAt(t, q)
<1> SUFFICES ASSUME NEW q \in DOMAIN t.rowids \ {r}
             PROVE  IdOf(w, q) = IdOf(t, q) /\ RowAt(w, q) = RowAt(t, q)
  OBVIOUS
<1> DEFINE d == ChunkOf(t, q)
           p == OffsetOf(t, q)
<1>1. /\ d \in DOMAIN t.chunks /\ p \in Offsets /\ p \in t.chunks[d].valid
      /\ q \in DOMAIN t.aux
      /\ q \in DOMAIN t.texts <=> IsLong(ViewOf(t, q))
  BY SlotIsOwn DEF Good, NothingIsLeft, AuxBelongsToRows, TextsBelongToViews
<1>2. w.rowids[q] = t.rowids[q]
  BY DEF Removed
<1>3. ChunkOf(w, q) = d /\ OffsetOf(w, q) = p /\ IdOf(w, q) = IdOf(t, q)
  BY <1>2 DEF ChunkOf, OffsetOf, IdOf
<1>4. d # c \/ p # o
  BY SlotIsOwn
<1> HIDE DEF d, p
<1>5. d \in DOMAIN w.chunks
  BY <1>1, <1>4 DEF Removed
<1>6. /\ w.chunks[d].part = t.chunks[d].part
      /\ w.blobs[d].vectors[p] = t.blobs[d].vectors[p]
      /\ w.blobs[d].views[p] = t.blobs[d].views[p]
  BY <1>1, <1>4, <1>5 DEF Removed
<1>7. /\ PartitionValue(w, q) = PartitionValue(t, q)
      /\ VectorData(w, q) = VectorData(t, q)
      /\ ViewOf(w, q) = ViewOf(t, q)
  BY <1>3, <1>6 DEF PartitionValue, VectorData, ViewOf, d, p
<1>8. w.aux[q] = t.aux[q] /\ (IsLong(ViewOf(t, q)) => w.texts[q] = t.texts[q])
  BY <1>1 DEF Removed
<1> QED
  BY <1>3, <1>7, <1>8 DEF RowAt, MetadataValue

LEMMA ChangedReads ==
    ASSUME NEW t, Good(t), NEW r \in DOMAIN t.rowids,
           NEW c, c = ChunkOf(t, r), NEW o, o = OffsetOf(t, r),
           NEW w, Changed(t, w, r, c, o)
    PROVE  /\ DOMAIN w.rowids = DOMAIN t.rowids
           /\ PartitionValue(w, r) = PartitionValue(t, r)
           /\ \A q \in DOMAIN t.rowids : IdOf(w, q) = IdOf(t, q)
           /\ \A q \in DOMAIN t.rowids \ {r} : RowAt(w, q) = RowAt(t, q)
<1>1. \A q \in DOMAIN t.rowids :
        /\ ChunkOf(w, q) = ChunkOf(t, q) /\ OffsetOf(w, q) = OffsetOf(t, q)
        /\ IdOf(w, q) = IdOf(t, q) /\ PartitionValue(w, q) = PartitionValue(t, q)
  BY DEF Changed, ChunkOf, OffsetOf, IdOf, PartitionValue
<1>2. ASSUME NEW q \in DOMAIN t.rowids \ {r}
      PROVE  RowAt(w, q) = RowAt(t, q)
  <2> DEFINE d == ChunkOf(t, q)
             p == OffsetOf(t, q)
  <2>1. /\ d \in DOMAIN t.blobs /\ p \in Offsets
        /\ q \in DOMAIN t.aux
        /\ q \in DOMAIN t.texts <=> IsLong(ViewOf(t, q))
    BY SlotIsOwn DEF Good, NothingIsLeft, AuxBelongsToRows, TextsBelongToViews
  <2>2. d # c \/ p # o
    BY SlotIsOwn
  <2>3. ChunkOf(w, q) = d /\ OffsetOf(w, q) = p
    BY <1>1
  <2> HIDE DEF d, p
  <2>4. /\ w.blobs[d].vectors[p] = t.blobs[d].vectors[p]
        /\ w.blobs[d].views[p] = t.blobs[d].views[p]
    BY <2>1, <2>2 DEF Changed
  <2>5. VectorData(w, q) = VectorData(t, q) /\ ViewOf(w, q) = ViewOf(t, q)
    BY <2>3, <2>4 DEF VectorData, ViewOf, d, p
  <2>6. w.aux[q] = t.aux[q] /\ (IsLong(ViewOf(t, q)) => w.texts[q] = t.texts[q])
    BY <2>1 DEF Changed
  <2> QED
    BY <1>1, <2>5, <2>6 DEF RowAt, MetadataValue
<1> QED
  BY <1>1, <1>2 DEF Changed

(* What is inserted is what is read: the row found under the new row's     *)
(* rowid has the partition, vector, text and auxiliary value the INSERT    *)
(* gave, whichever slot and side tables they went to.                      *)
THEOREM InsertedIsRead ==
    ASSUME NEW t, Good(t),
           NEW id \in Keys \cup {Null}, NEW row \in NewRows,
           ~RejectsInsert(t, id, row)
    PROVE  RowAt(Inserted(t, id, row), NextRowid(t, id)) =
               [part |-> row.part, vector |-> row.vector, meta |-> row.meta, aux |-> row.aux]
BY InsertedIsPlaced, PlacedReads

LEMMA AuxIsRead ==
    ASSUME NEW t, Good(t), NEW r \in DOMAIN t.rowids,
           NEW value, NEW w, w = UpdatedAux(t, r, value)
    PROVE  /\ VectorData(w, r) = VectorData(t, r) /\ MetadataValue(w, r) = MetadataValue(t, r)
           /\ w.aux[r] = IF value = NoChange THEN t.aux[r] ELSE value
<1>1. IsRecord(t) /\ r \in DOMAIN t.aux
  BY RowIsThere
<1>2. /\ w.rowids = t.rowids /\ w.blobs = t.blobs /\ w.texts = t.texts
      /\ w.aux[r] = IF value = NoChange THEN t.aux[r] ELSE value
  BY <1>1 DEF UpdatedAux, IsRecord
<1>3. ChunkOf(w, r) = ChunkOf(t, r) /\ OffsetOf(w, r) = OffsetOf(t, r)
  BY <1>2 DEF ChunkOf, OffsetOf
<1> QED
  BY <1>2, <1>3 DEF VectorData, MetadataValue, ViewOf

LEMMA MetadataIsRead ==
    ASSUME NEW t, Good(t), NEW r \in DOMAIN t.rowids,
           NEW text \in Texts \cup {NoChange}, NEW w, w = UpdatedMetadata(t, r, text)
    PROVE  /\ VectorData(w, r) = VectorData(t, r) /\ w.aux = t.aux
           /\ MetadataValue(w, r) = IF text = NoChange THEN MetadataValue(t, r) ELSE text
<1>1. CASE text = NoChange
  BY <1>1 DEF UpdatedMetadata
<1>2. CASE text # NoChange
  <2> DEFINE c == ChunkOf(t, r)
             o == OffsetOf(t, r)
             view == View(text)
  <2>1. /\ IsRecord(t)
        /\ c \in DOMAIN t.blobs /\ o \in Offsets /\ t.blobs[c] \in Blobs
        /\ r \in DOMAIN t.texts <=> IsLong(t.blobs[c].views[o])
    BY RowIsThere
  <2>2. w = WriteMetadataValue(t, r, c, o, text, TRUE)
    BY <1>2 DEF UpdatedMetadata
  <2>3. text \in Texts
    BY <1>2
  <2>4. VectorData(t, r) = t.blobs[c].vectors[o]
    BY DEF VectorData
  <2>5. ChunkOf(t, r) = c /\ OffsetOf(t, r) = o
    OBVIOUS
  <2> HIDE DEF view, c, o
  <2>6. /\ w.rowids = t.rowids /\ w.aux = t.aux
        /\ w.blobs = [t.blobs EXCEPT ![c].views[o] = view]
        /\ w.texts = IF IsLong(view) THEN Put(t.texts, r, text)
                     ELSE IF IsLong(t.blobs[c].views[o]) THEN Drop(t.texts, r) ELSE t.texts
    BY <2>1, <2>2 DEF WriteMetadataValue, IsRecord, view
  <2>7. t.blobs[c] = [rowid |-> t.blobs[c].rowid, vectors |-> t.blobs[c].vectors,
                      views |-> t.blobs[c].views]
        /\ t.blobs[c].views \in [Offsets -> Views]
    BY <2>1 DEF Blobs
  <2>8. w.blobs[c] = [rowid |-> t.blobs[c].rowid, vectors |-> t.blobs[c].vectors,
                      views |-> [t.blobs[c].views EXCEPT ![o] = view]]
    BY <2>1, <2>6, <2>7
  <2>9. w.blobs[c].vectors = t.blobs[c].vectors /\ w.blobs[c].views[o] = view
    BY <2>1, <2>7, <2>8
  <2>10. ChunkOf(w, r) = c /\ OffsetOf(w, r) = o
    BY <2>5, <2>6 DEF ChunkOf, OffsetOf
  <2>11. VectorData(w, r) = VectorData(t, r) /\ ViewOf(w, r) = view
    BY <2>4, <2>9, <2>10 DEF VectorData, ViewOf
  <2>12. IsLong(view) => w.texts[r] = text
    BY <2>6 DEF Put
  <2>13. ~IsLong(view) => view.prefix = text
    BY <2>3, ShortTextIsItsView DEF view
  <2> QED
    BY <1>2, <2>6, <2>11, <2>12, <2>13 DEF MetadataValue
<1> QED
  BY <1>1, <1>2

LEMMA VectorIsRead ==
    ASSUME NEW t, Good(t), NEW r \in DOMAIN t.rowids,
           NEW vector, NEW w, w = UpdatedVector(t, r, vector)
    PROVE  /\ MetadataValue(w, r) = MetadataValue(t, r) /\ w.aux = t.aux
           /\ VectorData(w, r) =
                IF vector \in {NoChange, Null} THEN VectorData(t, r) ELSE vector
<1>1. CASE vector \in {NoChange, Null}
  BY <1>1 DEF UpdatedVector
<1>2. CASE vector \notin {NoChange, Null}
  <2> DEFINE c == ChunkOf(t, r)
             o == OffsetOf(t, r)
  <2>1. /\ IsRecord(t)
        /\ c \in DOMAIN t.blobs /\ o \in Offsets /\ t.blobs[c] \in Blobs
        /\ ViewOf(t, r) = t.blobs[c].views[o]
    BY RowIsThere
  <2>2. w = [t EXCEPT !.blobs[c].vectors[o] = vector]
    BY <1>2 DEF UpdatedVector
  <2>3. ChunkOf(t, r) = c /\ OffsetOf(t, r) = o
    OBVIOUS
  <2> HIDE DEF c, o
  <2>4. /\ w.rowids = t.rowids /\ w.aux = t.aux /\ w.texts = t.texts
        /\ w.blobs = [t.blobs EXCEPT ![c].vectors[o] = vector]
    BY <2>1, <2>2 DEF IsRecord
  <2>5. t.blobs[c] = [rowid |-> t.blobs[c].rowid, vectors |-> t.blobs[c].vectors,
                      views |-> t.blobs[c].views]
        /\ t.blobs[c].vectors \in [Offsets -> Vectors]
    BY <2>1 DEF Blobs
  <2>6. w.blobs[c] = [rowid |-> t.blobs[c].rowid,
                      vectors |-> [t.blobs[c].vectors EXCEPT ![o] = vector],
                      views |-> t.blobs[c].views]
    BY <2>1, <2>4, <2>5
  <2>7. w.blobs[c].views = t.blobs[c].views /\ w.blobs[c].vectors[o] = vector
    BY <2>1, <2>5, <2>6
  <2>8. ChunkOf(w, r) = c /\ OffsetOf(w, r) = o
    BY <2>3, <2>4 DEF ChunkOf, OffsetOf
  <2>9. VectorData(w, r) = vector /\ ViewOf(w, r) = ViewOf(t, r)
    BY <2>1, <2>7, <2>8 DEF VectorData, ViewOf
  <2> QED
    BY <1>2, <2>4, <2>9 DEF MetadataValue
<1> QED
  BY <1>1, <1>2

(* What is updated is what is read: each column that was given is as it    *)
(* was given, and each that was not, and the partition, is as it was; a    *)
(* NULL vector counts as not given.                                        *)
THEOREM UpdatedIsRead ==
    ASSUME NEW t, Good(t), NEW r \in DOMAIN t.rowids,
           NEW change \in Changes, ~RejectsUpdate(t, r, change)
    PROVE  RowAt(Updated(t, r, change), r) =
               [part |-> PartitionValue(t, r),
                vector |-> IF change.vector \in {NoChange, Null}
                           THEN VectorData(t, r) ELSE change.vector,
                meta |-> IF change.meta = NoChange THEN MetadataValue(t, r) ELSE change.meta,
                aux |-> IF change.aux = NoChange THEN t.aux[r] ELSE change.aux]
<1> DEFINE a == UpdatedAux(t, r, change.aux)
           m == UpdatedMetadata(a, r, change.meta)
           w == Updated(t, r, change)
           c == ChunkOf(t, r)
           o == OffsetOf(t, r)
<1>1. /\ Good(a) /\ Changed(t, a, r, c, o)
      /\ Good(m) /\ Changed(a, m, r, c, o)
      /\ Good(w) /\ Changed(m, w, r, c, o)
  BY UpdatedIsChanged
<1>2. w = UpdatedVector(m, r, change.vector)
  BY DEF Updated
<1>3. change.meta \in Texts \cup {NoChange}
  BY Vec0Assumption DEF RejectsUpdate, RejectsUpdatedMetadata, RejectsMetadata
<1>4. /\ VectorData(a, r) = VectorData(t, r) /\ MetadataValue(a, r) = MetadataValue(t, r)
      /\ a.aux[r] = IF change.aux = NoChange THEN t.aux[r] ELSE change.aux
  BY AuxIsRead
<1>5. m = UpdatedMetadata(a, r, change.meta)
  OBVIOUS
<1> HIDE DEF a, m, w
<1>6. r \in DOMAIN a.rowids /\ r \in DOMAIN m.rowids
  BY <1>1 DEF Changed
<1>7. /\ VectorData(m, r) = VectorData(a, r) /\ m.aux = a.aux
      /\ MetadataValue(m, r) =
           IF change.meta = NoChange THEN MetadataValue(a, r) ELSE change.meta
  BY <1>1, <1>3, <1>5, <1>6, MetadataIsRead
<1>8. /\ MetadataValue(w, r) = MetadataValue(m, r) /\ w.aux = m.aux
      /\ VectorData(w, r) =
           IF change.vector \in {NoChange, Null} THEN VectorData(m, r) ELSE change.vector
  BY <1>1, <1>2, <1>6, VectorIsRead
<1>9. PartitionValue(w, r) = PartitionValue(t, r)
  BY <1>1 DEF Changed, PartitionValue, ChunkOf
<1>10. RowAt(w, r) = [part |-> PartitionValue(w, r), vector |-> VectorData(w, r),
                      meta |-> MetadataValue(w, r), aux |-> w.aux[r]]
  BY DEF RowAt
<1> QED
  BY <1>4, <1>7, <1>8, <1>9, <1>10 DEF w

-----------------------------------------------------------------------------
(* Each step is one of the table's.                                        *)

(* The table the writing transaction shows, its failed statements undone.  *)
Shown == IF txn = "failed" THEN Contents(committed) ELSE Contents(working)

LEMMA NewTablesAreEmpty == Contents(NewTables) = Table!Empty
<1>1. NewTables.rowids = Nothing
  BY DEF NewTables
<1>2. IdsIn(NewTables) = {}
  BY <1>1 DEF IdsIn, Nothing
<1> QED
  BY <1>2 DEF Contents, Table!Empty

LEMMA InitMaps ==
    ASSUME Init
    PROVE  Table!Init
<1>1. committed = NewTables /\ working = NewTables /\ txn = "none"
  BY DEF Init
<1>2. Contents(committed) = Table!Empty /\ Contents(working) = Table!Empty
  BY <1>1, NewTablesAreEmpty
<1> QED
  BY <1>1, <1>2 DEF Table!Init

LEMMA WriteMaps ==
    ASSUME IInv, NEW tables, Write(tables)
    PROVE  Good(working) /\ Shown = Contents(working) /\ Shown' = Contents(tables)
           /\ Table!Statement
<1>1. /\ txn # "failed" /\ txn' = "open"
      /\ committed' = committed /\ working' = tables
  BY DEF Write, Writable
<1>2. Good(working)
  BY <1>1 DEF IInv
<1>3. Shown = Contents(working) /\ Shown' = Contents(tables)
  BY <1>1 DEF Shown
<1>4. Contents(committed)' = Contents(committed)
  BY <1>1
<1> QED
  BY <1>1, <1>2, <1>3, <1>4 DEF Table!Statement

LEMMA FailMaps ==
    ASSUME NEW remains, Fail(remains)
    PROVE  Table!Fail
<1>1. txn # "failed" /\ txn' = "failed" /\ committed' = committed
  BY DEF Fail, Writable
<1>2. Contents(committed)' = Contents(committed)
  BY <1>1
<1>3. Shown' = Contents(committed)
  BY <1>1, <1>2 DEF Shown
<1> QED
  BY <1>1, <1>2, <1>3 DEF Table!Fail, Shown

LEMMA InsertMaps ==
    ASSUME IInv, NEW id \in Keys \cup {Null}, NEW row \in NewRows, Insert(id, row)
    PROVE  \E key \in Keys : Table!Insert(key)
<1> DEFINE t == working
           w == Inserted(working, id, row)
           r == NextRowid(working, id)
           s == InsertRowidStep(working, id)
           c == NextChunk(s, row.part)
           o == NextOffset(s, row.part)
           key == IdOf(w, r)
<1>1. ~RejectsInsert(t, id, row) /\ Write(w)
  BY DEF Insert
<1>2. Good(t) /\ Shown = Contents(t) /\ Shown' = Contents(w) /\ Table!Statement
  BY <1>1, WriteMaps
<1>3. Placed(t, w, id, row, r, c, o)
  BY <1>1, <1>2, InsertedIsPlaced
<1>4. Good(w)
  BY <1>1, <1>2, InsertedIsGood
<1> HIDE DEF t, w, r, s, c, o, key
<1>5. /\ r \in DOMAIN w.rowids /\ r \notin DOMAIN t.rowids
      /\ DOMAIN w.rowids = DOMAIN t.rowids \cup {r}
      /\ \A q \in DOMAIN t.rowids : IdOf(w, q) = IdOf(t, q) /\ RowAt(w, q) = RowAt(t, q)
  BY <1>2, <1>3, PlacedReads DEF Placed
<1>6. \A q \in DOMAIN t.rowids : IdOf(t, q) # key
  BY <1>4, <1>5 DEF Good, PositionsHold, IdsAreUnique, key
<1>7. key \notin DOMAIN Contents(t)
  BY <1>6 DEF Contents, IdsIn
<1>8. key \in DOMAIN Contents(w) /\ key \in Keys /\ Contents(w)[key] \in Rows
  BY <1>4, <1>5, ContentsAtId, RowAtIsRow DEF key
<1>9. Table!Without(Contents(w), key) = Table!Without(Contents(t), key)
  <2>1. \A q \in DOMAIN t.rowids : IdOf(t, q) # key =>
          q \in DOMAIN w.rowids /\ IdOf(w, q) = IdOf(t, q) /\ RowAt(w, q) = RowAt(t, q)
    BY <1>5
  <2>2. \A q \in DOMAIN w.rowids : IdOf(w, q) # key =>
          q \in DOMAIN t.rowids /\ IdOf(w, q) = IdOf(t, q)
    BY <1>5 DEF key
  <2> QED
    BY <1>2, <1>4, <2>1, <2>2, OthersAreKept
<1>10. Table!Insert(key)
  BY <1>2, <1>7, <1>8, <1>9 DEF Table!Insert, Table!Write, Shown
<1> QED
  BY <1>8, <1>10

LEMMA DeleteMaps ==
    ASSUME IInv, NEW r \in DOMAIN working.rowids, Delete(r)
    PROVE  \E key \in Keys : Table!Delete(key)
<1> DEFINE t == working
           w == Deleted(working, r)
           c == ChunkOf(working, r)
           o == OffsetOf(working, r)
           key == IdOf(working, r)
<1>1. Write(w)
  BY DEF Delete
<1>2. Good(t) /\ Shown = Contents(t) /\ Shown' = Contents(w) /\ Table!Statement
  BY <1>1, WriteMaps
<1>3. Removed(t, w, r, c, o)
  BY <1>2, DeletedIsRemoved
<1>4. Good(w)
  BY <1>2, DeletedIsGood
<1>5. \A q \in DOMAIN t.rowids \ {r} :
        IdOf(w, q) = IdOf(t, q) /\ RowAt(w, q) = RowAt(t, q)
  BY <1>2, <1>3, RemovedReads
<1>6. DOMAIN w.rowids = DOMAIN t.rowids \ {r} /\ r \in DOMAIN t.rowids
  BY <1>3 DEF Removed
<1>7. key = IdOf(t, r)
  OBVIOUS
<1> HIDE DEF t, w, c, o, key
<1>8. \A q \in DOMAIN t.rowids \ {r} : IdOf(t, q) # key
  BY <1>2, <1>6, <1>7 DEF Good, PositionsHold, IdsAreUnique
<1>9. key \in DOMAIN Contents(t) /\ key \in Keys
  BY <1>2, <1>6, <1>7, ContentsAtId
<1>10. key \notin DOMAIN Contents(w)
  BY <1>5, <1>6, <1>8 DEF Contents, IdsIn
<1>11. Table!Without(Contents(w), key) = Table!Without(Contents(t), key)
  <2>1. \A q \in DOMAIN t.rowids : IdOf(t, q) # key =>
          q \in DOMAIN w.rowids /\ IdOf(w, q) = IdOf(t, q) /\ RowAt(w, q) = RowAt(t, q)
    BY <1>5, <1>6, <1>7
  <2>2. \A q \in DOMAIN w.rowids : IdOf(w, q) # key =>
          q \in DOMAIN t.rowids /\ IdOf(w, q) = IdOf(t, q)
    BY <1>5, <1>6
  <2> QED
    BY <1>2, <1>4, <2>1, <2>2, OthersAreKept
<1>12. Table!Delete(key)
  BY <1>2, <1>9, <1>10, <1>11 DEF Table!Delete, Table!Write, Shown
<1> QED
  BY <1>9, <1>12

LEMMA UpdateMaps ==
    ASSUME IInv, NEW r \in DOMAIN working.rowids, NEW change \in Changes, Update(r, change)
    PROVE  \E key \in Keys : Table!Update(key)
<1> DEFINE t == working
           a == UpdatedAux(working, r, change.aux)
           m == UpdatedMetadata(a, r, change.meta)
           w == Updated(working, r, change)
           c == ChunkOf(working, r)
           o == OffsetOf(working, r)
           key == IdOf(working, r)
<1>1. ~RejectsUpdate(t, r, change) /\ Write(w)
  BY DEF Update
<1>2. Good(t) /\ Shown = Contents(t) /\ Shown' = Contents(w) /\ Table!Statement
  BY <1>1, WriteMaps
<1>3. /\ Good(a) /\ Changed(t, a, r, c, o)
      /\ Good(m) /\ Changed(a, m, r, c, o)
      /\ Good(w) /\ Changed(m, w, r, c, o)
  BY <1>1, <1>2, UpdatedIsChanged
<1>4. r \in DOMAIN t.rowids /\ c = ChunkOf(t, r) /\ o = OffsetOf(t, r) /\ key = IdOf(t, r)
  OBVIOUS
<1> HIDE DEF t, a, m, w, c, o, key
<1>5. /\ r \in DOMAIN a.rowids /\ c = ChunkOf(a, r) /\ o = OffsetOf(a, r)
      /\ r \in DOMAIN m.rowids /\ c = ChunkOf(m, r) /\ o = OffsetOf(m, r)
      /\ r \in DOMAIN w.rowids /\ DOMAIN w.rowids = DOMAIN t.rowids
  BY <1>3, <1>4 DEF Changed, ChunkOf, OffsetOf
<1>6. /\ DOMAIN a.rowids = DOMAIN t.rowids
      /\ PartitionValue(a, r) = PartitionValue(t, r)
      /\ \A q \in DOMAIN t.rowids : IdOf(a, q) = IdOf(t, q)
      /\ \A q \in DOMAIN t.rowids \ {r} : RowAt(a, q) = RowAt(t, q)
  BY <1>2, <1>3, <1>4, ChangedReads
<1>7. /\ DOMAIN m.rowids = DOMAIN a.rowids
      /\ PartitionValue(m, r) = PartitionValue(a, r)
      /\ \A q \in DOMAIN a.rowids : IdOf(m, q) = IdOf(a, q)
      /\ \A q \in DOMAIN a.rowids \ {r} : RowAt(m, q) = RowAt(a, q)
  <2>1. /\ Good(a) /\ r \in DOMAIN a.rowids
        /\ c = ChunkOf(a, r) /\ o = OffsetOf(a, r) /\ Changed(a, m, r, c, o)
    BY <1>3, <1>5
  <2> QED
    BY <2>1, ChangedReads
<1>8. /\ PartitionValue(w, r) = PartitionValue(m, r)
      /\ \A q \in DOMAIN m.rowids : IdOf(w, q) = IdOf(m, q)
      /\ \A q \in DOMAIN m.rowids \ {r} : RowAt(w, q) = RowAt(m, q)
  BY <1>3, <1>5, ChangedReads
<1>9. /\ PartitionValue(w, r) = PartitionValue(t, r)
      /\ \A q \in DOMAIN t.rowids : IdOf(w, q) = IdOf(t, q)
      /\ \A q \in DOMAIN t.rowids \ {r} : RowAt(w, q) = RowAt(t, q)
  BY <1>6, <1>7, <1>8
<1>10. /\ key \in DOMAIN Contents(t) /\ key \in Keys
       /\ Contents(t)[key] = RowAt(t, r)
  BY <1>2, <1>4, ContentsAtId
<1>11. /\ key = IdOf(w, r) /\ key \in DOMAIN Contents(w)
       /\ Contents(w)[key] = RowAt(w, r) /\ RowAt(w, r) \in Rows
  BY <1>3, <1>4, <1>5, <1>9, ContentsAtId, RowAtIsRow
<1>12. Contents(w)[key].part = Contents(t)[key].part
  BY <1>9, <1>10, <1>11 DEF RowAt
<1>13. Table!Without(Contents(w), key) = Table!Without(Contents(t), key)
  <2>1. \A q \in DOMAIN t.rowids : IdOf(t, q) # key =>
          q \in DOMAIN w.rowids /\ IdOf(w, q) = IdOf(t, q) /\ RowAt(w, q) = RowAt(t, q)
    BY <1>4, <1>5, <1>9
  <2>2. \A q \in DOMAIN w.rowids : IdOf(w, q) # key =>
          q \in DOMAIN t.rowids /\ IdOf(w, q) = IdOf(t, q)
    BY <1>5, <1>9
  <2> QED
    BY <1>2, <1>3, <2>1, <2>2, OthersAreKept
<1>14. Table!Update(key)
  BY <1>2, <1>10, <1>11, <1>12, <1>13 DEF Table!Update, Table!Write, Shown
<1> QED
  BY <1>10, <1>14

LEMMA RecreateMaps ==
    ASSUME IInv, Recreate
    PROVE  Table!Recreate
BY WriteMaps, NewTablesAreEmpty DEF Recreate, Table!Recreate, Shown

LEMMA CommitMaps ==
    ASSUME Commit
    PROVE  Table!Commit
<1>1. txn = "open" /\ committed' = working /\ txn' = "none" /\ working' = working
  BY DEF Commit
<1>2. Contents(committed)' = Contents(working) /\ Contents(working)' = Contents(working)
  BY <1>1
<1> QED
  BY <1>1, <1>2 DEF Table!Commit

LEMMA RollbackMaps ==
    ASSUME Rollback
    PROVE  Table!Rollback
<1>1. /\ txn \in {"open", "failed"}
      /\ working' = committed /\ txn' = "none" /\ committed' = committed
  BY DEF Rollback
<1>2. /\ Contents(working)' = Contents(committed)
      /\ Contents(committed)' = Contents(committed)
  BY <1>1
<1> QED
  BY <1>1, <1>2 DEF Table!Rollback

LEMMA StepMaps ==
    ASSUME IInv, [Next]_vars
    PROVE  [Table!Next]_(Table!vars)
<1>1. CASE \E id \in Keys \cup {Null}, row \in NewRows : Insert(id, row)
  BY <1>1, InsertMaps DEF Table!Next
<1>2. CASE \E r \in DOMAIN working.rowids : Delete(r)
  BY <1>2, DeleteMaps DEF Table!Next
<1>3. CASE \E r \in DOMAIN working.rowids, change \in Changes : Update(r, change)
  BY <1>3, UpdateMaps DEF Table!Next
<1>4. CASE \E remains : Fail(remains)
  BY <1>4, FailMaps DEF Table!Next
<1>5. CASE Recreate
  BY <1>5, RecreateMaps DEF Table!Next
<1>6. CASE Commit
  BY <1>6, CommitMaps DEF Table!Next
<1>7. CASE Rollback
  BY <1>7, RollbackMaps DEF Table!Next
<1>8. CASE UNCHANGED vars
  <2>1. committed' = committed /\ working' = working /\ txn' = txn
    BY <1>8 DEF vars
  <2>2. Contents(committed)' = Contents(committed) /\ Contents(working)' = Contents(working)
    BY <2>1
  <2> QED
    BY <2>1, <2>2 DEF Table!vars
<1>9. ASSUME Next
      PROVE  \/ \E id \in Keys \cup {Null}, row \in NewRows : Insert(id, row)
             \/ \E r \in DOMAIN working.rowids : Delete(r)
             \/ \E r \in DOMAIN working.rowids, change \in Changes : Update(r, change)
             \/ \E remains : Fail(remains)
             \/ Recreate \/ Commit \/ Rollback
  BY <1>9 DEF Next, Inserting, Deleting, Updating, InsertFails, DeleteFails, UpdateFails
<1> QED
  BY <1>1, <1>2, <1>3, <1>4, <1>5, <1>6, <1>7, <1>8, <1>9

(* Whatever chunks, slots, prefixes and side tables it keeps, vec0 is a    *)
(* table: each statement that succeeds changes the one row it is about,    *)
(* and a transaction that fails or is rolled back leaves no trace.         *)
THEOREM ImplementsATable == Spec => ImplementsTable
<1>1. Init => Table!Init
  BY InitMaps
<1>2. IInv /\ [Next]_vars => [Table!Next]_(Table!vars)
  BY StepMaps
<1> QED
  BY <1>1, <1>2, InvariantHolds, PTL DEF Spec, ImplementsTable, Table!Spec
=============================================================================
