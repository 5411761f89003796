-------------------------------- MODULE Vec0 --------------------------------
(***************************************************************************)
(* The vec0 virtual table of sqlite-vec, in which the knowledge base keeps *)
(* its vectors: rows are stored in chunks of ChunkSize slots.  A chunk has *)
(* a validity bitmap, a column of rowids, and a blob per vector and per    *)
(* metadata column; _rowids says which slot of which chunk a row has.      *)
(* Text metadata keeps a prefix in its slot and, when longer, the whole in *)
(* a table of its own.                                                     *)
(*                                                                         *)
(* The table modelled has one column of each kind: a partition key, a      *)
(* vector, text metadata and an auxiliary column.  One without a partition *)
(* key is one whose rows are all in one partition.  SQLite's own tables    *)
(* and transactions are taken to work: a statement of vec0 that fails      *)
(* leaves what it wrote so far, and the application rolls back.            *)
(***************************************************************************)
EXTENDS Integers, Sequences

CONSTANTS
    PkIsText,              \* whether the primary key is text, or the rowid
    Ids,                   \* the texts that are primary keys, when it is
    MinRowid, MaxRowid,    \* SQLite's least and greatest rowid
    ChunkSize,             \* chunk_size, slots in a chunk
    CharBit,               \* CHAR_BIT, slots in a byte of the bitmap
    Partitions,            \* values of the partition key
    Vectors, ZeroVector,   \* vectors of the declared type and width
    Texts,                 \* texts of the metadata column, sequences
    ViewLen,               \* VEC0_METADATA_TEXT_VIEW_DATA_LENGTH
    Auxiliaries,           \* values of the auxiliary column
    Null,                  \* SQL's NULL
    Mistyped,              \* a value that is not of the column's type
    NoChange,              \* sqlite3_value_nochange
    NewRows, Changes,      \* what an INSERT, an UPDATE may say
    MaxStatements          \* statements in a transaction, the bound of model checking

Rowids == MinRowid..MaxRowid

(* What identifies a row to SQL. *)
Keys == IF PkIsText THEN Ids ELSE Rowids

Offsets == 0..ChunkSize - 1

(* An UPDATE may leave what an INSERT rejects in an auxiliary column.      *)
Rows == [part : Partitions \cup {Null}, vector : Vectors, meta : Texts,
         aux : Auxiliaries \cup {Null, Mistyped}]

ASSUME Vec0Assumption ==
    /\ PkIsText \in BOOLEAN
    /\ MinRowid \in Int /\ MaxRowid \in Int /\ MinRowid <= 0 /\ 0 < MaxRowid
    /\ CharBit \in Nat \ {0} /\ ChunkSize \in Nat \ {0} /\ ChunkSize % CharBit = 0
    /\ ViewLen \in Nat \ {0} /\ MaxStatements \in Nat
    /\ ZeroVector \in Vectors
    /\ Texts \subseteq Seq(Int)
    /\ Null \notin Partitions /\ Null \notin Vectors /\ Null \notin Texts
    /\ Null \notin Ids /\ Null \notin Int
    /\ Mistyped \notin Partitions /\ Mistyped \notin Vectors /\ Mistyped \notin Texts
    /\ NoChange \notin Vectors /\ NoChange \notin Texts
    /\ NewRows \subseteq
         [part : Partitions \cup {Null, Mistyped}, vector : Vectors \cup {Mistyped},
          meta : Texts \cup {Mistyped}, aux : Auxiliaries \cup {Null, Mistyped}]
    /\ Changes \subseteq
         [key : {NoChange, "another"}, part : Partitions \cup {Null, NoChange},
          vector : Vectors \cup {Null, NoChange, Mistyped},
          meta : Texts \cup {NoChange, Mistyped},
          aux : Auxiliaries \cup {Null, NoChange, Mistyped}]

VARIABLES
    committed,  \* the shadow tables as last committed
    working,    \* the shadow tables as the writing transaction sees them
    txn,        \* the writing transaction: "none", "open" or "failed"
    statements  \* statements it has done

vars == <<committed, working, txn, statements>>

Nothing == [x \in {} |-> x]
Put(f, x, y) == [z \in DOMAIN f \cup {x} |-> IF z = x THEN y ELSE f[z]]
Drop(f, x) == [z \in DOMAIN f \ {x} |-> f[z]]

(* The tables xCreate makes: _rowids, _chunks, _metadatatext, _auxiliary,  *)
(* and _vector_chunks and _metadatachunks, of which blobs has a row each   *)
(* per chunk.  These two declare a column "rowid" that is not SQLite's     *)
(* own _rowid_: blobs is a function of the latter.  The sequences are      *)
(* those of AUTOINCREMENT.                                                 *)
NewTables ==
    [rowids |-> Nothing, chunks |-> Nothing, blobs |-> Nothing,
     texts |-> Nothing, aux |-> Nothing, lastRowid |-> 0, lastChunk |-> 0]

---------------------------------------------------------------------------
(* Reading. *)

(* vec0_get_chunk_position *)
ChunkOf(t, r) == t.rowids[r].chunk
OffsetOf(t, r) == t.rowids[r].offset

(* vec0_result_id: the id column, NULL unless the primary key is text.     *)
IdOf(t, r) == IF PkIsText THEN t.rowids[r].id ELSE r

IdsIn(t) == {IdOf(t, r) : r \in DOMAIN t.rowids}

(* vec0_rowid_from_id; only of ids that are there. *)
RowidFromId(t, id) == CHOOSE r \in DOMAIN t.rowids : IdOf(t, r) = id

PartitionValue(t, r) == t.chunks[ChunkOf(t, r)].part

VectorData(t, r) == t.blobs[ChunkOf(t, r)].vectors[OffsetOf(t, r)]

(* A view: the length of a text and as much of it as fits. *)
View(text) ==
    [n |-> Len(text), prefix |-> IF Len(text) <= ViewLen THEN text ELSE SubSeq(text, 1, ViewLen)]

BlankView == [n |-> 0, prefix |-> << >>]

IsLong(view) == view.n > ViewLen

ViewOf(t, r) == t.blobs[ChunkOf(t, r)].views[OffsetOf(t, r)]

MetadataValue(t, r) ==
    IF IsLong(ViewOf(t, r)) THEN t.texts[r] ELSE ViewOf(t, r).prefix

(* The columns of a row, which a point query and a scan both answer.       *)
RowAt(t, r) == [part |-> PartitionValue(t, r), vector |-> VectorData(t, r),
                meta |-> MetadataValue(t, r), aux |-> t.aux[r]]

(* The table SELECT shows. *)
Contents(t) == [id \in IdsIn(t) |-> RowAt(t, RowidFromId(t, id))]

---------------------------------------------------------------------------
(* INSERT. *)

(* What is refused before anything is written. *)
RejectsRow(row) == row.part = Mistyped \/ row.vector = Mistyped

(* Mutation of the next definition: the last rowid is not the last. *)
RejectsTakenId(t, id) ==
    \/ PkIsText /\ (id = Null \/ id \in IdsIn(t))
    \/ ~PkIsText /\ id \in DOMAIN t.rowids

(* A text key has to be text and new; a rowid new or, to have one assigned,*)
(* NULL; AUTOINCREMENT never assigns a rowid twice, and stops at the last. *)
RejectsId(t, id) ==
    \/ PkIsText /\ (id = Null \/ id \in IdsIn(t))
    \/ ~PkIsText /\ id \in DOMAIN t.rowids
    \/ (PkIsText \/ id = Null) /\ t.lastRowid = MaxRowid

NextRowid(t, id) == IF PkIsText \/ id = Null THEN t.lastRowid + 1 ELSE id

InsertRowidStep(t, id) ==
    LET r == NextRowid(t, id)
        entry == [id |-> IF PkIsText THEN id ELSE Null, chunk |-> Null, offset |-> Null]
    IN  [t EXCEPT !.rowids = Put(@, r, entry),
                  !.lastRowid = IF r > @ THEN r ELSE @]

(* vec0_get_latest_chunk_rowid asks for "partition = ?", which no chunk    *)
(* satisfies when the key is NULL.                                         *)
ChunksOf(t, part) == {c \in DOMAIN t.chunks : part # Null /\ t.chunks[c].part = part}

Latest(chunks) == CHOOSE c \in chunks : \A d \in chunks : d <= c

FreeOffsets(t, c) == Offsets \ t.chunks[c].valid

NeedsChunk(t, part) ==
    ChunksOf(t, part) = {} \/ FreeOffsets(t, Latest(ChunksOf(t, part))) = {}

(* The blobs are addressed by _rowid_: see SHADOW_TABLE_ROWID_QUIRK.       *)
BlobRowid(t, c) == c

NewChunk(t, part) ==
    LET c == t.lastChunk + 1
    IN  [t EXCEPT
            !.chunks = Put(@, c, [part |-> part, valid |-> {},
                                  rowids |-> [o \in Offsets |-> 0]]),
            !.blobs = Put(@, BlobRowid(t, c),
                          [rowid |-> c,
                           vectors |-> [o \in Offsets |-> ZeroVector],
                           views |-> [o \in Offsets |-> BlankView]]),
            !.lastChunk = c]

(* Chunk ids are never assigned twice either. *)
RejectsChunk(t, part) == NeedsChunk(t, part) /\ t.lastChunk = MaxRowid

(* InsertNextAvailableStep: only the latest chunk of the partition is      *)
(* looked at; its first free slot, else the first of a new chunk.          *)
WithRoom(t, part) == IF NeedsChunk(t, part) THEN NewChunk(t, part) ELSE t

NextChunk(t, part) ==
    IF NeedsChunk(t, part) THEN t.lastChunk + 1 ELSE Latest(ChunksOf(t, part))

NextOffset(t, part) ==
    IF NeedsChunk(t, part) THEN 0
    ELSE LET free == FreeOffsets(t, NextChunk(t, part))
         IN  CHOOSE o \in free : \A p \in free : o <= p

InsertWriteFinalStep(t, r, c, o, vector) ==
    [t EXCEPT !.chunks[c].valid = @ \cup {o},
              !.chunks[c].rowids[o] = r,
              !.blobs[c].vectors[o] = vector,
              !.rowids[r].chunk = c,
              !.rowids[r].offset = o]

(* Steps 1 to 3: the row has an id, a slot and a vector. *)
Positioned(t, id, row) ==
    LET s == InsertRowidStep(t, id)
    IN  InsertWriteFinalStep(WithRoom(s, row.part), NextRowid(t, id),
                             NextChunk(s, row.part), NextOffset(s, row.part), row.vector)

RejectsAux(t, r, value) == value = Mistyped \/ r \in DOMAIN t.aux

WithAux(t, r, value) == [t EXCEPT !.aux = Put(@, r, value)]

(* The long text is updated where there was one, and else inserted. *)
RejectsMetadata(t, r, c, o, text, isupdate) ==
    \/ text = Mistyped
    \/ /\ Len(text) > ViewLen
       /\ ~(isupdate /\ IsLong(t.blobs[c].views[o]))
       /\ r \in DOMAIN t.texts

WriteMetadataValue(t, r, c, o, text, isupdate) ==
    [t EXCEPT
        !.blobs[c].views[o] = View(text),
        !.texts =
            IF IsLong(View(text))
            THEN IF isupdate /\ IsLong(t.blobs[c].views[o]) /\ r \notin DOMAIN @
                 THEN @ ELSE Put(@, r, text)
            ELSE IF IsLong(t.blobs[c].views[o]) THEN Drop(@, r) ELSE @]

Described(t, id, row) == WithAux(Positioned(t, id, row), NextRowid(t, id), row.aux)

RejectsInsert(t, id, row) ==
    \/ RejectsRow(row) \/ RejectsId(t, id)
    \/ RejectsChunk(InsertRowidStep(t, id), row.part)
    \/ RejectsAux(t, NextRowid(t, id), row.aux)
    \/ LET s == Described(t, id, row)
           r == NextRowid(t, id)
       IN  RejectsMetadata(s, r, ChunkOf(s, r), OffsetOf(s, r), row.meta, FALSE)

Inserted(t, id, row) ==
    LET s == Described(t, id, row)
        r == NextRowid(t, id)
    IN  WriteMetadataValue(s, r, ChunkOf(s, r), OffsetOf(s, r), row.meta, FALSE)

(* What a failed INSERT may leave: its own checks fail before the first    *)
(* write, at the auxiliary column and at the metadata, the disk anywhere.  *)
InsertRemains(t, id, row) ==
    {t} \cup IF RejectsRow(row) \/ RejectsId(t, id) THEN {}
             ELSE {InsertRowidStep(t, id)}
                  \cup IF RejectsChunk(InsertRowidStep(t, id), row.part) THEN {}
                       ELSE {Positioned(t, id, row)}
                            \cup IF RejectsAux(t, NextRowid(t, id), row.aux) THEN {}
                                 ELSE {Described(t, id, row)}

---------------------------------------------------------------------------
(* DELETE. *)

(* The check "validity bit is not set" looks at the bits from this one up. *)
ValidityIsSet(t, c, o) ==
    \E p \in t.chunks[c].valid : p \div CharBit = o \div CharBit /\ p >= o

(* Mutation of the next definition: the byte is cleared, not the bit. *)
ClearValidityByte(t, c, o) ==
    [t EXCEPT !.chunks[c].valid = {p \in @ : p \div CharBit # o \div CharBit}]

ClearValidity(t, c, o) == [t EXCEPT !.chunks[c].valid = @ \ {o}]

ClearRowid(t, c, o) == [t EXCEPT !.chunks[c].rowids[o] = 0]

ClearVectors(t, c, o) == [t EXCEPT !.blobs[c].vectors[o] = ZeroVector]

DeleteRowids(t, r) == [t EXCEPT !.rowids = Drop(@, r)]

DeleteAux(t, r) == [t EXCEPT !.aux = Drop(@, r)]

(* Mutations of the next definition: the long text, or the view, stays. *)
ClearMetadataView(t, r, c, o) == [t EXCEPT !.blobs[c].views[o] = BlankView]

ClearMetadataText(t, r, c, o) ==
    [t EXCEPT !.texts = IF IsLong(t.blobs[c].views[o]) THEN Drop(@, r) ELSE @]

ClearMetadata(t, r, c, o) ==
    [t EXCEPT !.blobs[c].views[o] = BlankView,
              !.texts = IF IsLong(t.blobs[c].views[o]) THEN Drop(@, r) ELSE @]

(* The blobs are deleted by the column "rowid". *)
DeleteChunkIfEmpty(t, c) ==
    IF t.chunks[c].valid # {} THEN t
    ELSE [t EXCEPT !.chunks = Drop(@, c),
                   !.blobs = [b \in {b \in DOMAIN @ : @[b].rowid # c} |-> @[b]]]

Vacated(t, c, o) == ClearVectors(ClearRowid(ClearValidity(t, c, o), c, o), c, o)

Erased(t, r, c, o) == ClearMetadata(DeleteAux(DeleteRowids(Vacated(t, c, o), r), r), r, c, o)

Deleted(t, r) ==
    DeleteChunkIfEmpty(Erased(t, r, ChunkOf(t, r), OffsetOf(t, r)), ChunkOf(t, r))

RejectsDelete(t, r) == ~ValidityIsSet(t, ChunkOf(t, r), OffsetOf(t, r))

DeleteRemains(t, r) ==
    {t} \cup IF RejectsDelete(t, r) THEN {}
             ELSE {ClearValidity(t, ChunkOf(t, r), OffsetOf(t, r)),
                   Vacated(t, ChunkOf(t, r), OffsetOf(t, r)),
                   DeleteRowids(Vacated(t, ChunkOf(t, r), OffsetOf(t, r)), r),
                   Erased(t, r, ChunkOf(t, r), OffsetOf(t, r))}

---------------------------------------------------------------------------
(* UPDATE.  A change has a value or NoChange for each column; a full scan  *)
(* gives the partition key as it is, where a point query says NoChange.    *)
(* A new key is refused when keys are text, and ignored when they are not. *)

RejectsChange(change) ==
    \/ PkIsText /\ change.key # NoChange
    \/ change.part # NoChange

UpdatedAux(t, r, value) ==
    IF value = NoChange THEN t
    ELSE [t EXCEPT !.aux = [q \in DOMAIN @ |-> IF q = r THEN value ELSE @[q]]]

UpdatedMetadata(t, r, text) ==
    IF text = NoChange THEN t
    ELSE WriteMetadataValue(t, r, ChunkOf(t, r), OffsetOf(t, r), text, TRUE)

(* Mutation of the next definition: the offset is forgotten. *)
UpdatedVectorAtStart(t, r, vector) ==
    IF vector \in {NoChange, Null} THEN t
    ELSE [t EXCEPT !.blobs[ChunkOf(t, r)].vectors[0] = vector]

(* A NULL vector is taken for an unchanged one. *)
UpdatedVector(t, r, vector) ==
    IF vector \in {NoChange, Null} THEN t
    ELSE [t EXCEPT !.blobs[ChunkOf(t, r)].vectors[OffsetOf(t, r)] = vector]

RejectsUpdatedMetadata(t, r, text) ==
    /\ text # NoChange
    /\ RejectsMetadata(t, r, ChunkOf(t, r), OffsetOf(t, r), text, TRUE)

RejectsUpdate(t, r, change) ==
    \/ RejectsChange(change)
    \/ RejectsUpdatedMetadata(t, r, change.meta)
    \/ change.vector = Mistyped

Updated(t, r, change) ==
    UpdatedVector(UpdatedMetadata(UpdatedAux(t, r, change.aux), r, change.meta),
                  r, change.vector)

UpdateRemains(t, r, change) ==
    {t} \cup IF RejectsChange(change) THEN {}
             ELSE {UpdatedAux(t, r, change.aux)}
                  \cup IF RejectsUpdatedMetadata(t, r, change.meta) THEN {}
                       ELSE {UpdatedMetadata(UpdatedAux(t, r, change.aux), r, change.meta)}

---------------------------------------------------------------------------
(* Transactions, which are SQLite's and the application's. *)

Writable == txn # "failed" /\ statements < MaxStatements

Write(tables) ==
    /\ Writable
    /\ working' = tables
    /\ txn' = "open"
    /\ statements' = statements + 1
    /\ UNCHANGED committed

(* The error goes up to the application, whose transaction is lost. *)
Fail(remains) ==
    /\ Writable
    /\ working' \in remains
    /\ txn' = "failed"
    /\ UNCHANGED <<committed, statements>>

Insert(id, row) ==
    ~RejectsInsert(working, id, row) /\ Write(Inserted(working, id, row))

InsertFails(id, row) == Fail(InsertRemains(working, id, row))

Delete(r) == ~RejectsDelete(working, r) /\ Write(Deleted(working, r))

DeleteFails(r) == Fail(DeleteRemains(working, r))

Update(r, change) ==
    ~RejectsUpdate(working, r, change) /\ Write(Updated(working, r, change))

UpdateFails(r, change) == Fail(UpdateRemains(working, r, change))

(* xDestroy and xCreate: ensureTable drops a table of another width.       *)
Recreate == Write(NewTables)

Commit ==
    /\ txn = "open"
    /\ committed' = working
    /\ txn' = "none"
    /\ statements' = 0
    /\ UNCHANGED working

Rollback ==
    /\ txn \in {"open", "failed"}
    /\ working' = committed
    /\ txn' = "none"
    /\ statements' = 0
    /\ UNCHANGED committed

Init == /\ committed = NewTables /\ working = NewTables
        /\ txn = "none" /\ statements = 0

Inserting ==
    \E id \in Keys \cup {Null}, row \in NewRows : Insert(id, row) \/ InsertFails(id, row)

Deleting == \E r \in DOMAIN working.rowids : Delete(r) \/ DeleteFails(r)

Updating ==
    \E r \in DOMAIN working.rowids, change \in Changes :
        Update(r, change) \/ UpdateFails(r, change)

Next ==
    \/ Writable /\ (Inserting \/ Deleting \/ Updating)
    \/ Recreate \/ Commit \/ Rollback

Spec == Init /\ [][Next]_vars
---------------------------------------------------------------------------
(* Properties. *)

Entries == [id : Ids \cup {Null}, chunk : Int, offset : Offsets]
Chunks == [part : Partitions \cup {Null}, valid : SUBSET Offsets, rowids : [Offsets -> Int]]
Views == {View(text) : text \in Texts} \cup {BlankView}
Blobs == [rowid : Int, vectors : [Offsets -> Vectors], views : [Offsets -> Views]]

(* The shadow tables have the columns xCreate declares. *)
AreTables(t) ==
    /\ DOMAIN t.rowids \subseteq Rowids /\ \A r \in DOMAIN t.rowids : t.rowids[r] \in Entries
    /\ IdsIn(t) \subseteq Keys
    /\ \A c \in DOMAIN t.chunks : c \in 1..MaxRowid /\ t.chunks[c] \in Chunks
    /\ \A b \in DOMAIN t.blobs : t.blobs[b] \in Blobs
    /\ \A r \in DOMAIN t.texts : t.texts[r] \in Texts
    /\ \A r \in DOMAIN t.aux : t.aux[r] \in Auxiliaries \cup {Null, Mistyped}
    /\ t.lastRowid \in 0..MaxRowid /\ t.lastChunk \in 0..MaxRowid

(* Here and below: the committed tables, and those a transaction sees      *)
(* after each statement that succeeded.                                    *)
TypeOK == /\ AreTables(committed)
          /\ txn # "failed" => AreTables(working)
          /\ txn \in {"none", "open", "failed"}
          /\ statements \in 0..MaxStatements

(* A row's position names a slot in use that holds the row's rowid ...     *)
RowsHaveSlots(t) ==
    \A r \in DOMAIN t.rowids :
        /\ ChunkOf(t, r) \in DOMAIN t.chunks
        /\ OffsetOf(t, r) \in t.chunks[ChunkOf(t, r)].valid
        /\ t.chunks[ChunkOf(t, r)].rowids[OffsetOf(t, r)] = r

(* ... and a slot in use holds the rowid of a row that is there.           *)
SlotsHaveRows(t) ==
    \A c \in DOMAIN t.chunks : \A o \in t.chunks[c].valid :
        LET r == t.chunks[c].rowids[o]
        IN  r \in DOMAIN t.rowids /\ ChunkOf(t, r) = c /\ OffsetOf(t, r) = o

(* AUTOINCREMENT is ahead of every rowid and every chunk there is.         *)
CountersAreAhead(t) ==
    /\ \A r \in DOMAIN t.rowids : r <= t.lastRowid
    /\ \A c \in DOMAIN t.chunks : c <= t.lastChunk

IdsAreUnique(t) ==
    \A r, s \in DOMAIN t.rowids : IdOf(t, r) = IdOf(t, s) => r = s

PositionsHold(t) ==
    RowsHaveSlots(t) /\ SlotsHaveRows(t) /\ CountersAreAhead(t) /\ IdsAreUnique(t)

(* _rowids and the chunks' bitmaps and rowid columns name each other, row  *)
(* for slot: a query that scans chunks and one that looks up a row see the *)
(* same rows, no two rows share a slot, and every row can be deleted       *)
(* ("validity bit is not set" is never reported).                          *)
PositionsAgree == PositionsHold(committed) /\ (txn # "failed" => PositionsHold(working))

(* The blobs of a chunk are addressed by _rowid_ and deleted by rowid.     *)
BlobsBelongToChunks(t) ==
    /\ DOMAIN t.blobs = DOMAIN t.chunks
    /\ \A c \in DOMAIN t.blobs : t.blobs[c].rowid = c

ChunksAreUsed(t) == \A c \in DOMAIN t.chunks : t.chunks[c].valid # {}

FreeSlotsAreBlank(t) ==
    \A c \in DOMAIN t.chunks : \A o \in Offsets \ t.chunks[c].valid :
        /\ t.chunks[c].rowids[o] = 0
        /\ t.blobs[c].vectors[o] = ZeroVector
        /\ t.blobs[c].views[o] = BlankView

AuxBelongsToRows(t) == DOMAIN t.aux = DOMAIN t.rowids

(* The whole text is kept exactly where the view says it is longer.        *)
TextsBelongToViews(t) ==
    /\ DOMAIN t.texts = {r \in DOMAIN t.rowids : IsLong(ViewOf(t, r))}
    /\ \A r \in DOMAIN t.texts : View(t.texts[r]) = ViewOf(t, r)

NothingIsLeft(t) ==
    /\ BlobsBelongToChunks(t) /\ ChunksAreUsed(t) /\ FreeSlotsAreBlank(t)
    /\ AuxBelongsToRows(t) /\ TextsBelongToViews(t)

(* A deleted row leaves nothing behind in any shadow table: its slot is    *)
(* blank, its chunk is gone when it was the last, and so are its auxiliary *)
(* values and its long text, which a row that takes the rowid or the slot  *)
(* later would otherwise collide with or inherit (sqlite-vec's issue 274   *)
(* was such a text).                                                       *)
DeletesLeaveNothing == NothingIsLeft(committed) /\ (txn # "failed" => NothingIsLeft(working))

(* The refinement: whatever chunks, slots and side tables it keeps, vec0   *)
(* is a table.                                                             *)
Table == INSTANCE VectorTable
         WITH Ids <- Keys, Rows <- Rows, txn <- txn,
              committed <- Contents(committed),
              working <- IF txn = "failed" THEN Contents(committed) ELSE Contents(working)

ImplementsTable == Table!Spec
=============================================================================
