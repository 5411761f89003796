------------------------ MODULE StoreLifecycleProofs ------------------------
(***************************************************************************)
(* The safety of StoreLifecycle for every number of stores, chunks and     *)
(* embedding configurations.  The invariants lean on each other: a vector  *)
(* is of the stamped model because an open store knows what is stamped,    *)
(* which is so because it has the lock, which a plan read in one           *)
(* transaction and applied in a later one relies on as well.               *)
(***************************************************************************)
EXTENDS StoreLifecycle, FiniteSetTheorems, TLAPS

(* What a store has read of the version keys is still so.                  *)
OpeningKnowsVersion ==
    \A s \in Stores :
        /\ phase[s] # "closed" => model[s] \in Models
        /\ phase[s] = "outdated" => Outdated(s)
        /\ phase[s] = "current" => ~Outdated(s)
        /\ phase[s] = "open" => stamped = model[s]

LockInv == WritersAreNamed /\ OpeningKnowsVersion

(* A row that exists, and only that, has an id.                            *)
RowsHaveIds == \A c \in Chunks : rows[c].state = "none" <=> rows[c].id = NoId

(* Work, and coverage, is of chunks that exist.                            *)
WorkIsPresent ==
    \A c \in Chunks :
        /\ rows[c].state # "none" => c \in present
        /\ embedded[c] => c \in present
        /\ \A s \in Stores : c \in Held(s) => c \in present /\ copy[s][c].id # NoId

(* Chunks come with the first open that got through.                       *)
NothingBeforeFirstStamp == stamped = NoModel => present = {}

ChunkInv ==
    /\ RowsHaveIds
    /\ WorkIsPresent
    /\ NothingBeforeFirstStamp
    /\ UnembeddedIsQueued
    /\ EmbeddedByStampedModel

IInv == TypeOK /\ LockInv /\ ChunkInv

-----------------------------------------------------------------------------
(* What each operation of JobQueue makes of a row.                          *)

(* The operations on a row give a row.                                     *)
LEMMA RowOperationsGiveRows ==
    /\ NoJob \in Row
    /\ NoCopy \in Copy
    /\ \A row \in Row :
          /\ CopyOf(row) \in Copy
          /\ \A i \in Ids : Enqueued(row, i) \in Row
          /\ Claimed(row) \in Row
          /\ \A job \in Copy : Completed(row, job) \in Row
          /\ \A job \in Copy, isTransient \in BOOLEAN : Failed(row, job, isTransient) \in Row
          /\ Retried(row) \in Row
          /\ Reclaimed(row) \in Row
          /\ Discarded(row) \in Row
<1>1. NoJob \in Row /\ NoCopy \in Copy
  BY DEF Row, Copy, NoJob, NoCopy
<1>2. ASSUME NEW row \in Row, NEW i \in Ids
      PROVE  Enqueued(row, i) \in Row
  BY DEF Row, Enqueued
<1>3. ASSUME NEW row \in Row, NEW job \in Copy
      PROVE  Completed(row, job) \in Row /\ Discarded(row) \in Row
  BY <1>1 DEF Completed, Discarded
<1>4. ASSUME NEW row \in Row
      PROVE  Claimed(row) \in Row /\ Retried(row) \in Row /\ Reclaimed(row) \in Row
  BY DEF Row, Claimed, Retried, Reclaimed
<1>5. ASSUME NEW row \in Row, NEW job \in Copy, NEW isTransient \in BOOLEAN
      PROVE  Failed(row, job, isTransient) \in Row
  <2>1. AttemptsAfter(job, isTransient) \in Nat
    BY DEF AttemptsAfter, Copy
  <2> QED
    BY <2>1 DEF Row, Failed
<1>6. ASSUME NEW row \in Row
      PROVE  CopyOf(row) \in Copy
  BY DEF Row, Copy, CopyOf
<1> QED
  BY <1>1, <1>2, <1>3, <1>4, <1>5, <1>6 DEF Discarded

(* What the operations do to the fields the invariants speak of.           *)
LEMMA FieldsOfNoJob == NoJob.state = "none" /\ NoJob.id = NoId
BY DEF NoJob

LEMMA FieldsOfCopy ==
    ASSUME NEW row \in Row
    PROVE  CopyOf(row).id = row.id /\ CopyOf(row).attempts = row.attempts
BY DEF CopyOf

LEMMA FieldsOfEnqueued ==
    ASSUME NEW row \in Row, NEW i \in Ids
    PROVE  /\ Enqueued(row, i).state = "pending"
           /\ Enqueued(row, i).attempts = 0
           /\ Enqueued(row, i).due = TRUE
           /\ row.state = "none" => Enqueued(row, i).id = i
           /\ row.state # "none" => Enqueued(row, i).id = row.id
BY DEF Enqueued

LEMMA FieldsOfClaimed ==
    ASSUME NEW row \in Row
    PROVE  /\ Claimed(row).state = "running"
           /\ Claimed(row).id = row.id
           /\ Claimed(row).attempts = row.attempts
BY DEF Claimed, Row

LEMMA FieldsOfReclaimed ==
    ASSUME NEW row \in Row
    PROVE  /\ row.state # "running" => Reclaimed(row) = row
           /\ row.state = "running" => Reclaimed(row).state = "pending"
           /\ Reclaimed(row).id = row.id
           /\ Reclaimed(row).attempts = row.attempts
BY DEF Reclaimed, Row

(* A failure changes only the row it is about, and leaves it a row.        *)
LEMMA FieldsOfFailed ==
    ASSUME NEW row \in Row, NEW job \in Copy, NEW isTransient \in BOOLEAN
    PROVE  /\ row.id # job.id => Failed(row, job, isTransient) = row
           /\ Failed(row, job, isTransient).id = row.id
           /\ row.id = job.id =>
                 Failed(row, job, isTransient).state \in {"pending", "failed"}
BY DEF Failed, Row

-----------------------------------------------------------------------------
(* Types.                                                                  *)

(* There are more ids than stores, so an INSERT finds one that no pass     *)
(* remembers for this chunk.                                               *)
LEMMA FreshIdExists ==
    ASSUME TypeOK, NEW c \in Chunks
    PROVE  FreshId(c) \in Ids
<1> DEFINE Free(i) == \A s \in Stores : copy[s][c].id # i
<1>1. \E i \in Ids : Free(i)
  <2> SUFFICES ASSUME \A i \in Ids : ~Free(i) PROVE FALSE
    OBVIOUS
  <2> DEFINE rememberedBy == [i \in Ids |-> CHOOSE s \in Stores : copy[s][c].id = i]
  <2>1. \A i \in Ids : rememberedBy[i] \in Stores /\ copy[rememberedBy[i]][c].id = i
    OBVIOUS
  <2>2. rememberedBy \in [Ids -> Stores]
    BY <2>1
  <2> HIDE DEF rememberedBy
  <2>3. \E i, j \in Ids : i # j /\ rememberedBy[i] = rememberedBy[j]
    BY <2>2, FS_PigeonHole, FS_CardinalityType, StoreLifecycleAssumption
  <2> QED
    BY <2>1, <2>3
<1> QED
  BY <1>1 DEF FreshId

LEMMA InitTypes == Init => TypeOK
<1> SUFFICES ASSUME Init PROVE TypeOK
  OBVIOUS
<1>1. rows \in [Chunks -> Row] /\ copy \in [Stores -> [Chunks -> Copy]]
  BY RowOperationsGiveRows DEF Init
<1>2. lockOwner = NoStore /\ holder = NoStore /\ tableWidth \in Nat
  BY DEF Init
<1>3. /\ stamped = NoModel /\ present \in SUBSET Chunks
      /\ vector \in [Chunks -> Models \cup {NoModel}]
      /\ embedded \in [Chunks -> BOOLEAN]
  BY DEF Init
<1>4. /\ phase \in [Stores -> Phases] /\ model \in [Stores -> Models \cup {NoModel}]
      /\ draining \in [Stores -> BOOLEAN]
  BY DEF Init, Phases
<1>5. late \in SUBSET Chunks /\ torn \in BOOLEAN
  BY DEF Init
<1> QED
  BY <1>1, <1>2, <1>3, <1>4, <1>5 DEF TypeOK

LEMMA OpenStepTypes ==
    ASSUME TypeOK, LockInv, NEW s \in Stores, OpenStep(s)
    PROVE  TypeOK'
<1> USE DEF TypeOK, Phases
<1>1. phase[s] # "closed" => model[s] \in Models /\ Width[model[s]] \in Nat
  BY StoreLifecycleAssumption DEF LockInv, OpeningKnowsVersion
<1>2. CASE StampHolder(s)
  BY <1>2 DEF StampHolder, Enter, database
<1>3. CASE PrepareTables(s)
  <2>1. rows' \in [Chunks -> Row]
    BY <1>3, RowOperationsGiveRows DEF PrepareTables, AbandonedReclaimed
  <2>2. /\ tableWidth' \in Nat
        /\ vector' \in [Chunks -> Models \cup {NoModel}]
        /\ torn' \in BOOLEAN
    BY <1>1, <1>3 DEF PrepareTables
  <2> QED
    BY <1>3, <2>1, <2>2 DEF PrepareTables, Enter
<1>4. CASE ReadPlan(s)
  BY <1>4 DEF ReadPlan, Enter, database
<1>5. CASE StampVersion(s)
  BY <1>1, <1>5 DEF StampVersion, Enter
<1>6. CASE Migrate(s)
  <2>1. rows' \in [Chunks -> Row]
    BY <1>6, FreshIdExists, RowOperationsGiveRows DEF Migrate
  <2> QED
    BY <1>1, <1>6, <2>1 DEF Migrate, Enter, CoverageInvalidated
<1> QED
  BY <1>2, <1>3, <1>4, <1>5, <1>6 DEF OpenStep

LEMMA PassStepTypes ==
    ASSUME TypeOK, ChunkInv, NEW s \in Stores, PassStep(s)
    PROVE  TypeOK'
<1> USE DEF TypeOK
<1>1. NoCopy \in Copy
  BY RowOperationsGiveRows
<1>2. CASE Claim(s)
  <2>1. rows' \in [Chunks -> Row]
    BY <1>2, RowOperationsGiveRows DEF Claim
  <2>2. copy' \in [Stores -> [Chunks -> Copy]]
    BY <1>2, RowOperationsGiveRows DEF Claim
  <2>3. late' \in SUBSET Chunks
    BY <1>2 DEF Claim, Touch
  <2> QED
    BY <1>2, <2>1, <2>2, <2>3 DEF Claim
<1>3. CASE StoreVectors(s)
  <2>1. rows' \in [Chunks -> Row]
    BY <1>3, RowOperationsGiveRows DEF StoreVectors
  <2>2. copy' \in [Stores -> [Chunks -> Copy]]
    BY <1>1, <1>3 DEF StoreVectors
  <2>3. late' \in SUBSET Chunks
    BY <1>3 DEF StoreVectors, Touch, Held
  <2>4. vector' \in [Chunks -> Models \cup {NoModel}]
    BY <1>3 DEF StoreVectors
  <2>5. embedded' \in [Chunks -> BOOLEAN]
    BY <1>3 DEF StoreVectors
  <2> QED
    BY <1>3, <2>1, <2>2, <2>3, <2>4, <2>5 DEF StoreVectors
<1>4. ASSUME NEW isTransient \in BOOLEAN, RecordFailure(s, isTransient)
      PROVE  TypeOK'
  <2>1. rows' \in [Chunks -> Row]
    BY <1>4, RowOperationsGiveRows DEF RecordFailure
  <2>2. copy' \in [Stores -> [Chunks -> Copy]]
    BY <1>1, <1>4 DEF RecordFailure
  <2>3. late' \in SUBSET Chunks
    BY <1>4 DEF RecordFailure, Touch, Held
  <2> QED
    BY <1>4, <2>1, <2>2, <2>3 DEF RecordFailure
<1> QED
  BY <1>2, <1>3, <1>4 DEF PassStep

LEMMA HostStepTypes ==
    ASSUME TypeOK, NEW s \in Stores, HostStep(s)
    PROVE  TypeOK'
<1> USE DEF TypeOK, Phases
<1>1. ASSUME NEW m \in Models, Acquire(s, m)
      PROVE  TypeOK'
  BY <1>1 DEF Acquire, Enter, database
<1>2. CASE Veto(s)
  BY <1>2 DEF Veto, Unlock, Enter, database
<1>3. ASSUME NEW c \in Chunks, Ingest(s, c)
      PROVE  TypeOK'
  <2>1. rows' \in [Chunks -> Row]
    BY <1>3, FreshIdExists, RowOperationsGiveRows DEF Ingest
  <2> QED
    BY <1>3, <2>1 DEF Ingest, store
<1>4. CASE StartDraining(s)
  BY <1>4 DEF StartDraining, database
<1>5. CASE StopDraining(s)
  BY <1>5 DEF StopDraining, database
<1>6. CASE Close(s)
  BY <1>6 DEF Close, Unlock, Enter, database
<1>7. CASE Crash(s)
  <2>1. copy' \in [Stores -> [Chunks -> Copy]]
    BY <1>7, RowOperationsGiveRows DEF Crash
  <2> QED
    BY <1>7, <2>1 DEF Crash, Unlock, Enter, database
<1> QED
  BY <1>1, <1>2, <1>3, <1>4, <1>5, <1>6, <1>7 DEF HostStep

LEMMA BackoffTypes ==
    ASSUME TypeOK, NEW c \in Chunks, BackoffElapses(c)
    PROVE  TypeOK'
<1>1. rows' \in [Chunks -> Row]
  BY DEF BackoffElapses, TypeOK, Row
<1> QED
  BY <1>1 DEF BackoffElapses, TypeOK, store

-----------------------------------------------------------------------------
(* The lock and what an open relies on.                                    *)

LEMMA InitLock == Init => LockInv
BY DEF Init, LockInv, WritersAreNamed, OpeningKnowsVersion

(* A store that is not closed has the lock, so a step of one store finds   *)
(* every other closed, and whoever comes in while the lock is free too.    *)
LEMMA OthersAreClosed ==
    ASSUME TypeOK, LockInv, NEW s \in Stores, NEW t \in Stores, s # t,
           phase[s] # "closed" \/ lockOwner = NoStore
    PROVE  phase[t] = "closed"
BY StoreLifecycleAssumption DEF LockInv, WritersAreNamed

LEMMA OpenStepLock ==
    ASSUME TypeOK, LockInv, NEW s \in Stores, OpenStep(s)
    PROVE  LockInv'
<1>1. phase[s] # "closed" /\ \A t \in Stores : t # s => phase[t] = "closed"
  BY OthersAreClosed
     DEF OpenStep, StampHolder, PrepareTables, ReadPlan, StampVersion, Migrate
<1>2. lockOwner = s /\ model[s] \in Models
  BY <1>1 DEF LockInv, WritersAreNamed, OpeningKnowsVersion
<1>3. CASE StampHolder(s)
  BY <1>1, <1>2, <1>3
     DEF StampHolder, Enter, database, TypeOK, Phases, LockInv, WritersAreNamed,
         OpeningKnowsVersion, Outdated
<1>4. phase[s] # "locked" => holder = s
  BY <1>1 DEF LockInv, WritersAreNamed
<1>5. CASE PrepareTables(s)
  BY <1>1, <1>2, <1>4, <1>5
     DEF PrepareTables, Enter, TypeOK, Phases, LockInv, WritersAreNamed,
         OpeningKnowsVersion, Outdated
<1>6. CASE ReadPlan(s)
  BY <1>1, <1>2, <1>4, <1>6
     DEF ReadPlan, Enter, database, TypeOK, Phases, LockInv, WritersAreNamed,
         OpeningKnowsVersion, Outdated
<1>7. CASE StampVersion(s)
  BY <1>1, <1>2, <1>4, <1>7
     DEF StampVersion, Enter, TypeOK, Phases, LockInv, WritersAreNamed,
         OpeningKnowsVersion, Outdated
<1>8. CASE Migrate(s)
  BY <1>1, <1>2, <1>4, <1>8
     DEF Migrate, Enter, TypeOK, Phases, LockInv, WritersAreNamed,
         OpeningKnowsVersion, Outdated
<1> QED
  BY <1>3, <1>5, <1>6, <1>7, <1>8 DEF OpenStep

(* Passes, open store's or closed one's, touch neither lock nor versions.  *)
LEMMA PassStepLock ==
    ASSUME LockInv, NEW s \in Stores, PassStep(s)
    PROVE  LockInv'
<1>1. UNCHANGED <<lockOwner, holder, stamped, phase, model>>
  BY DEF PassStep, Claim, StoreVectors, RecordFailure
<1> QED
  BY <1>1 DEF LockInv, WritersAreNamed, OpeningKnowsVersion, Outdated

LEMMA HostStepLock ==
    ASSUME TypeOK, LockInv, NEW s \in Stores, HostStep(s)
    PROVE  LockInv'
<1> USE DEF TypeOK, Phases, LockInv, WritersAreNamed, OpeningKnowsVersion, Outdated
<1>1. ASSUME NEW m \in Models, Acquire(s, m)
      PROVE  LockInv'
  <2>1. \A t \in Stores : t # s => phase[t] = "closed"
    BY <1>1, OthersAreClosed DEF Acquire, LockIsFree
  <2> QED
    BY <1>1, <2>1 DEF Acquire, Enter, database
<1>2. ASSUME Unlock(s), Enter(s, "closed"), UNCHANGED <<stamped, model>>
      PROVE  LockInv'
  <2>1. \A t \in Stores : phase'[t] # "closed" =>
            phase'[t] = phase[t] /\ lockOwner' = lockOwner
    BY <1>2 DEF Unlock, Enter
  <2> QED
    BY <1>2, <2>1 DEF Unlock
<1>3. CASE Veto(s) \/ Close(s) \/ Crash(s)
  BY <1>2, <1>3 DEF Veto, Close, Crash, database
<1>4. CASE (\E c \in Chunks : Ingest(s, c)) \/ StartDraining(s) \/ StopDraining(s)
  <2>1. UNCHANGED <<lockOwner, holder, stamped, phase, model>>
    BY <1>4 DEF Ingest, StartDraining, StopDraining, database, store
  <2> QED
    BY <2>1
<1> QED
  BY <1>1, <1>3, <1>4 DEF HostStep

-----------------------------------------------------------------------------
(* The chunks, their vectors and their jobs.                               *)

LEMMA InitChunks == Init => ChunkInv
BY FieldsOfNoJob
   DEF Init, ChunkInv, RowsHaveIds, WorkIsPresent, NothingBeforeFirstStamp,
       UnembeddedIsQueued, EmbeddedByStampedModel, Held

(* A step that leaves the data alone keeps what is said of it, if it makes *)
(* no store remember more than it did.                                     *)
LEMMA QuietStepChunks ==
    ASSUME TypeOK, ChunkInv,
           UNCHANGED <<stamped, present, embedded, vector, rows, late, torn>>,
           \A s \in Stores, c \in Chunks : copy'[s][c] \in {copy[s][c], NoCopy}
    PROVE  ChunkInv'
BY DEF ChunkInv, RowsHaveIds, WorkIsPresent, NothingBeforeFirstStamp,
       UnembeddedIsQueued, EmbeddedByStampedModel, Held

(* Queued work has an id.                                                  *)
LEMMA EnqueuedHasId ==
    ASSUME TypeOK, RowsHaveIds, NEW c \in Chunks
    PROVE  /\ Enqueued(rows[c], FreshId(c)).state # "none"
           /\ Enqueued(rows[c], FreshId(c)).id # NoId
<1>1. FreshId(c) \in Ids /\ FreshId(c) # NoId
  BY FreshIdExists, JobQueueAssumption DEF NoId
<1>2. rows[c] \in Row
  BY DEF TypeOK
<1> QED
  BY <1>1, <1>2, FieldsOfEnqueued DEF RowsHaveIds

LEMMA OpenStepChunks ==
    ASSUME TypeOK, TypeOK', LockInv, ChunkInv, NEW s \in Stores, OpenStep(s)
    PROVE  ChunkInv'
<1>1. CASE StampHolder(s) \/ ReadPlan(s)
  BY <1>1, QuietStepChunks DEF StampHolder, ReadPlan, database
<1>2. CASE PrepareTables(s)
  <2>1. \A c \in Chunks : /\ rows'[c].id = rows[c].id
                          /\ rows'[c].state = "none" <=> rows[c].state = "none"
    BY <1>2, FieldsOfReclaimed DEF PrepareTables, AbandonedReclaimed, TypeOK
  <2>2. UNCHANGED <<stamped, present, embedded, copy, late>>
    BY <1>2 DEF PrepareTables
  <2>3. RowsHaveIds' /\ WorkIsPresent' /\ NothingBeforeFirstStamp' /\ UnembeddedIsQueued'
    BY <2>1, <2>2
       DEF ChunkInv, RowsHaveIds, WorkIsPresent, NothingBeforeFirstStamp,
           UnembeddedIsQueued, Held, TypeOK
  <2>4. EmbeddedByStampedModel'
    <3>1. CASE tableWidth = Width[model[s]]
      BY <1>2, <2>2, <3>1 DEF PrepareTables, ChunkInv, EmbeddedByStampedModel, TypeOK
    <3>2. CASE tableWidth # Width[model[s]]
      <4>1. \A c \in Chunks : vector'[c] = NoModel
        BY <1>2, <3>2 DEF PrepareTables
      <4>2. ASSUME NEW c \in Chunks, embedded[c], c \notin late
            PROVE  torn'
        BY <1>2, <4>1, <4>2 DEF PrepareTables, ChunkInv, EmbeddedByStampedModel, TypeOK
      <4> QED
        BY <2>2, <4>1, <4>2 DEF EmbeddedByStampedModel
    <3> QED
      BY <3>1, <3>2
  <2> QED
    BY <2>3, <2>4 DEF ChunkInv
<1>3. CASE StampVersion(s)
  <2>1. stamped' \in Models /\ (stamped = NoModel \/ stamped = stamped')
    BY <1>3 DEF StampVersion, LockInv, OpeningKnowsVersion, Outdated
  <2>2. UNCHANGED <<present, embedded, vector, rows, copy, late, torn>>
    BY <1>3 DEF StampVersion
  <2>3. stamped = NoModel => \A c \in Chunks : ~embedded[c]
    BY DEF ChunkInv, NothingBeforeFirstStamp, WorkIsPresent, TypeOK
  <2> QED
    BY <2>1, <2>2, <2>3, StoreLifecycleAssumption
       DEF ChunkInv, RowsHaveIds, WorkIsPresent, NothingBeforeFirstStamp,
           UnembeddedIsQueued, EmbeddedByStampedModel, Held
<1>4. CASE Migrate(s)
  <2>1. stamped' \in Models /\ UNCHANGED <<present, copy>>
    BY <1>4 DEF Migrate, LockInv, OpeningKnowsVersion
  <2>2. \A c \in Chunks : ~embedded'[c]
    BY <1>4 DEF Migrate, CoverageInvalidated
  <2>3. \A c \in present : rows'[c].state # "none" /\ rows'[c].id # NoId
    BY <1>4, EnqueuedHasId DEF Migrate, ToEmbedAgain, TypeOK, ChunkInv
  <2>4. \A c \in Chunks \ present : rows'[c] = rows[c]
    BY <1>4 DEF Migrate, ToEmbedAgain
  <2> QED
    BY <2>1, <2>2, <2>3, <2>4, StoreLifecycleAssumption
       DEF ChunkInv, RowsHaveIds, WorkIsPresent, NothingBeforeFirstStamp,
           UnembeddedIsQueued, EmbeddedByStampedModel, Held, TypeOK
<1> QED
  BY <1>1, <1>2, <1>3, <1>4 DEF OpenStep

LEMMA PassStepChunks ==
    ASSUME TypeOK, TypeOK', LockInv, ChunkInv, NEW s \in Stores, PassStep(s)
    PROVE  ChunkInv'
<1>1. ASSUME UNCHANGED <<stamped, present, embedded, vector, torn>>,
             late \subseteq late'
      PROVE  EmbeddedByStampedModel' /\ NothingBeforeFirstStamp'
  BY <1>1 DEF ChunkInv, EmbeddedByStampedModel, NothingBeforeFirstStamp
<1>2. CASE Claim(s)
  <2>1. PICK batch \in SUBSET {c \in Chunks : Claimable(rows[c])} :
            /\ rows' = [c \in Chunks |-> IF c \in batch THEN Claimed(rows[c]) ELSE rows[c]]
            /\ copy' = [copy EXCEPT ![s] = [c \in Chunks |->
                    IF c \in batch THEN CopyOf(rows[c]) ELSE NoCopy]]
            /\ Touch(s, batch)
    BY <1>2 DEF Claim
  <2>2. UNCHANGED <<stamped, present, embedded, vector, torn>>
    BY <1>2 DEF Claim
  <2>3. EmbeddedByStampedModel' /\ NothingBeforeFirstStamp'
    BY <1>1, <2>1, <2>2 DEF Touch
  <2>4. \A c \in batch : rows[c].state = "pending"
    BY <2>1 DEF Claimable
  <2>5. \A c \in Chunks : /\ rows'[c].id = rows[c].id
                          /\ rows'[c].state = "none" <=> rows[c].state = "none"
    BY <2>1, <2>4, FieldsOfClaimed DEF TypeOK
  <2>6. \A c \in Chunks : c \in batch => c \in present /\ CopyOf(rows[c]).id # NoId
    BY <2>4, FieldsOfCopy DEF ChunkInv, RowsHaveIds, WorkIsPresent, TypeOK
  <2>7. \A t \in Stores, c \in Chunks :
            \/ copy'[t][c] \in {copy[t][c], NoCopy}
            \/ c \in batch /\ copy'[t][c] = CopyOf(rows[c])
    BY <2>1 DEF TypeOK
  <2>8. WorkIsPresent'
    BY <2>2, <2>5, <2>6, <2>7 DEF ChunkInv, WorkIsPresent, Held
  <2> QED
    BY <2>2, <2>3, <2>5, <2>8 DEF ChunkInv, RowsHaveIds, UnembeddedIsQueued, TypeOK
<1>3. CASE StoreVectors(s)
  <2>1. UNCHANGED <<stamped, present, torn>> /\ late \subseteq late'
    BY <1>3 DEF StoreVectors, Touch
  <2>2. \A c \in Chunks :
            \/ rows'[c] = rows[c]
            \/ rows'[c] = NoJob /\ c \in Held(s)
    BY <1>3 DEF StoreVectors, Completed
  <2>3. \A c \in Held(s) : c \in present /\ embedded'[c]
    BY <1>3 DEF StoreVectors, ChunkInv, WorkIsPresent, Held
  <2>4. \A c \in Chunks : c \notin Held(s) =>
            embedded'[c] = embedded[c] /\ vector'[c] = vector[c]
    BY <1>3 DEF StoreVectors, TypeOK
  <2>5. \A t \in Stores, c \in Chunks : copy'[t][c] \in {copy[t][c], NoCopy}
    BY <1>3 DEF StoreVectors, TypeOK
  <2>6. RowsHaveIds'
    BY <2>2, FieldsOfNoJob DEF ChunkInv, RowsHaveIds
  <2>7. WorkIsPresent'
    BY <2>1, <2>2, <2>3, <2>4, <2>5, FieldsOfNoJob DEF ChunkInv, WorkIsPresent, Held
  <2>8. NothingBeforeFirstStamp'
    BY <2>1 DEF ChunkInv, NothingBeforeFirstStamp
  <2>9. UnembeddedIsQueued'
    BY <2>1, <2>2, <2>3, <2>4 DEF ChunkInv, UnembeddedIsQueued, TypeOK
  <2>10. EmbeddedByStampedModel'
    <3>1. ASSUME NEW c \in Held(s), c \notin late'
          PROVE  vector'[c] = stamped /\ stamped # NoModel
      <4>1. phase[s] = "open"
        BY <1>3, <3>1 DEF StoreVectors, Touch
      <4>2. model[s] = stamped /\ model[s] \in Models
        BY <4>1 DEF LockInv, OpeningKnowsVersion
      <4> QED
        BY <1>3, <4>2, StoreLifecycleAssumption DEF StoreVectors, Held
    <3> QED
      BY <2>1, <2>4, <3>1 DEF ChunkInv, EmbeddedByStampedModel
  <2> QED
    BY <2>6, <2>7, <2>8, <2>9, <2>10 DEF ChunkInv
<1>4. ASSUME NEW isTransient \in BOOLEAN, RecordFailure(s, isTransient)
      PROVE  ChunkInv'
  <2>1. UNCHANGED <<stamped, present, embedded, vector, torn>> /\ late \subseteq late'
    BY <1>4 DEF RecordFailure, Touch
  <2>2. EmbeddedByStampedModel' /\ NothingBeforeFirstStamp'
    BY <1>1, <2>1
  <2>3. \A c \in Chunks : /\ rows'[c].id = rows[c].id
                          /\ rows'[c].state = "none" <=> rows[c].state = "none"
    <3> SUFFICES ASSUME NEW c \in Chunks
                 PROVE  /\ rows'[c].id = rows[c].id
                        /\ rows'[c].state = "none" <=> rows[c].state = "none"
      OBVIOUS
    <3>1. CASE c \notin Held(s)
      BY <1>4, <3>1 DEF RecordFailure
    <3>2. CASE c \in Held(s)
      <4>1. rows'[c] = Failed(rows[c], copy[s][c], isTransient)
        BY <1>4, <3>2 DEF RecordFailure
      <4>2. rows[c] \in Row /\ copy[s][c] \in Copy
        BY DEF TypeOK
      <4>3. rows[c].id = copy[s][c].id => rows[c].state # "none"
        BY <3>2 DEF ChunkInv, RowsHaveIds, WorkIsPresent
      <4> QED
        BY <4>1, <4>2, <4>3, FieldsOfFailed
    <3> QED
      BY <3>1, <3>2
  <2>4. \A t \in Stores, c \in Chunks : copy'[t][c] \in {copy[t][c], NoCopy}
    BY <1>4 DEF RecordFailure, TypeOK
  <2>5. RowsHaveIds' /\ UnembeddedIsQueued'
    BY <2>1, <2>3 DEF ChunkInv, RowsHaveIds, UnembeddedIsQueued, TypeOK
  <2>6. WorkIsPresent'
    BY <2>1, <2>3, <2>4 DEF ChunkInv, WorkIsPresent, Held
  <2> QED
    BY <2>2, <2>5, <2>6 DEF ChunkInv
<1> QED
  BY <1>2, <1>3, <1>4 DEF PassStep

LEMMA HostStepChunks ==
    ASSUME TypeOK, TypeOK', LockInv, ChunkInv, NEW s \in Stores, HostStep(s)
    PROVE  ChunkInv'
<1>1. CASE \/ \E m \in Models : Acquire(s, m)
           \/ Veto(s) \/ StartDraining(s) \/ StopDraining(s) \/ Close(s)
  BY <1>1, QuietStepChunks
     DEF Acquire, Veto, StartDraining, StopDraining, Close, database
<1>2. CASE Crash(s)
  <2>1. \A t \in Stores, c \in Chunks : copy'[t][c] \in {copy[t][c], NoCopy}
    BY <1>2 DEF Crash, TypeOK
  <2> QED
    BY <1>2, <2>1, QuietStepChunks DEF Crash, database
<1>3. ASSUME NEW c \in Chunks, Ingest(s, c)
      PROVE  ChunkInv'
  <2>1. /\ UNCHANGED <<stamped, embedded, vector, torn, copy, late>>
        /\ present' = present \cup {c}
    BY <1>3 DEF Ingest, store
  <2>2. stamped # NoModel
    BY <1>3, StoreLifecycleAssumption DEF Ingest, LockInv, OpeningKnowsVersion
  <2>3. rows'[c].state # "none" /\ rows'[c].id # NoId
    BY <1>3, EnqueuedHasId DEF Ingest, TypeOK, ChunkInv
  <2>4. \A d \in Chunks : d # c => rows'[d] = rows[d]
    BY <1>3 DEF Ingest, TypeOK
  <2> QED
    BY <2>1, <2>2, <2>3, <2>4
       DEF ChunkInv, RowsHaveIds, WorkIsPresent, NothingBeforeFirstStamp,
           UnembeddedIsQueued, EmbeddedByStampedModel, Held, TypeOK
<1> QED
  BY <1>1, <1>2, <1>3 DEF HostStep

LEMMA BackoffChunks ==
    ASSUME TypeOK, ChunkInv, NEW c \in Chunks, BackoffElapses(c)
    PROVE  ChunkInv'
<1>1. \A d \in Chunks : rows'[d].id = rows[d].id /\ rows'[d].state = rows[d].state
  BY DEF BackoffElapses, TypeOK, Row
<1>2. UNCHANGED <<stamped, present, embedded, vector, torn, copy, late>>
  BY DEF BackoffElapses, store
<1> QED
  BY <1>1, <1>2
     DEF ChunkInv, RowsHaveIds, WorkIsPresent, NothingBeforeFirstStamp,
         UnembeddedIsQueued, EmbeddedByStampedModel, Held, TypeOK

-----------------------------------------------------------------------------
(* The theorems.                                                           *)

LEMMA InitInv == Init => IInv
BY InitTypes, InitLock, InitChunks DEF IInv

LEMMA NextInv == IInv /\ [Next]_vars => IInv'
<1> SUFFICES ASSUME IInv, [Next]_vars PROVE IInv'
  OBVIOUS
<1> USE DEF IInv
<1>1. ASSUME NEW s \in Stores, OpenStep(s) PROVE IInv'
  BY <1>1, OpenStepTypes, OpenStepLock, OpenStepChunks
<1>2. ASSUME NEW s \in Stores, PassStep(s) PROVE IInv'
  BY <1>2, PassStepTypes, PassStepLock, PassStepChunks
<1>3. ASSUME NEW s \in Stores, HostStep(s) PROVE IInv'
  BY <1>3, HostStepTypes, HostStepLock, HostStepChunks
<1>4. ASSUME NEW c \in Chunks, BackoffElapses(c) PROVE IInv'
  <2>1. UNCHANGED <<lockOwner, holder, stamped, phase, model>>
    BY <1>4 DEF BackoffElapses, store
  <2>2. LockInv'
    BY <2>1 DEF LockInv, WritersAreNamed, OpeningKnowsVersion, Outdated
  <2> QED
    BY <1>4, <2>2, BackoffTypes, BackoffChunks
<1>5. CASE UNCHANGED vars
  <2>1. TypeOK' /\ LockInv'
    BY <1>5 DEF vars, database, store, TypeOK, LockInv, WritersAreNamed,
                OpeningKnowsVersion, Outdated
  <2>2. ChunkInv'
    BY <1>5, QuietStepChunks DEF vars, database, store
  <2> QED
    BY <2>1, <2>2
<1> QED
  BY <1>1, <1>2, <1>3, <1>4, <1>5 DEF Next

LEMMA Invariance == Spec => []IInv
BY InitInv, NextInv, PTL DEF Spec

(* Every variable keeps its type.                                          *)
THEOREM TypeCorrect == Spec => []TypeOK
BY Invariance, PTL DEF IInv

(* However many stores race for the database, one that got past flock has  *)
(* it to itself, and its name is on the lock file before it opens the pool. *)
THEOREM OneWriterAtATime == Spec => []WritersAreNamed
<1>1. IInv => WritersAreNamed
  BY DEF IInv, LockInv
<1> QED
  BY <1>1, Invariance, PTL

(* No open, crash, veto or late write loses the embedding of a chunk that  *)
(* counts as not embedded.                                                 *)
THEOREM NoReembeddingForgotten == Spec => []UnembeddedIsQueued
<1>1. IInv => UnembeddedIsQueued
  BY DEF IInv, ChunkInv
<1> QED
  BY <1>1, Invariance, PTL

(* Coverage tells the truth about the model, up to what closed stores      *)
(* wrote and torn opens dropped.                                           *)
THEOREM CoverageIsOfStampedModel == Spec => []EmbeddedByStampedModel
<1>1. IInv => EmbeddedByStampedModel
  BY DEF IInv, ChunkInv
<1> QED
  BY <1>1, Invariance, PTL

(* Only stamping another configuration takes coverage back.                *)
THEOREM NothingIsReembeddedTwice == Spec => ReembedsOnlyOnChange
<1> DEFINE Justified ==
        \A c \in Chunks : embedded[c] /\ ~embedded'[c] =>
            stamped # NoModel /\ stamped' # stamped
<1>1. ASSUME IInv, [Next]_vars PROVE [Justified]_vars
  <2>1. ASSUME NEW s \in Stores, Migrate(s) PROVE Justified
    BY <1>1, <2>1 DEF IInv, LockInv, OpeningKnowsVersion, Outdated, Migrate
  <2>2. ASSUME NEW s \in Stores, StoreVectors(s) PROVE Justified
    BY <2>2 DEF StoreVectors
  <2>3. ASSUME NEW s \in Stores, OpenStep(s), ~Migrate(s) PROVE Justified
    BY <2>3 DEF OpenStep, StampHolder, PrepareTables, ReadPlan, StampVersion, database
  <2>4. ASSUME NEW s \in Stores, PassStep(s), ~StoreVectors(s) PROVE Justified
    BY <2>4 DEF PassStep, Claim, RecordFailure
  <2>5. ASSUME NEW s \in Stores, HostStep(s) PROVE Justified
    BY <2>5 DEF HostStep, Acquire, Veto, Ingest, StartDraining, StopDraining, Close,
                Crash, database
  <2>6. ASSUME NEW c \in Chunks, BackoffElapses(c) PROVE Justified
    BY <2>6 DEF BackoffElapses
  <2> QED
    BY <1>1, <2>1, <2>2, <2>3, <2>4, <2>5, <2>6 DEF Next
<1> QED
  BY <1>1, Invariance, PTL DEF Spec, ReembedsOnlyOnChange

=============================================================================
