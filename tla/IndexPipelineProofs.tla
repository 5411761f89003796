------------------------ MODULE IndexPipelineProofs ------------------------
(***************************************************************************)
(* The safety of IndexPipeline for every set of chunks, texts and passes   *)
(* and every retry budget.  None of the invariants is inductive alone: a   *)
(* result that comes late is harmless because of what a pass remembers, so *)
(* the inductive invariant adds what relates the memory of the passes to   *)
(* the rows of the queue.                                                  *)
(***************************************************************************)
EXTENDS IndexPipeline, FiniteSetTheorems, TLAPS

(* A row that exists, and only that, has an id.                            *)
RowsHaveIds ==
    \A k \in Kinds, c \in Chunks : jobs[k][c].state = "none" <=> jobs[k][c].id = NoId

(* A pass remembers the id of a row and a count within the budget.         *)
CopiesHaveIds ==
    \A p \in Passes : \A c \in Held(p) :
        copy[p][c].id # NoId /\ copy[p][c].attempts < MaximumAttempts

(* A pass asks about, and retires, jobs it holds.                          *)
PassesHoldWhatTheyHandle ==
    \A p \in Passes : Asked(p) \cup orphans[p] \subseteq Held(p)

NoHashWithoutChunk ==
    \A k \in Kinds, c \in Chunks : content[c] = NoText => done[k][c] = NoText

DiscardedMeansGone ==
    \A k \in Kinds, c \in Chunks : lapse[k][c] = "discarded" => jobs[k][c].state = "none"

(* The chunk of an orphan took its row with it, and a row queued for the   *)
(* chunk's return has another id.                                          *)
OrphansHaveNoRow ==
    \A p \in Passes : \A c \in orphans[p] : jobs[turn[p]][c].id # copy[p][c].id

(* A pass whose job was not queued again under it read the text the chunk  *)
(* still has.                                                              *)
ReadIsCurrent ==
    \A p \in Passes : \A c \in Asked(p) :
        /\ turn[p] = "embed"
        /\ jobs["embed"][c].id = copy[p][c].id
        /\ lapse["embed"][c] = "none"
        => seen[p][c] = content[c]

(* Only deleting its chunk takes the row from a pass that holds it, unless  *)
(* the work was queued again.                                              *)
HeldRowIsThere ==
    \A p \in Passes : \A c \in Held(p) :
        /\ turn[p] = "embed"
        /\ content[c] # NoText
        /\ lapse["embed"][c] = "none"
        => jobs["embed"][c].id = copy[p][c].id

(* The inductive invariant, in the two halves the proofs take separately:  *)
(* what a row says by itself and with its chunk, and what the passes know. *)
RowInv ==
    /\ RowsHaveIds
    /\ BudgetDecidesDeadLetter
    /\ QueuedWorkHasChunk
    /\ NoHashWithoutChunk
    /\ DiscardedMeansGone
    /\ EmbeddedHashNamesVector
    /\ StaleChunkIsQueued
    /\ UnextractedChunkIsQueued

PassInv ==
    /\ CopiesHaveIds
    /\ PassesHoldWhatTheyHandle
    /\ OrphansHaveNoRow
    /\ ReadIsCurrent
    /\ HeldRowIsThere
    /\ ClaimIsCurrent

IInv == TypeOK /\ RowInv /\ PassInv

-----------------------------------------------------------------------------
(* What each operation of JobQueue makes of a row.                          *)

(* The operations on a row give a row.                                     *)
LEMMA RowOperationsGiveRows ==
    /\ NoJob \in Row
    /\ NoCopy \in Copy
    /\ \A row \in Row :
          /\ CopyOf(row) \in Copy
          /\ \A i \in Ids : Enqueued(row, i) \in Row
          /\ Claimed(row) \in Row
          /\ \A job \in Copy : Completed(row, job) \in Row
          /\ \A job \in Copy, isTransient \in BOOLEAN : Failed(row, job, isTransient) \in Row
          /\ Retried(row) \in Row
          /\ Reclaimed(row) \in Row
          /\ Discarded(row) \in Row
<1>1. NoJob \in Row /\ NoCopy \in Copy
  BY DEF Row, Copy, NoJob, NoCopy
<1>2. ASSUME NEW row \in Row, NEW i \in Ids
      PROVE  Enqueued(row, i) \in Row
  BY DEF Row, Enqueued
<1>3. ASSUME NEW row \in Row, NEW job \in Copy
      PROVE  Completed(row, job) \in Row /\ Discarded(row) \in Row
  BY <1>1 DEF Completed, Discarded
<1>4. ASSUME NEW row \in Row
      PROVE  Claimed(row) \in Row /\ Retried(row) \in Row /\ Reclaimed(row) \in Row
  BY DEF Row, Claimed, Retried, Reclaimed
<1>5. ASSUME NEW row \in Row, NEW job \in Copy, NEW isTransient \in BOOLEAN
      PROVE  Failed(row, job, isTransient) \in Row
  <2>1. AttemptsAfter(job, isTransient) \in Nat
    BY DEF AttemptsAfter, Copy
  <2> QED
    BY <2>1 DEF Row, Failed
<1>6. ASSUME NEW row \in Row
      PROVE  CopyOf(row) \in Copy
  BY DEF Row, Copy, CopyOf
<1> QED
  BY <1>1, <1>2, <1>3, <1>4, <1>5, <1>6 DEF Discarded

(* What the operations do to the fields the invariants speak of.           *)
LEMMA FieldsOfNoJob == NoJob.state = "none" /\ NoJob.id = NoId
BY DEF NoJob

LEMMA FieldsOfCopy ==
    ASSUME NEW row \in Row
    PROVE  CopyOf(row).id = row.id /\ CopyOf(row).attempts = row.attempts
BY DEF CopyOf

LEMMA FieldsOfEnqueued ==
    ASSUME NEW row \in Row, NEW i \in Ids
    PROVE  /\ Enqueued(row, i).state = "pending"
           /\ Enqueued(row, i).attempts = 0
           /\ Enqueued(row, i).due = TRUE
           /\ row.state = "none" => Enqueued(row, i).id = i
           /\ row.state # "none" => Enqueued(row, i).id = row.id
BY DEF Enqueued

LEMMA FieldsOfClaimed ==
    ASSUME NEW row \in Row
    PROVE  /\ Claimed(row).state = "running"
           /\ Claimed(row).id = row.id
           /\ Claimed(row).attempts = row.attempts
BY DEF Claimed, Row

LEMMA FieldsOfRetried ==
    ASSUME NEW row \in Row
    PROVE  /\ row.state # "failed" => Retried(row) = row
           /\ row.state = "failed" =>
                 /\ Retried(row).state = "pending"
                 /\ Retried(row).id = row.id
                 /\ Retried(row).attempts = 0
                 /\ Retried(row).due = TRUE
BY DEF Retried, Row

LEMMA FieldsOfReclaimed ==
    ASSUME NEW row \in Row
    PROVE  /\ row.state # "running" => Reclaimed(row) = row
           /\ row.state = "running" => Reclaimed(row).state = "pending"
           /\ Reclaimed(row).id = row.id
           /\ Reclaimed(row).attempts = row.attempts
BY DEF Reclaimed, Row

(* A failure changes only the row it is about, and dead-letters it exactly *)
(* when that spends the budget.                                            *)
LEMMA FieldsOfFailedRow ==
    ASSUME NEW row \in Row, NEW job \in Copy, NEW isTransient \in BOOLEAN,
           job.attempts < MaximumAttempts
    PROVE  LET after == Failed(row, job, isTransient)
           IN  /\ row.id # job.id => after = row
               /\ after.id = row.id
               /\ row.id = job.id =>
                     \/ after.state = "failed" /\ after.attempts = MaximumAttempts
                     \/ after.state = "pending" /\ after.attempts < MaximumAttempts
<1> DEFINE attempts  == AttemptsAfter(job, isTransient)
           exhausted == Exhausted(attempts, isTransient)
<1>1. attempts \in Nat /\ attempts <= MaximumAttempts
  BY JobQueueAssumption DEF AttemptsAfter, Copy
<1>2. IF exhausted THEN attempts = MaximumAttempts ELSE attempts < MaximumAttempts
  BY <1>1, JobQueueAssumption DEF AttemptsAfter, Exhausted, Copy
<1>3. CASE row.id # job.id
  BY <1>3 DEF Failed
<1>4. CASE row.id = job.id
  <2> DEFINE after == Failed(row, job, isTransient)
  <2>1. after.id = row.id /\ after.attempts = attempts
    BY <1>4 DEF Failed, Row
  <2>2. after.state = IF exhausted THEN "failed" ELSE "pending"
    BY <1>4 DEF Failed, Row
  <2> QED
    BY <1>2, <1>4, <2>1, <2>2
<1> QED
  BY <1>3, <1>4

-----------------------------------------------------------------------------
(* Ids.                                                                    *)

(* There are more ids than passes, so an INSERT finds one that no pass     *)
(* remembers for this chunk and queue.                                     *)
LEMMA FreshIdIsFresh ==
    ASSUME TypeOK, NEW k \in Kinds, NEW c \in Chunks
    PROVE  /\ FreshId(k, c) \in Ids
           /\ \A p \in Passes : turn[p] = k => copy[p][c].id # FreshId(k, c)
<1> DEFINE Free(i) == \A p \in Passes : turn[p] = k => copy[p][c].id # i
<1>1. \E i \in Ids : Free(i)
  <2> SUFFICES ASSUME \A i \in Ids : ~Free(i) PROVE FALSE
    OBVIOUS
  <2> DEFINE holder == [i \in Ids |-> CHOOSE p \in Passes : copy[p][c].id = i]
  <2>1. \A i \in Ids : holder[i] \in Passes /\ copy[holder[i]][c].id = i
    OBVIOUS
  <2>2. holder \in [Ids -> Passes]
    BY <2>1
  <2> HIDE DEF holder
  <2>3. \E i, j \in Ids : i # j /\ holder[i] = holder[j]
    BY <2>2, FS_PigeonHole, FS_CardinalityType, IndexPipelineAssumption
  <2> QED
    BY <2>1, <2>3
<1> QED
  BY <1>1 DEF FreshId

-----------------------------------------------------------------------------
(* Type correctness.                                                       *)

LEMMA InitTypes == Init => TypeOK
BY RowOperationsGiveRows, IndexPipelineAssumption
   DEF Init, TypeOK, TextOrNone, Kinds, Lapses, Row, NoJob, Copy, NoCopy, NoId

LEMMA ReleaseTypes ==
    ASSUME TypeOK, NEW p \in Passes, NEW S \in SUBSET Chunks, Release(p, S)
    PROVE  /\ turn'    \in [Passes -> Kinds]
           /\ copy'    \in [Passes -> [Chunks -> Copy]]
           /\ seen'    \in [Passes -> [Chunks -> TextOrNone]]
           /\ orphans' \in [Passes -> SUBSET Chunks]
<1>1. NoCopy \in Copy /\ NoText \in TextOrNone
  BY DEF NoCopy, Copy, NoId, TextOrNone
<1>2. \A k \in Kinds : OtherKind(k) \in Kinds
  BY DEF OtherKind, Kinds
<1>3. turn' \in [Passes -> Kinds]
  BY <1>2 DEF Release, TypeOK
<1>4. copy' \in [Passes -> [Chunks -> Copy]]
  BY <1>1 DEF Release, TypeOK
<1>5. seen' \in [Passes -> [Chunks -> TextOrNone]]
  BY <1>1 DEF Release, TypeOK
<1>6. orphans' \in [Passes -> SUBSET Chunks]
  BY DEF Release, TypeOK
<1> QED
  BY <1>3, <1>4, <1>5, <1>6

LEMMA ApplyDiffTypes ==
    ASSUME TypeOK, NEW text \in [Chunks -> TextOrNone], ApplyDiff(text)
    PROVE  TypeOK'
<1>1. \A k \in Kinds, c \in Chunks : JobAfter(text, k, c) \in Row
  <2>1. \A k \in Kinds, c \in Chunks : jobs[k][c] \in Row /\ FreshId(k, c) \in Ids
    BY FreshIdIsFresh DEF TypeOK
  <2> QED
    BY <2>1, RowOperationsGiveRows DEF JobAfter
<1>2. jobs' \in [Kinds -> [Chunks -> Row]]
  BY <1>1 DEF ApplyDiff
<1>3. done' \in [Kinds -> [Chunks -> TextOrNone]] /\ derived' \in [Kinds -> [Chunks -> TextOrNone]]
  BY DEF ApplyDiff, TypeOK, TextOrNone
<1>4. lapse' \in [Kinds -> [Chunks -> Lapses]]
  BY DEF ApplyDiff, TypeOK, Lapses
<1> QED
  BY <1>2, <1>3, <1>4 DEF ApplyDiff, TypeOK, passes

LEMMA PassStepTypes ==
    ASSUME TypeOK, NEW p \in Passes, PassStep(p)
    PROVE  TypeOK'
<1>0. \A k \in Kinds, c \in Chunks : Completed(jobs[k][c], copy[p][c]) \in Row
  BY RowOperationsGiveRows DEF TypeOK
<1>00. "embed" \in Kinds /\ "extract" \in Kinds /\ turn[p] \in Kinds
  BY DEF Kinds, TypeOK
<1>1. CASE Claim(p)
  <2>1. PICK batch \in SUBSET Due(turn[p]) :
          /\ jobs' = [jobs EXCEPT ![turn[p]] = [c \in Chunks |->
                  IF c \in batch THEN Claimed(@[c]) ELSE @[c]]]
          /\ copy' = [copy EXCEPT ![p] = [c \in Chunks |->
                  IF c \in batch THEN CopyOf(jobs[turn[p]][c]) ELSE NoCopy]]
    BY <1>1 DEF Claim
  <2>2. jobs' \in [Kinds -> [Chunks -> Row]]
    BY <2>1, RowOperationsGiveRows DEF TypeOK
  <2>3. copy' \in [Passes -> [Chunks -> Copy]]
    BY <2>1 DEF TypeOK, Row, Copy, CopyOf, NoCopy, NoId
  <2> QED
    BY <1>1, <2>2, <2>3 DEF Claim, TypeOK
<1>2. CASE FindNothingDue(p)
  <2>1. \A k \in Kinds : OtherKind(k) \in Kinds
    BY DEF OtherKind, Kinds
  <2> QED
    BY <1>2, <2>1 DEF FindNothingDue, TypeOK, store
<1>3. CASE ReadChunks(p)
  <2>1. seen' \in [Passes -> [Chunks -> TextOrNone]]
    BY <1>3 DEF ReadChunks, TypeOK, TextOrNone
  <2>2. orphans' \in [Passes -> SUBSET Chunks]
    BY <1>3 DEF ReadChunks, TypeOK, ReadSets, Held
  <2> QED
    BY <1>3, <2>1, <2>2 DEF ReadChunks, TypeOK, store
<1>4. CASE RetireOrphans(p)
  <2>1. jobs' \in [Kinds -> [Chunks -> Row]]
    BY <1>0, <1>00, <1>4 DEF RetireOrphans, TypeOK
  <2> QED
    BY <1>4, <2>1, ReleaseTypes DEF RetireOrphans, TypeOK
<1>5. CASE StoreVectors(p)
  <2>1. jobs' \in [Kinds -> [Chunks -> Row]]
    BY <1>0, <1>00, <1>5 DEF StoreVectors, TypeOK
  <2>2. done' \in [Kinds -> [Chunks -> TextOrNone]] /\ derived' \in [Kinds -> [Chunks -> TextOrNone]]
    BY <1>5 DEF StoreVectors, TypeOK, EmbeddedHash
  <2> QED
    BY <1>5, <2>1, <2>2, ReleaseTypes DEF StoreVectors, TypeOK, Asked
<1>6. CASE StoreFacts(p)
  <2>1. jobs' \in [Kinds -> [Chunks -> Row]]
    BY <1>0, <1>00, <1>6 DEF StoreFacts, TypeOK
  <2>2. done' \in [Kinds -> [Chunks -> TextOrNone]] /\ derived' \in [Kinds -> [Chunks -> TextOrNone]]
    BY <1>6 DEF StoreFacts, TypeOK
  <2> QED
    BY <1>6, <2>1, <2>2, ReleaseTypes DEF StoreFacts, TypeOK, Asked
<1>7. ASSUME NEW isTransient \in BOOLEAN, RecordFailure(p, isTransient)
      PROVE  TypeOK'
  <2>1. \A c \in Chunks : Failed(jobs[turn[p]][c], copy[p][c], isTransient) \in Row
    BY RowOperationsGiveRows DEF TypeOK
  <2>2. jobs' \in [Kinds -> [Chunks -> Row]]
    BY <1>7, <2>1 DEF RecordFailure, TypeOK
  <2> QED
    BY <1>7, <2>2, ReleaseTypes DEF RecordFailure, TypeOK, Asked
<1> QED
  BY <1>1, <1>2, <1>3, <1>4, <1>5, <1>6, <1>7 DEF PassStep

(* What a user or a later open may bring.                                  *)
LEMMA InputsHaveTypes ==
    /\ \A text \in Files : text \in [Chunks -> TextOrNone]
    /\ \A m \in Migrations : m.changed \in SUBSET Kinds /\ m.redimension \in BOOLEAN
BY IndexPipelineAssumption

LEMMA ReopenTypes ==
    ASSUME TypeOK, NEW graph \in GraphSettings, NEW changed \in SUBSET Kinds,
           NEW redimension \in BOOLEAN, Reopen(graph, changed, redimension)
    PROVE  TypeOK'
<1>1. jobs' \in [Kinds -> [Chunks -> Row]]
  <2>1. \A k \in Kinds, c \in Chunks :
          /\ NoJob \in Row
          /\ Reclaimed(jobs[k][c]) \in Row
          /\ Enqueued(Reclaimed(jobs[k][c]), FreshId(k, c)) \in Row
    BY FreshIdIsFresh, RowOperationsGiveRows DEF TypeOK
  <2> QED
    BY <2>1 DEF Reopen
<1>2. done' \in [Kinds -> [Chunks -> TextOrNone]] /\ derived' \in [Kinds -> [Chunks -> TextOrNone]]
  BY DEF Reopen, TypeOK, TextOrNone
<1>3. lapse' \in [Kinds -> [Chunks -> Lapses]]
  BY DEF Reopen, TypeOK, Lapses
<1>4. copy' \in [Passes -> [Chunks -> Copy]] /\ seen' \in [Passes -> [Chunks -> TextOrNone]]
  BY DEF Reopen, NoCopy, Copy, NoId, TextOrNone
<1> QED
  BY <1>1, <1>2, <1>3, <1>4, IndexPipelineAssumption DEF Reopen, TypeOK, Kinds

LEMMA NextTypes == TypeOK /\ [Next]_vars => TypeOK'
<1> SUFFICES ASSUME TypeOK, [Next]_vars PROVE TypeOK'
  OBVIOUS
<1>1. ASSUME NEW p \in Passes, PassStep(p) PROVE TypeOK'
  BY <1>1, PassStepTypes
<1>2. ASSUME NEW p \in Passes, AbandonPass(p) PROVE TypeOK'
  BY <1>2 DEF AbandonPass, TypeOK, store, NoCopy, Copy, NoId, TextOrNone, Kinds
<1>3. ASSUME NEW k \in Kinds, NEW c \in Chunks, BackoffElapses(k, c) PROVE TypeOK'
  <2>1. \A row \in Row : [row EXCEPT !.due = TRUE] \in Row
    BY DEF Row
  <2> QED
    BY <1>3, <2>1 DEF BackoffElapses, TypeOK, passes
<1>4. CASE User
  <2>1. ASSUME NEW text \in [Chunks -> TextOrNone], Ingest(text) PROVE TypeOK'
    BY <2>1, ApplyDiffTypes DEF Ingest
  <2>2. CASE RemoveDocument
    <3>1. [c \in Chunks |-> NoText] \in [Chunks -> TextOrNone]
      BY DEF TextOrNone
    <3> QED
      BY <2>2, <3>1, ApplyDiffTypes DEF RemoveDocument
  <2>3. ASSUME NEW kinds \in SUBSET Kinds, RetryFailedJobs(kinds) PROVE TypeOK'
    BY <2>3, RowOperationsGiveRows DEF RetryFailedJobs, TypeOK, passes
  <2>4. CASE DiscardFailedJobs
    BY <2>4, RowOperationsGiveRows DEF DiscardFailedJobs, TypeOK, passes, Lapses
  <2> QED
    BY <1>4, <2>1, <2>2, <2>3, <2>4, InputsHaveTypes DEF User
<1>5. ASSUME NEW graph \in GraphSettings, NEW changed \in SUBSET Kinds,
             NEW redimension \in BOOLEAN, Reopen(graph, changed, redimension)
      PROVE  TypeOK'
  BY <1>5, ReopenTypes
<1>6. CASE UNCHANGED vars
  BY <1>6 DEF TypeOK, vars
<1> QED
  BY <1>1, <1>2, <1>3, <1>4, <1>5, <1>6, InputsHaveTypes DEF Next

(* Every variable keeps the shape of the table or task state it stands for: *)
(* in particular no row ever has an attempt count below zero or no id that  *)
(* the queue gave out (JobRepository.swift).                                *)
THEOREM TypeCorrect == Spec => []TypeOK
<1>1. Init => TypeOK
  BY InitTypes
<1>2. TypeOK /\ [Next]_vars => TypeOK'
  BY NextTypes
<1> QED
  BY <1>1, <1>2, PTL DEF Spec

-----------------------------------------------------------------------------
(* The inductive invariant, action by action.                              *)

LEMMA InitInv == Init => IInv
<1> SUFFICES ASSUME Init PROVE IInv
  OBVIOUS
<1>1. TypeOK
  BY InitTypes
<1>2. RowInv
  BY JobQueueAssumption
     DEF Init, RowInv, RowsHaveIds, BudgetDecidesDeadLetter, QueuedWorkHasChunk,
         NoHashWithoutChunk, DiscardedMeansGone, EmbeddedHashNamesVector,
         StaleChunkIsQueued, UnextractedChunkIsQueued, NoJob, Kinds
<1>3. PassInv
  BY DEF Init, PassInv, CopiesHaveIds, PassesHoldWhatTheyHandle, OrphansHaveNoRow,
         ReadIsCurrent, HeldRowIsThere, ClaimIsCurrent, Held, Asked
<1> QED
  BY <1>1, <1>2, <1>3 DEF IInv

LEMMA ClaimInv ==
    ASSUME IInv, NEW p \in Passes, Claim(p)
    PROVE  RowInv' /\ PassInv'
<1> DEFINE k == turn[p]
<1>0. TypeOK /\ k \in Kinds
  BY DEF IInv, TypeOK
<1>1. PICK batch \in SUBSET Due(k) :
        /\ jobs' = [jobs EXCEPT ![k] = [c \in Chunks |->
                IF c \in batch THEN Claimed(@[c]) ELSE @[c]]]
        /\ copy' = [copy EXCEPT ![p] = [c \in Chunks |->
                IF c \in batch THEN CopyOf(jobs[k][c]) ELSE NoCopy]]
  BY DEF Claim
<1>2. UNCHANGED <<content, done, derived, graphOn, lapse, turn, seen, orphans>>
  BY DEF Claim
<1>3. \A o \in Kinds, c \in Chunks :
        jobs'[o][c] = IF o = k /\ c \in batch THEN Claimed(jobs[o][c]) ELSE jobs[o][c]
  BY <1>0, <1>1 DEF TypeOK
<1>4. \A c \in batch : c \in Chunks /\ jobs[k][c].state = "pending"
  BY DEF Due, Claimable
<1>5. \A o \in Kinds, c \in Chunks :
        /\ jobs'[o][c].id = jobs[o][c].id
        /\ jobs'[o][c].attempts = jobs[o][c].attempts
        /\ jobs'[o][c].state = IF o = k /\ c \in batch THEN "running" ELSE jobs[o][c].state
  <2> SUFFICES ASSUME NEW o \in Kinds, NEW c \in Chunks
               PROVE  /\ jobs'[o][c].id = jobs[o][c].id
                      /\ jobs'[o][c].attempts = jobs[o][c].attempts
                      /\ jobs'[o][c].state = IF o = k /\ c \in batch
                                            THEN "running" ELSE jobs[o][c].state
    OBVIOUS
  <2>1. jobs[o][c] \in Row
    BY <1>0 DEF TypeOK
  <2>2. CASE o = k /\ c \in batch
    <3>1. jobs'[o][c] = Claimed(jobs[o][c])
      BY <1>3, <2>2
    <3> QED
      BY <2>1, <2>2, <3>1, FieldsOfClaimed
  <2>3. CASE ~(o = k /\ c \in batch)
    <3>1. jobs'[o][c] = jobs[o][c]
      BY <1>3, <2>3
    <3> QED
      BY <2>3, <3>1
  <2> QED
    BY <2>2, <2>3
<1>6. RowInv'
  BY <1>0, <1>2, <1>4, <1>5
     DEF IInv, RowInv, RowsHaveIds, BudgetDecidesDeadLetter, QueuedWorkHasChunk,
         NoHashWithoutChunk, DiscardedMeansGone, EmbeddedHashNamesVector,
         StaleChunkIsQueued, UnextractedChunkIsQueued, Kinds
<1>7. \A q \in Passes, c \in Chunks :
        copy'[q][c] = IF q = p
                      THEN IF c \in batch THEN CopyOf(jobs[k][c]) ELSE NoCopy
                      ELSE copy[q][c]
  BY <1>1 DEF IInv, TypeOK
<1>8. Held(p) = {} /\ Asked(p) = {} /\ orphans[p] = {}
  BY DEF Claim, IInv, PassInv, PassesHoldWhatTheyHandle
<1>9. PassesHoldWhatTheyHandle'
  BY <1>2, <1>7, <1>8 DEF IInv, PassInv, PassesHoldWhatTheyHandle, Held, Asked
<1>10. CopiesHaveIds'
  <2> SUFFICES ASSUME NEW q \in Passes, NEW c \in Chunks, copy'[q][c] # NoCopy
               PROVE  copy'[q][c].id # NoId /\ copy'[q][c].attempts < MaximumAttempts
    BY DEF CopiesHaveIds, Held
  <2>1. CASE q # p
    BY <1>7, <2>1 DEF IInv, PassInv, CopiesHaveIds, Held
  <2>2. CASE q = p
    <3>1. c \in batch /\ copy'[p][c] = CopyOf(jobs[k][c])
      BY <1>7, <2>2
    <3>2. jobs[k][c] \in Row /\ jobs[k][c].state = "pending"
      BY <1>0, <1>4, <3>1 DEF TypeOK
    <3> QED
      BY <1>0, <2>2, <3>1, <3>2, FieldsOfCopy
         DEF IInv, RowInv, RowsHaveIds, BudgetDecidesDeadLetter
  <2> QED
    BY <2>1, <2>2
<1>11. OrphansHaveNoRow'
  <2> SUFFICES ASSUME NEW q \in Passes, NEW c \in orphans[q]
               PROVE  jobs'[turn[q]][c].id # copy'[q][c].id
    BY <1>2 DEF OrphansHaveNoRow
  <2>1. c \in Chunks /\ turn[q] \in Kinds /\ q # p
    BY <1>0, <1>8 DEF TypeOK
  <2> QED
    BY <1>5, <1>7, <2>1 DEF IInv, PassInv, OrphansHaveNoRow
<1>12. ReadIsCurrent'
  <2> SUFFICES ASSUME NEW q \in Passes, NEW c \in Chunks, seen[q][c] # NoText,
                      turn[q] = "embed", jobs'["embed"][c].id = copy'[q][c].id,
                      lapse["embed"][c] = "none"
               PROVE  seen[q][c] = content[c]
    BY <1>2 DEF ReadIsCurrent, Asked
  <2>1. q # p
    BY <1>8 DEF Asked
  <2> QED
    BY <1>5, <1>7, <2>1 DEF IInv, PassInv, ReadIsCurrent, Asked, Kinds
<1>13. ClaimIsCurrent'
  <2> SUFFICES ASSUME NEW q \in Passes, NEW c \in Chunks, copy'[q][c] # NoCopy,
                      jobs'[turn[q]][c].id = copy'[q][c].id, lapse[turn[q]][c] = "none"
               PROVE  /\ jobs'[turn[q]][c].state = "running"
                      /\ jobs'[turn[q]][c].attempts = copy'[q][c].attempts
                      /\ \A r \in Passes \ {q} :
                            turn[r] = turn[q] => copy'[r][c].id # jobs'[turn[q]][c].id
    BY <1>2 DEF ClaimIsCurrent, Held
  <2>0. turn[q] \in Kinds /\ jobs[turn[q]][c] \in Row
    BY <1>0 DEF TypeOK
  <2>1. ASSUME NEW r \in Passes, c \in Held(r), turn[r] = turn[q],
               copy[r][c].id = jobs[turn[q]][c].id
        PROVE  jobs[turn[q]][c].state = "running"
    BY <2>0, <2>1, <1>5 DEF IInv, PassInv, ClaimIsCurrent
  <2>2. CASE q = p
    <3>1. c \in batch /\ copy'[p][c] = CopyOf(jobs[k][c]) /\ jobs[k][c].state = "pending"
      BY <1>4, <1>7, <2>2
    <3>2. \A r \in Passes \ {p} : turn[r] = k => copy[r][c].id # jobs[k][c].id
      BY <1>2, <1>5, <2>0, <2>1, <2>2, <3>1
         DEF IInv, RowInv, RowsHaveIds, Held, NoCopy
    <3> QED
      BY <1>5, <1>7, <2>0, <2>2, <3>1, <3>2, FieldsOfCopy
  <2>3. CASE q # p
    <3>1. copy'[q][c] = copy[q][c] /\ c \in Held(q) /\ jobs[turn[q]][c].id = copy[q][c].id
      BY <1>5, <1>7, <2>0, <2>3 DEF Held
    <3>2. /\ jobs[turn[q]][c].state = "running"
          /\ jobs[turn[q]][c].attempts = copy[q][c].attempts
          /\ \A r \in Passes \ {q} : turn[r] = turn[q] => copy[r][c].id # jobs[turn[q]][c].id
      BY <3>1 DEF IInv, PassInv, ClaimIsCurrent
    <3>3. ~(turn[q] = k /\ c \in batch)
      BY <1>4, <3>2
    <3>4. copy'[p][c].id # jobs[turn[q]][c].id \/ turn[p] # turn[q]
      BY <1>7, <3>1, <3>3 DEF IInv, PassInv, CopiesHaveIds, NoCopy
    <3> QED
      BY <1>5, <1>7, <2>0, <2>3, <3>1, <3>2, <3>4
  <2> QED
    BY <2>2, <2>3
<1>14. HeldRowIsThere'
  <2> SUFFICES ASSUME NEW q \in Passes, NEW c \in Chunks, copy'[q][c] # NoCopy,
                      turn[q] = "embed", content[c] # NoText, lapse["embed"][c] = "none"
               PROVE  jobs'["embed"][c].id = copy'[q][c].id
    BY <1>2 DEF HeldRowIsThere, Held
  <2>1. CASE q # p
    BY <1>5, <1>7, <2>1 DEF IInv, PassInv, HeldRowIsThere, Held, Kinds
  <2>2. CASE q = p
    <3>1. c \in batch /\ copy'[p][c] = CopyOf(jobs[k][c]) /\ jobs[k][c] \in Row
      BY <1>0, <1>7, <2>2 DEF TypeOK
    <3> QED
      BY <1>0, <1>5, <2>2, <3>1, FieldsOfCopy
  <2> QED
    BY <2>1, <2>2
<1> QED
  BY <1>6, <1>9, <1>10, <1>11, <1>12, <1>13, <1>14 DEF PassInv

(* A step that changes no chunk and neither creates nor deletes a row.     *)
LEMMA RowsPersist ==
    ASSUME IInv, UNCHANGED <<content, done, derived, graphOn, lapse>>,
           \A k \in Kinds, c \in Chunks :
               /\ jobs'[k][c].id = jobs[k][c].id
               /\ jobs'[k][c].state = "none" <=> jobs[k][c].state = "none",
           BudgetDecidesDeadLetter'
    PROVE  RowInv'
BY DEF IInv, RowInv, RowsHaveIds, QueuedWorkHasChunk, NoHashWithoutChunk, DiscardedMeansGone,
       EmbeddedHashNamesVector, StaleChunkIsQueued, UnextractedChunkIsQueued, Kinds

LEMMA StoreUntouched ==
    ASSUME IInv, UNCHANGED store
    PROVE  RowInv'
BY DEF IInv, RowInv, RowsHaveIds, BudgetDecidesDeadLetter, QueuedWorkHasChunk,
       NoHashWithoutChunk, DiscardedMeansGone, EmbeddedHashNamesVector,
       StaleChunkIsQueued, UnextractedChunkIsQueued, store

(* What the other passes know stays true when one pass is through with S:  *)
(* it touched no row but those it holds, and kept their ids or deleted     *)
(* them.                                                                   *)
LEMMA ReleaseInv ==
    ASSUME IInv, NEW p \in Passes, NEW S \in SUBSET Chunks, Release(p, S),
           UNCHANGED <<content, lapse>>,
           \A k \in Kinds, c \in Chunks :
               \/ jobs'[k][c] = jobs[k][c]
               \/ /\ k = turn[p] /\ c \in S \cap Held(p)
                  /\ jobs[k][c].id = copy[p][c].id
                  /\ jobs'[k][c].id \in {NoId, jobs[k][c].id}
    PROVE  PassInv'
<1>0. TypeOK /\ \A q \in Passes : turn[q] \in Kinds
  BY DEF IInv, TypeOK
<1>1. \A q \in Passes : q # p =>
        /\ turn'[q] = turn[q] /\ orphans'[q] = orphans[q]
        /\ copy'[q] = copy[q] /\ seen'[q] = seen[q]
  BY <1>0 DEF Release, TypeOK
<1>2. orphans'[p] = {} /\ \A c \in S : copy'[p][c] = NoCopy /\ seen'[p][c] = NoText
  BY <1>0 DEF Release, TypeOK
<1>3. \A c \in Chunks \ S : copy'[p][c] = copy[p][c] /\ seen'[p][c] = seen[p][c]
  BY <1>0 DEF Release, TypeOK
<1>4. \A c \in Held(p) \ S : turn'[p] = turn[p]
  BY <1>0 DEF Release, TypeOK
<1>5. NoCopy.id = NoId
  BY DEF NoCopy
<1>6. CopiesHaveIds'
  <2> SUFFICES ASSUME NEW q \in Passes, NEW c \in Chunks, copy'[q][c] # NoCopy
               PROVE  copy'[q][c].id # NoId /\ copy'[q][c].attempts < MaximumAttempts
    BY DEF CopiesHaveIds, Held
  <2>1. copy'[q][c] = copy[q][c]
    BY <1>1, <1>2, <1>3
  <2> QED
    BY <2>1 DEF IInv, PassInv, CopiesHaveIds, Held
<1>7. PassesHoldWhatTheyHandle'
  BY <1>1, <1>2, <1>3 DEF IInv, PassInv, PassesHoldWhatTheyHandle, Held, Asked
<1>8. OrphansHaveNoRow'
  <2> SUFFICES ASSUME NEW q \in Passes, NEW c \in orphans'[q]
               PROVE  jobs'[turn'[q]][c].id # copy'[q][c].id
    BY DEF OrphansHaveNoRow
  <2>1. q # p /\ c \in orphans[q] /\ c \in Held(q)
    BY <1>1, <1>2 DEF IInv, PassInv, PassesHoldWhatTheyHandle
  <2>2. jobs[turn[q]][c].id # copy[q][c].id /\ copy[q][c].id # NoId
    BY <2>1 DEF IInv, PassInv, OrphansHaveNoRow, CopiesHaveIds
  <2> QED
    BY <1>0, <1>1, <2>1, <2>2 DEF Held
<1>9. ReadIsCurrent'
  <2> SUFFICES ASSUME NEW q \in Passes, NEW c \in Chunks, seen'[q][c] # NoText,
                      turn'[q] = "embed", jobs'["embed"][c].id = copy'[q][c].id,
                      lapse["embed"][c] = "none"
               PROVE  seen'[q][c] = content[c]
    BY DEF ReadIsCurrent, Asked
  <2>1. seen'[q][c] = seen[q][c] /\ copy'[q][c] = copy[q][c] /\ c \in Held(q)
    BY <1>1, <1>2, <1>3 DEF IInv, PassInv, PassesHoldWhatTheyHandle, Asked
  <2>2. turn[q] = "embed"
    BY <1>1, <1>2, <1>4, <2>1
  <2>3. copy[q][c].id # NoId
    BY <2>1 DEF IInv, PassInv, CopiesHaveIds
  <2>4. jobs["embed"][c].id = copy[q][c].id
    BY <2>1, <2>3 DEF Kinds
  <2> QED
    BY <2>1, <2>2, <2>4 DEF IInv, PassInv, ReadIsCurrent, Asked
<1>10. ClaimIsCurrent'
  <2> SUFFICES ASSUME NEW q \in Passes, NEW c \in Chunks, copy'[q][c] # NoCopy,
                      jobs'[turn'[q]][c].id = copy'[q][c].id, lapse[turn'[q]][c] = "none"
               PROVE  /\ jobs'[turn'[q]][c].state = "running"
                      /\ jobs'[turn'[q]][c].attempts = copy'[q][c].attempts
                      /\ \A r \in Passes \ {q} :
                            turn'[r] = turn'[q] => copy'[r][c].id # jobs'[turn'[q]][c].id
    BY DEF ClaimIsCurrent, Held
  <2>1. copy'[q][c] = copy[q][c] /\ c \in Held(q) /\ ~(q = p /\ c \in S)
    BY <1>1, <1>2, <1>3 DEF Held
  <2>2. turn'[q] = turn[q]
    BY <1>1, <1>4, <2>1
  <2>3. copy[q][c].id # NoId
    BY <2>1 DEF IInv, PassInv, CopiesHaveIds
  <2>4. jobs[turn[q]][c].id = copy[q][c].id
    BY <1>0, <2>1, <2>2, <2>3
  <2>5. /\ jobs[turn[q]][c].state = "running"
        /\ jobs[turn[q]][c].attempts = copy[q][c].attempts
        /\ \A r \in Passes \ {q} : turn[r] = turn[q] => copy[r][c].id # jobs[turn[q]][c].id
    BY <2>1, <2>2, <2>4 DEF IInv, PassInv, ClaimIsCurrent
  <2>6. jobs'[turn[q]][c] = jobs[turn[q]][c]
    BY <1>0, <2>1, <2>5
  <2>7. ASSUME NEW r \in Passes \ {q}, turn'[r] = turn'[q]
        PROVE  copy'[r][c].id # jobs[turn[q]][c].id
    <3>1. CASE r # p \/ c \in Held(p) \ S
      BY <1>1, <1>3, <1>4, <2>2, <2>5, <2>7, <3>1
    <3>2. CASE r = p /\ (c \notin Held(p) \/ c \in S)
      BY <1>2, <1>3, <1>5, <2>3, <2>4, <3>2 DEF Held
    <3> QED
      BY <3>1, <3>2
  <2> QED
    BY <2>1, <2>2, <2>5, <2>6, <2>7
<1>11. HeldRowIsThere'
  <2> SUFFICES ASSUME NEW q \in Passes, NEW c \in Chunks, copy'[q][c] # NoCopy,
                      turn'[q] = "embed", content[c] # NoText, lapse["embed"][c] = "none"
               PROVE  jobs'["embed"][c].id = copy'[q][c].id
    BY DEF HeldRowIsThere, Held
  <2>1. copy'[q][c] = copy[q][c] /\ c \in Held(q) /\ ~(q = p /\ c \in S)
    BY <1>1, <1>2, <1>3 DEF Held
  <2>2. turn[q] = "embed"
    BY <1>1, <1>4, <2>1
  <2>3. jobs["embed"][c].id = copy[q][c].id
    BY <2>1, <2>2 DEF IInv, PassInv, HeldRowIsThere
  <2>4. jobs'["embed"][c] = jobs["embed"][c]
    BY <1>0, <2>1, <2>2, <2>3 DEF IInv, PassInv, ClaimIsCurrent
  <2> QED
    BY <2>1, <2>3, <2>4
<1> QED
  BY <1>6, <1>7, <1>8, <1>9, <1>10, <1>11 DEF PassInv

(* Idle passes hold nothing, so which queue is next concerns nobody.       *)
LEMMA FindNothingDueInv ==
    ASSUME IInv, NEW p \in Passes, FindNothingDue(p)
    PROVE  RowInv' /\ PassInv'
<1>0. TypeOK /\ Held(p) = {} /\ Asked(p) = {} /\ orphans[p] = {}
  BY DEF IInv, PassInv, PassesHoldWhatTheyHandle, FindNothingDue
<1>1. UNCHANGED <<store, copy, seen, orphans>> /\ \A q \in Passes : q # p => turn'[q] = turn[q]
  BY <1>0 DEF FindNothingDue, TypeOK
<1>2. \A c \in Chunks : copy[p][c].id = NoId
  BY <1>0 DEF Held, NoCopy
<1>3. CopiesHaveIds' /\ PassesHoldWhatTheyHandle'
  BY <1>1 DEF IInv, PassInv, CopiesHaveIds, PassesHoldWhatTheyHandle, Held, Asked
<1>4. OrphansHaveNoRow' /\ ReadIsCurrent' /\ HeldRowIsThere'
  BY <1>0, <1>1
     DEF IInv, PassInv, OrphansHaveNoRow, ReadIsCurrent, HeldRowIsThere, Asked, Held, store
<1>5. ClaimIsCurrent'
  <2> SUFFICES ASSUME NEW q \in Passes, NEW c \in Held(q),
                      jobs[turn'[q]][c].id = copy[q][c].id, lapse[turn'[q]][c] = "none"
               PROVE  /\ jobs[turn'[q]][c].state = "running"
                      /\ jobs[turn'[q]][c].attempts = copy[q][c].attempts
                      /\ \A r \in Passes \ {q} :
                            turn'[r] = turn'[q] => copy[r][c].id # jobs[turn'[q]][c].id
    BY <1>1 DEF ClaimIsCurrent, Held, store
  <2>1. q # p /\ turn'[q] = turn[q] /\ c \in Chunks
    BY <1>0, <1>1 DEF Held
  <2>2. copy[q][c].id # NoId
    BY DEF IInv, PassInv, CopiesHaveIds
  <2>3. /\ jobs[turn[q]][c].state = "running"
        /\ jobs[turn[q]][c].attempts = copy[q][c].attempts
        /\ \A r \in Passes \ {q} : turn[r] = turn[q] => copy[r][c].id # jobs[turn[q]][c].id
    BY <2>1 DEF IInv, PassInv, ClaimIsCurrent
  <2> QED
    BY <1>1, <1>2, <2>1, <2>2, <2>3
<1> QED
  BY <1>1, <1>3, <1>4, <1>5, StoreUntouched DEF PassInv

LEMMA ReadChunksInv ==
    ASSUME IInv, NEW p \in Passes, ReadChunks(p)
    PROVE  RowInv' /\ PassInv'
<1>0. TypeOK /\ turn[p] \in Kinds
  BY DEF IInv, TypeOK
<1>1. UNCHANGED <<store, turn, copy>>
  BY DEF ReadChunks
<1>2. PICK S \in ReadSets(p) :
        /\ seen' = [seen EXCEPT ![p] = [c \in Chunks |-> IF c \in S THEN content[c] ELSE NoText]]
        /\ orphans' = [orphans EXCEPT ![p] = {c \in S : content[c] = NoText}]
  BY DEF ReadChunks
<1>3. S \subseteq Held(p)
  BY DEF ReadSets
<1>4. \A q \in Passes : q # p => seen'[q] = seen[q] /\ orphans'[q] = orphans[q]
  BY <1>0, <1>2 DEF TypeOK
<1>5. /\ orphans'[p] = {c \in S : content[c] = NoText}
      /\ \A c \in Chunks : seen'[p][c] = IF c \in S THEN content[c] ELSE NoText
  BY <1>0, <1>2 DEF TypeOK
<1>6. CopiesHaveIds' /\ HeldRowIsThere' /\ ClaimIsCurrent'
  BY <1>1 DEF IInv, PassInv, CopiesHaveIds, HeldRowIsThere, ClaimIsCurrent, Held, store
<1>7. PassesHoldWhatTheyHandle'
  BY <1>1, <1>3, <1>4, <1>5 DEF IInv, PassInv, PassesHoldWhatTheyHandle, Held, Asked
<1>8. OrphansHaveNoRow'
  <2> SUFFICES ASSUME NEW q \in Passes, NEW c \in orphans'[q]
               PROVE  jobs[turn[q]][c].id # copy[q][c].id
    BY <1>1 DEF OrphansHaveNoRow, store
  <2>1. CASE q # p
    BY <1>4, <2>1 DEF IInv, PassInv, OrphansHaveNoRow
  <2>2. CASE q = p
    <3>1. c \in Held(p) /\ c \in Chunks /\ content[c] = NoText
      BY <1>3, <1>5, <2>2 DEF Held
    <3>2. jobs[turn[p]][c].id = NoId
      BY <1>0, <3>1 DEF IInv, RowInv, RowsHaveIds, QueuedWorkHasChunk
    <3> QED
      BY <2>2, <3>1, <3>2 DEF IInv, PassInv, CopiesHaveIds
  <2> QED
    BY <2>1, <2>2
<1>9. ReadIsCurrent'
  BY <1>1, <1>4, <1>5 DEF IInv, PassInv, ReadIsCurrent, Asked, store
<1> QED
  BY <1>1, <1>6, <1>7, <1>8, <1>9, StoreUntouched DEF PassInv

(* The queue never holds a job a pass would retire as an orphan: it went   *)
(* with its chunk, and a job queued since has another id.                  *)
LEMMA RetireOrphansInv ==
    ASSUME IInv, NEW p \in Passes, RetireOrphans(p)
    PROVE  RowInv' /\ PassInv'
<1>0. TypeOK /\ turn[p] \in Kinds /\ orphans[p] \in SUBSET Chunks
  BY DEF IInv, TypeOK
<1>1. \A c \in orphans[p] : Completed(jobs[turn[p]][c], copy[p][c]) = jobs[turn[p]][c]
  BY DEF IInv, PassInv, OrphansHaveNoRow, Completed
<1>2. \A k \in Kinds, c \in Chunks : jobs'[k][c] = jobs[k][c]
  BY <1>0, <1>1 DEF RetireOrphans, TypeOK
<1>3. Release(p, orphans[p]) /\ UNCHANGED <<content, done, derived, graphOn, lapse>>
  BY DEF RetireOrphans
<1>4. BudgetDecidesDeadLetter'
  BY <1>2 DEF IInv, RowInv, BudgetDecidesDeadLetter
<1>5. RowInv'
  BY <1>2, <1>3, <1>4, RowsPersist
<1>6. PassInv'
  BY <1>0, <1>2, <1>3, ReleaseInv
<1> QED
  BY <1>5, <1>6

LEMMA RecordFailureInv ==
    ASSUME IInv, NEW p \in Passes, NEW isTransient \in BOOLEAN, RecordFailure(p, isTransient)
    PROVE  RowInv' /\ PassInv'
<1> DEFINE after(c) == Failed(jobs[turn[p]][c], copy[p][c], isTransient)
<1>0. /\ TypeOK /\ turn[p] \in Kinds
      /\ Asked(p) \subseteq Held(p) /\ Asked(p) \in SUBSET Chunks
      /\ \A k \in Kinds, c \in Chunks : jobs[k][c] \in Row /\ copy[p][c] \in Copy
  BY DEF IInv, TypeOK, PassInv, PassesHoldWhatTheyHandle, Asked
<1>1. \A k \in Kinds, c \in Chunks :
        jobs'[k][c] = IF k = turn[p] /\ c \in Asked(p) THEN after(c) ELSE jobs[k][c]
  BY <1>0 DEF RecordFailure, TypeOK
<1>2. ASSUME NEW c \in Asked(p)
      PROVE  /\ jobs[turn[p]][c].id # copy[p][c].id => after(c) = jobs[turn[p]][c]
             /\ after(c).id = jobs[turn[p]][c].id
             /\ jobs[turn[p]][c].id = copy[p][c].id =>
                   \/ after(c).state = "failed" /\ after(c).attempts = MaximumAttempts
                   \/ after(c).state = "pending" /\ after(c).attempts < MaximumAttempts
  <2>1. copy[p][c].attempts < MaximumAttempts /\ c \in Chunks
    BY <1>0 DEF IInv, PassInv, CopiesHaveIds
  <2> QED
    BY <1>0, <2>1, FieldsOfFailedRow
<1>3. \A c \in Asked(p) : jobs[turn[p]][c].id = copy[p][c].id => jobs[turn[p]][c].state # "none"
  BY <1>0 DEF IInv, RowInv, RowsHaveIds, PassInv, CopiesHaveIds
<1>4. Release(p, Asked(p)) /\ UNCHANGED <<content, done, derived, graphOn, lapse>>
  BY DEF RecordFailure
<1> HIDE DEF after
<1>5. \A k \in Kinds, c \in Chunks :
        /\ jobs'[k][c].id = jobs[k][c].id
        /\ jobs'[k][c].state = "none" <=> jobs[k][c].state = "none"
  BY <1>0, <1>1, <1>2, <1>3
<1>6. BudgetDecidesDeadLetter'
  <2> SUFFICES ASSUME NEW k \in Kinds, NEW c \in Chunks
               PROVE  /\ jobs'[k][c].state = "failed" => jobs'[k][c].attempts = MaximumAttempts
                      /\ jobs'[k][c].state \in {"pending", "running"} =>
                             jobs'[k][c].attempts < MaximumAttempts
    BY DEF BudgetDecidesDeadLetter
  <2>1. CASE jobs'[k][c] = jobs[k][c]
    BY <2>1 DEF IInv, RowInv, BudgetDecidesDeadLetter
  <2>2. CASE jobs'[k][c] # jobs[k][c]
    BY <1>1, <1>2, <2>2, JobQueueAssumption
  <2> QED
    BY <2>1, <2>2
<1>7. RowInv'
  BY <1>4, <1>5, <1>6, RowsPersist
<1>8. PassInv'
  BY <1>0, <1>1, <1>2, <1>4, ReleaseInv
<1> QED
  BY <1>7, <1>8

LEMMA StoreVectorsInv ==
    ASSUME IInv, NEW p \in Passes, StoreVectors(p)
    PROVE  RowInv' /\ PassInv'
<1>0. /\ TypeOK /\ turn[p] = "embed" /\ Kinds = {"embed", "extract"}
      /\ Asked(p) \subseteq Held(p) /\ Asked(p) \in SUBSET Chunks
  BY DEF IInv, TypeOK, PassInv, PassesHoldWhatTheyHandle, Asked, StoreVectors, Kinds
<1>1. /\ UNCHANGED <<content, graphOn, lapse>> /\ Release(p, Asked(p))
      /\ jobs'["extract"] = jobs["extract"]
      /\ done'["extract"] = done["extract"] /\ derived'["extract"] = derived["extract"]
  BY <1>0 DEF StoreVectors, TypeOK
<1>2. \A c \in Asked(p) :
        /\ derived'["embed"][c] = seen[p][c]
        /\ done'["embed"][c] = IF content[c] # NoText THEN seen[p][c] ELSE done["embed"][c]
        /\ jobs'["embed"][c] = IF jobs["embed"][c].id = copy[p][c].id
                               THEN NoJob ELSE jobs["embed"][c]
  BY <1>0 DEF StoreVectors, TypeOK, EmbeddedHash, Completed
<1>3. \A c \in Chunks \ Asked(p) :
        /\ derived'["embed"][c] = derived["embed"][c]
        /\ done'["embed"][c] = done["embed"][c]
        /\ jobs'["embed"][c] = jobs["embed"][c]
  BY <1>0 DEF StoreVectors, TypeOK
<1>4. \A k \in Kinds, c \in Chunks :
        \/ jobs'[k][c] = jobs[k][c]
        \/ /\ k = turn[p] /\ c \in Asked(p) /\ jobs[k][c].id = copy[p][c].id
           /\ jobs'[k][c].state = "none" /\ jobs'[k][c].id = NoId
  BY <1>0, <1>1, <1>2, <1>3, FieldsOfNoJob
<1>5. PassInv'
  BY <1>0, <1>1, <1>4, ReleaseInv
<1>6. RowsHaveIds' /\ QueuedWorkHasChunk' /\ DiscardedMeansGone'
  BY <1>1, <1>4 DEF IInv, RowInv, RowsHaveIds, QueuedWorkHasChunk, DiscardedMeansGone
<1>7. BudgetDecidesDeadLetter'
  BY <1>4 DEF IInv, RowInv, BudgetDecidesDeadLetter
<1>8. NoHashWithoutChunk'
  BY <1>0, <1>1, <1>2, <1>3 DEF IInv, RowInv, NoHashWithoutChunk
<1>9. EmbeddedHashNamesVector'
  BY <1>0, <1>1, <1>2, <1>3
     DEF IInv, RowInv, EmbeddedHashNamesVector, NoHashWithoutChunk
<1>10. UnextractedChunkIsQueued'
  BY <1>1 DEF IInv, RowInv, UnextractedChunkIsQueued
<1>11. StaleChunkIsQueued'
  <2> SUFFICES ASSUME NEW c \in Chunks, content[c] # NoText,
                      done'["embed"][c] # content[c] \/ derived'["embed"][c] # content[c],
                      lapse["embed"][c] = "none"
               PROVE  jobs'["embed"][c].state # "none"
    BY <1>1 DEF StaleChunkIsQueued
  <2>1. CASE c \notin Asked(p)
    BY <1>3, <2>1 DEF IInv, RowInv, StaleChunkIsQueued
  <2>2. CASE c \in Asked(p)
    <3>1. seen[p][c] # content[c]
      BY <1>2, <2>2
    <3>2. jobs["embed"][c].id # copy[p][c].id
      BY <1>0, <2>2, <3>1 DEF IInv, PassInv, ReadIsCurrent
    <3> QED
      BY <1>0, <2>2, <3>2 DEF IInv, PassInv, HeldRowIsThere
  <2> QED
    BY <2>1, <2>2
<1> QED
  BY <1>5, <1>6, <1>7, <1>8, <1>9, <1>10, <1>11 DEF RowInv

LEMMA StoreFactsInv ==
    ASSUME IInv, NEW p \in Passes, StoreFacts(p)
    PROVE  RowInv' /\ PassInv'
<1> DEFINE kept == {c \in Asked(p) : content[c] # NoText}
<1>0. /\ TypeOK /\ turn[p] = "extract" /\ Kinds = {"embed", "extract"}
      /\ Asked(p) \subseteq Held(p) /\ Asked(p) \in SUBSET Chunks
  BY DEF IInv, TypeOK, PassInv, PassesHoldWhatTheyHandle, Asked, StoreFacts, Kinds
<1>1. /\ UNCHANGED <<content, graphOn, lapse>> /\ Release(p, Asked(p))
      /\ jobs'["embed"] = jobs["embed"]
      /\ done'["embed"] = done["embed"] /\ derived'["embed"] = derived["embed"]
  BY <1>0 DEF StoreFacts, TypeOK
<1>2. \A c \in Chunks :
        /\ done'["extract"][c] = IF c \in kept THEN content[c] ELSE done["extract"][c]
        /\ c \notin kept => jobs'["extract"][c] = jobs["extract"][c]
        /\ c \in kept => jobs'["extract"][c] = IF jobs["extract"][c].id = copy[p][c].id
                                               THEN NoJob ELSE jobs["extract"][c]
  BY <1>0 DEF StoreFacts, TypeOK, Completed
<1>3. \A k \in Kinds, c \in Chunks :
        \/ jobs'[k][c] = jobs[k][c]
        \/ /\ k = turn[p] /\ c \in kept /\ jobs[k][c].id = copy[p][c].id
           /\ jobs'[k][c].state = "none" /\ jobs'[k][c].id = NoId
  BY <1>0, <1>1, <1>2, FieldsOfNoJob
<1>4. PassInv'
  BY <1>0, <1>1, <1>3, ReleaseInv
<1>5. RowsHaveIds' /\ QueuedWorkHasChunk' /\ DiscardedMeansGone'
  BY <1>1, <1>3 DEF IInv, RowInv, RowsHaveIds, QueuedWorkHasChunk, DiscardedMeansGone
<1>6. BudgetDecidesDeadLetter'
  BY <1>3 DEF IInv, RowInv, BudgetDecidesDeadLetter
<1>7. NoHashWithoutChunk'
  BY <1>0, <1>1, <1>2 DEF IInv, RowInv, NoHashWithoutChunk
<1>8. EmbeddedHashNamesVector' /\ StaleChunkIsQueued'
  BY <1>1 DEF IInv, RowInv, EmbeddedHashNamesVector, StaleChunkIsQueued
<1>9. UnextractedChunkIsQueued'
  BY <1>1, <1>2 DEF IInv, RowInv, UnextractedChunkIsQueued
<1> QED
  BY <1>4, <1>5, <1>6, <1>7, <1>8, <1>9 DEF RowInv

LEMMA AbandonPassInv ==
    ASSUME IInv, NEW p \in Passes, AbandonPass(p)
    PROVE  RowInv' /\ PassInv'
<1>0. /\ TypeOK /\ UNCHANGED store /\ NoCopy.id = NoId
      /\ \A q \in Passes : q # p => /\ turn'[q] = turn[q] /\ copy'[q] = copy[q]
                                    /\ seen'[q] = seen[q] /\ orphans'[q] = orphans[q]
      /\ orphans'[p] = {}
      /\ \A c \in Chunks : copy'[p][c] = NoCopy /\ seen'[p][c] = NoText
  BY DEF AbandonPass, IInv, TypeOK, NoCopy
<1>1. CopiesHaveIds' /\ PassesHoldWhatTheyHandle'
  BY <1>0 DEF IInv, PassInv, CopiesHaveIds, PassesHoldWhatTheyHandle, Held, Asked
<1>2. OrphansHaveNoRow' /\ ReadIsCurrent' /\ HeldRowIsThere'
  BY <1>0 DEF IInv, PassInv, OrphansHaveNoRow, ReadIsCurrent, HeldRowIsThere, Asked, Held, store
<1>3. ClaimIsCurrent'
  <2> SUFFICES ASSUME NEW q \in Passes, NEW c \in Chunks, copy'[q][c] # NoCopy,
                      jobs[turn'[q]][c].id = copy'[q][c].id, lapse[turn'[q]][c] = "none"
               PROVE  /\ jobs[turn'[q]][c].state = "running"
                      /\ jobs[turn'[q]][c].attempts = copy'[q][c].attempts
                      /\ \A r \in Passes \ {q} :
                            turn'[r] = turn'[q] => copy'[r][c].id # jobs[turn'[q]][c].id
    BY <1>0 DEF ClaimIsCurrent, Held, store
  <2>1. q # p /\ c \in Held(q) /\ copy[q][c].id # NoId
    BY <1>0 DEF Held, IInv, PassInv, CopiesHaveIds
  <2>2. /\ jobs[turn[q]][c].state = "running"
        /\ jobs[turn[q]][c].attempts = copy[q][c].attempts
        /\ \A r \in Passes \ {q} : turn[r] = turn[q] => copy[r][c].id # jobs[turn[q]][c].id
    BY <1>0, <2>1 DEF IInv, PassInv, ClaimIsCurrent
  <2> QED
    BY <1>0, <2>1, <2>2
<1> QED
  BY <1>0, <1>1, <1>2, <1>3, StoreUntouched DEF PassInv

(* A step that leaves passes, chunks and the rows marked running alone: no *)
(* pass holds anything else, unless the work was queued again.             *)
LEMMA IdleRowsOnly ==
    ASSUME IInv, UNCHANGED <<content, passes>>,
           \A k \in Kinds, c \in Chunks :
               /\ lapse'[k][c] = "none" => lapse[k][c] = "none"
               /\ \/ jobs'[k][c] = jobs[k][c]
                  \/ jobs[k][c].state # "running" /\ jobs'[k][c].id \in {NoId, jobs[k][c].id}
    PROVE  PassInv'
<1>0. \A q \in Passes : turn[q] \in Kinds
  BY DEF IInv, TypeOK
<1>1. CopiesHaveIds' /\ PassesHoldWhatTheyHandle'
  BY DEF IInv, PassInv, CopiesHaveIds, PassesHoldWhatTheyHandle, Held, Asked, passes
<1>2. ASSUME NEW q \in Passes, NEW c \in Held(q), jobs'[turn[q]][c].id = copy[q][c].id
      PROVE  jobs[turn[q]][c].id = copy[q][c].id
  BY <1>0, <1>2 DEF IInv, PassInv, CopiesHaveIds, Held
<1>3. ASSUME NEW q \in Passes, NEW c \in Held(q), lapse[turn[q]][c] = "none",
             jobs[turn[q]][c].id = copy[q][c].id
      PROVE  jobs'[turn[q]][c] = jobs[turn[q]][c]
  BY <1>0, <1>3 DEF IInv, PassInv, ClaimIsCurrent, Held
<1>4. OrphansHaveNoRow'
  BY <1>0, <1>2 DEF IInv, PassInv, OrphansHaveNoRow, PassesHoldWhatTheyHandle, passes
<1>5. ReadIsCurrent'
  <2> SUFFICES ASSUME NEW q \in Passes, NEW c \in Asked(q), turn[q] = "embed",
                      jobs'["embed"][c].id = copy[q][c].id, lapse'["embed"][c] = "none"
               PROVE  seen[q][c] = content[c]
    BY DEF ReadIsCurrent, Asked, passes
  <2>1. c \in Held(q) /\ c \in Chunks
    BY DEF IInv, PassInv, PassesHoldWhatTheyHandle, Held
  <2> QED
    BY <1>0, <1>2, <2>1 DEF IInv, PassInv, ReadIsCurrent
<1>6. HeldRowIsThere'
  BY <1>0, <1>3 DEF IInv, PassInv, HeldRowIsThere, Held, passes, Kinds
<1>7. ClaimIsCurrent'
  <2> SUFFICES ASSUME NEW q \in Passes, NEW c \in Held(q),
                      jobs'[turn[q]][c].id = copy[q][c].id, lapse'[turn[q]][c] = "none"
               PROVE  /\ jobs'[turn[q]][c].state = "running"
                      /\ jobs'[turn[q]][c].attempts = copy[q][c].attempts
                      /\ \A r \in Passes \ {q} :
                            turn[r] = turn[q] => copy[r][c].id # jobs'[turn[q]][c].id
    BY DEF ClaimIsCurrent, Held, passes
  <2>1. lapse[turn[q]][c] = "none" /\ jobs[turn[q]][c].id = copy[q][c].id
    BY <1>0, <1>2 DEF Held
  <2>2. jobs'[turn[q]][c] = jobs[turn[q]][c]
    BY <1>3, <2>1
  <2> QED
    BY <2>1, <2>2 DEF IInv, PassInv, ClaimIsCurrent
<1> QED
  BY <1>1, <1>4, <1>5, <1>6, <1>7 DEF PassInv

LEMMA BackoffElapsesInv ==
    ASSUME IInv, NEW k \in Kinds, NEW c \in Chunks, BackoffElapses(k, c)
    PROVE  RowInv' /\ PassInv'
<1>1. \A row \in Row : LET after == [row EXCEPT !.due = TRUE]
                       IN  /\ after.id = row.id /\ after.state = row.state
                           /\ after.attempts = row.attempts
  BY DEF Row
<1>2. \A o \in Kinds, d \in Chunks :
        /\ jobs[o][d] \in Row
        /\ o # k \/ d # c => jobs'[o][d] = jobs[o][d]
  BY DEF BackoffElapses, IInv, TypeOK
<1>3. jobs'[k][c] = [jobs[k][c] EXCEPT !.due = TRUE]
  BY DEF BackoffElapses, IInv, TypeOK
<1>4. \A o \in Kinds, d \in Chunks :
        /\ jobs'[o][d].id = jobs[o][d].id
        /\ jobs'[o][d].state = jobs[o][d].state
        /\ jobs'[o][d].attempts = jobs[o][d].attempts
  <2>1. /\ jobs'[k][c].id = jobs[k][c].id
        /\ jobs'[k][c].state = jobs[k][c].state
        /\ jobs'[k][c].attempts = jobs[k][c].attempts
    BY <1>1, <1>2, <1>3
  <2> QED
    BY <1>2, <2>1
<1>5. jobs[k][c].state = "pending" /\ UNCHANGED <<content, done, derived, graphOn, lapse, passes>>
  BY DEF BackoffElapses
<1>6. BudgetDecidesDeadLetter'
  BY <1>4 DEF IInv, RowInv, BudgetDecidesDeadLetter
<1>7. RowInv'
  BY <1>4, <1>5, <1>6, RowsPersist
<1>8. PassInv'
  BY <1>2, <1>4, <1>5, IdleRowsOnly
<1> QED
  BY <1>7, <1>8

LEMMA RetryFailedJobsInv ==
    ASSUME IInv, NEW kinds \in SUBSET Kinds, RetryFailedJobs(kinds)
    PROVE  RowInv' /\ PassInv'
<1>1. \A k \in Kinds, c \in Chunks :
        /\ jobs[k][c] \in Row
        /\ jobs'[k][c] = IF k \in kinds THEN Retried(jobs[k][c]) ELSE jobs[k][c]
  BY DEF RetryFailedJobs, IInv, TypeOK
<1>2. \A k \in Kinds, c \in Chunks :
        \/ jobs'[k][c] = jobs[k][c]
        \/ /\ jobs[k][c].state = "failed" /\ jobs'[k][c].state = "pending"
           /\ jobs'[k][c].id = jobs[k][c].id /\ jobs'[k][c].attempts = 0
  <2> SUFFICES ASSUME NEW k \in Kinds, NEW c \in Chunks, jobs'[k][c] # jobs[k][c]
               PROVE  /\ jobs[k][c].state = "failed" /\ jobs'[k][c].state = "pending"
                      /\ jobs'[k][c].id = jobs[k][c].id /\ jobs'[k][c].attempts = 0
    OBVIOUS
  <2>1. jobs'[k][c] = Retried(jobs[k][c]) /\ jobs[k][c] \in Row
    BY <1>1
  <2>2. jobs[k][c].state = "failed"
    BY <2>1, FieldsOfRetried
  <2>3. /\ Retried(jobs[k][c]).state = "pending"
        /\ Retried(jobs[k][c]).id = jobs[k][c].id
        /\ Retried(jobs[k][c]).attempts = 0
    BY <2>1, <2>2, FieldsOfRetried
  <2> QED
    BY <2>1, <2>2, <2>3
<1>3. UNCHANGED <<content, done, derived, graphOn, lapse, passes>>
  BY DEF RetryFailedJobs
<1>4. BudgetDecidesDeadLetter'
  BY <1>2, JobQueueAssumption DEF IInv, RowInv, BudgetDecidesDeadLetter
<1>5. \A k \in Kinds, c \in Chunks :
        /\ jobs'[k][c].id = jobs[k][c].id
        /\ jobs'[k][c].state = "none" <=> jobs[k][c].state = "none"
  BY <1>2
<1>6. RowInv'
  BY <1>3, <1>4, <1>5, RowsPersist
<1>7. PassInv'
  BY <1>2, <1>3, IdleRowsOnly
<1> QED
  BY <1>6, <1>7

LEMMA DiscardFailedJobsInv ==
    ASSUME IInv, DiscardFailedJobs
    PROVE  RowInv' /\ PassInv'
<1>1. \A k \in Kinds, c \in Chunks :
        /\ jobs[k][c].state # "failed" =>
              jobs'[k][c] = jobs[k][c] /\ lapse'[k][c] = lapse[k][c]
        /\ jobs[k][c].state = "failed" =>
              jobs'[k][c] = NoJob /\ lapse'[k][c] = "discarded"
  BY DEF DiscardFailedJobs, Discarded, IInv, TypeOK
<1>2. UNCHANGED <<content, done, derived, graphOn, passes>>
  BY DEF DiscardFailedJobs
<1>3. RowsHaveIds' /\ QueuedWorkHasChunk' /\ DiscardedMeansGone'
  BY <1>1, <1>2, FieldsOfNoJob
     DEF IInv, RowInv, RowsHaveIds, QueuedWorkHasChunk, DiscardedMeansGone
<1>4. BudgetDecidesDeadLetter' /\ NoHashWithoutChunk' /\ EmbeddedHashNamesVector'
  BY <1>1, <1>2, FieldsOfNoJob
     DEF IInv, RowInv, BudgetDecidesDeadLetter, NoHashWithoutChunk, EmbeddedHashNamesVector
<1>5. StaleChunkIsQueued' /\ UnextractedChunkIsQueued'
  BY <1>1, <1>2 DEF IInv, RowInv, StaleChunkIsQueued, UnextractedChunkIsQueued, Kinds
<1>6. PassInv'
  BY <1>1, <1>2, FieldsOfNoJob, IdleRowsOnly
<1> QED
  BY <1>3, <1>4, <1>5, <1>6 DEF RowInv

LEMMA ApplyDiffInv ==
    ASSUME IInv, NEW text \in [Chunks -> TextOrNone], ApplyDiff(text)
    PROVE  RowInv' /\ PassInv'
<1>0. /\ TypeOK /\ UNCHANGED <<graphOn, turn, copy, seen, orphans>>
      /\ \A c \in Chunks : content'[c] = text[c]
      /\ \A q \in Passes : turn[q] \in Kinds
      /\ "embed" \in Kinds /\ "extract" \in Kinds
  BY DEF ApplyDiff, passes, IInv, TypeOK, Kinds
<1>1. \A k \in Kinds, c \in Chunks :
        /\ c \in Removed(text) => jobs'[k][c].state = "none" /\ jobs'[k][c].id = NoId
        /\ QueuedBy(text, k, c) =>
              /\ jobs'[k][c].state = "pending" /\ jobs'[k][c].attempts = 0
              /\ jobs[k][c].state = "none" => jobs'[k][c].id = FreshId(k, c)
              /\ jobs[k][c].state # "none" => jobs'[k][c].id = jobs[k][c].id
        /\ c \notin Removed(text) /\ ~QueuedBy(text, k, c) => jobs'[k][c] = jobs[k][c]
  <2> SUFFICES ASSUME NEW k \in Kinds, NEW c \in Chunks
               PROVE  /\ c \in Removed(text) =>
                            jobs'[k][c].state = "none" /\ jobs'[k][c].id = NoId
                      /\ QueuedBy(text, k, c) =>
                            /\ jobs'[k][c].state = "pending" /\ jobs'[k][c].attempts = 0
                            /\ jobs[k][c].state = "none" => jobs'[k][c].id = FreshId(k, c)
                            /\ jobs[k][c].state # "none" => jobs'[k][c].id = jobs[k][c].id
                      /\ c \notin Removed(text) /\ ~QueuedBy(text, k, c) =>
                            jobs'[k][c] = jobs[k][c]
    OBVIOUS
  <2>1. jobs'[k][c] = JobAfter(text, k, c) /\ jobs[k][c] \in Row /\ FreshId(k, c) \in Ids
    BY <1>0, FreshIdIsFresh DEF ApplyDiff, TypeOK
  <2>2. CASE c \in Removed(text)
    <3>1. ~QueuedBy(text, k, c)
      BY <2>2 DEF QueuedBy, Added, Modified, Removed
    <3> QED
      BY <2>1, <2>2, <3>1, FieldsOfNoJob DEF JobAfter
  <2>3. CASE c \notin Removed(text) /\ QueuedBy(text, k, c)
    <3>1. jobs'[k][c] = Enqueued(jobs[k][c], FreshId(k, c))
      BY <2>1, <2>3 DEF JobAfter
    <3>2. LET row == Enqueued(jobs[k][c], FreshId(k, c))
          IN  /\ row.state = "pending" /\ row.attempts = 0
              /\ jobs[k][c].state = "none" => row.id = FreshId(k, c)
              /\ jobs[k][c].state # "none" => row.id = jobs[k][c].id
      BY <2>1, FieldsOfEnqueued
    <3> QED
      BY <2>3, <3>1, <3>2
  <2>4. CASE c \notin Removed(text) /\ ~QueuedBy(text, k, c)
    BY <2>1, <2>4 DEF JobAfter
  <2> QED
    BY <2>2, <2>3, <2>4
<1>2. \A k \in Kinds, c \in Chunks :
        /\ done'[k][c] = IF c \in Added(text) \cup Removed(text) THEN NoText ELSE done[k][c]
        /\ derived'[k][c] = IF c \in Modified(text) \cup Removed(text)
                            THEN NoText ELSE derived[k][c]
        /\ QueuedBy(text, k, c) /\ InFlight(k, c) => lapse'[k][c] = "overtaken"
        /\ QueuedBy(text, k, c) => lapse'[k][c] # "discarded"
        /\ ~QueuedBy(text, k, c) => lapse'[k][c] = lapse[k][c]
  BY <1>0 DEF ApplyDiff
<1>3. \A k \in Kinds, c \in Chunks :
        /\ FreshId(k, c) # NoId
        /\ \A q \in Passes : turn[q] = k => copy[q][c].id # FreshId(k, c)
  BY <1>0, FreshIdIsFresh, JobQueueAssumption DEF NoId
<1>4. \A c \in Chunks :
        /\ c \in Removed(text) <=> content[c] # NoText /\ text[c] = NoText
        /\ c \in Added(text) <=> content[c] = NoText /\ text[c] # NoText
        /\ c \in Modified(text) <=> content[c] # NoText /\ text[c] \notin {NoText, content[c]}
        /\ QueuedBy(text, "embed", c) <=> c \in Added(text) \/ c \in Modified(text)
        /\ \A k \in Kinds : QueuedBy(text, k, c) => c \in Added(text) \/ c \in Modified(text)
        /\ graphOn => (QueuedBy(text, "extract", c) <=> c \in Added(text) \/ c \in Modified(text))
  BY DEF Added, Modified, Removed, QueuedBy, Queues
<1>5. RowsHaveIds'
  BY <1>1, <1>3 DEF IInv, RowInv, RowsHaveIds
<1>6. BudgetDecidesDeadLetter'
  BY <1>1, JobQueueAssumption DEF IInv, RowInv, BudgetDecidesDeadLetter
<1>7. QueuedWorkHasChunk' /\ NoHashWithoutChunk'
  BY <1>0, <1>1, <1>2, <1>4 DEF IInv, RowInv, QueuedWorkHasChunk, NoHashWithoutChunk
<1>8. DiscardedMeansGone'
  BY <1>1, <1>2 DEF IInv, RowInv, DiscardedMeansGone
<1>9. EmbeddedHashNamesVector'
  BY <1>0, <1>2 DEF IInv, RowInv, EmbeddedHashNamesVector
<1>10. StaleChunkIsQueued' /\ UnextractedChunkIsQueued'
  BY <1>0, <1>1, <1>2, <1>4 DEF IInv, RowInv, StaleChunkIsQueued, UnextractedChunkIsQueued
<1>11. CopiesHaveIds' /\ PassesHoldWhatTheyHandle'
  BY <1>0 DEF IInv, PassInv, CopiesHaveIds, PassesHoldWhatTheyHandle, Held, Asked
<1>12. OrphansHaveNoRow'
  <2> SUFFICES ASSUME NEW q \in Passes, NEW c \in orphans[q]
               PROVE  jobs'[turn[q]][c].id # copy[q][c].id
    BY <1>0 DEF OrphansHaveNoRow
  <2>1. /\ c \in Chunks /\ copy[q][c].id # NoId
        /\ jobs[turn[q]][c].id # copy[q][c].id
    BY DEF IInv, PassInv, OrphansHaveNoRow, CopiesHaveIds, PassesHoldWhatTheyHandle, Held
  <2> QED
    BY <1>0, <1>1, <1>3, <2>1
<1>13. ASSUME NEW q \in Passes, NEW c \in Held(q), lapse'[turn[q]][c] = "none",
              c \notin Removed(text)
       PROVE  /\ jobs'[turn[q]][c] = jobs[turn[q]][c]
              /\ lapse[turn[q]][c] = "none"
              /\ turn[q] = "embed" => content'[c] = content[c]
  <2>1. InFlight(turn[q], c) /\ c \in Chunks
    BY DEF InFlight, Held
  <2>2. ~QueuedBy(text, turn[q], c)
    BY <1>0, <1>2, <1>13, <2>1
  <2> QED
    BY <1>0, <1>1, <1>2, <1>4, <1>13, <2>1, <2>2
<1>14. ASSUME NEW q \in Passes, NEW c \in Held(q), jobs'[turn[q]][c].id = copy[q][c].id
       PROVE  c \notin Removed(text)
  BY <1>0, <1>1, <1>14 DEF IInv, PassInv, CopiesHaveIds, Held
<1>15. ReadIsCurrent'
  BY <1>0, <1>13, <1>14
     DEF IInv, PassInv, ReadIsCurrent, PassesHoldWhatTheyHandle, Asked
<1>16. HeldRowIsThere'
  <2> SUFFICES ASSUME NEW q \in Passes, NEW c \in Held(q), turn[q] = "embed",
                      content'[c] # NoText, lapse'["embed"][c] = "none"
               PROVE  jobs'["embed"][c].id = copy[q][c].id
    BY <1>0 DEF HeldRowIsThere, Held
  <2>1. c \in Chunks /\ c \notin Removed(text)
    BY <1>0, <1>4 DEF Held
  <2> QED
    BY <1>13, <2>1 DEF IInv, PassInv, HeldRowIsThere
<1>17. ClaimIsCurrent'
  <2> SUFFICES ASSUME NEW q \in Passes, NEW c \in Held(q),
                      jobs'[turn[q]][c].id = copy[q][c].id, lapse'[turn[q]][c] = "none"
               PROVE  /\ jobs'[turn[q]][c].state = "running"
                      /\ jobs'[turn[q]][c].attempts = copy[q][c].attempts
                      /\ \A r \in Passes \ {q} :
                            turn[r] = turn[q] => copy[r][c].id # jobs'[turn[q]][c].id
    BY <1>0 DEF ClaimIsCurrent, Held
  <2> QED
    BY <1>13, <1>14 DEF IInv, PassInv, ClaimIsCurrent
<1> QED
  BY <1>5, <1>6, <1>7, <1>8, <1>9, <1>10, <1>11, <1>12, <1>15, <1>16, <1>17 DEF RowInv, PassInv

(* The new process remembers nothing, so only the rows are at stake.       *)
LEMMA ReopenInv ==
    ASSUME IInv, NEW graph \in GraphSettings, NEW changed \in SUBSET Kinds,
           NEW redimension \in BOOLEAN, Reopen(graph, changed, redimension)
    PROVE  RowInv' /\ PassInv'
<1> DEFINE queued(k) == QueuedAtOpen(graph, changed, k)
           dropped(k) == k = "extract" /\ ~graph
<1>0. /\ TypeOK /\ content' = content /\ graphOn' = graph
      /\ "embed" \in Kinds /\ "extract" \in Kinds
      /\ redimension => "embed" \in changed
  BY DEF Reopen, IInv, Kinds
<1>1. ASSUME NEW k \in Kinds, NEW c \in Chunks
      PROVE  /\ dropped(k) => jobs'[k][c].state = "none" /\ jobs'[k][c].id = NoId
             /\ ~dropped(k) /\ c \in queued(k) =>
                   jobs'[k][c].state = "pending" /\ jobs'[k][c].attempts = 0
             /\ ~dropped(k) /\ c \notin queued(k) =>
                   /\ jobs'[k][c].state = "none" <=> jobs[k][c].state = "none"
                   /\ jobs'[k][c].attempts = jobs[k][c].attempts
                   /\ jobs[k][c].state # "running" => jobs'[k][c] = jobs[k][c]
                   /\ jobs[k][c].state = "running" => jobs'[k][c].state = "pending"
             /\ ~dropped(k) => (jobs'[k][c].state = "none" <=> jobs'[k][c].id = NoId)
  <2> DEFINE row == Reclaimed(jobs[k][c])
  <2>1. jobs[k][c] \in Row /\ FreshId(k, c) \in Ids /\ FreshId(k, c) # NoId
    BY <1>0, FreshIdIsFresh, JobQueueAssumption DEF TypeOK, NoId
  <2>2. /\ row \in Row /\ row.id = jobs[k][c].id /\ row.attempts = jobs[k][c].attempts
        /\ jobs[k][c].state # "running" => row = jobs[k][c]
        /\ jobs[k][c].state = "running" => row.state = "pending"
    BY <2>1, FieldsOfReclaimed, RowOperationsGiveRows
  <2>3. row.state = "none" <=> row.id = NoId
    BY <2>1, <2>2 DEF IInv, RowInv, RowsHaveIds
  <2> HIDE DEF row
  <2>4. CASE dropped(k)
    <3>1. jobs'[k][c] = NoJob
      BY <2>4 DEF Reopen
    <3> QED
      BY <2>4, <3>1, FieldsOfNoJob
  <2>5. CASE ~dropped(k) /\ c \in queued(k)
    <3>1. jobs'[k][c] = Enqueued(row, FreshId(k, c))
      BY <2>5 DEF Reopen, row
    <3>2. LET after == Enqueued(row, FreshId(k, c))
          IN  /\ after.state = "pending" /\ after.attempts = 0
              /\ row.state = "none" => after.id = FreshId(k, c)
              /\ row.state # "none" => after.id = row.id
      BY <2>1, <2>2, FieldsOfEnqueued
    <3> QED
      BY <2>1, <2>3, <2>5, <3>1, <3>2
  <2>6. CASE ~dropped(k) /\ c \notin queued(k)
    <3>1. jobs'[k][c] = row
      BY <2>6 DEF Reopen, row
    <3> QED
      BY <2>2, <2>3, <2>6, <3>1
  <2> QED
    BY <2>4, <2>5, <2>6
<1>2. \A k \in Kinds, c \in Chunks :
        /\ done'[k][c] = IF k \in changed THEN NoText ELSE done[k][c]
        /\ derived'[k][c] = IF redimension /\ k = "embed" THEN NoText ELSE derived[k][c]
        /\ lapse'[k][c] = IF c \in queued(k) THEN "none" ELSE lapse[k][c]
  BY DEF Reopen
<1>3. \A k \in Kinds : \A c \in queued(k) : c \in Chunks /\ content[c] # NoText
  BY DEF QueuedAtOpen
<1>4. \A k \in Kinds, c \in Chunks :
        /\ content[c] # NoText /\ k \in changed => c \in queued(k)
        /\ content[c] # NoText /\ graph /\ done["extract"][c] # content[c] =>
              c \in queued("extract")
        /\ c \in queued("embed") => "embed" \in changed
  BY DEF QueuedAtOpen
<1> HIDE DEF queued
<1>6. RowsHaveIds'
  BY <1>1 DEF RowsHaveIds
<1>7. BudgetDecidesDeadLetter'
  BY <1>1, JobQueueAssumption DEF IInv, RowInv, BudgetDecidesDeadLetter
<1>8. QueuedWorkHasChunk' /\ NoHashWithoutChunk'
  BY <1>0, <1>1, <1>2, <1>3 DEF IInv, RowInv, QueuedWorkHasChunk, NoHashWithoutChunk
<1>9. DiscardedMeansGone'
  BY <1>1, <1>2 DEF IInv, RowInv, DiscardedMeansGone
<1>10. EmbeddedHashNamesVector'
  BY <1>0, <1>2 DEF IInv, RowInv, EmbeddedHashNamesVector
<1>11. StaleChunkIsQueued'
  BY <1>0, <1>1, <1>2, <1>4 DEF IInv, RowInv, StaleChunkIsQueued
<1>12. UnextractedChunkIsQueued'
  BY <1>0, <1>1, <1>2, <1>4 DEF IInv, RowInv, UnextractedChunkIsQueued
<1>13. \A p \in Passes : /\ orphans'[p] = {}
                         /\ \A c \in Chunks : copy'[p][c] = NoCopy /\ seen'[p][c] = NoText
  BY DEF Reopen
<1>14. PassInv'
  BY <1>13 DEF PassInv, CopiesHaveIds, PassesHoldWhatTheyHandle, OrphansHaveNoRow,
               ReadIsCurrent, HeldRowIsThere, ClaimIsCurrent, Held, Asked
<1> QED
  BY <1>6, <1>7, <1>8, <1>9, <1>10, <1>11, <1>12, <1>14 DEF RowInv

LEMMA NextInv == IInv /\ [Next]_vars => IInv'
<1> SUFFICES ASSUME IInv, [Next]_vars PROVE RowInv' /\ PassInv'
  BY NextTypes DEF IInv
<1>1. ASSUME NEW p \in Passes, PassStep(p) PROVE RowInv' /\ PassInv'
  BY <1>1, ClaimInv, FindNothingDueInv, ReadChunksInv, RetireOrphansInv, StoreVectorsInv,
     StoreFactsInv, RecordFailureInv
     DEF PassStep
<1>2. ASSUME NEW p \in Passes, AbandonPass(p) PROVE RowInv' /\ PassInv'
  BY <1>2, AbandonPassInv
<1>3. ASSUME NEW k \in Kinds, NEW c \in Chunks, BackoffElapses(k, c) PROVE RowInv' /\ PassInv'
  BY <1>3, BackoffElapsesInv
<1>4. CASE User
  <2>1. ASSUME NEW text \in [Chunks -> TextOrNone], Ingest(text) PROVE RowInv' /\ PassInv'
    BY <2>1, ApplyDiffInv DEF Ingest
  <2>2. CASE RemoveDocument
    <3>1. [c \in Chunks |-> NoText] \in [Chunks -> TextOrNone]
      BY DEF TextOrNone
    <3> QED
      BY <2>2, <3>1, ApplyDiffInv DEF RemoveDocument
  <2>3. ASSUME NEW kinds \in SUBSET Kinds, RetryFailedJobs(kinds) PROVE RowInv' /\ PassInv'
    BY <2>3, RetryFailedJobsInv
  <2> QED
    BY <1>4, <2>1, <2>2, <2>3, DiscardFailedJobsInv, InputsHaveTypes DEF User
<1>5. ASSUME NEW graph \in GraphSettings, NEW changed \in SUBSET Kinds,
             NEW redimension \in BOOLEAN, Reopen(graph, changed, redimension)
      PROVE  RowInv' /\ PassInv'
  BY <1>5, ReopenInv
<1>6. CASE UNCHANGED vars
  BY <1>6 DEF vars, IInv, RowInv, RowsHaveIds, BudgetDecidesDeadLetter, QueuedWorkHasChunk,
       NoHashWithoutChunk, DiscardedMeansGone, EmbeddedHashNamesVector, StaleChunkIsQueued,
       UnextractedChunkIsQueued, PassInv, CopiesHaveIds, PassesHoldWhatTheyHandle,
       OrphansHaveNoRow, ReadIsCurrent, HeldRowIsThere, ClaimIsCurrent, Held, Asked
<1> QED
  BY <1>1, <1>2, <1>3, <1>4, <1>5, <1>6, InputsHaveTypes DEF Next

LEMMA InvariantHolds == Spec => []IInv
<1>1. Init => IInv
  BY InitInv
<1>2. IInv /\ [Next]_vars => IInv'
  BY NextInv
<1> QED
  BY <1>1, <1>2, PTL DEF Spec

-----------------------------------------------------------------------------
(* What follows from it.                                                   *)

(* No job outlives its chunk (the jobs_chunk_delete trigger of Schema), and *)
(* no late completion, failure, retry or open brings one back.             *)
THEOREM NoJobOutlivesItsChunk == Spec => []QueuedWorkHasChunk
<1>1. IInv => QueuedWorkHasChunk
  BY DEF IInv, RowInv
<1> QED
  BY <1>1, InvariantHolds, PTL

(* A chunk whose vector is missing or out of date is queued for embedding, *)
(* except after the two lapses the model names: the claim, read, await and *)
(* write-back of JobWorkers loses no other update, for any number of       *)
(* concurrent passes.                                                      *)
THEOREM NoEmbeddingForgotten == Spec => []StaleChunkIsQueued
<1>1. IInv => StaleChunkIsQueued
  BY DEF IInv, RowInv
<1> QED
  BY <1>1, InvariantHolds, PTL

(* With the graph on, an unextracted chunk is queued unless the user threw *)
(* the job away (applyChunkDiff, markExtracted, reconcileGraphExtraction). *)
THEOREM NoExtractionForgotten == Spec => []UnextractedChunkIsQueued
<1>1. IInv => UnextractedChunkIsQueued
  BY DEF IInv, RowInv
<1> QED
  BY <1>1, InvariantHolds, PTL

(* embedded_hash tells the truth about the stored vector, although it is   *)
(* written after the model call and the chunk may have changed meanwhile   *)
(* (runEmbeddingPass stores the hash it read with the text).               *)
THEOREM VectorsMatchTheirHash == Spec => []EmbeddedHashNamesVector
<1>1. IInv => EmbeddedHashNamesVector
  BY DEF IInv, RowInv
<1> QED
  BY <1>1, InvariantHolds, PTL

(* What a pass captured of a job stays true of the row, and exclusively    *)
(* so, until the pass is through with it or the work is queued again       *)
(* (JobRepository.claim).                                                  *)
THEOREM ClaimsAreExclusive == Spec => []ClaimIsCurrent
<1>1. IInv => ClaimIsCurrent
  BY DEF IInv, PassInv
<1> QED
  BY <1>1, InvariantHolds, PTL

(* A job is in the dead letter exactly when its attempts are spent, even   *)
(* when a failure is recorded from an old copy (JobRepository.fail).       *)
THEOREM DeadLetterIsEarned == Spec => []BudgetDecidesDeadLetter
<1>1. IInv => BudgetDecidesDeadLetter
  BY DEF IInv, RowInv
<1> QED
  BY <1>1, InvariantHolds, PTL

(* A dead-lettered job returns only with a clean budget, unless the work   *)
(* was queued under a pass that then reports an older failure: no late     *)
(* result revives it (JobRepository.fail finds its row by id).             *)
THEOREM DeadLetterIsFinal == Spec => DeadLetterStaysDead
<1> DEFINE Stays(k, c) ==
        jobs[k][c].state = "failed" /\ lapse[k][c] # "overtaken" =>
            \/ jobs'[k][c].state \in {"failed", "none"}
            \/ jobs'[k][c].attempts = 0 /\ jobs'[k][c].due
<1>1. ASSUME IInv, [Next]_vars, NEW k \in Kinds, NEW c \in Chunks
      PROVE  Stays(k, c)
  <2> SUFFICES ASSUME jobs[k][c].state = "failed", lapse[k][c] # "overtaken"
               PROVE  \/ jobs'[k][c] = jobs[k][c]
                      \/ jobs'[k][c].state = "none"
                      \/ jobs'[k][c].attempts = 0 /\ jobs'[k][c].due = TRUE
    OBVIOUS
  <2>0. /\ TypeOK /\ jobs[k][c] \in Row /\ FreshId(k, c) \in Ids
        /\ "embed" \in Kinds /\ "extract" \in Kinds /\ \A p \in Passes : turn[p] \in Kinds
    BY <1>1, FreshIdIsFresh DEF IInv, TypeOK, Kinds
  <2>1. LET after == Enqueued(jobs[k][c], FreshId(k, c))
        IN  after.attempts = 0 /\ after.due = TRUE
    BY <2>0, FieldsOfEnqueued
  <2>2. ASSUME NEW p \in Passes, c \in Held(p), k = turn[p]
        PROVE  jobs[k][c].id # copy[p][c].id
    <3>1. lapse[k][c] # "discarded"
      BY <1>1 DEF IInv, RowInv, DiscardedMeansGone
    <3>2. lapse[k][c] = "none"
      BY <1>1, <2>0, <3>1 DEF TypeOK, Lapses
    <3> QED
      BY <1>1, <2>2, <3>2 DEF IInv, PassInv, ClaimIsCurrent
  <2>3. ASSUME NEW p \in Passes, PassStep(p)
        PROVE  jobs'[k][c] = jobs[k][c]
    <3>1. Asked(p) \subseteq Held(p) /\ orphans[p] \subseteq Held(p)
      BY <1>1 DEF IInv, PassInv, PassesHoldWhatTheyHandle
    <3>2. CASE Claim(p)
      BY <2>0, <3>2 DEF Claim, Due, Claimable, TypeOK
    <3>3. CASE FindNothingDue(p) \/ ReadChunks(p)
      BY <3>3 DEF FindNothingDue, ReadChunks, store
    <3>4. CASE RetireOrphans(p)
      BY <2>0, <2>2, <3>1, <3>4 DEF RetireOrphans, TypeOK, Completed
    <3>5. CASE StoreVectors(p)
      BY <2>0, <2>2, <3>1, <3>5 DEF StoreVectors, TypeOK, Completed
    <3>6. CASE StoreFacts(p)
      BY <2>0, <2>2, <3>1, <3>6 DEF StoreFacts, TypeOK, Completed
    <3>7. ASSUME NEW isTransient \in BOOLEAN, RecordFailure(p, isTransient)
          PROVE  jobs'[k][c] = jobs[k][c]
      BY <2>0, <2>2, <3>1, <3>7 DEF RecordFailure, TypeOK, Failed
    <3> QED
      BY <2>3, <3>2, <3>3, <3>4, <3>5, <3>6, <3>7 DEF PassStep
  <2>4. ASSUME NEW p \in Passes, AbandonPass(p)
        PROVE  jobs'[k][c] = jobs[k][c]
    BY <2>4 DEF AbandonPass, store
  <2>5. ASSUME NEW o \in Kinds, NEW d \in Chunks, BackoffElapses(o, d)
        PROVE  jobs'[k][c] = jobs[k][c]
    BY <2>0, <2>5 DEF BackoffElapses, TypeOK
  <2>6. ASSUME NEW text \in [Chunks -> TextOrNone], ApplyDiff(text)
        PROVE  \/ jobs'[k][c] = jobs[k][c]
               \/ jobs'[k][c].state = "none"
               \/ jobs'[k][c].attempts = 0 /\ jobs'[k][c].due = TRUE
    <3>1. \/ jobs'[k][c] = jobs[k][c]
          \/ jobs'[k][c] = NoJob
          \/ jobs'[k][c] = Enqueued(jobs[k][c], FreshId(k, c))
      BY <2>0, <2>6 DEF ApplyDiff, JobAfter
    <3> QED
      BY <2>1, <3>1, FieldsOfNoJob
  <2>7. CASE User
    <3>1. ASSUME NEW kinds \in SUBSET Kinds, RetryFailedJobs(kinds)
          PROVE  \/ jobs'[k][c] = jobs[k][c]
                 \/ jobs'[k][c].attempts = 0 /\ jobs'[k][c].due = TRUE
      <4>1. jobs'[k][c] = jobs[k][c] \/ jobs'[k][c] = Retried(jobs[k][c])
        BY <3>1 DEF RetryFailedJobs
      <4>2. Retried(jobs[k][c]).attempts = 0 /\ Retried(jobs[k][c]).due = TRUE
        BY <2>0, FieldsOfRetried
      <4> QED
        BY <4>1, <4>2
    <3>2. CASE DiscardFailedJobs
      BY <3>2, FieldsOfNoJob DEF DiscardFailedJobs, Discarded
    <3>3. [d \in Chunks |-> NoText] \in [Chunks -> TextOrNone]
      BY DEF TextOrNone
    <3> QED
      BY <2>6, <2>7, <3>1, <3>2, <3>3, InputsHaveTypes DEF User, Ingest, RemoveDocument
  <2>8. ASSUME NEW graph \in GraphSettings, NEW changed \in SUBSET Kinds,
               NEW redimension \in BOOLEAN, Reopen(graph, changed, redimension)
        PROVE  \/ jobs'[k][c] = jobs[k][c]
               \/ jobs'[k][c].state = "none"
               \/ jobs'[k][c].attempts = 0 /\ jobs'[k][c].due = TRUE
    <3>1. Reclaimed(jobs[k][c]) = jobs[k][c]
      BY <2>0, FieldsOfReclaimed
    <3>2. \/ jobs'[k][c] = jobs[k][c]
          \/ jobs'[k][c] = NoJob
          \/ jobs'[k][c] = Enqueued(jobs[k][c], FreshId(k, c))
      BY <2>8, <3>1 DEF Reopen
    <3> QED
      BY <2>1, <3>2, FieldsOfNoJob
  <2>9. CASE UNCHANGED vars
    BY <2>9 DEF vars
  <2> QED
    BY <1>1, <2>3, <2>4, <2>5, <2>7, <2>8, <2>9, InputsHaveTypes DEF Next
<1>2. IInv /\ [Next]_vars => \A k \in Kinds, c \in Chunks : Stays(k, c)
  BY <1>1
<1> HIDE DEF Stays
<1>3. IInv /\ [Next]_vars => [\A k \in Kinds, c \in Chunks : Stays(k, c)]_vars
  BY <1>2
<1>4. Spec => [][\A k \in Kinds, c \in Chunks : Stays(k, c)]_vars
  BY <1>3, InvariantHolds, PTL DEF Spec
<1> QED
  BY <1>4 DEF Stays, DeadLetterStaysDead

=============================================================================
