--------------------------- MODULE StoreLifecycle ---------------------------
(***************************************************************************)
(* Several stores that write one database: each takes the lock file, opens *)
(* in separate transactions (vector tables and abandoned jobs, then the    *)
(* migration plan, then the migration), drains the embedding queue, is     *)
(* closed or dies.  close() gives the lock away but waits for no pass: the *)
(* pass of a closed store goes on, and its processQueues() call goes on    *)
(* claiming jobs.                                                          *)
(*                                                                         *)
(* A model stands for an embedding configuration, its model name and its   *)
(* dimensions, which are stamped and compared together.  A chunk's text    *)
(* does not change here, and the extraction side of an open is left out:   *)
(* both are in IndexPipeline.                                              *)
(***************************************************************************)
EXTENDS JobQueue, FiniteSets

CONSTANTS
    Stores,     \* KnowledgeStore values, in one process or in several
    Models,     \* embedding configurations a store may be opened with
    Width,      \* dimensions of a model's vectors
    Chunks,
    NoStore,    \* the lock is free, the lock file is empty
    NoModel     \* no such key or vector, no configuration

ASSUME StoreLifecycleAssumption ==
    /\ Width \in [Models -> Nat \ {0}]
    /\ NoStore \notin Stores
    /\ NoModel \notin Models
    \* an INSERT always finds an id that no pass remembers
    /\ IsFiniteSet(Ids) /\ IsFiniteSet(Stores)
    /\ Cardinality(Ids) > Cardinality(Stores)

VARIABLES
    lockOwner,  \* whose descriptor has the flock
    holder,     \* what the lock file says
    tableWidth, \* of the vector tables, 0 before they exist
    stamped,    \* embedding_model and embedding_dimensions in store_metadata
    present,    \* the chunks
    embedded,   \* embedded_hash = content_hash
    vector,     \* the model a stored vector comes from
    rows,       \* the embedding job of a chunk
    phase,      \* how far a store is in its life
    model,      \* the configuration a store was opened with
    draining,   \* a pump or a processQueues() call of the store is running
    copy,       \* the jobs its pass has claimed, as captured
    late,       \* history: chunks a closed store claimed or wrote
    torn        \* history: vectors were dropped, and no migration followed yet

database == <<tableWidth, stamped, present, embedded, vector, rows, torn>>
store == <<phase, model, draining, copy>>
vars == <<lockOwner, holder, database, store, late>>

(* "locked": has the flock; "named": wrote its name; "prepared": tables    *)
(* and jobs put in order; "current", "outdated": knows the plan.           *)
Phases == {"closed", "locked", "named", "prepared", "current", "outdated", "open"}

TypeOK ==
    /\ lockOwner \in Stores \cup {NoStore}
    /\ holder \in Stores \cup {NoStore}
    /\ tableWidth \in Nat
    /\ stamped \in Models \cup {NoModel}
    /\ present \in SUBSET Chunks
    /\ embedded \in [Chunks -> BOOLEAN]
    /\ vector \in [Chunks -> Models \cup {NoModel}]
    /\ rows \in [Chunks -> Row]
    /\ phase \in [Stores -> Phases]
    /\ model \in [Stores -> Models \cup {NoModel}]
    /\ draining \in [Stores -> BOOLEAN]
    /\ copy \in [Stores -> [Chunks -> Copy]]
    /\ late \in SUBSET Chunks
    /\ torn \in BOOLEAN

Held(s) == {c \in Chunks : copy[s][c] # NoCopy}

FreshId(c) == CHOOSE i \in Ids : \A s \in Stores : copy[s][c].id # i

Enter(s, p) == phase' = [phase EXCEPT ![s] = p]

(* The kernel drops the flock with the descriptor; releasing twice does    *)
(* nothing.  The name stays in the file.                                   *)
Unlock(s) ==
    /\ lockOwner' = IF lockOwner = s THEN NoStore ELSE lockOwner
    /\ UNCHANGED holder

-----------------------------------------------------------------------------
(* Opening: KnowledgeDatabase.init, then KnowledgeStore.init.              *)

LockIsFree == lockOwner = NoStore

(* A second writer is refused, which changes nothing.                      *)
Acquire(s, m) ==
    /\ phase[s] = "closed"
    /\ ~draining[s]
    /\ LockIsFree
    /\ lockOwner' = s
    /\ Enter(s, "locked")
    /\ model' = [model EXCEPT ![s] = m]
    /\ UNCHANGED <<holder, database, draining, copy, late>>

StampHolder(s) ==
    /\ phase[s] = "locked"
    /\ holder' = s
    /\ Enter(s, "named")
    /\ UNCHANGED <<lockOwner, database, model, draining, copy, late>>

(* Mutation of the next definition: jobs of a dead process stay running.   *)
NothingReclaimed == rows

AbandonedReclaimed == [c \in Chunks |-> Reclaimed(rows[c])]

(* One transaction; a changed width drops every vector.                    *)
PrepareTables(s) ==
    LET width == Width[model[s]]
    IN  /\ phase[s] = "named"
        /\ tableWidth' = width
        /\ vector' = IF tableWidth = width THEN vector ELSE [c \in Chunks |-> NoModel]
        /\ torn' = (torn \/ vector' # vector)
        /\ rows' = AbandonedReclaimed
        /\ Enter(s, "prepared")
        /\ UNCHANGED <<lockOwner, holder, stamped, present, embedded,
                       model, draining, copy, late>>

(* Mutation of the next definition: the stored value is not compared.      *)
OutdatedOnceStamped(s) == stamped # NoModel

(* A key that was never written is not a migration.                        *)
Outdated(s) == stamped \notin {NoModel, model[s]}

ReadPlan(s) ==
    /\ phase[s] = "prepared"
    /\ Enter(s, IF Outdated(s) THEN "outdated" ELSE "current")
    /\ UNCHANGED <<lockOwner, holder, database, model, draining, copy, late>>

StampVersion(s) ==
    /\ phase[s] = "current"
    /\ stamped' = model[s]
    /\ Enter(s, "open")
    /\ UNCHANGED <<lockOwner, holder, tableWidth, present, embedded, vector, rows,
                   torn, model, draining, copy, late>>

(* Mutations of the next two definitions: only the chunks without a vector *)
(* are embedded again; coverage is left as it was.                         *)
WithoutVector == {c \in present : vector[c] = NoModel}
CoverageAsItWas == embedded

ToEmbedAgain == present
CoverageInvalidated == [c \in Chunks |-> FALSE]

(* One transaction: invalidateAllEmbeddings, enqueueAll and the stamp.     *)
Migrate(s) ==
    /\ phase[s] = "outdated"
    /\ embedded' = CoverageInvalidated
    /\ rows' = [c \in Chunks |->
            IF c \in ToEmbedAgain THEN Enqueued(rows[c], FreshId(c)) ELSE rows[c]]
    /\ stamped' = model[s]
    /\ torn' = FALSE
    /\ late' = {}
    /\ Enter(s, "open")
    /\ UNCHANGED <<lockOwner, holder, tableWidth, present, vector, model, draining, copy>>

(* The host's migrationHandler says no: init throws, the lock goes with it. *)
Veto(s) ==
    /\ phase[s] = "outdated"
    /\ Unlock(s)
    /\ Enter(s, "closed")
    /\ UNCHANGED <<database, model, draining, copy, late>>

-----------------------------------------------------------------------------
(* An open store at work, and a closed one that still is.                  *)

Ingest(s, c) ==
    /\ phase[s] = "open"
    /\ c \notin present
    /\ present' = present \cup {c}
    /\ rows' = [rows EXCEPT ![c] = Enqueued(@, FreshId(c))]
    /\ UNCHANGED <<lockOwner, holder, tableWidth, stamped, embedded, vector, torn,
                   store, late>>

StartDraining(s) ==
    /\ phase[s] = "open"
    /\ ~draining[s]
    /\ draining' = [draining EXCEPT ![s] = TRUE]
    /\ UNCHANGED <<lockOwner, holder, database, phase, model, copy, late>>

(* stopProcessing(), close() or the end of the call, once no pass is out.  *)
StopDraining(s) ==
    /\ draining[s]
    /\ Held(s) = {}
    /\ draining' = [draining EXCEPT ![s] = FALSE]
    /\ UNCHANGED <<lockOwner, holder, database, phase, model, copy, late>>

(* A closed store's doing is remembered. *)
Touch(s, S) == late' = IF phase[s] = "open" THEN late ELSE late \cup S

(* How many of the due jobs fill a batch is left open: see IndexPipeline.  *)
Claim(s) ==
    /\ draining[s]
    /\ Held(s) = {}
    /\ \E batch \in (SUBSET {c \in Chunks : Claimable(rows[c])}) \ {{}} :
        /\ rows' = [c \in Chunks |-> IF c \in batch THEN Claimed(rows[c]) ELSE rows[c]]
        /\ copy' = [copy EXCEPT ![s] = [c \in Chunks |->
                IF c \in batch THEN CopyOf(rows[c]) ELSE NoCopy]]
        /\ Touch(s, batch)
    /\ UNCHANGED <<lockOwner, holder, tableWidth, stamped, present, embedded, vector, torn,
                   phase, model, draining>>

(* sqlite-vec refuses a vector of another width than the table's.          *)
StoreVectors(s) ==
    /\ Held(s) # {}
    /\ Width[model[s]] = tableWidth
    /\ vector' = [c \in Chunks |-> IF c \in Held(s) THEN model[s] ELSE vector[c]]
    /\ embedded' = [c \in Chunks |-> c \in Held(s) \/ embedded[c]]
    /\ rows' = [c \in Chunks |->
            IF c \in Held(s) THEN Completed(rows[c], copy[s][c]) ELSE rows[c]]
    /\ copy' = [copy EXCEPT ![s] = [c \in Chunks |-> NoCopy]]
    /\ Touch(s, Held(s))
    /\ UNCHANGED <<lockOwner, holder, tableWidth, stamped, present, torn,
                   phase, model, draining>>

(* The model failed, the pump was cancelled while it waited for it, or the *)
(* vectors were refused.                                                   *)
RecordFailure(s, isTransient) ==
    /\ Held(s) # {}
    /\ rows' = [c \in Chunks |->
            IF c \in Held(s) THEN Failed(rows[c], copy[s][c], isTransient) ELSE rows[c]]
    /\ copy' = [copy EXCEPT ![s] = [c \in Chunks |-> NoCopy]]
    /\ Touch(s, Held(s))
    /\ UNCHANGED <<lockOwner, holder, tableWidth, stamped, present, embedded, vector, torn,
                   phase, model, draining>>

BackoffElapses(c) ==
    /\ rows[c].state = "pending"
    /\ ~rows[c].due
    /\ rows' = [rows EXCEPT ![c].due = TRUE]
    /\ UNCHANGED <<lockOwner, holder, tableWidth, stamped, present, embedded, vector, torn,
                   store, late>>

(* close() cancels the pump and unlocks; it waits for neither the pass in  *)
(* flight nor a processQueues() call.                                      *)
Close(s) ==
    /\ phase[s] = "open"
    /\ Unlock(s)
    /\ Enter(s, "closed")
    /\ UNCHANGED <<database, model, draining, copy, late>>

(* The process dies, or an open fails: a failed open has no pass to lose.  *)
Crash(s) ==
    /\ phase[s] # "closed" \/ draining[s]
    /\ Unlock(s)
    /\ Enter(s, "closed")
    /\ draining' = [draining EXCEPT ![s] = FALSE]
    /\ copy' = [copy EXCEPT ![s] = [c \in Chunks |-> NoCopy]]
    /\ UNCHANGED <<database, model, late>>

-----------------------------------------------------------------------------
(* No database file yet.                                                   *)
Init ==
    /\ lockOwner = NoStore
    /\ holder = NoStore
    /\ tableWidth = 0
    /\ stamped = NoModel
    /\ present = {}
    /\ embedded = [c \in Chunks |-> FALSE]
    /\ vector = [c \in Chunks |-> NoModel]
    /\ rows = [c \in Chunks |-> NoJob]
    /\ phase = [s \in Stores |-> "closed"]
    /\ model = [s \in Stores |-> NoModel]
    /\ draining = [s \in Stores |-> FALSE]
    /\ copy = [s \in Stores |-> [c \in Chunks |-> NoCopy]]
    /\ late = {}
    /\ torn = FALSE

OpenStep(s) ==
    \/ StampHolder(s)
    \/ PrepareTables(s)
    \/ ReadPlan(s)
    \/ StampVersion(s)
    \/ Migrate(s)

PassStep(s) ==
    \/ Claim(s)
    \/ StoreVectors(s)
    \/ \E isTransient \in BOOLEAN : RecordFailure(s, isTransient)

(* What a host does with its store, or what befalls it. *)
HostStep(s) ==
    \/ \E m \in Models : Acquire(s, m)
    \/ Veto(s)
    \/ \E c \in Chunks : Ingest(s, c)
    \/ StartDraining(s)
    \/ StopDraining(s)
    \/ Close(s)
    \/ Crash(s)

Next ==
    \/ \E s \in Stores : OpenStep(s) \/ PassStep(s) \/ HostStep(s)
    \/ \E c \in Chunks : BackoffElapses(c)

Spec == Init /\ [][Next]_vars

(* Passes go on and time goes by; hosts owe nothing.                       *)
Fairness ==
    /\ \A s \in Stores : WF_vars(PassStep(s))
    /\ \A c \in Chunks : WF_vars(BackoffElapses(c))

FairSpec == Spec /\ Fairness

-----------------------------------------------------------------------------
(* Safety.                                                                 *)

(* Every store beyond the lock, however it got there and whoever crashed   *)
(* or was closed before it, has the lock to itself, and from the moment it *)
(* touches the database a refused writer is told its name.                 *)
WritersAreNamed ==
    \A s \in Stores :
        /\ phase[s] # "closed" => lockOwner = s
        /\ phase[s] \notin {"closed", "locked"} => holder = s

(* A chunk that counts as not embedded has a job, live or dead-lettered,   *)
(* at every point of an open, a crash, a veto or a late write.             *)
UnembeddedIsQueued ==
    \A c \in present : ~embedded[c] => rows[c].state # "none"

(* A chunk that counts as embedded has a vector of the model the store is  *)
(* stamped with, unless a closed store wrote to it, or the vectors were    *)
(* dropped by an open that did not get to its migration.                   *)
EmbeddedByStampedModel ==
    \A c \in Chunks : embedded[c] /\ c \notin late =>
        \/ vector[c] = stamped /\ stamped # NoModel
        \/ vector[c] = NoModel /\ torn

(* Work done is done: whatever was refused, vetoed or interrupted before,  *)
(* only a step that stamps another configuration takes coverage back.      *)
ReembedsOnlyOnChange ==
    [][\A c \in Chunks : embedded[c] /\ ~embedded'[c] =>
            stamped # NoModel /\ stamped' # stamped]_vars

-----------------------------------------------------------------------------
(* Liveness.                                                               *)

Disturbance ==
    \E s \in Stores : HostStep(s) \/ RecordFailure(s, TRUE)

(* Left to itself, a store that is open and drains its queue ends with     *)
(* every chunk embedded by its own model or dead-lettered, whatever was    *)
(* interrupted before; the exceptions are those of EmbeddedByStampedModel. *)
OpenStoreEmbedsCorpus ==
    (<>[][~Disturbance]_vars) =>
        <>[](\A s \in Stores : phase[s] = "open" /\ draining[s] =>
                \A c \in present :
                    \/ embedded[c] /\ vector[c] = model[s]
                    \/ rows[c].state = "failed"
                    \/ c \in late
                    \/ torn /\ vector[c] = NoModel)

-----------------------------------------------------------------------------
(* What the repository says of this code, and the code does not keep.      *)

(* VectorIndex.swift:14: the chunks whose vectors a recreated table drops  *)
(* are marked for re-embedding by the same migration: none is left that    *)
(* counts as embedded in a store that has opened.                          *)
DroppedVectorsAreReembedded ==
    \A s \in Stores : phase[s] = "open" =>
        \A c \in present : embedded[c] => vector[c] # NoModel

=============================================================================
