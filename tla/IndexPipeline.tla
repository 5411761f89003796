--------------------------- MODULE IndexPipeline ---------------------------
(***************************************************************************)
(* The path of a document's chunks through the store: ingestion writes     *)
(* chunk rows and queues work in one transaction; passes of JobWorkers     *)
(* claim jobs, read the chunks, wait for a model outside any transaction   *)
(* and write the results back; the process may die between any two         *)
(* transactions and open the store again.                                  *)
(*                                                                         *)
(* One action is one transaction on the database (or one model call and    *)
(* the transaction that follows it, between which nothing is shared).      *)
(* Texts stand for contents and for their hashes alike.                    *)
(*                                                                         *)
(* Every per-kind variable is indexed by "embed" or "extract":             *)
(*   done    is chunks.embedded_hash / chunks.extracted_hash,              *)
(*   derived is the text the stored vector was computed from / the text    *)
(*           the chunk's extracted mentions and relations came from.       *)
(***************************************************************************)
EXTENDS JobQueue, FiniteSets

CONSTANTS
    Chunks,     \* chunk ids of one document: position and heading, not content
    Texts,      \* what a chunk may say
    NoText,     \* no such row, NULL hash, or nothing derived
    Passes,     \* pass executors: the pump, processQueues() calls, an old pump
                \* that was stopped in the middle of a pass
    BatchSize,  \* EmbeddingConfiguration.batchSize
    WorkerCount,\* KnowledgeStoreConfiguration.workerCount
    GraphSettings, \* the values of graphExtraction the store is opened with
    Files,      \* what a file may be edited to: the text of each of its chunks
    Migrations  \* what the configurations of later opens change; {} for no such open

Kinds == {"embed", "extract"}

TextOrNone == Texts \cup {NoText}

ASSUME IndexPipelineAssumption ==
    /\ NoText \notin Texts
    /\ Files \subseteq [Chunks -> TextOrNone]
    /\ Migrations \subseteq [changed : SUBSET Kinds, redimension : BOOLEAN]
    /\ BatchSize \in Nat \ {0}
    /\ WorkerCount \in Nat \ {0}
    /\ GraphSettings \subseteq BOOLEAN
    \* an INSERT always finds an id that no pass remembers
    /\ IsFiniteSet(Ids) /\ IsFiniteSet(Passes)
    /\ Cardinality(Ids) > Cardinality(Passes)

VARIABLES
    content,    \* chunks.content_hash, NoText for no row
    done,       \* per kind: the hash recorded by the last successful pass
    derived,    \* per kind: the text the derived data comes from
    jobs,       \* per kind: the row of the jobs table
    graphOn,    \* configuration.graphExtraction of the process that has the store
    turn,       \* per pass: the queue it is draining or will drain next
    copy,       \* per pass: the jobs it claimed, as captured
    seen,       \* per pass: the text it read for the model call it is making
    orphans,    \* per pass: claimed jobs whose chunk it did not find
    lapse       \* history: why a stale chunk may have no job (see Lapses)

vars == <<content, done, derived, jobs, graphOn, turn, copy, seen, orphans, lapse>>

store == <<content, done, derived, jobs, graphOn, lapse>>
passes == <<turn, copy, seen, orphans>>

(* "overtaken": the job was queued again while a pass held the chunk;      *)
(* "discarded": the user deleted the dead-lettered job.                    *)
Lapses == {"none", "overtaken", "discarded"}

TypeOK ==
    /\ content \in [Chunks -> TextOrNone]
    /\ done    \in [Kinds -> [Chunks -> TextOrNone]]
    /\ derived \in [Kinds -> [Chunks -> TextOrNone]]
    /\ jobs    \in [Kinds -> [Chunks -> Row]]
    /\ graphOn \in BOOLEAN
    /\ turn    \in [Passes -> Kinds]
    /\ copy    \in [Passes -> [Chunks -> Copy]]
    /\ seen    \in [Passes -> [Chunks -> TextOrNone]]
    /\ orphans \in [Passes -> SUBSET Chunks]
    /\ lapse   \in [Kinds -> [Chunks -> Lapses]]

-----------------------------------------------------------------------------
(* Views of the state.                                                     *)

Held(p) == {c \in Chunks : copy[p][c] # NoCopy}

(* The chunks the model call in flight is about. *)
Asked(p) == {c \in Chunks : seen[p][c] # NoText}

InFlight(k, c) == \E p \in Passes : turn[p] = k /\ c \in Held(p)

(* The id the next INSERT would get: one no pass remembers.                *)
FreshId(k, c) ==
    CHOOSE i \in Ids : \A p \in Passes : turn[p] = k => copy[p][c].id # i

Limit(k) == IF k = "embed" THEN BatchSize ELSE WorkerCount

Due(k) == {c \in Chunks : Claimable(jobs[k][c])}

-----------------------------------------------------------------------------
(* Ingestion: DocumentIngestor.applyChunkDiff on the chunks the file's new *)
(* text parses to.  Front matter and the graph's entities are left out.    *)

Added(text)    == {c \in Chunks : content[c] = NoText /\ text[c] # NoText}
Modified(text) == {c \in Chunks : content[c] # NoText /\ text[c] \notin {NoText, content[c]}}
Removed(text)  == {c \in Chunks : content[c] # NoText /\ text[c] = NoText}

(* enqueueWork queues embedding always, extraction only with the graph on. *)
Queues(k) == k = "embed" \/ graphOn

QueuedBy(text, k, c) == Queues(k) /\ c \in Added(text) \cup Modified(text)

JobAfter(text, k, c) ==
    IF c \in Removed(text) THEN NoJob
    ELSE IF QueuedBy(text, k, c) THEN Enqueued(jobs[k][c], FreshId(k, c))
    ELSE jobs[k][c]

ApplyDiff(text) ==
    /\ content' = text
    /\ done' = [k \in Kinds |-> [c \in Chunks |->
            IF c \in Added(text) \cup Removed(text) THEN NoText ELSE done[k][c]]]
    /\ derived' = [k \in Kinds |-> [c \in Chunks |->
            IF c \in Modified(text) \cup Removed(text) THEN NoText ELSE derived[k][c]]]
    /\ jobs' = [k \in Kinds |-> [c \in Chunks |-> JobAfter(text, k, c)]]
    /\ lapse' = [k \in Kinds |-> [c \in Chunks |->
            IF QueuedBy(text, k, c)
            THEN IF InFlight(k, c) THEN "overtaken" ELSE "none"
            ELSE lapse[k][c]]]
    /\ UNCHANGED <<graphOn, passes>>

(* A file whose content differs from the indexed one: a byte-identical one *)
(* takes ingest's fast path and changes nothing.                           *)
Ingest(text) ==
    /\ text # content
    /\ \E c \in Chunks : text[c] # NoText
    /\ ApplyDiff(text)

(* The file is gone: the document, its chunks, their vectors and, by       *)
(* trigger and cascade, their jobs and extracted facts.                    *)
RemoveDocument ==
    /\ \E c \in Chunks : content[c] # NoText
    /\ ApplyDiff([c \in Chunks |-> NoText])

-----------------------------------------------------------------------------
(* A pass over one queue.  Idle, it holds nothing; then it claims a batch, *)
(* reads, retires jobs whose chunk is gone, waits for the model and writes *)
(* back.  Embedding asks about the whole batch at once, extraction about   *)
(* one chunk after the other.  After a pass the other queue has its turn.  *)

(* Mutation of the next definition: a pump that drains one queue only.     *)
SameKind(k) == k

OtherKind(k) == CHOOSE o \in Kinds : o # k

(* The pass is through with the jobs of S.                                 *)
Release(p, S) ==
    /\ copy' = [copy EXCEPT ![p] = [c \in Chunks |-> IF c \in S THEN NoCopy ELSE @[c]]]
    /\ seen' = [seen EXCEPT ![p] = [c \in Chunks |-> IF c \in S THEN NoText ELSE @[c]]]
    /\ turn' = [turn EXCEPT ![p] = IF Held(p) \subseteq S THEN OtherKind(@) ELSE @]
    /\ orphans' = [orphans EXCEPT ![p] = {}]

(* Which of the due jobs fill a batch smaller than the queue is left open: *)
(* the code takes the earliest next_after first.                           *)
Claim(p) ==
    LET k == turn[p]
    IN  /\ Held(p) = {}
        /\ \E batch \in SUBSET Due(k) :
            /\ batch # {}
            /\ Cardinality(batch) <= Limit(k)
            /\ batch = Due(k) \/ Cardinality(batch) = Limit(k)
            /\ jobs' = [jobs EXCEPT ![k] = [c \in Chunks |->
                    IF c \in batch THEN Claimed(@[c]) ELSE @[c]]]
            /\ copy' = [copy EXCEPT ![p] = [c \in Chunks |->
                    IF c \in batch THEN CopyOf(jobs[k][c]) ELSE NoCopy]]
        /\ UNCHANGED <<content, done, derived, graphOn, lapse, turn, seen, orphans>>

FindNothingDue(p) ==
    /\ Held(p) = {}
    /\ Due(turn[p]) = {}
    /\ turn' = [turn EXCEPT ![p] = OtherKind(@)]
    /\ UNCHANGED <<store, copy, seen, orphans>>

(* The chunks one read transaction is about: the batch, or the next job.   *)
ReadSets(p) == IF turn[p] = "embed" THEN {Held(p)} ELSE {{c} : c \in Held(p)}

ReadChunks(p) ==
    /\ Held(p) # {}
    /\ Asked(p) = {}
    /\ orphans[p] = {}
    /\ \E S \in ReadSets(p) :
        /\ seen' = [seen EXCEPT ![p] = [c \in Chunks |->
                IF c \in S THEN content[c] ELSE NoText]]
        /\ orphans' = [orphans EXCEPT ![p] = {c \in S : content[c] = NoText}]
    /\ UNCHANGED <<store, turn, copy>>

RetireOrphans(p) ==
    LET k == turn[p]
    IN  /\ orphans[p] # {}
        /\ jobs' = [jobs EXCEPT ![k] = [c \in Chunks |->
                IF c \in orphans[p] THEN Completed(@[c], copy[p][c]) ELSE @[c]]]
        /\ Release(p, orphans[p])
        /\ UNCHANGED <<content, done, derived, graphOn, lapse>>

AwaitingModel(p) == Asked(p) # {} /\ orphans[p] = {}

(* Mutation of the next definition: the hash the chunk has by now.         *)
HashOnceStored(p, c) == content[c]

EmbeddedHash(p, c) == seen[p][c]

(* Vectors and embedded_hash are those of the text that was read.  The     *)
(* vector table has no foreign key: a vector is written for a chunk that   *)
(* was deleted meanwhile.                                                  *)
StoreVectors(p) ==
    /\ turn[p] = "embed"
    /\ AwaitingModel(p)
    /\ derived' = [derived EXCEPT !["embed"] = [c \in Chunks |->
            IF c \in Asked(p) THEN seen[p][c] ELSE @[c]]]
    /\ done' = [done EXCEPT !["embed"] = [c \in Chunks |->
            IF c \in Asked(p) /\ content[c] # NoText THEN EmbeddedHash(p, c) ELSE @[c]]]
    /\ jobs' = [jobs EXCEPT !["embed"] = [c \in Chunks |->
            IF c \in Asked(p) THEN Completed(@[c], copy[p][c]) ELSE @[c]]]
    /\ Release(p, Asked(p))
    /\ UNCHANGED <<content, graphOn, lapse>>

(* The facts are those of the text that was read, extracted_hash is that   *)
(* of the text the chunk has now.  For a chunk deleted meanwhile the       *)
(* insert breaks a foreign key, and the failure finds no job to record it  *)
(* on: nothing changes.                                                    *)
StoreFacts(p) ==
    LET kept == {c \in Asked(p) : content[c] # NoText}
    IN  /\ turn[p] = "extract"
        /\ AwaitingModel(p)
        /\ derived' = [derived EXCEPT !["extract"] = [c \in Chunks |->
                IF c \in kept THEN seen[p][c] ELSE @[c]]]
        /\ done' = [done EXCEPT !["extract"] = [c \in Chunks |->
                IF c \in kept THEN content[c] ELSE @[c]]]
        /\ jobs' = [jobs EXCEPT !["extract"] = [c \in Chunks |->
                IF c \in kept THEN Completed(@[c], copy[p][c]) ELSE @[c]]]
        /\ Release(p, Asked(p))
        /\ UNCHANGED <<content, graphOn, lapse>>

(* The model (or the write that follows it) failed: recordFailure charges  *)
(* every job the call was about.                                           *)
RecordFailure(p, isTransient) ==
    LET k == turn[p]
    IN  /\ AwaitingModel(p)
        /\ jobs' = [jobs EXCEPT ![k] = [c \in Chunks |->
                IF c \in Asked(p) THEN Failed(@[c], copy[p][c], isTransient) ELSE @[c]]]
        /\ Release(p, Asked(p))
        /\ UNCHANGED <<content, done, derived, graphOn, lapse>>

(* A database error outside the model call's do/catch ends the pass: what  *)
(* it claimed stays marked running.                                        *)
AbandonPass(p) ==
    /\ Held(p) # {}
    /\ copy' = [copy EXCEPT ![p] = [c \in Chunks |-> NoCopy]]
    /\ seen' = [seen EXCEPT ![p] = [c \in Chunks |-> NoText]]
    /\ turn' = [turn EXCEPT ![p] = "embed"]
    /\ orphans' = [orphans EXCEPT ![p] = {}]
    /\ UNCHANGED store

-----------------------------------------------------------------------------
(* Time, the user and the process.                                         *)

BackoffElapses(k, c) ==
    /\ jobs[k][c].state = "pending"
    /\ ~jobs[k][c].due
    /\ jobs' = [jobs EXCEPT ![k][c].due = TRUE]
    /\ UNCHANGED <<content, done, derived, graphOn, lapse, passes>>

(* retryFailedJobs(kind:), with nil for both kinds.                        *)
RetryFailedJobs(kinds) ==
    /\ \E k \in kinds, c \in Chunks : jobs[k][c].state = "failed"
    /\ jobs' = [k \in Kinds |-> [c \in Chunks |->
            IF k \in kinds THEN Retried(jobs[k][c]) ELSE jobs[k][c]]]
    /\ UNCHANGED <<content, done, derived, graphOn, lapse, passes>>

(* compact(discardingFailedJobs: true).                                    *)
DiscardFailedJobs ==
    /\ \E k \in Kinds, c \in Chunks : jobs[k][c].state = "failed"
    /\ jobs' = [k \in Kinds |-> [c \in Chunks |-> Discarded(jobs[k][c])]]
    /\ lapse' = [k \in Kinds |-> [c \in Chunks |->
            IF jobs[k][c].state = "failed" THEN "discarded" ELSE lapse[k][c]]]
    /\ UNCHANGED <<content, done, derived, graphOn, passes>>

(* Mutation of the next definition: an open that only migrates.            *)
QueuedByMigration(graph, changed, k) ==
    {c \in Chunks : content[c] # NoText /\ k \in changed}

(* The chunks an open queues for kind k: all of them when a version key    *)
(* of that kind changed, and with the graph on whatever was not extracted  *)
(* from the text it has now.                                               *)
QueuedAtOpen(graph, changed, k) ==
    {c \in Chunks : content[c] # NoText
                    /\ \/ k \in changed
                       \/ k = "extract" /\ graph /\ done[k][c] # content[c]}

(* The process dies, taking its passes with it, and the store is opened    *)
(* again: KnowledgeDatabase.init, applyMigrations (with no veto) and       *)
(* reconcileGraphExtraction, taken together.  `changed` are the kinds a    *)
(* changed version key invalidates; `redimension` says that the vector     *)
(* tables were recreated because the new model's vectors have another      *)
(* width.                                                                  *)
Reopen(graph, changed, redimension) ==
    /\ redimension => "embed" \in changed
    /\ graphOn' = graph
    /\ turn'    = [p \in Passes |-> "embed"]
    /\ copy'    = [p \in Passes |-> [c \in Chunks |-> NoCopy]]
    /\ seen'    = [p \in Passes |-> [c \in Chunks |-> NoText]]
    /\ orphans' = [p \in Passes |-> {}]
    /\ content' = content
    /\ done'    = [k \in Kinds |-> [c \in Chunks |->
            IF k \in changed THEN NoText ELSE done[k][c]]]
    /\ derived' = [k \in Kinds |-> [c \in Chunks |->
            IF redimension /\ k = "embed" THEN NoText ELSE derived[k][c]]]
    /\ jobs'    = [k \in Kinds |-> [c \in Chunks |->
            IF k = "extract" /\ ~graph THEN NoJob
            ELSE IF c \in QueuedAtOpen(graph, changed, k)
            THEN Enqueued(Reclaimed(jobs[k][c]), FreshId(k, c))
            ELSE Reclaimed(jobs[k][c])]]
    /\ lapse'   = [k \in Kinds |-> [c \in Chunks |->
            IF c \in QueuedAtOpen(graph, changed, k) THEN "none" ELSE lapse[k][c]]]

-----------------------------------------------------------------------------
(* An empty store, just opened.                                            *)
Init ==
    /\ content = [c \in Chunks |-> NoText]
    /\ done    = [k \in Kinds |-> [c \in Chunks |-> NoText]]
    /\ derived = [k \in Kinds |-> [c \in Chunks |-> NoText]]
    /\ jobs    = [k \in Kinds |-> [c \in Chunks |-> NoJob]]
    /\ graphOn \in GraphSettings
    /\ turn    = [p \in Passes |-> "embed"]
    /\ copy    = [p \in Passes |-> [c \in Chunks |-> NoCopy]]
    /\ seen    = [p \in Passes |-> [c \in Chunks |-> NoText]]
    /\ orphans = [p \in Passes |-> {}]
    /\ lapse   = [k \in Kinds |-> [c \in Chunks |-> "none"]]

(* What a pass does by itself once started. *)
PassStep(p) ==
    \/ Claim(p)
    \/ FindNothingDue(p)
    \/ ReadChunks(p)
    \/ RetireOrphans(p)
    \/ StoreVectors(p)
    \/ StoreFacts(p)
    \/ \E isTransient \in BOOLEAN : RecordFailure(p, isTransient)

User ==
    \/ \E text \in Files : Ingest(text)
    \/ RemoveDocument
    \/ \E kinds \in SUBSET Kinds : RetryFailedJobs(kinds)
    \/ DiscardFailedJobs

Next ==
    \/ \E p \in Passes : PassStep(p)
    \/ \E p \in Passes : AbandonPass(p)
    \/ \E k \in Kinds, c \in Chunks : BackoffElapses(k, c)
    \/ User
    \/ \E graph \in GraphSettings, m \in Migrations :
           Reopen(graph, m.changed, m.redimension)

Spec == Init /\ [][Next]_vars

(* The pump loops for as long as the store is open, a model call ends      *)
(* (OllamaClient gives every request a timeout) and time goes by.  Users,  *)
(* crashes and database errors are owed nothing.                           *)
Fairness ==
    /\ \A p \in Passes : WF_vars(PassStep(p))
    /\ \A k \in Kinds, c \in Chunks : WF_vars(BackoffElapses(k, c))

FairSpec == Spec /\ Fairness

-----------------------------------------------------------------------------
(* Safety.                                                                 *)

(* No job outlives its chunk: the trigger retires them together, and no    *)
(* late result, failure or open brings one back.                           *)
QueuedWorkHasChunk ==
    \A k \in Kinds, c \in Chunks :
        jobs[k][c].state # "none" => content[c] # NoText

(* A chunk whose vector is missing or of another text has an embedding     *)
(* job, live or dead-lettered, unless the user discarded that job or a     *)
(* pass was working on the chunk when the work was queued.  The second     *)
(* exception loses the job for good (EditedChunkIsReembedded, below); this *)
(* says that nothing else does.                                            *)
StaleChunkIsQueued ==
    \A c \in Chunks :
        /\ content[c] # NoText
        /\ done["embed"][c] # content[c] \/ derived["embed"][c] # content[c]
        => jobs["embed"][c].state # "none" \/ lapse["embed"][c] # "none"

(* With the graph on, a chunk that was not extracted since its last edit   *)
(* has an extraction job unless the user discarded it, even after races.   *)
UnextractedChunkIsQueued ==
    graphOn => \A c \in Chunks :
        /\ content[c] # NoText
        /\ done["extract"][c] # content[c]
        => jobs["extract"][c].state # "none" \/ lapse["extract"][c] = "discarded"

(* embedded_hash never names a text other than the one the stored vector   *)
(* was computed from, however late the vector arrives.                     *)
EmbeddedHashNamesVector ==
    \A c \in Chunks :
        /\ done["embed"][c] # NoText
        /\ derived["embed"][c] # NoText
        => done["embed"][c] = derived["embed"][c]

(* What a pass remembers of a job is what the row still says, and no other *)
(* pass remembers it too, unless the work was queued again under it.       *)
ClaimIsCurrent ==
    \A p \in Passes : \A c \in Held(p) :
        LET row == jobs[turn[p]][c]
        IN  row.id = copy[p][c].id /\ lapse[turn[p]][c] = "none" =>
                /\ row.state = "running"
                /\ row.attempts = copy[p][c].attempts
                /\ \A q \in Passes \ {p} :
                        turn[q] = turn[p] => copy[q][c].id # row.id

(* A job is dead-lettered exactly when its budget of attempts is spent.    *)
BudgetDecidesDeadLetter ==
    \A k \in Kinds, c \in Chunks :
        /\ jobs[k][c].state = "failed" => jobs[k][c].attempts = MaximumAttempts
        /\ jobs[k][c].state \in {"pending", "running"} =>
               jobs[k][c].attempts < MaximumAttempts

(* A dead-lettered job comes back only with its attempts cleared, unless   *)
(* the work was queued under a pass that then reports an older failure.    *)
DeadLetterStaysDead ==
    [][\A k \in Kinds, c \in Chunks :
         jobs[k][c].state = "failed" /\ lapse[k][c] # "overtaken" =>
             \/ jobs'[k][c].state \in {"failed", "none"}
             \/ jobs'[k][c].attempts = 0 /\ jobs'[k][c].due]_vars

-----------------------------------------------------------------------------
(* Liveness.                                                               *)

(* What may go on forever: edits, restarts, database errors and an         *)
(* unreachable model, whose transient failures are retried without end.    *)
Disturbance ==
    \/ User
    \/ \E p \in Passes : AbandonPass(p) \/ RecordFailure(p, TRUE)
    \/ \E graph \in GraphSettings, m \in Migrations :
           Reopen(graph, m.changed, m.redimension)

(* Marked running by a pass that is no more: waits for the next open.      *)
LeftRunning(k, c) == jobs[k][c].state = "running" /\ ~InFlight(k, c)

(* Once nothing disturbs the store any more, every job is done, or         *)
(* dead-lettered, or was left running by a pass that a database error      *)
(* ended: no backoff, batch limit, late failure or second pass keeps a job *)
(* circulating.                                                            *)
QueueDrains ==
    (<>[][~Disturbance]_vars) =>
        <>[](\A k \in Kinds, c \in Chunks :
                jobs[k][c].state \in {"none", "failed"} \/ LeftRunning(k, c))

-----------------------------------------------------------------------------
(* What the repository says of this code, and the code does not keep.      *)

(* LocalKnowledgeBaseSpecification.md:215: the content hash detects that a *)
(* section's prose was edited, and the chunk is embedded again in place.   *)
(* So as long as its embedded hash is of another text it has a job to      *)
(* embed it, live or dead-lettered, unless the user discarded that job.    *)
EditedChunkIsReembedded ==
    \A c \in Chunks :
        content[c] # NoText /\ done["embed"][c] # content[c] =>
            jobs["embed"][c].state # "none" \/ lapse["embed"][c] = "discarded"

(* Schema.swift:42: extracted_hash is the content hash as of the last      *)
(* successful extraction.                                                  *)
ExtractedHashNamesFacts ==
    \A c \in Chunks :
        /\ done["extract"][c] # NoText
        /\ derived["extract"][c] # NoText
        => done["extract"][c] = derived["extract"][c]

=============================================================================
