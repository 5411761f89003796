# KnowledgeBaseKit in TLA+

A formal model of the parts of KnowledgeBaseKit where order, concurrency and
failure decide whether the index can be trusted. File names below are relative
to `src/Sources/KnowledgeBaseKit` unless they begin with `src/`.

## The system

A host opens a `KnowledgeStore` (a Swift actor) on one SQLite file. Markdown
files are the source of truth; everything in the database is derived.

| Component | State | Operations | Interacts with |
|---|---|---|---|
| Corpus reconciliation (`KnowledgeStore.sync`, `Corpus/CorpusScanner`, `Pipeline/DocumentIngestor`, `Storage/DocumentRepository`) | `documents` rows: id, path, content hash | sync, add, update, remove, rebuild | reads the disk, calls ingestion per file |
| Chunk ingestion (`DocumentIngestor.applyChunkDiff`, `Storage/ChunkRepository`) | `chunks` rows: content hash, embedded hash, extracted hash | ingest, remove | one transaction writes chunks, retires vectors and facts, queues jobs |
| Job queue (`Storage/JobRepository`, `jobs` table) | rows: kind, target, state, attempts, next_after | enqueue, claim, complete, fail, retryFailed, reclaimAbandoned, deleteFailed | a trigger drops a chunk's jobs with it |
| Passes (`Pipeline/JobWorkers`, the pump of `KnowledgeStore`) | what a pass holds between its transactions | embedding pass, extraction pass | claim, then a model call outside any transaction, then write-back |
| Opening (`Storage/Database`, `VectorIndex`, `VersionMetadata`, `KnowledgeStore.applyMigrations`, `reconcileGraphExtraction`) | `store_metadata`, widths of the vector tables | init, migrate, veto, close | reclaims jobs, invalidates hashes, queues work |
| Write lock (`Storage/WriteLock`) | flock and the holder's stamp | acquire, release | one writing process per database |
| Watcher (`Corpus/CorpusWatcher`, `src/Sources/kb/Watch.swift`) | pending paths, flush task, event stream | start, stop, enqueue, flush | FSEvents in, `ingest`/`remove`/`sync` out |
| Knowledge graph (`Storage/GraphRepository`, `Graph/EntityResolver`) | entities, aliases, mentions, relations | upserts, clearExtraction, collectOrphanedEntities, resolve | written by ingestion and by extraction |
| Markdown parser and chunker (`Markdown/MarkdownParser`, `Markdown/Chunker`) | none outside a call | parse, chunk | ingestion |
| Rank fusion (`Retrieval/Fusion`) | none | fuse | search |
| sqlite-vec's `vec0` (`src/Sources/CSQLiteVec/sqlite-vec.c`, called by `Storage/VectorIndex`) | shadow tables: rowids, chunks of slots, blobs of vectors and metadata, long texts, auxiliary values | insert, update, delete, k-nearest, lookup, scan | the vector tables of chunks and entity names; runs inside the store's transactions |
| Retrieval, answers, MCP server, command line, providers | none of their own | read the store, call models | |

What makes it hard:

* **Awaits between transactions.** A pass claims jobs, reads chunks and then
  waits for a model for seconds to minutes, without a transaction. Edits,
  deletions, retries, other passes and even another process come in between.
* **Upserts that keep an identity.** Queueing work for a chunk that has a job
  resets that row in place, so a pass that completes its job by id may complete
  work that was queued later. The document table does the same with its ids.
* **Crashes.** There is a transaction per step, and what a dead process left
  marked running is only handed out again by the next open.
* **A changing disk.** sync walks, hashes and ingests files one after the
  other, while the user keeps writing.
* **Configuration drift.** Every open may come with another model, another
  vector width, or the graph switched on or off.
* **Storage in pieces.** One row of a vector table is a bit in a bitmap, a slot in
  three blobs and a row in up to three side tables, which a dozen statements keep
  in step without a savepoint, and which a query reads in yet another way.

Correctness, component by component: no chunk is left without derived data and
without a job (queue, ingestion, opening), which an edit in the middle of a pass breaks
(`edit_race`, below) and nothing else does; a recorded hash tells the truth about
the data it stands for (passes), which the same edit breaks for the graph
(`extraction_race`); a job is charged exactly for its failures and
dead-lettered exactly when its budget is spent (queue); queues drain (pump); the
index says what the disk says (reconciliation, watcher); the graph holds exactly
what the present chunks support (graph); at most one process writes (lock); chunks are the
file's words, all of them, in pieces that fit and have ids of their own (chunker);
a vector table is a table, and its nearest rows are the nearest (vec0).

## Modules

| Module | What it is |
|---|---|
| `JobQueue` | One row of the jobs table and the operations of `JobRepository` on it, as operators |
| `IndexPipeline` | Ingestion, passes, failures, the user and restarts over chunks and their jobs; EXTENDS `JobQueue` |
| `MCIndexPipeline` | Files, migrations, symmetry and a view for model checking it |
| `IndexPipelineProofs` | Its safety, proved for all constants |
| `StoreLifecycle` | Several stores on one database: lock, open step by step, migration, close, late passes, death; EXTENDS `JobQueue` |
| `MCStoreLifecycle` | The vector widths for model checking it |
| `StoreLifecycleProofs` | Its safety, proved for all constants |
| `CorpusSync` | The documents table, the files, and sync step by step |
| `MCCorpusSync` | Symmetry for model checking it |
| `CorpusSyncProofs` | Its safety, proved for all constants |
| `CorpusWatcher` | FSEvents, debounce, bursts, start and stop, and the consumer; composed with an instance of `CorpusSync` |
| `CorpusWatcherProofs` | Its safety, proved for all constants |
| `KnowledgeGraph` | Entities, aliases, name vectors, mentions and relations under ingestion and extraction |
| `MCKnowledgeGraph` | Names, headers and answers for model checking it |
| `KnowledgeGraphProofs` | Its safety, proved for all constants |
| `Chunker` | Sections, merging, splitting and numbering, loop by loop |
| `MCChunker` | The files and configurations for model checking it |
| `ChunkerProofs` | Its safety, proved for all constants |
| `VectorTable` | What a vector table promises, the abstract specification |
| `Vec0` | The shadow tables of `vec0` under INSERT, UPDATE, DELETE, failures and transactions; shown to implement `VectorTable` |
| `Vec0Query` | Planning and answering of queries on the tables of `Vec0`, which it EXTENDS |
| `MCVec0Query` | Rows, changes and queries for model checking it and `Vec0` |
| `Vec0Proofs` | The storage's safety, that it implements `VectorTable`, and that what is written is read, proved for all constants |
| `Vec0QueryProofs` | What queries answer, and when they fail, proved for all constants |

### IndexPipeline

State and code: `content` is `chunks.content_hash`; `done[kind]` is
`embedded_hash` or `extracted_hash`; `derived[kind]` is the text the stored
vector, or the stored mentions and relations, came from, which the code does not
record and the properties are about; `jobs[kind][chunk]` is the row that
`UNIQUE(kind, target_id)` makes unique. `turn`, `copy`, `seen` and `orphans` are
the local variables of the passes: the queue being drained, the `Job` values
captured when they were claimed, the text read for the model, the jobs whose
chunk was not found. `lapse` is history only: it says that work was queued again
under a pass that held the chunk, or that the user discarded the job.

One action is one transaction: `Claim`, `ReadChunks`, `RetireOrphans`,
`StoreVectors`, `StoreFacts` and `RecordFailure` are `JobWorkers`; `Ingest` and
`RemoveDocument` are `DocumentIngestor`; `RetryFailedJobs` and
`DiscardFailedJobs` are the maintenance calls; `AbandonPass` is a database error
that ends a pass; `Reopen` is the death of the process and a new open with any
configuration, taken as one step. `Files` are the contents a file may come to have,
and `Migrations` what an open may find to be migrated. Embedding reads and writes a batch at once;
extraction goes through its batch one chunk at a time, with a transaction before
and after each call, and both are the same actions over different sets.

Left open, so that every order is checked: which due jobs a batch takes first,
when a backoff elapses, whether the model answers or fails. Left out: front
matter and entities (`KnowledgeGraph`), text search, error texts. A chunk whose ordinal alone changes
is rewritten but nothing modelled changes. Row ids are a finite set from which
an insert takes one that no pass remembers; SQLite's AUTOINCREMENT never reuses
one, which nobody who does not remember an id can tell apart. SHA-256 is taken
to have no collisions. An embedding provider returns as many vectors as it was
given texts.

### CorpusSync

A document is named after the path it was first indexed under, as
`DocumentID(relativePath:)` does, and documents are therefore paths:
`pathOf[d]` and `textOf[d]` are the row's `relative_path` and `content_hash`.
`phase`, `unvisited`, `found`, `renames`, `deletions` and `upserts` are the
local variables of `sync()`: the walk, then `scanner.reconcile`, then one
transaction per rename, deletion and file, in that order, files in sorted
order. `KnowledgeStore` is an actor and sync does not leave it, so other
operations (`AddFile`, `RemoveFile`, `Rebuild`) wait until it ends; the disk
does not wait (`DiskChanges`: create, edit, make unreadable, delete, move).
`quiet` and `displaced` are history: nothing but the sync touched the disk since
it began, and the paths whose row it gave to another path. Passes write no
documents and are left out. Which of several vanished documents with one
content is paired with a new file is left open, since `fetchPathIndex` has no
ORDER BY. A file is read and its row written in one action: nobody else writes
documents in between, and an edit in between is an edit after it.

### StoreLifecycle

`lockOwner` is the flock and `holder` the text of the lock file. `tableWidth`,
`stamped`, `embedded`, `vector` and `rows` are the database: the width of the
vector tables, the version keys of the embedding, `embedded_hash =
content_hash`, the model a stored vector came from (which the code does not
record) and the job. `phase` says how far a store is: `Acquire` and
`StampHolder` are `WriteLock.acquire`, `PrepareTables` is the write transaction
of `KnowledgeDatabase.init` (tables and reclaiming), `ReadPlan`, `Veto`,
`StampVersion` and `Migrate` are `applyMigrations`. A *model* is an embedding
configuration: name and dimensions, which are always stamped together. `late`
and `torn` are history: what a store did after it was closed, and that vectors
were dropped by an open that has not migrated.

`close()` cancels the pump and unlocks at once. It waits for nothing: a pass that
waits for the model writes its result, or records the cancellation as a failure,
later, and a `processQueues()` call that is under way claims the next batch. That
is why `Claim`, `StoreVectors` and `RecordFailure` ask whether the store is
draining and not whether it is open. sqlite-vec refuses a vector of another
width, so such a late result ends in `RecordFailure`. A store's name is used
again only when its last pass is over; two stores may live in one process or in
two.

Left to the other modules: edits and deletions of chunks, the extraction side of
an open, the user's retries. Here a chunk's text never changes, so reading it
again and having read it are the same and a claim includes the read.

### KnowledgeGraph

`entities`, `aliases` and `relations` are the tables; `vectors` are the entities
with a row in the name-vector table; the mentions are two sets, `said` and
`declared`, by the row's `source`. An entity is its type and name, as
`EntityID` derives it. `reading`, `todo`, `resolved` and `links` are the local
variables of an extraction: the chunk it asked about, the names it has not yet
resolved, the resolutions it keeps, the relations of the answer. `told` and
`takenOver` are history: what the last stored answer for a chunk named, and where
an answer overwrote a declared mention.

`Ingest` is the whole transaction of `DocumentIngestor.ingest`: the chunk diff
with its cascades and `clearExtraction`, then `seedTitleAliases`, then the
collection. `Remove` is `remove` and the emptying half of `rebuild`. `Extract` is
the read of a chunk and the model's answer, `Resolve` one read of
`EntityResolver.candidates` with the decision that follows it, outside any
transaction, and `StoreFacts` the transaction that `applyExtraction` ends with.
`Collect` ends every one of these transactions as `collectOrphanedEntities`
does. `Fail` is an error anywhere in between, and the only thing that can become
of an answer with names whose chunk has been deleted, because the first mention
breaks a foreign key.

A name stands for all its spellings that `NameNormalizer.normalize` folds
together; `KeyOf` is the coarser `normalizeForMatching`. The code stores a
mention under its spelling, so two spellings of one name are two rows there and
one here, and what an answer takes over in the model it takes over in the code
if it spells the title as the file does. Which entities are near enough, and what
the model decides between them, is left open. Relation types, confidences and
display names are left out. The job that an extraction holds, and whether it may
hold it, is the business of `IndexPipeline`; here any chunk may be extracted at any
time, by several passes at once. A new file for a row that changed hands is an
`Ingest` of that document.

### CorpusWatcher

Composed with `CorpusSync` (`Store == INSTANCE CorpusSync`), whose variables,
actions and sync it shares. `events` is what FSEvents knows and has not
reported; `pending` and `timer` are the `CorpusWatcher` actor's set and flush
task; `stream` is the AsyncStream; `consumer` and `taken` are `watcherTask` and
the event it is handling; `watch` is how far start and stop are. `missed` is
history: paths where index and disk differ and of which nobody will hear again,
because nobody listened when they changed, the file could not be read, a sync
ended early, another document took the row over, or the host removed it.

`Report`, `ReportDropped` and `ReportIgnored` are the callback with the
`enqueue` that follows it: the callback starts a task for each call, so reports
reach the actor in any order, which is why any part of `events` may come next.
`Elapse` and `Flush` are the flush task. `StartStream` and `BeginConsuming` are the
two halves of `startWatching` around its await; a `stopWatching` in between
leaves a task without a stream (`deaf`), and such a store watches nothing,
whoever calls `startWatching`, until it is stopped again. `Receive`, `CheckFile`,
`IngestFile`, `RemoveGoneFile` and `HandleBulkChange` are the consumer. handle()
suspends nowhere but in a sync that suspends nowhere, so nobody else is on the
store's actor in between (`Busy`), but the disk changes between the check that a
file exists and its ingestion, and an event that was received before
`stopWatching` is handled after it. An ingestion's error is swallowed, as `try?`
does.

The stream is a set: what a repeated event would do besides, a call of the host
does too, and no property relies on the order. FSEvents is taken to report every
change of a file under the roots, or to flag that it did not. A second
`startWatching` during the first, which would leave two streams, is left out, and
so is a start while an event of the stopped watcher is still being handed over.

### Chunker

One action is one iteration of a loop: `ReadHeading` of `buildSections`,
`MergeSection` of `mergeUndersized`, `KeepSection`, `SplitSection`, `PackUnit`,
`EmitAtomic` and `BreakUnit` of `splitOversized`, `PackSentence` and
`ChopSentence` of `splitLongParagraph`, `NumberChunk` of `chunk`; `EndParagraph` and
`EndSection` are the flushes at their ends, and `NextLoop` goes from one loop to the
next. `section`, `paragraph`, `current` and `currentTokens` are the local
variables of the two splitting functions. `splitLongParagraph` has a `current` of
its own; the other is empty while it runs, so one variable stands for both.

A text is the sequence of its words, and a word is its place in the file, which is
enough to say where units and sentences begin, and to tell lost from repeated from
moved. `LeadingUnit` is `paragraphs`, of which `PackUnit`, `EmitAtomic` and `BreakUnit`
take one unit after the other: a line that begins with a marker (three backticks or
three tildes, which is all that is looked at) opens a unit, which the next line with the
same marker closes, blank lines and the other marker notwithstanding, or nothing does
(`AtomicUnit`); any other unit ends at a blank line, or where a marker opens the next
(`ProseUnit`). So a word carries its line and the line's marker. It also carries the
fenced block of Markdown it stands in, which no action asks and `FencesStayWhole` is
about. The headings around a heading are, for the properties, those that no heading at
their level or above follows up to it (`Around`), whatever the stack holds. `Estimate`
is exact: `Int(Double(n) * 1.3)` and `(13 * n) \div 10` agree far beyond any file, and
so do `Int(Double(n) / 1.3)` and `(10 * n) \div 13`. Taken from outside: the parse tree
of swift-markdown, its fenced blocks among it, and which words make a sentence. A
section with an empty path, which `mergeUndersized` skips, does not come from the
parser, whose paths begin with the title.

### VectorTable and Vec0

`VectorTable` is a function from ids to rows with transactions: a statement
changes the one row it is about, a failed one dooms its transaction. `Vec0` is
the code. Its variables are the shadow tables twice, as committed and as the
writing transaction sees them, each a record: `rowids`, `chunks` and `blobs`
(`_rowids`, `_chunks`, and `_vector_chunks` with `_metadatachunks`, which have a
row each per chunk), `texts` (`_metadatatext`), `aux` (`_auxiliary`), and the two
AUTOINCREMENT sequences. A chunk's `valid` is its bitmap as a set of offsets.

An action is one SQL statement. `Insert` is `vec0Update_Insert`: the id and the
rowid, the slot (`vec0Update_InsertNextAvailableStep` looks only at the latest
chunk of the partition), bitmap, rowid column, vector and position, then the
auxiliary and the metadata value. `Delete` is `vec0Update_Delete` with the chunk
that goes when it is empty; `Update` is `vec0Update_Update`, which takes a NULL
vector for an unchanged one and does not look at the type of an auxiliary value,
so that a row may come to hold one that INSERT refuses. Each of these is written
as operators from tables to tables, one per C function, and each has a `...Fails`
twin that leaves any prefix of its writes, whether its own checks stopped it
there or the disk did. `Recreate` is the drop and the creation that
`VectorIndex.ensureTable` does for another width. `Commit` and `Rollback` are the
application's: GRDB rolls back a transaction whose statement threw, so after a
failure nothing is asked of the tables but to go away. SQLite itself, its
transactions and its ordinary tables are taken to work.

The table has one column of each kind. A second column of a kind has blobs and
side tables of its own, written and cleared by the same functions in a loop. The
knowledge base's tables are those with a text primary key, a vector and nothing
else; the other columns are in the vendored code and cost the model little.
A text is a sequence of characters, and `ViewLen` is the twelve bytes that its
slot keeps. `Table` is the refinement mapping: the contents a SELECT shows, and
the committed ones while a failed statement waits for its rollback.

### Vec0Query

`Rejects`, `Plan` and `Pushed` are `vec0BestIndex`: k-nearest, point query or
scan, and the constraints that xFilter gets and SQLite therefore does not check.
`FilterKnn` is `vec0Filter_knn` with a bitmap per constraint, the top k of each
chunk (`min_idx`, in which the later of two equally near slots comes first) and
the merge; `FilterText` is the comparison of a stored view, and of the long text
where the code asks for it, with `strncmp`. `Satisfies` is SQL's own meaning of a
constraint, by which SQLite checks what is left to it, and to which the answers are
compared. `Runs` are the calls of xFilter that one query makes: `vec0BestIndex` takes
an IN on a partition key for an equality, as it does not ask `sqlite3_vtab_in` there, so
SQLite calls xFilter once for each listed value, with the query `Narrowed` to it, and
puts the rows together (`FilterRuns`), sorted if there is an ORDER BY and in any
order if not. Distances are a table of integers: the kernels that compute them have no
state, and a NaN, which the code sorts first, is left out. `Single` is the cast of a
bound on the distance from f64 to f32. Of it nothing is assumed but that it takes no bound
past a distance, which is itself an f32 (`IsBound`).

## Runs

| Run | Question | Result |
|---|---|---|
| `pipeline_races` | Does any interleaving of two passes, edits, deletions, retries, discards, abandoned passes and reopenings lose, double or revive work? | holds, 1.4 million states |
| `pipeline_drains` | Two passes compete for two chunks' jobs, one at a time: once nothing disturbs the store, does every job end? | holds, 1.1 million states |
| `sync_converges` | Is a quiet sync exact, does a plan ever collide, do repeated syncs converge? | holds, 415 thousand states |
| `store_opens` | Whatever opens, is vetoed, closed or dies in whatever order: one writer, true coverage, no work lost or done twice, and does an open store end up embedded? | holds, 316 thousand states |
| `graph_mirrors` | Does the graph hold exactly what the present chunks support, whatever comes between resolving a name and storing it? | holds, 762 thousand states |
| `watcher_delivers` | Does every change the watcher could see reach the index, in whatever order reports, flushes, syncs and stops come? | holds, 978 thousand states |
| `chunks_keep_text` | Are the chunks of a file its words, once each and in order, with their own ids and their headings, and with whole fenced blocks where the code reads fences as Markdown does? | holds, 1.7 million states |
| `vec0_answers` | Do rows and slots agree, is nothing of a deleted row left, and is the whole a table, whatever statements succeed and fail in whatever order? Do more than a hundred queries of every plan find what SQL says, in every table that can be committed? | holds, 350 thousand states |
| `edit_race` | Is an edited chunk embedded again? | violated |
| `vetoed_width` | Are dropped vectors computed again? | violated |
| `extraction_race` | Does extracted_hash name the text the facts came from? | violated |
| `front_matter_erased` | Does re-extraction leave alone what front matter declared? | violated |

**Bounds.** `pipeline_races`: one chunk, two texts, two passes, two attempts, graph on
or off. Every property relates a chunk to its own jobs and to the passes that hold them;
jobs of different chunks meet only in a batch, which charges and releases each by
itself, and the proofs below cover any number of them. Two texts are enough to tell an
old from a new one and to edit back; two passes are the pump and a stopped one, or a
`processQueues` call; a budget of two has a first, a last and no attempt left. In
`pipeline_drains` the two passes compete for the jobs of two chunks, of which one is
edited, and a batch is one job: so there is always more due than a pass may take, which
it takes is open, and a pass could take the same one for ever. It starts with an empty
store and has no open after that: what one finds and makes, no pass and rows pending, is
reached without. States are told apart by `QueueView` only, which is what the future of
the queue depends on: no guard reads `lapse`, `derived` or, without an open, `done`; of
a text only its presence matters, and of an id whether the row still has the one a pass
remembers. `sync_converges` has three paths, which is what a chain of two displacements
takes, and two texts, which tells a move from an edit; three documents of one content
exercise the pairing. `store_opens` has two stores, one closed and late and one open,
three models, two of one width (a late vector fits) and one of another (it is refused),
and one chunk, to which the argument for `pipeline_races` applies. `graph_mirrors` has
three names of which two match each other and all are titles, aliases or extracted names
in some state; two documents that can claim one title, one of them with two versions of
its title and so of its chunk; two types, so that a name can match an entity of the
wrong type; answers with nothing, with the title itself, and with a relation; and two
extractions, one to resolve and one to come between. `watcher_delivers` has two paths,
so that a burst of two and a batch of one differ and one row can take another's place,
and files that come and go (`Contents`): an edit is to the watcher what a creation is,
and a file that goes between the check and the reading is one that cannot be read.
`chunks_keep_text` has every file of three headings of three levels and two names over
bodies of at most one paragraph, with and without a preamble and a title; every pair of
sections of one name with up to two units; and every section of up to three units, where
a unit is a paragraph of one, two or five words or of two sentences, or a fenced block
below or above the maximum. In place of up to two of them there is every way lines can
be at odds with fences: a fence right under prose, with a blank line inside, of tildes
around a line of backticks, of four backticks around a line of three, never closed,
opened on the line of a list item, and a line of prose that begins with a marker. All of
it is run in three configurations, one of them with a maximum of a single token, the
smallest there is. Apart from vec0's `MaxStatements`, the statements of one transaction,
there is no other bound: nothing is counted without end.

`vec0_answers` has text keys, as the knowledge base has, three ids, and rowids that run
out at the third; chunks of two slots, so that a chunk is empty, half full and full, and
two of them exist; two partitions and NULL, for which no chunk is ever found and every row
opens its own; three distances, with a bound between each two that the cast takes to one
of them; texts below, at and above the view's length, two of them a long text and a
longer one that it begins; rows with each fault an INSERT can have, and changes that
combine a good column with a bad one. One statement makes a transaction; a state of the
committed tables is a starting point for every later one, so longer histories are
covered by several. Transactions of many statements, and tables whose key is the rowid,
which none of the knowledge base's is, are left to the proofs. The queries are every
constraint that the code treats differently, alone and in the combinations that the plans
are chosen by, with each plan, and every way to state k.

**Fairness.** `pipeline_drains` assumes that a pass goes on (the pump loops while
the store is open, and every request has a timeout) and that time passes. It
assumes nothing of users, crashes and errors, and asks for an end only once they
stop, together with transient failures, which the code retries for ever by
design. `sync_converges` assumes that a started sync goes on and that the host
syncs again sooner or later (`kb sync`, or the watcher's bulk events), and asks
for convergence once the disk is still and every file can be read. The jobs a
database error left marked running are the exception `QueueDrains` names: they
wait for the next open.

`store_opens` assumes that passes go on, in closed stores too, and that time
passes. Hosts owe nothing: opening, closing, crashing, starting and stopping are
disturbances, and the run asks what becomes of a store that is left open and
draining.

`watcher_delivers` assumes that FSEvents reports what it knows, that time passes
and that tasks and the sync run on. Changes of files, events of ignored files,
dropped buffers, starts, stops, the host's calls and crashes are disturbances that
have to end. Events of ignored files are among them for a reason: there is one
flush for all paths, and while something is pending every callback postpones it,
also one with nothing but ignored files in it. A file that some tool writes twice
a second keeps every other change out of the index.
`src/Docs/LocalKnowledgeBaseSpecification.md` calls the debounce per-path.

**What the violations show.** A store opened with another vector width drops its
vectors before anybody is asked; after a veto, or a crash and a return to the old
configuration, every chunk counts as embedded and none has a vector
(`vetoed_width`, the exception `torn`). An edit during an embedding call queues its chunk by resetting the
row that the pass holds; the pass stores the old text's vector, under its hash, and deletes
that row as its own, so that the edited chunk has no current vector and no job until it is
edited again (`edit_race`, the exception `overtaken` in `StaleChunkIsQueued`; against
`src/Docs/LocalKnowledgeBaseSpecification.md:215`, "`content_hash` detects the change and
the chunk is re-embedded"). An edit during an extraction call leaves the new
text marked as extracted, the old text's facts stored, and no job
(`extraction_race`). A mention that both the file and the model assert is one row,
and the model's assertion overwrites the file's; the next answer that does not
repeat it erases it, and with the last such mention the title's entity and its
aliases go, although the file still declares them (`front_matter_erased`, the
exception `takenOver` in `DeclaredTitleStands`).

**Where the code departs from what is written elsewhere, without a run of its
own.** Each of these is an exception that a checked property names, and the
exception is reached in its run.

* `Storage/JobRepository.swift:75` says that only one process is ever running
  jobs. A store that is closed while a pass is out shares its jobs with the next
  writer; if their models differ, a vector of the wrong one stays, marked as done
  (the exception `late` in `EmbeddedByStampedModel`).
* `Markdown/MarkdownParser.swift:136` keeps a heading without a body and without
  children, since "otherwise the heading text itself would be unsearchable", and
  leaves one with children to their paths. When the first of those is small and is
  merged into what comes before, its path is given up and only its own heading is
  written, so that nothing in the index says the name of the heading above.
  `TextKnowsItsHeading` is what remains true: no word loses the heading it stands
  under.
* `Markdown/Chunker.swift:125` says that a code block is emitted whole, line 158 that
  fenced code blocks are kept intact, and a test in `MarkdownTests.swift` is named "A
  fenced code block is never split across chunks". A fence is told by three characters, so
  a block of four backticks ends, for the chunker, at an inner line of three; the rest is
  prose, or a block of its own, and may go to another chunk (177, 189). So may the blocks
  after it in the section, once the code takes their last lines for first ones, and after a
  line of prose that begins with a marker. `FencesStayWhole` names all of these by
  `ReadsAlike`, and without that premise the run violates it.
* `Storage/VectorIndex.swift` says in `hasRows` that a k-nearest query against an
  empty table errors rather than returning nothing. Here it returns nothing
  (`QueriesAnswer` starts from an empty table).

**What vec0 does that SQL does not.** The knowledge base asks none of these
queries today; they matter to whoever gives its tables another column.

* Comparing texts with `<` or `>` fails the whole query as soon as a chunk it
  looks at has a text of exactly the view's length, which is looked up among the
  long ones (`QueriesAnswer` says exactly when).
* A long text that begins the one it is compared with counts as equal to it, so `<`
  leaves it out and `>=` takes it in (`Misjudges`).
* `id IN (...)` with a text id that is not there answers with no rows and no
  error (`GivesUp`).
* `part IN (...)` on a partition key is not one query but one for each listed value, so it
  gives k rows for each (`KnnIsExact` counts by `Runs`), sorted only if there is an
  ORDER BY; and with a LIMIT in place of k it is refused (`RejectsKnn`).
* A bound on the distance is rounded to an f32 before it is compared
  (`sqlite-vec.c:6935`, where a TODO asks whether that is a problem). It is one when a row
  has the distance it is rounded to: `distance < x` may leave that row out although its
  distance is less than x, and `distance <= x` take it in although it is more (`Rounds`).
* Constraints vec0 does not take, like `IS`, or ranges and equality of the id, are
  checked after the k nearest were chosen, so a query may answer with fewer than
  k rows though more would do (`KnnIsExact` counts accordingly).
* An UPDATE that finds its row by a scan gives the partition key as it is, which is
  refused; so it fails on every partitioned table.
* An UPDATE stores an auxiliary value of a type that an INSERT refuses.

## Proofs

All theorems hold for every value of the constants under the named assumptions:
row ids and the retry budget are natural numbers, there are more ids than passes
or stores (so an INSERT finds one), the widths are positive, `NoStore` is not a
store, `NoModel` not a model, `NoText`, `NoFile` and `Unreadable` are not texts,
paths are numbered, `NoChunk` is not a chunk and `NoTitle` not a name, every chunk
has a document and a title, every name a matching key, and an answer relates only
different names that it declares, as `sanitize` sees to it; rowids are integers
from at most zero to a positive last one, a chunk is a whole number of bytes, the
view of a text is not empty, texts are sequences of integers, and NULL and a mistyped
value are not values. Queries ask more: distances and partition keys are integers,
the cap on k a natural number, the texts of rows and of constraints have no NUL
in them, at which `strncmp` would stop, no list of an IN has a NULL, and a bound on the
distance is an integer that its cast takes past no distance (`IsBound`). Of the pipeline:
`Files` give each chunk a text or none, and `Migrations` name kinds of work and whether
the width changed. Of the watcher: the burst threshold is
positive, and a file it ignores is no path of the corpus. Of a Markdown file: the
words of a body name their places in order, no place twice, the first line is blank, the
words of a line have its marker, and a fenced block of Markdown is lines one after the
other (`IsBody`). Where a block begins or ends, and with what, is assumed nowhere.

What a queue's row becomes is the subject of the same lemmas in two modules,
`IndexPipelineProofs` and `StoreLifecycleProofs`, each about its own `JobQueue`.

`IndexPipelineProofs`: type correctness, all safety properties of
`pipeline_races`, and two more it rests on: a queued job's chunk is there
(`QueuedWorkHasChunk`) and a pass that holds a job holds it alone (`ClaimIsCurrent`). None of them is inductive. Whether a late result is harmless
depends on what the pass remembers, so `IInv` adds: a row exists exactly if it
has an id (`RowsHaveIds`); a pass remembers an id and a count within the budget
(`CopiesHaveIds`); it asks only about jobs it holds; if its row is still the one
it remembers and nothing was queued under it, it read the present text
(`ReadIsCurrent`) and the row is running (`HeldRowIsThere`, `ClaimIsCurrent`); an
orphan's row is gone (`OrphansHaveNoRow`, which also shows that retiring an
orphan never removes anything: the trigger was there first). The proof has a
lemma per action, and first the lemmas on rows: what each operation does to the
fields, and that `FreshId` exists, by the pigeonhole principle.

`CorpusSyncProofs`: type correctness, that the UNIQUE constraint on paths is
never violated, that a quiet sync is exact, and that it moves or deletes no
document without cause. The invariant says that between plan and end every file
and every row is settled or has a pending entry that will settle it
(`FilesAccounted`, `RowsAccounted`), that pending renames go to free, different
paths and carry the content along (`RenamesAreSafe`, `RenamesFollowContent`), and
that a document about to be deleted has a twin wherever a new file has its
content (`DeletedHaveTwins`, which needs that among numbered paths one comes
first).

`CorpusWatcherProofs`: type correctness, and that no change is forgotten
(`ChangesAreOnTheirWay`). The rows and the plan of a sync are `CorpusSync`'s, so
`CorpusSyncProofs` is an instance here and its invariant (`Sync!IInv`) a conjunct.
But its account of files and rows is of a quiet sync, and here the disk changes
under the sync; so it is said again, path by path, with a way out: a path is
`Waiting` if something still names it, be it FSEvents, the stream, `pending` or the
event in hand. The walk is right about the paths it has come to, or they wait
(`WalkIsRight`); the plan settles every path, or it waits (`PlanIsRight`); a file
found to be gone is gone, or its return is in an event to come (`GoneOrReported`). Between syncs,
a path that differs from its row waits or was missed, and while nobody listens it was
missed. A step of a sync settles the path it handles and disturbs none that was
settled, because a rename is of a row and no path has two entries (`PlanIsOrderly`).

`StoreLifecycleProofs`: type correctness, all safety properties of
`store_opens`, and that the lock names the one writer there is (`WritersAreNamed`). The chain of reasons is: whoever is past the flock has it to
itself (`WritersAreNamed`); therefore nobody stamps between a store's reading of
the plan and its migration, and an open store is one whose configuration is
stamped (`OpeningKnowsVersion`); therefore what it writes is of the stamped model
(`EmbeddedByStampedModel`). The rest ties jobs, coverage and what passes hold to
chunks that exist (`WorkIsPresent`), and says that before the first stamp there
are none (`NothingBeforeFirstStamp`), which is what makes an unset key harmless.

`KnowledgeGraphProofs`: type correctness, all safety properties of
`graph_mirrors`, that every form of a mention resolves (`MentionsResolve`) and that
a relation's ends are mentioned (`EndpointsAreMentioned`), for any documents, names, matching and providers and any number
of extractions. They support one another: an entity stays because a mention
does, an alias because its entity does, and the form of a mention resolves because
the transaction that writes the mention writes the alias too, whatever happened
to the entity since it was found. `IInv` adds only `LinksAreNamed`: what an
answer relates is among the names that have been or will be resolved, so that a
relation's ends are mentioned.

`ChunkerProofs`: type correctness and all safety properties of `chunks_keep_text`, for
any file and any configuration with a maximum of at least one. Sums of rounded
estimates say little about the estimate of the whole; the invariant that carries
the bound is that what is packed is never more words than tokens were counted for
it (`WhatIsPackedFits`), because rounding down leaves each word a token. Ids are
unique because a path's count is beyond every chunk that has the path
(`OccurrencesAreBeyond`).

That the text is kept and knows its headings needs an invariant of its own
(`TextsAreSound`), in parts. The words in all the lanes, from the chunks that are done
to the headings not yet read, are one sequence, and each loop hands a text from the
front of one lane to the end of the one before; flattening is piecewise, so nothing in
between changes. A text on its way has all of a fenced block or none of it, if the code
reads that block as Markdown does (`Whole`). What is left of a section that is being
split is such a text too, so it begins outside of all these blocks or with one; in the
second case the next unit is that block, because the line the code closes it with is its
last, and in the first it has no word of one, because the code opens a unit where the
next begins (`UnitIsTaken`). Only a unit that no marker opens is taken apart. It has its
words under the headings of its path or beside the heading it names (`Knows`); only a
merge puts several headings into one section, and a merged section is small enough never
to be split, so their headings stay with their words. And the stack is exactly the
headings around the one being read (`StackFits`), which the property says without a
stack: a heading is around another if none at its level or above comes between them.
Which part of a paragraph a word goes to is no matter of counting: the file says each
word once, so a word in two places would be two words.

`Vec0Proofs`: type correctness, that rows and slots agree, and that nothing of a
deleted row is left, for any number of rowids, any chunk size, any width of a view, and
transactions of any length. The invariant, `Good` tables, is the conjunction of the
three with one thing more: a row's view is that of some text (`ViewsAreOfTexts`),
without which a short text could not be read back from its view alone. The three need
each other. A new row takes a blank slot because free slots are blank; the row
that has a slot is the only one, since the slot holds its rowid; the long text of a
deleted row is found because views and texts agree; and a chunk can go
with its last row because its blobs are those of its id. Each statement is
first reduced to what it makes of each table (`InsertedFields`, `ErasedFields`), then
to a relation between the tables before and after (`Placed`, `Removed`, `Changed`),
and only that relation meets the invariant. Of a failed statement nothing is
needed but that the committed tables are as they were.

The second half of `Vec0Proofs`: `Vec0` implements `VectorTable`. Of `Good` tables the contents are
a function of the ids, and the same three relations say that every other row keeps
its slot, blobs, text and auxiliary value, so it reads as it did. Two further
theorems say what the refinement leaves open: a row that was inserted reads as
the INSERT gave it (`InsertedIsRead`), and one that was updated as it was but for
what the UPDATE gave (`UpdatedIsRead`).

`Vec0QueryProofs`: when a query fails (`QueriesAnswer`), and that lookups, scans and
k-nearest answers are exact (`LookupsAreExact`, `KnnIsExact`), for every table, metric,
query and limit. A query reads the committed tables, which `Vec0Proofs` shows
`Good`, so the proof is about one table. Its slots in use and its rows are two sides of one
thing; so a search chunk by chunk is a search of rows, and the list a scan sorts
names each row once. A view and a long text, where one is, compare as SQL compares the
texts, but for a long text that goes on in the text it is compared with (`Misjudges`,
which `KnnIsExact` leaves out, as it does the queries that `GivesUp` and `Rounds` name).
All of this is shown of one call of xFilter; where an IN on the partition makes several,
their finds are put together, and no row is found by two, since it has one partition. `min_idx` and the merge of two lists are loops; each is
described by what one turn does, and the description carried through all turns. What is
carried from chunk to chunk (`FindsOf`) is that the list holds candidates in order and
that whatever was left out has k others before it that are as near. An
injection from list places to rows turns that into the count the property speaks of.

Only model-checked: the liveness properties `QueueDrains`, `IndexConverges`,
`OpenStoreEmbedsCorpus` and `WatchedCorpusIsIndexed`, because liveness under fairness is
out of the prover's reach. Every safety property of a passing run is proved. The four
violated claims are counterexamples and need no proof.

## Not modelled, and the plan

In this order:

1. An abstract specification of the pipeline (a chunk is fresh, stale or given
   up) with `IndexPipeline` shown to implement it.
2. Reciprocal rank fusion, against a reference definition over bounded inputs.

Three things the watcher does without a property, because the repository promises
otherwise nowhere, or too vaguely: a change between the sync `kb watch` begins
with and the start of its stream is seen by neither; a sync that one vanishing
file ends early is not tried again, and every other change of the burst waits for
the next one; and a burst is collapsed at the threshold, where
`Core/Configuration.swift` says above it.

One thing the queue does against a comment: an open queues every unextracted
chunk again (`reconcileGraphExtraction`), and queueing resets a dead-lettered job,
of which `Storage/JobRepository.swift` says that it is never retried
automatically. `DeadLetterStaysDead` allows that, with a full budget.

Two things that the pipeline does and the properties allow for: a chunk edited and
edited back before it is processed reads as covered (`ChunkRepository.swift:120`)
although its vector and facts are gone until the queue is drained; and a new file
at the old path of a renamed one takes over its row, which leaves the renamed file
out of the index until the next sync (`displaced` in `QuietSyncIndexesCorpus`).

One thing the chunker does that nothing forbids: the estimate of a packed chunk
may exceed the maximum, since the estimates of its parts were rounded down one by
one. `ChunksFit` says by how much: it has no more words than the maximum has
tokens, so its estimate is at most three tenths over.

Two hazards of opening stay outside: a host that passes its own provider with
another width than it configured, and the chunker's version, which is stamped at
once although nothing is chunked again until a forced sync.

Four things the graph does without a property, because nothing in the repository
promises otherwise: an entity found by an extraction and collected before it is
stored again, or one whose vector went with a table of another width, never gets a
name vector again; aliases dropped from a file's front matter stay while its
chunks do; two extractions that meet a new name in two spellings make two
entities; and a relation whose two names resolve to one entity joins it to
itself.

Left out for good: what swift-markdown and the YAML parser do, ranking scores and
prompts, HTTP requests, the MCP server and the command line's printing (no state
of their own).

Of sqlite-vec: metadata of boolean, integer and float columns, whose filters compare
one slot's number with another and keep nothing beside it; several columns of a
kind; `vec_each`, `npy` files and static blobs, which the knowledge base does not
call; the scalar functions and distance kernels; the parsing of CREATE VIRTUAL
TABLE; and a cursor that is open while its rows change, which GRDB's `fetchAll` never
leaves. One hazard there has no property: `_cmp` truncates the difference of two
rowids to an `int`, so `rowid IN` may miss rows when rowids are more than 2^31 apart.
In `IndexPipeline` and `StoreLifecycle` a vector table is what `VectorTable` says it
is, a table without foreign keys that is written within the store's transaction.
