---------------------------- MODULE CorpusWatcher ----------------------------
(***************************************************************************)
(* The filesystem watcher and the store it feeds: FSEvents reports changed *)
(* files to the CorpusWatcher actor, which collects paths until nothing    *)
(* has happened for a while and sends them, or one bulk event in place of  *)
(* many, down an AsyncStream, whose consumer ingests, removes or syncs.    *)
(* Documents, files and sync are those of CorpusSync.                      *)
(*                                                                         *)
(* One call of startWatching at a time: a second one that comes while the  *)
(* first waits for the stream is left out.                                 *)
(***************************************************************************)
EXTENDS Integers, FiniteSets

CONSTANTS
    Paths, Texts, NoFile, Unreadable,   \* as in CorpusSync
    Contents,         \* what files may change to, the bound of model checking
    Ignored,          \* other files, those no root or ignore rule lets through
    BurstThreshold    \* WatcherConfiguration.burstThreshold

ASSUME CorpusWatcherAssumption ==
    /\ Paths \subseteq Nat \ {0}
    /\ NoFile \notin Texts
    /\ Unreadable \notin Texts \cup {NoFile}
    /\ Contents \subseteq Texts \cup {NoFile, Unreadable}
    /\ Ignored \cap Paths = {}
    /\ BurstThreshold \in Nat \ {0}

VARIABLES
    disk, pathOf, textOf, phase, unvisited, found,       \* as in CorpusSync
    renames, deletions, upserts, quiet, displaced,
    watch,     \* "off"; "starting", "on"; "revoked", "deaf": stopped while starting
    events,    \* changed paths FSEvents has yet to report
    pending,   \* CorpusWatcher.pending
    timer,     \* flushTask: "none", "asleep", or "due", its sleep being over
    stream,    \* the WatchEvents in the AsyncStream, each a set of paths
    consumer,  \* where watcherTask is
    taken,     \* the event it handles, or what is left of its files
    missed     \* history: paths of which nobody will hear unless they change

store == <<disk, pathOf, textOf, phase, unvisited, found,
           renames, deletions, upserts, quiet, displaced>>
debounce == <<pending, timer>>
handling == <<consumer, taken>>
vars == <<store, watch, events, debounce, stream, handling, missed>>

Store == INSTANCE CorpusSync

(* WatchEvent.bulkChange, which names no path; a set like the other events. *)
BulkChange == {Store!NoPath}

WatchEvents == ((SUBSET Paths) \ {{}}) \cup {BulkChange}

TypeOK ==
    /\ Store!TypeOK
    /\ watch \in {"off", "starting", "on", "revoked", "deaf"}
    /\ events \subseteq Paths
    /\ pending \subseteq Paths
    /\ timer \in {"none", "asleep", "due"}
    /\ stream \subseteq WatchEvents
    /\ consumer \in {"waiting", "received", "handling", "ingesting", "removing"}
    /\ taken \in WatchEvents \cup {{}}
    /\ missed \subseteq Paths

(* FSEvents calls back. *)
Listening == watch \in {"starting", "on"}

(* A call of sync() has not returned. *)
Syncing == phase # "idle"

(* The consumer is inside handle(), which leaves the store's actor only    *)
(* when it is done, or a sync is.                                          *)
Busy == Syncing \/ consumer \in {"handling", "ingesting", "removing"}

(* The index says of this path what the disk says. *)
Current(p) ==
    disk[p] = IF Store!Indexed(p) THEN textOf[Store!DocumentFor(p)] ELSE NoFile

(* These paths are forgotten unless they are current; while nobody listens *)
(* all are.                                                                *)
Misses(S) ==
    missed' = {p \in IF Listening' THEN missed \cup S ELSE Paths : ~Current(p)'}

-----------------------------------------------------------------------------
(* CorpusWatcher.                                                          *)

(* Mutation of the next definition: any path is taken.                     *)
Unfiltered(urls) == urls

(* The paths below a root that no ignore rule and no hidden segment drops. *)
Wanted(urls) == urls \cap Paths

(* Mutation of the next definition: a flush that was scheduled is cancelled *)
(* and no other is.                                                        *)
CancelFlush == timer' = IF timer = "none" THEN "asleep" ELSE "none"

(* The flush task, if there is one, is cancelled, and another one begins to *)
(* sleep.                                                                  *)
ScheduleFlush == timer' = "asleep"

(* Whether or not a path was added, a nonempty set postpones the flush. *)
Enqueue(urls) ==
    /\ pending' = pending \cup Wanted(urls)
    /\ IF pending' = {} THEN UNCHANGED timer ELSE ScheduleFlush
    /\ UNCHANGED stream

(* Mutation of the next definition: what was pending goes, and that is all. *)
ForgetPending ==
    /\ pending' = {}
    /\ timer' = "none"
    /\ UNCHANGED stream

(* A callback with a flag among its events. *)
EnqueueFullScan ==
    /\ pending' = {}
    /\ timer' = "none"
    /\ stream' = stream \cup {BulkChange}

(* FSEvents reports some of the changes. *)
Report ==
    /\ Listening
    /\ \E S \in (SUBSET events) \ {{}} :
        /\ Enqueue(S)
        /\ events' = events \ S
    /\ UNCHANGED <<store, watch, handling, missed>>

(* FSEvents has dropped some of what it had to report, and says so. *)
ReportDropped ==
    /\ Listening
    /\ EnqueueFullScan
    /\ \E S \in SUBSET events : events' = events \ S
    /\ UNCHANGED <<store, watch, handling, missed>>

(* It reports only what happened to ignored files. *)
ReportIgnored ==
    /\ Listening
    /\ Enqueue(Ignored)
    /\ UNCHANGED <<store, watch, events, handling, missed>>

(* The debounce interval is over. *)
Elapse ==
    /\ timer = "asleep"
    /\ timer' = "due"
    /\ UNCHANGED <<store, watch, events, pending, stream, handling, missed>>

(* What flush() makes of a batch. *)
EventFor(paths) ==
    IF Cardinality(paths) >= BurstThreshold THEN BulkChange ELSE paths

(* A task that is cancelled after its check flushes all the same, which is *)
(* what flushing before the cancellation, or after the next sleep, does.   *)
Flush ==
    /\ timer = "due"
    /\ timer' = "none"
    /\ pending' = {}
    /\ stream' = IF pending = {} THEN stream ELSE stream \cup {EventFor(pending)}
    /\ UNCHANGED <<store, watch, events, handling, missed>>

-----------------------------------------------------------------------------
(* startWatching, stopWatching.                                            *)

(* The stream is gone, and the watcher with what it had collected. *)
Silence ==
    /\ events' = {}
    /\ pending' = {}
    /\ timer' = "none"
    /\ stream' = {}

(* A new watcher's stream runs; the store waits to hear of it. *)
StartStream ==
    /\ watch = "off"
    /\ ~Busy
    /\ consumer = "waiting"
    /\ watch' = "starting"
    /\ UNCHANGED <<store, events, debounce, stream, handling, missed>>

(* watcherTask is set, whatever has become of the stream. *)
BeginConsuming ==
    /\ ~Busy
    /\ \/ watch = "starting" /\ watch' = "on"
       \/ watch = "revoked" /\ watch' = "deaf"
    /\ UNCHANGED <<store, events, debounce, stream, handling, missed>>

(* Cancelling watcherTask does not undo that it has received an event.     *)
StopWatching ==
    /\ ~Busy
    /\ watch # "off"
    /\ watch' = IF watch \in {"starting", "revoked"} THEN "revoked" ELSE "off"
    /\ Silence
    /\ UNCHANGED <<store, handling>>
    /\ Misses({})

-----------------------------------------------------------------------------
(* The consumer.                                                           *)

(* The next event is asked for when the last one has been handled.         *)
Receive ==
    /\ watch = "on"
    /\ consumer = "waiting"
    /\ ~Syncing
    /\ \E e \in stream :
        /\ taken' = e
        /\ stream' = stream \ {e}
    /\ consumer' = "received"
    /\ UNCHANGED <<store, watch, events, debounce, missed>>

HandleBulkChange ==
    /\ consumer = "received"
    /\ taken = BulkChange
    /\ ~Syncing
    /\ Store!StartSync
    /\ taken' = {}
    /\ consumer' = "waiting"
    /\ UNCHANGED <<watch, events, debounce, stream, missed>>

(* Files of one event are handled in sorted order. *)
NextFile(p) == taken # BulkChange /\ p \in taken /\ \A q \in taken : p <= q

(* FileManager.fileExists. *)
CheckFile(p) ==
    /\ consumer = "handling" \/ (consumer = "received" /\ ~Syncing)
    /\ NextFile(p)
    /\ consumer' = IF disk[p] = NoFile THEN "removing" ELSE "ingesting"
    /\ UNCHANGED <<store, watch, events, debounce, stream, taken, missed>>

FileDone(p) ==
    /\ taken' = taken \ {p}
    /\ consumer' = IF taken = {p} THEN "waiting" ELSE "handling"
    /\ UNCHANGED <<watch, events, debounce, stream>>

(* The path whose row an ingestion of this one would take over. *)
RowTakenFrom(p) == {pathOf[Store!DocumentFor(p)]} \ {p, Store!NoPath}

IngestFile(p) ==
    /\ consumer = "ingesting"
    /\ NextFile(p)
    /\ FileDone(p)
    /\ \/ Store!AddFile(p) /\ Misses(RowTakenFrom(p))
       \/ ~Store!Readable(p) /\ UNCHANGED store /\ Misses({p})

RemoveGoneFile(p) ==
    /\ consumer = "removing"
    /\ NextFile(p)
    /\ FileDone(p)
    /\ \/ Store!RemoveFile(p) /\ Misses({})
       \/ ~Store!Indexed(p) /\ UNCHANGED store /\ UNCHANGED missed

-----------------------------------------------------------------------------
(* The store's other users, and the world.                                 *)

watcher == <<watch, events, debounce, stream, handling>>

(* A sync that ends early leaves everything as it is. *)
SyncStep ==
    /\ Store!SyncStep
    /\ UNCHANGED watcher
    /\ Misses(IF phase' = "idle"
              THEN Paths
              ELSE UNION {RowTakenFrom(p) : p \in upserts \ upserts'})

(* sync() returns what it has counted. *)
SyncReturns ==
    /\ Store!SyncDone
    /\ Store!Idle
    /\ UNCHANGED <<disk, pathOf, textOf, watcher, missed>>

WalkFails ==
    /\ Store!Interrupted
    /\ UNCHANGED watcher
    /\ Misses(Paths)

(* The host calls add, update, remove, sync or rebuild. *)
HostCalls ==
    /\ ~Busy
    /\ UNCHANGED watcher
    /\ \/ \E p \in Paths : Store!AddFile(p) /\ Misses(RowTakenFrom(p))
       \/ \E p \in Paths : Store!RemoveFile(p) /\ Misses({p})
       \/ Store!StartSync /\ UNCHANGED missed
       \/ Store!Rebuild /\ Misses({})

FilesChange ==
    /\ Store!DiskChanges
    /\ disk' \in [Paths -> Contents]
    /\ events' = IF Listening THEN events \cup {p \in Paths : disk'[p] # disk[p]} ELSE {}
    /\ UNCHANGED <<watch, debounce, stream, handling>>
    /\ Misses({})

Crash ==
    /\ Store!Idle
    /\ UNCHANGED <<disk, pathOf, textOf>>
    /\ watch' = "off"
    /\ Silence
    /\ consumer' = "waiting"
    /\ taken' = {}
    /\ Misses({})

-----------------------------------------------------------------------------
Init ==
    /\ Store!Init
    /\ watch = "off"
    /\ events = {}
    /\ pending = {} /\ timer = "none"
    /\ stream = {}
    /\ consumer = "waiting" /\ taken = {}
    /\ missed = {}

Consume ==
    \/ Receive
    \/ HandleBulkChange
    \/ \E p \in Paths : CheckFile(p) \/ IngestFile(p) \/ RemoveGoneFile(p)

Disturbance ==
    \/ FilesChange
    \/ ReportIgnored
    \/ ReportDropped
    \/ StartStream
    \/ StopWatching
    \/ HostCalls
    \/ WalkFails
    \/ Crash

Next ==
    \/ Report \/ Elapse \/ Flush
    \/ BeginConsuming
    \/ Consume
    \/ SyncStep \/ SyncReturns
    \/ Disturbance

Spec == Init /\ [][Next]_vars

(* FSEvents reports what it knows, time passes, and tasks that can run do. *)
FairSpec ==
    /\ Spec
    /\ WF_vars(Report) /\ WF_vars(Elapse) /\ WF_vars(Flush)
    /\ WF_vars(BeginConsuming)
    /\ WF_vars(Consume)
    /\ WF_vars(SyncStep \/ SyncReturns)

-----------------------------------------------------------------------------
(* Properties.                                                             *)

(* Somewhere between the file and the row there is something that will make *)
(* the store look at this path.                                            *)
OnItsWay(p) ==
    \/ p \in events
    \/ p \in pending /\ timer # "none"
    \/ \E e \in stream \cup {taken} : e = BulkChange \/ p \in e
    \/ Syncing

(* No order of reports, cancelled flushes, bursts, bulk events, syncs and  *)
(* edits in the middle of each of them loses a change: where index and disk *)
(* differ, the difference is on its way, or one of the known losses has hit *)
(* it (nobody listened, it could not be read, a sync ended early, its row  *)
(* was taken over, the host removed it).                                   *)
ChangesAreOnTheirWay ==
    \A p \in Paths : Current(p) \/ OnItsWay(p) \/ p \in missed

(* And it arrives: once files, host and noise are quiet, the index says    *)
(* what the disk says, without anybody calling sync.                       *)
WatchedCorpusIsIndexed ==
    <>[][~Disturbance]_vars => <>[](\A p \in Paths : Current(p) \/ p \in missed)

=============================================================================
