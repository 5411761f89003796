------------------------ MODULE CorpusWatcherProofs ------------------------
(***************************************************************************)
(* The safety of CorpusWatcher for every set of paths and texts and every  *)
(* burst threshold.  While nobody is inside a sync, a path that differs    *)
(* from its row is in an event on its way to the store, or was missed.     *)
(* A sync answers for every path at once; that nothing is lost when it     *)
(* returns needs to be said for each of its steps: the walk is right about *)
(* the paths it has come to, and the plan is right about all, save those   *)
(* whose later changes are themselves on their way.                        *)
(***************************************************************************)
EXTENDS CorpusWatcher, TLAPS

(* What is proved of the rows and of the plan.                             *)
Sync == INSTANCE CorpusSyncProofs

(* Somewhere before the store there is an event that names this path.      *)
Reported(p) ==
    \/ p \in events
    \/ p \in pending
    \/ \E e \in stream : e = BulkChange \/ p \in e

Waiting(p) == Reported(p) \/ taken = BulkChange \/ p \in taken

(* What the index says of a path.                                          *)
TextAt(p) == IF Store!Indexed(p) THEN textOf[Store!DocumentFor(p)] ELSE NoFile

Settled(p) == Current(p) \/ p \in missed

(* The timer runs while anything is pending, an event that was taken is    *)
(* put down before the next, and files are handled outside of syncs.       *)
HandlingIsOrderly ==
    /\ pending # {} => timer # "none"
    /\ consumer = "waiting" => taken = {}
    /\ Syncing => consumer \in {"waiting", "received"}

(* The walk comes to a path once, a rename is of a row, and no path has    *)
(* two entries in the plan.                                                *)
PlanIsOrderly ==
    /\ found \cap unvisited = {}
    /\ \A r \in renames :
          /\ Store!Indexed(r[1])
          /\ r[1] \notin upserts \cup deletions
          /\ r[2] \notin upserts \cup deletions
    /\ upserts \cap deletions = {}

PlanMentions(p) ==
    p \in upserts \cup deletions \/ \E r \in renames : p = r[1] \/ p = r[2]

(* What the walk has found is so.                                          *)
WalkIsRight ==
    \A p \in Paths : Waiting(p) \/ p \in unvisited \/ (p \in found <=> disk[p] # NoFile)

(* A path has been settled, or its entry in the plan will settle it.       *)
PlanSettles(p) ==
    \/ p \in upserts
    \/ \E r \in renames : r[2] = p /\ TextAt(r[1]) = disk[p]
    \/ disk[p] = NoFile /\ (p \in deletions \/ \E r \in renames : r[1] = p)
    \/ Settled(p) /\ ~PlanMentions(p)

PlanIsRight == \A p \in Paths : Waiting(p) \/ PlanSettles(p)

(* A file found to be gone is gone, or its return has been reported.       *)
GoneOrReported ==
    consumer = "removing" =>
        \A p \in Paths : NextFile(p) => disk[p] = NoFile \/ Reported(p)

ListenersMissNothing ==
    /\ phase = "idle" => \A p \in Paths : Waiting(p) \/ Settled(p)
    /\ phase = "scanning" => WalkIsRight
    /\ phase = "applying" => PlanIsRight
    /\ GoneOrReported

IInv ==
    /\ TypeOK
    /\ Sync!IInv
    /\ HandlingIsOrderly
    /\ PlanIsOrderly
    /\ IF Listening THEN ListenersMissNothing ELSE \A p \in Paths : Settled(p)

-----------------------------------------------------------------------------
(* The two instances of CorpusSync say the same.                           *)

LEMMA SyncAssumption == Sync!CorpusSyncAssumption
BY CorpusWatcherAssumption DEF Sync!CorpusSyncAssumption, Sync!NoPath

LEMMA RowsAgree ==
    /\ Store!NoPath = Sync!NoPath
    /\ Store!TypeOK <=> Sync!TypeOK
    /\ Store!Idle <=> Sync!Idle
    /\ \A p \in Paths :
          /\ Store!Indexed(p) <=> Sync!Indexed(p)
          /\ Store!DocumentFor(p) = Sync!DocumentFor(p)
          /\ Store!Readable(p) <=> Sync!Readable(p)
          /\ Store!WriteRow(p) <=> Sync!WriteRow(p)
          /\ Store!DeleteRow(p) <=> Sync!DeleteRow(p)
BY DEF Store!NoPath, Sync!NoPath, Store!TypeOK, Sync!TypeOK, Store!Idle, Sync!Idle,
   Store!Indexed, Sync!Indexed, Store!DocumentFor, Sync!DocumentFor,
   Store!Readable, Sync!Readable, Store!WriteRow, Sync!WriteRow, Store!DeleteRow, Sync!DeleteRow

LEMMA StepsAgree ==
    /\ Store!StartSync <=> Sync!StartSync
    /\ \A p \in Paths :
          /\ Store!Visit(p) <=> Sync!Visit(p)
          /\ Store!AddFile(p) <=> Sync!AddFile(p)
          /\ Store!RemoveFile(p) <=> Sync!RemoveFile(p)
    /\ Store!ApplyRename <=> Sync!ApplyRename
    /\ Store!ApplyDeletion <=> Sync!ApplyDeletion
    /\ Store!ApplyUpsert <=> Sync!ApplyUpsert
    /\ Store!Rebuild <=> Sync!Rebuild
    /\ Store!Interrupted <=> Sync!Interrupted
    /\ Store!DiskChanges <=> Sync!DiskChanges
<1> USE DEF Store!rows, Sync!rows, Store!plan, Sync!plan, Store!Free, Sync!Free,
        Store!SyncDone, Sync!SyncDone, Store!NoPath, Sync!NoPath
<1>1. /\ Store!BeginScan <=> Sync!BeginScan
      /\ Store!Idle <=> Sync!Idle
      /\ \A p \in Paths :
            /\ Store!Indexed(p) <=> Sync!Indexed(p)
            /\ Store!Readable(p) <=> Sync!Readable(p)
            /\ Store!DocumentFor(p) = Sync!DocumentFor(p)
            /\ Store!WriteRow(p) <=> Sync!WriteRow(p)
            /\ Store!DeleteRow(p) <=> Sync!DeleteRow(p)
  BY RowsAgree DEF Store!BeginScan, Sync!BeginScan
<1>2. Store!StartSync <=> Sync!StartSync
  BY <1>1 DEF Store!StartSync, Sync!StartSync
<1>3. ASSUME NEW p \in Paths
      PROVE  /\ Store!Visit(p) <=> Sync!Visit(p)
             /\ Store!AddFile(p) <=> Sync!AddFile(p)
             /\ Store!RemoveFile(p) <=> Sync!RemoveFile(p)
  BY <1>1 DEF Store!Visit, Sync!Visit, Store!AddFile, Sync!AddFile, Store!RemoveFile, Sync!RemoveFile
<1>4. Store!ApplyRename <=> Sync!ApplyRename
  BY DEF Store!ApplyRename, Sync!ApplyRename
<1>5. Store!ApplyDeletion <=> Sync!ApplyDeletion
  BY DEF Store!ApplyDeletion, Sync!ApplyDeletion, Store!DeleteRow, Sync!DeleteRow
<1>6. Store!ApplyUpsert <=> Sync!ApplyUpsert
  BY DEF Store!ApplyUpsert, Sync!ApplyUpsert, Store!WriteRow, Sync!WriteRow, Store!Idle, Sync!Idle,
     Store!Readable, Sync!Readable, Store!DocumentFor, Sync!DocumentFor,
     Store!Indexed, Sync!Indexed
<1>7. Store!Rebuild <=> Sync!Rebuild
  BY <1>1 DEF Store!Rebuild, Sync!Rebuild
<1>8. Store!Interrupted <=> Sync!Interrupted
  BY <1>1 DEF Store!Interrupted, Sync!Interrupted
<1>9. Store!DiskChanges <=> Sync!DiskChanges
  BY DEF Store!DiskChanges, Sync!DiskChanges
<1> QED
  BY <1>2, <1>3, <1>4, <1>5, <1>6, <1>7, <1>8, <1>9

LEMMA ReconcileAgrees == Store!Reconcile <=> Sync!Reconcile
<1> USE DEF Store!rows, Sync!rows, Store!NoPath, Sync!NoPath
<1>1. Store!Vanished = Sync!Vanished
  BY DEF Store!Vanished, Sync!Vanished
<1>2. Store!Appeared = Sync!Appeared
  BY DEF Store!Appeared, Sync!Appeared, Store!Indexed, Sync!Indexed
<1>3. Store!FirstOfContent = Sync!FirstOfContent
  BY <1>2 DEF Store!FirstOfContent, Sync!FirstOfContent
<1>4. Store!MovedSets = Sync!MovedSets
  BY <1>1, <1>3 DEF Store!MovedSets, Sync!MovedSets
<1>5. \A moved : Store!Paired(moved) = Sync!Paired(moved)
  BY <1>3 DEF Store!Paired, Sync!Paired
<1>6. \A moved : Store!UpsertsOf(moved) = Sync!UpsertsOf(moved)
  BY <1>5 DEF Store!UpsertsOf, Sync!UpsertsOf
<1>7. Store!Idle <=> Sync!Idle
  BY RowsAgree
<1>8. \A p : Store!Readable(p) <=> Sync!Readable(p)
  BY DEF Store!Readable, Sync!Readable
<1> QED
  BY <1>1, <1>2, <1>4, <1>5, <1>6, <1>7, <1>8 DEF Store!Reconcile, Sync!Reconcile

-----------------------------------------------------------------------------
(* What the index says, path by path.                                      *)

LEMMA CurrentIsText == ASSUME NEW p \in Paths PROVE Current(p) <=> disk[p] = TextAt(p)
BY DEF Current, TextAt

LEMMA RowsAreUnique ==
    ASSUME Sync!IInv, NEW p \in Paths
    PROVE  /\ Store!DocumentFor(p) \in Paths
           /\ Store!Indexed(p) => pathOf[Store!DocumentFor(p)] = p
           /\ ~Store!Indexed(p) => Store!DocumentFor(p) = p
           /\ \A d \in Paths : pathOf[d] = p => d = Store!DocumentFor(p)
BY SyncAssumption, RowsAgree, Sync!RowForFile DEF Sync!IInv

LEMMA SameRowsSameTexts ==
    ASSUME UNCHANGED <<pathOf, textOf>>, NEW p \in Paths
    PROVE  /\ Store!Indexed(p)' <=> Store!Indexed(p)
           /\ TextAt(p)' = TextAt(p)
BY DEF TextAt, Store!Indexed, Store!DocumentFor

(* A path whose row is the same, or that has none as before, reads as before. *)
LEMMA SameRowSameText ==
    ASSUME Sync!IInv, NEW p \in Paths,
           \A d \in Paths : pathOf[d] = p <=> pathOf'[d] = p,
           \A d \in Paths : pathOf[d] = p => textOf'[d] = textOf[d]
    PROVE  /\ Store!Indexed(p)' <=> Store!Indexed(p)
           /\ TextAt(p)' = TextAt(p)
<1>1. Store!Indexed(p)' <=> Store!Indexed(p)
  BY DEF Store!Indexed
<1>2. CASE Store!Indexed(p)
  <2> DEFINE d == Store!DocumentFor(p)
             e == Store!DocumentFor(p)'
  <2>1. d \in Paths /\ pathOf[d] = p /\ \A x \in Paths : pathOf[x] = p => x = d
    BY <1>2, RowsAreUnique
  <2>2. e \in Paths /\ pathOf'[e] = p
    BY <1>1, <1>2 DEF Store!DocumentFor, Store!Indexed
  <2>3. e = d
    BY <2>1, <2>2
  <2> QED
    BY <1>1, <1>2, <2>1, <2>3 DEF TextAt
<1>3. CASE ~Store!Indexed(p)
  BY <1>1, <1>3 DEF TextAt
<1> QED
  BY <1>1, <1>2, <1>3

LEMMA PathsAreNumbers == \A p \in Paths : p # Store!NoPath
BY CorpusWatcherAssumption DEF Store!NoPath

(* A file that is ingested is indexed as it is; its row may be taken from  *)
(* another path, and no other path is affected.                            *)
LEMMA WrittenPaths ==
    ASSUME Sync!IInv, NEW p \in Paths, Store!Readable(p), Store!WriteRow(p), UNCHANGED disk
    PROVE  /\ Current(p)'
           /\ \A q \in Paths \ {p} : q \notin RowTakenFrom(p) =>
                 (Store!Indexed(q)' <=> Store!Indexed(q)) /\ TextAt(q)' = TextAt(q)
<1> DEFINE d == Store!DocumentFor(p)
<1>1. /\ pathOf'[d] = p /\ textOf'[d] = disk[p] /\ d \in Paths
      /\ \A e \in Paths \ {d} : pathOf'[e] = pathOf[e] /\ textOf'[e] = textOf[e]
  BY SyncAssumption, RowsAgree, RowsAreUnique, Sync!WriteRowKeepsRows DEF Sync!IInv
<1>2. Current(p)'
  <2>1. Store!Indexed(p)'
    BY <1>1 DEF Store!Indexed
  <2>2. Store!DocumentFor(p)' \in Paths /\ pathOf'[Store!DocumentFor(p)'] = p
    BY <2>1 DEF Store!DocumentFor, Store!Indexed
  <2>3. Store!DocumentFor(p)' = d
    BY <1>1, <2>2, PathsAreNumbers, RowsAreUnique
  <2> QED
    BY <1>1, <2>1, <2>3 DEF Current
<1>3. ASSUME NEW q \in Paths \ {p}, q \notin RowTakenFrom(p)
      PROVE  (Store!Indexed(q)' <=> Store!Indexed(q)) /\ TextAt(q)' = TextAt(q)
  <2>1. pathOf[d] # q
    BY <1>3, PathsAreNumbers DEF RowTakenFrom
  <2>2. \A e \in Paths : pathOf[e] = q <=> pathOf'[e] = q
    BY <1>1, <1>3, <2>1
  <2>3. \A e \in Paths : pathOf[e] = q => textOf'[e] = textOf[e]
    BY <1>1, <2>1
  <2> QED
    BY <2>2, <2>3, SameRowSameText
<1> QED
  BY <1>2, <1>3

LEMMA DeletedPaths ==
    ASSUME Sync!IInv, NEW p \in Paths, Store!DeleteRow(p)
    PROVE  /\ ~Store!Indexed(p)' /\ TextAt(p)' = NoFile
           /\ \A q \in Paths \ {p} :
                 (Store!Indexed(q)' <=> Store!Indexed(q)) /\ TextAt(q)' = TextAt(q)
<1>1. /\ \A d \in Paths : pathOf[d] # p => pathOf'[d] = pathOf[d] /\ textOf'[d] = textOf[d]
      /\ \A d \in Paths : pathOf[d] = p => pathOf'[d] = Store!NoPath
  BY DEF Store!DeleteRow
<1>2. ~Store!Indexed(p)'
  BY <1>1, PathsAreNumbers DEF Store!Indexed
<1>3. ASSUME NEW q \in Paths \ {p}
      PROVE  (Store!Indexed(q)' <=> Store!Indexed(q)) /\ TextAt(q)' = TextAt(q)
  <2>1. \A d \in Paths : pathOf[d] = q <=> pathOf'[d] = q
    BY <1>1, <1>3, PathsAreNumbers
  <2>2. \A d \in Paths : pathOf[d] = q => textOf'[d] = textOf[d]
    BY <1>1, <1>3
  <2> QED
    BY <2>1, <2>2, SameRowSameText
<1> QED
  BY <1>2, <1>3 DEF TextAt

(* A rename takes the text of one path to another that had none.           *)
LEMMA RenamedPaths ==
    ASSUME Sync!IInv, NEW from \in Paths, NEW to \in Paths,
           Store!Indexed(from), ~Store!Indexed(to), UNCHANGED textOf,
           pathOf' = [d \in Paths |-> IF pathOf[d] = from THEN to ELSE pathOf[d]]
    PROVE  /\ ~Store!Indexed(from)' /\ TextAt(from)' = NoFile
           /\ Store!Indexed(to)' /\ TextAt(to)' = TextAt(from)
           /\ \A q \in Paths \ {from, to} :
                 (Store!Indexed(q)' <=> Store!Indexed(q)) /\ TextAt(q)' = TextAt(q)
<1> DEFINE d == Store!DocumentFor(from)
<1>1. from # to
  OBVIOUS
<1>2. d \in Paths /\ pathOf[d] = from /\ \A e \in Paths : pathOf[e] = from => e = d
  BY RowsAreUnique
<1>3. pathOf'[d] = to /\ \A e \in Paths : pathOf[e] # from => pathOf'[e] = pathOf[e]
  BY <1>2
<1>4. ~Store!Indexed(from)'
  BY <1>1, <1>2, <1>3 DEF Store!Indexed
<1>5. Store!Indexed(to)'
  BY <1>2, <1>3 DEF Store!Indexed
<1>6. TextAt(to)' = TextAt(from)
  <2> DEFINE e == Store!DocumentFor(to)'
  <2>1. e \in Paths /\ pathOf'[e] = to
    BY <1>5 DEF Store!DocumentFor, Store!Indexed
  <2>2. e = d
    BY <1>2, <1>3, <2>1 DEF Store!Indexed
  <2> QED
    BY <1>5, <2>2 DEF TextAt
<1>7. ASSUME NEW q \in Paths \ {from, to}
      PROVE  (Store!Indexed(q)' <=> Store!Indexed(q)) /\ TextAt(q)' = TextAt(q)
  <2>1. \A e \in Paths : pathOf[e] = q <=> pathOf'[e] = q
    BY <1>7
  <2> QED
    BY <2>1, SameRowSameText
<1> QED
  BY <1>4, <1>5, <1>6, <1>7 DEF TextAt

-----------------------------------------------------------------------------
(* The rows and the plan stay what CorpusSync says they are, whatever      *)
(* calls its operations.                                                   *)

LEMMA IdleKeepsSync ==
    ASSUME Sync!IInv, Store!Idle, UNCHANGED <<disk, pathOf, textOf>>
    PROVE  Sync!IInv'
<1>1. Sync!PathsAreUnique' /\ Sync!RowsHaveText'
  BY DEF Sync!IInv, Sync!PathsAreUnique, Sync!RowsHaveText
<1>2. /\ disk' \in [Paths -> Texts \cup {NoFile, Unreadable}]
      /\ pathOf' \in [Paths -> Paths \cup {Sync!NoPath}]
      /\ textOf' \in [Paths -> Texts \cup {NoFile}]
  BY DEF Sync!IInv, Sync!TypeOK
<1> QED
  BY <1>1, <1>2, SyncAssumption, RowsAgree, Sync!IdleInv

LEMMA SameStoreKeepsSync == ASSUME Sync!IInv, UNCHANGED store PROVE Sync!IInv'
<1>1. UNCHANGED Sync!vars
  BY DEF store, Sync!vars, Sync!rows, Sync!plan
<1> QED
  BY <1>1, SyncAssumption, Sync!NextInv

LEMMA NextKeepsSync == ASSUME Sync!IInv, TypeOK, [Next]_vars PROVE Sync!IInv'
<1> USE SyncAssumption
<1>1. CASE Report \/ Elapse \/ Flush \/ BeginConsuming \/ Receive \/ ReportIgnored
           \/ ReportDropped \/ StartStream \/ StopWatching
           \/ (\E p \in Paths : CheckFile(p))
  <2>1. UNCHANGED store
    BY <1>1 DEF Report, Elapse, Flush, BeginConsuming, Receive, ReportIgnored, ReportDropped,
       StartStream, StopWatching, CheckFile
  <2> QED
    BY <2>1, SameStoreKeepsSync
<1>2. CASE HandleBulkChange
  BY <1>2, StepsAgree, Sync!StartSyncInv DEF HandleBulkChange
<1>3. ASSUME NEW q \in Paths, IngestFile(q) PROVE Sync!IInv'
  BY <1>3, StepsAgree, Sync!AddFileInv, SameStoreKeepsSync DEF IngestFile
<1>4. ASSUME NEW q \in Paths, RemoveGoneFile(q) PROVE Sync!IInv'
  BY <1>4, StepsAgree, Sync!RemoveFileInv, SameStoreKeepsSync DEF RemoveGoneFile
<1>5. CASE SyncStep
  <2>1. Sync!SyncStep
    BY <1>5, StepsAgree, ReconcileAgrees DEF SyncStep, Store!SyncStep, Sync!SyncStep
  <2> QED
    BY <2>1, Sync!NextInv DEF Sync!Next
<1>6. CASE SyncReturns
  BY <1>6, IdleKeepsSync DEF SyncReturns
<1>7. CASE WalkFails
  BY <1>7, StepsAgree, Sync!InterruptedInv DEF WalkFails
<1>8. CASE HostCalls
  BY <1>8, StepsAgree, Sync!AddFileInv, Sync!RemoveFileInv, Sync!StartSyncInv, Sync!RebuildInv
     DEF HostCalls
<1>9. CASE FilesChange
  BY <1>9, StepsAgree, Sync!DiskChangesInv DEF FilesChange
<1>10. CASE Crash
  BY <1>10, IdleKeepsSync DEF Crash
<1>11. CASE UNCHANGED vars
  BY <1>11, SameStoreKeepsSync DEF vars
<1> QED
  BY <1>1, <1>2, <1>3, <1>4, <1>5, <1>6, <1>7, <1>8, <1>9, <1>10, <1>11
     DEF Next, Consume, Disturbance

-----------------------------------------------------------------------------
(* Types.                                                                  *)

LEMMA BulkNamesNoPath ==
    ASSUME NEW q \in Paths
    PROVE  q \notin BulkChange /\ BulkChange # {}
BY PathsAreNumbers DEF BulkChange

(* What Misses leaves is settled, for as long as anybody listens.          *)
LEMMA MissedPaths ==
    ASSUME NEW S, S \subseteq Paths, missed \subseteq Paths, Misses(S)
    PROVE  /\ missed' \subseteq Paths
           /\ ~Listening' => \A q \in Paths : Settled(q)'
           /\ \A q \in Paths : q \in missed \cup S => Settled(q)'
BY DEF Misses, Settled

LEMMA NextKeepsTypes == ASSUME IInv, Sync!IInv', [Next]_vars PROVE TypeOK'
<1>1. Store!TypeOK'
  BY RowsAgree DEF Sync!IInv, Sync!TypeOK, Store!TypeOK, Store!NoPath, Sync!NoPath
<1>2. TypeOK
  BY DEF IInv
<1>3. \A q \in Paths : RowTakenFrom(q) \subseteq Paths
  BY <1>2, RowsAreUnique DEF RowTakenFrom, TypeOK, Store!TypeOK, IInv
<1> USE <1>1, <1>2
<1>4. CASE Report
  BY <1>4 DEF Report, Enqueue, Wanted, ScheduleFlush, TypeOK, handling
<1>5. CASE ReportDropped
  BY <1>5 DEF ReportDropped, EnqueueFullScan, WatchEvents, TypeOK, handling
<1>6. CASE ReportIgnored
  BY <1>6 DEF ReportIgnored, Enqueue, Wanted, ScheduleFlush, TypeOK, handling
<1>7. CASE Elapse
  BY <1>7 DEF Elapse, TypeOK, handling
<1>8. CASE Flush
  <2>1. pending # {} => EventFor(pending) \in WatchEvents
    BY DEF EventFor, WatchEvents, TypeOK
  <2>2. stream' \subseteq WatchEvents
    BY <1>8, <2>1 DEF Flush, TypeOK
  <2> QED
    BY <1>8, <2>2 DEF Flush, TypeOK, handling
<1>9. CASE BeginConsuming \/ StartStream
  BY <1>9 DEF BeginConsuming, StartStream, TypeOK, handling, debounce
<1>10. CASE StopWatching
  <2>1. missed' \subseteq Paths
    BY <1>10, MissedPaths DEF StopWatching, TypeOK
  <2> QED
    BY <1>10, <2>1 DEF StopWatching, Silence, TypeOK, handling
<1>11. CASE Receive
  BY <1>11 DEF Receive, TypeOK, debounce
<1>12. CASE HandleBulkChange
  BY <1>12 DEF HandleBulkChange, TypeOK, debounce
<1>13. ASSUME NEW q \in Paths, CheckFile(q) PROVE TypeOK'
  BY <1>13 DEF CheckFile, TypeOK, debounce
<1>14. ASSUME NEW q \in Paths, NextFile(q), FileDone(q), missed' \subseteq Paths PROVE TypeOK'
  <2>1. taken' \in WatchEvents \cup {{}}
    BY <1>14 DEF FileDone, NextFile, WatchEvents, TypeOK
  <2> QED
    BY <1>14, <2>1 DEF FileDone, TypeOK, debounce
<1>15. ASSUME NEW q \in Paths, IngestFile(q) PROVE TypeOK'
  <2>1. missed' \subseteq Paths
    BY <1>3, <1>15, MissedPaths DEF IngestFile, TypeOK
  <2> QED
    BY <1>14, <1>15, <2>1 DEF IngestFile
<1>16. ASSUME NEW q \in Paths, RemoveGoneFile(q) PROVE TypeOK'
  <2>1. missed' \subseteq Paths
    BY <1>16, MissedPaths DEF RemoveGoneFile, TypeOK
  <2> QED
    BY <1>14, <1>16, <2>1 DEF RemoveGoneFile
<1>17. CASE SyncStep
  <2>1. UNION {RowTakenFrom(p) : p \in upserts \ upserts'} \subseteq Paths
    BY <1>3 DEF TypeOK, Store!TypeOK
  <2>2. missed' \subseteq Paths
    BY <1>17, <2>1, MissedPaths DEF SyncStep, TypeOK
  <2> QED
    BY <1>17, <2>2 DEF SyncStep, watcher, debounce, handling, TypeOK
<1>18. CASE SyncReturns
  BY <1>18 DEF SyncReturns, watcher, debounce, handling, TypeOK
<1>19. CASE WalkFails
  <2>1. missed' \subseteq Paths
    BY <1>19, MissedPaths DEF WalkFails, TypeOK
  <2> QED
    BY <1>19, <2>1 DEF WalkFails, watcher, debounce, handling, TypeOK
<1>20. CASE HostCalls
  <2>1. missed' \subseteq Paths
    BY <1>3, <1>20, MissedPaths DEF HostCalls, TypeOK
  <2> QED
    BY <1>20, <2>1 DEF HostCalls, watcher, debounce, handling, TypeOK
<1>21. CASE FilesChange
  <2>1. missed' \subseteq Paths
    BY <1>21, MissedPaths DEF FilesChange, TypeOK
  <2> QED
    BY <1>21, <2>1 DEF FilesChange, debounce, handling, TypeOK
<1>22. CASE Crash
  <2>1. missed' \subseteq Paths
    BY <1>22, MissedPaths DEF Crash, TypeOK
  <2> QED
    BY <1>22, <2>1 DEF Crash, Silence, TypeOK
<1>23. CASE UNCHANGED vars
  BY <1>23 DEF vars, debounce, handling, TypeOK
<1> QED
  BY <1>4, <1>5, <1>6, <1>7, <1>8, <1>9, <1>10, <1>11, <1>12, <1>13, <1>15, <1>16,
     <1>17, <1>18, <1>19, <1>20, <1>21, <1>22, <1>23 DEF Next, Consume, Disturbance

-----------------------------------------------------------------------------
(* Steps that only move events along.                                      *)

(* What the types and CorpusSync do not say.                               *)
NothingIsLost ==
    /\ HandlingIsOrderly
    /\ PlanIsOrderly
    /\ IF Listening THEN ListenersMissNothing ELSE \A q \in Paths : Settled(q)

LEMMA SameStore ==
    ASSUME IInv, UNCHANGED store
    PROVE  /\ PlanIsOrderly'
           /\ \A q \in Paths :
                 /\ Current(q)' <=> Current(q)
                 /\ TextAt(q)' = TextAt(q)
                 /\ PlanMentions(q)' <=> PlanMentions(q)
<1>1. UNCHANGED <<disk, pathOf, textOf, phase, unvisited, found, renames, deletions, upserts>>
  BY DEF store
<1>2. \A q \in Paths : TextAt(q)' = TextAt(q) /\ (Store!Indexed(q)' <=> Store!Indexed(q))
  BY <1>1, SameRowsSameTexts
<1>3. \A q \in Paths : Current(q)' <=> Current(q)
  BY <1>1, <1>2, CurrentIsText DEF Current, Store!Indexed, Store!DocumentFor
<1>4. PlanIsOrderly'
  BY <1>1 DEF IInv, PlanIsOrderly, Store!Indexed
<1> QED
  BY <1>1, <1>2, <1>3, <1>4 DEF PlanMentions

(* An event that moves on is still waited for, and what waits is not lost. *)
LEMMA WaitingSuffices ==
    ASSUME IInv, UNCHANGED <<store, missed>>, Listening,
           \A q \in Paths : Waiting(q) => Waiting(q)', GoneOrReported'
    PROVE  ListenersMissNothing'
<1>1. UNCHANGED <<disk, phase, unvisited, found, renames, deletions, upserts>>
  BY DEF store
<1>2. \A q \in Paths : /\ Settled(q) => Settled(q)'
                       /\ TextAt(q)' = TextAt(q)
                       /\ PlanMentions(q)' <=> PlanMentions(q)
  BY SameStore DEF Settled
<1>3. ListenersMissNothing
  BY DEF IInv
<1>4. ASSUME phase = "applying" PROVE PlanIsRight'
  <2>1. \A r \in renames : r[1] \in Paths
    BY DEF IInv, TypeOK, Store!TypeOK
  <2>2. \A q \in Paths : PlanSettles(q) => PlanSettles(q)'
    BY <1>1, <1>2, <2>1 DEF PlanSettles
  <2> QED
    BY <1>3, <1>4, <2>2 DEF ListenersMissNothing, PlanIsRight
<1>5. phase = "scanning" => WalkIsRight'
  BY <1>1, <1>3 DEF ListenersMissNothing, WalkIsRight
<1>6. phase = "idle" => \A q \in Paths : (Waiting(q) \/ Settled(q))'
  BY <1>2, <1>3 DEF ListenersMissNothing
<1> QED
  BY <1>1, <1>4, <1>5, <1>6 DEF ListenersMissNothing

LEMMA EventsMove ==
    ASSUME IInv, UNCHANGED <<store, missed, consumer, taken>>, Listening' <=> Listening,
           pending' # {} => timer' # "none",
           \A q \in Paths : Reported(q) => Reported(q)'
    PROVE  NothingIsLost'
<1>1. HandlingIsOrderly'
  BY DEF IInv, HandlingIsOrderly, store, Syncing
<1>2. CASE Listening
  <2>1. \A q \in Paths : Waiting(q) => Waiting(q)'
    BY DEF Waiting
  <2>2. GoneOrReported'
    BY <1>2 DEF IInv, ListenersMissNothing, GoneOrReported, NextFile, store
  <2> QED
    BY <1>1, <1>2, <2>1, <2>2, SameStore, WaitingSuffices DEF NothingIsLost
<1>3. CASE ~Listening
  BY <1>1, <1>3, SameStore DEF IInv, NothingIsLost, Settled
<1> QED
  BY <1>2, <1>3

LEMMA ReportLosesNothing == ASSUME IInv, Report PROVE NothingIsLost'
<1>1. PICK S \in (SUBSET events) \ {{}} : Enqueue(S) /\ events' = events \ S
  BY DEF Report
<1>2. Wanted(S) = S
  BY DEF IInv, TypeOK, Wanted
<1>3. pending' = pending \cup S /\ UNCHANGED stream /\ timer' = "asleep"
  BY <1>1, <1>2 DEF Enqueue, ScheduleFlush
<1>4. \A q \in Paths : Reported(q) => Reported(q)'
  BY <1>1, <1>3 DEF Reported
<1> QED
  BY <1>3, <1>4, EventsMove DEF Report, handling, Listening

LEMMA ReportDroppedLosesNothing == ASSUME IInv, ReportDropped PROVE NothingIsLost'
<1>1. \A q \in Paths : Reported(q)'
  BY DEF ReportDropped, EnqueueFullScan, Reported
<1> QED
  BY <1>1, EventsMove DEF ReportDropped, EnqueueFullScan, handling, Listening

LEMMA ReportIgnoredLosesNothing == ASSUME IInv, ReportIgnored PROVE NothingIsLost'
<1>1. pending \subseteq pending' /\ UNCHANGED <<events, stream>>
  BY DEF ReportIgnored, Enqueue
<1>2. \A q \in Paths : Reported(q) => Reported(q)'
  BY <1>1 DEF Reported
<1>3. pending' # {} => timer' # "none"
  BY DEF ReportIgnored, Enqueue, ScheduleFlush
<1> QED
  BY <1>2, <1>3, EventsMove DEF ReportIgnored, handling, Listening

LEMMA ElapseLosesNothing == ASSUME IInv, Elapse PROVE NothingIsLost'
<1>1. \A q \in Paths : Reported(q) => Reported(q)'
  BY DEF Elapse, Reported
<1> QED
  BY <1>1, EventsMove DEF Elapse, handling, Listening

(* What was pending is in the stream, by its name or as a bulk event.      *)
LEMMA FlushLosesNothing == ASSUME IInv, Flush PROVE NothingIsLost'
<1>1. ASSUME NEW q \in Paths, q \in pending PROVE \E e \in stream' : e = BulkChange \/ q \in e
  BY <1>1 DEF Flush, EventFor
<1>2. stream \subseteq stream' /\ UNCHANGED events
  BY DEF Flush
<1>3. \A q \in Paths : Reported(q) => Reported(q)'
  BY <1>1, <1>2 DEF Reported
<1> QED
  BY <1>3, EventsMove DEF Flush, handling, Listening

LEMMA BeginConsumingLosesNothing == ASSUME IInv, BeginConsuming PROVE NothingIsLost'
<1>1. \A q \in Paths : Reported(q) => Reported(q)'
  BY DEF BeginConsuming, Reported, debounce
<1> QED
  BY <1>1, EventsMove DEF BeginConsuming, debounce, handling, Listening, IInv, HandlingIsOrderly

LEMMA StutterLosesNothing == ASSUME IInv, UNCHANGED vars PROVE NothingIsLost'
<1>1. \A q \in Paths : Reported(q) => Reported(q)'
  BY DEF vars, Reported, debounce
<1> QED
  BY <1>1, EventsMove DEF vars, debounce, handling, Listening, IInv, HandlingIsOrderly

(* Watching begins while the index is settled but for what was missed.     *)
LEMMA StartStreamLosesNothing == ASSUME IInv, StartStream PROVE NothingIsLost'
<1>1. phase' = "idle" /\ consumer' = "waiting" /\ UNCHANGED <<store, missed>>
  BY DEF StartStream, Busy, Syncing, store, handling
<1>2. ~Listening /\ HandlingIsOrderly
  BY DEF StartStream, Listening, IInv
<1>3. HandlingIsOrderly'
  BY <1>2 DEF StartStream, HandlingIsOrderly, debounce, handling, store, Syncing
<1>4. \A q \in Paths : Settled(q)'
  BY <1>1, <1>2, SameStore DEF IInv, Settled
<1> QED
  BY <1>1, <1>3, <1>4, SameStore DEF NothingIsLost, ListenersMissNothing, GoneOrReported

LEMMA StopWatchingLosesNothing == ASSUME IInv, StopWatching PROVE NothingIsLost'
<1>1. ~Listening' /\ UNCHANGED store
  BY DEF StopWatching, Listening
<1>2. HandlingIsOrderly'
  BY DEF StopWatching, Silence, IInv, HandlingIsOrderly, handling, store, Syncing
<1>3. \A q \in Paths : Settled(q)'
  BY <1>1, MissedPaths DEF StopWatching, IInv, TypeOK
<1> QED
  BY <1>1, <1>2, <1>3, SameStore DEF NothingIsLost

-----------------------------------------------------------------------------
(* The consumer.                                                           *)

LEMMA ReceiveLosesNothing == ASSUME IInv, Receive PROVE NothingIsLost'
<1>1. PICK e \in stream : taken' = e /\ stream' = stream \ {e}
  BY DEF Receive
<1>2. /\ UNCHANGED <<store, missed, watch, events, pending, timer>>
      /\ taken = {} /\ consumer' = "received" /\ Listening
  BY DEF Receive, debounce, IInv, HandlingIsOrderly, Listening
<1>3. HandlingIsOrderly'
  BY <1>2 DEF IInv, HandlingIsOrderly, store, Syncing
<1>4. ASSUME NEW q \in Paths, Waiting(q) PROVE Waiting(q)'
  BY <1>1, <1>2, <1>4, BulkNamesNoPath DEF Waiting, Reported
<1>5. GoneOrReported'
  BY <1>2 DEF GoneOrReported
<1>6. ListenersMissNothing'
  BY <1>2, <1>4, <1>5, WaitingSuffices
<1> QED
  BY <1>2, <1>3, <1>6, SameStore DEF NothingIsLost, Listening

(* The file's answer is as good as its latest report.                      *)
LEMMA CheckFileLosesNothing ==
    ASSUME IInv, NEW p \in Paths, CheckFile(p)
    PROVE  NothingIsLost'
<1>1. UNCHANGED <<store, missed, watch, events, pending, timer, stream, taken>>
  BY DEF CheckFile, debounce
<1>2. consumer' = IF disk[p] = NoFile THEN "removing" ELSE "ingesting"
  BY DEF CheckFile
<1>3. HandlingIsOrderly'
  BY <1>1, <1>2 DEF CheckFile, IInv, HandlingIsOrderly, store, Syncing
<1>4. \A q \in Paths : NextFile(q) => q = p
  BY CorpusWatcherAssumption DEF CheckFile, NextFile
<1>5. GoneOrReported'
  BY <1>1, <1>2, <1>4 DEF GoneOrReported, NextFile, store
<1>6. \A q \in Paths : Waiting(q) => Waiting(q)'
  BY <1>1 DEF Waiting, Reported
<1>7. Listening => ListenersMissNothing'
  BY <1>1, <1>5, <1>6, WaitingSuffices
<1>8. ~Listening => \A q \in Paths : Settled(q)'
  BY <1>1, SameStore DEF IInv, Settled
<1> QED
  BY <1>1, <1>3, <1>7, <1>8, SameStore DEF NothingIsLost, Listening

LEMMA NoPlanIsOrderly ==
    ASSUME renames' = {}, deletions' = {}, upserts' = {}, found' = {}
    PROVE  PlanIsOrderly'
BY DEF PlanIsOrderly

LEMMA FreeHasNoPlan ==
    ASSUME IInv, ~Syncing
    PROVE  phase = "idle" /\ renames = {} /\ deletions = {} /\ upserts = {}
BY DEF IInv, Sync!IInv, Sync!NoPlanOutsideSync, Syncing

LEMMA IdleLosesNothing ==
    ASSUME Store!Idle, HandlingIsOrderly', consumer' # "removing" \/ GoneOrReported',
           \A q \in Paths : (Waiting(q) \/ Settled(q))',
           ~Listening' => \A q \in Paths : Settled(q)'
    PROVE  NothingIsLost'
<1>1. PlanIsOrderly'
  BY NoPlanIsOrderly DEF Store!Idle
<1> QED
  BY <1>1 DEF NothingIsLost, ListenersMissNothing, GoneOrReported, Store!Idle

LEMMA BeginScanLosesNothing ==
    ASSUME IInv, ~Syncing, Store!BeginScan, UNCHANGED <<renames, deletions, upserts>>,
           HandlingIsOrderly', consumer' # "removing",
           ~Listening' => \A q \in Paths : Settled(q)'
    PROVE  NothingIsLost'
<1>1. phase' = "scanning" /\ found' = {} /\ unvisited' = Paths
  BY DEF Store!BeginScan
<1>2. PlanIsOrderly'
  BY <1>1, FreeHasNoPlan, NoPlanIsOrderly
<1> QED
  BY <1>1, <1>2 DEF NothingIsLost, ListenersMissNothing, WalkIsRight, GoneOrReported

LEMMA HandleBulkChangeLosesNothing == ASSUME IInv, HandleBulkChange PROVE NothingIsLost'
<1>1. /\ Store!BeginScan /\ ~Syncing
      /\ UNCHANGED <<disk, pathOf, textOf, renames, deletions, upserts, watch, pending, timer, missed>>
      /\ consumer' = "waiting" /\ taken' = {}
  BY DEF HandleBulkChange, Store!StartSync, Store!rows, Store!plan, debounce
<1>2. HandlingIsOrderly'
  BY <1>1 DEF IInv, HandlingIsOrderly
<1>3. \A q \in Paths : Settled(q) => Settled(q)'
  BY <1>1, SameRowsSameTexts DEF Settled, Current, Store!Indexed, Store!DocumentFor
<1> QED
  BY <1>1, <1>2, <1>3, BeginScanLosesNothing DEF IInv, Listening

(* The other files of an event go on waiting.                              *)
LEMMA FileDoneKeepsOthers ==
    ASSUME IInv, NEW p \in Paths, NextFile(p), FileDone(p), phase' = "idle"
    PROVE  /\ HandlingIsOrderly' /\ consumer' # "removing"
           /\ \A q \in Paths : Reported(q)' <=> Reported(q)
           /\ \A q \in Paths \ {p} : Waiting(q) => Waiting(q)'
<1>1. UNCHANGED <<watch, events, pending, timer, stream>>
  BY DEF FileDone, debounce
<1>2. taken' = taken \ {p} /\ taken # BulkChange
  BY DEF FileDone, NextFile
<1>3. consumer' = IF taken = {p} THEN "waiting" ELSE "handling"
  BY DEF FileDone
<1>4. HandlingIsOrderly'
  BY <1>1, <1>2, <1>3 DEF IInv, HandlingIsOrderly, Syncing
<1>5. \A q \in Paths : Reported(q)' <=> Reported(q)
  BY <1>1 DEF Reported
<1> QED
  BY <1>2, <1>3, <1>4, <1>5 DEF Waiting

LEMMA HandledOutsideSync ==
    ASSUME IInv, consumer \in {"handling", "ingesting", "removing"}
    PROVE  phase = "idle" /\ (Listening => \A q \in Paths : Waiting(q) \/ Settled(q))
BY DEF IInv, HandlingIsOrderly, Syncing, ListenersMissNothing

(* The file now says what it says; whoever lost a row to it is missed.     *)
LEMMA AddedFile ==
    ASSUME IInv, NEW p \in Paths, Store!AddFile(p), Misses(RowTakenFrom(p))
    PROVE  /\ Store!Idle /\ Settled(p)'
           /\ \A q \in Paths : Settled(q) => Settled(q)'
           /\ ~Listening' => \A q \in Paths : Settled(q)'
<1>1. Sync!IInv /\ Store!Readable(p) /\ Store!WriteRow(p) /\ UNCHANGED disk /\ Store!Idle
  BY DEF Store!AddFile, IInv
<1>2. RowTakenFrom(p) \subseteq Paths /\ missed \subseteq Paths
  BY <1>1, RowsAreUnique DEF RowTakenFrom, IInv, TypeOK, Store!TypeOK
<1>3. /\ ~Listening' => \A q \in Paths : Settled(q)'
      /\ \A q \in Paths : q \in missed \cup RowTakenFrom(p) => Settled(q)'
  BY <1>2, MissedPaths
<1>4. Current(p)' /\ \A q \in Paths \ {p} : q \notin RowTakenFrom(p) => TextAt(q)' = TextAt(q)
  BY <1>1, WrittenPaths
<1>5. ASSUME NEW q \in Paths, Settled(q) PROVE Settled(q)'
  <2>1. CASE q \in missed \cup RowTakenFrom(p) \cup {p}
    BY <1>3, <1>4, <2>1 DEF Settled
  <2>2. CASE q \notin missed \cup RowTakenFrom(p) \cup {p}
    <3>1. Current(q) /\ TextAt(q)' = TextAt(q)
      BY <1>4, <1>5, <2>2 DEF Settled
    <3> QED
      BY <1>1, <3>1 DEF Current, TextAt, Settled
  <2> QED
    BY <2>1, <2>2
<1> QED
  BY <1>1, <1>3, <1>4, <1>5 DEF Settled

LEMMA IngestFileLosesNothing == ASSUME IInv, NEW p \in Paths, IngestFile(p) PROVE NothingIsLost'
<1>1. NextFile(p) /\ FileDone(p) /\ phase = "idle"
      /\ (Listening => \A q \in Paths : Waiting(q) \/ Settled(q))
  BY HandledOutsideSync DEF IngestFile
<1>2. Listening' <=> Listening
  BY <1>1 DEF FileDone, Listening
<1>3. CASE Store!AddFile(p) /\ Misses(RowTakenFrom(p))
  <2>1. Store!Idle /\ Settled(p)' /\ (\A q \in Paths : Settled(q) => Settled(q)')
        /\ (~Listening' => \A q \in Paths : Settled(q)')
    BY <1>3, AddedFile
  <2>2. phase' = "idle"
    BY <2>1 DEF Store!Idle
  <2>3. HandlingIsOrderly' /\ consumer' # "removing"
        /\ \A q \in Paths \ {p} : Waiting(q) => Waiting(q)'
    BY <1>1, <2>2, FileDoneKeepsOthers
  <2> QED
    BY <1>1, <1>2, <2>1, <2>3, IdleLosesNothing
<1>4. CASE UNCHANGED store /\ Misses({p})
  <2>1. phase' = "idle"
    BY <1>1, <1>4 DEF store
  <2>2. HandlingIsOrderly' /\ consumer' # "removing"
        /\ \A q \in Paths \ {p} : Waiting(q) => Waiting(q)'
    BY <1>1, <2>1, FileDoneKeepsOthers
  <2>3. /\ ~Listening' => \A q \in Paths : Settled(q)'
        /\ \A q \in Paths : q \in missed \cup {p} => Settled(q)'
    BY <1>4, MissedPaths DEF IInv, TypeOK
  <2>4. \A q \in Paths : Settled(q) => Settled(q)'
    BY <1>4, <2>3, SameStore DEF Settled
  <2>5. \A q \in Paths : (Waiting(q) \/ Settled(q))'
    BY <1>1, <1>2, <2>2, <2>3, <2>4
  <2> QED
    BY <1>4, <2>1, <2>2, <2>3, <2>5, SameStore DEF NothingIsLost, ListenersMissNothing, GoneOrReported
<1> QED
  BY <1>3, <1>4 DEF IngestFile

LEMMA RemoveGoneFileLosesNothing ==
    ASSUME IInv, NEW p \in Paths, RemoveGoneFile(p)
    PROVE  NothingIsLost'
<1>1. NextFile(p) /\ FileDone(p) /\ phase = "idle" /\ consumer = "removing"
      /\ (Listening => \A q \in Paths : Waiting(q) \/ Settled(q))
  BY HandledOutsideSync DEF RemoveGoneFile
<1>2. Listening' <=> Listening
  BY <1>1 DEF FileDone, Listening
<1>3. Listening => disk[p] = NoFile \/ Reported(p)
  BY <1>1 DEF IInv, ListenersMissNothing, GoneOrReported
<1>4. CASE Store!RemoveFile(p) /\ Misses({})
  <2>1. Store!DeleteRow(p) /\ Store!Idle /\ UNCHANGED disk /\ phase' = "idle"
    BY <1>4 DEF Store!RemoveFile, Store!Idle
  <2>2. TextAt(p)' = NoFile /\ \A q \in Paths \ {p} : TextAt(q)' = TextAt(q)
    BY <2>1, DeletedPaths DEF IInv
  <2>3. /\ HandlingIsOrderly' /\ consumer' # "removing"
        /\ \A q \in Paths : Reported(q)' <=> Reported(q)
        /\ \A q \in Paths \ {p} : Waiting(q) => Waiting(q)'
    BY <1>1, <2>1, FileDoneKeepsOthers
  <2>4. /\ ~Listening' => \A q \in Paths : Settled(q)'
        /\ \A q \in Paths : q \in missed => Settled(q)'
    BY <1>4, MissedPaths DEF IInv, TypeOK
  <2>5. \A q \in Paths \ {p} : Settled(q) => Settled(q)'
    BY <2>1, <2>2, <2>4 DEF Settled, Current, TextAt
  <2>6. Listening => (Waiting(p) \/ Settled(p))'
    BY <1>3, <2>1, <2>2, <2>3 DEF Settled, Current, TextAt, Waiting
  <2> QED
    BY <1>1, <1>2, <2>1, <2>3, <2>4, <2>5, <2>6, IdleLosesNothing
<1>5. CASE ~Store!Indexed(p) /\ UNCHANGED store /\ UNCHANGED missed
  <2>1. phase' = "idle" /\ UNCHANGED disk
    BY <1>1, <1>5 DEF store
  <2>2. /\ HandlingIsOrderly' /\ consumer' # "removing"
        /\ \A q \in Paths : Reported(q)' <=> Reported(q)
        /\ \A q \in Paths \ {p} : Waiting(q) => Waiting(q)'
    BY <1>1, <2>1, FileDoneKeepsOthers
  <2>3. \A q \in Paths : Settled(q) => Settled(q)'
    BY <1>5, SameStore DEF Settled
  <2>4. disk[p] = NoFile => Settled(p)
    BY <1>5 DEF Settled, Current
  <2>5. Listening => \A q \in Paths : (Waiting(q) \/ Settled(q))'
    BY <1>1, <1>3, <2>2, <2>3, <2>4 DEF Waiting
  <2> QED
    BY <1>2, <1>5, <2>1, <2>2, <2>3, <2>5, SameStore
       DEF NothingIsLost, ListenersMissNothing, GoneOrReported, IInv
<1> QED
  BY <1>4, <1>5 DEF RemoveGoneFile

-----------------------------------------------------------------------------
(* The steps of a sync.                                                    *)

LEMMA SyncLeavesWatcher ==
    ASSUME IInv, Syncing, UNCHANGED watcher
    PROVE  /\ HandlingIsOrderly' /\ consumer' # "removing"
           /\ Listening' <=> Listening
           /\ \A q \in Paths : Waiting(q)' <=> Waiting(q)
<1>1. UNCHANGED <<watch, events, pending, timer, stream, consumer, taken>>
  BY DEF watcher, debounce, handling
<1>2. HandlingIsOrderly' /\ consumer' # "removing"
  BY <1>1 DEF IInv, HandlingIsOrderly, Syncing
<1> QED
  BY <1>1, <1>2 DEF Listening, Waiting, Reported

(* A sync that ends early has nothing to say of any path.                  *)
LEMMA EndedSyncLosesNothing ==
    ASSUME IInv, Syncing, UNCHANGED watcher, Store!Idle, Misses(Paths)
    PROVE  NothingIsLost'
<1>1. \A q \in Paths : Settled(q)'
  BY MissedPaths DEF IInv, TypeOK
<1> QED
  BY <1>1, SyncLeavesWatcher, IdleLosesNothing

LEMMA VisitLosesNothing ==
    ASSUME IInv, NEW p \in Paths, NEW S, S \subseteq Paths, Store!Visit(p), UNCHANGED watcher, Misses(S)
    PROVE  NothingIsLost'
<1>1. /\ phase = "scanning" /\ phase' = "scanning" /\ Syncing
      /\ p \in unvisited /\ unvisited' = unvisited \ {p}
      /\ found' = IF disk[p] = NoFile THEN found ELSE found \cup {p}
      /\ UNCHANGED <<disk, renames, deletions, upserts>>
  BY DEF Store!Visit, Store!rows, Store!plan, Syncing
<1>2. renames = {} /\ deletions = {} /\ upserts = {}
  BY <1>1 DEF IInv, Sync!IInv, Sync!NoPlanOutsideSync
<1>3. PlanIsOrderly'
  BY <1>1, <1>2 DEF IInv, PlanIsOrderly
<1>4. p \notin found
  BY <1>1 DEF IInv, PlanIsOrderly
<1>5. Listening => WalkIsRight
  BY <1>1 DEF IInv, ListenersMissNothing
<1>6. Listening => WalkIsRight'
  BY <1>1, <1>4, <1>5, SyncLeavesWatcher DEF WalkIsRight
<1>7. ~Listening' => \A q \in Paths : Settled(q)'
  BY MissedPaths DEF IInv, TypeOK
<1> QED
  BY <1>1, <1>3, <1>6, <1>7, SyncLeavesWatcher DEF NothingIsLost, ListenersMissNothing, GoneOrReported

(* What a plan is made of.                                                 *)
LEMMA PlanMade ==
    ASSUME IInv, Store!Reconcile, ~Store!Idle
    PROVE  /\ phase = "scanning" /\ phase' = "applying" /\ unvisited = {} /\ found' = {}
           /\ UNCHANGED <<disk, pathOf, textOf>>
           /\ \A q \in upserts' : q \in found
           /\ \A q \in found : q \in upserts' \/ \E r \in renames' : r[2] = q
           /\ \A q \in deletions' : q \in Paths /\ q \notin found /\ Store!Indexed(q)
           /\ \A q \in Paths : Store!Indexed(q) /\ q \notin found =>
                 q \in deletions' \/ \E r \in renames' : r[1] = q
           /\ \A r \in renames' :
                 /\ r[1] \in Paths /\ Store!Indexed(r[1])
                 /\ r[1] \notin found /\ r[1] \notin deletions'
                 /\ r[2] \in found /\ ~Store!Indexed(r[2]) /\ r[2] \notin upserts'
                 /\ TextAt(r[1]) = disk[r[2]]
<1>1. PICK moved \in Store!MovedSets :
        /\ renames' = Store!Paired(moved)
        /\ deletions' = {pathOf[d] : d \in Store!Vanished \ moved}
        /\ upserts' = Store!UpsertsOf(moved)
  BY DEF Store!Reconcile
<1>2. /\ phase = "scanning" /\ phase' = "applying" /\ unvisited = {} /\ found' = {}
      /\ UNCHANGED <<disk, pathOf, textOf>>
  BY DEF Store!Reconcile, Store!rows
<1>3. /\ moved \subseteq Store!Vanished
      /\ \A d \in moved : \E q \in Store!FirstOfContent : disk[q] = textOf[d]
  BY DEF Store!MovedSets
<1>4. /\ Store!FirstOfContent \subseteq found
      /\ \A q \in Store!FirstOfContent : ~Store!Indexed(q)
      /\ found \subseteq Paths
      /\ Store!Vanished \subseteq Paths
      /\ \A d \in Store!Vanished :
            pathOf[d] \in Paths /\ pathOf[d] \notin found /\ Store!Indexed(pathOf[d])
      /\ \A d \in Paths : pathOf[d] \in Paths /\ pathOf[d] \notin found => d \in Store!Vanished
  BY PathsAreNumbers DEF Store!FirstOfContent, Store!Appeared, Store!Vanished, Store!Indexed,
     IInv, TypeOK, Store!TypeOK
<1>5. \A r \in renames' :
        /\ r = <<r[1], r[2]>>
        /\ r[1] \in Paths /\ r[2] \in Store!FirstOfContent
        /\ \E d \in moved : pathOf[d] = r[1] /\ textOf[d] = disk[r[2]]
  BY <1>1 DEF Store!Paired
<1>6. \A q \in upserts' : q \in found /\ \A r \in renames' : r[2] # q
  BY <1>1 DEF Store!UpsertsOf
<1>7. \A q \in found : q \in upserts' \/ \E r \in renames' : r[2] = q
  BY <1>1 DEF Store!UpsertsOf
<1>8. ASSUME NEW q \in deletions'
      PROVE  q \in Paths /\ q \notin found /\ Store!Indexed(q)
  BY <1>1, <1>4
<1>9. ASSUME NEW q \in Paths, Store!Indexed(q), q \notin found
      PROVE  q \in deletions' \/ \E r \in renames' : r[1] = q
  <2>1. PICK d \in Paths : pathOf[d] = q
    BY <1>9 DEF Store!Indexed
  <2>2. d \in Store!Vanished
    BY <1>4, <1>9, <2>1
  <2>3. CASE d \in moved
    <3>1. PICK w \in Store!FirstOfContent : disk[w] = textOf[d]
      BY <1>3, <2>3
    <3>2. <<q, w>> \in renames'
      BY <1>1, <1>9, <2>1, <2>3, <3>1 DEF Store!Paired
    <3> QED
      BY <3>2
  <2>4. CASE d \notin moved
    BY <1>1, <2>1, <2>2, <2>4
  <2> QED
    BY <2>3, <2>4
<1>10. ASSUME NEW r \in renames'
       PROVE  /\ r[1] \in Paths /\ Store!Indexed(r[1])
              /\ r[1] \notin found /\ r[1] \notin deletions'
              /\ r[2] \in found /\ ~Store!Indexed(r[2]) /\ r[2] \notin upserts'
              /\ TextAt(r[1]) = disk[r[2]]
  <2>1. PICK d \in moved : pathOf[d] = r[1] /\ textOf[d] = disk[r[2]]
    BY <1>5
  <2>2. d \in Paths /\ r[1] \in Paths /\ Store!Indexed(r[1]) /\ r[1] \notin found
    BY <1>3, <1>4, <2>1
  <2>3. \A e \in Paths : pathOf[e] = r[1] => e = d
    BY <2>1, <2>2, RowsAreUnique DEF IInv
  <2>4. r[1] \notin deletions'
    BY <1>1, <1>4, <2>3
  <2>5. TextAt(r[1]) = textOf[d]
    BY <2>1, <2>2, RowsAreUnique DEF TextAt, IInv
  <2> QED
    BY <1>4, <1>5, <1>6, <2>1, <2>2, <2>4, <2>5
<1> QED
  BY <1>2, <1>6, <1>7, <1>8, <1>9, <1>10

LEMMA ReconcileLosesNothing ==
    ASSUME IInv, Store!Reconcile, ~Store!Idle, NEW S, S \subseteq Paths, UNCHANGED watcher, Misses(S)
    PROVE  NothingIsLost'
<1>1. phase = "scanning" /\ phase' = "applying" /\ unvisited = {} /\ found' = {}
      /\ UNCHANGED <<disk, pathOf, textOf>> /\ Syncing
  BY PlanMade DEF Syncing
<1>2. \A q \in Paths : /\ Store!Indexed(q)' <=> Store!Indexed(q)
                       /\ TextAt(q)' = TextAt(q)
  BY <1>1, SameRowsSameTexts
<1>3. PlanIsOrderly'
  BY <1>1, <1>2, PlanMade DEF PlanIsOrderly
<1>4. ASSUME Listening, NEW q \in Paths, ~Waiting(q)
      PROVE  PlanSettles(q)'
  <2>1. q \in found <=> disk[q] # NoFile
    BY <1>1, <1>4 DEF IInv, ListenersMissNothing, WalkIsRight
  <2>2. CASE q \in found
    BY <1>1, <1>2, <2>2, PlanMade DEF PlanSettles
  <2>3. CASE q \notin found /\ Store!Indexed(q)
    BY <1>1, <2>1, <2>3, PlanMade DEF PlanSettles
  <2>4. CASE q \notin found /\ ~Store!Indexed(q)
    <3>1. disk'[q] = NoFile /\ ~Store!Indexed(q)'
      BY <1>1, <1>2, <2>1, <2>4
    <3>2. Settled(q)'
      BY <3>1 DEF Settled, Current
    <3>3. ~PlanMentions(q)'
      BY <2>4, PlanMade DEF PlanMentions
    <3> QED
      BY <3>2, <3>3 DEF PlanSettles
  <2> QED
    BY <2>2, <2>3, <2>4
<1>5. ~Listening' => \A q \in Paths : Settled(q)'
  BY MissedPaths DEF IInv, TypeOK
<1> QED
  BY <1>1, <1>3, <1>4, <1>5, SyncLeavesWatcher
     DEF NothingIsLost, ListenersMissNothing, PlanIsRight, GoneOrReported

(* A plan that is right stays right about the paths a step leaves alone.   *)
LEMMA PlanKeepsSettling ==
    ASSUME IInv, NEW q \in Paths, PlanSettles(q),
           disk'[q] = disk[q], TextAt(q)' = TextAt(q), Settled(q) => Settled(q)',
           q \in upserts => q \in upserts',
           q \in deletions => q \in deletions',
           PlanMentions(q)' => PlanMentions(q),
           \A r \in renames : r[1] = q \/ r[2] = q => r \in renames' /\ TextAt(r[1])' = TextAt(r[1])
    PROVE  PlanSettles(q)'
BY DEF PlanSettles

LEMMA ApplyRenameLosesNothing ==
    ASSUME IInv, Store!ApplyRename, UNCHANGED watcher, Misses({})
    PROVE  NothingIsLost'
<1>1. PICK r \in renames :
        /\ pathOf' = [d \in Paths |-> IF pathOf[d] = r[1] THEN r[2] ELSE pathOf[d]]
        /\ renames' = renames \ {r}
  BY DEF Store!ApplyRename
<1>2. /\ phase = "applying" /\ phase' = "applying" /\ Syncing
      /\ UNCHANGED <<disk, textOf, unvisited, found, deletions, upserts>>
  BY DEF Store!ApplyRename, Syncing
<1>3. /\ \A w \in renames : w[1] \in Paths /\ w[2] \in Paths
      /\ \A w \in renames : Store!Indexed(w[1]) /\ ~Store!Indexed(w[2])
      /\ \A w \in renames : w[1] = r[1] \/ w[2] = r[2] => w = r
      /\ \A w \in renames : w[1] \notin upserts \cup deletions /\ w[2] \notin upserts \cup deletions
  BY RowsAgree DEF IInv, TypeOK, Store!TypeOK, PlanIsOrderly, Sync!IInv, Sync!RenamesAreSafe
<1>4. \A w \in renames : w[1] # r[2] /\ w[2] # r[1]
  BY <1>3
<1>5. /\ ~Store!Indexed(r[1])' /\ TextAt(r[1])' = NoFile
      /\ TextAt(r[2])' = TextAt(r[1])
      /\ \A q \in Paths \ {r[1], r[2]} :
            (Store!Indexed(q)' <=> Store!Indexed(q)) /\ TextAt(q)' = TextAt(q)
  BY <1>1, <1>2, <1>3, RenamedPaths DEF IInv
<1>6. PlanIsOrderly'
  <2>1. \A w \in renames' : Store!Indexed(w[1])'
    BY <1>1, <1>3, <1>4, <1>5
  <2> QED
    BY <1>1, <1>2, <2>1 DEF IInv, PlanIsOrderly
<1>7. /\ ~Listening' => \A q \in Paths : Settled(q)'
      /\ \A q \in Paths : q \in missed => Settled(q)'
  BY MissedPaths DEF IInv, TypeOK
<1>8. ASSUME NEW q \in Paths \ {r[1], r[2]}, PlanSettles(q)
      PROVE  PlanSettles(q)'
  <2>1. Settled(q) => Settled(q)'
    BY <1>2, <1>5, <1>7, CurrentIsText DEF Settled, Current, TextAt
  <2>2. \A w \in renames : w[1] = q \/ w[2] = q => w \in renames' /\ TextAt(w[1])' = TextAt(w[1])
    BY <1>1, <1>3, <1>4, <1>5
  <2>3. PlanMentions(q)' => PlanMentions(q)
    BY <1>1, <1>2 DEF PlanMentions
  <2> QED
    BY <1>2, <1>5, <1>8, <2>1, <2>2, <2>3, PlanKeepsSettling
<1>9. ASSUME NEW q \in {r[1], r[2]}, PlanSettles(q)
      PROVE  PlanSettles(q)'
  <2>1. ~PlanMentions(q)'
    BY <1>1, <1>2, <1>3, <1>4 DEF PlanMentions
  <2>2. PlanMentions(q) /\ q \notin upserts \cup deletions
    BY <1>3 DEF PlanMentions
  <2>3. TextAt(q)' = disk[q]
    <3>1. CASE q = r[1]
      BY <1>3, <1>4, <1>5, <1>9, <2>2, <3>1 DEF PlanSettles
    <3>2. CASE q = r[2]
      BY <1>3, <1>4, <1>5, <1>9, <2>2, <3>2 DEF PlanSettles
    <3> QED
      BY <3>1, <3>2
  <2>4. Settled(q)'
    BY <1>2, <2>3 DEF Settled, Current, TextAt
  <2> QED
    BY <2>1, <2>4 DEF PlanSettles
<1>10. Listening => PlanIsRight'
  BY <1>2, <1>8, <1>9, SyncLeavesWatcher DEF IInv, ListenersMissNothing, PlanIsRight
<1> QED
  BY <1>2, <1>6, <1>7, <1>10, SyncLeavesWatcher DEF NothingIsLost, ListenersMissNothing, GoneOrReported

LEMMA ApplyDeletionLosesNothing ==
    ASSUME IInv, Store!ApplyDeletion, UNCHANGED watcher, Misses({})
    PROVE  NothingIsLost'
<1>1. PICK p \in deletions : Store!DeleteRow(p) /\ deletions' = deletions \ {p}
  BY DEF Store!ApplyDeletion
<1>2. /\ phase = "applying" /\ phase' = "applying" /\ Syncing /\ renames = {} /\ renames' = {}
      /\ UNCHANGED <<disk, unvisited, found, upserts>>
  BY DEF Store!ApplyDeletion, Syncing
<1>3. p \in Paths /\ p \notin upserts
  BY DEF IInv, TypeOK, Store!TypeOK, PlanIsOrderly
<1>4. TextAt(p)' = NoFile /\ \A q \in Paths \ {p} : TextAt(q)' = TextAt(q)
  BY <1>1, <1>3, DeletedPaths DEF IInv
<1>5. PlanIsOrderly'
  BY <1>1, <1>2 DEF IInv, PlanIsOrderly
<1>6. /\ ~Listening' => \A q \in Paths : Settled(q)'
      /\ \A q \in Paths : q \in missed => Settled(q)'
  BY MissedPaths DEF IInv, TypeOK
<1>7. ASSUME NEW q \in Paths \ {p}, PlanSettles(q)
      PROVE  PlanSettles(q)'
  <2>1. Settled(q) => Settled(q)'
    BY <1>2, <1>4, <1>6 DEF Settled, Current, TextAt
  <2>2. PlanMentions(q)' => PlanMentions(q)
    BY <1>1, <1>2 DEF PlanMentions
  <2> QED
    BY <1>1, <1>2, <1>4, <1>7, <2>1, <2>2, PlanKeepsSettling
<1>8. ASSUME PlanSettles(p) PROVE PlanSettles(p)'
  <2>1. disk[p] = NoFile
    BY <1>2, <1>3, <1>8 DEF PlanSettles, PlanMentions
  <2>2. Settled(p)'
    BY <1>2, <1>4, <2>1 DEF Settled, Current, TextAt
  <2> QED
    BY <1>1, <1>2, <1>3, <2>2 DEF PlanSettles, PlanMentions
<1>9. Listening => PlanIsRight'
  BY <1>2, <1>7, <1>8, SyncLeavesWatcher DEF IInv, ListenersMissNothing, PlanIsRight
<1> QED
  BY <1>2, <1>5, <1>6, <1>9, SyncLeavesWatcher DEF NothingIsLost, ListenersMissNothing, GoneOrReported

(* The file is ingested as it is now, which a later change would have      *)
(* reported.                                                               *)
LEMMA ApplyUpsertLosesNothing ==
    ASSUME IInv, NEW p \in upserts, phase = "applying", phase' = "applying",
           renames = {}, deletions = {}, renames' = {}, deletions' = {}, upserts' = upserts \ {p},
           UNCHANGED <<disk, unvisited, found, watcher>>,
           Store!Readable(p), Store!WriteRow(p), Misses(RowTakenFrom(p))
    PROVE  NothingIsLost'
<1>1. p \in Paths /\ Syncing
  BY DEF IInv, TypeOK, Store!TypeOK, Syncing
<1>2. Current(p)' /\ \A q \in Paths \ {p} : q \notin RowTakenFrom(p) => TextAt(q)' = TextAt(q)
  BY <1>1, WrittenPaths DEF IInv
<1>3. RowTakenFrom(p) \subseteq Paths
  BY <1>1, RowsAreUnique DEF RowTakenFrom, IInv, TypeOK, Store!TypeOK
<1>4. /\ ~Listening' => \A q \in Paths : Settled(q)'
      /\ \A q \in Paths : q \in missed \cup RowTakenFrom(p) => Settled(q)'
  BY <1>3, MissedPaths DEF IInv, TypeOK
<1>5. PlanIsOrderly'
  BY DEF IInv, PlanIsOrderly
<1>6. \A q \in Paths : PlanMentions(q) <=> q \in upserts
  BY DEF PlanMentions
<1>7. \A q \in Paths : PlanMentions(q)' <=> q \in upserts \ {p}
  BY DEF PlanMentions
<1>8. ASSUME NEW q \in Paths, PlanSettles(q)
      PROVE  PlanSettles(q)'
  <2>1. CASE q \in upserts \ {p}
    BY <2>1 DEF PlanSettles
  <2>2. CASE q = p
    BY <1>2, <1>7, <2>2 DEF PlanSettles, Settled
  <2>3. CASE q \notin upserts
    <3>1. Settled(q) /\ q # p
      BY <1>8, <2>3 DEF PlanSettles
    <3>2. CASE q \in missed \cup RowTakenFrom(p)
      BY <1>4, <1>7, <2>3, <3>2 DEF PlanSettles
    <3>3. CASE q \notin missed \cup RowTakenFrom(p)
      <4>1. Current(q) /\ TextAt(q)' = TextAt(q)
        BY <1>2, <3>1, <3>3 DEF Settled
      <4>2. Settled(q)'
        BY <4>1 DEF Settled, Current, TextAt
      <4> QED
        BY <1>7, <2>3, <4>2 DEF PlanSettles
    <3> QED
      BY <3>2, <3>3
  <2> QED
    BY <2>1, <2>2, <2>3
<1>9. Listening => PlanIsRight'
  BY <1>1, <1>8, SyncLeavesWatcher DEF IInv, ListenersMissNothing, PlanIsRight
<1> QED
  BY <1>1, <1>4, <1>5, <1>9, SyncLeavesWatcher DEF NothingIsLost, ListenersMissNothing, GoneOrReported

LEMMA SyncStepLosesNothing == ASSUME IInv, SyncStep PROVE NothingIsLost'
<1> DEFINE S == IF phase' = "idle" THEN Paths ELSE UNION {RowTakenFrom(p) : p \in upserts \ upserts'}
<1>1. Store!SyncStep /\ UNCHANGED watcher /\ Misses(S)
  BY DEF SyncStep
<1>2. S \subseteq Paths
  BY RowsAreUnique DEF RowTakenFrom, IInv, TypeOK, Store!TypeOK
<1>3. ASSUME NEW q \in Paths, Store!Visit(q) PROVE NothingIsLost'
  BY <1>1, <1>2, <1>3, VisitLosesNothing
<1>4. CASE Store!Idle /\ Syncing
  BY <1>1, <1>4, EndedSyncLosesNothing DEF Store!Idle
<1>5. CASE Store!Reconcile
  BY <1>1, <1>2, <1>4, <1>5, ReconcileLosesNothing DEF Store!Reconcile, Syncing
<1>6. CASE Store!ApplyRename
  <2>1. S = {}
    BY <1>6 DEF Store!ApplyRename
  <2> QED
    BY <1>1, <1>6, <2>1, ApplyRenameLosesNothing
<1>7. CASE Store!ApplyDeletion
  <2>1. S = {}
    BY <1>7 DEF Store!ApplyDeletion
  <2> QED
    BY <1>1, <1>7, <2>1, ApplyDeletionLosesNothing
<1>8. CASE Store!ApplyUpsert
  <2>1. CASE Store!Idle
    BY <1>4, <1>8, <2>1 DEF Store!ApplyUpsert, Syncing
  <2>2. CASE ~Store!Idle
    <3>1. PICK p \in upserts :
            /\ Store!Readable(p) /\ Store!WriteRow(p) /\ upserts' = upserts \ {p}
            /\ UNCHANGED <<phase, unvisited, found, renames, deletions>>
      BY <1>8, <2>2 DEF Store!ApplyUpsert
    <3>2. upserts \ upserts' = {p} /\ phase = "applying" /\ renames = {} /\ deletions = {}
          /\ UNCHANGED disk
      BY <1>8, <3>1 DEF Store!ApplyUpsert
    <3>3. S = RowTakenFrom(p)
      BY <3>1, <3>2
    <3> HIDE DEF S
    <3> QED
      BY <1>1, <3>1, <3>2, <3>3, ApplyUpsertLosesNothing
  <2> QED
    BY <2>1, <2>2
<1> QED
  BY <1>1, <1>3, <1>5, <1>6, <1>7, <1>8 DEF Store!SyncStep

(* With nothing left in the plan every path is settled.                    *)
LEMMA SyncReturnsLosesNothing == ASSUME IInv, SyncReturns PROVE NothingIsLost'
<1>1. /\ phase = "applying" /\ renames = {} /\ deletions = {} /\ upserts = {}
      /\ Syncing /\ Store!Idle /\ UNCHANGED <<disk, pathOf, textOf, watcher, missed>>
  BY DEF SyncReturns, Store!SyncDone, Syncing
<1>2. \A q \in Paths : Settled(q) => Settled(q)'
  BY <1>1, SameRowsSameTexts, CurrentIsText DEF Settled, Current, Store!Indexed, Store!DocumentFor
<1>3. Listening => \A q \in Paths : Waiting(q) \/ Settled(q)
  BY <1>1 DEF IInv, ListenersMissNothing, PlanIsRight, PlanSettles
<1>4. ~Listening => \A q \in Paths : Settled(q)
  BY DEF IInv
<1> QED
  BY <1>1, <1>2, <1>3, <1>4, SyncLeavesWatcher, IdleLosesNothing

LEMMA WalkFailsLosesNothing == ASSUME IInv, WalkFails PROVE NothingIsLost'
BY EndedSyncLosesNothing DEF WalkFails, Store!Interrupted, Store!Free, Syncing

-----------------------------------------------------------------------------
(* The host, the files and the process.                                    *)

LEMMA HostLeavesWatcher ==
    ASSUME IInv, ~Busy, UNCHANGED watcher
    PROVE  /\ HandlingIsOrderly' /\ consumer' # "removing"
           /\ Listening' <=> Listening
           /\ \A q \in Paths : Waiting(q)' <=> Waiting(q)
           /\ Listening => \A q \in Paths : Waiting(q) \/ Settled(q)
<1>1. UNCHANGED <<watch, events, pending, timer, stream, consumer, taken>>
  BY DEF watcher, debounce, handling
<1>2. phase = "idle" /\ consumer \in {"waiting", "received"}
  BY DEF Busy, Syncing, IInv, TypeOK
<1>3. HandlingIsOrderly'
  BY <1>1, <1>2 DEF IInv, HandlingIsOrderly
<1> QED
  BY <1>1, <1>2, <1>3 DEF Listening, Waiting, Reported, IInv, ListenersMissNothing

LEMMA HostCallsLosesNothing == ASSUME IInv, HostCalls PROVE NothingIsLost'
<1>1. ~Busy /\ ~Syncing /\ UNCHANGED watcher
  BY DEF HostCalls, Busy
<1>2. /\ HandlingIsOrderly' /\ consumer' # "removing"
      /\ Listening' <=> Listening
      /\ \A q \in Paths : Waiting(q)' <=> Waiting(q)
      /\ Listening => \A q \in Paths : Waiting(q) \/ Settled(q)
  BY <1>1, HostLeavesWatcher
<1>3. ASSUME NEW p \in Paths, Store!AddFile(p), Misses(RowTakenFrom(p)) PROVE NothingIsLost'
  <2>1. Store!Idle /\ (\A q \in Paths : Settled(q) => Settled(q)')
        /\ (~Listening' => \A q \in Paths : Settled(q)')
    BY <1>3, AddedFile
  <2> QED
    BY <1>2, <2>1, IdleLosesNothing
<1>4. ASSUME NEW p \in Paths, Store!RemoveFile(p), Misses({p}) PROVE NothingIsLost'
  <2>1. Store!DeleteRow(p) /\ Store!Idle /\ UNCHANGED disk
    BY <1>4 DEF Store!RemoveFile
  <2>2. \A q \in Paths \ {p} : TextAt(q)' = TextAt(q)
    BY <2>1, DeletedPaths DEF IInv
  <2>3. /\ ~Listening' => \A q \in Paths : Settled(q)'
        /\ \A q \in Paths : q \in missed \cup {p} => Settled(q)'
    BY <1>4, MissedPaths DEF IInv, TypeOK
  <2>4. \A q \in Paths : Settled(q) => Settled(q)'
    BY <2>1, <2>2, <2>3 DEF Settled, Current, TextAt
  <2> QED
    BY <1>2, <2>1, <2>3, <2>4, IdleLosesNothing
<1>5. CASE Store!StartSync /\ UNCHANGED missed
  <2>1. Store!BeginScan /\ UNCHANGED <<disk, pathOf, textOf, renames, deletions, upserts>>
    BY <1>5 DEF Store!StartSync, Store!rows, Store!plan
  <2>2. \A q \in Paths : Settled(q) => Settled(q)'
    BY <1>5, <2>1, SameRowsSameTexts DEF Settled, Current, Store!Indexed, Store!DocumentFor
  <2> QED
    BY <1>1, <1>2, <2>1, <2>2, BeginScanLosesNothing DEF IInv
<1>6. CASE Store!Rebuild /\ Misses({})
  <2>1. Store!BeginScan /\ UNCHANGED <<renames, deletions, upserts>>
    BY <1>6 DEF Store!Rebuild, Store!plan
  <2>2. ~Listening' => \A q \in Paths : Settled(q)'
    BY <1>6, MissedPaths DEF IInv, TypeOK
  <2> QED
    BY <1>1, <1>2, <2>1, <2>2, BeginScanLosesNothing
<1> QED
  BY <1>3, <1>4, <1>5, <1>6 DEF HostCalls

(* Who listens will hear of every file that changed.                       *)
LEMMA FilesChangeLosesNothing == ASSUME IInv, FilesChange PROVE NothingIsLost'
<1>1. UNCHANGED <<pathOf, textOf, phase, unvisited, found, renames, deletions, upserts,
                  watch, pending, timer, stream, consumer, taken>>
  BY DEF FilesChange, Store!DiskChanges, Store!rows, Store!plan, debounce, handling
<1>2. Listening => events' = events \cup {q \in Paths : disk'[q] # disk[q]}
  BY DEF FilesChange
<1>3. HandlingIsOrderly' /\ (Listening' <=> Listening)
  BY <1>1 DEF IInv, HandlingIsOrderly, Syncing, Listening
<1>4. \A q \in Paths : (Store!Indexed(q)' <=> Store!Indexed(q)) /\ TextAt(q)' = TextAt(q)
  BY <1>1, SameRowsSameTexts
<1>5. PlanIsOrderly'
  BY <1>1, <1>4 DEF IInv, PlanIsOrderly, TypeOK, Store!TypeOK
<1>6. /\ ~Listening' => \A q \in Paths : Settled(q)'
      /\ \A q \in Paths : q \in missed => Settled(q)'
  BY MissedPaths DEF FilesChange, IInv, TypeOK
<1>7. ASSUME Listening, NEW q \in Paths
      PROVE  /\ Reported(q) => Reported(q)'
             /\ Waiting(q) => Waiting(q)'
             /\ disk'[q] # disk[q] => Reported(q)' /\ Waiting(q)'
             /\ disk'[q] = disk[q] => (Settled(q) => Settled(q)')
  <2>1. Reported(q) => Reported(q)'
    BY <1>1, <1>2, <1>7 DEF Reported
  <2>2. disk'[q] # disk[q] => Reported(q)'
    BY <1>2, <1>7 DEF Reported
  <2>3. disk'[q] = disk[q] => (Settled(q) => Settled(q)')
    BY <1>4, <1>6 DEF Settled, Current, TextAt
  <2> QED
    BY <1>1, <2>1, <2>2, <2>3 DEF Waiting
<1>8. ASSUME Listening, phase = "applying" PROVE PlanIsRight'
  <2>1. ASSUME NEW q \in Paths, PlanSettles(q), disk'[q] = disk[q] PROVE PlanSettles(q)'
    <3>1. \A r \in renames : r[1] \in Paths
      BY DEF IInv, TypeOK, Store!TypeOK
    <3>2. PlanMentions(q)' => PlanMentions(q)
      BY <1>1 DEF PlanMentions
    <3> QED
      BY <1>1, <1>4, <1>7, <1>8, <2>1, <3>1, <3>2, PlanKeepsSettling
  <2> QED
    BY <1>7, <1>8, <2>1 DEF IInv, ListenersMissNothing, PlanIsRight
<1>9. ASSUME Listening, phase = "scanning" PROVE WalkIsRight'
  BY <1>1, <1>7, <1>9 DEF IInv, ListenersMissNothing, WalkIsRight
<1>10. ASSUME Listening, phase = "idle" PROVE \A q \in Paths : (Waiting(q) \/ Settled(q))'
  BY <1>7, <1>10 DEF IInv, ListenersMissNothing
<1>11. Listening => GoneOrReported'
  BY <1>1, <1>7 DEF IInv, ListenersMissNothing, GoneOrReported, NextFile
<1> QED
  BY <1>1, <1>3, <1>5, <1>6, <1>8, <1>9, <1>10, <1>11 DEF NothingIsLost, ListenersMissNothing

LEMMA CrashLosesNothing == ASSUME IInv, Crash PROVE NothingIsLost'
<1>1. Store!Idle /\ ~Listening' /\ consumer' = "waiting" /\ HandlingIsOrderly'
  BY DEF Crash, Silence, Listening, HandlingIsOrderly, Store!Idle, Syncing
<1>2. \A q \in Paths : Settled(q)'
  BY <1>1, MissedPaths DEF Crash, IInv, TypeOK
<1> QED
  BY <1>1, <1>2, IdleLosesNothing

-----------------------------------------------------------------------------
(* The invariant, and the theorems.                                        *)

LEMMA InitHolds == ASSUME Init PROVE IInv
<1>1. Sync!IInv
  <2>1. Sync!Init
    BY DEF Init, Store!Init, Sync!Init, Store!NoPath, Sync!NoPath
  <2> QED
    BY <2>1, SyncAssumption, Sync!InitInv
<1>2. TypeOK
  BY <1>1, RowsAgree DEF Init, TypeOK, Sync!IInv
<1>3. HandlingIsOrderly /\ PlanIsOrderly /\ ~Listening
  BY DEF Init, Store!Init, HandlingIsOrderly, PlanIsOrderly, Listening, Syncing
<1>4. \A q \in Paths : Settled(q)
  BY PathsAreNumbers DEF Init, Store!Init, Settled, Current, Store!Indexed
<1> QED
  BY <1>1, <1>2, <1>3, <1>4 DEF IInv

LEMMA NextHolds == ASSUME IInv, [Next]_vars PROVE IInv'
<1>1. Sync!IInv'
  BY NextKeepsSync DEF IInv
<1>2. TypeOK'
  BY <1>1, NextKeepsTypes
<1>3. Consume => NothingIsLost'
  BY ReceiveLosesNothing, HandleBulkChangeLosesNothing, CheckFileLosesNothing,
     IngestFileLosesNothing, RemoveGoneFileLosesNothing DEF Consume
<1>4. Disturbance => NothingIsLost'
  BY FilesChangeLosesNothing, ReportIgnoredLosesNothing, ReportDroppedLosesNothing,
     StartStreamLosesNothing, StopWatchingLosesNothing, HostCallsLosesNothing,
     WalkFailsLosesNothing, CrashLosesNothing DEF Disturbance
<1>5. NothingIsLost'
  BY <1>3, <1>4, ReportLosesNothing, ElapseLosesNothing, FlushLosesNothing,
     BeginConsumingLosesNothing, SyncStepLosesNothing, SyncReturnsLosesNothing,
     StutterLosesNothing DEF Next
<1> QED
  BY <1>1, <1>2, <1>5 DEF IInv, NothingIsLost

LEMMA InvariantHolds == Spec => []IInv
<1>1. Init => IInv
  BY InitHolds
<1>2. IInv /\ [Next]_vars => IInv'
  BY NextHolds
<1> QED
  BY <1>1, <1>2, PTL DEF Spec

(* Every event in the stream and in the consumer's hands is one the        *)
(* watcher made: a nonempty set of the paths it watches, or a bulk event.  *)
THEOREM TypeCorrect == Spec => []TypeOK
<1>1. IInv => TypeOK
  BY DEF IInv
<1> QED
  BY <1>1, InvariantHolds, PTL

(* For every set of files and every burst threshold, wherever the index    *)
(* differs from the disk an event, a timer or a sync that has not returned *)
(* will make the store look, or a loss that the code accepts has hit it.   *)
THEOREM NoChangeIsForgotten == Spec => []ChangesAreOnTheirWay
<1>1. IInv => ChangesAreOnTheirWay
  <2> SUFFICES ASSUME IInv, NEW q \in Paths PROVE Current(q) \/ OnItsWay(q) \/ q \in missed
    BY DEF ChangesAreOnTheirWay
  <2>1. CASE Syncing
    BY <2>1 DEF OnItsWay
  <2>2. CASE ~Listening
    BY <2>2 DEF IInv, Settled
  <2>3. CASE Listening /\ ~Syncing
    <3>1. Waiting(q) \/ Settled(q)
      BY <2>3 DEF IInv, ListenersMissNothing, Syncing
    <3>2. Waiting(q) => OnItsWay(q)
      BY DEF Waiting, Reported, OnItsWay, IInv, HandlingIsOrderly
    <3> QED
      BY <3>1, <3>2 DEF Settled
  <2> QED
    BY <2>1, <2>2, <2>3
<1> QED
  BY <1>1, InvariantHolds, PTL

=============================================================================
