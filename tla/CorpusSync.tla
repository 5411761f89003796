----------------------------- MODULE CorpusSync -----------------------------
(***************************************************************************)
(* How the `documents` table follows the files of the corpus: sync() walks *)
(* the roots, compares what it found with what is indexed, and applies the *)
(* difference, one transaction per document, while files go on changing    *)
(* under it and the process may die.  add, update, remove and rebuild act  *)
(* on the same rows; the store is an actor, so they never run inside a     *)
(* sync.                                                                   *)
(*                                                                         *)
(* A document is named after the path it was first indexed under and keeps *)
(* that name when a rename rewrites its path column.  Documents are        *)
(* therefore paths here: document d is DocumentID(relativePath: d).  Texts *)
(* stand for contents and for their hashes.                                *)
(***************************************************************************)
EXTENDS Integers

CONSTANTS
    Paths,       \* corpus-relative paths, numbered in sorted order
    Texts,       \* what a file may say
    NoFile,      \* nothing at a path
    Unreadable   \* a file that cannot be read or is not UTF-8

NoPath == 0

ASSUME CorpusSyncAssumption ==
    /\ Paths \subseteq Nat \ {NoPath}
    /\ NoFile \notin Texts
    /\ Unreadable \notin Texts \cup {NoFile}

VARIABLES
    disk,       \* what is at each path
    pathOf,     \* per document: documents.relative_path, NoPath for no row
    textOf,     \* per document: documents.content_hash
    phase,      \* how far the current or last sync is
    unvisited,  \* the paths the directory enumerator has yet to come to
    found,      \* the files it has yielded
    renames,    \* plan.renames still to apply, pairs <<from, to>>
    deletions,  \* plan.deletions still to apply
    upserts,    \* plan.upserts still to apply
    quiet,      \* history: only this sync has touched disk and rows since it began
    displaced   \* history: paths whose row this sync gave to another path

rows == <<pathOf, textOf>>
plan == <<renames, deletions, upserts>>
vars == <<disk, pathOf, textOf, phase, unvisited, found, plan, quiet, displaced>>

TypeOK ==
    /\ disk \in [Paths -> Texts \cup {NoFile, Unreadable}]
    /\ pathOf \in [Paths -> Paths \cup {NoPath}]
    /\ textOf \in [Paths -> Texts \cup {NoFile}]
    /\ phase \in {"idle", "scanning", "applying"}
    /\ unvisited \subseteq Paths
    /\ found \subseteq Paths
    /\ renames \subseteq Paths \X Paths
    /\ deletions \subseteq Paths
    /\ upserts \subseteq Paths
    /\ quiet \in BOOLEAN
    /\ displaced \subseteq Paths

Indexed(p) == \E d \in Paths : pathOf[d] = p

(* Mutation of the next definition: decoding never fails. *)
ReadableIfThere(p) == disk[p] # NoFile

Readable(p) == disk[p] \in Texts

SyncDone == phase = "applying" /\ renames = {} /\ deletions = {} /\ upserts = {}

(* The store's actor is not inside a sync. *)
Free == phase = "idle" \/ SyncDone

-----------------------------------------------------------------------------
(* One file or one row.                                                    *)

(* Mutation of the next definition: the path alone decides.                *)
MintedFor(p) == p

(* DocumentIngestor.ingest: by path lookup first, minted from the path only *)
(* when no document has that path.                                         *)
DocumentFor(p) ==
    IF Indexed(p) THEN CHOOSE d \in Paths : pathOf[d] = p ELSE p

(* INSERT ... ON CONFLICT(id) DO UPDATE: a row of that id moves here.  A    *)
(* byte-identical file takes the fast path, which leaves the same row.     *)
WriteRow(p) ==
    LET d == DocumentFor(p)
    IN  /\ pathOf' = [pathOf EXCEPT ![d] = p]
        /\ textOf' = [textOf EXCEPT ![d] = disk[p]]

(* Mutation of the next definition: the id is recomputed from the path.    *)
DeleteRowNamed(p) ==
    /\ pathOf' = [pathOf EXCEPT ![p] = NoPath]
    /\ textOf' = [textOf EXCEPT ![p] = NoFile]

(* The rows DocumentIngestor.remove(relativePath:) deletes.                *)
DeleteRow(p) ==
    /\ pathOf' = [d \in Paths |-> IF pathOf[d] = p THEN NoPath ELSE pathOf[d]]
    /\ textOf' = [d \in Paths |-> IF pathOf[d] = p THEN NoFile ELSE textOf[d]]

-----------------------------------------------------------------------------
(* sync().                                                                 *)

(* No sync is going on, and none has just ended. *)
Idle ==
    /\ phase' = "idle"
    /\ unvisited' = {} /\ found' = {}
    /\ renames' = {} /\ deletions' = {} /\ upserts' = {}
    /\ quiet' = FALSE
    /\ displaced' = {}

BeginScan ==
    /\ phase' = "scanning"
    /\ unvisited' = Paths
    /\ found' = {}
    /\ quiet' = TRUE
    /\ displaced' = {}

StartSync ==
    /\ Free
    /\ BeginScan
    /\ UNCHANGED <<disk, rows, plan>>

(* The walk comes to a path. *)
Visit(p) ==
    /\ phase = "scanning"
    /\ p \in unvisited
    /\ unvisited' = unvisited \ {p}
    /\ found' = IF disk[p] = NoFile THEN found ELSE found \cup {p}
    /\ UNCHANGED <<disk, rows, phase, plan, quiet, displaced>>

Vanished == {d \in Paths : pathOf[d] \notin found \cup {NoPath}}

Appeared == {p \in found : ~Indexed(p)}

(* appearedByHash: of several new files with one content, the first.       *)
FirstOfContent == {p \in Appeared : \A q \in Appeared : disk[q] = disk[p] => p <= q}

(* The documents paired with a new file: of those that vanished with one   *)
(* content, the first that fetchPathIndex returned, in no stated order.    *)
MovedSets ==
    LET Matched(d) == \E p \in FirstOfContent : disk[p] = textOf[d]
    IN  {S \in SUBSET Vanished :
            /\ \A d \in S : Matched(d)
            /\ \A d \in Vanished : Matched(d) => \E e \in S : textOf[e] = textOf[d]
            /\ \A d, e \in S : textOf[d] = textOf[e] => d = e}

(* Mutation of the next definition: a row is paired with any new file.     *)
PairedRegardless(moved) ==
    {r \in Paths \X FirstOfContent : \E d \in moved : pathOf[d] = r[1]}

Paired(moved) ==
    {r \in Paths \X FirstOfContent :
        \E d \in moved : pathOf[d] = r[1] /\ textOf[d] = disk[r[2]]}

(* Mutation of the next definition: only new files are ingested.           *)
UpsertsOfNew(moved) == Appeared \ {r[2] : r \in Paired(moved)}

UpsertsOf(moved) == found \ {r[2] : r \in Paired(moved)}

(* New files are hashed only when something vanished; one that cannot be   *)
(* read throws.  Hashing takes time, but a file that changes between two   *)
(* hashes might as well have changed before the first or after the last.   *)
Reconcile ==
    /\ phase = "scanning"
    /\ unvisited = {}
    /\ \/ /\ Vanished # {}
          /\ \E p \in Appeared : ~Readable(p)
          /\ Idle
       \/ /\ Vanished = {} \/ \A p \in Appeared : Readable(p)
          /\ \E moved \in MovedSets :
                /\ renames' = Paired(moved)
                /\ deletions' = {pathOf[d] : d \in Vanished \ moved}
                /\ upserts' = UpsertsOf(moved)
          /\ phase' = "applying"
          /\ found' = {}
          /\ UNCHANGED <<unvisited, quiet, displaced>>
    /\ UNCHANGED <<disk, rows>>

ApplyRename ==
    /\ phase = "applying"
    /\ \E r \in renames :
        /\ pathOf' = [d \in Paths |-> IF pathOf[d] = r[1] THEN r[2] ELSE pathOf[d]]
        /\ renames' = renames \ {r}
    /\ UNCHANGED <<disk, textOf, phase, unvisited, found, deletions, upserts, quiet, displaced>>

ApplyDeletion ==
    /\ phase = "applying"
    /\ renames = {}
    /\ \E p \in deletions :
        /\ DeleteRow(p)
        /\ deletions' = deletions \ {p}
    /\ UNCHANGED <<disk, phase, unvisited, found, renames, upserts, quiet, displaced>>

(* Files are ingested in sorted order; one that is gone or cannot be read  *)
(* ends the sync.                                                          *)
ApplyUpsert ==
    /\ phase = "applying"
    /\ renames = {} /\ deletions = {}
    /\ \E p \in upserts :
        /\ \A q \in upserts : p <= q
        /\ \/ /\ Readable(p)
              /\ WriteRow(p)
              /\ upserts' = upserts \ {p}
              /\ displaced' = (displaced \cup {pathOf[DocumentFor(p)]}) \ {p, NoPath}
              /\ UNCHANGED <<phase, unvisited, found, renames, deletions, quiet>>
           \/ /\ ~Readable(p)
              /\ Idle
              /\ UNCHANGED rows
    /\ UNCHANGED disk

(* The process dies, or the walk cannot read a root. *)
Interrupted ==
    /\ ~Free
    /\ Idle
    /\ UNCHANGED <<disk, rows>>

-----------------------------------------------------------------------------
(* The other operations, and the world.                                    *)

(* add, update, and the watcher's event for a file that exists. *)
AddFile(p) ==
    /\ Free
    /\ Readable(p)
    /\ WriteRow(p)
    /\ Idle
    /\ UNCHANGED disk

(* remove, and the watcher's event for a file that is gone. *)
RemoveFile(p) ==
    /\ Free
    /\ Indexed(p)
    /\ DeleteRow(p)
    /\ Idle
    /\ UNCHANGED disk

(* rebuild(): every row goes, then a sync. *)
Rebuild ==
    /\ Free
    /\ pathOf' = [d \in Paths |-> NoPath]
    /\ textOf' = [d \in Paths |-> NoFile]
    /\ BeginScan
    /\ UNCHANGED <<disk, plan>>

(* A file is created, edited, made unreadable, deleted, or moved. *)
DiskChanges ==
    /\ \/ \E p \in Paths, t \in Texts \cup {NoFile, Unreadable} :
              disk' = [disk EXCEPT ![p] = t]
       \/ \E p, q \in Paths :
              /\ disk[p] # NoFile
              /\ p # q
              /\ disk' = [disk EXCEPT ![q] = disk[p], ![p] = NoFile]
    /\ disk' # disk
    /\ quiet' = FALSE
    /\ displaced' = {}
    /\ UNCHANGED <<rows, phase, unvisited, found, plan>>

-----------------------------------------------------------------------------
Init ==
    /\ disk = [p \in Paths |-> NoFile]
    /\ pathOf = [d \in Paths |-> NoPath]
    /\ textOf = [d \in Paths |-> NoFile]
    /\ phase = "idle"
    /\ unvisited = {} /\ found = {}
    /\ renames = {} /\ deletions = {} /\ upserts = {}
    /\ quiet = FALSE
    /\ displaced = {}

(* What a sync does once it runs. *)
SyncStep ==
    \/ \E p \in Paths : Visit(p)
    \/ Reconcile
    \/ ApplyRename
    \/ ApplyDeletion
    \/ ApplyUpsert

Disturbance ==
    \/ DiskChanges
    \/ \E p \in Paths : AddFile(p) \/ RemoveFile(p)
    \/ Rebuild
    \/ Interrupted

Next == StartSync \/ SyncStep \/ Disturbance

Spec == Init /\ [][Next]_vars

(* A sync that was started goes on, and the host (a `kb sync`, a bulk      *)
(* event of the watcher) starts another one sooner or later.               *)
FairSpec == Spec /\ WF_vars(SyncStep) /\ WF_vars(StartSync)

-----------------------------------------------------------------------------
(* Properties.                                                             *)

(* No transaction of a sync, whatever the disk did since the walk, gives   *)
(* two documents one path, which the UNIQUE constraint would turn into an  *)
(* error that ends the sync.                                               *)
PathsAreUnique ==
    \A d, e \in Paths : pathOf[d] = pathOf[e] /\ pathOf[d] # NoPath => d = e

(* After a sync that ran while the disk was quiet every row says what its  *)
(* file says, and every file has a row, save those whose row that sync     *)
(* gave to a new file at the path the row is named after.                  *)
QuietSyncIndexesCorpus ==
    SyncDone /\ quiet =>
        /\ \A d \in Paths : pathOf[d] # NoPath => disk[pathOf[d]] = textOf[d]
        /\ \A p \in Paths : disk[p] # NoFile => Indexed(p) \/ p \in displaced

(* A quiet sync takes a document from its path only if the file is gone    *)
(* (it follows the content to a new path, or is deleted because no         *)
(* unindexed file has it that another document did not follow), or if the  *)
(* path it is named after has a file again.                                *)
SyncKeepsDocuments ==
    [][quiet' /\ phase' = "applying" => \A d \in Paths :
         pathOf[d] \notin {NoPath, pathOf'[d]} =>
             \/ pathOf'[d] = d /\ Readable(d)
             \/ /\ disk[pathOf[d]] = NoFile
                /\ pathOf'[d] # NoPath
                /\ disk[pathOf'[d]] = textOf[d]
             \/ /\ disk[pathOf[d]] = NoFile
                /\ pathOf'[d] = NoPath
                /\ \A q \in Paths : disk[q] = textOf[d] /\ ~Indexed(q) =>
                       \E e \in Paths \ {d} : pathOf[e] # NoPath
                                              /\ textOf[e] = textOf[d]
                                              /\ disk[pathOf[e]] = textOf[d]]_vars

(* Once files stop changing and can all be read, repeated syncs make the   *)
(* index say what the disk says: a displaced row is found again and the    *)
(* chain of displacements it may start comes to an end.                    *)
IndexConverges ==
    (<>[][~Disturbance]_vars /\ <>[](\A p \in Paths : disk[p] # Unreadable)) =>
        <>[](\A p \in Paths : disk[p] = IF Indexed(p) THEN textOf[DocumentFor(p)] ELSE NoFile)

=============================================================================
