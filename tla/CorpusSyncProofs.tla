-------------------------- MODULE CorpusSyncProofs --------------------------
(***************************************************************************)
(* The safety of CorpusSync for every set of paths and texts.  Between the *)
(* moment a sync has made its plan and its end, neither the rows nor the   *)
(* files alone say anything: every file and every row is either settled or *)
(* has a pending entry of the plan that will settle it.  That is what the  *)
(* inductive invariant adds.                                               *)
(***************************************************************************)
EXTENDS CorpusSync, WellFoundedInduction, TLAPS

(* A row that exists, and only that, has a text. *)
RowsHaveText == \A d \in Paths : pathOf[d] = NoPath <=> textOf[d] = NoFile

NoPlanOutsideSync ==
    phase # "applying" => renames = {} /\ deletions = {} /\ upserts = {}

(* Pending renames have free and different targets, and are about          *)
(* different documents.                                                    *)
RenamesAreSafe ==
    /\ \A r \in renames : ~Indexed(r[2])
    /\ \A r, s \in renames : r[1] = s[1] \/ r[2] = s[2] => r = s

ScanIsComplete ==
    quiet /\ phase = "scanning" => found = {p \in Paths \ unvisited : disk[p] # NoFile}

(* Every file is settled or will be. *)
FilesAccounted ==
    \A p \in Paths : disk[p] # NoFile =>
        \/ p \in upserts
        \/ p \in displaced
        \/ \E r \in renames : r[2] = p
        \/ \E d \in Paths : pathOf[d] = p /\ textOf[d] = disk[p]

(* Every row is settled or will be. *)
RowsAccounted ==
    \A d \in Paths : pathOf[d] # NoPath =>
        \/ disk[pathOf[d]] = textOf[d]
        \/ pathOf[d] \in upserts \cup deletions
        \/ \E r \in renames : r[1] = pathOf[d]

(* A pending rename takes a row to a file of its content. *)
RenamesFollowContent ==
    \A r \in renames :
        /\ disk[r[1]] = NoFile
        /\ r[1] \notin deletions
        /\ Indexed(r[1])
        /\ \A d \in Paths : pathOf[d] = r[1] => textOf[d] = disk[r[2]]

DeletionsAreGone == \A p \in deletions : disk[p] = NoFile

(* A row is to be deleted although a new file has its content only if      *)
(* another row of that content is kept or about to be moved.               *)
DeletedHaveTwins ==
    \A d \in Paths : pathOf[d] \in deletions =>
        \A q \in Paths : disk[q] = textOf[d] /\ ~Indexed(q) =>
            \E e \in Paths \ {d} :
                /\ pathOf[e] # NoPath
                /\ textOf[e] = textOf[d]
                /\ disk[pathOf[e]] = textOf[d] \/ \E r \in renames : r[1] = pathOf[e]

QuietPlan ==
    /\ FilesAccounted
    /\ RowsAccounted
    /\ RenamesFollowContent
    /\ DeletionsAreGone
    /\ DeletedHaveTwins

IInv ==
    /\ TypeOK
    /\ PathsAreUnique
    /\ RowsHaveText
    /\ NoPlanOutsideSync
    /\ RenamesAreSafe
    /\ ScanIsComplete
    /\ quiet /\ phase = "applying" => QuietPlan

-----------------------------------------------------------------------------
(* Rows.                                                                   *)

(* Paths are numbered, so some path of a set comes first. *)
LEMMA SomePathIsFirst ==
    ASSUME NEW S \in SUBSET Paths, S # {}
    PROVE  \E p \in S : \A q \in S : p <= q
<1> DEFINE Less == {ss \in Nat \X Nat : ss[1] < ss[2]}
<1>1. S \subseteq Nat
  BY CorpusSyncAssumption
<1>2. IsWellFoundedOn(Less, Nat)
  BY NatLessThanWellFounded DEF OpToRel
<1>3. \E p \in S : \A q \in S : <<q, p>> \notin Less
  <2> HIDE DEF Less
  <2> QED
    BY <1>1, <1>2, WFMin
<1>4. \A p, q \in Nat : q < p => <<q, p>> \in Less
  OBVIOUS
<1> HIDE DEF Less
<1>5. PICK p \in S : \A q \in S : ~(q < p)
  BY <1>1, <1>3, <1>4
<1>6. \A q \in S : p <= q
  BY <1>1, <1>5
<1> QED
  BY <1>6

(* The row a file is written to, and that no other row is at its path.     *)
LEMMA RowForFile ==
    ASSUME PathsAreUnique, NEW p \in Paths
    PROVE  /\ DocumentFor(p) \in Paths
           /\ Indexed(p) => pathOf[DocumentFor(p)] = p
           /\ ~Indexed(p) => DocumentFor(p) = p
           /\ \A d \in Paths : pathOf[d] = p => d = DocumentFor(p)
<1>1. DocumentFor(p) \in Paths /\ (Indexed(p) => pathOf[DocumentFor(p)] = p)
  BY DEF DocumentFor, Indexed
<1>2. p # NoPath
  BY CorpusSyncAssumption
<1>3. ASSUME NEW d \in Paths, pathOf[d] = p
      PROVE  d = DocumentFor(p)
  BY <1>1, <1>2, <1>3 DEF PathsAreUnique, Indexed
<1> QED
  BY <1>1, <1>3 DEF DocumentFor

LEMMA WriteRowKeepsRows ==
    ASSUME TypeOK, PathsAreUnique, RowsHaveText,
           NEW p \in Paths, Readable(p), WriteRow(p), UNCHANGED disk
    PROVE  /\ pathOf' \in [Paths -> Paths \cup {NoPath}]
           /\ textOf' \in [Paths -> Texts \cup {NoFile}]
           /\ PathsAreUnique'
           /\ RowsHaveText'
           /\ pathOf'[DocumentFor(p)] = p
           /\ textOf'[DocumentFor(p)] = disk[p]
           /\ \A d \in Paths \ {DocumentFor(p)} :
                 pathOf'[d] = pathOf[d] /\ textOf'[d] = textOf[d]
<1> DEFINE row == DocumentFor(p)
<1>1. row \in Paths /\ \A d \in Paths : pathOf[d] = p => d = row
  BY RowForFile
<1>2. p # NoPath /\ disk[p] \in Texts /\ disk[p] # NoFile
  BY CorpusSyncAssumption DEF Readable
<1>3. pathOf' = [pathOf EXCEPT ![row] = p] /\ textOf' = [textOf EXCEPT ![row] = disk[p]]
  BY DEF WriteRow
<1> HIDE DEF row
<1>4. pathOf' \in [Paths -> Paths \cup {NoPath}] /\ textOf' \in [Paths -> Texts \cup {NoFile}]
  BY <1>1, <1>2, <1>3 DEF TypeOK
<1>5. pathOf'[row] = p /\ textOf'[row] = disk[p]
  BY <1>1, <1>3 DEF TypeOK
<1>6. \A d \in Paths \ {row} : pathOf'[d] = pathOf[d] /\ textOf'[d] = textOf[d]
  BY <1>3 DEF TypeOK
<1>7. PathsAreUnique'
  BY <1>1, <1>5, <1>6 DEF PathsAreUnique
<1>8. RowsHaveText'
  BY <1>1, <1>2, <1>5, <1>6 DEF RowsHaveText
<1> QED
  BY <1>4, <1>5, <1>6, <1>7, <1>8 DEF row

LEMMA DeleteRowKeepsRows ==
    ASSUME TypeOK, PathsAreUnique, RowsHaveText, NEW p \in Paths, DeleteRow(p)
    PROVE  /\ pathOf' \in [Paths -> Paths \cup {NoPath}]
           /\ textOf' \in [Paths -> Texts \cup {NoFile}]
           /\ PathsAreUnique'
           /\ RowsHaveText'
           /\ \A d \in Paths : pathOf[d] # p => pathOf'[d] = pathOf[d] /\ textOf'[d] = textOf[d]
           /\ \A d \in Paths : pathOf[d] = p => pathOf'[d] = NoPath /\ textOf'[d] = NoFile
<1>1. \A d \in Paths : pathOf[d] # p => pathOf'[d] = pathOf[d] /\ textOf'[d] = textOf[d]
  BY DEF DeleteRow
<1>2. \A d \in Paths : pathOf[d] = p => pathOf'[d] = NoPath /\ textOf'[d] = NoFile
  BY DEF DeleteRow
<1>3. pathOf' \in [Paths -> Paths \cup {NoPath}] /\ textOf' \in [Paths -> Texts \cup {NoFile}]
  BY DEF DeleteRow, TypeOK
<1>4. PathsAreUnique'
  BY <1>1, <1>2 DEF PathsAreUnique
<1>5. RowsHaveText'
  BY <1>1, <1>2 DEF RowsHaveText
<1> QED
  BY <1>1, <1>2, <1>3, <1>4, <1>5

(* Outside a sync the rows are all there is to say. *)
LEMMA IdleInv ==
    ASSUME disk' \in [Paths -> Texts \cup {NoFile, Unreadable}],
           pathOf' \in [Paths -> Paths \cup {NoPath}],
           textOf' \in [Paths -> Texts \cup {NoFile}],
           PathsAreUnique', RowsHaveText', Idle
    PROVE  IInv'
<1>1. TypeOK'
  BY DEF Idle, TypeOK
<1>2. NoPlanOutsideSync' /\ RenamesAreSafe' /\ ScanIsComplete' /\ ~quiet'
  BY DEF Idle, NoPlanOutsideSync, RenamesAreSafe, ScanIsComplete
<1> QED
  BY <1>1, <1>2 DEF IInv

LEMMA InitInv == Init => IInv
<1> SUFFICES ASSUME Init PROVE IInv
  OBVIOUS
<1>1. TypeOK
  BY DEF Init, TypeOK
<1>2. PathsAreUnique /\ RowsHaveText
  BY DEF Init, PathsAreUnique, RowsHaveText
<1>3. NoPlanOutsideSync /\ RenamesAreSafe /\ ScanIsComplete /\ ~quiet
  BY DEF Init, NoPlanOutsideSync, RenamesAreSafe, ScanIsComplete
<1> QED
  BY <1>1, <1>2, <1>3 DEF IInv

-----------------------------------------------------------------------------
(* Steps outside the application of a plan.                                *)

LEMMA FreeHasNoPlan ==
    ASSUME IInv, Free
    PROVE  renames = {} /\ deletions = {} /\ upserts = {}
BY DEF IInv, Free, SyncDone, NoPlanOutsideSync

LEMMA BeginScanInv ==
    ASSUME disk' \in [Paths -> Texts \cup {NoFile, Unreadable}],
           pathOf' \in [Paths -> Paths \cup {NoPath}],
           textOf' \in [Paths -> Texts \cup {NoFile}],
           PathsAreUnique', RowsHaveText', BeginScan,
           renames' = {}, deletions' = {}, upserts' = {}
    PROVE  IInv'
<1>1. TypeOK'
  BY DEF BeginScan, TypeOK
<1>2. NoPlanOutsideSync' /\ RenamesAreSafe'
  BY DEF NoPlanOutsideSync, RenamesAreSafe
<1>3. ScanIsComplete' /\ phase' # "applying"
  BY DEF BeginScan, ScanIsComplete
<1> QED
  BY <1>1, <1>2, <1>3 DEF IInv

LEMMA StartSyncInv == ASSUME IInv, StartSync PROVE IInv'
<1>1. PathsAreUnique' /\ RowsHaveText'
  BY DEF IInv, StartSync, rows, PathsAreUnique, RowsHaveText
<1>2. renames' = {} /\ deletions' = {} /\ upserts' = {}
  BY FreeHasNoPlan DEF StartSync, plan
<1> QED
  BY <1>1, <1>2, BeginScanInv DEF IInv, StartSync, rows, TypeOK

LEMMA RebuildInv == ASSUME IInv, Rebuild PROVE IInv'
<1>1. pathOf' \in [Paths -> Paths \cup {NoPath}] /\ textOf' \in [Paths -> Texts \cup {NoFile}]
  BY DEF Rebuild
<1>2. PathsAreUnique' /\ RowsHaveText'
  BY DEF Rebuild, PathsAreUnique, RowsHaveText
<1>3. renames' = {} /\ deletions' = {} /\ upserts' = {}
  BY FreeHasNoPlan DEF Rebuild, plan
<1> QED
  BY <1>1, <1>2, <1>3, BeginScanInv DEF IInv, Rebuild, TypeOK

LEMMA InterruptedInv == ASSUME IInv, Interrupted PROVE IInv'
<1>1. PathsAreUnique' /\ RowsHaveText'
  BY DEF IInv, Interrupted, rows, PathsAreUnique, RowsHaveText
<1> QED
  BY <1>1, IdleInv DEF IInv, Interrupted, rows, TypeOK

LEMMA AddFileInv == ASSUME IInv, NEW p \in Paths, AddFile(p) PROVE IInv'
BY WriteRowKeepsRows, IdleInv DEF IInv, AddFile, TypeOK

LEMMA RemoveFileInv == ASSUME IInv, NEW p \in Paths, RemoveFile(p) PROVE IInv'
BY DeleteRowKeepsRows, IdleInv DEF IInv, RemoveFile, TypeOK

(* A file that changes ends the quiet, and nothing else is about files.    *)
LEMMA DiskChangesInv == ASSUME IInv, DiskChanges PROVE IInv'
<1>1. UNCHANGED <<pathOf, textOf, phase, unvisited, found, renames, deletions, upserts>>
  BY DEF DiskChanges, rows, plan
<1>2. disk' \in [Paths -> Texts \cup {NoFile, Unreadable}]
  <2>1. disk \in [Paths -> Texts \cup {NoFile, Unreadable}]
    BY DEF IInv, TypeOK
  <2>2. CASE \E p \in Paths, t \in Texts \cup {NoFile, Unreadable} :
                disk' = [disk EXCEPT ![p] = t]
    BY <2>1, <2>2
  <2>3. CASE \E p, q \in Paths : disk' = [disk EXCEPT ![q] = disk[p], ![p] = NoFile]
    BY <2>1, <2>3
  <2> QED
    BY <2>2, <2>3 DEF DiskChanges
<1>3. quiet' = FALSE /\ displaced' = {}
  BY DEF DiskChanges
<1>4. TypeOK'
  BY <1>1, <1>2, <1>3 DEF IInv, TypeOK
<1>5. PathsAreUnique' /\ RowsHaveText' /\ NoPlanOutsideSync'
  BY <1>1 DEF IInv, PathsAreUnique, RowsHaveText, NoPlanOutsideSync
<1>6. RenamesAreSafe'
  BY <1>1 DEF IInv, RenamesAreSafe, Indexed
<1>7. ScanIsComplete'
  BY <1>3 DEF ScanIsComplete
<1> QED
  BY <1>3, <1>4, <1>5, <1>6, <1>7 DEF IInv

LEMMA VisitInv == ASSUME IInv, NEW p \in Paths, Visit(p) PROVE IInv'
<1>1. UNCHANGED <<disk, pathOf, textOf, phase, renames, deletions, upserts, quiet, displaced>>
  BY DEF Visit, rows, plan
<1>2. TypeOK'
  BY <1>1 DEF Visit, IInv, TypeOK
<1>3. PathsAreUnique' /\ RowsHaveText' /\ NoPlanOutsideSync'
  BY <1>1 DEF IInv, PathsAreUnique, RowsHaveText, NoPlanOutsideSync
<1>4. RenamesAreSafe'
  BY <1>1 DEF IInv, RenamesAreSafe, Indexed
<1>5. ScanIsComplete'
  BY <1>1 DEF IInv, TypeOK, Visit, ScanIsComplete
<1> QED
  BY <1>1, <1>2, <1>3, <1>4, <1>5 DEF IInv, Visit

-----------------------------------------------------------------------------
(* The plan.                                                               *)

(* Of several new files with one content one comes first, so a row that    *)
(* has the content of a new file has that of one in FirstOfContent.        *)
LEMMA ContentHasFirst ==
    ASSUME TypeOK, NEW q \in Appeared
    PROVE  \E p \in FirstOfContent : disk[p] = disk[q]
<1> DEFINE S == {p \in Appeared : disk[p] = disk[q]}
<1>1. S \in SUBSET Paths /\ S # {}
  BY DEF TypeOK, Appeared
<1>2. PICK p \in S : \A x \in S : p <= x
  BY <1>1, SomePathIsFirst
<1> QED
  BY <1>2 DEF FirstOfContent

(* The plan a quiet scan leads to accounts for every file and every row.   *)
LEMMA ReconcileInv == ASSUME IInv, Reconcile PROVE IInv'
<1>1. CASE Idle
  <2>1. UNCHANGED <<disk, pathOf, textOf>>
    BY DEF Reconcile, rows
  <2>2. PathsAreUnique' /\ RowsHaveText'
    BY <2>1 DEF IInv, PathsAreUnique, RowsHaveText
  <2> QED
    BY <1>1, <2>1, <2>2, IdleInv DEF IInv, TypeOK
<1>2. CASE ~Idle
  <2>1. PICK moved \in MovedSets :
          /\ renames' = Paired(moved)
          /\ deletions' = {pathOf[d] : d \in Vanished \ moved}
          /\ upserts' = UpsertsOf(moved)
    BY <1>2 DEF Reconcile
  <2>2. /\ phase = "scanning" /\ unvisited = {} /\ phase' = "applying" /\ found' = {}
        /\ UNCHANGED <<disk, pathOf, textOf, unvisited, quiet, displaced>>
    BY <1>2 DEF Reconcile, rows
  <2>3. /\ moved \subseteq Vanished
        /\ \A d \in moved : \E p \in FirstOfContent : disk[p] = textOf[d]
        /\ \A d \in Vanished : (\E p \in FirstOfContent : disk[p] = textOf[d])
                               => \E e \in moved : textOf[e] = textOf[d]
        /\ \A d, e \in moved : textOf[d] = textOf[e] => d = e
    BY DEF MovedSets
  <2>4. /\ FirstOfContent \subseteq Appeared
        /\ Appeared \subseteq found
        /\ found \subseteq Paths
        /\ Vanished \subseteq Paths
        /\ \A d \in Vanished : pathOf[d] \in Paths /\ pathOf[d] \notin found
    BY DEF FirstOfContent, Appeared, Vanished, IInv, TypeOK
  <2>5. \A r \in renames' :
          /\ r = <<r[1], r[2]>>
          /\ r[1] \in Paths /\ r[2] \in FirstOfContent
          /\ \E d \in moved : pathOf[d] = r[1] /\ textOf[d] = disk[r[2]]
    BY <2>1 DEF Paired
  <2>6. TypeOK'
    <3>1. renames' \subseteq Paths \X Paths
      BY <2>1, <2>4 DEF Paired
    <3>2. deletions' \subseteq Paths
      BY <2>1, <2>4
    <3>3. upserts' \subseteq Paths
      BY <2>1, <2>4 DEF UpsertsOf
    <3> QED
      BY <2>2, <3>1, <3>2, <3>3 DEF IInv, TypeOK
  <2>7. PathsAreUnique' /\ RowsHaveText' /\ NoPlanOutsideSync'
    BY <2>2 DEF IInv, PathsAreUnique, RowsHaveText, NoPlanOutsideSync
  <2>8. RenamesAreSafe'
    <3>1. \A r \in renames' : ~Indexed(r[2])'
      BY <2>2, <2>4, <2>5 DEF Appeared, Indexed
    <3>2. \A r, s \in renames' : r[2] = s[2] => r[1] = s[1]
      BY <2>3, <2>5
    <3>3. \A r, s \in renames' : r[1] = s[1] => r[2] = s[2]
      <4> SUFFICES ASSUME NEW r \in renames', NEW s \in renames', r[1] = s[1]
                   PROVE  r[2] = s[2]
        OBVIOUS
      <4>1. PICK d \in moved : pathOf[d] = r[1] /\ textOf[d] = disk[r[2]]
        BY <2>5
      <4>2. PICK e \in moved : pathOf[e] = s[1] /\ textOf[e] = disk[s[2]]
        BY <2>5
      <4>3. d = e
        <5>1. d \in Paths /\ e \in Paths /\ pathOf[d] # NoPath
          BY <2>3, <2>4, CorpusSyncAssumption
        <5>2. pathOf[d] = pathOf[e]
          BY <4>1, <4>2
        <5> QED
          BY <5>1, <5>2 DEF IInv, PathsAreUnique
      <4>4. r[2] <= s[2] /\ s[2] <= r[2]
        BY <2>5, <4>1, <4>2, <4>3 DEF FirstOfContent
      <4> QED
        BY <2>4, <2>5, <4>4, CorpusSyncAssumption
    <3> QED
      BY <2>5, <3>1, <3>2, <3>3 DEF RenamesAreSafe
  <2>9. ScanIsComplete'
    BY <2>2 DEF ScanIsComplete
  <2>10. ASSUME quiet' PROVE QuietPlan'
    <3>1. found = {p \in Paths : disk[p] # NoFile}
      BY <2>2, <2>10 DEF IInv, ScanIsComplete
    <3>2. \A d \in moved : \E r \in renames' : r[1] = pathOf[d] /\ disk[r[2]] = textOf[d]
      <4> SUFFICES ASSUME NEW d \in moved
                   PROVE  \E r \in renames' : r[1] = pathOf[d] /\ disk[r[2]] = textOf[d]
        OBVIOUS
      <4>1. PICK p \in FirstOfContent : disk[p] = textOf[d]
        BY <2>3
      <4>2. <<pathOf[d], p>> \in renames'
        BY <2>1, <2>3, <2>4, <4>1 DEF Paired
      <4> QED
        BY <4>1, <4>2
    <3>3. FilesAccounted'
      BY <2>1, <2>2, <3>1 DEF FilesAccounted, UpsertsOf
    <3>4. RowsAccounted'
      <4> SUFFICES ASSUME NEW d \in Paths, pathOf[d] # NoPath
                   PROVE  \/ pathOf[d] \in upserts' \cup deletions'
                          \/ \E r \in renames' : r[1] = pathOf[d]
        BY <2>2 DEF RowsAccounted
      <4>1. CASE pathOf[d] \in found
        <5>1. pathOf[d] \notin Appeared
          BY DEF Appeared, Indexed
        <5>2. \A r \in Paired(moved) : r[2] # pathOf[d]
          BY <2>1, <2>4, <2>5, <5>1
        <5> QED
          BY <2>1, <4>1, <5>2 DEF UpsertsOf
      <4>2. CASE pathOf[d] \notin found
        BY <2>1, <3>2, <4>2 DEF Vanished
      <4> QED
        BY <4>1, <4>2
    <3>5. RenamesFollowContent'
      <4> SUFFICES ASSUME NEW r \in renames'
                   PROVE  /\ disk[r[1]] = NoFile
                          /\ r[1] \notin deletions'
                          /\ Indexed(r[1])
                          /\ \A d \in Paths : pathOf[d] = r[1] => textOf[d] = disk[r[2]]
        BY <2>2 DEF RenamesFollowContent, Indexed
      <4>1. PICK d \in moved : pathOf[d] = r[1] /\ textOf[d] = disk[r[2]]
        BY <2>5
      <4>2. \A e \in Paths : pathOf[e] = r[1] => e = d
        BY <2>3, <2>4, <4>1, CorpusSyncAssumption DEF IInv, PathsAreUnique
      <4>3. disk[r[1]] = NoFile
        BY <2>3, <2>4, <3>1, <4>1
      <4>4. r[1] \notin deletions'
        BY <2>1, <2>4, <4>2
      <4> QED
        BY <2>3, <2>4, <4>1, <4>2, <4>3, <4>4 DEF Indexed
    <3>6. DeletionsAreGone'
      BY <2>1, <2>2, <2>4, <3>1 DEF DeletionsAreGone
    <3>7. DeletedHaveTwins'
      <4> SUFFICES ASSUME NEW d \in Paths, pathOf[d] \in deletions',
                          NEW q \in Paths, disk[q] = textOf[d], ~Indexed(q)
                   PROVE  \E e \in Paths \ {d} :
                             /\ pathOf[e] # NoPath
                             /\ textOf[e] = textOf[d]
                             /\ \E r \in renames' : r[1] = pathOf[e]
        BY <2>2 DEF DeletedHaveTwins, Indexed
      <4>1. pathOf[d] # NoPath
        BY <2>1, <2>4, CorpusSyncAssumption
      <4>2. d \in Vanished \ moved
        BY <2>1, <2>4, <4>1, CorpusSyncAssumption DEF IInv, PathsAreUnique
      <4>3. q \in Appeared
        BY <3>1, <4>1 DEF Appeared, IInv, RowsHaveText
      <4>4. PICK e \in moved : textOf[e] = textOf[d]
        BY <2>3, <4>2, <4>3, ContentHasFirst DEF IInv
      <4>5. e \in Paths \ {d} /\ pathOf[e] # NoPath
        BY <2>3, <2>4, <4>2, <4>4, CorpusSyncAssumption
      <4> QED
        BY <3>2, <4>4, <4>5
    <3> QED
      BY <3>3, <3>4, <3>5, <3>6, <3>7 DEF QuietPlan
  <2> QED
    BY <2>6, <2>7, <2>8, <2>9, <2>10 DEF IInv
<1> QED
  BY <1>1, <1>2

-----------------------------------------------------------------------------
(* The application of the plan.                                            *)

(* A rename takes its row to a free path, which settles both.              *)
LEMMA ApplyRenameInv == ASSUME IInv, ApplyRename PROVE IInv'
<1>1. PICK r \in renames :
        /\ pathOf' = [d \in Paths |-> IF pathOf[d] = r[1] THEN r[2] ELSE pathOf[d]]
        /\ renames' = renames \ {r}
  BY DEF ApplyRename
<1>2. /\ phase = "applying"
      /\ UNCHANGED <<disk, textOf, phase, unvisited, found, deletions, upserts, quiet, displaced>>
  BY DEF ApplyRename
<1>3. /\ r[1] \in Paths /\ r[2] \in Paths /\ r[1] # NoPath /\ r[2] # NoPath
      /\ \A d \in Paths : pathOf[d] # r[2]
      /\ r[1] # r[2] \/ \A d \in Paths : pathOf[d] # r[1]
  BY CorpusSyncAssumption DEF IInv, TypeOK, RenamesAreSafe, Indexed
<1>4. \A d \in Paths : /\ pathOf[d] = r[1] => pathOf'[d] = r[2]
                       /\ pathOf[d] # r[1] => pathOf'[d] = pathOf[d]
  BY <1>1
<1>5. TypeOK'
  BY <1>1, <1>2, <1>3 DEF IInv, TypeOK
<1>6. PathsAreUnique' /\ RowsHaveText' /\ NoPlanOutsideSync' /\ ScanIsComplete'
  <2>1. PathsAreUnique'
    BY <1>3, <1>4 DEF IInv, PathsAreUnique
  <2>2. RowsHaveText'
    BY <1>2, <1>3, <1>4 DEF IInv, RowsHaveText
  <2> QED
    BY <1>2, <2>1, <2>2 DEF NoPlanOutsideSync, ScanIsComplete
<1>7. \A s \in renames' : s \in renames /\ s[1] # r[1] /\ s[2] # r[2]
  BY <1>1 DEF IInv, RenamesAreSafe
<1>8. RenamesAreSafe'
  <2>1. \A s \in renames' : ~Indexed(s[2])'
    BY <1>4, <1>7 DEF IInv, RenamesAreSafe, Indexed
  <2>2. \A s, t \in renames' : s[1] = t[1] \/ s[2] = t[2] => s = t
    BY <1>7 DEF IInv, RenamesAreSafe
  <2> QED
    BY <2>1, <2>2 DEF RenamesAreSafe
<1>9. ASSUME quiet PROVE QuietPlan'
  <2>1. FilesAccounted /\ RowsAccounted /\ RenamesFollowContent /\ DeletionsAreGone /\ DeletedHaveTwins
    BY <1>2, <1>9 DEF IInv, QuietPlan
  <2>2. PICK mover \in Paths : pathOf[mover] = r[1] /\ textOf[mover] = disk[r[2]]
    BY <2>1 DEF RenamesFollowContent, Indexed
  <2>3. disk[r[1]] = NoFile /\ r[1] \notin deletions
    BY <2>1 DEF RenamesFollowContent
  <2>4. textOf[mover] # NoFile /\ pathOf'[mover] = r[2]
    BY <1>3, <1>4, <2>2 DEF IInv, RowsHaveText
  <2>5. r[2] \notin deletions
    BY <2>1, <2>2, <2>4 DEF DeletionsAreGone
  <2>6. \A d \in Paths : pathOf[d] = r[1] => d = mover
    BY <1>3, <2>2 DEF IInv, PathsAreUnique
  <2>7. FilesAccounted'
    <3> SUFFICES ASSUME NEW p \in Paths, disk[p] # NoFile
                 PROVE  \/ p \in upserts
                        \/ p \in displaced
                        \/ \E s \in renames' : s[2] = p
                        \/ \E d \in Paths : pathOf'[d] = p /\ textOf[d] = disk[p]
      BY <1>2 DEF FilesAccounted
    <3>1. CASE p = r[2]
      BY <2>2, <2>4, <3>1
    <3>2. CASE p # r[2]
      <4>1. CASE \E s \in renames : s[2] = p
        BY <1>1, <3>2, <4>1
      <4>2. CASE \E d \in Paths : pathOf[d] = p /\ textOf[d] = disk[p]
        BY <1>4, <2>3, <4>2
      <4> QED
        BY <2>1, <4>1, <4>2 DEF FilesAccounted
    <3> QED
      BY <3>1, <3>2
  <2>8. RowsAccounted'
    <3> SUFFICES ASSUME NEW d \in Paths, pathOf'[d] # NoPath
                 PROVE  \/ disk[pathOf'[d]] = textOf[d]
                        \/ pathOf'[d] \in upserts \cup deletions
                        \/ \E s \in renames' : s[1] = pathOf'[d]
      BY <1>2 DEF RowsAccounted
    <3>1. CASE d = mover
      BY <2>2, <2>4, <3>1
    <3>2. CASE d # mover
      <4>1. pathOf[d] # r[1] /\ pathOf'[d] = pathOf[d]
        BY <1>4, <2>6, <3>2
      <4> QED
        BY <1>1, <2>1, <4>1 DEF RowsAccounted
    <3> QED
      BY <3>1, <3>2
  <2>9. RenamesFollowContent'
    <3> SUFFICES ASSUME NEW s \in renames'
                 PROVE  /\ disk[s[1]] = NoFile
                        /\ s[1] \notin deletions
                        /\ \E d \in Paths : pathOf'[d] = s[1]
                        /\ \A d \in Paths : pathOf'[d] = s[1] => textOf[d] = disk[s[2]]
      BY <1>2 DEF RenamesFollowContent, Indexed
    <3>1. /\ disk[s[1]] = NoFile /\ s[1] \notin deletions
          /\ \E d \in Paths : pathOf[d] = s[1]
          /\ \A d \in Paths : pathOf[d] = s[1] => textOf[d] = disk[s[2]]
      BY <1>7, <2>1 DEF RenamesFollowContent, Indexed
    <3>2. s[1] # r[2] /\ s[1] # r[1]
      BY <1>3, <1>7, <3>1
    <3> QED
      BY <1>4, <3>1, <3>2
  <2>10. DeletionsAreGone'
    BY <1>2, <2>1 DEF DeletionsAreGone
  <2>11. DeletedHaveTwins'
    <3> SUFFICES ASSUME NEW d \in Paths, pathOf'[d] \in deletions,
                        NEW q \in Paths, disk[q] = textOf[d], \A e \in Paths : pathOf'[e] # q
                 PROVE  \E e \in Paths \ {d} :
                           /\ pathOf'[e] # NoPath
                           /\ textOf[e] = textOf[d]
                           /\ disk[pathOf'[e]] = textOf[d] \/ \E s \in renames' : s[1] = pathOf'[e]
      BY <1>2 DEF DeletedHaveTwins, Indexed
    <3>1. d # mover /\ pathOf[d] = pathOf'[d] /\ pathOf[d] \in deletions
      BY <1>4, <2>4, <2>5, <2>6
    <3>2. textOf[d] # NoFile
      <4>1. pathOf[d] # NoPath
        BY <3>1, CorpusSyncAssumption DEF IInv, TypeOK
      <4> QED
        BY <4>1 DEF IInv, RowsHaveText
    <3>3. ~Indexed(q)
      BY <1>4, <2>3, <3>2 DEF Indexed
    <3>4. PICK e \in Paths \ {d} :
            /\ pathOf[e] # NoPath
            /\ textOf[e] = textOf[d]
            /\ disk[pathOf[e]] = textOf[d] \/ \E s \in renames : s[1] = pathOf[e]
      BY <2>1, <3>1, <3>3 DEF DeletedHaveTwins
    <3>5. CASE e = mover
      BY <1>3, <2>2, <2>4, <3>4, <3>5
    <3>6. CASE e # mover
      BY <1>1, <1>4, <2>6, <3>4, <3>6
    <3> QED
      BY <3>5, <3>6
  <2> QED
    BY <2>7, <2>8, <2>9, <2>10, <2>11 DEF QuietPlan
<1> QED
  BY <1>2, <1>5, <1>6, <1>8, <1>9 DEF IInv

(* A deletion takes a row whose file is gone. *)
LEMMA ApplyDeletionInv == ASSUME IInv, ApplyDeletion PROVE IInv'
<1>1. PICK p \in deletions : DeleteRow(p) /\ deletions' = deletions \ {p}
  BY DEF ApplyDeletion
<1>2. /\ phase = "applying" /\ renames = {}
      /\ UNCHANGED <<disk, phase, unvisited, found, renames, upserts, quiet, displaced>>
  BY DEF ApplyDeletion
<1>3. p \in Paths /\ p # NoPath
  BY CorpusSyncAssumption DEF IInv, TypeOK
<1>4. /\ pathOf' \in [Paths -> Paths \cup {NoPath}]
      /\ textOf' \in [Paths -> Texts \cup {NoFile}]
      /\ PathsAreUnique'
      /\ RowsHaveText'
      /\ \A d \in Paths : pathOf[d] # p => pathOf'[d] = pathOf[d] /\ textOf'[d] = textOf[d]
      /\ \A d \in Paths : pathOf[d] = p => pathOf'[d] = NoPath /\ textOf'[d] = NoFile
  BY <1>1, <1>3, DeleteRowKeepsRows DEF IInv
<1>5. TypeOK'
  BY <1>1, <1>2, <1>4 DEF IInv, TypeOK
<1>6. NoPlanOutsideSync' /\ RenamesAreSafe' /\ ScanIsComplete'
  BY <1>2 DEF NoPlanOutsideSync, RenamesAreSafe, ScanIsComplete
<1>7. ASSUME quiet PROVE QuietPlan'
  <2>1. FilesAccounted /\ RowsAccounted /\ DeletionsAreGone /\ DeletedHaveTwins
    BY <1>2, <1>7 DEF IInv, QuietPlan
  <2>2. disk[p] = NoFile
    BY <1>1, <2>1 DEF DeletionsAreGone
  <2>3. FilesAccounted'
    BY <1>2, <1>4, <2>1, <2>2 DEF FilesAccounted
  <2>4. RowsAccounted'
    BY <1>1, <1>2, <1>4, <2>1 DEF RowsAccounted
  <2>5. RenamesFollowContent'
    BY <1>2 DEF RenamesFollowContent
  <2>6. DeletionsAreGone'
    BY <1>1, <1>2, <2>1 DEF DeletionsAreGone
  <2>7. DeletedHaveTwins'
    <3> SUFFICES ASSUME NEW d \in Paths, pathOf'[d] \in deletions',
                        NEW q \in Paths, disk[q] = textOf'[d], \A e \in Paths : pathOf'[e] # q
                 PROVE  \E e \in Paths \ {d} :
                           /\ pathOf'[e] # NoPath
                           /\ textOf'[e] = textOf'[d]
                           /\ disk[pathOf'[e]] = textOf'[d]
      BY <1>2 DEF DeletedHaveTwins, Indexed
    <3>1. pathOf'[d] # NoPath
      BY <1>1, CorpusSyncAssumption DEF IInv, TypeOK
    <3>2. pathOf[d] = pathOf'[d] /\ textOf'[d] = textOf[d] /\ pathOf[d] \in deletions
      BY <1>1, <1>4, <3>1
    <3>3. textOf[d] # NoFile
      BY <3>1, <3>2 DEF IInv, RowsHaveText
    <3>4. ~Indexed(q)
      BY <1>4, <2>2, <3>2, <3>3 DEF Indexed
    <3>5. PICK e \in Paths \ {d} :
            pathOf[e] # NoPath /\ textOf[e] = textOf[d] /\ disk[pathOf[e]] = textOf[d]
      BY <1>2, <2>1, <3>2, <3>4 DEF DeletedHaveTwins
    <3>6. pathOf[e] # p
      BY <2>2, <3>3, <3>5
    <3> QED
      BY <1>4, <3>2, <3>5, <3>6
  <2> QED
    BY <2>3, <2>4, <2>5, <2>6, <2>7 DEF QuietPlan
<1> QED
  BY <1>2, <1>4, <1>5, <1>6, <1>7 DEF IInv

(* An upsert settles its file; if it takes the row of another one, that    *)
(* file is displaced.                                                      *)
LEMMA ApplyUpsertInv == ASSUME IInv, ApplyUpsert PROVE IInv'
<1>1. /\ phase = "applying" /\ renames = {} /\ deletions = {}
      /\ disk' = disk
  BY DEF ApplyUpsert
<1>2. CASE Idle /\ UNCHANGED rows
  <2>1. PathsAreUnique' /\ RowsHaveText'
    BY <1>2 DEF IInv, rows, PathsAreUnique, RowsHaveText
  <2> QED
    BY <1>1, <1>2, <2>1, IdleInv DEF IInv, TypeOK, rows
<1>3. CASE ~(Idle /\ UNCHANGED rows)
  <2>1. PICK p \in upserts :
          /\ Readable(p)
          /\ WriteRow(p)
          /\ upserts' = upserts \ {p}
          /\ displaced' = (displaced \cup {pathOf[DocumentFor(p)]}) \ {p, NoPath}
          /\ UNCHANGED <<phase, unvisited, found, renames, deletions, quiet>>
    BY <1>3 DEF ApplyUpsert
  <2> DEFINE row == DocumentFor(p)
  <2>2. p \in Paths
    BY DEF IInv, TypeOK
  <2>3. row \in Paths /\ \A d \in Paths : pathOf[d] = p => d = row
    BY <2>2, RowForFile DEF IInv
  <2>4. /\ pathOf' \in [Paths -> Paths \cup {NoPath}]
        /\ textOf' \in [Paths -> Texts \cup {NoFile}]
        /\ PathsAreUnique'
        /\ RowsHaveText'
        /\ pathOf'[row] = p
        /\ textOf'[row] = disk[p]
        /\ \A d \in Paths \ {row} : pathOf'[d] = pathOf[d] /\ textOf'[d] = textOf[d]
    BY <1>1, <2>1, <2>2, WriteRowKeepsRows DEF IInv
  <2>5. displaced' = (displaced \cup {pathOf[row]}) \ {p, NoPath}
    BY <2>1
  <2> HIDE DEF row
  <2>6. TypeOK'
    <3>1. displaced' \subseteq Paths
      BY <2>3, <2>5 DEF IInv, TypeOK
    <3> QED
      BY <1>1, <2>1, <2>4, <3>1 DEF IInv, TypeOK
  <2>7. NoPlanOutsideSync' /\ RenamesAreSafe' /\ ScanIsComplete'
    BY <1>1, <2>1 DEF NoPlanOutsideSync, RenamesAreSafe, ScanIsComplete
  <2>8. ASSUME quiet PROVE QuietPlan'
    <3>1. FilesAccounted /\ RowsAccounted
      BY <1>1, <2>8 DEF IInv, QuietPlan
    <3>2. FilesAccounted'
      <4> SUFFICES ASSUME NEW q \in Paths, disk[q] # NoFile
                   PROVE  \/ q \in upserts'
                          \/ q \in displaced'
                          \/ \E d \in Paths : pathOf'[d] = q /\ textOf'[d] = disk[q]
        BY <1>1 DEF FilesAccounted
      <4>1. CASE q = p
        BY <2>3, <2>4, <4>1
      <4>2. CASE q # p
        <5>0. q # NoPath
          BY CorpusSyncAssumption
        <5>1. CASE \E d \in Paths : pathOf[d] = q /\ textOf[d] = disk[q]
          <6>1. PICK d \in Paths : pathOf[d] = q /\ textOf[d] = disk[q]
            BY <5>1
          <6>2. CASE d = row
            BY <2>5, <4>2, <5>0, <6>1, <6>2
          <6>3. CASE d # row
            BY <2>4, <6>1, <6>3
          <6> QED
            BY <6>2, <6>3
        <5>2. CASE q \in upserts \/ q \in displaced
          BY <2>1, <2>5, <4>2, <5>0, <5>2
        <5> QED
          BY <1>1, <3>1, <5>1, <5>2 DEF FilesAccounted
      <4> QED
        BY <4>1, <4>2
    <3>3. RowsAccounted'
      <4> SUFFICES ASSUME NEW d \in Paths, pathOf'[d] # NoPath
                   PROVE  disk[pathOf'[d]] = textOf'[d] \/ pathOf'[d] \in upserts'
        BY <1>1 DEF RowsAccounted
      <4>1. CASE d = row
        BY <2>4, <4>1
      <4>2. CASE d # row
        BY <1>1, <2>1, <2>3, <2>4, <3>1, <4>2 DEF RowsAccounted
      <4> QED
        BY <4>1, <4>2
    <3>4. RenamesFollowContent' /\ DeletionsAreGone' /\ DeletedHaveTwins'
      BY <1>1, <2>1 DEF RenamesFollowContent, DeletionsAreGone, DeletedHaveTwins
    <3> QED
      BY <3>2, <3>3, <3>4 DEF QuietPlan
  <2> QED
    BY <1>1, <2>1, <2>4, <2>6, <2>7, <2>8 DEF IInv
<1> QED
  BY <1>2, <1>3

-----------------------------------------------------------------------------
(* The invariant.                                                          *)

LEMMA NextInv == ASSUME IInv, [Next]_vars PROVE IInv'
<1>1. CASE StartSync
  BY <1>1, StartSyncInv
<1>2. CASE SyncStep
  BY <1>2, VisitInv, ReconcileInv, ApplyRenameInv, ApplyDeletionInv, ApplyUpsertInv DEF SyncStep
<1>3. CASE Disturbance
  BY <1>3, DiskChangesInv, AddFileInv, RemoveFileInv, RebuildInv, InterruptedInv DEF Disturbance
<1>4. CASE UNCHANGED vars
  BY <1>4 DEF IInv, vars, rows, plan, TypeOK, PathsAreUnique, RowsHaveText, NoPlanOutsideSync,
     RenamesAreSafe, Indexed, ScanIsComplete, QuietPlan, FilesAccounted, RowsAccounted,
     RenamesFollowContent, DeletionsAreGone, DeletedHaveTwins
<1> QED
  BY <1>1, <1>2, <1>3, <1>4 DEF Next

LEMMA InvariantHolds == Spec => []IInv
<1>1. Init => IInv
  BY InitInv
<1>2. IInv /\ [Next]_vars => IInv'
  BY NextInv
<1> QED
  BY <1>1, <1>2, PTL DEF Spec

(* Every variable of the sync keeps its type, whatever the disk does and   *)
(* wherever the process dies.                                              *)
THEOREM TypeCorrect == Spec => []TypeOK
<1>1. IInv => TypeOK
  BY DEF IInv
<1> QED
  BY <1>1, InvariantHolds, PTL

(* No sync runs into the UNIQUE constraint on relative_path, however files *)
(* move under it: renames only ever go to free paths.                      *)
THEOREM UniqueConstraintNeverBites == Spec => []PathsAreUnique
<1>1. IInv => PathsAreUnique
  BY DEF IInv
<1> QED
  BY <1>1, InvariantHolds, PTL

(* A sync over a quiet disk leaves no stale and no orphaned row, and no    *)
(* file without a row but those whose row it gave away.                    *)
THEOREM QuietSyncIsExact == Spec => []QuietSyncIndexesCorpus
<1>1. IInv => QuietSyncIndexesCorpus
  <2> SUFFICES ASSUME IInv, SyncDone, quiet
               PROVE  /\ \A d \in Paths : pathOf[d] # NoPath => disk[pathOf[d]] = textOf[d]
                      /\ \A p \in Paths : disk[p] # NoFile => Indexed(p) \/ p \in displaced
    BY DEF QuietSyncIndexesCorpus
  <2>1. FilesAccounted /\ RowsAccounted /\ renames = {} /\ deletions = {} /\ upserts = {}
    BY DEF IInv, SyncDone, QuietPlan
  <2> QED
    BY <2>1 DEF FilesAccounted, RowsAccounted, Indexed
<1> QED
  BY <1>1, InvariantHolds, PTL

(* A quiet sync moves a row only along with its content or back to the     *)
(* path it is named after, and deletes one only when no file needs it.     *)
THEOREM SyncLosesNoDocument == Spec => SyncKeepsDocuments
<1> DEFINE Leaves(d) == pathOf[d] \notin {NoPath, pathOf'[d]}
           Keeps(d) ==
             \/ pathOf'[d] = d /\ Readable(d)
             \/ /\ disk[pathOf[d]] = NoFile
                /\ pathOf'[d] # NoPath
                /\ disk[pathOf'[d]] = textOf[d]
             \/ /\ disk[pathOf[d]] = NoFile
                /\ pathOf'[d] = NoPath
                /\ \A q \in Paths : disk[q] = textOf[d] /\ ~Indexed(q) =>
                       \E e \in Paths \ {d} : pathOf[e] # NoPath
                                              /\ textOf[e] = textOf[d]
                                              /\ disk[pathOf[e]] = textOf[d]
<1>1. ASSUME IInv, Next, quiet', phase' = "applying", NEW d \in Paths, Leaves(d)
      PROVE  Keeps(d)
  <2>1. CASE ApplyRename
    <3>1. PICK r \in renames :
            pathOf' = [e \in Paths |-> IF pathOf[e] = r[1] THEN r[2] ELSE pathOf[e]]
      BY <2>1 DEF ApplyRename
    <3>2. QuietPlan
      BY <1>1, <2>1 DEF ApplyRename, IInv
    <3>3. pathOf[d] = r[1] /\ pathOf'[d] = r[2] /\ r[2] # NoPath
      BY <1>1, <3>1, CorpusSyncAssumption DEF IInv, TypeOK
    <3> QED
      BY <3>2, <3>3 DEF QuietPlan, RenamesFollowContent
  <2>2. CASE ApplyDeletion
    <3>1. PICK p \in deletions : DeleteRow(p)
      BY <2>2 DEF ApplyDeletion
    <3>2. QuietPlan /\ renames = {}
      BY <1>1, <2>2 DEF ApplyDeletion, IInv
    <3>3. pathOf[d] = p /\ pathOf'[d] = NoPath
      BY <1>1, <3>1 DEF DeleteRow
    <3> QED
      BY <3>2, <3>3 DEF QuietPlan, DeletionsAreGone, DeletedHaveTwins
  <2>3. CASE ApplyUpsert
    <3>1. PICK p \in upserts : Readable(p) /\ WriteRow(p)
      BY <1>1, <2>3 DEF ApplyUpsert, Idle
    <3>2. p \in Paths
      BY <1>1 DEF IInv, TypeOK
    <3>3. /\ pathOf'[DocumentFor(p)] = p
          /\ \A e \in Paths \ {DocumentFor(p)} : pathOf'[e] = pathOf[e]
      BY <1>1, <2>3, <3>1, <3>2, WriteRowKeepsRows DEF IInv, ApplyUpsert
    <3>4. d = DocumentFor(p) /\ pathOf[d] # p
      BY <1>1, <3>3
    <3>5. d = p
      BY <1>1, <3>2, <3>4, RowForFile DEF IInv
    <3> QED
      BY <3>1, <3>3, <3>4, <3>5
  <2>4. CASE UNCHANGED pathOf
    BY <1>1, <2>4
  <2>5. CASE Reconcile \/ StartSync \/ \E p \in Paths : Visit(p)
    BY <2>4, <2>5 DEF Reconcile, StartSync, Visit, rows
  <2>6. CASE Disturbance
    BY <1>1, <2>6 DEF Disturbance, DiskChanges, AddFile, RemoveFile, Rebuild, Interrupted,
       BeginScan, Idle
  <2> QED
    BY <1>1, <2>1, <2>2, <2>3, <2>5, <2>6 DEF Next, SyncStep
<1>2. IInv /\ [Next]_vars =>
        [quiet' /\ phase' = "applying" => \A d \in Paths : Leaves(d) => Keeps(d)]_vars
  BY <1>1
<1> QED
  BY <1>2, InvariantHolds, PTL DEF Spec, SyncKeepsDocuments

=============================================================================
