---------------------------- MODULE VectorTable ----------------------------
(***************************************************************************)
(* What a vec0 table promises: it is a table.  A row, once written under   *)
(* an id, reads back as it was written until it is updated or deleted,     *)
(* whatever happens to other rows, and a transaction that fails or is      *)
(* rolled back leaves no trace.  Vec0 is the chunked storage behind it.    *)
(***************************************************************************)
CONSTANTS
    Ids,     \* primary keys
    Rows     \* rows, records whose field "part" is the partition key

VARIABLES
    committed,  \* the table as other connections see it, a function from ids
    working,    \* the table as the writing transaction sees it
    txn         \* the writing transaction: "none", "open" or "failed"

vars == <<committed, working, txn>>

Empty == [id \in {} |-> {}]

Without(table, id) == [i \in DOMAIN table \ {id} |-> table[i]]

Init == committed = Empty /\ working = Empty /\ txn = "none"

Statement ==
    /\ txn # "failed"
    /\ txn' = "open"
    /\ UNCHANGED committed

(* A statement about one row leaves every other row as it is. *)
Write(id) == Statement /\ Without(working', id) = Without(working, id)

Insert(id) ==
    /\ id \notin DOMAIN working
    /\ id \in DOMAIN working'
    /\ working'[id] \in Rows
    /\ Write(id)

Delete(id) ==
    /\ id \in DOMAIN working
    /\ id \notin DOMAIN working'
    /\ Write(id)

(* A row stays in its partition. *)
Update(id) ==
    /\ id \in DOMAIN working
    /\ id \in DOMAIN working'
    /\ working'[id] \in {row \in Rows : row.part = working[id].part}
    /\ Write(id)

(* DROP TABLE and CREATE VIRTUAL TABLE. *)
Recreate == Statement /\ working' = Empty

(* A failed statement dooms its transaction. *)
Fail ==
    /\ txn # "failed"
    /\ txn' = "failed"
    /\ working' = committed
    /\ UNCHANGED committed

Commit ==
    /\ txn = "open"
    /\ committed' = working
    /\ txn' = "none"
    /\ UNCHANGED working

Rollback ==
    /\ txn \in {"open", "failed"}
    /\ working' = committed
    /\ txn' = "none"
    /\ UNCHANGED committed

Next ==
    \/ \E id \in Ids : Insert(id) \/ Delete(id) \/ Update(id)
    \/ Recreate \/ Fail \/ Commit \/ Rollback

Spec == Init /\ [][Next]_vars
=============================================================================
