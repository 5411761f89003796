------------------------------ MODULE JobQueue ------------------------------
(***************************************************************************)
(* One row of the durable queue (the `jobs` table) and what each operation *)
(* of JobRepository does to it.  A row is addressed by its kind and target *)
(* chunk, which the table's UNIQUE constraint makes a key, so a module that *)
(* keeps rows in a function of (kind, chunk) needs only these operators.   *)
(*                                                                         *)
(* Abstracted: last_error and created_at (nothing branches on them), and   *)
(* next_after, of which only "the backoff has elapsed" is kept (`due`).    *)
(* Ids stand for AUTOINCREMENT row ids.  SQLite never reuses one; here an  *)
(* id may come back once nobody remembers it, which no reader can tell.    *)
(***************************************************************************)
EXTENDS Integers

CONSTANTS
    Ids,              \* identities of rows
    MaximumAttempts   \* RetryConfiguration.maximumAttempts

ASSUME JobQueueAssumption ==
    /\ Ids \subseteq Nat \ {0}
    /\ MaximumAttempts \in Nat \ {0}

NoId == 0

Row == [state    : {"none", "pending", "running", "failed"},
        id       : Ids \cup {NoId},
        attempts : Nat,
        due      : BOOLEAN]

(* No row for this (kind, target). *)
NoJob == [state |-> "none", id |-> NoId, attempts |-> 0, due |-> FALSE]

(* What a worker remembers of a job it claimed: a value of the Job struct, *)
(* captured when it was claimed and never refreshed.                       *)
Copy == [id : Ids \cup {NoId}, attempts : Nat]

NoCopy == [id |-> NoId, attempts |-> 0]

(* INSERT ... ON CONFLICT(kind, target_id) DO UPDATE: a row that exists     *)
(* keeps its id, whatever state it is in.                                  *)
Enqueued(row, freshId) ==
    [state    |-> "pending",
     id       |-> IF row.state = "none" THEN freshId ELSE row.id,
     attempts |-> 0,
     due      |-> TRUE]

Claimable(row) == row.state = "pending" /\ row.due

Claimed(row) == [row EXCEPT !.state = "running"]

CopyOf(row) == [id |-> row.id, attempts |-> row.attempts]

(* DELETE ... WHERE id = ?. *)
Completed(row, copy) == IF row.id = copy.id THEN NoJob ELSE row

(* Mutation of the next definition: a budget counted down.                 *)
AttemptsLeft(copy, isTransient) ==
    IF isTransient THEN copy.attempts ELSE copy.attempts - 1

(* The count starts from the captured job, not from the row.               *)
AttemptsAfter(copy, isTransient) ==
    IF isTransient THEN copy.attempts ELSE copy.attempts + 1

(* Mutation of the next definition: one attempt too many.                  *)
ExhaustedLate(attempts, isTransient) ==
    ~isTransient /\ attempts > MaximumAttempts

Exhausted(attempts, isTransient) ==
    ~isTransient /\ attempts >= MaximumAttempts

(* The row is found by id; a failure that is not the last one backs off.   *)
Failed(row, copy, isTransient) ==
    LET attempts  == AttemptsAfter(copy, isTransient)
        exhausted == Exhausted(attempts, isTransient)
    IN  IF row.id # copy.id THEN row
        ELSE [row EXCEPT !.state    = IF exhausted THEN "failed" ELSE "pending",
                         !.attempts = attempts,
                         !.due      = IF exhausted THEN @ ELSE FALSE]

(* Mutation of the next definition: the spent budget is not cleared.       *)
RetriedAsItWas(row) ==
    IF row.state = "failed" THEN [row EXCEPT !.state = "pending", !.due = TRUE] ELSE row

Retried(row) ==
    IF row.state = "failed"
    THEN [row EXCEPT !.state = "pending", !.attempts = 0, !.due = TRUE]
    ELSE row

(* Mutation of the next definition: abandoned work is dropped.             *)
ReclaimedByDeletion(row) == IF row.state = "running" THEN NoJob ELSE row

Reclaimed(row) ==
    IF row.state = "running" THEN [row EXCEPT !.state = "pending"] ELSE row

Discarded(row) == IF row.state = "failed" THEN NoJob ELSE row

=============================================================================
