------------------------------ MODULE JobTable ------------------------------
(***************************************************************************)
(* The `jobs` table of the queue and the statements JobRepository runs on  *)
(* it.  A row keeps the columns the queue reads or writes; payload and the *)
(* creation time are left out, an error text is "text" or "null", a        *)
(* timestamp is "set" or "null".  An id no INSERT has used yet holds the   *)
(* row NoRow, so the table is a function on all ids.                       *)
(***************************************************************************)
EXTENDS Naturals

CONSTANTS
    JobIds,      \* the ids the bigserial column can hand out
    Classes,     \* the values of jobs.queueable_class
    Registered,  \* the classes the worker's QueueRegistry knows
    Tries        \* triesCount of each class (0 stands for "not a positive number")

ASSUME JobTableAssumption ==
    /\ JobIds \subseteq Nat
    /\ Registered \subseteq Classes
    /\ Tries \in [Classes -> Nat]
    /\ "none" \notin Classes

Statuses == {"absent", "pending", "running", "done", "failed"}

Row == [status: Statuses, class: Classes \cup {"none"},
        error: {"null", "text"}, attempts: Nat,
        started_at: {"null", "set"}, finished_at: {"null", "set"}]

NoRow == [status |-> "absent", class |-> "none", error |-> "null",
          attempts |-> 0, started_at |-> "null", finished_at |-> "null"]

\* How often the worker runs a job of class c before it gives up:
\* Math.max(1, queueable.triesCount ?? 1).
MaxAttempts(c) == IF Tries[c] > 1 THEN Tries[c] ELSE 1

-----------------------------------------------------------------------------
(* Row images written by the statements.  An operator marked FAULTY is not *)
(* part of the model: it is the mistake a mutation run puts in the place   *)
(* of the operator that follows it.                                        *)

\* FAULTY: the status the API reports instead of the one the table knows.
InsertedAsQueued(c) == [NoRow EXCEPT !.status = "queued", !.class = c]

Inserted(c) == [NoRow EXCEPT !.status = "pending", !.class = c]

Claimed(r) == [r EXCEPT !.status = "running", !.started_at = "set",
                        !.attempts = r.attempts + 1]

MarkedDone(r) == [r EXCEPT !.status = "done", !.error = "null",
                           !.finished_at = "set"]

MarkedFailed(r) == [r EXCEPT !.status = "failed", !.error = "text",
                             !.finished_at = "set"]

\* FAULTY: started_at keeps the time of the attempt that failed.
MarkedForRetryStartKept(r) ==
    [r EXCEPT !.status = "pending", !.error = "text", !.finished_at = "null"]

MarkedForRetry(r) == [r EXCEPT !.status = "pending", !.error = "text",
                               !.started_at = "null", !.finished_at = "null"]

-----------------------------------------------------------------------------
(* Statements on the whole table.                                          *)

\* FAULTY: everything that is not done is put back.
RequeueUnfinished(T) ==
    [j \in JobIds |-> IF T[j].status \in {"running", "failed"}
                        THEN [T[j] EXCEPT !.status = "pending",
                                          !.started_at = "null"]
                        ELSE T[j]]

\* UPDATE ... WHERE status = 'running', run by every worker that starts.
RequeueRunning(T) ==
    [j \in JobIds |-> IF T[j].status = "running"
                        THEN [T[j] EXCEPT !.status = "pending",
                                          !.started_at = "null"]
                        ELSE T[j]]

\* UPDATE ... WHERE status = 'failed' [AND id = ...], the CLI's requeue.  All
\* columns but the class go back to what the INSERT wrote.
RequeueFailed(T, ids) ==
    [j \in JobIds |-> IF j \in ids /\ T[j].status = "failed"
                        THEN Inserted(T[j].class)
                        ELSE T[j]]

\* SELECT ... WHERE status = 'pending' FOR UPDATE SKIP LOCKED ORDER BY id:
\* what it ranges over, and the one row .first() takes.
Claimable(T, locked) == {j \in JobIds \ locked : T[j].status = "pending"}

IsNextPending(T, locked, j) ==
    /\ j \in Claimable(T, locked)
    /\ \A k \in Claimable(T, locked) : j <= k
=============================================================================
