---------------------------- MODULE JobLifecycle ----------------------------
(***************************************************************************)
(* What the queue promises about a job, whatever the worker, the database  *)
(* rows and the restarts do: a single server takes one waiting job at a    *)
(* time, a job that is done stays done, a job that has failed comes back   *)
(* only when somebody asks for it.                                         *)
(***************************************************************************)
CONSTANT JobIds

VARIABLES waiting, current, done, failed

vars == <<waiting, current, done, failed>>

Init == waiting = {} /\ current = {} /\ done = {} /\ failed = {}

Submit(j) ==
    /\ j \notin waiting \cup current \cup done \cup failed
    /\ waiting' = waiting \cup {j}
    /\ UNCHANGED <<current, done, failed>>

Start(j) ==
    /\ current = {}
    /\ j \in waiting
    /\ current' = {j}
    /\ waiting' = waiting \ {j}
    /\ UNCHANGED <<done, failed>>

Succeed ==
    /\ current # {}
    /\ done' = done \cup current
    /\ current' = {}
    /\ UNCHANGED <<waiting, failed>>

GiveUp ==
    /\ current # {}
    /\ failed' = failed \cup current
    /\ current' = {}
    /\ UNCHANGED <<waiting, done>>

\* Another attempt: after an error, or after the server was interrupted.
PutBack ==
    /\ current # {}
    /\ waiting' = waiting \cup current
    /\ current' = {}
    /\ UNCHANGED <<done, failed>>

Resubmit(S) ==
    /\ failed' = failed \ S
    /\ waiting' = waiting \cup S
    /\ UNCHANGED <<current, done>>

Next ==
    \/ \E j \in JobIds : Submit(j) \/ Start(j)
    \/ Succeed \/ GiveUp \/ PutBack
    \/ \E S \in SUBSET failed : S # {} /\ Resubmit(S)

Spec == Init /\ [][Next]_vars
=============================================================================
