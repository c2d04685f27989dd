---------------------------- MODULE QueueWorker -----------------------------
(***************************************************************************)
(* The job queue: QueueWorker processes claim rows of the `jobs` table and *)
(* run them, QueueService.dispatch inserts rows, the CLI command           *)
(* queue:requeue-failed puts failed rows back.                             *)
(*                                                                         *)
(* A worker process calls tick() once a second, whether or not the         *)
(* previous call has returned; each call is a member of Ticks with its own *)
(* control state, and `busy` is the only thing that keeps two calls of one *)
(* process apart.  Every await of tick() ends an action.  A statement that *)
(* reaches the database either fails without effect or commits and loses   *)
(* its reply: both look the same to the worker.                            *)
(***************************************************************************)
EXTENDS JobTable, FiniteSets

CONSTANTS
    Workers,      \* worker processes (docker-compose runs one)
    Ticks,        \* calls of tick() that can overlap
    Of,           \* the process a call belongs to
    Clis,         \* queue:requeue-failed --job-id commands that can overlap
    NoJob,        \* "no job id"
    MaxCrashes,   \* bound: process crashes
    MaxFaults,    \* bound: statements whose reply is an error
    MaxRequeues   \* bound: queue:requeue-failed commands

ASSUME QueueWorkerAssumption ==
    /\ Of \in [Ticks -> Workers]
    /\ NoJob \notin JobIds
    /\ MaxCrashes \in Nat /\ MaxFaults \in Nat /\ MaxRequeues \in Nat

VARIABLES
    jobs,      \* the committed contents of the table
    proc,      \* "down", "init" (inside onModuleInit) or "up", per process
    busy,      \* QueueWorker.busy, per process
    pc,        \* where a call of tick() waits
    held,      \* job.id in that call
    seen,      \* job.attempts in that call: what the claim returned
    cli,       \* the id a command found failed and is about to requeue
    crashes, faults, requeues   \* how much of each bound is used

vars == <<jobs, proc, busy, pc, held, seen, cli, crashes, faults, requeues>>
counters == <<crashes, faults, requeues>>

PcStates == {"off", "claiming", "selected", "handling", "finishing",
             "retrying", "failing"}

TypeOK ==
    /\ jobs \in [JobIds -> Row]
    /\ proc \in [Workers -> {"down", "init", "up"}]
    /\ busy \in [Workers -> {"no", "yes"}]
    /\ pc \in [Ticks -> PcStates]
    /\ held \in [Ticks -> JobIds \cup {NoJob}]
    /\ seen \in [Ticks -> Nat]
    /\ cli \in [Clis -> JobIds \cup {NoJob}]
    /\ crashes \in Nat /\ faults \in Nat /\ requeues \in Nat

Init ==
    /\ jobs = [j \in JobIds |-> NoRow]
    /\ proc = [w \in Workers |-> "down"]
    /\ busy = [w \in Workers |-> "no"]
    /\ pc = [t \in Ticks |-> "off"]
    /\ held = [t \in Ticks |-> NoJob]
    /\ seen = [t \in Ticks |-> 0]
    /\ cli = [c \in Clis |-> NoJob]
    /\ crashes = 0 /\ faults = 0 /\ requeues = 0

-----------------------------------------------------------------------------
(* Helpers                                                                 *)

\* FAULTY: the claim without FOR UPDATE.
NothingLocked == {}

\* Rows under the lock of an open claim transaction.
Locked == {held[t] : t \in {u \in Ticks : pc[u] = "selected"}}

\* A statement errs: it had its effect or it had none.
Fault(effect) ==
    /\ faults < MaxFaults
    /\ faults' = faults + 1
    /\ jobs' \in {jobs, effect}
    /\ UNCHANGED <<crashes, requeues>>

\* FAULTY: a return path that leaves busy set.
ReturnStaysBusy(t) ==
    /\ pc' = [pc EXCEPT ![t] = "off"]
    /\ held' = [held EXCEPT ![t] = NoJob]
    /\ seen' = [seen EXCEPT ![t] = 0]
    /\ UNCHANGED busy

\* The finally block: the call ends and the process is free again.
Return(t) ==
    /\ pc' = [pc EXCEPT ![t] = "off"]
    /\ held' = [held EXCEPT ![t] = NoJob]
    /\ seen' = [seen EXCEPT ![t] = 0]
    /\ busy' = [busy EXCEPT ![Of[t]] = "no"]

\* FAULTY: off by one, either way.
OnErrorOneMore(t) ==
    pc' = [pc EXCEPT ![t] =
             IF seen[t] <= MaxAttempts(jobs[held[t]].class) THEN "retrying"
                                                            ELSE "failing"]

OnErrorOneLess(t) ==
    pc' = [pc EXCEPT ![t] =
             IF seen[t] + 1 < MaxAttempts(jobs[held[t]].class) THEN "retrying"
                                                               ELSE "failing"]

\* The inner catch block: another attempt, or the last one has failed.
OnError(t) ==
    pc' = [pc EXCEPT ![t] =
             IF seen[t] < MaxAttempts(jobs[held[t]].class) THEN "retrying"
                                                           ELSE "failing"]

-----------------------------------------------------------------------------
(* The process                                                             *)

\* The container (re)starts: restart is "always".
Boot(w) ==
    /\ proc[w] = "down"
    /\ proc' = [proc EXCEPT ![w] = "init"]
    /\ UNCHANGED <<jobs, busy, pc, held, seen, cli, counters>>

\* onModuleInit puts back what is running; only then does the scheduler start
\* to call tick().
RequeueOnInit(w) ==
    /\ proc[w] = "init"
    /\ jobs' = RequeueRunning(jobs)
    /\ proc' = [proc EXCEPT ![w] = "up"]
    /\ UNCHANGED <<busy, pc, held, seen, cli, counters>>

\* An error in onModuleInit ends the process.
InitFails(w) ==
    /\ proc[w] = "init"
    /\ Fault(RequeueRunning(jobs))
    /\ proc' = [proc EXCEPT ![w] = "down"]
    /\ UNCHANGED <<busy, pc, held, seen, cli>>

\* The process dies: its calls and its memory are gone, an open claim
\* transaction rolls back, the rows it was running stay 'running'.
Crash(w) ==
    /\ proc[w] # "down"
    /\ crashes < MaxCrashes
    /\ crashes' = crashes + 1
    /\ proc' = [proc EXCEPT ![w] = "down"]
    /\ busy' = [busy EXCEPT ![w] = "no"]
    /\ pc' = [t \in Ticks |-> IF Of[t] = w THEN "off" ELSE pc[t]]
    /\ held' = [t \in Ticks |-> IF Of[t] = w THEN NoJob ELSE held[t]]
    /\ seen' = [t \in Ticks |-> IF Of[t] = w THEN 0 ELSE seen[t]]
    /\ UNCHANGED <<jobs, cli, faults, requeues>>

-----------------------------------------------------------------------------
(* tick()                                                                  *)

\* FAULTY: without the busy flag.
TickUnguarded(t) ==
    /\ proc[Of[t]] = "up"
    /\ pc[t] = "off"
    /\ busy' = [busy EXCEPT ![Of[t]] = "yes"]
    /\ pc' = [pc EXCEPT ![t] = "claiming"]
    /\ UNCHANGED <<jobs, proc, held, seen, cli, counters>>

\* A call that finds the process busy returns at once and changes nothing.
Tick(t) ==
    /\ proc[Of[t]] = "up"
    /\ pc[t] = "off"
    /\ busy[Of[t]] = "no"
    /\ busy' = [busy EXCEPT ![Of[t]] = "yes"]
    /\ pc' = [pc EXCEPT ![t] = "claiming"]
    /\ UNCHANGED <<jobs, proc, held, seen, cli, counters>>

ClaimNothing(t) ==
    /\ pc[t] = "claiming"
    /\ Claimable(jobs, Locked) = {}
    /\ Return(t)
    /\ UNCHANGED <<jobs, proc, cli, counters>>

ClaimSelect(t) ==
    /\ pc[t] = "claiming"
    /\ \E j \in JobIds :
         /\ IsNextPending(jobs, Locked, j)
         /\ held' = [held EXCEPT ![t] = j]
    /\ pc' = [pc EXCEPT ![t] = "selected"]
    /\ UNCHANGED <<jobs, proc, busy, seen, cli, counters>>

\* FAULTY: an unknown class returns before the row is settled.
ClaimCommitDropsUnknown(t) ==
    /\ pc[t] = "selected"
    /\ jobs' = [jobs EXCEPT ![held[t]] = Claimed(@)]
    /\ IF jobs[held[t]].class \in Registered
         THEN /\ seen' = [seen EXCEPT ![t] = jobs[held[t]].attempts + 1]
              /\ pc' = [pc EXCEPT ![t] = "handling"]
              /\ UNCHANGED <<busy, held>>
         ELSE Return(t)
    /\ UNCHANGED <<proc, cli, counters>>

\* The claim commits and returns the row; a class the registry does not know
\* fails without being run.
ClaimCommit(t) ==
    /\ pc[t] = "selected"
    /\ jobs' = [jobs EXCEPT ![held[t]] = Claimed(@)]
    /\ seen' = [seen EXCEPT ![t] = jobs[held[t]].attempts + 1]
    /\ pc' = [pc EXCEPT ![t] = IF jobs[held[t]].class \in Registered
                                 THEN "handling" ELSE "failing"]
    /\ UNCHANGED <<proc, busy, held, cli, counters>>

\* An error in the claim goes to the outer catch: the call ends.
ClaimFails(t) ==
    /\ \/ pc[t] = "claiming" /\ Fault(jobs)
       \/ pc[t] = "selected" /\ Fault([jobs EXCEPT ![held[t]] = Claimed(@)])
    /\ Return(t)
    /\ UNCHANGED <<proc, cli>>

\* queueable.handle(job) returns or throws; what it does meanwhile is the
\* business of AnalyzePipeline.
HandleReturns(t) ==
    /\ pc[t] = "handling"
    /\ pc' = [pc EXCEPT ![t] = "finishing"]
    /\ UNCHANGED <<jobs, proc, busy, held, seen, cli, counters>>

HandleThrows(t) ==
    /\ pc[t] = "handling"
    /\ OnError(t)
    /\ UNCHANGED <<jobs, proc, busy, held, seen, cli, counters>>

MarkDone(t) ==
    /\ pc[t] = "finishing"
    /\ held[t] \notin Locked
    /\ jobs' = [jobs EXCEPT ![held[t]] = MarkedDone(@)]
    /\ Return(t)
    /\ UNCHANGED <<proc, cli, counters>>

\* markDone is inside the inner try: its error counts as one of the handler.
MarkDoneFails(t) ==
    /\ pc[t] = "finishing"
    /\ held[t] \notin Locked
    /\ Fault([jobs EXCEPT ![held[t]] = MarkedDone(@)])
    /\ OnError(t)
    /\ UNCHANGED <<proc, busy, held, seen, cli>>

MarkForRetry(t) ==
    /\ pc[t] = "retrying"
    /\ held[t] \notin Locked
    /\ jobs' = [jobs EXCEPT ![held[t]] = MarkedForRetry(@)]
    /\ Return(t)
    /\ UNCHANGED <<proc, cli, counters>>

MarkFailed(t) ==
    /\ pc[t] = "failing"
    /\ held[t] \notin Locked
    /\ jobs' = [jobs EXCEPT ![held[t]] = MarkedFailed(@)]
    /\ Return(t)
    /\ UNCHANGED <<proc, cli, counters>>

\* An error of markForRetry or markFailed goes to the outer catch.
SaveFails(t) ==
    /\ held[t] \notin Locked
    /\ \/ pc[t] = "retrying" /\ Fault([jobs EXCEPT ![held[t]] = MarkedForRetry(@)])
       \/ pc[t] = "failing" /\ Fault([jobs EXCEPT ![held[t]] = MarkedFailed(@)])
    /\ Return(t)
    /\ UNCHANGED <<proc, cli>>

-----------------------------------------------------------------------------
(* Other clients of the table                                              *)

\* dispatch: an id is drawn from the sequence before the INSERT commits, so
\* rows may appear in any order of ids.
Dispatch(j, c) ==
    /\ jobs[j].status = "absent"
    /\ jobs' = [jobs EXCEPT ![j] = Inserted(c)]
    /\ UNCHANGED <<proc, busy, pc, held, seen, cli, counters>>

\* queue:requeue-failed --job-id j reads the row first ...
CliCheck(c, j) ==
    /\ cli[c] = NoJob
    /\ requeues < MaxRequeues
    /\ jobs[j].status = "failed"
    /\ cli' = [cli EXCEPT ![c] = j]
    /\ requeues' = requeues + 1
    /\ UNCHANGED <<jobs, proc, busy, pc, held, seen, crashes, faults>>

\* FAULTY: the update trusts what was read.
CliRequeueTrusting(c) ==
    /\ cli[c] # NoJob
    /\ jobs' = [jobs EXCEPT ![cli[c]] = Inserted(@.class)]
    /\ cli' = [cli EXCEPT ![c] = NoJob]
    /\ UNCHANGED <<proc, busy, pc, held, seen, counters>>

\* ... and updates it later, if it is failed still: another command may have put
\* it back meanwhile, and the worker may have run it.
CliRequeueOne(c) ==
    /\ cli[c] # NoJob
    /\ jobs' = RequeueFailed(jobs, {cli[c]})
    /\ cli' = [cli EXCEPT ![c] = NoJob]
    /\ UNCHANGED <<proc, busy, pc, held, seen, counters>>

CliRequeueAll ==
    /\ requeues < MaxRequeues
    /\ jobs' = RequeueFailed(jobs, JobIds)
    /\ requeues' = requeues + 1
    /\ UNCHANGED <<proc, busy, pc, held, seen, cli, crashes, faults>>

-----------------------------------------------------------------------------
TickStep(t) ==
    \/ ClaimNothing(t) \/ ClaimSelect(t) \/ ClaimCommit(t)
    \/ HandleReturns(t) \/ HandleThrows(t)
    \/ MarkDone(t) \/ MarkForRetry(t) \/ MarkFailed(t)

Next ==
    \/ \E w \in Workers : Boot(w) \/ RequeueOnInit(w) \/ InitFails(w) \/ Crash(w)
    \/ \E t \in Ticks : Tick(t) \/ ClaimFails(t) \/ MarkDoneFails(t)
                        \/ SaveFails(t) \/ TickStep(t)
    \/ \E j \in JobIds, c \in Classes : Dispatch(j, c)
    \/ \E c \in Clis : CliRequeueOne(c) \/ \E j \in JobIds : CliCheck(c, j)
    \/ CliRequeueAll

Spec == Init /\ [][Next]_vars

\* Fairness the deployment justifies: the container restarts, the timer keeps
\* calling tick(), the database answers and the handler returns.  Nothing is
\* assumed of clients, crashes and errors.
Fairness ==
    /\ \A w \in Workers : WF_vars(Boot(w)) /\ WF_vars(RequeueOnInit(w))
    /\ \A w \in Workers : WF_vars(\E t \in Ticks : Of[t] = w /\ Tick(t))
    /\ \A t \in Ticks : WF_vars(TickStep(t))

FairSpec == Spec /\ Fairness
-----------------------------------------------------------------------------
(* Properties                                                              *)

Active(t) == pc[t] # "off"
Status(j) == jobs[j].status
IdsWith(s) == {j \in JobIds : Status(j) = s}

\* "At most one job at a time runs in a worker process": the calls of tick()
\* that overlap never get past the busy flag together, whatever errors and
\* early returns the earlier calls took.
OneCallAtATime ==
    \A t, u \in Ticks : Of[t] = Of[u] /\ Active(t) /\ Active(u) => t = u

\* busy is set exactly while a call is under way: no return path leaves the
\* process busy for ever.
BusyMeansActive ==
    \A w \in Workers : busy[w] = "yes" <=> \E t \in Ticks : Of[t] = w /\ Active(t)

\* The job a call is running, or has finished running, is marked running in
\* the table until that call says otherwise: requeues by the CLI, inserts and
\* restarts never take it away (one worker).
HeldJobIsRunning ==
    \A t \in Ticks : pc[t] \in {"handling", "finishing"} =>
        Status(held[t]) = "running" /\ jobs[held[t]].attempts = seen[t]

\* While every worker is up, a row marked running is being run by some call,
\* but for as many as statements have failed: the claim or the save of a job
\* may be lost with its reply, and no other path leaves one behind that nobody
\* will ever finish.
Stranded ==
    {j \in IdsWith("running") :
       \A t \in Ticks : held[t] = j =>
         pc[t] \notin {"handling", "finishing", "retrying", "failing"}}

OnlyFaultsStrand ==
    (\A w \in Workers : proc[w] = "up") => Cardinality(Stranded) <= faults

\* The two timestamps and the error agree with the status, whatever sequence
\* of retries, requeues and restarts a row has been through.
StampsConsistent ==
    \A j \in JobIds :
      LET r == jobs[j] IN
        /\ r.status \in {"absent", "pending"} =>
              r.started_at = "null" /\ r.finished_at = "null"
        /\ r.status = "running" => r.started_at = "set" /\ r.finished_at = "null"
        /\ r.status \in {"done", "failed"} =>
              r.started_at = "set" /\ r.finished_at = "set"
        /\ r.status = "done" => r.error = "null"
        /\ r.status = "failed" => r.error = "text"

\* A job is claimed at most once more than triesCount for every crash: the
\* attempts spent in interrupted runs are counted, and nothing else gives a
\* job an attempt it is not entitled to.
AttemptsBounded ==
    \A j \in JobIds : Status(j) \in {"running", "done", "failed"} =>
        jobs[j].attempts \in 1 .. MaxAttempts(jobs[j].class) + crashes

\* The claim of a job counts an attempt even when its reply, or the worker,
\* is lost; only a known class is entitled to more than one attempt, and it
\* is given up only after the last one.
FailedOnlyAfterLastAttempt ==
    \A j \in IdsWith("failed") : jobs[j].class \in Registered =>
        jobs[j].attempts >= MaxAttempts(jobs[j].class)

\* An open claim transaction owns its row: no other call has it and no write
\* of another client changes it under the lock, not even that of a worker
\* whose job was taken away.
ClaimIsExclusive ==
    \A t \in Ticks : pc[t] = "selected" =>
        /\ Status(held[t]) = "pending"
        /\ \A u \in Ticks : pc[u] = "selected" /\ held[u] = held[t] => u = t

\* A job that is done stays done.
DoneIsFinal ==
    [][\A j \in JobIds : Status(j) = "done" => Status(j)' = "done"]_vars

\* With failing statements a done job may still change, but only while a
\* call is in doubt about it: that call saw an error of markDone and has not
\* yet given up its hold on the job.
DoneChangesOnlyInDoubt ==
    [][\A j \in JobIds : Status(j) = "done" /\ Status(j)' # "done" =>
         \E t \in Ticks : held[t] = j /\ pc[t] \in {"retrying", "failing"}]_vars

\* A failed job is never run again on the worker's own account: somebody has
\* asked for it with queue:requeue-failed.
FailedReturnsOnlyByRequeue ==
    [][\A j \in JobIds : Status(j) = "failed" /\ Status(j)' # "failed" =>
         /\ (\E c \in Clis : cli[c] = j /\ cli'[c] = NoJob) \/ requeues' > requeues
         /\ jobs[j]' = Inserted(jobs[j].class)]_vars

\* Every job that enters the queue is settled in the end, whatever restarts
\* and handler errors come in between, and no job waits for ever behind one
\* that keeps failing.
EveryJobSettles ==
    \A j \in JobIds : Status(j) \in {"pending", "running"}
                       ~> Status(j) \in {"done", "failed"}

\* The queue with one worker and a database that answers is the single server
\* of JobLifecycle: a row's status is the set its job is in.
Lifecycle == INSTANCE JobLifecycle WITH
    waiting <- IdsWith("pending"), current <- IdsWith("running"),
    done <- IdsWith("done"), failed <- IdsWith("failed")

ImplementsLifecycle == Lifecycle!Spec
=============================================================================
