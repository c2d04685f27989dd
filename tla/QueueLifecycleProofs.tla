------------------------ MODULE QueueLifecycleProofs ------------------------
(***************************************************************************)
(* What a step of the queue with one worker may do to a settled job, even  *)
(* when statements err.  Then the refinement: with a database whose        *)
(* statements do not err the queue implements JobLifecycle, for any number *)
(* of jobs, of overlapping calls of tick(), of crashes and of requeues.    *)
(***************************************************************************)
EXTENDS QueueWorkerProofs

-----------------------------------------------------------------------------
(* Settled jobs, with errors.                                              *)

\* Which rows a step writes, and who writes a row that is settled.
Writer(j) ==
    \/ jobs'[j] = jobs[j]
    \/ jobs[j].status \in {"absent", "pending", "running"}
    \/ jobs[j].status = "failed" /\ jobs'[j] = Inserted(jobs[j].class)
       /\ ((\E c \in Clis : cli[c] = j /\ cli'[c] = NoJob) \/ requeues' > requeues)
    \/ jobs[j].status = "done"
       /\ \E t \in Ticks : held[t] = j /\ pc[t] \in {"retrying", "failing"}

LEMMA CallWrites ==
    ASSUME WorkerInv, NEW j \in JobIds, NEW t \in Ticks,
           TickStep(t) \/ ClaimFails(t) \/ MarkDoneFails(t) \/ SaveFails(t)
    PROVE  Writer(j)
  <1>1. jobs \in [JobIds -> Row]
    BY DEF WorkerInv, SharedInv, TypeInv, TypeOK
  <1>2. jobs'[j] = jobs[j] \/ (j = held[t] /\ WithJob(t))
    BY <1>1 DEF TickStep, ClaimNothing, ClaimSelect, ClaimCommit, HandleReturns,
           HandleThrows, MarkDone, MarkForRetry, MarkFailed, ClaimFails, MarkDoneFails,
           SaveFails, Fault, WithJob
  <1>3. pc[t] = "selected" => jobs[held[t]].status = "pending"
    BY DEF WorkerInv, SharedInv, ClaimIsExclusive, Status
  <1>4. /\ pc[t] \in {"handling", "finishing"} => jobs[held[t]].status = "running"
        /\ pc[t] \in {"retrying", "failing"} => jobs[held[t]].status \in {"running", "done"}
    BY DEF WorkerInv, CallsInv
  <1>5. QED
    BY <1>2, <1>3, <1>4 DEF Writer, WithJob

LEMMA StepWrites ==
    ASSUME WorkerInv, [Next]_vars, NEW j \in JobIds
    PROVE  Writer(j)
  <1>1. jobs \in [JobIds -> Row] /\ requeues \in Nat /\ cli \in [Clis -> JobIds \cup {NoJob}]
    BY DEF WorkerInv, SharedInv, TypeInv, TypeOK
  <1>2. ASSUME NEW w \in Workers, Boot(w) \/ RequeueOnInit(w) \/ InitFails(w) \/ Crash(w)
        PROVE  Writer(j)
    <2>1. jobs' = jobs \/ jobs' = RequeueRunning(jobs)
      BY <1>2 DEF Boot, RequeueOnInit, InitFails, Crash, Fault
    <2>2. jobs[j].status # "running" => jobs'[j] = jobs[j]
      BY <1>1, <2>1, RequeueRunningTable
    <2>3. QED
      BY <2>2 DEF Writer
  <1>3. ASSUME NEW t \in Ticks, Tick(t) PROVE Writer(j)
    BY <1>3 DEF Tick, Writer
  <1>4. ASSUME NEW k \in JobIds, NEW c \in Classes, Dispatch(k, c) PROVE Writer(j)
    BY <1>1, <1>4 DEF Dispatch, Writer
  <1>5. ASSUME (\E c \in Clis : CliRequeueOne(c)) \/ CliRequeueAll PROVE Writer(j)
    <2>1. \/ \E c \in Clis : jobs' = RequeueFailed(jobs, {cli[c]}) /\ cli'[c] = NoJob
          \/ jobs' = RequeueFailed(jobs, JobIds) /\ requeues' > requeues
      BY <1>1, <1>5 DEF CliRequeueOne, CliRequeueAll
    <2>2. ASSUME jobs'[j] # jobs[j], NEW ids, jobs' = RequeueFailed(jobs, ids)
          PROVE  /\ jobs[j].status = "failed" /\ j \in ids
                 /\ jobs'[j] = Inserted(jobs[j].class)
      BY <1>1, <2>2 DEF RequeueFailed
    <2>3. QED
      BY <2>1, <2>2 DEF Writer
  <1>6. CASE UNCHANGED jobs
    BY <1>6 DEF Writer
  <1>7. QED
    BY <1>2, <1>3, <1>4, <1>5, <1>6, CallWrites DEF Next, CliCheck, vars

\* DoneChangesOnlyInDoubt: with one worker and statements that err, a done job
\* changes only while a call that saw an error of markDone still holds it.
THEOREM DoneIsHeldInDoubt ==
    ASSUME OneWorker PROVE Spec => DoneChangesOnlyInDoubt
  <1>1. WorkerInv /\ [Next]_vars =>
            [\A j \in JobIds : Status(j) = "done" /\ Status(j)' # "done" =>
               \E t \in Ticks : held[t] = j /\ pc[t] \in {"retrying", "failing"}]_vars
    BY StepWrites DEF Writer, Status
  <1>2. QED
    BY <1>1, WorkerInvariant, PTL DEF Spec, DoneChangesOnlyInDoubt

\* FailedReturnsOnlyByRequeue: with one worker a failed job comes back only when
\* queue:requeue-failed asks for it, and then as new.
THEOREM FailedIsAskedFor ==
    ASSUME OneWorker PROVE Spec => FailedReturnsOnlyByRequeue
  <1>1. WorkerInv /\ [Next]_vars =>
            [\A j \in JobIds : Status(j) = "failed" /\ Status(j)' # "failed" =>
               /\ (\E c \in Clis : cli[c] = j /\ cli'[c] = NoJob) \/ requeues' > requeues
               /\ jobs[j]' = Inserted(jobs[j].class)]_vars
    BY StepWrites DEF Writer, Status
  <1>2. QED
    BY <1>1, WorkerInvariant, PTL DEF Spec, FailedReturnsOnlyByRequeue

-----------------------------------------------------------------------------
(* A database that answers: who runs what.                                 *)

CalmDatabase == MaxFaults = 0

EachIsRun ==
    (\A w \in Workers : proc[w] = "up") =>
        \A j \in IdsWith("running") : \E t \in Ticks : held[t] = j /\ pc[t] \in Running

\* A job is running under the one call that has it, or nobody runs anything
\* and it is what a crash has left.
ServerInv ==
    /\ EachIsRun
    /\ \A t \in Ticks : pc[t] \in Running => jobs[held[t]].status = "running"
    /\ \A i, j \in IdsWith("running") : i = j

CalmInv == WorkerInv /\ ServerInv

\* No statement errs.
LEMMA NoFault == ASSUME CalmDatabase, CalmInv, NEW e PROVE ~ Fault(e)
  BY QueueWorkerAssumption
     DEF CalmDatabase, CalmInv, WorkerInv, SharedInv, TypeInv, TypeOK, Fault

\* The job of the call under way is the one that runs.
LEMMA CallRunsIt ==
    ASSUME OneWorker, CalmInv, NEW t \in Ticks, pc[t] \in Running
    PROVE  /\ held[t] \in JobIds
           /\ IdsWith("running") = {held[t]}
  <1>1. held[t] \in JobIds
    BY CallRow DEF CalmInv, WithJob, Running
  <1>2. QED
    BY <1>1 DEF CalmInv, ServerInv, IdsWith, Status

\* While a call is between two jobs, none runs.
LEMMA NoneRuns ==
    ASSUME OneWorker, CalmInv, NEW t \in Ticks, Active(t), pc[t] \notin Running
    PROVE  IdsWith("running") = {}
  <1>1. \A u \in Ticks : pc[u] \notin Running
    BY OnlyCall DEF CalmInv, WorkerInv, Running
  <1>2. \A w \in Workers : proc[w] = "up"
    BY OnlyCall DEF CalmInv, WorkerInv
  <1>3. QED
    BY <1>1, <1>2 DEF CalmInv, ServerInv, EachIsRun, Running

\* What a call writes, it writes into its own row.
LEMMA OwnRow ==
    ASSUME CalmInv, NEW t \in Ticks, WithJob(t), NEW r,
           jobs' = [jobs EXCEPT ![held[t]] = r]
    PROVE  /\ jobs'[held[t]] = r
           /\ \A j \in JobIds \ {held[t]} : jobs'[j] = jobs[j]
  <1>1. held[t] \in JobIds /\ jobs \in [JobIds -> Row]
    BY CallRow DEF CalmInv, WorkerInv, SharedInv, TypeInv, TypeOK
  <1>2. QED
    BY <1>1

-----------------------------------------------------------------------------
(* The statuses of the jobs after each kind of step.                       *)

Moves(j, from, to) ==
    /\ j \in JobIds
    /\ jobs[j].status = from /\ jobs'[j].status = to
    /\ \A k \in JobIds \ {j} : jobs'[k].status = jobs[k].status

\* A claim starts its job, and nothing runs beside it.
LEMMA Starts ==
    ASSUME OneWorker, CalmInv, NEW t \in Ticks, ClaimCommit(t)
    PROVE  Moves(held[t], "pending", "running") /\ IdsWith("running") = {}
  <1>1. pc[t] = "selected"
    BY DEF ClaimCommit
  <1>2. held[t] \in JobIds /\ jobs[held[t]] \in Row
    BY <1>1, CallRow DEF CalmInv, WithJob
  <1>3. jobs'[held[t]] = Claimed(jobs[held[t]])
        /\ \A j \in JobIds \ {held[t]} : jobs'[j] = jobs[j]
    BY <1>1, OwnRow DEF ClaimCommit, WithJob
  <1>4. Status(held[t]) = "pending"
    BY <1>1 DEF CalmInv, WorkerInv, SharedInv, ClaimIsExclusive
  <1>5. IdsWith("running") = {}
    BY <1>1, NoneRuns DEF Active, Running
  <1>6. QED
    BY <1>2, <1>3, <1>4, <1>5, ClaimedRow DEF Moves, Status

\* The end of a run settles the job or puts it back.
LEMMA Ends ==
    ASSUME OneWorker, CalmInv, NEW t \in Ticks
    PROVE  /\ MarkDone(t) => Moves(held[t], "running", "done")
           /\ MarkForRetry(t) => Moves(held[t], "running", "pending")
           /\ MarkFailed(t) => Moves(held[t], "running", "failed")
  <1> SUFFICES ASSUME MarkDone(t) \/ MarkForRetry(t) \/ MarkFailed(t)
               PROVE  /\ MarkDone(t) => Moves(held[t], "running", "done")
                      /\ MarkForRetry(t) => Moves(held[t], "running", "pending")
                      /\ MarkFailed(t) => Moves(held[t], "running", "failed")
    OBVIOUS
  <1>1. pc[t] \in Running
    BY DEF MarkDone, MarkForRetry, MarkFailed, Running
  <1>2. held[t] \in JobIds /\ jobs[held[t]] \in Row
    BY <1>1, CallRow DEF CalmInv, WithJob, Running
  <1>3. Status(held[t]) = "running"
    BY <1>1 DEF CalmInv, ServerInv, Status
  <1>4. ASSUME NEW r, jobs' = [jobs EXCEPT ![held[t]] = r]
        PROVE  Moves(held[t], "running", r.status)
    BY <1>1, <1>2, <1>3, <1>4, OwnRow DEF Moves, Status, WithJob, Running
  <1>5. /\ MarkedDone(jobs[held[t]]).status = "done"
        /\ MarkedForRetry(jobs[held[t]]).status = "pending"
        /\ MarkedFailed(jobs[held[t]]).status = "failed"
    BY <1>2, MarkedRow
  <1>6. ASSUME MarkDone(t) PROVE Moves(held[t], "running", "done")
    BY <1>4, <1>5, <1>6 DEF MarkDone
  <1>7. ASSUME MarkForRetry(t) PROVE Moves(held[t], "running", "pending")
    BY <1>4, <1>5, <1>7 DEF MarkForRetry
  <1>8. ASSUME MarkFailed(t) PROVE Moves(held[t], "running", "failed")
    BY <1>4, <1>5, <1>8 DEF MarkFailed
  <1>9. QED
    BY <1>6, <1>7, <1>8

\* An insert adds a waiting job.
LEMMA Inserts ==
    ASSUME CalmInv, NEW j \in JobIds, NEW c \in Classes, Dispatch(j, c)
    PROVE  Moves(j, "absent", "pending")
  <1>1. jobs \in [JobIds -> Row]
    BY DEF CalmInv, WorkerInv, SharedInv, TypeInv, TypeOK
  <1>2. QED
    BY <1>1, InsertedRow DEF Dispatch, Moves, Status

\* The requeue on start puts back what runs.
LEMMA StartPutsBack ==
    ASSUME CalmInv, NEW w \in Workers, RequeueOnInit(w)
    PROVE  \A j \in JobIds : jobs'[j].status =
               IF jobs[j].status = "running" THEN "pending" ELSE jobs[j].status
  <1>1. jobs \in [JobIds -> Row]
    BY DEF CalmInv, WorkerInv, SharedInv, TypeInv, TypeOK
  <1>2. QED
    BY <1>1, RequeueRunningTable DEF RequeueOnInit, Status

\* The CLI puts back some of what has failed.
LEMMA CliPutsBack ==
    ASSUME CalmInv, (\E c \in Clis : CliRequeueOne(c)) \/ CliRequeueAll
    PROVE  \E S \in SUBSET IdsWith("failed") : \A j \in JobIds :
               jobs'[j].status = IF j \in S THEN "pending" ELSE jobs[j].status
  <1>1. jobs \in [JobIds -> Row]
    BY DEF CalmInv, WorkerInv, SharedInv, TypeInv, TypeOK
  <1>2. PICK ids : jobs' = RequeueFailed(jobs, ids)
    BY DEF CliRequeueOne, CliRequeueAll
  <1>3. \A j \in JobIds : jobs'[j].status =
            IF j \in ids \cap IdsWith("failed") THEN "pending" ELSE jobs[j].status
    BY <1>1, <1>2 DEF RequeueFailed, Inserted, NoRow, Status, IdsWith
  <1>4. QED
    BY <1>3
-----------------------------------------------------------------------------
(* The invariant is kept.                                                  *)

\* Nothing runs, nothing is under way.
LEMMA Idle ==
    ASSUME \A j \in JobIds : jobs'[j].status # "running",
           \A t \in Ticks : pc'[t] \notin Running
    PROVE  ServerInv'
  BY DEF ServerInv, EachIsRun, IdsWith, Status, Running

\* What runs is what ran, and the calls are what they were.
LEMMA Aside ==
    ASSUME CalmInv, UNCHANGED <<proc, pc, held>>,
           \A j \in JobIds : jobs'[j].status = "running" <=> jobs[j].status = "running"
    PROVE  ServerInv'
  BY DEF CalmInv, WorkerInv, SharedInv, TypeInv, HeldOK, WithJob, ServerInv,
         EachIsRun, IdsWith, Status, Running

\* Steps of the process.
LEMMA ProcessKeeps ==
    ASSUME OneWorker, CalmDatabase, CalmInv, NEW w \in Workers,
           Boot(w) \/ RequeueOnInit(w) \/ InitFails(w) \/ Crash(w)
    PROVE  ServerInv'
  <1>1. proc \in [Workers -> {"down", "init", "up"}]
    BY DEF CalmInv, WorkerInv, SharedInv, TypeInv, TypeOK
  <1>2. ~ InitFails(w)
    BY NoFault DEF InitFails
  <1>3. ASSUME RequeueOnInit(w) PROVE ServerInv'
    <2>1. \A j \in JobIds : jobs'[j].status # "running"
      BY <1>3, StartPutsBack
    <2>2. \A t \in Ticks : pc'[t] = "off"
      BY <1>3, NoCallInInit DEF RequeueOnInit, CalmInv, WorkerInv
    <2>3. QED
      BY <2>1, <2>2, Idle DEF Running
  <1>4. ASSUME Boot(w) \/ Crash(w) PROVE ServerInv'
    <2>1. jobs' = jobs /\ proc'[w] # "up"
      BY <1>1, <1>4 DEF Boot, Crash
    <2>2. \A t \in Ticks : pc'[t] = "off"
      <3>1. \A t \in Ticks : Of[t] = w
        BY QueueWorkerAssumption DEF OneWorker
      <3>2. QED
        BY <1>4, <3>1, NoCallInInit DEF Boot, Crash, CalmInv, WorkerInv
    <2>3. EachIsRun'
      BY <2>1 DEF EachIsRun
    <2>4. QED
      BY <2>1, <2>2, <2>3 DEF CalmInv, ServerInv, IdsWith, Status, Running
  <1>5. QED
    BY <1>2, <1>3, <1>4

\* Steps of a call.
LEMMA CallKeeps ==
    ASSUME OneWorker, CalmDatabase, CalmInv, NEW t \in Ticks,
           Tick(t) \/ TickStep(t) \/ ClaimFails(t) \/ MarkDoneFails(t) \/ SaveFails(t)
    PROVE  ServerInv'
  <1>1. pc \in [Ticks -> PcStates] /\ held \in [Ticks -> JobIds \cup {NoJob}]
    BY DEF CalmInv, WorkerInv, SharedInv, TypeInv, TypeOK
  <1>2. ~ ClaimFails(t) /\ ~ MarkDoneFails(t) /\ ~ SaveFails(t)
    BY NoFault DEF ClaimFails, MarkDoneFails, SaveFails
  <1>3. Active(t) => \A u \in Ticks \ {t} : pc[u] = "off"
    BY OnlyCall DEF CalmInv, WorkerInv
  <1>4. ASSUME Tick(t) PROVE ServerInv'
    <2>1. /\ jobs' = jobs /\ proc' = proc /\ held' = held
          /\ \A u \in Ticks : pc'[u] \in Running <=> pc[u] \in Running
          /\ \A u \in Ticks : pc[u] \in Running => u # t
      BY <1>1, <1>4 DEF Tick, Running
    <2>2. QED
      BY <2>1 DEF CalmInv, ServerInv, EachIsRun, IdsWith, Status, Running
  <1>5. ASSUME ClaimNothing(t) \/ ClaimSelect(t) PROVE ServerInv'
    <2>1. pc[t] = "claiming" /\ jobs' = jobs
      BY <1>5 DEF ClaimNothing, ClaimSelect
    <2>2. IdsWith("running") = {}
      BY <2>1, NoneRuns DEF Active, Running
    <2>3. \A u \in Ticks : pc'[u] \notin Running
      BY <1>1, <1>3, <1>5, <2>1 DEF ClaimNothing, ClaimSelect, Return, Active, Running
    <2>4. QED
      BY <2>1, <2>2, <2>3, Idle DEF IdsWith, Status
  <1>6. ASSUME HandleReturns(t) \/ HandleThrows(t) PROVE ServerInv'
    <2>1. /\ pc[t] \in Running /\ pc'[t] \in Running
          /\ jobs' = jobs /\ proc' = proc /\ held' = held
          /\ \A u \in Ticks \ {t} : pc'[u] = pc[u]
      BY <1>1, <1>6 DEF HandleReturns, HandleThrows, OnError, Running
    <2>2. QED
      BY <2>1 DEF CalmInv, ServerInv, EachIsRun, IdsWith, Status, Running
  <1>7. ASSUME ClaimCommit(t) PROVE ServerInv'
    <2>1. Moves(held[t], "pending", "running") /\ IdsWith("running") = {}
      BY <1>7, Starts
    <2>2. \A j \in JobIds : jobs'[j].status = "running" <=> j = held[t]
      BY <2>1 DEF Moves, IdsWith, Status
    <2>3. /\ pc'[t] \in {"handling", "failing"} /\ held' = held
          /\ \A u \in Ticks \ {t} : pc'[u] = "off"
      BY <1>1, <1>3, <1>7 DEF ClaimCommit, Active
    <2>4. held[t] \in JobIds
      BY <2>1 DEF Moves
    <2>5. QED
      BY <2>2, <2>3, <2>4 DEF ServerInv, EachIsRun, IdsWith, Status, Running
  <1>8. ASSUME MarkDone(t) \/ MarkForRetry(t) \/ MarkFailed(t) PROVE ServerInv'
    <2>1. pc[t] \in Running
      BY <1>8 DEF MarkDone, MarkForRetry, MarkFailed, Running
    <2>2. IdsWith("running") = {held[t]}
      BY <2>1, CallRunsIt
    <2>3. \A j \in JobIds : jobs'[j].status # "running"
      BY <1>8, <2>2, Ends DEF Moves, IdsWith, Status
    <2>4. \A u \in Ticks : pc'[u] = "off"
      BY <1>1, <1>3, <1>8, <2>1 DEF MarkDone, MarkForRetry, MarkFailed, Return, Active, Running
    <2>5. QED
      BY <2>3, <2>4, Idle DEF Running
  <1>9. QED
    BY <1>2, <1>4, <1>5, <1>6, <1>7, <1>8 DEF TickStep

\* Steps of the others.
LEMMA ClientKeeps ==
    ASSUME CalmInv,
           \/ \E j \in JobIds, c \in Classes : Dispatch(j, c)
           \/ \E c \in Clis, j \in JobIds : CliCheck(c, j)
           \/ (\E c \in Clis : CliRequeueOne(c)) \/ CliRequeueAll
    PROVE  ServerInv'
  <1>1. UNCHANGED <<proc, pc, held>>
    BY DEF Dispatch, CliCheck, CliRequeueOne, CliRequeueAll
  <1>2. ASSUME NEW j \in JobIds, NEW c \in Classes, Dispatch(j, c) PROVE ServerInv'
    BY <1>1, <1>2, Inserts, Aside DEF Moves
  <1>3. ASSUME NEW c \in Clis, NEW j \in JobIds, CliCheck(c, j) PROVE ServerInv'
    BY <1>1, <1>3, Aside DEF CliCheck
  <1>4. ASSUME (\E c \in Clis : CliRequeueOne(c)) \/ CliRequeueAll PROVE ServerInv'
    <2>1. PICK S \in SUBSET IdsWith("failed") : \A j \in JobIds :
              jobs'[j].status = IF j \in S THEN "pending" ELSE jobs[j].status
      BY <1>4, CliPutsBack
    <2>2. \A j \in S : jobs[j].status = "failed"
      BY DEF IdsWith, Status
    <2>3. QED
      BY <1>1, <2>1, <2>2, Aside
  <1>5. QED
    BY <1>2, <1>3, <1>4

LEMMA CalmInvariant ==
    ASSUME OneWorker, CalmDatabase
    PROVE  Spec => []CalmInv
  <1>1. Init => CalmInv
    BY WorkerInit DEF CalmInv, Init, NoRow, ServerInv, EachIsRun, IdsWith, Status, Running
  <1>2. CalmInv /\ [Next]_vars => CalmInv'
    <2> SUFFICES ASSUME CalmInv, [Next]_vars PROVE CalmInv'
      OBVIOUS
    <2>1. WorkerInv'
      BY TypeStep, BusyStep, ClaimStep, RowsStep, CallsStep DEF CalmInv, WorkerInv, SharedInv
    <2>2. ServerInv'
      <3>1. CASE UNCHANGED vars
        BY <3>1, Aside DEF vars
      <3>2. QED
        BY <3>1, ProcessKeeps, CallKeeps, ClientKeeps DEF Next
    <2>3. QED
      BY <2>1, <2>2 DEF CalmInv
  <1>3. QED
    BY <1>1, <1>2, PTL DEF Spec

-----------------------------------------------------------------------------
(* The refinement: every step is a step of the lifecycle or none.          *)

\* One job moves from one set to another.
LEMMA MovedSets ==
    ASSUME NEW j, NEW from, NEW to, Moves(j, from, to), from # to, NEW s
    PROVE  IdsWith(s)' = IF s = to THEN IdsWith(s) \cup {j}
                         ELSE IF s = from THEN IdsWith(s) \ {j} ELSE IdsWith(s)
  BY DEF Moves, IdsWith, Status

\* Where no status changes, no set does.
LEMMA KeptSets ==
    ASSUME \A j \in JobIds : jobs'[j].status = jobs[j].status
    PROVE  UNCHANGED Lifecycle!vars
  BY DEF Lifecycle!vars, IdsWith, Status

LEMMA CallRefines ==
    ASSUME OneWorker, CalmDatabase, CalmInv, NEW t \in Ticks,
           Tick(t) \/ TickStep(t) \/ ClaimFails(t) \/ MarkDoneFails(t) \/ SaveFails(t)
    PROVE  [Lifecycle!Next]_(Lifecycle!vars)
  <1>1. ~ ClaimFails(t) /\ ~ MarkDoneFails(t) /\ ~ SaveFails(t)
    BY NoFault DEF ClaimFails, MarkDoneFails, SaveFails
  <1>2. ASSUME Tick(t) \/ ClaimNothing(t) \/ ClaimSelect(t) \/ HandleReturns(t) \/ HandleThrows(t)
        PROVE  UNCHANGED Lifecycle!vars
    <2>1. jobs' = jobs
      BY <1>2 DEF Tick, ClaimNothing, ClaimSelect, HandleReturns, HandleThrows
    <2>2. QED
      BY <2>1, KeptSets
  <1>3. ASSUME ClaimCommit(t) PROVE Lifecycle!Next
    <2>1. Moves(held[t], "pending", "running") /\ IdsWith("running") = {}
      BY <1>3, Starts
    <2>2. held[t] \in JobIds /\ held[t] \in IdsWith("pending")
      BY <2>1 DEF Moves, IdsWith, Status
    <2>3. /\ IdsWith("running")' = {held[t]}
          /\ IdsWith("pending")' = IdsWith("pending") \ {held[t]}
          /\ IdsWith("done")' = IdsWith("done")
          /\ IdsWith("failed")' = IdsWith("failed")
      BY <2>1, MovedSets
    <2>4. Lifecycle!Start(held[t])
      BY <2>1, <2>2, <2>3 DEF Lifecycle!Start
    <2>5. QED
      BY <2>2, <2>4 DEF Lifecycle!Next
  <1>4. ASSUME MarkDone(t) \/ MarkForRetry(t) \/ MarkFailed(t) PROVE Lifecycle!Next
    <2>1. IdsWith("running") = {held[t]}
      BY <1>4, CallRunsIt DEF MarkDone, MarkForRetry, MarkFailed, Running
    <2>2. ASSUME MarkDone(t) PROVE Lifecycle!Succeed
      <3>1. /\ IdsWith("running")' = IdsWith("running") \ {held[t]}
            /\ IdsWith("pending")' = IdsWith("pending")
            /\ IdsWith("done")' = IdsWith("done") \cup {held[t]}
            /\ IdsWith("failed")' = IdsWith("failed")
        BY <2>2, Ends, MovedSets
      <3>2. QED
        BY <2>1, <3>1 DEF Lifecycle!Succeed
    <2>3. ASSUME MarkForRetry(t) PROVE Lifecycle!PutBack
      <3>1. /\ IdsWith("running")' = IdsWith("running") \ {held[t]}
            /\ IdsWith("pending")' = IdsWith("pending") \cup {held[t]}
            /\ IdsWith("done")' = IdsWith("done")
            /\ IdsWith("failed")' = IdsWith("failed")
        BY <2>3, Ends, MovedSets
      <3>2. QED
        BY <2>1, <3>1 DEF Lifecycle!PutBack
    <2>4. ASSUME MarkFailed(t) PROVE Lifecycle!GiveUp
      <3>1. /\ IdsWith("running")' = IdsWith("running") \ {held[t]}
            /\ IdsWith("pending")' = IdsWith("pending")
            /\ IdsWith("done")' = IdsWith("done")
            /\ IdsWith("failed")' = IdsWith("failed") \cup {held[t]}
        BY <2>4, Ends, MovedSets
      <3>2. QED
        BY <2>1, <3>1 DEF Lifecycle!GiveUp
    <2>5. QED
      BY <1>4, <2>2, <2>3, <2>4 DEF Lifecycle!Next
  <1>5. QED
    BY <1>1, <1>2, <1>3, <1>4 DEF TickStep

LEMMA ProcessRefines ==
    ASSUME CalmDatabase, CalmInv, NEW w \in Workers,
           Boot(w) \/ RequeueOnInit(w) \/ InitFails(w) \/ Crash(w)
    PROVE  [Lifecycle!Next]_(Lifecycle!vars)
  <1>1. ~ InitFails(w)
    BY NoFault DEF InitFails
  <1>2. ASSUME Boot(w) \/ Crash(w) PROVE UNCHANGED Lifecycle!vars
    BY <1>2, KeptSets DEF Boot, Crash
  <1>3. ASSUME RequeueOnInit(w), IdsWith("running") # {} PROVE Lifecycle!PutBack
    <2>1. /\ IdsWith("running")' = {}
          /\ IdsWith("pending")' = IdsWith("pending") \cup IdsWith("running")
          /\ IdsWith("done")' = IdsWith("done")
          /\ IdsWith("failed")' = IdsWith("failed")
      BY <1>3, StartPutsBack DEF IdsWith, Status
    <2>2. QED
      BY <1>3, <2>1 DEF Lifecycle!PutBack
  <1>4. ASSUME RequeueOnInit(w), IdsWith("running") = {} PROVE UNCHANGED Lifecycle!vars
    <2>1. \A j \in JobIds : jobs[j].status # "running"
      BY <1>4 DEF IdsWith, Status
    <2>2. QED
      BY <1>4, <2>1, StartPutsBack, KeptSets
  <1>5. QED
    BY <1>1, <1>2, <1>3, <1>4 DEF Lifecycle!Next

LEMMA ClientRefines ==
    ASSUME CalmInv,
           \/ \E j \in JobIds, c \in Classes : Dispatch(j, c)
           \/ \E c \in Clis, j \in JobIds : CliCheck(c, j)
           \/ (\E c \in Clis : CliRequeueOne(c)) \/ CliRequeueAll
    PROVE  [Lifecycle!Next]_(Lifecycle!vars)
  <1>1. ASSUME NEW j \in JobIds, NEW c \in Classes, Dispatch(j, c)
        PROVE  Lifecycle!Submit(j)
    <2>1. Moves(j, "absent", "pending")
      BY <1>1, Inserts
    <2>2. /\ IdsWith("running")' = IdsWith("running")
          /\ IdsWith("pending")' = IdsWith("pending") \cup {j}
          /\ IdsWith("done")' = IdsWith("done")
          /\ IdsWith("failed")' = IdsWith("failed")
      BY <2>1, MovedSets
    <2>3. j \notin IdsWith("pending") \cup IdsWith("running") \cup IdsWith("done")
                     \cup IdsWith("failed")
      BY <2>1 DEF Moves, IdsWith, Status
    <2>4. QED
      BY <2>2, <2>3 DEF Lifecycle!Submit
  <1>2. ASSUME NEW c \in Clis, NEW j \in JobIds, CliCheck(c, j) PROVE UNCHANGED Lifecycle!vars
    BY <1>2, KeptSets DEF CliCheck
  <1>3. ASSUME (\E c \in Clis : CliRequeueOne(c)) \/ CliRequeueAll PROVE [Lifecycle!Next]_(Lifecycle!vars)
    <2>1. PICK S \in SUBSET IdsWith("failed") : \A j \in JobIds :
              jobs'[j].status = IF j \in S THEN "pending" ELSE jobs[j].status
      BY <1>3, CliPutsBack
    <2>2. CASE S = {}
      BY <2>1, <2>2, KeptSets
    <2>3. CASE S # {}
      <3>1. S \subseteq JobIds /\ \A j \in S : jobs[j].status = "failed"
        BY DEF IdsWith, Status
      <3>2. /\ IdsWith("running")' = IdsWith("running")
            /\ IdsWith("pending")' = IdsWith("pending") \cup S
            /\ IdsWith("done")' = IdsWith("done")
            /\ IdsWith("failed")' = IdsWith("failed") \ S
        BY <2>1, <3>1 DEF IdsWith, Status
      <3>3. Lifecycle!Resubmit(S)
        BY <3>2 DEF Lifecycle!Resubmit
      <3>4. QED
        BY <2>1, <2>3, <3>3 DEF Lifecycle!Next
    <2>4. QED
      BY <2>2, <2>3
  <1>4. QED
    BY <1>1, <1>2, <1>3 DEF Lifecycle!Next

LEMMA StepRefines ==
    ASSUME OneWorker, CalmDatabase, CalmInv, [Next]_vars
    PROVE  [Lifecycle!Next]_(Lifecycle!vars)
  <1>1. CASE UNCHANGED vars
    BY <1>1, KeptSets DEF vars
  <1>2. CASE Next
    BY <1>2, CallRefines, ProcessRefines, ClientRefines DEF Next
  <1>3. QED
    BY <1>1, <1>2

\* ImplementsLifecycle: with one worker and a database that answers, the queue
\* is the single server of JobLifecycle.
THEOREM QueueIsSingleServer ==
    ASSUME OneWorker, CalmDatabase PROVE Spec => ImplementsLifecycle
  <1>1. Init => Lifecycle!Init
    BY DEF Init, NoRow, Lifecycle!Init, IdsWith, Status
  <1>2. CalmInv /\ [Next]_vars => [Lifecycle!Next]_(Lifecycle!vars)
    BY StepRefines
  <1>3. QED
    BY <1>1, <1>2, CalmInvariant, PTL DEF Spec, ImplementsLifecycle, Lifecycle!Spec

\* DoneIsFinal: with one worker and a database that answers, a job that is done
\* stays done, whatever crashes, requeues and overlapping calls do.
THEOREM DoneStaysDone ==
    ASSUME OneWorker, CalmDatabase PROVE Spec => DoneIsFinal
  <1>1. ASSUME [Lifecycle!Next]_(Lifecycle!vars)
        PROVE  IdsWith("done") \subseteq IdsWith("done")'
    BY <1>1 DEF Lifecycle!Next, Lifecycle!vars, Lifecycle!Submit, Lifecycle!Start,
           Lifecycle!Succeed, Lifecycle!GiveUp, Lifecycle!PutBack, Lifecycle!Resubmit
  <1>2. IdsWith("done") \subseteq IdsWith("done")' =>
            \A j \in JobIds : Status(j) = "done" => Status(j)' = "done"
    BY DEF IdsWith
  <1>3. CalmInv /\ [Next]_vars =>
            [\A j \in JobIds : Status(j) = "done" => Status(j)' = "done"]_vars
    BY <1>1, <1>2, StepRefines
  <1>4. QED
    BY <1>3, CalmInvariant, PTL DEF Spec, DoneIsFinal
=============================================================================
