------------------------- MODULE QueueWorkerProofs --------------------------
(***************************************************************************)
(* Proofs about QueueWorker.  First what holds for any number of workers:  *)
(* types, the busy flag, the claim's lock.  Then what holds for the one    *)
(* worker the deployment runs, whatever crashes, faults and requeues do.   *)
(***************************************************************************)
EXTENDS QueueWorker, FiniteSetTheorems, TLAPS

-----------------------------------------------------------------------------
(* The statements, seen through the columns they set.                      *)

\* An INSERT writes a pending row of the class asked for, with no attempt.
LEMMA InsertedRow ==
    ASSUME NEW c \in Classes \cup {"none"}
    PROVE  /\ Inserted(c) \in Row
           /\ Inserted(c).status = "pending"
           /\ Inserted(c).class = c
           /\ Inserted(c).error = "null"
           /\ Inserted(c).attempts = 0
           /\ Inserted(c).started_at = "null"
           /\ Inserted(c).finished_at = "null"
  BY DEF Inserted, NoRow, Row, Statuses

\* A claim counts the attempt and starts the clock.
LEMMA ClaimedRow ==
    ASSUME NEW r \in Row
    PROVE  /\ Claimed(r) \in Row
           /\ Claimed(r).status = "running"
           /\ Claimed(r).class = r.class
           /\ Claimed(r).attempts = r.attempts + 1
           /\ Claimed(r).started_at = "set"
           /\ Claimed(r).finished_at = r.finished_at
  <1> DEFINE n == r.attempts + 1
  <1>1. r.attempts \in Nat /\ n \in Nat
    BY DEF Row
  <1>2. Claimed(r) = [r EXCEPT !.status = "running", !.started_at = "set",
                               !.attempts = n]
    BY DEF Claimed
  <1> HIDE DEF n
  <1>3. /\ Claimed(r) \in Row
        /\ Claimed(r).status = "running"
        /\ Claimed(r).class = r.class
        /\ Claimed(r).attempts = n
        /\ Claimed(r).started_at = "set"
        /\ Claimed(r).finished_at = r.finished_at
    BY <1>1, <1>2 DEF Row, Statuses
  <1>4. QED
    BY <1>3 DEF n

\* The three statements that end a call change no attempt and no class.
LEMMA MarkedRow ==
    ASSUME NEW r \in Row
    PROVE  /\ MarkedDone(r) \in Row
           /\ MarkedDone(r).status = "done"
           /\ MarkedDone(r).class = r.class
           /\ MarkedDone(r).attempts = r.attempts
           /\ MarkedDone(r).error = "null"
           /\ MarkedDone(r).started_at = r.started_at
           /\ MarkedDone(r).finished_at = "set"
           /\ MarkedFailed(r) \in Row
           /\ MarkedFailed(r).status = "failed"
           /\ MarkedFailed(r).class = r.class
           /\ MarkedFailed(r).attempts = r.attempts
           /\ MarkedFailed(r).error = "text"
           /\ MarkedFailed(r).started_at = r.started_at
           /\ MarkedFailed(r).finished_at = "set"
           /\ MarkedForRetry(r) \in Row
           /\ MarkedForRetry(r).status = "pending"
           /\ MarkedForRetry(r).class = r.class
           /\ MarkedForRetry(r).attempts = r.attempts
           /\ MarkedForRetry(r).started_at = "null"
           /\ MarkedForRetry(r).finished_at = "null"
  BY DEF MarkedDone, MarkedFailed, MarkedForRetry, Row, Statuses

\* Requeueing on start touches running rows only, and keeps their attempts.
LEMMA RequeueRunningTable ==
    ASSUME NEW T \in [JobIds -> Row]
    PROVE  /\ RequeueRunning(T) \in [JobIds -> Row]
           /\ \A j \in JobIds :
                 /\ T[j].status # "running" => RequeueRunning(T)[j] = T[j]
                 /\ T[j].status = "running" =>
                      /\ RequeueRunning(T)[j].status = "pending"
                      /\ RequeueRunning(T)[j].class = T[j].class
                      /\ RequeueRunning(T)[j].attempts = T[j].attempts
                      /\ RequeueRunning(T)[j].started_at = "null"
                      /\ RequeueRunning(T)[j].finished_at = T[j].finished_at
  BY ZenonT(60) DEF RequeueRunning, Row, Statuses

\* The CLI's requeue touches failed rows only, and makes them new.
LEMMA RequeueFailedTable ==
    ASSUME NEW T \in [JobIds -> Row], NEW ids
    PROVE  /\ RequeueFailed(T, ids) \in [JobIds -> Row]
           /\ \A j \in JobIds :
                 /\ T[j].status # "failed" => RequeueFailed(T, ids)[j] = T[j]
                 /\ RequeueFailed(T, ids)[j] \in {T[j], Inserted(T[j].class)}
  <1>1. \A j \in JobIds : T[j].class \in Classes \cup {"none"}
    BY DEF Row
  <1>2. \A j \in JobIds : Inserted(T[j].class) \in Row
    BY <1>1, InsertedRow
  <1>3. QED
    BY <1>2 DEF RequeueFailed

\* A job may always be tried once.
LEMMA MaxAttemptsPositive ==
    ASSUME NEW c \in Classes
    PROVE  MaxAttempts(c) \in Nat /\ MaxAttempts(c) >= 1
  BY JobTableAssumption DEF MaxAttempts

-----------------------------------------------------------------------------
(* Types                                                                   *)

\* A call that has a job.
WithJob(t) == pc[t] \in {"selected", "handling", "finishing", "retrying", "failing"}

\* Calls that run a job name one: what TypeOK needs to know of held.
HeldOK == \A t \in Ticks : WithJob(t) => held[t] \in JobIds

TypeInv == TypeOK /\ HeldOK

\* What a statement on the held row does to the table.
LEMMA WriteTyped ==
    ASSUME TypeInv, NEW t \in Ticks, WithJob(t)
    PROVE  /\ [jobs EXCEPT ![held[t]] = Claimed(@)] \in [JobIds -> Row]
           /\ [jobs EXCEPT ![held[t]] = MarkedDone(@)] \in [JobIds -> Row]
           /\ [jobs EXCEPT ![held[t]] = MarkedForRetry(@)] \in [JobIds -> Row]
           /\ [jobs EXCEPT ![held[t]] = MarkedFailed(@)] \in [JobIds -> Row]
  <1>1. held[t] \in JobIds /\ jobs[held[t]] \in Row
    BY DEF TypeInv, TypeOK, HeldOK
  <1>2. /\ Claimed(jobs[held[t]]) \in Row
        /\ MarkedDone(jobs[held[t]]) \in Row
        /\ MarkedForRetry(jobs[held[t]]) \in Row
        /\ MarkedFailed(jobs[held[t]]) \in Row
    BY <1>1, ClaimedRow, MarkedRow
  <1>3. QED
    BY <1>1, <1>2 DEF TypeInv, TypeOK

\* Every step keeps the types.
LEMMA TypeStep == TypeInv /\ [Next]_vars => TypeInv'
  <1> SUFFICES ASSUME TypeInv, [Next]_vars PROVE TypeInv'
    OBVIOUS
  <1> USE QueueWorkerAssumption DEF counters, PcStates, WithJob
  <1>1. ASSUME NEW w \in Workers, Boot(w) PROVE TypeInv'
    BY <1>1 DEF Boot, TypeInv, TypeOK, HeldOK
  <1>2. ASSUME NEW w \in Workers, RequeueOnInit(w) PROVE TypeInv'
    BY <1>2, RequeueRunningTable DEF RequeueOnInit, TypeInv, TypeOK, HeldOK
  <1>3. ASSUME NEW w \in Workers, InitFails(w) PROVE TypeInv'
    BY <1>3, RequeueRunningTable DEF InitFails, Fault, TypeInv, TypeOK, HeldOK
  <1>4. ASSUME NEW w \in Workers, Crash(w) PROVE TypeInv'
    BY <1>4 DEF Crash, TypeInv, TypeOK, HeldOK
  <1>5. ASSUME NEW t \in Ticks, Tick(t) PROVE TypeInv'
    BY <1>5 DEF Tick, TypeInv, TypeOK, HeldOK
  <1>6. ASSUME NEW t \in Ticks, ClaimNothing(t) PROVE TypeInv'
    BY <1>6 DEF ClaimNothing, Return, TypeInv, TypeOK, HeldOK
  <1>7. ASSUME NEW t \in Ticks, ClaimSelect(t) PROVE TypeInv'
    BY <1>7 DEF ClaimSelect, TypeInv, TypeOK, HeldOK
  <1>8. ASSUME NEW t \in Ticks, ClaimCommit(t) PROVE TypeInv'
    <2>1. jobs[held[t]].attempts + 1 \in Nat
      BY <1>8 DEF ClaimCommit, TypeInv, TypeOK, HeldOK, Row
    <2>2. jobs' \in [JobIds -> Row]
      BY <1>8, WriteTyped DEF ClaimCommit
    <2>3. QED
      BY <1>8, <2>1, <2>2 DEF ClaimCommit, TypeInv, TypeOK, HeldOK
  <1>9. ASSUME NEW t \in Ticks, ClaimFails(t) PROVE TypeInv'
    <2>1. jobs' \in [JobIds -> Row] /\ faults' \in Nat
      BY <1>9, WriteTyped DEF ClaimFails, Fault, TypeInv, TypeOK
    <2>2. QED
      BY <1>9, <2>1 DEF ClaimFails, Fault, Return, TypeInv, TypeOK, HeldOK
  <1>10. ASSUME NEW t \in Ticks, HandleReturns(t) PROVE TypeInv'
    BY <1>10 DEF HandleReturns, TypeInv, TypeOK, HeldOK
  <1>11. ASSUME NEW t \in Ticks, HandleThrows(t) PROVE TypeInv'
    BY <1>11 DEF HandleThrows, OnError, TypeInv, TypeOK, HeldOK
  <1>12. ASSUME NEW t \in Ticks, MarkDone(t) PROVE TypeInv'
    BY <1>12, WriteTyped DEF MarkDone, Return, TypeInv, TypeOK, HeldOK
  <1>13. ASSUME NEW t \in Ticks, MarkDoneFails(t) PROVE TypeInv'
    <2>1. jobs' \in [JobIds -> Row] /\ faults' \in Nat
      BY <1>13, WriteTyped DEF MarkDoneFails, Fault, TypeInv, TypeOK
    <2>2. QED
      BY <1>13, <2>1 DEF MarkDoneFails, OnError, Fault, TypeInv, TypeOK, HeldOK
  <1>14. ASSUME NEW t \in Ticks, MarkForRetry(t) PROVE TypeInv'
    BY <1>14, WriteTyped DEF MarkForRetry, Return, TypeInv, TypeOK, HeldOK
  <1>15. ASSUME NEW t \in Ticks, MarkFailed(t) PROVE TypeInv'
    BY <1>15, WriteTyped DEF MarkFailed, Return, TypeInv, TypeOK, HeldOK
  <1>16. ASSUME NEW t \in Ticks, SaveFails(t) PROVE TypeInv'
    <2>1. jobs' \in [JobIds -> Row] /\ faults' \in Nat
      BY <1>16, WriteTyped DEF SaveFails, Fault, TypeInv, TypeOK
    <2>2. QED
      BY <1>16, <2>1 DEF SaveFails, Fault, Return, TypeInv, TypeOK, HeldOK
  <1>17. ASSUME NEW j \in JobIds, NEW c \in Classes, Dispatch(j, c) PROVE TypeInv'
    BY <1>17, InsertedRow DEF Dispatch, TypeInv, TypeOK, HeldOK
  <1>18. ASSUME NEW c \in Clis, NEW j \in JobIds, CliCheck(c, j) PROVE TypeInv'
    BY <1>18 DEF CliCheck, TypeInv, TypeOK, HeldOK
  <1>19. ASSUME NEW c \in Clis, CliRequeueOne(c) PROVE TypeInv'
    BY <1>19, RequeueFailedTable DEF CliRequeueOne, TypeInv, TypeOK, HeldOK
  <1>20. CASE CliRequeueAll
    BY <1>20, RequeueFailedTable DEF CliRequeueAll, TypeInv, TypeOK, HeldOK
  <1>21. CASE UNCHANGED vars
    BY <1>21 DEF vars, TypeInv, TypeOK, HeldOK
  <1>22. QED
    BY <1>1, <1>2, <1>3, <1>4, <1>5, <1>6, <1>7, <1>8, <1>9, <1>10, <1>11, <1>12,
       <1>13, <1>14, <1>15, <1>16, <1>17, <1>18, <1>19, <1>20, <1>21
       DEF Next, TickStep

LEMMA TypeInit == Init => TypeInv
  BY QueueWorkerAssumption
     DEF Init, TypeInv, TypeOK, HeldOK, WithJob, PcStates, NoRow, Row, Statuses

\* The variables keep their types, for any number of workers and jobs.
THEOREM TypeCorrect == Spec => []TypeOK
  <1>1. Spec => []TypeInv
    BY TypeInit, TypeStep, PTL DEF Spec
  <1>2. TypeInv => TypeOK
    BY DEF TypeInv
  <1>3. QED
    BY <1>1, <1>2, PTL

-----------------------------------------------------------------------------
(* The busy flag: any number of workers, any number of overlapping calls.  *)

\* A call under way has set the flag of a process that is up, and no other
\* call of that process is under way.
BusyInv ==
    /\ \A t \in Ticks : Active(t) => proc[Of[t]] = "up" /\ busy[Of[t]] = "yes"
    /\ BusyMeansActive
    /\ OneCallAtATime

LEMMA BusyStep == TypeInv /\ BusyInv /\ [Next]_vars => BusyInv'
  <1> SUFFICES ASSUME TypeInv, BusyInv, [Next]_vars PROVE BusyInv'
    OBVIOUS
  <1> USE QueueWorkerAssumption
          DEF counters, PcStates, TypeInv, TypeOK, BusyInv, BusyMeansActive,
              OneCallAtATime, Active
  <1>1. ASSUME NEW w \in Workers, Boot(w) \/ RequeueOnInit(w) \/ InitFails(w)
        PROVE  BusyInv'
    BY <1>1 DEF Boot, RequeueOnInit, InitFails, Fault
  <1>2. ASSUME NEW w \in Workers, Crash(w) PROVE BusyInv'
    BY <1>2 DEF Crash
  <1>3. ASSUME NEW t \in Ticks, Tick(t) PROVE BusyInv'
    BY <1>3 DEF Tick
  <1>4. ASSUME NEW t \in Ticks, Active(t), Return(t), UNCHANGED proc
        PROVE  BusyInv'
    BY <1>4 DEF Return
  <1>5. ASSUME NEW t \in Ticks, Active(t), UNCHANGED <<proc, busy>>,
               pc' \in [Ticks -> PcStates], pc'[t] # "off",
               \A u \in Ticks \ {t} : pc'[u] = pc[u]
        PROVE  BusyInv'
    BY <1>5
  <1>6. ASSUME NEW t \in Ticks,
               ClaimNothing(t) \/ ClaimFails(t) \/ MarkDone(t) \/ MarkForRetry(t)
                 \/ MarkFailed(t) \/ SaveFails(t)
        PROVE  BusyInv'
    BY <1>4, <1>6 DEF ClaimNothing, ClaimFails, MarkDone, MarkForRetry, MarkFailed,
                      SaveFails
  <1>7. ASSUME NEW t \in Ticks,
               ClaimSelect(t) \/ ClaimCommit(t) \/ HandleReturns(t)
                 \/ HandleThrows(t) \/ MarkDoneFails(t)
        PROVE  BusyInv'
    BY <1>5, <1>7 DEF ClaimSelect, ClaimCommit, HandleReturns, HandleThrows,
                      MarkDoneFails, OnError
  <1>8. CASE UNCHANGED <<proc, busy, pc>>
    BY <1>8
  <1>9. QED
    BY <1>1, <1>2, <1>3, <1>6, <1>7, <1>8
       DEF Next, TickStep, Dispatch, CliCheck, CliRequeueOne, CliRequeueAll, vars

LEMMA BusyInit == Init => BusyInv
  BY QueueWorkerAssumption DEF Init, BusyInv, BusyMeansActive, OneCallAtATime, Active

\* At most one job at a time is run by a process, and no path leaves a process
\* busy with nothing under way: for any number of processes and of calls.
THEOREM BusyFlagWorks == Spec => [](OneCallAtATime /\ BusyMeansActive)
  <1>1. Spec => [](TypeInv /\ BusyInv)
    BY TypeInit, TypeStep, BusyInit, BusyStep, PTL DEF Spec
  <1>2. BusyInv => OneCallAtATime /\ BusyMeansActive
    BY DEF BusyInv
  <1>3. QED
    BY <1>1, <1>2, PTL

\* BusyMeansActive: no return path leaves the process busy for ever.
THEOREM BusyIsExact == Spec => []BusyMeansActive
  BY BusyFlagWorks, PTL

-----------------------------------------------------------------------------
(* The claim's lock: any number of workers, restarts and stolen jobs.      *)

LEMMA ClaimStep == TypeInv /\ ClaimIsExclusive /\ [Next]_vars => ClaimIsExclusive'
  <1> SUFFICES ASSUME TypeInv, ClaimIsExclusive, [Next]_vars PROVE ClaimIsExclusive'
    OBVIOUS
  <1> USE QueueWorkerAssumption
          DEF counters, PcStates, TypeInv, TypeOK, HeldOK, WithJob, ClaimIsExclusive,
              Status
  \* A step that selects nothing and leaves the selected rows pending is harmless.
  <1>1. ASSUME \A u \in Ticks : pc'[u] = "selected" => pc[u] = "selected" /\ held'[u] = held[u],
               \A u \in Ticks : pc[u] = "selected" /\ pc'[u] = "selected"
                                  => jobs'[held[u]].status = "pending"
        PROVE  ClaimIsExclusive'
    BY <1>1
  <1>2. ASSUME NEW w \in Workers, Boot(w) PROVE ClaimIsExclusive'
    BY <1>2 DEF Boot
  <1>3. ASSUME NEW w \in Workers, RequeueOnInit(w) \/ InitFails(w)
        PROVE  ClaimIsExclusive'
    BY <1>1, <1>3, RequeueRunningTable DEF RequeueOnInit, InitFails, Fault
  <1>4. ASSUME NEW w \in Workers, Crash(w) PROVE ClaimIsExclusive'
    BY <1>1, <1>4 DEF Crash
  <1>5. ASSUME NEW t \in Ticks, Tick(t) PROVE ClaimIsExclusive'
    BY <1>1, <1>5 DEF Tick
  <1>6. ASSUME NEW t \in Ticks, ClaimNothing(t) PROVE ClaimIsExclusive'
    BY <1>1, <1>6 DEF ClaimNothing, Return
  <1>7. ASSUME NEW t \in Ticks, ClaimSelect(t) PROVE ClaimIsExclusive'
    <2>1. PICK j \in JobIds : IsNextPending(jobs, Locked, j) /\ held' = [held EXCEPT ![t] = j]
      BY <1>7 DEF ClaimSelect
    <2>2. jobs[j].status = "pending" /\ \A u \in Ticks : pc[u] = "selected" => held[u] # j
      BY <2>1 DEF IsNextPending, Claimable, Locked
    <2>3. QED
      BY <1>7, <2>1, <2>2 DEF ClaimSelect
  <1>8. ASSUME NEW t \in Ticks, ClaimCommit(t) PROVE ClaimIsExclusive'
    <2>1. \A u \in Ticks \ {t} : pc[u] = "selected" => jobs'[held[u]] = jobs[held[u]]
      BY <1>8 DEF ClaimCommit
    <2>2. QED
      BY <1>1, <1>8, <2>1 DEF ClaimCommit
  <1>9. ASSUME NEW t \in Ticks, ClaimFails(t) PROVE ClaimIsExclusive'
    <2>1. \A u \in Ticks \ {t} : pc[u] = "selected" => jobs'[held[u]] = jobs[held[u]]
      BY <1>9 DEF ClaimFails, Fault
    <2>2. QED
      BY <1>1, <1>9, <2>1 DEF ClaimFails, Return
  <1>10. ASSUME NEW t \in Ticks, HandleReturns(t) \/ HandleThrows(t)
         PROVE  ClaimIsExclusive'
    BY <1>1, <1>10 DEF HandleReturns, HandleThrows, OnError
  <1>11. ASSUME NEW t \in Ticks,
                MarkDone(t) \/ MarkForRetry(t) \/ MarkFailed(t) \/ SaveFails(t)
         PROVE  ClaimIsExclusive'
    <2>1. \A u \in Ticks : pc[u] = "selected" => jobs'[held[u]] = jobs[held[u]]
      BY <1>11 DEF MarkDone, MarkForRetry, MarkFailed, SaveFails, Fault, Locked
    <2>2. QED
      BY <1>1, <1>11, <2>1 DEF MarkDone, MarkForRetry, MarkFailed, SaveFails, Return
  <1>12. ASSUME NEW t \in Ticks, MarkDoneFails(t) PROVE ClaimIsExclusive'
    <2>1. \A u \in Ticks : pc[u] = "selected" => jobs'[held[u]] = jobs[held[u]]
      BY <1>12 DEF MarkDoneFails, Fault, Locked
    <2>2. QED
      BY <1>1, <1>12, <2>1 DEF MarkDoneFails, OnError
  <1>13. ASSUME NEW j \in JobIds, NEW c \in Classes, Dispatch(j, c)
         PROVE  ClaimIsExclusive'
    BY <1>1, <1>13 DEF Dispatch
  <1>14. ASSUME NEW c \in Clis, NEW j \in JobIds, CliCheck(c, j) PROVE ClaimIsExclusive'
    BY <1>14 DEF CliCheck
  <1>15. CASE (\E c \in Clis : CliRequeueOne(c)) \/ CliRequeueAll
    <2>1. /\ \E ids : jobs' = RequeueFailed(jobs, ids)
          /\ UNCHANGED <<pc, held>>
      BY <1>15 DEF CliRequeueOne, CliRequeueAll
    <2>2. QED
      BY <1>1, <2>1, RequeueFailedTable
  <1>16. CASE UNCHANGED vars
    BY <1>16 DEF vars
  <1>17. QED
    BY <1>2, <1>3, <1>4, <1>5, <1>6, <1>7, <1>8, <1>9, <1>10, <1>11, <1>12, <1>13,
       <1>14, <1>15, <1>16 DEF Next, TickStep

\* An open claim owns its row, whatever other workers, restarts and requeues do.
THEOREM ClaimOwnsItsRow == Spec => []ClaimIsExclusive
  <1>1. Init => ClaimIsExclusive
    BY DEF Init, ClaimIsExclusive
  <1>2. QED
    BY <1>1, TypeInit, TypeStep, ClaimStep, PTL DEF Spec

-----------------------------------------------------------------------------
(* What is left behind: any number of workers.                             *)

\* While every worker is up, the rows that nobody runs are no more than the
\* statements that failed; a worker that starts takes them all away.
AllUp == \A w \in Workers : proc[w] = "up"

\* Where a call has a row it has claimed.
Running == {"handling", "finishing", "retrying", "failing"}

StrandInv == AllUp => IsFiniteSet(Stranded) /\ Cardinality(Stranded) <= faults

\* Steps that leave nothing behind.
LEMMA StrandsNone ==
    ASSUME TypeInv, StrandInv, AllUp, Stranded' \subseteq Stranded, faults' = faults
    PROVE  StrandInv'
  <1>1. IsFiniteSet(Stranded) /\ Cardinality(Stranded) <= faults
    BY DEF StrandInv
  <1>2. IsFiniteSet(Stranded') /\ Cardinality(Stranded') <= Cardinality(Stranded)
    BY <1>1, FS_Subset
  <1>3. Cardinality(Stranded) \in Nat /\ Cardinality(Stranded') \in Nat /\ faults \in Nat
    BY <1>1, <1>2, FS_CardinalityType DEF TypeInv, TypeOK
  <1>4. QED
    BY <1>1, <1>2, <1>3 DEF StrandInv

\* A statement that fails leaves at most one job behind.
LEMMA StrandsOne ==
    ASSUME TypeInv, StrandInv, AllUp, NEW j, Stranded' \subseteq Stranded \cup {j},
           faults' = faults + 1
    PROVE  StrandInv'
  <1> DEFINE more == Stranded \cup {j}
  <1>1. IsFiniteSet(Stranded) /\ Cardinality(Stranded) <= faults
    BY DEF StrandInv
  <1>2. /\ IsFiniteSet(more)
        /\ Cardinality(more) = IF j \in Stranded THEN Cardinality(Stranded)
                                                 ELSE Cardinality(Stranded) + 1
    BY <1>1, FS_AddElement
  <1>3. Stranded' \in SUBSET more
    OBVIOUS
  <1>4. IsFiniteSet(Stranded') /\ Cardinality(Stranded') <= Cardinality(more)
    BY <1>2, <1>3, FS_Subset
  <1>5. /\ Cardinality(Stranded) \in Nat /\ Cardinality(Stranded') \in Nat
        /\ Cardinality(more) \in Nat /\ faults \in Nat
    BY <1>1, <1>2, <1>4, FS_CardinalityType DEF TypeInv, TypeOK
  <1>6. QED
    BY <1>1, <1>2, <1>4, <1>5 DEF StrandInv

\* A step of one call that writes at most its own row leaves nothing behind when
\* it goes on with that row, or had none.
LEMMA CallStrands ==
    ASSUME NEW t \in Ticks,
           \A u \in Ticks \ {t} : pc'[u] = pc[u] /\ held'[u] = held[u],
           \A j \in JobIds \ {held[t]} : jobs'[j] = jobs[j],
           \/ held'[t] = held[t] /\ pc'[t] \in Running
           \/ jobs' = jobs /\ pc[t] \notin Running
    PROVE  Stranded' \subseteq Stranded
  BY DEF Stranded, IdsWith, Status, Running

LEMMA StrandStep == TypeInv /\ StrandInv /\ [Next]_vars => StrandInv'
  <1> SUFFICES ASSUME TypeInv, StrandInv, [Next]_vars PROVE StrandInv'
    OBVIOUS
  <1> USE DEF counters
  <1>1. /\ jobs \in [JobIds -> Row] /\ proc \in [Workers -> {"down", "init", "up"}]
        /\ pc \in [Ticks -> PcStates] /\ held \in [Ticks -> JobIds \cup {NoJob}]
        /\ NoJob \notin JobIds /\ faults \in Nat
        /\ \A t \in Ticks : WithJob(t) => held[t] \in JobIds
    BY QueueWorkerAssumption DEF TypeInv, TypeOK, HeldOK
  <1>2. ASSUME NEW w \in Workers, Boot(w) \/ InitFails(w) \/ Crash(w) PROVE StrandInv'
    BY <1>1, <1>2 DEF Boot, InitFails, Crash, StrandInv, AllUp
  <1>3. ASSUME NEW w \in Workers, RequeueOnInit(w) PROVE StrandInv'
    <2>1. \A j \in JobIds : jobs'[j].status # "running"
      BY <1>1, <1>3, RequeueRunningTable DEF RequeueOnInit
    <2>2. Stranded' = {}
      BY <2>1 DEF Stranded, IdsWith, Status
    <2>3. QED
      BY <1>1, <1>3, <2>2, FS_EmptySet DEF StrandInv, RequeueOnInit
  \* The other steps leave the processes as they are.
  <1>4. ASSUME UNCHANGED <<proc, faults>>, Stranded' \subseteq Stranded PROVE StrandInv'
    BY <1>4, StrandsNone DEF StrandInv, AllUp
  <1>5. ASSUME NEW j, UNCHANGED proc, faults' = faults + 1, Stranded' \subseteq Stranded \cup {j}
        PROVE  StrandInv'
    BY <1>5, StrandsOne DEF StrandInv, AllUp
  <1>6. ASSUME NEW t \in Ticks,
               Tick(t) \/ ClaimNothing(t) \/ ClaimSelect(t) \/ HandleReturns(t) \/ HandleThrows(t)
        PROVE  StrandInv'
    <2>1. /\ \A u \in Ticks \ {t} : pc'[u] = pc[u] /\ held'[u] = held[u]
          /\ jobs' = jobs /\ UNCHANGED <<proc, faults>>
      BY <1>1, <1>6 DEF Tick, ClaimNothing, ClaimSelect, HandleReturns, HandleThrows, OnError, Return
    <2>2. \/ pc[t] \notin Running
          \/ held'[t] = held[t] /\ pc'[t] \in Running
      BY <1>1, <1>6 DEF Tick, ClaimNothing, ClaimSelect, HandleReturns, HandleThrows, OnError, Running
    <2>3. QED
      BY <1>4, <2>1, <2>2, CallStrands
  <1>7. ASSUME NEW t \in Ticks, ClaimCommit(t) \/ MarkDone(t) \/ MarkForRetry(t) \/ MarkFailed(t)
        PROVE  StrandInv'
    <2>1. held[t] \in JobIds /\ jobs[held[t]] \in Row
      BY <1>1, <1>7 DEF ClaimCommit, MarkDone, MarkForRetry, MarkFailed, WithJob
    <2>2. /\ \A u \in Ticks \ {t} : pc'[u] = pc[u] /\ held'[u] = held[u]
          /\ \A j \in JobIds \ {held[t]} : jobs'[j] = jobs[j]
          /\ UNCHANGED <<proc, faults>>
      BY <1>1, <1>7 DEF ClaimCommit, MarkDone, MarkForRetry, MarkFailed, Return
    <2>3. CASE ClaimCommit(t)
      <3>1. held' = held /\ pc'[t] \in Running
        BY <1>1, <2>3 DEF ClaimCommit, Running
      <3>2. QED
        BY <1>4, <2>2, <3>1, CallStrands
    <2>4. CASE MarkDone(t) \/ MarkForRetry(t) \/ MarkFailed(t)
      <3>1. jobs'[held[t]].status # "running"
        BY <1>1, <2>1, <2>4, MarkedRow DEF MarkDone, MarkForRetry, MarkFailed
      <3>2. \A j \in Stranded' : j # held[t]
        BY <3>1 DEF Stranded, IdsWith, Status
      <3>3. Stranded' \subseteq Stranded
        BY <2>2, <3>2 DEF Stranded, IdsWith, Status
      <3>4. QED
        BY <1>4, <2>2, <3>3
    <2>5. QED
      BY <1>7, <2>3, <2>4
  <1>8. ASSUME NEW t \in Ticks, ClaimFails(t) \/ MarkDoneFails(t) \/ SaveFails(t)
        PROVE  StrandInv'
    <2>1. /\ \A u \in Ticks \ {t} : pc'[u] = pc[u] /\ held'[u] = held[u]
          /\ \A j \in JobIds \ {held[t]} : jobs'[j] = jobs[j]
          /\ UNCHANGED proc /\ faults' = faults + 1
      BY <1>1, <1>8 DEF ClaimFails, MarkDoneFails, SaveFails, Fault, OnError, Return
    <2>2. Stranded' \subseteq Stranded \cup {held[t]}
      BY <2>1 DEF Stranded, IdsWith, Status
    <2>3. QED
      BY <1>5, <2>1, <2>2
  <1>9. ASSUME UNCHANGED <<proc, pc, held, faults>>,
               \A j \in JobIds : jobs'[j].status = "running" => jobs[j].status = "running"
        PROVE  StrandInv'
    <2>1. Stranded' \subseteq Stranded
      BY <1>9 DEF Stranded, IdsWith, Status
    <2>2. QED
      BY <1>4, <1>9, <2>1
  <1>10. ASSUME NEW j \in JobIds, NEW c \in Classes, Dispatch(j, c) PROVE StrandInv'
    BY <1>1, <1>9, <1>10, InsertedRow DEF Dispatch
  <1>11. ASSUME (\E c \in Clis : CliRequeueOne(c)) \/ CliRequeueAll PROVE StrandInv'
    <2>1. /\ \E ids : jobs' = RequeueFailed(jobs, ids)
          /\ UNCHANGED <<proc, pc, held, faults>>
      BY <1>11 DEF CliRequeueOne, CliRequeueAll
    <2>2. \A j \in JobIds : jobs'[j].status = "running" => jobs[j].status = "running"
      BY <1>1, <2>1 DEF RequeueFailed, Inserted, NoRow
    <2>3. QED
      BY <1>9, <2>1, <2>2
  <1>12. CASE UNCHANGED <<jobs, proc, pc, held, faults>>
    BY <1>9, <1>12
  <1>13. QED
    BY <1>2, <1>3, <1>6, <1>7, <1>8, <1>10, <1>11, <1>12 DEF Next, TickStep, CliCheck, vars

\* OnlyFaultsStrand: whatever crashes, restarts and requeues do, a job is left
\* behind only with a statement that failed, for any number of workers.
THEOREM StrandedIsPaidFor == Spec => []OnlyFaultsStrand
  <1>1. Init => StrandInv
    <2> SUFFICES ASSUME Init PROVE StrandInv
      OBVIOUS
    <2>1. Stranded = {}
      BY DEF Init, Stranded, IdsWith, Status, NoRow
    <2>2. QED
      BY <2>1, FS_EmptySet DEF Init, StrandInv
  <1>2. StrandInv => OnlyFaultsStrand
    BY DEF StrandInv, AllUp, OnlyFaultsStrand
  <1>3. QED
    BY <1>1, <1>2, TypeInit, TypeStep, StrandStep, PTL DEF Spec

-----------------------------------------------------------------------------
(* One worker.  The inductive invariant has a part for every row and a     *)
(* part for every call.                                                    *)

OneWorker == \A v, w \in Workers : v = w

\* A row's stamps fit its status; its attempts leave room for the claim that
\* is still to come; it failed only after its last attempt.  n is the number
\* of crashes so far.
RowOK(r, n) ==
    /\ r.status # "absent" => r.class \in Classes
    /\ r.status \in {"absent", "pending"} => r.started_at = "null" /\ r.finished_at = "null"
    /\ r.status = "running" => r.started_at = "set" /\ r.finished_at = "null"
    /\ r.status \in {"done", "failed"} => r.started_at = "set" /\ r.finished_at = "set"
    /\ r.status = "done" => r.error = "null"
    /\ r.status = "failed" => r.error = "text"
    /\ r.status = "pending" => r.attempts + 1 <= MaxAttempts(r.class) + n
    /\ r.status \in {"running", "done", "failed"} =>
          1 <= r.attempts /\ r.attempts <= MaxAttempts(r.class) + n
    /\ r.status = "failed" /\ r.class \in Registered => r.attempts >= MaxAttempts(r.class)

RowsInv == \A j \in JobIds : RowOK(jobs[j], crashes)

\* A row left running by a process that is gone was interrupted by a crash
\* that has not been made use of: one more attempt is allowed for it.
InterruptedInv ==
    (\E w \in Workers : proc[w] # "up") =>
        \A j \in JobIds : jobs[j].status = "running" =>
            jobs[j].attempts + 1 <= MaxAttempts(jobs[j].class) + crashes

\* The call and its row agree.  After an error of markDone the row may be
\* done already.
CallsInv ==
    \A t \in Ticks :
        /\ pc[t] \in {"handling", "finishing"} => jobs[held[t]].status = "running"
        /\ pc[t] \in {"retrying", "failing"} => jobs[held[t]].status \in {"running", "done"}
        /\ pc[t] \in {"handling", "finishing", "retrying", "failing"} =>
              jobs[held[t]].attempts = seen[t]
        /\ pc[t] = "retrying" => seen[t] < MaxAttempts(jobs[held[t]].class)
        /\ pc[t] = "failing" /\ jobs[held[t]].class \in Registered =>
              seen[t] >= MaxAttempts(jobs[held[t]].class)

\* What the two groups above prove for any number of workers.
SharedInv == TypeInv /\ BusyInv /\ ClaimIsExclusive

WorkerInv == SharedInv /\ RowsInv /\ InterruptedInv /\ CallsInv

\* A row that waits for its claim keeps its promise when it is claimed.
LEMMA ClaimKeepsRowOK ==
    ASSUME NEW r \in Row, NEW n \in Nat, RowOK(r, n), r.status = "pending"
    PROVE  RowOK(Claimed(r), n)
  <1>1. r.class \in Classes /\ r.attempts \in Nat
    BY DEF RowOK, Row
  <1>2. QED
    BY <1>1, ClaimedRow, MaxAttemptsPositive DEF RowOK

\* A row that is run keeps its promise when the call ends.
LEMMA EndKeepsRowOK ==
    ASSUME NEW r \in Row, NEW n \in Nat, RowOK(r, n), r.status \in {"running", "done"}
    PROVE  /\ RowOK(MarkedDone(r), n)
           /\ (r.class \in Registered => r.attempts >= MaxAttempts(r.class))
                => RowOK(MarkedFailed(r), n)
           /\ r.attempts < MaxAttempts(r.class) => RowOK(MarkedForRetry(r), n)
  <1>1. r.class \in Classes /\ r.attempts \in Nat
    BY DEF RowOK, Row
  <1>2. MaxAttempts(r.class) \in Nat
    BY <1>1, MaxAttemptsPositive
  <1>3. RowOK(MarkedDone(r), n)
    BY <1>1, <1>2, MarkedRow DEF RowOK
  <1>4. ASSUME r.class \in Registered => r.attempts >= MaxAttempts(r.class)
        PROVE  RowOK(MarkedFailed(r), n)
    BY <1>1, <1>2, <1>4, MarkedRow DEF RowOK
  <1>5. ASSUME r.attempts < MaxAttempts(r.class)
        PROVE  RowOK(MarkedForRetry(r), n)
    BY <1>1, <1>2, <1>5, MarkedRow DEF RowOK
  <1>6. QED
    BY <1>3, <1>4, <1>5

\* A new row keeps its promise.
LEMMA InsertedRowOK ==
    ASSUME NEW c \in Classes, NEW n \in Nat
    PROVE  RowOK(Inserted(c), n)
  BY InsertedRow, MaxAttemptsPositive DEF RowOK

\* So does a row while the number of crashes grows.
LEMMA CrashKeepsRowOK ==
    ASSUME NEW r \in Row, NEW n \in Nat, RowOK(r, n)
    PROVE  /\ RowOK(r, n + 1)
           /\ r.status = "running" => r.attempts + 1 <= MaxAttempts(r.class) + (n + 1)
  <1>1. CASE r.status = "absent"
    BY <1>1 DEF RowOK
  <1>2. CASE r.status # "absent"
    <2>1. r.class \in Classes /\ r.attempts \in Nat
      BY <1>2 DEF RowOK, Row
    <2>2. MaxAttempts(r.class) \in Nat
      BY <2>1, MaxAttemptsPositive
    <2>3. QED
      BY <2>1, <2>2 DEF RowOK
  <1>3. QED
    BY <1>1, <1>2

\* With one worker a call under way is the only one, and the worker is up.
LEMMA OnlyCall ==
    ASSUME OneWorker, SharedInv, NEW t \in Ticks, Active(t)
    PROVE  /\ \A u \in Ticks : u # t => pc[u] = "off"
           /\ \A w \in Workers : proc[w] = "up"
  <1>1. \A u \in Ticks : Of[u] \in Workers
    BY QueueWorkerAssumption
  <1>2. \A u \in Ticks : Of[u] = Of[t]
    BY <1>1 DEF OneWorker
  <1>3. QED
    BY <1>1, <1>2 DEF OneWorker, SharedInv, BusyInv, OneCallAtATime, Active

\* Nothing is under way while the worker is starting.
LEMMA NoCallInInit ==
    ASSUME OneWorker, SharedInv, NEW w \in Workers, proc[w] # "up"
    PROVE  \A t \in Ticks : pc[t] = "off"
  <1>1. \A t \in Ticks : Of[t] = w
    BY QueueWorkerAssumption DEF OneWorker
  <1>2. QED
    BY <1>1 DEF SharedInv, BusyInv, Active

\* What a step of a call may write: its own row, in a way that keeps RowOK.
LEMMA CallWrite ==
    ASSUME OneWorker, WorkerInv, NEW t \in Ticks, Active(t), WithJob(t),
           NEW r, RowOK(r, crashes),
           jobs' \in {jobs, [jobs EXCEPT ![held[t]] = r]},
           UNCHANGED <<proc, crashes>>
    PROVE  RowsInv' /\ InterruptedInv'
  <1>1. \A w \in Workers : proc[w] = "up"
    BY OnlyCall DEF WorkerInv
  <1>2. held[t] \in JobIds /\ jobs \in [JobIds -> Row]
    BY DEF WorkerInv, SharedInv, TypeInv, TypeOK, HeldOK
  <1>3. RowsInv'
    BY <1>2 DEF WorkerInv, RowsInv
  <1>4. InterruptedInv'
    BY <1>1 DEF InterruptedInv
  <1>5. QED
    BY <1>3, <1>4

\* The rows of calls, as the lemmas about rows need them.
LEMMA CallRow ==
    ASSUME WorkerInv, NEW t \in Ticks, WithJob(t)
    PROVE  /\ held[t] \in JobIds
           /\ jobs[held[t]] \in Row
           /\ RowOK(jobs[held[t]], crashes)
           /\ crashes \in Nat
  BY DEF WorkerInv, SharedInv, TypeInv, TypeOK, HeldOK, RowsInv

\* Steps of calls keep the rows' part.
LEMMA CallKeepsRows ==
    ASSUME OneWorker, WorkerInv, NEW t \in Ticks,
           ClaimCommit(t) \/ ClaimFails(t) \/ MarkDone(t) \/ MarkDoneFails(t)
             \/ MarkForRetry(t) \/ MarkFailed(t) \/ SaveFails(t)
    PROVE  RowsInv' /\ InterruptedInv'
  <1> USE DEF Active, WithJob, counters, Fault
  <1>1. CASE ClaimCommit(t)
    <2>1. RowOK(Claimed(jobs[held[t]]), crashes)
      BY <1>1, CallRow, ClaimKeepsRowOK
         DEF ClaimCommit, WorkerInv, SharedInv, ClaimIsExclusive, Status
    <2>2. QED
      BY <1>1, <2>1, CallWrite DEF ClaimCommit
  <1>2. CASE ClaimFails(t)
    <2>1. CASE pc[t] = "claiming"
      BY <1>2, <2>1 DEF ClaimFails, WorkerInv, RowsInv, InterruptedInv
    <2>2. CASE pc[t] = "selected"
      <3>1. RowOK(Claimed(jobs[held[t]]), crashes)
        BY <2>2, CallRow, ClaimKeepsRowOK
           DEF WorkerInv, SharedInv, ClaimIsExclusive, Status
      <3>2. QED
        BY <1>2, <2>2, <3>1, CallWrite DEF ClaimFails
    <2>3. QED
      BY <1>2, <2>1, <2>2 DEF ClaimFails
  <1>3. CASE MarkDone(t) \/ MarkDoneFails(t)
    <2>1. RowOK(MarkedDone(jobs[held[t]]), crashes)
      BY <1>3, CallRow, EndKeepsRowOK DEF MarkDone, MarkDoneFails, WorkerInv, CallsInv
    <2>2. QED
      BY <1>3, <2>1, CallWrite DEF MarkDone, MarkDoneFails
  <1>4. CASE pc[t] = "retrying" /\ (MarkForRetry(t) \/ SaveFails(t))
    <2>1. RowOK(MarkedForRetry(jobs[held[t]]), crashes)
      BY <1>4, CallRow, EndKeepsRowOK DEF WorkerInv, CallsInv
    <2>2. QED
      BY <1>4, <2>1, CallWrite DEF MarkForRetry, SaveFails
  <1>5. CASE pc[t] = "failing" /\ (MarkFailed(t) \/ SaveFails(t))
    <2>1. RowOK(MarkedFailed(jobs[held[t]]), crashes)
      BY <1>5, CallRow, EndKeepsRowOK DEF WorkerInv, CallsInv
    <2>2. QED
      BY <1>5, <2>1, CallWrite DEF MarkFailed, SaveFails
  <1>6. QED
    BY <1>1, <1>2, <1>3, <1>4, <1>5 DEF MarkForRetry, MarkFailed, SaveFails

\* Requeueing on start uses up the attempt an interruption left room for.
LEMMA RequeueKeepsRows ==
    ASSUME WorkerInv, NEW w \in Workers, proc[w] # "up", NEW j \in JobIds
    PROVE  /\ RowOK(RequeueRunning(jobs)[j], crashes)
           /\ RequeueRunning(jobs)[j].status # "running"
  <1>1. jobs[j] \in Row /\ RowOK(jobs[j], crashes)
    BY DEF WorkerInv, SharedInv, TypeInv, TypeOK, RowsInv
  <1>2. jobs \in [JobIds -> Row]
    BY DEF WorkerInv, SharedInv, TypeInv, TypeOK
  <1>3. CASE jobs[j].status = "running"
    <2>1. jobs[j].attempts + 1 <= MaxAttempts(jobs[j].class) + crashes
      BY <1>3 DEF WorkerInv, InterruptedInv
    <2>2. QED
      BY <1>1, <1>2, <1>3, <2>1, RequeueRunningTable DEF RowOK
  <1>4. CASE jobs[j].status # "running"
    BY <1>1, <1>2, <1>4, RequeueRunningTable
  <1>5. QED
    BY <1>3, <1>4

\* Every step keeps the rows' part of the invariant.
LEMMA RowsStep ==
    ASSUME OneWorker, WorkerInv, [Next]_vars
    PROVE  RowsInv' /\ InterruptedInv'
  <1>1. jobs \in [JobIds -> Row] /\ crashes \in Nat
    BY DEF WorkerInv, SharedInv, TypeInv, TypeOK
  <1>2. ASSUME NEW w \in Workers, Boot(w) PROVE RowsInv' /\ InterruptedInv'
    BY <1>2 DEF Boot, counters, WorkerInv, SharedInv, TypeInv, TypeOK, RowsInv, InterruptedInv
  <1>3. ASSUME NEW w \in Workers, RequeueOnInit(w) PROVE RowsInv' /\ InterruptedInv'
    BY <1>3, RequeueKeepsRows DEF RequeueOnInit, counters, RowsInv, InterruptedInv
  <1>4. ASSUME NEW w \in Workers, InitFails(w) PROVE RowsInv' /\ InterruptedInv'
    <2>1. CASE jobs' = jobs
      BY <1>4, <2>1 DEF InitFails, Fault, WorkerInv, RowsInv, InterruptedInv
    <2>2. CASE jobs' = RequeueRunning(jobs)
      BY <1>4, <2>2, RequeueKeepsRows DEF InitFails, Fault, RowsInv, InterruptedInv
    <2>3. QED
      BY <1>4, <2>1, <2>2 DEF InitFails, Fault
  <1>5. ASSUME NEW w \in Workers, Crash(w) PROVE RowsInv' /\ InterruptedInv'
    BY <1>1, <1>5, CrashKeepsRowOK DEF Crash, WorkerInv, RowsInv, InterruptedInv
  <1>6. ASSUME NEW j \in JobIds, NEW c \in Classes, Dispatch(j, c)
        PROVE  RowsInv' /\ InterruptedInv'
    <2>1. \A k \in JobIds : jobs'[k] = IF k = j THEN Inserted(c) ELSE jobs[k]
      BY <1>1, <1>6 DEF Dispatch
    <2>2. RowOK(Inserted(c), crashes) /\ Inserted(c).status # "running"
      BY <1>1, InsertedRowOK, InsertedRow
    <2>3. QED
      BY <1>6, <2>1, <2>2 DEF Dispatch, counters, WorkerInv, RowsInv, InterruptedInv
  <1>7. CASE (\E c \in Clis : CliRequeueOne(c)) \/ CliRequeueAll
    <2>1. PICK ids : jobs' = RequeueFailed(jobs, ids)
      BY <1>7 DEF CliRequeueOne, CliRequeueAll
    <2>2. \A k \in JobIds : jobs[k].status # "failed" => jobs'[k] = jobs[k]
      BY <1>1, <2>1, RequeueFailedTable
    <2>3. \A k \in JobIds : jobs[k].status = "failed" =>
              /\ jobs[k].class \in Classes
              /\ jobs'[k] \in {jobs[k], Inserted(jobs[k].class)}
      BY <1>1, <2>1, RequeueFailedTable DEF WorkerInv, RowsInv, RowOK
    <2>4. \A k \in JobIds : RowOK(jobs'[k], crashes)
      BY <1>1, <2>2, <2>3, InsertedRowOK DEF WorkerInv, RowsInv
    <2>5. \A k \in JobIds : jobs'[k].status = "running" => jobs'[k] = jobs[k]
      BY <2>2, <2>3, InsertedRow
    <2>6. UNCHANGED <<proc, crashes>>
      BY <1>7 DEF CliRequeueOne, CliRequeueAll, counters
    <2>7. QED
      BY <2>4, <2>5, <2>6 DEF WorkerInv, RowsInv, InterruptedInv
  <1>8. CASE UNCHANGED <<jobs, proc, crashes>>
    BY <1>8 DEF WorkerInv, RowsInv, InterruptedInv
  <1>9. QED
    BY <1>2, <1>3, <1>4, <1>5, <1>6, <1>7, <1>8, CallKeepsRows
       DEF Next, TickStep, Tick, ClaimNothing, ClaimSelect, HandleReturns, HandleThrows,
           CliCheck, vars, counters

\* A step that leaves every call and its row alone keeps the calls' part.
LEMMA UntouchedCalls ==
    ASSUME CallsInv, SharedInv, UNCHANGED <<pc, held, seen>>,
           \A j \in JobIds : jobs[j].status \in {"running", "done"} => jobs'[j] = jobs[j]
    PROVE  CallsInv'
  BY DEF CallsInv, SharedInv, TypeInv, HeldOK, WithJob

\* So does a step after which nothing is under way.
LEMMA NoCalls == ASSUME \A t \in Ticks : pc'[t] = "off" PROVE CallsInv'
  BY DEF CallsInv

\* Every step keeps the calls' part of the invariant.
LEMMA CallsStep ==
    ASSUME OneWorker, WorkerInv, [Next]_vars
    PROVE  CallsInv'
  <1> USE DEF WorkerInv, SharedInv, TypeInv, TypeOK, HeldOK, WithJob, Active, counters
  <1>1. ASSUME NEW w \in Workers, Boot(w) PROVE CallsInv'
    BY <1>1, UntouchedCalls DEF Boot
  <1>2. ASSUME NEW w \in Workers, RequeueOnInit(w) \/ InitFails(w) PROVE CallsInv'
    BY <1>2, NoCallInInit, NoCalls DEF RequeueOnInit, InitFails
  <1>3. ASSUME NEW w \in Workers, Crash(w) PROVE CallsInv'
    <2>1. \A t \in Ticks : Of[t] = w
      BY QueueWorkerAssumption DEF OneWorker
    <2>2. QED
      BY <1>3, <2>1, NoCalls DEF Crash
  <1>4. ASSUME NEW t \in Ticks, Tick(t) PROVE CallsInv'
    BY <1>4 DEF Tick, CallsInv, PcStates
  <1>5. ASSUME NEW t \in Ticks, ClaimSelect(t) PROVE CallsInv'
    BY <1>5, OnlyCall DEF ClaimSelect, CallsInv, PcStates
  <1>6. ASSUME NEW t \in Ticks, Active(t), Return(t) PROVE CallsInv'
    BY <1>6, OnlyCall, NoCalls DEF Return
  <1>7. ASSUME NEW t \in Ticks, ClaimCommit(t) PROVE CallsInv'
    <2>1. held[t] \in JobIds /\ jobs[held[t]] \in Row
      BY <1>7 DEF ClaimCommit
    <2>2. jobs'[held[t]] = Claimed(jobs[held[t]]) /\ seen'[t] = jobs[held[t]].attempts + 1
      BY <1>7, <2>1 DEF ClaimCommit
    <2>3. pc'[t] = (IF jobs[held[t]].class \in Registered THEN "handling" ELSE "failing")
          /\ held' = held
      BY <1>7 DEF ClaimCommit
    <2>4. \A u \in Ticks : u # t => pc'[u] = "off"
      BY <1>7, OnlyCall DEF ClaimCommit
    <2>5. QED
      BY <2>1, <2>2, <2>3, <2>4, ClaimedRow DEF CallsInv
  <1>8. ASSUME NEW t \in Ticks, HandleReturns(t) PROVE CallsInv'
    BY <1>8, OnlyCall DEF HandleReturns, CallsInv
  <1>9. ASSUME NEW t \in Ticks, pc[t] \in {"handling", "finishing"}, OnError(t),
               UNCHANGED <<held, seen>>,
               jobs' \in {jobs, [jobs EXCEPT ![held[t]] = MarkedDone(@)]}
        PROVE  CallsInv'
    <2>1. /\ held[t] \in JobIds /\ jobs[held[t]] \in Row
          /\ RowOK(jobs[held[t]], crashes)
          /\ jobs[held[t]].status = "running" /\ jobs[held[t]].attempts = seen[t]
      BY <1>9, CallRow DEF CallsInv
    <2>2. /\ jobs'[held[t]].status \in {"running", "done"}
          /\ jobs'[held[t]].attempts = seen[t]
          /\ jobs'[held[t]].class = jobs[held[t]].class
      BY <1>9, <2>1, MarkedRow
    <2>3. \A u \in Ticks : u # t => pc'[u] = "off"
      BY <1>9, OnlyCall DEF OnError
    <2>4. pc'[t] = (IF seen[t] < MaxAttempts(jobs[held[t]].class) THEN "retrying"
                                                                 ELSE "failing")
      BY <1>9 DEF OnError
    <2>5. seen[t] \in Nat /\ MaxAttempts(jobs[held[t]].class) \in Nat
      BY <2>1, MaxAttemptsPositive DEF RowOK
    <2>6. QED
      BY <1>9, <2>2, <2>3, <2>4, <2>5 DEF CallsInv
  <1>10. ASSUME NEW t \in Ticks, HandleThrows(t) \/ MarkDoneFails(t) PROVE CallsInv'
    BY <1>9, <1>10 DEF HandleThrows, MarkDoneFails, Fault
  <1>11. ASSUME NEW t \in Ticks,
                ClaimNothing(t) \/ ClaimFails(t) \/ MarkDone(t) \/ MarkForRetry(t)
                  \/ MarkFailed(t) \/ SaveFails(t)
         PROVE  CallsInv'
    BY <1>6, <1>11 DEF ClaimNothing, ClaimFails, MarkDone, MarkForRetry, MarkFailed, SaveFails
  <1>12. ASSUME NEW j \in JobIds, NEW c \in Classes, Dispatch(j, c) PROVE CallsInv'
    BY <1>12, UntouchedCalls DEF Dispatch
  <1>13. CASE (\E c \in Clis : CliRequeueOne(c)) \/ CliRequeueAll
    <2>1. /\ \E ids : jobs' = RequeueFailed(jobs, ids)
          /\ UNCHANGED <<pc, held, seen>>
      BY <1>13 DEF CliRequeueOne, CliRequeueAll
    <2>2. QED
      BY <2>1, RequeueFailedTable, UntouchedCalls
  <1>14. CASE UNCHANGED <<jobs, pc, held, seen>>
    BY <1>14, UntouchedCalls
  <1>15. QED
    BY <1>1, <1>2, <1>3, <1>4, <1>5, <1>7, <1>8, <1>10, <1>11, <1>12, <1>13, <1>14
       DEF Next, TickStep, CliCheck, vars

LEMMA WorkerInit == Init => WorkerInv
  <1> SUFFICES ASSUME Init PROVE WorkerInv
    OBVIOUS
  <1>1. SharedInv
    BY TypeInit, BusyInit DEF SharedInv, Init, ClaimIsExclusive
  <1>2. RowsInv /\ InterruptedInv /\ CallsInv
    BY DEF Init, RowsInv, RowOK, InterruptedInv, CallsInv, NoRow
  <1>3. QED
    BY <1>1, <1>2 DEF WorkerInv

\* The invariant is inductive with one worker, whatever the numbers of jobs,
\* of overlapping calls, of crashes, faults and requeues.
LEMMA WorkerInvariant == ASSUME OneWorker PROVE Spec => []WorkerInv
  <1>1. WorkerInv /\ [Next]_vars => WorkerInv'
    <2> SUFFICES ASSUME WorkerInv, [Next]_vars PROVE WorkerInv'
      OBVIOUS
    <2>1. SharedInv'
      BY TypeStep, BusyStep, ClaimStep DEF WorkerInv, SharedInv
    <2>2. QED
      BY <2>1, RowsStep, CallsStep DEF WorkerInv
  <1>2. QED
    BY <1>1, WorkerInit, PTL DEF Spec

\* With one worker nobody takes the job a call is running away from it.
THEOREM HeldJobStaysRunning == ASSUME OneWorker PROVE Spec => []HeldJobIsRunning
  <1>1. WorkerInv => HeldJobIsRunning
    BY DEF WorkerInv, CallsInv, HeldJobIsRunning, Status
  <1>2. QED
    BY <1>1, WorkerInvariant, PTL

\* With one worker a job is attempted at most once more than triesCount for
\* every crash, and is failed only when its attempts are used up.
THEOREM AttemptsAreCounted ==
    ASSUME OneWorker PROVE Spec => [](AttemptsBounded /\ FailedOnlyAfterLastAttempt)
  <1>1. WorkerInv => AttemptsBounded /\ FailedOnlyAfterLastAttempt
    <2> SUFFICES ASSUME WorkerInv, NEW j \in JobIds
                 PROVE  /\ Status(j) \in {"running", "done", "failed"} =>
                            jobs[j].attempts \in 1 .. MaxAttempts(jobs[j].class) + crashes
                        /\ Status(j) = "failed" /\ jobs[j].class \in Registered =>
                            jobs[j].attempts >= MaxAttempts(jobs[j].class)
      BY DEF AttemptsBounded, FailedOnlyAfterLastAttempt, IdsWith
    <2>1. RowOK(jobs[j], crashes) /\ jobs[j] \in Row /\ crashes \in Nat
      BY DEF WorkerInv, RowsInv, SharedInv, TypeInv, TypeOK
    <2>2. jobs[j].attempts \in Nat
      BY <2>1 DEF Row
    <2>3. jobs[j].class \in Classes => MaxAttempts(jobs[j].class) \in Nat
      BY MaxAttemptsPositive
    <2>4. QED
      BY <2>1, <2>2, <2>3 DEF RowOK, Status
  <1>2. QED
    BY <1>1, WorkerInvariant, PTL

\* FailedOnlyAfterLastAttempt: nothing is given up early (one worker).
THEOREM FailedIsLastAttempt ==
    ASSUME OneWorker PROVE Spec => []FailedOnlyAfterLastAttempt
  BY AttemptsAreCounted, PTL

\* With one worker the timestamps and the error of a row always agree with its
\* status.
THEOREM StampsAgree == ASSUME OneWorker PROVE Spec => []StampsConsistent
  <1>1. WorkerInv => StampsConsistent
    BY DEF WorkerInv, RowsInv, RowOK, StampsConsistent
  <1>2. QED
    BY <1>1, WorkerInvariant, PTL
=============================================================================
