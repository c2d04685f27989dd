----------------------- MODULE AnalyzePipelineProofs ------------------------
(***************************************************************************)
(* Proofs about AnalyzePipeline: it implements QueueWorker, so that what   *)
(* is proved there holds here; and the two tables agree, for any number of *)
(* workers, requests, crashes and errors.                                  *)
(***************************************************************************)
EXTENDS AnalyzePipeline, QueueWorkerProofs

-----------------------------------------------------------------------------
(* The pipeline is the queue                                               *)

\* Every step is a step of the queue or leaves it alone.
LEMMA PipeStepIsQueueStep == [PipeNext]_pipeVars => [Next]_vars
  <1> SUFFICES ASSUME [PipeNext]_pipeVars PROVE [Next]_vars
    OBVIOUS
  <1>1. CASE QueueOnly
    BY <1>1 DEF QueueOnly, OwnStep, Next, TickStep
  <1>2. ASSUME NEW w \in Workers, WorkerCrash(w) PROVE [Next]_vars
    BY <1>2 DEF WorkerCrash, Next
  <1>3. ASSUME NEW t \in Ticks, HandleReturns(t) \/ HandleThrows(t) PROVE [Next]_vars
    BY <1>3 DEF Next, TickStep
  <1>4. ASSUME NEW t \in Ticks, HandlerStep(t) \/ StoreFails(t) PROVE [Next]_vars
    BY <1>3, <1>4 DEF HandlerStep, ParseThrows, ParseReturns, EngineAnswers, EngineFails,
                      StoreResult, StoreMissesRow, StoreFails, OtherHandler
  <1>5. ASSUME NEW j \in JobIds, Dispatch(j, AnalyzeClass) PROVE [Next]_vars
    BY <1>5, AnalyzeAssumption, JobTableAssumption DEF Next
  <1>6. ASSUME NEW a \in ApiCalls,
               Post(a) \/ ApiStep(a) \/ LookupFails(a) \/ ItemDispatchFails(a) \/ StoreRowFails(a)
        PROVE  [Next]_vars
    BY <1>5, <1>6 DEF Post, ApiStep, Lookup, LookupFails, ItemExists, ItemDispatch,
                      ItemDispatchFails, StoreRow, StoreRowConflicts, StoreRowFails, Reply
  <1>7. CASE UNCHANGED vars
    BY <1>7
  <1>8. QED
    BY <1>1, <1>2, <1>4, <1>6, <1>7
       DEF PipeNext, Ask, ReadJob, ReadResult, Answer, ApiCrash, pipeVars

\* What the queue promises, the analysis of games on top of it promises too.
THEOREM PipelineIsQueueWorker == PipeSpec => IsQueueWorker
  <1>1. PipeInit => Init
    BY DEF PipeInit
  <1>2. QED
    BY <1>1, PipeStepIsQueueStep, PTL DEF PipeSpec, IsQueueWorker, Spec

LEMMA PipeTypeInv == PipeSpec => []TypeInv
  BY PipelineIsQueueWorker, TypeInit, TypeStep, PTL DEF IsQueueWorker, Spec

-----------------------------------------------------------------------------
(* What a step of the queue can do to a row and to a call                  *)

\* A command of the CLI writes the table in one way only.
LEMMA CliWrites ==
    ASSUME (\E c \in Clis : CliRequeueOne(c)) \/ CliRequeueAll
    PROVE  \E ids : jobs' = RequeueFailed(jobs, ids)
  BY DEF CliRequeueOne, CliRequeueAll

\* A row never goes away and never changes its class.
LEMMA RowsPersist ==
    ASSUME TypeInv, [Next]_vars, NEW j \in JobIds, jobs[j].status # "absent"
    PROVE  jobs'[j].status # "absent" /\ jobs'[j].class = jobs[j].class
  <1> USE DEF Fault, counters
  <1>1. jobs \in [JobIds -> Row] /\ \A t \in Ticks : WithJob(t) => jobs[held[t]] \in Row
    BY DEF TypeInv, TypeOK, HeldOK
  <1>2. ASSUME NEW w \in Workers, RequeueOnInit(w) \/ InitFails(w) \/ Boot(w) \/ Crash(w)
        PROVE  jobs'[j].status # "absent" /\ jobs'[j].class = jobs[j].class
    BY <1>1, <1>2, RequeueRunningTable DEF RequeueOnInit, InitFails, Boot, Crash
  <1>3. ASSUME NEW t \in Ticks,
               ClaimCommit(t) \/ ClaimFails(t) \/ MarkDone(t) \/ MarkDoneFails(t)
                 \/ MarkForRetry(t) \/ MarkFailed(t) \/ SaveFails(t)
        PROVE  jobs'[j].status # "absent" /\ jobs'[j].class = jobs[j].class
    BY <1>1, <1>3, ClaimedRow, MarkedRow
       DEF ClaimCommit, ClaimFails, MarkDone, MarkDoneFails, MarkForRetry, MarkFailed,
           SaveFails, WithJob
  <1>4. ASSUME NEW k \in JobIds, NEW c \in Classes, Dispatch(k, c)
        PROVE  jobs'[j].status # "absent" /\ jobs'[j].class = jobs[j].class
    BY <1>1, <1>4 DEF Dispatch
  <1>5. CASE (\E c \in Clis : CliRequeueOne(c)) \/ CliRequeueAll
    <2>1. PICK ids : jobs' = RequeueFailed(jobs, ids)
      BY <1>5, CliWrites
    <2>2. QED
      BY <1>1, <2>1, RequeueFailedTable, InsertedRow DEF Row
  <1>6. CASE UNCHANGED jobs
    BY <1>6
  <1>7. QED
    BY <1>2, <1>3, <1>4, <1>5, <1>6
       DEF Next, TickStep, Tick, ClaimNothing, ClaimSelect, HandleReturns, HandleThrows,
           CliCheck, vars

\* A job becomes done only under a call that is finishing it.
LEMMA DoneOnlyWhenFinishing ==
    ASSUME TypeInv, [Next]_vars, NEW j \in JobIds,
           jobs[j].status # "done", jobs'[j].status = "done"
    PROVE  \E t \in Ticks : pc[t] = "finishing" /\ held[t] = j
  <1> USE DEF Fault, counters
  <1>1. jobs \in [JobIds -> Row] /\ \A t \in Ticks : WithJob(t) => jobs[held[t]] \in Row
    BY DEF TypeInv, TypeOK, HeldOK
  <1>2. \A w \in Workers : ~(RequeueOnInit(w) \/ InitFails(w) \/ Boot(w) \/ Crash(w))
    BY <1>1, RequeueRunningTable DEF RequeueOnInit, InitFails, Boot, Crash
  <1>3. \A t \in Ticks : ~(ClaimCommit(t) \/ ClaimFails(t) \/ MarkForRetry(t)
                             \/ MarkFailed(t) \/ SaveFails(t))
    BY <1>1, ClaimedRow, MarkedRow
       DEF ClaimCommit, ClaimFails, MarkForRetry, MarkFailed, SaveFails, WithJob
  <1>4. \A k \in JobIds, c \in Classes : ~Dispatch(k, c)
    BY <1>1, InsertedRow DEF Dispatch
  <1>5. (\A c \in Clis : ~CliRequeueOne(c)) /\ ~CliRequeueAll
    <2>1. ASSUME NEW ids, jobs' = RequeueFailed(jobs, ids) PROVE FALSE
      BY <1>1, <2>1, RequeueFailedTable, InsertedRow DEF Row
    <2>2. QED
      BY <2>1, CliWrites
  <1>6. ~UNCHANGED jobs
    OBVIOUS
  <1>7. PICK t \in Ticks : MarkDone(t) \/ MarkDoneFails(t)
    BY <1>2, <1>3, <1>4, <1>5, <1>6
       DEF Next, TickStep, Tick, ClaimNothing, ClaimSelect, HandleReturns, HandleThrows,
           CliCheck, vars
  <1>8. QED
    BY <1>1, <1>7 DEF MarkDone, MarkDoneFails

\* A call comes to finish a job only by its handler's return, and keeps the
\* job while it does.
LEMMA FinishingOnlyAfterHandler ==
    ASSUME TypeInv, [Next]_vars, NEW t \in Ticks, pc'[t] = "finishing"
    PROVE  /\ pc[t] = "finishing" \/ HandleReturns(t)
           /\ held'[t] = held[t]
           /\ WithJob(t)
  <1> USE DEF counters, WithJob, TypeInv, TypeOK, PcStates
  <1>1. CASE \E w \in Workers : RequeueOnInit(w) \/ InitFails(w) \/ Boot(w) \/ Crash(w)
    BY <1>1 DEF RequeueOnInit, InitFails, Boot, Crash
  <1>2. CASE \E u \in Ticks : ClaimNothing(u) \/ ClaimFails(u) \/ MarkDone(u)
                                \/ MarkForRetry(u) \/ MarkFailed(u) \/ SaveFails(u)
    BY <1>2 DEF ClaimNothing, ClaimFails, MarkDone, MarkForRetry, MarkFailed, SaveFails, Return
  <1>3. CASE \E u \in Ticks : Tick(u) \/ ClaimSelect(u) \/ ClaimCommit(u)
    BY <1>3 DEF Tick, ClaimSelect, ClaimCommit
  <1>4. CASE \E u \in Ticks : HandleThrows(u) \/ MarkDoneFails(u)
    BY <1>4 DEF HandleThrows, MarkDoneFails, OnError
  <1>5. CASE \E u \in Ticks : HandleReturns(u)
    BY <1>5 DEF HandleReturns
  <1>6. CASE UNCHANGED <<pc, held>>
    BY <1>6
  <1>7. QED
    BY <1>1, <1>2, <1>3, <1>4, <1>5, <1>6
       DEF Next, TickStep, Dispatch, CliCheck, CliRequeueOne, CliRequeueAll, vars

\* The job of a call has a row.
HeldThere == \A t \in Ticks : WithJob(t) => jobs[held[t]].status # "absent"

LEMMA HeldThereStep ==
    ASSUME TypeInv, HeldThere, [Next]_vars
    PROVE  HeldThere'
  <1> SUFFICES ASSUME NEW t \in Ticks, WithJob(t)'
               PROVE  jobs'[held'[t]].status # "absent"
    BY DEF HeldThere
  <1> USE DEF counters, WithJob
  <1>t. /\ pc \in [Ticks -> PcStates] /\ held \in [Ticks -> JobIds \cup {NoJob}]
        /\ \A u \in Ticks : WithJob(u) => held[u] \in JobIds
    BY DEF TypeInv, TypeOK, HeldOK
  <1>1. CASE \E w \in Workers : RequeueOnInit(w) \/ InitFails(w) \/ Boot(w) \/ Crash(w)
    <2>1. WithJob(t) /\ held'[t] = held[t]
      BY <1>1, <1>t DEF RequeueOnInit, InitFails, Boot, Crash
    <2>2. QED
      BY <1>t, <2>1, RowsPersist DEF HeldThere
  <1>2. CASE \E u \in Ticks : ClaimNothing(u) \/ ClaimFails(u) \/ MarkDone(u)
                                \/ MarkForRetry(u) \/ MarkFailed(u) \/ SaveFails(u)
    <2>1. WithJob(t) /\ held'[t] = held[t]
      BY <1>2, <1>t DEF ClaimNothing, ClaimFails, MarkDone, MarkForRetry, MarkFailed, SaveFails,
                        Return
    <2>2. QED
      BY <1>t, <2>1, RowsPersist DEF HeldThere
  <1>3. CASE \E u \in Ticks : HandleReturns(u) \/ HandleThrows(u) \/ MarkDoneFails(u)
                                \/ ClaimCommit(u) \/ Tick(u)
    <2>1. WithJob(t) /\ held'[t] = held[t]
      BY <1>3, <1>t DEF HandleReturns, HandleThrows, MarkDoneFails, ClaimCommit, Tick, OnError
    <2>2. QED
      BY <1>t, <2>1, RowsPersist DEF HeldThere
  <1>4. ASSUME NEW u \in Ticks, ClaimSelect(u) PROVE jobs'[held'[t]].status # "absent"
    <2>1. CASE u = t
      BY <1>4, <1>t, <2>1 DEF ClaimSelect, IsNextPending, Claimable
    <2>2. CASE u # t
      BY <1>4, <1>t, <2>2 DEF ClaimSelect, HeldThere
    <2>3. QED
      BY <2>1, <2>2
  <1>5. CASE UNCHANGED <<pc, held>>
    <2>1. WithJob(t) /\ held'[t] = held[t]
      BY <1>5
    <2>2. QED
      BY <1>t, <2>1, RowsPersist DEF HeldThere
  <1>6. QED
    BY <1>1, <1>2, <1>3, <1>4, <1>5
       DEF Next, TickStep, Dispatch, CliCheck, CliRequeueOne, CliRequeueAll, vars

-----------------------------------------------------------------------------
(* The invariant of the two tables                                         *)

PipeTyped ==
    /\ payload \in [JobIds -> Sgfs \cup {"none"}]
    /\ results \in [JobIds -> ResultRow]
    /\ calls \in [ApiCalls -> Call]

\* A request between its two INSERTs has a job of its own that nobody else
\* will give a row to.
StoringInv ==
    /\ \A a \in ApiCalls : calls[a].at = "store" =>
         /\ calls[a].job \in JobIds
         /\ IsAnalyze(calls[a].job)
         /\ ~HasRow(calls[a].job)
         /\ calls[a].items # <<>>
         /\ payload[calls[a].job] = Head(calls[a].items)
    /\ \A a, b \in ApiCalls :
         calls[a].at = "store" /\ calls[b].at = "store" /\ calls[a].job = calls[b].job => a = b

\* Ids a request found or made have rows.
KnownInv ==
    \A a \in ApiCalls :
        /\ \A s \in Sgfs : calls[a].known[s] # NoJob => HasRow(calls[a].known[s])
        /\ \A j \in calls[a].ids : HasRow(j)

AckedInv == acked \subseteq JobIds /\ \A j \in acked : HasRow(j)

\* A call that finishes a job of AnalyzeClass has stored its analysis.
FinishingInv ==
    \A t \in Ticks : pc[t] = "finishing" /\ jobs[held[t]].class = AnalyzeClass =>
        results[held[t]].analyze_result = "set"

PipeInv ==
    /\ TypeInv /\ HeldThere /\ PipeTyped
    /\ StoringInv /\ RowMatchesJob
    /\ KnownInv /\ AckedInv
    /\ FinishingInv /\ DoneHasResult

\* The steps that write results.
LEMMA ResultWrites ==
    ASSUME PipeInv, [PipeNext]_pipeVars, NEW j \in JobIds, results'[j] # results[j]
    PROVE  \/ /\ HasRow(j)
              /\ results'[j] = [results[j] EXCEPT !.analyze_result = "set"]
           \/ \E a \in ApiCalls : /\ calls[a].at = "store" /\ calls[a].job = j
                                  /\ results'[j] = NewRow(a)
                                  /\ StoreRow(a) \/ StoreRowFails(a)
  <1> USE DEF PipeInv, PipeTyped, ResultFault
  <1>1. CASE \E t \in Ticks : HandlerStep(t) \/ StoreFails(t)
    BY <1>1 DEF HandlerStep, ParseThrows, ParseReturns, EngineAnswers, EngineFails, StoreResult,
                StoreMissesRow, StoreFails, OtherHandler, Analysed
  <1>2. CASE \E a \in ApiCalls : Post(a) \/ ApiStep(a) \/ LookupFails(a)
                                   \/ ItemDispatchFails(a) \/ StoreRowFails(a)
    BY <1>2 DEF Post, ApiStep, Lookup, LookupFails, ItemExists, ItemDispatch,
                ItemDispatchFails, StoreRow, StoreRowConflicts, StoreRowFails, Reply
  <1>3. CASE UNCHANGED results
    BY <1>3
  <1>4. QED
    BY <1>1, <1>2, <1>3
       DEF PipeNext, QueueOnly, WorkerCrash, Ask, ReadJob, ReadResult, Answer, ApiCrash, pipeVars

\* The head of the items of a request that stores a row is a game.
LEMMA HeadIsGame ==
    ASSUME PipeTyped, NEW a \in ApiCalls, calls[a].items # <<>>
    PROVE  Head(calls[a].items) \in Sgfs /\ Tail(calls[a].items) \in Seq(Sgfs)
  <1>1. calls[a].items \in Seq(Sgfs)
    BY DEF PipeTyped, Call
  <1>2. QED
    BY <1>1

LEMMA NewRowTyped ==
    ASSUME PipeInv, NEW a \in ApiCalls, calls[a].at = "store"
    PROVE  /\ NewRow(a) \in ResultRow
           /\ NewRow(a) # NoResult
           /\ NewRow(a).sgf = payload[calls[a].job]
  <1>1. Head(calls[a].items) \in Sgfs
    BY HeadIsGame DEF PipeInv, StoringInv
  <1>2. QED
    BY <1>1, AnalyzeAssumption DEF NewRow, NoResult, ResultRow, PipeInv, StoringInv

\* A row of results never goes away, keeps its game and keeps its analysis.
LEMMA ResultsPersist ==
    ASSUME PipeInv, [PipeNext]_pipeVars, NEW j \in JobIds
    PROVE  /\ HasRow(j) => HasRow(j)' /\ results'[j].sgf = results[j].sgf
           /\ results[j].analyze_result = "set" => results'[j].analyze_result = "set"
  <1>1. results[j] \in ResultRow
    BY DEF PipeInv, PipeTyped
  <1>2. CASE results'[j] = results[j]
    BY <1>2 DEF HasRow
  <1>3. CASE HasRow(j) /\ results'[j] = [results[j] EXCEPT !.analyze_result = "set"]
    BY <1>1, <1>3 DEF HasRow, NoResult, ResultRow
  <1>4. ASSUME NEW a \in ApiCalls, calls[a].at = "store", calls[a].job = j
        PROVE  ~HasRow(j) /\ results[j].analyze_result # "set"
    BY <1>4 DEF PipeInv, StoringInv, HasRow, NoResult
  <1>5. QED
    BY <1>2, <1>3, <1>4, ResultWrites

\* A row that is new was stored by the request whose job it is for.
LEMMA NewRowsAreStored ==
    ASSUME PipeInv, [PipeNext]_pipeVars, NEW j \in JobIds, ~HasRow(j), HasRow(j)'
    PROVE  \E a \in ApiCalls : /\ calls[a].at = "store" /\ calls[a].job = j
                               /\ results'[j] = NewRow(a)
                               /\ StoreRow(a) \/ StoreRowFails(a)
  BY ResultWrites DEF HasRow

-----------------------------------------------------------------------------
(* Every step keeps the invariant                                          *)

\* What a step does to the requests, one line per way it can do it.
LEMMA CallSteps ==
    ASSUME PipeInv, [PipeNext]_pipeVars
    PROVE  \/ calls' = calls
           \/ calls' = [a \in ApiCalls |-> NoCall] /\ apiCrashes' = apiCrashes + 1
           \/ \E a \in ApiCalls :
                \/ Post(a) \/ Lookup(a) \/ LookupFails(a) \/ ItemExists(a)
                \/ ItemDispatch(a) \/ ItemDispatchFails(a) \/ StoreRow(a)
                \/ StoreRowConflicts(a) \/ StoreRowFails(a) \/ Reply(a)
  <1>1. CASE \E t \in Ticks : HandlerStep(t) \/ StoreFails(t)
    BY <1>1 DEF HandlerStep, ParseThrows, ParseReturns, EngineAnswers, EngineFails, StoreResult,
                StoreMissesRow, StoreFails, OtherHandler, apiVars
  <1>2. QED
    BY <1>1 DEF PipeNext, ApiStep, QueueOnly, WorkerCrash, Ask, ReadJob, ReadResult, Answer,
                ApiCrash, pipeVars, apiVars

LEMMA NoCallTyped == NoCall \in Call
  <1>1. <<>> \in Seq(Sgfs)
    OBVIOUS
  <1>2. QED
    BY <1>1 DEF NoCall, Call

LEMMA NextItemTyped ==
    ASSUME NEW c \in Call, c.items # <<>>
    PROVE  NextItem(c) \in Call /\ NextItem(c).at = "item"
           /\ NextItem(c).known = c.known /\ NextItem(c).ids = c.ids
  <1>1. c.items \in Seq(Sgfs)
    BY DEF Call
  <1>2. Tail(c.items) \in Seq(Sgfs)
    BY <1>1
  <1> DEFINE rest == Tail(c.items)
  <1>3. NextItem(c) = [c EXCEPT !.at = "item", !.items = rest, !.job = NoJob]
    BY DEF NextItem
  <1> HIDE DEF rest
  <1>4. rest \in Seq(Sgfs)
    BY <1>2 DEF rest
  <1>5. QED
    BY <1>3, <1>4 DEF Call

LEMMA NamingTyped ==
    ASSUME NEW c \in Call, c.items # <<>>, NEW j \in JobIds
    PROVE  /\ NextItemNaming(c, j) \in Call
           /\ NextItemNaming(c, j).at = "item"
           /\ NextItemNaming(c, j).known = c.known
           /\ NextItemNaming(c, j).ids = c.ids \cup {j}
  <1> DEFINE n == NextItem(c)
             ids == c.ids \cup {j}
  <1>1. n \in Call /\ n.at = "item" /\ n.known = c.known /\ n.ids = c.ids
    BY NextItemTyped
  <1>2. NextItemNaming(c, j) = [n EXCEPT !.ids = ids]
    BY <1>1 DEF NextItemNaming
  <1>3. ids \in SUBSET JobIds
    BY DEF Call
  <1> HIDE DEF n, ids
  <1>4. /\ [n EXCEPT !.ids = ids] \in Call
        /\ [n EXCEPT !.ids = ids].at = "item"
        /\ [n EXCEPT !.ids = ids].known = c.known
        /\ [n EXCEPT !.ids = ids].ids = ids
    BY <1>1, <1>3 DEF Call
  <1>5. QED
    BY <1>2, <1>4 DEF ids

LEMMA KnownTyped ==
    ASSUME NEW c \in Call, NEW s \in Sgfs, NEW j \in JobIds
    PROVE  /\ Known(c, s, j) \in Call
           /\ Known(c, s, j).items = c.items
           /\ Known(c, s, j).ids = c.ids
           /\ Known(c, s, j).known = [c.known EXCEPT ![s] = j]
  BY DEF Known, Call

\* The variables of the pipeline keep their types.
LEMMA PipeTypedStep ==
    ASSUME PipeInv, [PipeNext]_pipeVars
    PROVE  PipeTyped'
  <1> USE DEF PipeInv, PipeTyped
  <1>1. payload' \in [JobIds -> Sgfs \cup {"none"}]
    <2>1. ASSUME NEW a \in ApiCalls, AtItem(a) PROVE Head(calls[a].items) \in Sgfs
      BY <2>1, HeadIsGame DEF AtItem
    <2>2. CASE \E a \in ApiCalls : ItemDispatch(a) \/ ItemDispatchFails(a)
      BY <2>1, <2>2 DEF ItemDispatch, ItemDispatchFails
    <2>3. CASE \E a \in ApiCalls : Post(a) \/ Lookup(a) \/ LookupFails(a) \/ ItemExists(a)
                 \/ StoreRow(a) \/ StoreRowConflicts(a) \/ StoreRowFails(a) \/ Reply(a)
      BY <2>3 DEF Post, Lookup, LookupFails, ItemExists, StoreRow, StoreRowConflicts,
                  StoreRowFails, Reply
    <2>4. CASE \E t \in Ticks : HandlerStep(t) \/ StoreFails(t)
      BY <2>4 DEF HandlerStep, ParseThrows, ParseReturns, EngineAnswers, EngineFails, StoreResult,
                  StoreMissesRow, StoreFails, OtherHandler
    <2>5. QED
      BY <2>2, <2>3, <2>4 DEF PipeNext, ApiStep, QueueOnly, WorkerCrash, Ask, ReadJob, ReadResult,
                              Answer, ApiCrash, pipeVars
  <1>2. results' \in [JobIds -> ResultRow]
    <2>0. \A r \in ResultRow : [r EXCEPT !.analyze_result = "set"] \in ResultRow
      BY DEF ResultRow
    <2>1. ASSUME NEW t \in Ticks, Handling(t, "store"), HasRow(held[t])
          PROVE  Analysed(held[t]) \in [JobIds -> ResultRow]
      BY <2>0, <2>1 DEF Analysed
    <2>2. CASE \E t \in Ticks : HandlerStep(t) \/ StoreFails(t)
      BY <2>1, <2>2 DEF HandlerStep, ParseThrows, ParseReturns, EngineAnswers, EngineFails, StoreResult,
                  StoreMissesRow, StoreFails, OtherHandler, ResultFault
    <2>3. ASSUME NEW a \in ApiCalls, calls[a].at = "store"
          PROVE  [results EXCEPT ![calls[a].job] = NewRow(a)] \in [JobIds -> ResultRow]
      BY <2>3, NewRowTyped
    <2>4. CASE \E a \in ApiCalls : Post(a) \/ Lookup(a) \/ LookupFails(a) \/ ItemExists(a)
                 \/ ItemDispatch(a) \/ ItemDispatchFails(a)
                 \/ StoreRow(a) \/ StoreRowConflicts(a) \/ StoreRowFails(a) \/ Reply(a)
      BY <2>3, <2>4 DEF Post, Lookup, LookupFails, ItemExists, ItemDispatch, ItemDispatchFails,
                  StoreRow, StoreRowConflicts, StoreRowFails, Reply, ResultFault
    <2>5. QED
      BY <2>2, <2>4 DEF PipeNext, ApiStep, QueueOnly, WorkerCrash, Ask, ReadJob, ReadResult,
                              Answer, ApiCrash, pipeVars
  <1>3. calls' \in [ApiCalls -> Call]
    <2>1. CASE calls' = calls \/ calls' = [a \in ApiCalls |-> NoCall]
      BY <2>1, NoCallTyped
    <2>2. ASSUME NEW a \in ApiCalls, Post(a) PROVE calls' \in [ApiCalls -> Call]
      <3>1. PICK s \in Requests :
               calls' = [calls EXCEPT ![a] = [NoCall EXCEPT !.at = "lookup", !.items = s]]
        BY <2>2 DEF Post
      <3>2. s \in Seq(Sgfs)
        BY AnalyzeAssumption
      <3>3. [NoCall EXCEPT !.at = "lookup", !.items = s] \in Call
        BY <3>2, NoCallTyped DEF Call
      <3>4. QED
        BY <3>1, <3>3
    <2>3. ASSUME NEW a \in ApiCalls, Lookup(a) PROVE calls' \in [ApiCalls -> Call]
      <3>1. PICK known \in [Sgfs -> JobIds \cup {NoJob}] :
               calls' = [calls EXCEPT ![a] = [calls[a] EXCEPT !.at = "item", !.known = known]]
        BY <2>3 DEF Lookup
      <3>2. [calls[a] EXCEPT !.at = "item", !.known = known] \in Call
        BY DEF Call
      <3>3. QED
        BY <3>1, <3>2
    <2>4. ASSUME NEW a \in ApiCalls, LookupFails(a) \/ Reply(a)
          PROVE  calls' \in [ApiCalls -> Call]
      BY <2>4, NoCallTyped DEF LookupFails, Reply
    <2>5. ASSUME NEW a \in ApiCalls, ItemExists(a) PROVE calls' \in [ApiCalls -> Call]
      <3>1. calls[a].known[Head(calls[a].items)] \in JobIds
        BY <2>5, HeadIsGame DEF ItemExists, AtItem, Call
      <3>2. QED
        BY <2>5, <3>1, NamingTyped DEF ItemExists, AtItem
    <2>6. ASSUME NEW a \in ApiCalls, ItemDispatch(a) PROVE calls' \in [ApiCalls -> Call]
      <3>1. PICK j \in JobIds :
               calls' = [calls EXCEPT ![a] = [calls[a] EXCEPT !.at = "store", !.job = j]]
        BY <2>6 DEF ItemDispatch
      <3>2. [calls[a] EXCEPT !.at = "store", !.job = j] \in Call
        BY DEF Call
      <3>3. QED
        BY <3>1, <3>2
    <2>7. ASSUME NEW a \in ApiCalls,
                 ItemDispatchFails(a) \/ StoreRowConflicts(a) \/ StoreRowFails(a)
          PROVE  calls' \in [ApiCalls -> Call]
      BY <2>7, NextItemTyped
         DEF ItemDispatchFails, StoreRowConflicts, StoreRowFails, AtItem, StoringInv
    <2>8. ASSUME NEW a \in ApiCalls, StoreRow(a) PROVE calls' \in [ApiCalls -> Call]
      <3>1. calls[a].job \in JobIds /\ Head(calls[a].items) \in Sgfs /\ calls[a].items # <<>>
        BY <2>8, HeadIsGame DEF StoreRow, StoringInv
      <3> DEFINE k == Known(calls[a], Head(calls[a].items), calls[a].job)
      <3>2. calls[a] \in Call
        OBVIOUS
      <3> HIDE DEF PipeInv, PipeTyped
      <3>3. k \in Call /\ k.items = calls[a].items
        BY <3>1, <3>2, KnownTyped
      <3>4. calls' = [calls EXCEPT ![a] = NextItemNaming(k, calls[a].job)]
        BY <2>8 DEF StoreRow
      <3> HIDE DEF k
      <3>5. NextItemNaming(k, calls[a].job) \in Call
        BY <3>1, <3>3, NamingTyped
      <3>6. calls \in [ApiCalls -> Call]
        BY DEF PipeInv, PipeTyped
      <3>7. QED
        BY <3>4, <3>5, <3>6
    <2>9. QED
      BY <2>1, <2>2, <2>3, <2>4, <2>5, <2>6, <2>7, <2>8, CallSteps
  <1>4. QED
    BY <1>1, <1>2, <1>3

\* A payload is written once, with its job.
LEMMA PayloadPersists ==
    ASSUME PipeInv, [PipeNext]_pipeVars, NEW j \in JobIds, jobs[j].status # "absent"
    PROVE  payload'[j] = payload[j]
  <1> USE DEF PipeInv, PipeTyped
  <1>1. CASE \E a \in ApiCalls : ItemDispatch(a) \/ ItemDispatchFails(a)
    BY <1>1 DEF ItemDispatch, ItemDispatchFails, Dispatch
  <1>2. CASE \E t \in Ticks : HandlerStep(t) \/ StoreFails(t)
    BY <1>2 DEF HandlerStep, ParseThrows, ParseReturns, EngineAnswers, EngineFails, StoreResult,
                StoreMissesRow, StoreFails, OtherHandler
  <1>3. CASE UNCHANGED payload
    BY <1>3
  <1>4. QED
    BY <1>1, <1>2, <1>3
       DEF PipeNext, ApiStep, QueueOnly, WorkerCrash, Ask, ReadJob, ReadResult, Answer, ApiCrash,
           Post, Lookup, LookupFails, ItemExists, StoreRow, StoreRowConflicts, StoreRowFails,
           Reply, pipeVars

\* A job of AnalyzeClass stays one.
LEMMA AnalyzePersists ==
    ASSUME PipeInv, [PipeNext]_pipeVars, NEW j \in JobIds, IsAnalyze(j)
    PROVE  IsAnalyze(j)' /\ payload'[j] = payload[j]
  BY RowsPersist, PipeStepIsQueueStep, PayloadPersists DEF IsAnalyze, PipeInv

\* A request that is storing a row after a step was so before, or has just
\* inserted its job.
LEMMA StoringSteps ==
    ASSUME PipeInv, [PipeNext]_pipeVars, NEW a \in ApiCalls, calls'[a].at = "store"
    PROVE  \/ calls'[a] = calls[a]
           \/ /\ ItemDispatch(a)
              /\ jobs[calls'[a].job].status = "absent"
              /\ calls'[a].job \in JobIds
              /\ calls'[a].items = calls[a].items /\ calls[a].items # <<>>
              /\ payload'[calls'[a].job] = Head(calls[a].items)
              /\ jobs' = [jobs EXCEPT ![calls'[a].job] = Inserted(AnalyzeClass)]
  <1> USE DEF PipeInv, PipeTyped
  <1>1. calls' \in [ApiCalls -> Call]
    BY PipeTypedStep
  <1>2. \A b \in ApiCalls : calls[b] \in Call
    OBVIOUS
  <1>3. CASE calls' = calls \/ calls' = [b \in ApiCalls |-> NoCall]
    BY <1>3 DEF NoCall
  <1>4. ASSUME NEW b \in ApiCalls, b # a, Post(b) \/ Lookup(b) \/ LookupFails(b) \/ ItemExists(b)
                \/ ItemDispatch(b) \/ ItemDispatchFails(b) \/ StoreRow(b)
                \/ StoreRowConflicts(b) \/ StoreRowFails(b) \/ Reply(b)
        PROVE  calls'[a] = calls[a]
    BY <1>4 DEF Post, Lookup, LookupFails, ItemExists, ItemDispatch, ItemDispatchFails, StoreRow,
                StoreRowConflicts, StoreRowFails, Reply
  <1>5. CASE Post(a) \/ LookupFails(a) \/ Reply(a)
    <2>1. NoCall.at = "idle" /\ \A s \in Requests :
             [NoCall EXCEPT !.at = "lookup", !.items = s].at = "lookup"
      BY DEF NoCall
    <2>2. calls'[a] = NoCall \/ \E s \in Requests :
             calls'[a] = [NoCall EXCEPT !.at = "lookup", !.items = s]
      BY <1>5 DEF Post, LookupFails, Reply
    <2>3. QED
      BY <2>1, <2>2
  <1>6. CASE Lookup(a)
    <2>1. PICK known \in [Sgfs -> JobIds \cup {NoJob}] :
             calls' = [calls EXCEPT ![a] = [calls[a] EXCEPT !.at = "item", !.known = known]]
      BY <1>6 DEF Lookup
    <2>2. calls'[a].at = "item"
      BY <1>2, <2>1 DEF Call
    <2>3. QED
      BY <2>2
  <1>7. CASE ItemExists(a)
    <2>1. calls[a].known[Head(calls[a].items)] \in JobIds
      BY <1>7, HeadIsGame DEF ItemExists, AtItem, Call
    <2>2. QED
      BY <1>2, <1>7, <2>1, NamingTyped DEF ItemExists, AtItem
  <1>8. CASE ItemDispatchFails(a) \/ StoreRowConflicts(a) \/ StoreRowFails(a)
    BY <1>2, <1>8, NextItemTyped
       DEF ItemDispatchFails, StoreRowConflicts, StoreRowFails, AtItem, StoringInv
  <1>9. CASE StoreRow(a)
    <2>1. calls[a].job \in JobIds /\ Head(calls[a].items) \in Sgfs /\ calls[a].items # <<>>
      BY <1>9, HeadIsGame DEF StoreRow, StoringInv
    <2> DEFINE k == Known(calls[a], Head(calls[a].items), calls[a].job)
    <2>2. k \in Call /\ k.items # <<>>
      BY <1>2, <2>1, KnownTyped, ZenonT(60)
    <2>3. calls'[a] = NextItemNaming(k, calls[a].job)
      BY <1>9 DEF StoreRow
    <2> HIDE DEF k
    <2>4. QED
      BY <2>1, <2>2, <2>3, NamingTyped
  <1>10. CASE ItemDispatch(a)
    <2>1. PICK j \in JobIds :
             /\ Dispatch(j, AnalyzeClass)
             /\ payload' = [payload EXCEPT ![j] = Head(calls[a].items)]
             /\ calls' = [calls EXCEPT ![a] = [calls[a] EXCEPT !.at = "store", !.job = j]]
      BY <1>10 DEF ItemDispatch
    <2>2. calls'[a].job = j /\ calls'[a].items = calls[a].items
      BY <1>2, <2>1 DEF Call
    <2>3. QED
      BY <1>10, <2>1, <2>2 DEF ItemDispatch, AtItem, Dispatch
  <1>11. QED
    BY <1>3, <1>4, <1>5, <1>6, <1>7, <1>8, <1>9, <1>10, CallSteps

\* After a request has stored its row it is no longer storing.
LEMMA StoredMovesOn ==
    ASSUME PipeInv, NEW a \in ApiCalls, StoreRow(a) \/ StoreRowFails(a)
    PROVE  calls'[a].at = "item"
  <1> USE DEF PipeInv, PipeTyped
  <1>1. calls[a] \in Call
    OBVIOUS
  <1>2. calls[a].job \in JobIds /\ Head(calls[a].items) \in Sgfs /\ calls[a].items # <<>>
    BY HeadIsGame DEF StoreRow, StoreRowFails, StoringInv
  <1> HIDE DEF PipeInv, PipeTyped
  <1>3. CASE StoreRow(a)
    <2> DEFINE k == Known(calls[a], Head(calls[a].items), calls[a].job)
    <2>1. k \in Call /\ k.items # <<>>
      <3>1. k.items = calls[a].items /\ k \in Call
        BY <1>1, <1>2, KnownTyped
      <3>2. QED
        BY <1>2, <3>1
    <2>2. calls'[a] = NextItemNaming(k, calls[a].job)
      BY <1>3 DEF StoreRow, PipeInv, PipeTyped
    <2> HIDE DEF k
    <2>3. QED
      BY <1>2, <2>1, <2>2, NamingTyped
  <1>4. CASE StoreRowFails(a)
    BY <1>1, <1>2, <1>4, NextItemTyped DEF StoreRowFails, PipeInv, PipeTyped
  <1>5. QED
    BY <1>3, <1>4

\* What StoringInv says of one request, with its job as a constant.
Storing(a, j) ==
    /\ j \in JobIds
    /\ IsAnalyze(j)
    /\ ~HasRow(j)
    /\ calls[a].items # <<>>
    /\ payload[j] = Head(calls[a].items)

\* A request that goes on storing keeps its job to itself.
LEMMA StoringStays ==
    ASSUME PipeInv, [PipeNext]_pipeVars, NEW a \in ApiCalls, NEW j \in JobIds,
           calls[a].at = "store", calls[a].job = j, calls'[a] = calls[a]
    PROVE  Storing(a, j) /\ Storing(a, j)'
  <1>1. Storing(a, j)
    BY DEF PipeInv, StoringInv, Storing
  <1>2. IsAnalyze(j)' /\ payload'[j] = payload[j]
    BY <1>1, AnalyzePersists DEF Storing
  <1>3. ASSUME HasRow(j)' PROVE FALSE
    <2>1. PICK b \in ApiCalls : calls[b].at = "store" /\ calls[b].job = j
                                 /\ (StoreRow(b) \/ StoreRowFails(b))
      BY <1>1, <1>3, NewRowsAreStored DEF Storing
    <2>2. b = a
      BY <2>1 DEF PipeInv, StoringInv
    <2>3. calls'[a].at = "item"
      BY <2>1, <2>2, StoredMovesOn
    <2>4. QED
      BY <2>3
  <1>4. QED
    BY <1>1, <1>2, <1>3 DEF Storing

\* A request that starts storing has a job that was not there before.
LEMMA StoringStarts ==
    ASSUME PipeInv, [PipeNext]_pipeVars, NEW a \in ApiCalls, NEW j,
           calls'[a].at = "store", calls'[a].job = j, calls'[a] # calls[a]
    PROVE  jobs[j].status = "absent" /\ Storing(a, j)'
  <1>1. /\ ItemDispatch(a)
        /\ jobs[j].status = "absent"
        /\ j \in JobIds
        /\ calls'[a].items = calls[a].items /\ calls[a].items # <<>>
        /\ payload'[j] = Head(calls[a].items)
        /\ jobs' = [jobs EXCEPT ![j] = Inserted(AnalyzeClass)]
    BY StoringSteps
  <1>2. AnalyzeClass \in Classes /\ jobs \in [JobIds -> Row]
    BY AnalyzeAssumption, JobTableAssumption DEF PipeInv, TypeInv, TypeOK
  <1>3. IsAnalyze(j)'
    BY <1>1, <1>2, InsertedRow DEF IsAnalyze
  <1>4. ~HasRow(j)'
    <2>1. ~HasRow(j)
      BY <1>1 DEF PipeInv, RowMatchesJob, IsAnalyze
    <2>2. QED
      BY <1>1, <2>1 DEF ItemDispatch, HasRow
  <1>5. QED
    BY <1>1, <1>3, <1>4 DEF Storing

LEMMA StoringStep ==
    ASSUME PipeInv, [PipeNext]_pipeVars
    PROVE  StoringInv'
  <1>1. ASSUME NEW a \in ApiCalls, NEW j, calls'[a].at = "store", calls'[a].job = j
        PROVE  /\ Storing(a, j)'
               /\ \/ jobs[j].status = "absent"
                  \/ calls[a].at = "store" /\ calls[a].job = j /\ jobs[j].status # "absent"
    <2>1. CASE calls'[a] = calls[a]
      <3>1. j \in JobIds
        BY <1>1, <2>1 DEF PipeInv, StoringInv
      <3>2. Storing(a, j) /\ Storing(a, j)'
        BY <1>1, <2>1, <3>1, StoringStays
      <3>3. QED
        BY <1>1, <2>1, <3>2 DEF Storing, IsAnalyze
    <2>2. CASE calls'[a] # calls[a]
      BY <1>1, <2>2, StoringStarts
    <2>3. QED
      BY <2>1, <2>2
  <1>2. ASSUME NEW a \in ApiCalls, NEW b \in ApiCalls, NEW j,
               calls'[a].at = "store", calls'[b].at = "store",
               calls'[a].job = j, calls'[b].job = j, a # b
        PROVE  FALSE
    <2>1. CASE jobs[j].status = "absent"
      <3>1. calls'[a] # calls[a] /\ calls'[b] # calls[b]
        BY <1>1, <1>2, <2>1 DEF PipeInv, StoringInv, IsAnalyze
      <3>2. ItemDispatch(a)
        BY <1>2, <3>1, StoringSteps
      <3>3. QED
        BY <1>2, <3>1, <3>2 DEF ItemDispatch, PipeInv, PipeTyped
    <2>2. CASE jobs[j].status # "absent"
      BY <1>1, <1>2, <2>2 DEF PipeInv, StoringInv
    <2>3. QED
      BY <2>1, <2>2
  <1>3. \A a \in ApiCalls : calls'[a].at = "store" => Storing(a, calls[a].job)'
    <2> SUFFICES ASSUME NEW a \in ApiCalls, calls'[a].at = "store"
                 PROVE  Storing(a, calls[a].job)'
      OBVIOUS
    <2>1. PICK j : j = calls'[a].job
      OBVIOUS
    <2>2. Storing(a, j)'
      BY <1>1, <2>1
    <2>3. QED
      BY <2>1, <2>2 DEF Storing, IsAnalyze, HasRow
  <1>4. QED
    BY <1>2, <1>3 DEF StoringInv, Storing

\* A row is stored for the job whose payload it repeats.
LEMMA RowMatchesStep ==
    ASSUME PipeInv, [PipeNext]_pipeVars
    PROVE  RowMatchesJob'
  <1> SUFFICES ASSUME NEW j \in JobIds, HasRow(j)'
               PROVE  IsAnalyze(j)' /\ results'[j].sgf = payload'[j]
    BY DEF RowMatchesJob
  <1>1. CASE HasRow(j)
    <2>1. IsAnalyze(j) /\ results[j].sgf = payload[j]
      BY <1>1 DEF PipeInv, RowMatchesJob
    <2>2. QED
      BY <1>1, <2>1, AnalyzePersists, ResultsPersist
  <1>2. CASE ~HasRow(j)
    <2>1. PICK a \in ApiCalls : /\ calls[a].at = "store" /\ calls[a].job = j
                                /\ results'[j] = NewRow(a)
      BY <1>2, NewRowsAreStored
    <2>2. IsAnalyze(j) /\ NewRow(a).sgf = payload[j]
      BY <2>1, NewRowTyped DEF PipeInv, StoringInv
    <2>3. QED
      BY <2>1, <2>2, AnalyzePersists
  <1>3. QED
    BY <1>1, <1>2

\* Request a knows of job k.
Names(a, k) ==
    /\ k # NoJob
    /\ k \in calls[a].ids \/ \E s \in Sgfs : calls[a].known[s] = k

\* A request learns of a job from its row, or by storing its row.
LEMMA KnownStep ==
    ASSUME PipeInv, [PipeNext]_pipeVars
    PROVE  KnownInv'
  <1>0. \A b \in ApiCalls : calls[b] \in Call /\ calls'[b] \in Call
    BY PipeTypedStep DEF PipeInv, PipeTyped
  <1>t. calls \in [ApiCalls -> Call]
    BY DEF PipeInv, PipeTyped
  <1>1. ASSUME NEW a \in ApiCalls, NEW k, Names(a, k)'
        PROVE  k \in JobIds /\ (Names(a, k) \/ HasRow(k)')
    <2>1. k \in JobIds
      BY <1>0, <1>1 DEF Names, Call
    <2>2. CASE calls'[a] = calls[a]
      BY <1>1, <2>1, <2>2 DEF Names
    <2>3. ASSUME calls'[a] = NoCall
                   \/ \E s \in Requests :
                        calls'[a] = [NoCall EXCEPT !.at = "lookup", !.items = s]
          PROVE  FALSE
      <3>1. /\ NoCall.ids = {} /\ \A s \in Sgfs : NoCall.known[s] = NoJob
            /\ \A q \in Requests :
                 /\ [NoCall EXCEPT !.at = "lookup", !.items = q].ids = {}
                 /\ \A s \in Sgfs :
                      [NoCall EXCEPT !.at = "lookup", !.items = q].known[s] = NoJob
        BY DEF NoCall
      <3>2. QED
        BY <1>1, <2>3, <3>1 DEF Names
    <2>4. CASE Lookup(a)
      <3>1. PICK known \in [Sgfs -> JobIds \cup {NoJob}] :
               /\ \A s \in Sgfs :
                    IF RowOf(s) = {} THEN known[s] = NoJob ELSE known[s] \in RowOf(s)
               /\ calls' = [calls EXCEPT ![a] = [calls[a] EXCEPT !.at = "item", !.known = known]]
               /\ results' = results
        BY <2>4 DEF Lookup
      <3>2. calls'[a].known = known /\ calls'[a].ids = calls[a].ids
        BY <1>0, <1>t, <3>1 DEF Call
      <3>3. CASE k \in calls[a].ids
        BY <2>1, <1>1, <3>3 DEF Names
      <3>4. CASE \E s \in Sgfs : known[s] = k
        <4>1. PICK s \in Sgfs : known[s] = k
          BY <3>4
        <4>2. k \in RowOf(s)
          BY <1>1, <3>1, <4>1 DEF Names
        <4>3. results[k].sgf # "none"
          BY <4>2, AnalyzeAssumption DEF RowOf
        <4>4. QED
          BY <2>1, <3>1, <4>3 DEF HasRow, NoResult
      <3>5. QED
        BY <1>1, <3>2, <3>3, <3>4 DEF Names
    <2>5. CASE ItemExists(a)
      <3> DEFINE id == calls[a].known[Head(calls[a].items)]
      <3>1. calls[a].items # <<>> /\ id # NoJob /\ Head(calls[a].items) \in Sgfs
        BY <2>5, HeadIsGame DEF ItemExists, AtItem, PipeInv
      <3>2. id \in JobIds
        BY <1>0, <3>1 DEF Call
      <3>3. calls'[a] = NextItemNaming(calls[a], id)
        BY <1>t, <2>5 DEF ItemExists
      <3>4. calls'[a].known = calls[a].known /\ calls'[a].ids = calls[a].ids \cup {id}
        BY <1>0, <3>1, <3>2, <3>3, NamingTyped
      <3>5. QED
        BY <2>1, <1>1, <3>1, <3>4 DEF Names
    <2>6. CASE ItemDispatch(a)
      <3>1. PICK j \in JobIds :
               calls' = [calls EXCEPT ![a] = [calls[a] EXCEPT !.at = "store", !.job = j]]
        BY <2>6 DEF ItemDispatch
      <3>2. calls'[a].known = calls[a].known /\ calls'[a].ids = calls[a].ids
        BY <1>0, <1>t, <3>1 DEF Call
      <3>3. QED
        BY <2>1, <1>1, <3>2 DEF Names
    <2>7. CASE ItemDispatchFails(a) \/ StoreRowConflicts(a) \/ StoreRowFails(a)
      <3>1. calls[a].items # <<>> /\ calls'[a] = NextItem(calls[a])
        BY <1>t, <2>7 DEF ItemDispatchFails, StoreRowConflicts, StoreRowFails, AtItem,
                          PipeInv, StoringInv
      <3>2. calls'[a].known = calls[a].known /\ calls'[a].ids = calls[a].ids
        BY <1>0, <3>1, NextItemTyped
      <3>3. QED
        BY <2>1, <1>1, <3>2 DEF Names
    <2>8. CASE StoreRow(a)
      <3> DEFINE s == Head(calls[a].items)
                 j == calls[a].job
                 c == Known(calls[a], s, j)
      <3>1. /\ j \in JobIds /\ calls[a].items # <<>> /\ s \in Sgfs
            /\ results' = [results EXCEPT ![j] = NewRow(a)]
            /\ calls'[a] = NextItemNaming(c, j)
        BY <1>t, <2>8, HeadIsGame DEF StoreRow, PipeInv, StoringInv
      <3>3. results'[j] # NoResult
        BY <2>8, <3>1, NewRowTyped DEF StoreRow, PipeInv, PipeTyped
      <3>4. /\ c \in Call /\ c.items = calls[a].items /\ c.ids = calls[a].ids
            /\ c.known = [calls[a].known EXCEPT ![s] = j]
        BY <1>0, <3>1, KnownTyped
      <3>5. /\ calls'[a].ids = calls[a].ids \cup {j}
            /\ calls'[a].known = [calls[a].known EXCEPT ![s] = j]
        <4> HIDE DEF c, s, j
        <4>1. c.items # <<>>
          BY <3>1, <3>4
        <4>2. QED
          BY <3>1, <3>4, <4>1, NamingTyped
      <3>6. \A q \in Sgfs : calls'[a].known[q] = j \/ calls'[a].known[q] = calls[a].known[q]
        BY <1>0, <3>5 DEF Call
      <3>7. CASE k = j
        BY <2>1, <3>3, <3>7 DEF HasRow
      <3>8. CASE k # j
        BY <2>1, <1>1, <3>5, <3>6, <3>8 DEF Names
      <3>9. QED
        BY <2>1, <3>7, <3>8
    <2>9. ASSUME NEW b \in ApiCalls, b # a, Post(b) \/ Lookup(b) \/ LookupFails(b) \/ ItemExists(b)
                   \/ ItemDispatch(b) \/ ItemDispatchFails(b) \/ StoreRow(b)
                   \/ StoreRowConflicts(b) \/ StoreRowFails(b) \/ Reply(b)
          PROVE  calls'[a] = calls[a]
      BY <1>t, <2>9 DEF Post, Lookup, LookupFails, ItemExists, ItemDispatch, ItemDispatchFails,
                        StoreRow, StoreRowConflicts, StoreRowFails, Reply
    <2>10. CASE Post(a) \/ LookupFails(a) \/ Reply(a) \/ calls' = [b \in ApiCalls |-> NoCall]
      <3>1. calls'[a] = NoCall
              \/ \E s \in Requests :
                   calls'[a] = [NoCall EXCEPT !.at = "lookup", !.items = s]
        BY <1>t, <2>10 DEF Post, LookupFails, Reply
      <3>2. QED
        BY <2>3, <3>1
    <2>11. QED
      BY <2>1, <2>2, <2>4, <2>5, <2>6, <2>7, <2>8, <2>9, <2>10, CallSteps
  <1>2. ASSUME NEW a \in ApiCalls, NEW k, Names(a, k)'
        PROVE  results'[k] # NoResult
    <2>1. k \in JobIds /\ (Names(a, k) \/ HasRow(k)')
      BY <1>1, <1>2
    <2>2. Names(a, k) => HasRow(k)
      BY DEF Names, PipeInv, KnownInv
    <2>3. QED
      BY <2>1, <2>2, ResultsPersist DEF HasRow
  <1>3. ASSUME NEW a \in ApiCalls, NEW s \in Sgfs, calls'[a].known[s] # NoJob
        PROVE  results'[calls'[a].known[s]] # NoResult
    BY <1>2, <1>3 DEF Names
  <1>4. ASSUME NEW a \in ApiCalls, NEW j \in calls'[a].ids
        PROVE  results'[j] # NoResult
    <2>1. j # NoJob
      BY <1>0, QueueWorkerAssumption DEF Call
    <2>2. QED
      BY <1>2, <2>1 DEF Names
  <1>5. QED
    BY <1>3, <1>4 DEF KnownInv, HasRow

\* A reply names ids its request knows of.
LEMMA AckedStep ==
    ASSUME PipeInv, [PipeNext]_pipeVars
    PROVE  AckedInv'
  <1>1. ASSUME NEW t \in Ticks, HandlerStep(t) \/ StoreFails(t) PROVE acked' = acked
    BY <1>1 DEF HandlerStep, ParseThrows, ParseReturns, EngineAnswers, EngineFails, StoreResult,
                StoreMissesRow, StoreFails, OtherHandler, apiVars
  <1>2. acked' = acked \/ \E a \in ApiCalls : acked' = acked \cup calls[a].ids
    BY <1>1 DEF PipeNext, ApiStep, QueueOnly, WorkerCrash, Ask, ReadJob, ReadResult, Answer,
                ApiCrash, Post, Lookup, LookupFails, ItemExists, ItemDispatch,
                ItemDispatchFails, StoreRow, StoreRowConflicts, StoreRowFails, Reply,
                pipeVars, apiVars
  <1>3. ASSUME NEW a \in ApiCalls, NEW j \in calls[a].ids
        PROVE  j \in JobIds /\ HasRow(j)
    <2>1. calls[a] \in Call
      BY DEF PipeInv, PipeTyped
    <2>2. QED
      BY <1>3, <2>1 DEF PipeInv, KnownInv, Call
  <1>4. \A j \in acked' : j \in JobIds /\ HasRow(j)
    BY <1>2, <1>3 DEF PipeInv, AckedInv
  <1>5. QED
    BY <1>4, ResultsPersist DEF AckedInv

\* The handler returns only after it has stored the analysis.
LEMMA HandlerHasStored ==
    ASSUME PipeInv, [PipeNext]_pipeVars, NEW t \in Ticks,
           pc[t] = "handling", pc'[t] = "finishing", jobs[held[t]].class = AnalyzeClass
    PROVE  results'[held[t]].analyze_result = "set"
  <1> USE DEF PipeInv, TypeInv, TypeOK
  <1>1. ASSUME NEW u \in Ticks, HandlerStep(u) \/ StoreFails(u)
        PROVE  u = t /\ StoreResult(t)
    <2>1. u = t
      BY <1>1 DEF HandlerStep, ParseThrows, ParseReturns, EngineAnswers, EngineFails, StoreResult,
                  StoreMissesRow, StoreFails, OtherHandler, HandleThrows, HandleReturns, OnError,
                  vars
    <2>2. ~HandleThrows(t) /\ pc' # pc
      BY DEF HandleThrows, OnError
    <2>3. QED
      BY <1>1, <2>1, <2>2
         DEF HandlerStep, ParseThrows, ParseReturns, EngineAnswers, EngineFails, StoreResult,
             StoreMissesRow, StoreFails, OtherHandler, vars
  <1>2. ~QueueOnly
    <2>1. \A u \in Ticks : ~(ClaimFails(u) \/ MarkDoneFails(u) \/ SaveFails(u) \/ Tick(u))
      BY DEF ClaimFails, MarkDoneFails, SaveFails, Tick, Return, OnError
    <2>2. \A u \in Ticks : ~OwnStep(u)
      BY DEF OwnStep, ClaimNothing, ClaimSelect, ClaimCommit, MarkDone, MarkForRetry, MarkFailed,
             Return
    <2>3. QED
      BY <2>1, <2>2 DEF QueueOnly, Boot, RequeueOnInit, InitFails, Dispatch, CliCheck,
                        CliRequeueOne, CliRequeueAll
  <1>3. \A w \in Workers : ~WorkerCrash(w)
    BY DEF WorkerCrash, Crash
  <1>4. \A a \in ApiCalls : ~(Post(a) \/ ApiStep(a) \/ LookupFails(a) \/ ItemDispatchFails(a)
                               \/ StoreRowFails(a))
    BY DEF ApiStep, Post, Lookup, LookupFails, ItemExists, ItemDispatch, ItemDispatchFails,
           StoreRow, StoreRowConflicts, StoreRowFails, Reply, Dispatch, vars
  <1>5. StoreResult(t)
    BY <1>1, <1>2, <1>3, <1>4
       DEF PipeNext, Ask, ReadJob, ReadResult, Answer, ApiCrash, pipeVars, vars
  <1>6. held[t] \in JobIds /\ results[held[t]] \in ResultRow /\ results \in [JobIds -> ResultRow]
    BY DEF HeldOK, WithJob, PipeTyped
  <1>7. QED
    BY <1>5, <1>6 DEF StoreResult, Analysed, ResultRow

LEMMA FinishingStep ==
    ASSUME PipeInv, [PipeNext]_pipeVars
    PROVE  FinishingInv'
  <1> SUFFICES ASSUME NEW t \in Ticks, pc'[t] = "finishing",
                      jobs'[held'[t]].class = AnalyzeClass
               PROVE  results'[held'[t]].analyze_result = "set"
    BY DEF FinishingInv
  <1>1. /\ TypeInv /\ [Next]_vars
        /\ pc[t] = "finishing" \/ pc[t] = "handling"
        /\ held'[t] = held[t] /\ WithJob(t) /\ held[t] \in JobIds
    BY PipeStepIsQueueStep, FinishingOnlyAfterHandler DEF PipeInv, TypeInv, HeldOK, HandleReturns
  <1>2. jobs[held[t]].class = AnalyzeClass
    BY <1>1, RowsPersist DEF PipeInv, HeldThere
  <1>3. CASE pc[t] = "finishing"
    BY <1>1, <1>2, <1>3, ResultsPersist DEF PipeInv, FinishingInv
  <1>4. CASE pc[t] = "handling"
    BY <1>1, <1>2, <1>4, HandlerHasStored
  <1>5. QED
    BY <1>1, <1>3, <1>4

LEMMA DoneStep ==
    ASSUME PipeInv, [PipeNext]_pipeVars
    PROVE  DoneHasResult'
  <1> SUFFICES ASSUME NEW j \in JobIds, jobs'[j].class = AnalyzeClass, jobs'[j].status = "done"
               PROVE  results'[j].analyze_result = "set"
    BY DEF DoneHasResult, IsAnalyze
  <1>1. TypeInv /\ [Next]_vars
    BY PipeStepIsQueueStep DEF PipeInv
  <1>2. CASE jobs[j].status = "done"
    BY <1>1, <1>2, RowsPersist, ResultsPersist DEF PipeInv, DoneHasResult, IsAnalyze
  <1>3. CASE jobs[j].status # "done"
    <2>1. PICK t \in Ticks : pc[t] = "finishing" /\ held[t] = j
      BY <1>1, <1>3, DoneOnlyWhenFinishing
    <2>2. jobs[j].class = AnalyzeClass
      BY <1>1, <2>1, RowsPersist DEF WithJob, PipeInv, HeldThere
    <2>3. results[j].analyze_result = "set"
      BY <2>1, <2>2 DEF PipeInv, FinishingInv
    <2>4. QED
      BY <2>3, ResultsPersist
  <1>4. QED
    BY <1>2, <1>3

LEMMA PipeInvInit == PipeInit => PipeInv
  <1> SUFFICES ASSUME PipeInit PROVE PipeInv
    OBVIOUS
  <1>1. TypeInv /\ HeldThere
    BY TypeInit DEF PipeInit, Init, HeldThere, WithJob
  <1>2. PipeTyped
    BY NoCallTyped DEF PipeTyped, PipeInit, ResultRow, NoResult
  <1>3. StoringInv /\ KnownInv
    BY DEF PipeInit, StoringInv, KnownInv, NoCall
  <1>4. RowMatchesJob /\ AckedInv
    BY DEF PipeInit, RowMatchesJob, AckedInv, HasRow
  <1>5. FinishingInv /\ DoneHasResult
    BY DEF PipeInit, Init, FinishingInv, DoneHasResult, IsAnalyze, NoRow
  <1>6. QED
    BY <1>1, <1>2, <1>3, <1>4, <1>5 DEF PipeInv

LEMMA PipeInvStep == PipeInv /\ [PipeNext]_pipeVars => PipeInv'
  <1> SUFFICES ASSUME PipeInv, [PipeNext]_pipeVars PROVE PipeInv'
    OBVIOUS
  <1>1. TypeInv' /\ HeldThere'
    BY PipeStepIsQueueStep, TypeStep, HeldThereStep DEF PipeInv
  <1>2. QED
    BY <1>1, PipeTypedStep, StoringStep, RowMatchesStep, KnownStep, AckedStep, FinishingStep,
       DoneStep DEF PipeInv

LEMMA PipeInvariant == PipeSpec => []PipeInv
  BY PipeInvInit, PipeInvStep, PTL DEF PipeSpec

-----------------------------------------------------------------------------
(* What follows                                                            *)

\* An analysis job that is done has its analysis stored, whatever errors,
\* crashes and requeues it has been through, with any number of workers.
THEOREM DoneJobsHaveResults == PipeSpec => []DoneHasResult
  <1>1. PipeInv => DoneHasResult
    BY DEF PipeInv
  <1>2. QED
    BY <1>1, PipeInvariant, PTL

\* The row of a job holds the game of the job's payload, and its job exists.
THEOREM RowsMatchJobs == PipeSpec => []RowMatchesJob
  <1>1. PipeInv => RowMatchesJob
    BY DEF PipeInv
  <1>2. QED
    BY <1>1, PipeInvariant, PTL

\* A job id a reply has named has its job and its row, for good.
THEOREM AckedJobsHaveRows == PipeSpec => []AckedHasRow
  <1>1. PipeInv => AckedHasRow
    BY DEF PipeInv, AckedInv, AckedHasRow, RowMatchesJob
  <1>2. QED
    BY <1>1, PipeInvariant, PTL

-----------------------------------------------------------------------------
(* Where new jobs come from                                                *)

\* Only Dispatch inserts a row.
LEMMA AbsentStays ==
    ASSUME TypeInv, HeldThere, NEW j \in JobIds, jobs[j].status = "absent",
           \/ \E w \in Workers : Boot(w) \/ RequeueOnInit(w) \/ InitFails(w) \/ Crash(w)
           \/ \E t \in Ticks : Tick(t) \/ TickStep(t) \/ ClaimFails(t) \/ MarkDoneFails(t)
                               \/ SaveFails(t)
           \/ \E c \in Clis, k \in JobIds : CliCheck(c, k)
           \/ (\E c \in Clis : CliRequeueOne(c)) \/ CliRequeueAll
    PROVE  jobs'[j].status = "absent"
  <1> USE DEF Fault, counters
  <1>1. jobs \in [JobIds -> Row] /\ \A t \in Ticks : WithJob(t) => jobs[held[t]] \in Row
    BY DEF TypeInv, TypeOK, HeldOK
  <1>2. CASE \E w \in Workers : Boot(w) \/ RequeueOnInit(w) \/ InitFails(w) \/ Crash(w)
    BY <1>1, <1>2, RequeueRunningTable DEF RequeueOnInit, InitFails, Boot, Crash
  <1>3. \A t \in Ticks : WithJob(t) => held[t] # j
    BY DEF HeldThere
  <1>4. ASSUME NEW t \in Ticks, ClaimCommit(t) \/ ClaimFails(t) \/ MarkDone(t)
                 \/ MarkDoneFails(t) \/ MarkForRetry(t) \/ MarkFailed(t) \/ SaveFails(t)
        PROVE  jobs'[j].status = "absent"
    BY <1>1, <1>3, <1>4
       DEF ClaimCommit, ClaimFails, MarkDone, MarkDoneFails, MarkForRetry, MarkFailed,
           SaveFails, WithJob
  <1>5. CASE (\E c \in Clis : CliRequeueOne(c)) \/ CliRequeueAll
    <2>1. PICK ids : jobs' = RequeueFailed(jobs, ids)
      BY <1>5, CliWrites
    <2>2. QED
      BY <1>1, <2>1, RequeueFailedTable, InsertedRow DEF Row
  <1>6. CASE UNCHANGED jobs
    BY <1>6
  <1>7. QED
    BY <1>2, <1>4, <1>5, <1>6
       DEF TickStep, Tick, ClaimNothing, ClaimSelect, HandleReturns, HandleThrows, CliCheck, vars

\* A job of AnalyzeClass comes from a request.
LEMMA NewJobsAreAsked ==
    ASSUME PipeInv, [PipeNext]_pipeVars, NEW j \in JobIds, ~IsAnalyze(j), IsAnalyze(j)'
    PROVE  \E a \in ApiCalls : ItemDispatchFails(a)
             \/ (ItemDispatch(a) /\ calls'[a].at = "store" /\ calls'[a].job = j)
  <1> USE DEF PipeInv
  <1>1. jobs[j].status = "absent" /\ jobs'[j].status # "absent" /\ jobs'[j].class = AnalyzeClass
    BY RowsPersist, PipeStepIsQueueStep DEF IsAnalyze
  <1>2. jobs' # jobs
    BY <1>1
  <1>3. ASSUME NEW k \in JobIds, NEW c \in Classes, Dispatch(k, c)
        PROVE  k = j /\ c = AnalyzeClass
    BY <1>1, <1>3, InsertedRow DEF Dispatch, TypeInv, TypeOK
  <1>4. ~QueueOnly
    BY <1>1, <1>3, AbsentStays DEF QueueOnly, OwnStep, TickStep
  <1>5. \A w \in Workers : ~WorkerCrash(w)
    BY <1>1, AbsentStays DEF WorkerCrash
  <1>6. \A t \in Ticks : ~(HandlerStep(t) \/ StoreFails(t))
    BY <1>2 DEF HandlerStep, ParseThrows, ParseReturns, EngineAnswers, EngineFails, StoreResult,
                StoreMissesRow, StoreFails, OtherHandler, HandleReturns, HandleThrows, vars
  <1>7. PICK a \in ApiCalls : ItemDispatch(a) \/ ItemDispatchFails(a)
    <2>1. ASSUME NEW a \in ApiCalls, Post(a) \/ Lookup(a) \/ LookupFails(a) \/ ItemExists(a)
                   \/ StoreRow(a) \/ StoreRowConflicts(a) \/ StoreRowFails(a) \/ Reply(a)
          PROVE  UNCHANGED vars
      BY <2>1 DEF Post, Lookup, LookupFails, ItemExists, StoreRow, StoreRowConflicts,
                  StoreRowFails, Reply
    <2>2. ASSUME NEW r \in Readers, Ask(r) \/ ReadJob(r) \/ ReadResult(r) \/ Answer(r)
          PROVE  UNCHANGED vars
      BY <2>2 DEF Ask, ReadJob, ReadResult, Answer
    <2>3. ApiCrash \/ UNCHANGED pipeVars => UNCHANGED vars
      BY DEF ApiCrash, pipeVars
    <2>4. ~UNCHANGED vars
      BY <1>2 DEF vars
    <2>5. QED
      BY <1>4, <1>5, <1>6, <2>1, <2>2, <2>3, <2>4 DEF PipeNext, ApiStep
  <1>8. CASE ItemDispatch(a)
    <2>1. PICK k \in JobIds :
             /\ Dispatch(k, AnalyzeClass)
             /\ calls' = [calls EXCEPT ![a] = [calls[a] EXCEPT !.at = "store", !.job = k]]
      BY <1>8 DEF ItemDispatch, PipeTyped
    <2>2. k = j
      BY <1>3, <2>1, AnalyzeAssumption, JobTableAssumption
    <2>3. calls'[a].at = "store" /\ calls'[a].job = k
      BY <2>1 DEF PipeTyped, Call
    <2>4. QED
      BY <1>8, <2>2, <2>3
  <1>9. QED
    BY <1>7, <1>8

-----------------------------------------------------------------------------
(* A job without a row                                                     *)

\* The failures of the API are counted, and a job of AnalyzeClass has a game.
CountInv ==
    /\ apiCrashes \in Nat /\ pipeFaults \in Nat
    /\ \A j \in JobIds : IsAnalyze(j) => payload[j] \in Sgfs

Failed == apiCrashes > 0 \/ pipeFaults > 0

LEMMA FailuresAreCounted ==
    ASSUME CountInv, [PipeNext]_pipeVars
    PROVE  /\ apiCrashes' \in Nat /\ pipeFaults' \in Nat
           /\ Failed => Failed'
  <1>1. ASSUME NEW t \in Ticks, HandlerStep(t) \/ StoreFails(t)
        PROVE  apiCrashes' = apiCrashes /\ pipeFaults' \in {pipeFaults, pipeFaults + 1}
    BY <1>1 DEF HandlerStep, ParseThrows, ParseReturns, EngineAnswers, EngineFails, StoreResult,
                StoreMissesRow, StoreFails, OtherHandler, ResultFault, apiVars
  <1>2. ASSUME NEW a \in ApiCalls, Post(a) \/ ApiStep(a) \/ LookupFails(a)
                                     \/ ItemDispatchFails(a) \/ StoreRowFails(a)
        PROVE  apiCrashes' = apiCrashes /\ pipeFaults' \in {pipeFaults, pipeFaults + 1}
    BY <1>2 DEF Post, ApiStep, Lookup, LookupFails, ItemExists, ItemDispatch, ItemDispatchFails,
                StoreRow, StoreRowConflicts, StoreRowFails, Reply, ResultFault
  <1>3. CASE ApiCrash
    BY <1>3 DEF ApiCrash, CountInv, Failed
  <1>4. CASE apiCrashes' = apiCrashes /\ pipeFaults' \in {pipeFaults, pipeFaults + 1}
    BY <1>4 DEF CountInv, Failed
  <1>5. QED
    BY <1>1, <1>2, <1>3, <1>4
       DEF PipeNext, QueueOnly, WorkerCrash, Ask, ReadJob, ReadResult, Answer, pipeVars, apiVars

\* A new job repeats the game its request is at.
LEMMA NewJobsHaveGames ==
    ASSUME PipeInv, CountInv, [PipeNext]_pipeVars, NEW j \in JobIds, IsAnalyze(j)'
    PROVE  payload'[j] \in Sgfs
  <1>1. CASE IsAnalyze(j)
    BY <1>1, AnalyzePersists DEF CountInv
  <1>2. CASE ~IsAnalyze(j)
    <2>1. PICK a \in ApiCalls : ItemDispatch(a) \/ ItemDispatchFails(a)
      BY <1>2, NewJobsAreAsked
    <2>2. Head(calls[a].items) \in Sgfs
      BY <2>1, HeadIsGame DEF ItemDispatch, ItemDispatchFails, AtItem, PipeInv
    <2>3. jobs' # jobs
      BY <1>2 DEF IsAnalyze
    <2>4. PICK k \in JobIds : /\ Dispatch(k, AnalyzeClass)
                              /\ payload' = [payload EXCEPT ![k] = Head(calls[a].items)]
      BY <2>1, <2>3 DEF ItemDispatch, ItemDispatchFails, vars
    <2>5. k = j
      BY <1>2, <2>4 DEF Dispatch, IsAnalyze, PipeInv, TypeInv, TypeOK
    <2>6. QED
      BY <2>2, <2>4, <2>5 DEF PipeInv, PipeTyped
  <1>3. QED
    BY <1>1, <1>2

LEMMA CountStep ==
    ASSUME PipeInv, CountInv, [PipeNext]_pipeVars
    PROVE  CountInv'
  BY FailuresAreCounted, NewJobsHaveGames DEF CountInv

\* Once a game has a row it keeps one.
LEMMA GamesKeepRows ==
    ASSUME PipeInv, [PipeNext]_pipeVars, NEW s \in Sgfs, RowOf(s) # {}
    PROVE  \E k \in JobIds : results'[k].sgf = s
  <1>1. PICK k \in JobIds : results[k].sgf = s
    BY DEF RowOf
  <1>2. HasRow(k)
    BY <1>1, AnalyzeAssumption DEF HasRow, NoResult
  <1>3. QED
    BY <1>1, <1>2, ResultsPersist

\* A request leaves the job it was storing with a row, before a row of the same
\* game, or by a failure.
LEMMA LeavingIsExplained ==
    ASSUME PipeInv, CountInv, [PipeNext]_pipeVars, NEW a \in ApiCalls, NEW j \in JobIds,
           calls[a].at = "store", calls[a].job = j, calls'[a] # calls[a]
    PROVE  HasRow(j)' \/ RowOf(payload[j]) # {} \/ Failed'
  <1>1. payload[j] = Head(calls[a].items) /\ calls \in [ApiCalls -> Call]
    BY DEF PipeInv, StoringInv, PipeTyped
  <1>2. CASE apiCrashes' = apiCrashes + 1
    BY <1>2 DEF CountInv, Failed
  <1>3. ASSUME NEW b \in ApiCalls,
               \/ Post(b) \/ Lookup(b) \/ LookupFails(b) \/ ItemExists(b)
               \/ ItemDispatch(b) \/ ItemDispatchFails(b) \/ StoreRow(b)
               \/ StoreRowConflicts(b) \/ StoreRowFails(b) \/ Reply(b)
        PROVE  b = a /\ (StoreRow(a) \/ StoreRowConflicts(a) \/ StoreRowFails(a))
    <2>1. b = a
      BY <1>1, <1>3 DEF Post, Lookup, LookupFails, ItemExists, ItemDispatch, ItemDispatchFails,
                        StoreRow, StoreRowConflicts, StoreRowFails, Reply
    <2>2. QED
      BY <1>3, <2>1 DEF Post, Lookup, LookupFails, ItemExists, ItemDispatch, ItemDispatchFails,
                        Reply, AtItem
  <1>4. CASE StoreRow(a)
    BY <1>4, NewRowTyped DEF StoreRow, HasRow, PipeInv, PipeTyped
  <1>5. CASE StoreRowConflicts(a)
    BY <1>1, <1>5 DEF StoreRowConflicts
  <1>6. CASE StoreRowFails(a)
    BY <1>6 DEF StoreRowFails, ResultFault, CountInv, Failed
  <1>7. QED
    BY <1>2, <1>3, <1>4, <1>5, <1>6, CallSteps

\* A job that is new is being stored, or its INSERT has met a failure.
LEMMA ArrivingIsExplained ==
    ASSUME PipeInv, CountInv, [PipeNext]_pipeVars, NEW j \in JobIds,
           ~IsAnalyze(j), IsAnalyze(j)'
    PROVE  (\E a \in ApiCalls : calls'[a].at = "store" /\ calls'[a].job = j) \/ Failed'
  <1>1. CASE \E a \in ApiCalls : ItemDispatchFails(a)
    BY <1>1 DEF ItemDispatchFails, CountInv, Failed
  <1>2. QED
    BY <1>1, NewJobsAreAsked

LEMMA MissingStep ==
    ASSUME PipeInv, CountInv, MissingRowIsExplained, [PipeNext]_pipeVars
    PROVE  MissingRowIsExplained'
  <1> SUFFICES ASSUME NEW j \in JobIds, IsAnalyze(j)', ~HasRow(j)', ~Failed',
                      \A a \in ApiCalls : ~(calls'[a].at = "store" /\ calls'[a].job = j)
               PROVE  \E k \in JobIds : results'[k].sgf = payload'[j]
    BY DEF MissingRowIsExplained, RowOf, Failed
  <1>1. IsAnalyze(j)
    BY ArrivingIsExplained
  <1>2. payload'[j] = payload[j] /\ payload[j] \in Sgfs
    BY <1>1, AnalyzePersists DEF CountInv
  <1>3. ~HasRow(j) /\ ~Failed
    BY ResultsPersist, FailuresAreCounted
  <1>4. RowOf(payload[j]) # {}
    <2>1. ASSUME NEW a \in ApiCalls, calls[a].at = "store", calls[a].job = j
          PROVE  RowOf(payload[j]) # {}
      BY <2>1, LeavingIsExplained
    <2>2. QED
      BY <1>1, <1>3, <2>1 DEF MissingRowIsExplained, Failed
  <1>5. QED
    BY <1>2, <1>4, GamesKeepRows

\* MissingRowIsExplained: whatever requests overlap and whenever the API dies, an
\* analysis job without a row is one whose request is at its second INSERT, whose
\* game has a row already, or that a failure of the API has left behind.
THEOREM MissingRowsAreExplained == PipeSpec => []MissingRowIsExplained
  <1>1. PipeInit => CountInv /\ MissingRowIsExplained
    BY DEF PipeInit, Init, CountInv, MissingRowIsExplained, IsAnalyze, NoRow
  <1>2. PipeInv /\ CountInv /\ MissingRowIsExplained /\ [PipeNext]_pipeVars
          => (CountInv /\ MissingRowIsExplained)'
    BY CountStep, MissingStep
  <1>3. QED
    BY <1>1, <1>2, PipeInvariant, PTL DEF PipeSpec

-----------------------------------------------------------------------------
(* The unique index, and requests that take turns                          *)

\* The unique index: no two rows hold one game.
RowsDiffer ==
    \A j, k \in JobIds : HasRow(j) /\ HasRow(k) /\ results[j].sgf = results[k].sgf => j = k

LEMMA RowsDifferStep ==
    ASSUME PipeInv, RowsDiffer, [PipeNext]_pipeVars
    PROVE  RowsDiffer'
  <1>1. ASSUME NEW j \in JobIds, NEW k \in JobIds, HasRow(j)', HasRow(k)', ~HasRow(j),
               results'[j].sgf = results'[k].sgf, j # k
        PROVE  FALSE
    <2>1. PICK a \in ApiCalls : /\ calls[a].at = "store" /\ calls[a].job = j
                                /\ results'[j] = NewRow(a)
                                /\ StoreRow(a) \/ StoreRowFails(a)
      BY <1>1, NewRowsAreStored
    <2>2. results'[k] = results[k]
      BY <1>1, <2>1 DEF StoreRow, StoreRowFails, ResultFault, PipeInv, PipeTyped
    <2>3. k \in RowOf(Head(calls[a].items))
      BY <1>1, <2>1, <2>2 DEF NewRow, RowOf
    <2>4. QED
      BY <2>1, <2>3 DEF StoreRow, StoreRowFails
  <1>2. QED
    BY <1>1, ResultsPersist DEF RowsDiffer

LEMMA RowsAreUnique == PipeSpec => []RowsDiffer
  <1>1. PipeInit => RowsDiffer
    BY DEF PipeInit, RowsDiffer, HasRow
  <1>2. QED
    BY <1>1, RowsDifferStep, PipeInvariant, PTL DEF PipeSpec

\* One request at a time, a database that answers the API, an API that stays up.
OneRequest == \A a, b \in ApiCalls : a = b
NoApiFailure == MaxPipeFaults = 0 /\ MaxApiCrashes = 0

\* Then a request that has looked its games up knows of every row there is for
\* them, and a job without a row is the one it is about to store a row for.
TurnInv ==
    /\ pipeFaults = 0 /\ apiCrashes = 0
    /\ \A j \in JobIds : IsAnalyze(j) =>
         HasRow(j) \/ \E a \in ApiCalls : calls[a].at = "store" /\ calls[a].job = j
    /\ \A a \in ApiCalls : calls[a].at \in {"item", "store"} =>
         \A s \in Sgfs : calls[a].known[s] = NoJob => RowOf(s) = {}
    /\ \A a \in ApiCalls : calls[a].at = "store" =>
         calls[a].known[Head(calls[a].items)] = NoJob

\* What is left of the steps of requests.
LEMMA TurnSteps ==
    ASSUME NoApiFailure, PipeInv, TurnInv, [PipeNext]_pipeVars
    PROVE  /\ pipeFaults' = pipeFaults /\ apiCrashes' = apiCrashes
           /\ \/ calls' = calls
              \/ \E a \in ApiCalls : Post(a) \/ ApiStep(a)
           /\ \A a \in ApiCalls : ~ItemDispatchFails(a) /\ ~StoreRowFails(a)
  <1> USE DEF NoApiFailure, TurnInv, ResultFault
  <1>1. /\ \A a \in ApiCalls : ~LookupFails(a) /\ ~ItemDispatchFails(a) /\ ~StoreRowFails(a)
        /\ \A t \in Ticks : ~StoreFails(t)
        /\ ~ApiCrash
    BY DEF LookupFails, ItemDispatchFails, StoreRowFails, StoreFails, ApiCrash
  <1>2. CASE \E t \in Ticks : HandlerStep(t)
    BY <1>1, <1>2 DEF HandlerStep, ParseThrows, ParseReturns, EngineAnswers, EngineFails,
                      StoreResult, StoreMissesRow, OtherHandler, apiVars
  <1>3. ASSUME NEW a \in ApiCalls, Post(a) \/ ApiStep(a)
        PROVE  pipeFaults' = pipeFaults /\ apiCrashes' = apiCrashes
    <2>1. pipeFaults' = pipeFaults
      BY <1>3 DEF Post, ApiStep, Lookup, ItemExists, ItemDispatch, StoreRow,
                  StoreRowConflicts, Reply
    <2>2. apiCrashes' = apiCrashes
      BY <1>3 DEF Post, ApiStep, Lookup, ItemExists, ItemDispatch, StoreRow,
                  StoreRowConflicts, Reply
    <2>3. QED
      BY <2>1, <2>2
  <1>4. ASSUME NEW r \in Readers, Ask(r) \/ ReadJob(r) \/ ReadResult(r) \/ Answer(r)
        PROVE  UNCHANGED apiVars
    BY <1>4 DEF Ask, ReadJob, ReadResult, Answer
  <1>5. QED
    BY <1>1, <1>2, <1>3, <1>4 DEF PipeNext, QueueOnly, WorkerCrash, pipeVars, apiVars

\* Only a request that stores its row gives a game one.
LEMMA GamesWithoutRow ==
    ASSUME PipeInv, [PipeNext]_pipeVars, NEW s \in Sgfs, RowOf(s) = {}, RowOf(s)' # {}
    PROVE  \E a \in ApiCalls : /\ StoreRow(a) \/ StoreRowFails(a)
                               /\ s = Head(calls[a].items)
  <1>1. PICK j \in JobIds : results'[j].sgf = s
    BY DEF RowOf
  <1>2. results[j].sgf # s
    BY DEF RowOf
  <1>3. HasRow(j)' /\ ~HasRow(j)
    BY <1>1, <1>2, AnalyzeAssumption, ResultsPersist DEF HasRow, NoResult
  <1>4. PICK a \in ApiCalls : results'[j] = NewRow(a) /\ (StoreRow(a) \/ StoreRowFails(a))
    BY <1>3, NewRowsAreStored
  <1>5. QED
    BY <1>1, <1>4 DEF NewRow

\* What a request knows after its step.
LEMMA TurnCallsStep ==
    ASSUME OneRequest, NoApiFailure, PipeInv, TurnInv, [PipeNext]_pipeVars,
           NEW a \in ApiCalls, calls'[a].at \in {"item", "store"}
    PROVE  /\ \A s \in Sgfs : calls'[a].known[s] = NoJob => RowOf(s)' = {}
           /\ calls'[a].at = "store" => calls'[a].known[Head(calls'[a].items)] = NoJob
  <1>0. calls \in [ApiCalls -> Call] /\ calls[a] \in Call
    BY DEF PipeInv, PipeTyped
  <1>1. CASE calls' = calls
    <2>1. \A b \in ApiCalls : ~StoreRow(b)
      BY <1>1, StoredMovesOn DEF StoreRow
    <2>2. \A s \in Sgfs : RowOf(s) = {} => RowOf(s)' = {}
      BY <2>1, TurnSteps, GamesWithoutRow
    <2>3. QED
      BY <1>1, <2>2 DEF TurnInv
  <1>2. CASE Post(a) \/ Reply(a)
    <2>1. NoCall.at = "idle" /\ \A s \in Requests :
             [NoCall EXCEPT !.at = "lookup", !.items = s].at = "lookup"
      BY DEF NoCall
    <2>2. calls'[a] = NoCall \/ \E s \in Requests :
             calls'[a] = [NoCall EXCEPT !.at = "lookup", !.items = s]
      BY <1>0, <1>2 DEF Post, Reply
    <2>3. QED
      BY <2>1, <2>2
  <1>3. CASE Lookup(a)
    <2>1. PICK known \in [Sgfs -> JobIds \cup {NoJob}] :
             /\ \A s \in Sgfs :
                  IF RowOf(s) = {} THEN known[s] = NoJob ELSE known[s] \in RowOf(s)
             /\ calls' = [calls EXCEPT ![a] = [calls[a] EXCEPT !.at = "item", !.known = known]]
             /\ results' = results
      BY <1>3 DEF Lookup
    <2>2. calls'[a].known = known /\ calls'[a].at = "item"
      BY <1>0, <2>1 DEF Call
    <2>3. \A s \in Sgfs : known[s] = NoJob => RowOf(s) = {}
      BY <2>1, QueueWorkerAssumption DEF RowOf
    <2>4. QED
      BY <2>1, <2>2, <2>3 DEF RowOf
  <1>4. CASE ItemExists(a) \/ StoreRowConflicts(a)
    <2>1. /\ calls'[a].known = calls[a].known /\ calls'[a].at = "item"
          /\ results' = results
          /\ calls[a].at \in {"item", "store"}
      <3>1. CASE ItemExists(a)
        <4>1. calls[a].known[Head(calls[a].items)] \in JobIds
          BY <1>0, <3>1, HeadIsGame DEF ItemExists, AtItem, Call, PipeInv
        <4>2. QED
          BY <1>0, <3>1, <4>1, NamingTyped DEF ItemExists, AtItem
      <3>2. CASE StoreRowConflicts(a)
        BY <1>0, <3>2, NextItemTyped DEF StoreRowConflicts, PipeInv, StoringInv
      <3>3. QED
        BY <1>4, <3>1, <3>2
    <2>2. QED
      BY <2>1 DEF TurnInv, RowOf
  <1>5. CASE ItemDispatch(a)
    <2>1. PICK j \in JobIds :
             /\ calls' = [calls EXCEPT ![a] = [calls[a] EXCEPT !.at = "store", !.job = j]]
             /\ calls[a].at = "item" /\ calls[a].known[Head(calls[a].items)] = NoJob
             /\ results' = results
      BY <1>5 DEF ItemDispatch, AtItem
    <2>2. calls'[a].known = calls[a].known /\ calls'[a].items = calls[a].items
      BY <1>0, <2>1 DEF Call
    <2>3. QED
      BY <2>1, <2>2 DEF TurnInv, RowOf
  <1>6. CASE StoreRow(a)
    <2> DEFINE s == Head(calls[a].items)
               j == calls[a].job
               c == Known(calls[a], s, j)
    <2>1. /\ j \in JobIds /\ calls[a].items # <<>> /\ s \in Sgfs
          /\ calls'[a] = NextItemNaming(c, j) /\ calls[a].at = "store"
      BY <1>0, <1>6, HeadIsGame DEF StoreRow, PipeInv, StoringInv
    <2>2. /\ c \in Call /\ c.items = calls[a].items
          /\ c.known = [calls[a].known EXCEPT ![s] = j]
      BY <1>0, <2>1, KnownTyped
    <2>3. calls'[a].known = [calls[a].known EXCEPT ![s] = j] /\ calls'[a].at = "item"
      <3> HIDE DEF c, s, j
      <3>1. c.items # <<>>
        BY <2>1, <2>2
      <3>2. QED
        BY <2>1, <2>2, <3>1, NamingTyped
    <2>4. ASSUME NEW q \in Sgfs, calls'[a].known[q] = NoJob
          PROVE  RowOf(q)' = {}
      <3>1. q # s /\ calls[a].known[q] = NoJob
        BY <1>0, <2>1, <2>3, <2>4, QueueWorkerAssumption DEF Call
      <3>2. RowOf(q) = {}
        BY <2>1, <3>1 DEF TurnInv
      <3>3. QED
        BY <3>1, <3>2, TurnSteps, GamesWithoutRow DEF OneRequest
    <2>5. QED
      BY <2>3, <2>4
  <1>7. QED
    BY <1>1, <1>2, <1>3, <1>4, <1>5, <1>6, TurnSteps DEF ApiStep, OneRequest

\* A job gets its row before its request goes on.
LEMMA TurnJobsStep ==
    ASSUME OneRequest, NoApiFailure, PipeInv, TurnInv, [PipeNext]_pipeVars,
           NEW j \in JobIds, IsAnalyze(j)', ~HasRow(j)'
    PROVE  \E a \in ApiCalls : calls'[a].at = "store" /\ calls'[a].job = j
  <1>1. CASE ~IsAnalyze(j)
    BY <1>1, NewJobsAreAsked, TurnSteps
  <1>2. CASE IsAnalyze(j)
    <2>1. ~HasRow(j)
      BY ResultsPersist
    <2>2. PICK a \in ApiCalls : calls[a].at = "store" /\ calls[a].job = j
      BY <1>2, <2>1 DEF TurnInv
    <2>3. ~StoreRow(a)
      BY <2>2, NewRowTyped DEF StoreRow, HasRow, PipeInv, PipeTyped
    <2>4. ~StoreRowConflicts(a)
      <3>1. calls[a].known[Head(calls[a].items)] = NoJob /\ Head(calls[a].items) \in Sgfs
        BY <2>2, HeadIsGame DEF TurnInv, PipeInv, StoringInv
      <3>2. QED
        BY <2>2, <3>1 DEF TurnInv, StoreRowConflicts
    <2>5. ~Post(a) /\ ~Lookup(a) /\ ~ItemExists(a) /\ ~ItemDispatch(a) /\ ~Reply(a)
      BY <2>2 DEF Post, Lookup, ItemExists, ItemDispatch, Reply, AtItem
    <2>6. calls' = calls
      BY <2>3, <2>4, <2>5, TurnSteps DEF ApiStep, OneRequest
    <2>7. QED
      BY <2>2, <2>6
  <1>3. QED
    BY <1>1, <1>2

LEMMA TurnInvariant ==
    ASSUME OneRequest, NoApiFailure
    PROVE  PipeSpec => []TurnInv
  <1>1. PipeInit => TurnInv
    BY DEF PipeInit, Init, TurnInv, NoCall, NoRow, IsAnalyze
  <1>2. PipeInv /\ TurnInv /\ [PipeNext]_pipeVars => TurnInv'
    <2> SUFFICES ASSUME PipeInv, TurnInv, [PipeNext]_pipeVars PROVE TurnInv'
      OBVIOUS
    <2>1. pipeFaults' = 0 /\ apiCrashes' = 0
      BY TurnSteps DEF TurnInv
    <2>2. \A a \in ApiCalls : calls'[a].at \in {"item", "store"} =>
            /\ \A s \in Sgfs : calls'[a].known[s] = NoJob => RowOf(s)' = {}
            /\ calls'[a].at = "store" => calls'[a].known[Head(calls'[a].items)] = NoJob
      BY TurnCallsStep
    <2>3. \A j \in JobIds : IsAnalyze(j)' /\ ~HasRow(j)' =>
            \E a \in ApiCalls : calls'[a].at = "store" /\ calls'[a].job = j
      BY TurnJobsStep
    <2>4. QED
      BY <2>1, <2>2, <2>3 DEF TurnInv
  <1>3. QED
    BY <1>1, <1>2, PipeInvariant, PTL DEF PipeSpec

Quiet == \A a \in ApiCalls : calls[a].at = "idle"
EveryJobHasRow == Quiet => \A j \in JobIds : IsAnalyze(j) => HasRow(j)

\* With one request at a time and no failure of the API, every analysis job has
\* its row whenever no request is under way, whatever the worker does meanwhile:
\* it may crash, and its own statements may fail.
THEOREM JobsHaveRows ==
    ASSUME OneRequest, NoApiFailure
    PROVE  PipeSpec => []EveryJobHasRow
  <1>1. TurnInv => EveryJobHasRow
    BY DEF TurnInv, EveryJobHasRow, Quiet
  <1>2. QED
    BY <1>1, TurnInvariant, PTL

\* OneJobPerGame: under the same assumptions no game is ever analysed by two
\* jobs, however often it is sent, alone or within one batch.
THEOREM GamesHaveOneJob ==
    ASSUME OneRequest, NoApiFailure
    PROVE  PipeSpec => []OneJobPerGame
  <1>1. ASSUME PipeInv, TurnInv, RowsDiffer, NEW j \in JobIds, NEW k \in JobIds,
               IsAnalyze(j), IsAnalyze(k), payload[j] = payload[k], HasRow(j)
        PROVE  j = k
    <2>1. CASE HasRow(k)
      BY <1>1, <2>1 DEF RowsDiffer, PipeInv, RowMatchesJob
    <2>2. CASE ~HasRow(k)
      <3>1. PICK a \in ApiCalls : calls[a].at = "store" /\ calls[a].job = k
        BY <1>1, <2>2 DEF TurnInv
      <3>2. /\ payload[k] = Head(calls[a].items) /\ Head(calls[a].items) \in Sgfs
            /\ calls[a].known[Head(calls[a].items)] = NoJob
        BY <1>1, <3>1, HeadIsGame DEF PipeInv, StoringInv, TurnInv
      <3>3. j \in RowOf(Head(calls[a].items))
        BY <1>1, <3>2 DEF PipeInv, RowMatchesJob, RowOf
      <3>4. QED
        BY <1>1, <3>1, <3>2, <3>3 DEF TurnInv
    <2>3. QED
      BY <2>1, <2>2
  <1>2. ASSUME PipeInv, TurnInv, RowsDiffer PROVE OneJobPerGame
    <2> SUFFICES ASSUME NEW j \in JobIds, NEW k \in JobIds, IsAnalyze(j), IsAnalyze(k),
                        payload[j] = payload[k], ~HasRow(j), ~HasRow(k)
                 PROVE  j = k
      BY <1>1, <1>2 DEF OneJobPerGame
    <2>1. QED
      BY <1>2 DEF TurnInv, OneRequest
  <1>3. QED
    BY <1>2, TurnInvariant, RowsAreUnique, PipeInvariant, PTL
=============================================================================
