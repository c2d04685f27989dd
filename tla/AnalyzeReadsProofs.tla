------------------------- MODULE AnalyzeReadsProofs -------------------------
(***************************************************************************)
(* Proofs about what clients read: the two reads of a reply are separate   *)
(* steps, and the queue, the handler and other requests go on between      *)
(* them.  Any number of readers, requests, workers, crashes and errors.    *)
(***************************************************************************)
EXTENDS AnalyzePipelineProofs

\* What one reader has read.  What it was told of is there, and a job it read
\* as done is of another class or has its analysis before the row is read.
ReadOK(R) ==
    /\ R.kind # "none" => R.id \in JobIds
    /\ R.told = "yes" => R.kind # "none" /\ R.id \in acked
    /\ R.told = "yes" /\ "job" \notin R.todo => R.status # "absent"
    /\ R.told = "yes" /\ "result" \notin R.todo => R.result # "missing"
    /\ R.kind = "one" /\ R.status = "done" =>
          \/ results[R.id].analyze_result = "set"
          \/ jobs[R.id].status # "absent" /\ jobs[R.id].class # AnalyzeClass
    /\ R.kind = "one" /\ R.status = "done" /\ "result" \notin R.todo =>
          R.result \in {"set", "missing"}
    /\ R.kind = "none" => R.todo = {}
    /\ R.kind = "one" /\ "job" \in R.todo => "result" \in R.todo

ReadsInv ==
    /\ readers \in [Readers -> Read]
    /\ \A r \in Readers : ReadOK(readers[r])

-----------------------------------------------------------------------------
\* What a step does to the readers.
LEMMA ReaderSteps ==
    ASSUME [PipeNext]_pipeVars
    PROVE  \/ readers' = readers
           \/ readers' = [r \in Readers |-> NoRead]
           \/ \E r \in Readers : Ask(r) \/ ReadJob(r) \/ ReadResult(r) \/ Answer(r)
  <1>1. ASSUME NEW t \in Ticks, HandlerStep(t) \/ StoreFails(t) PROVE readers' = readers
    BY <1>1 DEF HandlerStep, ParseThrows, ParseReturns, EngineAnswers, EngineFails, StoreResult,
                StoreMissesRow, StoreFails, OtherHandler
  <1>2. ASSUME NEW a \in ApiCalls,
               Post(a) \/ ApiStep(a) \/ LookupFails(a) \/ ItemDispatchFails(a) \/ StoreRowFails(a)
        PROVE  readers' = readers
    BY <1>2 DEF Post, ApiStep, Lookup, LookupFails, ItemExists, ItemDispatch,
                ItemDispatchFails, StoreRow, StoreRowConflicts, StoreRowFails, Reply
  <1>3. QED
    BY <1>1, <1>2 DEF PipeNext, QueueOnly, WorkerCrash, ApiCrash, pipeVars

\* Nothing takes back what a reply has said.
LEMMA AckedGrows == ASSUME [PipeNext]_pipeVars PROVE acked \subseteq acked'
  <1>1. ASSUME NEW t \in Ticks, HandlerStep(t) \/ StoreFails(t) PROVE acked' = acked
    BY <1>1 DEF HandlerStep, ParseThrows, ParseReturns, EngineAnswers, EngineFails, StoreResult,
                StoreMissesRow, StoreFails, OtherHandler, apiVars
  <1>2. QED
    BY <1>1 DEF PipeNext, ApiStep, QueueOnly, WorkerCrash, Ask, ReadJob, ReadResult, Answer,
                ApiCrash, Post, Lookup, LookupFails, ItemExists, ItemDispatch,
                ItemDispatchFails, StoreRow, StoreRowConflicts, StoreRowFails, Reply,
                pipeVars, apiVars

\* A reader that takes no step stays right.
LEMMA ReadStays ==
    ASSUME PipeInv, [PipeNext]_pipeVars
    PROVE  \A R \in Read : ReadOK(R) => ReadOK(R)'
  <1> SUFFICES ASSUME NEW R \in Read, ReadOK(R) PROVE ReadOK(R)'
    OBVIOUS
  <1>1. ASSUME R.kind = "one", R.status = "done"
        PROVE  \/ results'[R.id].analyze_result = "set"
               \/ jobs'[R.id].status # "absent" /\ jobs'[R.id].class # AnalyzeClass
    <2>1. R.id \in JobIds
      BY <1>1 DEF ReadOK
    <2>2. CASE results[R.id].analyze_result = "set"
      BY <2>1, <2>2, ResultsPersist
    <2>3. CASE jobs[R.id].status # "absent" /\ jobs[R.id].class # AnalyzeClass
      BY <2>1, <2>3, PipeStepIsQueueStep, RowsPersist DEF PipeInv
    <2>4. QED
      BY <1>1, <2>2, <2>3 DEF ReadOK
  <1>2. QED
    BY <1>1, AckedGrows DEF ReadOK

LEMMA FreshRead == NoRead \in Read /\ ReadOK(NoRead) /\ ReadOK(NoRead)'
  BY DEF NoRead, Read, ReadOK

LEMMA AskKeeps ==
    ASSUME PipeInv, ReadsInv, NEW r \in Readers, Ask(r)
    PROVE  readers'[r] \in Read /\ ReadOK(readers'[r])
  <1>1. PICK j \in JobIds, kind \in {"one", "many"} :
            readers' = [readers EXCEPT ![r] =
              [NoRead EXCEPT !.todo = {"job", "result"}, !.kind = kind, !.id = j,
                             !.told = IF j \in acked THEN "yes" ELSE "no"]]
    BY DEF Ask
  <1>2. readers'[r] = [todo |-> {"job", "result"}, kind |-> kind, id |-> j,
                       told |-> IF j \in acked THEN "yes" ELSE "no",
                       status |-> "unread", result |-> "unread"]
    BY <1>1 DEF ReadsInv, NoRead
  <1>3. readers'[r] \in Read
    BY <1>2 DEF Read
  <1>4. QED
    BY <1>2, <1>3 DEF ReadOK

\* A job that a reply has named is there when it is read; a job read as done is
\* of another class, or its analysis is stored.
LEMMA JobReadKeeps ==
    ASSUME PipeInv, ReadsInv, NEW r \in Readers, ReadJob(r)
    PROVE  readers'[r] \in Read /\ ReadOK(readers'[r])
  <1> DEFINE R == readers[r]
             N == readers'[r]
             s == jobs[R.id].status
             todo == IF R.kind = "one" /\ s = "absent" THEN {} ELSE R.todo \ {"job"}
  <1>1. R \in Read /\ ReadOK(R) /\ "job" \in R.todo
    BY DEF ReadsInv, ReadJob
  <1>2. N = [R EXCEPT !.status = s, !.todo = todo]
    BY DEF ReadsInv, ReadJob, JobRead
  <1>3. R.kind # "none" /\ R.id \in JobIds
    BY <1>1 DEF ReadOK
  <1>4. s \in Statuses /\ todo \in SUBSET {"job", "result"}
    BY <1>1, <1>3 DEF PipeInv, TypeInv, TypeOK, Row, Read
  <1>5. /\ R.told = "yes" => s # "absent"
        /\ s = "done" => \/ results[R.id].analyze_result = "set"
                         \/ jobs[R.id].status # "absent" /\ jobs[R.id].class # AnalyzeClass
    BY <1>1, <1>3 DEF ReadOK, PipeInv, AckedInv, RowMatchesJob, DoneHasResult, IsAnalyze
  <1> HIDE DEF s, R, todo
  <1>6. /\ N \in Read
        /\ N.status = s /\ N.todo = todo /\ N.id = R.id /\ N.kind = R.kind
        /\ N.told = R.told /\ N.result = R.result
    BY <1>1, <1>2, <1>4 DEF Read
  <1>7. /\ "job" \notin todo
        /\ R.told = "yes" => ("result" \in todo <=> "result" \in R.todo)
        /\ s = "done" => ("result" \in todo <=> "result" \in R.todo)
    BY <1>5 DEF todo
  <1>8. QED
    BY <1>1, <1>3, <1>5, <1>6, <1>7 DEF ReadOK

\* The row of a job a reply has named is there; the row of a job read as done
\* has its analysis.
LEMMA ResultReadKeeps ==
    ASSUME PipeInv, ReadsInv, NEW r \in Readers, ReadResult(r)
    PROVE  readers'[r] \in Read /\ ReadOK(readers'[r])
  <1> DEFINE R == readers[r]
             N == readers'[r]
             x == IF HasRow(R.id) THEN results[R.id].analyze_result ELSE "missing"
             todo == R.todo \ {"result"}
  <1>1. /\ R \in Read /\ ReadOK(R) /\ "result" \in R.todo
        /\ R.kind = "one" => "job" \notin R.todo
    BY DEF ReadsInv, ReadResult
  <1>2. N = [R EXCEPT !.result = x, !.todo = todo]
    BY DEF ReadsInv, ReadResult, ResultRead
  <1>3. R.kind # "none" => R.id \in JobIds
    BY <1>1 DEF ReadOK
  <1>4. R.kind # "none"
    BY <1>1 DEF ReadOK
  <1>5. x \in {"null", "set", "missing"} /\ todo \in SUBSET {"job", "result"}
    BY <1>1, <1>3, <1>4 DEF PipeInv, PipeTyped, ResultRow, Read
  <1>6. /\ R.told = "yes" => x # "missing"
        /\ R.kind = "one" /\ R.status = "done" => x \in {"set", "missing"}
    BY <1>1, <1>3, <1>4, <1>5 DEF ReadOK, PipeInv, PipeTyped, ResultRow, AckedInv, RowMatchesJob, IsAnalyze
  <1> HIDE DEF x, R, todo
  <1>7. /\ N \in Read
        /\ N.result = x /\ N.todo = todo /\ N.id = R.id /\ N.kind = R.kind
        /\ N.told = R.told /\ N.status = R.status
    BY <1>1, <1>2, <1>5 DEF Read
  <1>8. "result" \notin todo /\ ("job" \in todo <=> "job" \in R.todo)
    BY DEF todo
  <1>9. QED
    BY <1>1, <1>3, <1>6, <1>7, <1>8 DEF ReadOK

LEMMA ReadsStep ==
    ASSUME PipeInv, ReadsInv, [PipeNext]_pipeVars
    PROVE  ReadsInv'
  <1>1. \A R \in Read : ReadOK(R) => ReadOK(R)'
    BY ReadStays
  <1>2. CASE readers' = readers
    BY <1>1, <1>2 DEF ReadsInv, ReadOK
  <1>3. CASE readers' = [r \in Readers |-> NoRead]
    BY <1>3, FreshRead DEF ReadsInv, ReadOK
  <1>4. ASSUME NEW r \in Readers, Ask(r) \/ ReadJob(r) \/ ReadResult(r) \/ Answer(r)
        PROVE  ReadsInv'
    <2>1. readers'[r] \in Read /\ ReadOK(readers'[r])
      <3>1. CASE Answer(r)
        BY <3>1, FreshRead DEF Answer, ReadsInv
      <3>2. QED
        BY <1>4, <3>1, AskKeeps, JobReadKeeps, ResultReadKeeps
    <2>2. readers' = [readers EXCEPT ![r] = readers'[r]]
      BY <1>4 DEF Ask, ReadJob, ReadResult, Answer, ReadsInv
    <2>3. UNCHANGED <<acked, jobs, results>>
      BY <1>4 DEF Ask, ReadJob, ReadResult, Answer, apiVars, vars
    <2>4. \A q \in Readers : readers'[q] \in Read /\ ReadOK(readers'[q])
      BY <2>1, <2>2 DEF ReadsInv
    <2>5. readers' \in [Readers -> Read]
      BY <2>2, <2>4 DEF ReadsInv
    <2>6. QED
      BY <2>3, <2>4, <2>5 DEF ReadsInv, ReadOK
  <1>5. QED
    BY <1>2, <1>3, <1>4, ReaderSteps

LEMMA ReadsInvariant == PipeSpec => []ReadsInv
  <1>1. PipeInit => ReadsInv
    BY FreshRead DEF PipeInit, ReadsInv
  <1>2. QED
    BY <1>1, ReadsStep, PipeInvariant, PTL DEF PipeSpec

\* AckedIsFound: a client that asks for a job it was told of finds it and its
\* row, whatever crashes, errors and other requests come between.
THEOREM ToldIsFound == PipeSpec => []AckedIsFound
  <1>1. ReadsInv => AckedIsFound
    BY DEF ReadsInv, ReadOK, AckedIsFound, Answered
  <1>2. QED
    BY <1>1, ReadsInvariant, PTL

\* SingleReplyCoherent: GET /api/analyze/:jobId shows no job as done without its
\* analysis.
THEOREM SingleReplyIsCoherent == PipeSpec => []SingleReplyCoherent
  <1>1. ReadsInv => SingleReplyCoherent
    BY DEF ReadsInv, ReadOK, SingleReplyCoherent, Answered
  <1>2. QED
    BY <1>1, ReadsInvariant, PTL

-----------------------------------------------------------------------------
(* With the readers, the types are complete.                               *)

RestTyped ==
    /\ stage \in [Ticks -> {"parse", "engine", "store"}]
    /\ apiCrashes \in Nat /\ pipeFaults \in Nat

LEMMA RestTypedStep == ASSUME RestTyped, [PipeNext]_pipeVars PROVE RestTyped'
  <1> USE DEF RestTyped, apiVars, ResultFault
  <1>1. ASSUME NEW t \in Ticks, HandlerStep(t) \/ StoreFails(t) PROVE RestTyped'
    <2> DEFINE Goes(st) == stage' = [stage EXCEPT ![t] = st]
    <2>1. ASSUME ParseThrows(t) \/ OtherHandler(t) PROVE stage' = stage
      BY <2>1 DEF ParseThrows, OtherHandler
    <2>2. ASSUME ParseReturns(t) \/ EngineAnswers(t) PROVE Goes("engine") \/ Goes("store")
      BY <2>2 DEF ParseReturns, EngineAnswers
    <2>3. ASSUME EngineFails(t) \/ StoreResult(t) \/ StoreMissesRow(t) \/ StoreFails(t)
          PROVE  Goes("parse")
      BY <2>3 DEF EngineFails, StoreResult, StoreMissesRow, StoreFails, Restage
    <2>4. apiCrashes' = apiCrashes
      BY <1>1 DEF HandlerStep, ParseThrows, ParseReturns, EngineAnswers, EngineFails,
                  StoreResult, StoreMissesRow, StoreFails, OtherHandler
    <2>5. pipeFaults' \in {pipeFaults, pipeFaults + 1}
      BY <1>1 DEF HandlerStep, ParseThrows, ParseReturns, EngineAnswers, EngineFails,
                  StoreResult, StoreMissesRow, StoreFails, OtherHandler
    <2>6. stage' = stage \/ Goes("parse") \/ Goes("engine") \/ Goes("store")
      BY <1>1, <2>1, <2>2, <2>3 DEF HandlerStep
    <2>7. QED
      BY <2>4, <2>5, <2>6
  <1>2. ASSUME NEW a \in ApiCalls,
               Post(a) \/ ApiStep(a) \/ LookupFails(a) \/ ItemDispatchFails(a) \/ StoreRowFails(a)
        PROVE  RestTyped'
    <2>1. stage' = stage
      BY <1>2 DEF Post, ApiStep, Lookup, LookupFails, ItemExists, ItemDispatch,
                  ItemDispatchFails, StoreRow, StoreRowConflicts, StoreRowFails, Reply
    <2>2. apiCrashes' = apiCrashes
      BY <1>2 DEF Post, ApiStep, Lookup, LookupFails, ItemExists, ItemDispatch,
                  ItemDispatchFails, StoreRow, StoreRowConflicts, StoreRowFails, Reply
    <2>3. pipeFaults' \in {pipeFaults, pipeFaults + 1}
      BY <1>2 DEF Post, ApiStep, Lookup, LookupFails, ItemExists, ItemDispatch,
                  ItemDispatchFails, StoreRow, StoreRowConflicts, StoreRowFails, Reply
    <2>4. QED
      BY <2>1, <2>2, <2>3
  <1>3. ASSUME NEW w \in Workers, WorkerCrash(w) PROVE RestTyped'
    BY <1>3 DEF WorkerCrash
  <1>4. CASE ApiCrash
    BY <1>4 DEF ApiCrash
  <1>5. CASE UNCHANGED <<stage, apiCrashes, pipeFaults>>
    BY <1>5
  <1>6. QED
    BY <1>1, <1>2, <1>3, <1>4, <1>5
       DEF PipeNext, QueueOnly, Ask, ReadJob, ReadResult, Answer, pipeVars

\* PipeTypeOK: the pipeline's variables keep their types.
THEOREM PipelineTypes == PipeSpec => []PipeTypeOK
  <1>1. PipeInit => RestTyped
    BY AnalyzeAssumption DEF PipeInit, RestTyped
  <1>2. PipeInv /\ ReadsInv /\ RestTyped => PipeTypeOK
    BY DEF PipeInv, TypeInv, PipeTyped, AckedInv, ReadsInv, RestTyped, PipeTypeOK
  <1>3. QED
    BY <1>1, <1>2, RestTypedStep, PipeInvariant, ReadsInvariant, PTL DEF PipeSpec
=============================================================================
