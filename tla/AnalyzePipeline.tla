-------------------------- MODULE AnalyzePipeline ---------------------------
(***************************************************************************)
(* The analysis of games on top of the queue: the API process stores a job *)
(* and a row of `sgf_analyze_results` for every game it accepts, the       *)
(* worker's SgfAnalyzeJob fills the row in, and clients read both tables.  *)
(* The two tables are written by separate statements, never in one         *)
(* transaction.  Every step is a step of QueueWorker or leaves the queue   *)
(* alone; the handler, one action there, has its stages here.              *)
(*                                                                         *)
(* A game is a member of Sgfs and stands for its own MD5.  The single and  *)
(* the batch request differ only in how the reply is worded, so a request  *)
(* is a sequence of games, of length one for POST /api/analyze.            *)
(***************************************************************************)
EXTENDS QueueWorker, Sequences

CONSTANTS
    Sgfs,          \* texts clients send
    Trim,          \* a text without the white space around it
    Blank,         \* the texts of white space only
    Requests,      \* the requests clients make: sequences of texts
    ApiCalls,      \* POST requests that can be under way together
    Readers,       \* GET requests that can be under way together
    AnalyzeClass,  \* SgfAnalyzeJob.name
    MaxApiCrashes, \* bound: crashes of the API process
    MaxPipeFaults  \* bound: statements of the API and on sgf_analyze_results that err

ASSUME AnalyzeAssumption ==
    /\ Trim \in [Sgfs -> Sgfs] /\ Blank \subseteq Sgfs
    /\ Requests \subseteq Seq(Sgfs)
    /\ AnalyzeClass \in Registered
    /\ "none" \notin Sgfs
    /\ MaxApiCrashes \in Nat /\ MaxPipeFaults \in Nat

VARIABLES
    payload,     \* jobs.payload: the text a job analyses
    results,     \* the row of sgf_analyze_results with this job_id
    stage,       \* how far handle() is, per call of tick()
    calls,       \* the POST requests
    readers,     \* the GET requests
    acked,       \* job ids some reply has named to a client
    apiCrashes, pipeFaults

apiVars == <<calls, acked, apiCrashes, pipeFaults>>
pipeVars == <<vars, payload, results, stage, readers, apiVars>>

NoResult == [sgf |-> "none", analyze_result |-> "null"]
ResultRow == [sgf: Sgfs \cup {"none"}, analyze_result: {"null", "set"}]

NoCall == [at |-> "idle", items |-> <<>>, known |-> [s \in Sgfs |-> NoJob],
           job |-> NoJob, ids |-> {}]
Call == [at: {"idle", "lookup", "item", "store"}, items: Seq(Sgfs),
         known: [Sgfs -> JobIds \cup {NoJob}], job: JobIds \cup {NoJob},
         ids: SUBSET JobIds]

NoRead == [todo |-> {}, kind |-> "none", id |-> NoJob, told |-> "no",
           status |-> "unread", result |-> "unread"]
Read == [todo: SUBSET {"job", "result"}, kind: {"none", "one", "many"},
         id: JobIds \cup {NoJob}, told: {"no", "yes"},
         status: Statuses \cup {"unread"},
         result: {"unread", "missing", "null", "set"}]

PipeTypeOK ==
    /\ TypeOK
    /\ payload \in [JobIds -> Sgfs \cup {"none"}]
    /\ results \in [JobIds -> ResultRow]
    /\ stage \in [Ticks -> {"parse", "engine", "store"}]
    /\ calls \in [ApiCalls -> Call]
    /\ readers \in [Readers -> Read]
    /\ acked \subseteq JobIds
    /\ apiCrashes \in Nat /\ pipeFaults \in Nat

PipeInit ==
    /\ Init
    /\ payload = [j \in JobIds |-> "none"]
    /\ results = [j \in JobIds |-> NoResult]
    /\ stage = [t \in Ticks |-> "parse"]
    /\ calls = [a \in ApiCalls |-> NoCall]
    /\ readers = [r \in Readers |-> NoRead]
    /\ acked = {}
    /\ apiCrashes = 0 /\ pipeFaults = 0

HasRow(j) == results[j] # NoResult
RowOf(s) == {j \in JobIds : results[j].sgf = s}

\* A statement on sgf_analyze_results errs: it had its effect or it had none.
ResultFault(effect) ==
    /\ pipeFaults < MaxPipeFaults
    /\ pipeFaults' = pipeFaults + 1
    /\ results' \in {results, effect}

-----------------------------------------------------------------------------
(* POST /api/analyze and /api/analyze/batch                                *)

Post(a) ==
    /\ calls[a].at = "idle"
    /\ \E s \in Requests :
         calls' = [calls EXCEPT ![a] = [NoCall EXCEPT !.at = "lookup", !.items = s]]
    /\ UNCHANGED <<vars, payload, results, stage, readers, acked, apiCrashes, pipeFaults>>

\* FAULTY: nothing is looked up, the unique index is relied on.
LookupSkipped(a) ==
    /\ calls[a].at = "lookup"
    /\ calls' = [calls EXCEPT ![a].at = "item"]
    /\ UNCHANGED <<vars, payload, results, stage, readers, acked, apiCrashes, pipeFaults>>

\* One SELECT finds the games of the request that have a row already.
Lookup(a) ==
    /\ calls[a].at = "lookup"
    /\ \E known \in [Sgfs -> JobIds \cup {NoJob}] :
         /\ \A s \in Sgfs :
              IF RowOf(s) = {} THEN known[s] = NoJob ELSE known[s] \in RowOf(s)
         /\ calls' = [calls EXCEPT ![a] = [@ EXCEPT !.at = "item", !.known = known]]
    /\ UNCHANGED <<vars, payload, results, stage, readers, acked, apiCrashes, pipeFaults>>

\* Its error is the reply to the whole request.
LookupFails(a) ==
    /\ calls[a].at = "lookup"
    /\ ResultFault(results)
    /\ calls' = [calls EXCEPT ![a] = NoCall]
    /\ UNCHANGED <<vars, payload, stage, readers, acked, apiCrashes>>

\* A game the request has stored itself counts as known from then on.
Known(c, s, j) == [c EXCEPT !.known = [c.known EXCEPT ![s] = j]]

\* The loop goes on to the next item ...
NextItem(c) == [c EXCEPT !.at = "item", !.items = Tail(c.items), !.job = NoJob]

\* ... and names the item's job in the reply.
NextItemNaming(c, j) ==
    LET n == NextItem(c) IN [n EXCEPT !.ids = n.ids \cup {j}]

AtItem(a) == calls[a].at = "item" /\ calls[a].items # <<>>

ItemExists(a) ==
    LET id == calls[a].known[Head(calls[a].items)] IN
    /\ AtItem(a)
    /\ id # NoJob
    /\ calls' = [calls EXCEPT ![a] = NextItemNaming(@, id)]
    /\ UNCHANGED <<vars, payload, results, stage, readers, acked, apiCrashes, pipeFaults>>

\* FAULTY: the job's id goes into the reply before its row is stored.
ItemDispatchRepliesEarly(a) ==
    LET s == Head(calls[a].items) IN
    /\ AtItem(a)
    /\ calls[a].known[s] = NoJob
    /\ \E j \in JobIds :
         /\ Dispatch(j, AnalyzeClass)
         /\ payload' = [payload EXCEPT ![j] = s]
         /\ calls' = [calls EXCEPT ![a].at = "store", ![a].job = j, ![a].ids = @ \cup {j}]
    /\ UNCHANGED <<results, stage, readers, acked, apiCrashes, pipeFaults>>

\* The job is inserted first, with its payload, ...
ItemDispatch(a) ==
    LET s == Head(calls[a].items) IN
    /\ AtItem(a)
    /\ calls[a].known[s] = NoJob
    /\ \E j \in JobIds :
         /\ Dispatch(j, AnalyzeClass)
         /\ payload' = [payload EXCEPT ![j] = s]
         /\ calls' = [calls EXCEPT ![a] = [@ EXCEPT !.at = "store", !.job = j]]
    /\ UNCHANGED <<results, stage, readers, acked, apiCrashes, pipeFaults>>

ItemDispatchFails(a) ==
    LET s == Head(calls[a].items) IN
    /\ AtItem(a)
    /\ calls[a].known[s] = NoJob
    /\ pipeFaults < MaxPipeFaults
    /\ pipeFaults' = pipeFaults + 1
    /\ \/ UNCHANGED <<vars, payload>>
       \/ \E j \in JobIds : Dispatch(j, AnalyzeClass)
                             /\ payload' = [payload EXCEPT ![j] = s]
    /\ calls' = [calls EXCEPT ![a] = NextItem(@)]
    /\ UNCHANGED <<results, stage, readers, acked, apiCrashes>>

\* FAULTY: the wrong index into the batch.
NewRowOfLast(a) ==
    [sgf |-> calls[a].items[Len(calls[a].items)], analyze_result |-> "null"]

NewRow(a) == [sgf |-> Head(calls[a].items), analyze_result |-> "null"]

\* FAULTY: only the last item of a batch gets its row.
StoreRowLastOnly(a) ==
    LET j == calls[a].job
        s == Head(calls[a].items)
    IN
    /\ calls[a].at = "store"
    /\ RowOf(s) = {}
    /\ results' = IF Len(calls[a].items) = 1
                    THEN [results EXCEPT ![j] = NewRow(a)] ELSE results
    /\ calls' = [calls EXCEPT ![a] =
                   NextItemNaming(Known(calls[a], s, j), j)]
    /\ UNCHANGED <<vars, payload, stage, readers, acked, apiCrashes, pipeFaults>>

\* ... its row second: the unique index on the MD5 decides who was first.
StoreRow(a) ==
    LET j == calls[a].job
        s == Head(calls[a].items)
    IN
    /\ calls[a].at = "store"
    /\ RowOf(s) = {}
    /\ results' = [results EXCEPT ![j] = NewRow(a)]
    /\ calls' = [calls EXCEPT ![a] =
                   NextItemNaming(Known(calls[a], s, j), j)]
    /\ UNCHANGED <<vars, payload, stage, readers, acked, apiCrashes, pipeFaults>>

\* The loser gets an error, and its job stays behind.
StoreRowConflicts(a) ==
    /\ calls[a].at = "store"
    /\ RowOf(Head(calls[a].items)) # {}
    /\ calls' = [calls EXCEPT ![a] = NextItem(@)]
    /\ UNCHANGED <<vars, payload, results, stage, readers, acked, apiCrashes, pipeFaults>>

StoreRowFails(a) ==
    /\ calls[a].at = "store"
    /\ RowOf(Head(calls[a].items)) = {}
    /\ ResultFault([results EXCEPT ![calls[a].job] = NewRow(a)])
    /\ calls' = [calls EXCEPT ![a] = NextItem(@)]
    /\ UNCHANGED <<vars, payload, stage, readers, acked, apiCrashes>>

Reply(a) ==
    /\ calls[a].at = "item" /\ calls[a].items = <<>>
    /\ acked' = acked \cup calls[a].ids
    /\ calls' = [calls EXCEPT ![a] = NoCall]
    /\ UNCHANGED <<vars, payload, results, stage, readers, apiCrashes, pipeFaults>>

\* The API process dies with every request under way.
ApiCrash ==
    /\ apiCrashes < MaxApiCrashes
    /\ apiCrashes' = apiCrashes + 1
    /\ calls' = [a \in ApiCalls |-> NoCall]
    /\ readers' = [r \in Readers |-> NoRead]
    /\ UNCHANGED <<vars, payload, results, stage, acked, pipeFaults>>

-----------------------------------------------------------------------------
(* SgfAnalyzeJob.handle                                                    *)

Handling(t, st) ==
    pc[t] = "handling" /\ jobs[held[t]].class = AnalyzeClass /\ stage[t] = st

Restage(t) == stage' = [stage EXCEPT ![t] = "parse"]

\* A payload that is blank, or that the parser refuses, fails the job.
ParseThrows(t) ==
    /\ Handling(t, "parse")
    /\ HandleThrows(t)
    /\ UNCHANGED <<payload, results, stage, readers, apiVars>>

ParseReturns(t) ==
    /\ Handling(t, "parse")
    /\ payload[held[t]] \notin Blank
    /\ stage' = [stage EXCEPT ![t] = "engine"]
    /\ UNCHANGED <<vars, payload, results, readers, apiVars>>

\* KatagoClientService.analyze resolves or rejects (see KatagoClient).
EngineAnswers(t) ==
    /\ Handling(t, "engine")
    /\ stage' = [stage EXCEPT ![t] = "store"]
    /\ UNCHANGED <<vars, payload, results, readers, apiVars>>

EngineFails(t) ==
    /\ Handling(t, "engine")
    /\ HandleThrows(t)
    /\ Restage(t)
    /\ UNCHANGED <<payload, results, readers, apiVars>>

Analysed(j) == [results EXCEPT ![j].analyze_result = "set"]

\* FAULTY: no look at how many rows the UPDATE has changed.
StoreResultUnchecked(t) ==
    /\ Handling(t, "store")
    /\ results' = IF HasRow(held[t]) THEN Analysed(held[t]) ELSE results
    /\ HandleReturns(t)
    /\ Restage(t)
    /\ UNCHANGED <<payload, readers, apiVars>>

\* FAULTY: the handler settles its job itself.
StoreResultMarksDone(t) ==
    /\ Handling(t, "store")
    /\ HasRow(held[t])
    /\ results' = Analysed(held[t])
    /\ jobs' = [jobs EXCEPT ![held[t]] = MarkedDone(@)]
    /\ Return(t)
    /\ Restage(t)
    /\ UNCHANGED <<proc, cli, counters, payload, readers, apiVars>>

StoreResult(t) ==
    /\ Handling(t, "store")
    /\ HasRow(held[t])
    /\ results' = Analysed(held[t])
    /\ HandleReturns(t)
    /\ Restage(t)
    /\ UNCHANGED <<payload, readers, apiVars>>

\* No row to update: an error of the handler.
StoreMissesRow(t) ==
    /\ Handling(t, "store")
    /\ ~HasRow(held[t])
    /\ HandleThrows(t)
    /\ Restage(t)
    /\ UNCHANGED <<payload, results, readers, apiVars>>

StoreFails(t) ==
    /\ Handling(t, "store")
    /\ ResultFault(IF HasRow(held[t]) THEN Analysed(held[t]) ELSE results)
    /\ HandleThrows(t)
    /\ Restage(t)
    /\ UNCHANGED <<payload, readers, calls, acked, apiCrashes>>

\* Handlers of other classes touch none of this.
OtherHandler(t) ==
    /\ pc[t] = "handling"
    /\ jobs[held[t]].class # AnalyzeClass
    /\ HandleReturns(t) \/ HandleThrows(t)
    /\ UNCHANGED <<payload, results, stage, readers, apiVars>>

-----------------------------------------------------------------------------
(* GET /api/analyze/:jobId ("one") and POST /api/analyze/results ("many")  *)

Ask(r) ==
    /\ readers[r] = NoRead
    /\ \E j \in JobIds, kind \in {"one", "many"} :
         readers' = [readers EXCEPT ![r] =
             [NoRead EXCEPT !.todo = {"job", "result"}, !.kind = kind, !.id = j,
                            !.told = IF j \in acked THEN "yes" ELSE "no"]]
    /\ UNCHANGED <<vars, payload, results, stage, apiVars>>

\* A job that is not there is the reply of the single read.
JobRead(R, status) ==
    [R EXCEPT !.status = status,
              !.todo = IF R.kind = "one" /\ status = "absent" THEN {} ELSE R.todo \ {"job"}]

ReadJob(r) ==
    /\ "job" \in readers[r].todo
    /\ readers' = [readers EXCEPT ![r] = JobRead(@, jobs[@.id].status)]
    /\ UNCHANGED <<vars, payload, results, stage, apiVars>>

ResultRead(R) ==
    [R EXCEPT !.result = IF HasRow(R.id) THEN results[R.id].analyze_result ELSE "missing",
              !.todo = R.todo \ {"result"}]

\* FAULTY: the two reads of the single request in either order.
ReadResultEarly(r) ==
    /\ "result" \in readers[r].todo
    /\ readers' = [readers EXCEPT ![r] = ResultRead(@)]
    /\ UNCHANGED <<vars, payload, results, stage, apiVars>>

\* The single read awaits the job before it asks for the row; the batch read
\* sends both statements at once.
ReadResult(r) ==
    /\ "result" \in readers[r].todo
    /\ readers[r].kind = "one" => "job" \notin readers[r].todo
    /\ readers' = [readers EXCEPT ![r] = ResultRead(@)]
    /\ UNCHANGED <<vars, payload, results, stage, apiVars>>

Answered(r) == readers[r].kind # "none" /\ readers[r].todo = {}

Answer(r) ==
    /\ Answered(r)
    /\ readers' = [readers EXCEPT ![r] = NoRead]
    /\ UNCHANGED <<vars, payload, results, stage, apiVars>>

-----------------------------------------------------------------------------
\* What the queue does by itself.  A handler of AnalyzeClass has its own
\* actions above, and its jobs come from requests only.
OwnStep(t) ==
    \/ ClaimNothing(t) \/ ClaimSelect(t) \/ ClaimCommit(t)
    \/ MarkDone(t) \/ MarkForRetry(t) \/ MarkFailed(t)

QueueOnly ==
    /\ \/ \E w \in Workers : Boot(w) \/ RequeueOnInit(w) \/ InitFails(w)
       \/ \E t \in Ticks : Tick(t) \/ OwnStep(t) \/ ClaimFails(t)
                           \/ MarkDoneFails(t) \/ SaveFails(t)
       \/ \E j \in JobIds, c \in Classes \ {AnalyzeClass} : Dispatch(j, c)
       \/ \E c \in Clis : CliRequeueOne(c) \/ \E j \in JobIds : CliCheck(c, j)
       \/ CliRequeueAll
    /\ UNCHANGED <<payload, results, stage, readers, apiVars>>

WorkerCrash(w) ==
    /\ Crash(w)
    /\ stage' = [t \in Ticks |-> IF Of[t] = w THEN "parse" ELSE stage[t]]
    /\ UNCHANGED <<payload, results, readers, apiVars>>

HandlerStep(t) ==
    \/ ParseThrows(t) \/ ParseReturns(t) \/ EngineAnswers(t) \/ EngineFails(t)
    \/ StoreResult(t) \/ StoreMissesRow(t) \/ OtherHandler(t)

ApiStep(a) ==
    \/ Lookup(a) \/ ItemExists(a) \/ ItemDispatch(a)
    \/ StoreRow(a) \/ StoreRowConflicts(a) \/ Reply(a)

PipeNext ==
    \/ QueueOnly
    \/ \E w \in Workers : WorkerCrash(w)
    \/ \E t \in Ticks : HandlerStep(t) \/ StoreFails(t)
    \/ \E a \in ApiCalls : Post(a) \/ ApiStep(a) \/ LookupFails(a)
                           \/ ItemDispatchFails(a) \/ StoreRowFails(a)
    \/ \E r \in Readers : Ask(r) \/ ReadJob(r) \/ ReadResult(r) \/ Answer(r)
    \/ ApiCrash

PipeSpec == PipeInit /\ [][PipeNext]_pipeVars

\* Fairness: the queue's, and a handler that returns or throws.  Nothing is
\* assumed of clients or of the API.
PipeFairness ==
    /\ \A w \in Workers : WF_pipeVars(QueueOnly /\ (Boot(w) \/ RequeueOnInit(w)))
    /\ \A w \in Workers :
         WF_pipeVars(QueueOnly /\ \E t \in Ticks : Of[t] = w /\ Tick(t))
    /\ \A t \in Ticks : WF_pipeVars((QueueOnly /\ OwnStep(t)) \/ HandlerStep(t))

PipeFairSpec == PipeSpec /\ PipeFairness

-----------------------------------------------------------------------------
(* Properties                                                              *)

IsAnalyze(j) == jobs[j].status # "absent" /\ jobs[j].class = AnalyzeClass

\* Whatever errors, crashes and second runs came before, a job is done only
\* when its analysis is stored.
DoneHasResult ==
    \A j \in JobIds : IsAnalyze(j) /\ jobs[j].status = "done" =>
        results[j].analyze_result = "set"

\* The row of a job holds the game its payload names, and belongs to a job that
\* exists, whatever the order in which requests of several clients interleave.
RowMatchesJob ==
    \A j \in JobIds : HasRow(j) => IsAnalyze(j) /\ results[j].sgf = payload[j]

\* A job id a reply has named, as queued or as existing, can be read: the job
\* and its row are there, and no crash or error afterwards takes them away.
AckedHasRow == \A j \in acked : IsAnalyze(j) /\ HasRow(j)

\* So a client that asks for a job it was told of never gets "not found".
AckedIsFound ==
    \A r \in Readers : Answered(r) /\ readers[r].told = "yes" =>
        readers[r].status # "absent" /\ readers[r].result # "missing"

\* GET /api/analyze/:jobId never shows a job done without its analysis,
\* although the job and the row are read one after the other.  (A missing row
\* is "not found".)
SingleReplyCoherent ==
    \A r \in Readers : Answered(r) /\ readers[r].kind = "one"
                         /\ readers[r].status = "done" => readers[r].result \in {"set", "missing"}

\* The pipeline is the queue with a handler: what is shown of QueueWorker holds
\* of it.
IsQueueWorker == Spec

\* A client that has been told of a job will see it done or failed.
AckedSettles ==
    \A j \in JobIds : j \in acked ~> jobs[j].status \in {"done", "failed"}

\* README: a game that was sent before gets no new job.  True of clients that
\* take turns, with a database that answers and an API that stays up.
OneJobPerGame ==
    \A j, k \in JobIds : IsAnalyze(j) /\ IsAnalyze(k) /\ payload[j] = payload[k] => j = k

\* README: POST creates the job and its row.  A job without one is explained:
\* its request is about to store it, a row of the same game was there first, the
\* API has died, or a statement has failed.
MissingRowIsExplained ==
    \A j \in JobIds : IsAnalyze(j) /\ ~HasRow(j) =>
        \/ \E a \in ApiCalls : calls[a].at = "store" /\ calls[a].job = j
        \/ RowOf(payload[j]) # {}
        \/ apiCrashes > 0 \/ pipeFaults > 0

-----------------------------------------------------------------------------
(* What the documents say and the code does not do                         *)

\* README, of GET /api/analyze/:jobId: analyzeResult may be null while the job
\* waits or runs.  POST /api/analyze/results has the same fields in its reply, and
\* there a done job has its analysis too.
ManyReplyCoherent ==
    \A r \in Readers : Answered(r) /\ readers[r].kind = "many"
                         /\ readers[r].status = "done" => readers[r].result = "set"

\* README: duplicates are found by the MD5 of trim(sgf).
OneRowPerTrimmedGame ==
    \A j, k \in JobIds : HasRow(j) /\ HasRow(k)
        /\ Trim[results[j].sgf] = Trim[results[k].sgf] => j = k
=============================================================================
