# katago-api in TLA+

katago-api takes Go games (SGF) over HTTP, queues their analysis in PostgreSQL
and lets one worker process run KataGo on them. This directory holds
specifications of the parts in which something can go wrong that a unit test
would hardly reach, the TLC configurations that check them on small instances,
and proofs, checked by TLAPS, of what matters most for instances of any size.
Paths below are relative to the repository, which is `src/` in `PROJECT.json`.

Contents: [the system](#the-system), [modules](#modules),
[from code to model](#from-code-to-model), [runs](#runs),
[divergences](#where-documents-and-code-disagree),
[fairness](#fairness), [proofs](#proofs),
[what is left out](#what-is-left-out), [plan](#plan).

## The system

Four containers: `node` (the API, which queues and never runs jobs), `worker`
(one of them, `src/worker.ts`), `telegram` (a bot that reports on the queue) and
the database. All of them restart when they die.

| Part | State | Operations | Talks to |
|---|---|---|---|
| `jobs` table, `JobRepository` | a row per job: status, attempts, error, timestamps | insert, claim, three ways to settle a row, two requeues, reads | everything below, by single statements; only the claim is a transaction |
| `QueueWorker` | `busy` | `onModuleInit` (requeue what is running), `tick()` once a second | `JobRepository`, the handler |
| `QueueService`, `QueueRegistry` | the handlers by class name | `dispatch`, find | `JobRepository` |
| CLI `queue:requeue-failed` | none | look, then update | `JobRepository` |
| `KatagoService`, controller | none (a request's own) | POST one game or a batch, GET one job, POST for many results | `QueueService`, `SgfAnalyzeResultRepository` |
| `sgf_analyze_results` | a row per stored game: MD5 (unique), job id, result | insert, find, update the result | |
| `SgfAnalyzeJob` | none | `handle`: parse, ask the engine, store | parser, client, repository |
| `KatagoClientService` | `process`, `starting`, `stopping`, `pending`, `idleStopTimer` | `analyze`, timers, stdout and exit events, `onModuleDestroy` | one child process |
| SGF parser, query builder, result mapper | none | a tree to a game, a game to a query, answers to moves | `SgfAnalyzeJob` |
| `TelegramBotService` | `running`, `offset`, the loop's await | poll, answer a command, post the hourly report, shut down | Telegram, the report |
| `TelegramReportService` | none | five counts, an estimate | the `jobs` table, by five statements |
| guard, filter, logger, DTOs, users | none | | |

What is hard in it:

- **Two tables, no transaction.** A job and its result row are inserted, settled
  and read by separate statements of separate processes.
- **A timer that does not wait.** `setInterval` calls `tick()` whether or not the
  last call has returned; one boolean keeps the calls apart on every return path.
- **Statements that fail.** An error of a statement does not say whether it took
  effect; the `catch` blocks write again.
- **Crashes and restarts** of the worker (it requeues every running row) and of
  the API (it forgets what it was doing).
- **A loop that must lose nothing**: the bot's offset moves on before an update is
  handled and is confirmed by the next poll, and any request on the way may fail
  with or without its effect.
- **Counts that are no snapshot**: a report adds up statements between which the
  queue moves on.
- **Answers for some of the turns**, which have to meet the moves they are about.
- **A child process** that may load for minutes, hang, die, ignore the end of its
  input, and whose `exit` event may come when its successor is already running.

What makes each part correct: no job is lost, run twice at once or left
`running` for ever; attempts are counted; a settled job stays settled; a `done`
job has its analysis; a job id that was given to a client can be read; every
call of `analyze()` ends; the engine is stopped when nobody uses it and never
while somebody does; the engine is asked about the game that was sent, and each
move gets its own answers; a command is neither lost nor handled twice by one
process, and the counts of a report do not contradict each other.

## Modules

| Module | What it is |
|---|---|
| `JobTable` | a row of `jobs`, and each statement of `JobRepository` as an operator on rows or tables |
| `JobLifecycle` | the abstract specification: a single server with the sets waiting, current, done, failed |
| `QueueWorker` | EXTENDS `JobTable`: worker processes, calls of `tick()`, dispatch, the CLI |
| `AnalyzePipeline` | EXTENDS `QueueWorker`: API requests, `sgf_analyze_results`, the stages of the handler, readers |
| `KatagoClient` | the engine process and the calls of `analyze()` |
| `SgfAnalysis` | what `handle()` does with the data: parser, query builder, the client's results, mapper |
| `TelegramReport` | EXTENDS `JobLifecycle`: the five statements of a report beside a queue that moves |
| `TelegramBot` | EXTENDS `TelegramReport`: the process, its polling loop, the hourly report, Telegram's side of `getUpdates` |
| `QueueWorkerProofs` | the queue, any number of workers, then one; statements may fail |
| `QueueLifecycleProofs` | EXTENDS it: one worker and a database that answers, and the refinement |
| `AnalyzePipelineProofs`, `AnalyzeReadsProofs` | the rows of the pipeline; what a reader sees |
| `KatagoClientProofs`, `KatagoClientUseProofs` | the engine client: its calls and engines; who stops an engine and when |
| `SgfAnalysisProofs` | the data of an analysis, for trees of any size |
| `TelegramBotProofs` | the bot and its report |
| `MCQueueWorker`, `MCAnalyzePipeline`, `MCKatagoClient`, `MCSgfAnalysis`, `MCTelegramBot` | the values of the constants for TLC |

`AnalyzePipeline` composes the API with the queue: its steps are steps of
`QueueWorker` or leave the queue alone (`IsQueueWorker`, checked and proved), and
the handler, which is one step in `QueueWorker`, has its stages there. What the
engine does to a handler (`EngineAnswers`, `EngineFails`) is what `KatagoClient`
shows of `analyze()`: it settles, and resolves only with every answer. `SgfAnalysis`
looks at the data the pipeline abstracts from. The queue under a report is
`JobLifecycle` itself, which `QueueWorker` implements (`ImplementsLifecycle`,
checked and proved), so what holds of a report beside the one holds beside the
other.

An operator marked `FAULTY` belongs to no specification. It is the slip that
`PROJECT.json` puts in the place of the definition after it, to see that the
property named there notices.

## From code to model

`PROJECT.json` maps each definition to its lines. In outline:

**Queue** (`src/queue/queue.worker.ts`, `job.repository.ts`). Each member of
`Ticks` is a call of `tick()`, `pc` is the await it is at:

| `pc` | in the code |
|---|---|
| `claiming` | `claimNextPending` before its SELECT |
| `selected` | inside its transaction, one row locked |
| `handling` | `await queueable.handle(...)` |
| `finishing` | `await markDone` |
| `retrying`, `failing` | `await markForRetry`, `await markFailed` in the inner `catch` |

`ClaimSelect` and `ClaimCommit` are two steps because other clients act
between them; `Locked` is what `FOR UPDATE SKIP LOCKED` skips. `ClaimFails`,
`MarkDoneFails` and `SaveFails` are the error paths: the statement had its effect
or it had none (`Fault`), the worker cannot tell. A class that is not registered
goes straight from the claim to `failing`. `Crash` may come at any step and
`Boot`, `RequeueOnInit` or `InitFails` follow. `queue:requeue-failed --job-id` reads
(`CliCheck`) and updates later (`CliRequeueOne`); each member of `Clis` is such a
command, and `cli` the id it is between the two with. A command for all jobs
(`CliRequeueAll`) is one statement and may come at any time, so what the other has
read can be stale: the job was put back, and runs or is done.

**Requests** (`src/katago/katago.service.ts`). `Post`, `Lookup`, then per game
`ItemExists` or `ItemDispatch` followed by `StoreRow`, `StoreRowConflicts`
(the unique index) or `StoreRowFails`, then `Reply`. A single request is a batch
of one: the replies are worded differently and agree on what matters here,
which job id they name (`acked`). `known` is the map `existingByMd5` with
`queuedInBatch`.

**Readers.** `GET /api/analyze/:jobId` awaits the job, then the row;
`POST /api/analyze/results` sends both statements at once. `todo` is what a
reader has still to hear.

**Handler** (`src/katago/jobs/sgf-analyze.job.ts`). `stage` is `parse`, `engine`
or `store`; an UPDATE that meets no row throws (`StoreMissesRow`).

**Engine** (`src/katago/katago-client.service.ts`). An action is one event of the
Node process with all the microtasks it leads to, so `Go`, the rest of
`ensureStarted` and `runQuery` after an await, is an operator that other actions
use: what happens to every waiting call when a stop ends or an exit comes in. An
engine is `dead` between its end and its `exit` event; `told` says whether it was
told to stop; `todo` are the answers it owes. `Exit` does what `onProcessExit`
does: it does not ask which process has exited.

**Data of an analysis** (`sgf-parser.service.ts`, `build-katago-query.ts`,
`katago-result.mapper.ts`, the end of `onStdoutLine`). `doc` is what
`@sabaki/sgf` returned: nodes with children, moves and root properties. `ReadRoot` or
`Unreadable` is `parse` up to the main line, `VisitNode` a turn of the loop that
walks it, `BuildQuery` the query from the game and the payload's options,
`EngineAnswers` an answer of the engine - the model keeps them as a set, since the
client sorts them by turn before anybody looks, so the order in which they come is not
tested - and `Store` the mapper. A body is
a function from keys to values: `Picked` is `pickKatagoOptions`, which takes known
keys that are not `undefined`, and `Override` is `??`, which lets `null` fall back.
`TurnResponses` is sorted by turn, and `ByTurn` looks a turn up in it.

**Bot** (`src/telegram/telegram-bot.service.ts`). `pc` is the await of `pollLoop`:

| `pc` | in the code |
|---|---|
| `loop` | the head of `while (this.running)` |
| `asked` | `await getUpdates()`, which Telegram has received |
| `batch` | between two updates of the `for` loop |
| `answer` | the reply to `/start` or `/ping` |
| `stats`, `channel`, `ack` | `/sendReport`: a statement of `getStats`, the report to the channel, the reply to who asked |
| `sleep` | the pause after an error |

`Take` moves the offset on and looks at the command up to its first await; `Throws`
is an error at any await, which gives up the batch. `Poll` is where Telegram takes
the offset as a confirmation, so a poll whose reply is lost confirms all the same.
`Stop` clears `running` and `StopDone` is the end of `onModuleDestroy`, when the loop
is back at its head. `Crash` and `StopDone` lose the offset (`Gone`). The hourly
report runs beside the loop; it shares nothing with it, and the statements
followed one by one are those of the loop's report.

**Report** (`telegram-report.service.ts`). A count is the set it counts, so that two
counts can be compared; `Statements` is the order in which they are awaited. The
worker, clients and the CLI move jobs at any time (`QueueMoves`), and a done job's
hour may be over at any time (`HourPasses`). `Eta` is which of the four estimates
`formatEta` gives.

### Abstractions

- A game is a value, its MD5 is the value itself; columns nobody reads are left
  out; an error is `"text"`, a time `"set"`.
- A commit that arrives after the client that sent it has died is not modelled,
  and the lock of a dead client is gone at once.
- A letter of a coordinate is its character code, a lead is in hundredths of a
  point and stands for the winrate too; `maxVisits` stands for all the options that
  are passed on as they are; what an alternative copies from KataGo is its `order`.
- The bot is configured; without a token or a channel it starts no loop. A message
  that is no command and a command for admins from somebody else have no answer.
- Checks of a request's form happen before anything is stored and are left out.
- An `error` event of the child process or of its stdin has no listener beyond
  the start and ends the worker: that is `Crash`.
- A query id is used by one call at a time, because a job is run by one call
  (`OneCallAtATime`): the test for a duplicate id is left out.
- After `Shutdown` the model goes on: NestJS waits for other hooks, and events
  may still arrive.

## Runs

Deadlock is checked in every run; `Finished` in `KatagoClient`, for a worker that
makes no more calls, and `Over` in `SgfAnalysis`, for a `handle()` that has
returned, are the stuttering steps.

| Run | Question | Instance |
|---|---|---|
| `queue_one_worker` | With a database that answers, is the queue the single server of `JobLifecycle`, does a done job stay done, does every job settle? | 1 worker, 2 overlapping calls, 3 jobs, 1 crash, 2 CLI commands |
| `queue_faults` | What holds of the busy flag, of the row a call holds, its columns and attempts, and of rows left `running`, when statements fail? | 1 worker, 2 calls, 2 jobs, 2 crashes, 2 failing statements, 2 CLI commands |
| `analyze_requests` | Do rows, payloads and replies agree, and is each job without a row explained, when requests overlap, a batch repeats a game, the API dies? | 2 requests, 2 games, 2 jobs, 1 API crash, 1 failing statement |
| `analyze_reads` | With two workers: does an open claim have its row to itself, is a done job's analysis stored, does a reader find what it was told of, is each step one of `QueueWorker`? | 2 workers, 1 job, 1 game, 1 reader, 1 failing statement of the API or on the results, 1 CLI command |
| `analyze_turns` | With clients that take turns: one job per game, and does every acknowledged job settle? | 2 jobs of 2 classes, a blank game, 1 crash, 1 requeue |
| `client_calls` | With calls that may overlap and join a start or a stop under way: are answers complete, is an engine ever lost, left without its idle timer, left alive? | 2 of 3 calls at a time, 2 turns, 1 engine that dies, prompt exits |
| `client_late_exits` | Is a hung engine killed, is one in use spared, does every call settle? | 1 of 3 calls at a time, slow starts, late exits |
| `sgf_analysis` | Is the engine asked about the game that was sent, and does each move get the answers of its own turns? | every tree of 3 nodes with 5 kinds of move, 3 boards, 4 payloads, any of the turns left out |
| `telegram` | Does the bot lose or repeat a command, do a report's counts contradict each other, does shutdown end? | 3 updates, 2 lives of the process, 2 failing requests, 1 job, 1 hourly report |
| `analyze_many_doc`, `analyze_trim_doc`, `client_late_exit_doc` | [divergences](#where-documents-and-code-disagree) | |

**Bounds.** Two calls of `tick()` suffice to overlap, since a third finds the same
`busy`; three jobs give a queue with a first, a next and a last; the second class
may be tried twice, the third is unknown to the registry. Two crashes
interrupt one job twice, the second time with the attempts of the first. Two
faults make the statement in the `catch` fail too. Two CLI commands are one that
checks and one that overtakes it. Two workers contend for one job in
`analyze_reads`: the second may start while the first has the job, so its
`RequeueOnInit` takes it away, and the first then writes to a row that the second has
claimed, as a worker does that restarts beside another; a crash would add nothing to
that, and `MaxCrashes` is 0 there. A job without a row comes there from an INSERT that
fails; the death of the API, which leaves the same, is in `analyze_requests`. In the pipeline two requests
are what a race takes, one job is enough for a reader (it asks about one), and
three calls of `analyze()` give an engine, its successor and the successor of
that, as a late `exit` needs. A tree of three nodes has a move, its answer, and
either a third or a variation at each place; the plays are a move, a move in a
column past I, the pass of each form and a node with both colours; the boards are
the default, one that is not square and one on which "tt" is a point. Three
updates make a batch whose middle can fail with one before and one after it,
for each kind of command; one job is enough for a report, because `CountsFit` is
about each job by itself. The counters `crashes`, `faults`, `requeues`,
`apiCrashes`, `pipeFaults`, `made`, `deaths`, `boots` and `hours` are bounds of the
model, named `Max...`, and nothing else reads them but the properties that count
crashes, failed statements, requeues and lives of the process. Symmetry is used where no
liveness is checked: of the overlapping calls in `queue_faults`, of the two workers
with their calls in `analyze_reads`.

**What needs its assumption.** `HeldJobIsRunning`, `ImplementsLifecycle` and
`AttemptsBounded` are about one worker: a second one requeues the rows of the
first, and then two calls run one job. `DoneIsFinal` and `ImplementsLifecycle`
need a database that answers: when the reply of `markDone` is lost, the `catch`
marks a done job failed or pending; `DoneChangesOnlyInDoubt` is what remains.
`NoOrphan` needs engines that are gone before the next is spawned
(`ExitIsPrompt`), `IdleEngineIsTimed` and `EnginesAreReaped` also engines that are
ready in time (`SlowStart`). `InUseIsNotStopped` and `EveryCallSettles` are checked
for one call at a time, which is what the worker makes: of two that overlap, one
may time out and kill the engine of the other, and a late `exit` event may take
the entry of a call that has just joined. A report is made beside one worker and a
database that answers, as `JobLifecycle` is.
`OnlyFaultsStrand` needs nothing: while every worker is up, a row left `running` with
no call is paid for by a failed statement, and where none fails there is none.
`OneJobPerGame` needs clients that take turns and an API that stays up: two
overlapping requests for one game leave a second job without a row, which the worker
analyses and then fails, and so does an API that dies between the two INSERTs.
`MissingRowIsExplained` is what holds of such jobs in any case.

## Where documents and code disagree

Each of these runs ends with a counterexample.

- `analyze_many_doc`: `POST /api/analyze/results` can report a job `done` with a
  null result, because the two tables are read side by side and the job finishes
  in between. README.md:185 allows null while the job waits or runs; it says so of
  `GET /api/analyze/:jobId`, and the batch read, which it does not describe, has the
  same fields in its reply. The single read asks for the row after the job and is coherent
  (`SingleReplyCoherent`).
- `analyze_trim_doc`: README.md:138 says a duplicate is found by the MD5 of
  `trim(sgf)`; nothing trims, so white space makes a second game.
- `client_late_exit_doc`: when an engine ignores the end of its input,
  `terminate()` gives up after two seconds and a waiting call spawns the next
  engine at once. The late `exit` event of the first sets `this.process` to null,
  so the second runs on with no idle timer and nobody to stop it, and a third may
  be spawned beside it. The same event rejects the second engine's queries.

Seen while modelling, with no run of their own: a ready timeout leaves the engine
running with no idle timer until the next call; when `markFailed` itself fails
the row stays `running` until the worker restarts; runs that a crash interrupts
are counted in `attempts` and not limited by `triesCount` (`AttemptsBounded` has
`+ crashes` for that); a batch item of white space is queued and fails in the
worker, where README.md:162 has it refused. A move whose turn was left out of
`analyzeTurns` is stored with lead 0 and leader `even`, and, if the turn before it
is missing too, with no alternatives; when only the turn before it is missing its
alternatives are those after the move, where README.md:224 has those to the move.
The parser takes any coordinate of two letters: one beyond the board is sent to
the engine as it is, and a column past the 25th has no letter in GTP. A bot that is
stopped in order has not confirmed its last batch and handles it again after
the restart (`TakenOncePerLife` is about one process). The estimate from the average
duration needs an hour without a finished job and the average of that same
hour: it is given only if a job finishes while the report is made
(`AverageIsOfALateFinish`, proved).

## Fairness

`QueueWorker` (`Fairness`): the container restarts and its initialisation ends
(`restart: always`), the timer keeps calling `tick()`, and each statement and
handler under way returns or throws (`TickStep`; the handler settles because
`analyze()` does, see `EveryCallSettles`). The timer is fair for the process, not
for each member of `Ticks`. Nothing is assumed of crashes, errors, clients and
the CLI; their number is bounded, because a worker that dies whenever it
starts finishes nothing. `AnalyzePipeline` assumes the same of the stages of the
handler and nothing of the API: a client may stop between any two of its steps.

`KatagoClient` (`Fairness`): timers fire, SIGKILL ends a process, its `exit` event
arrives, and, unless `SlowStart` says otherwise, an engine becomes ready. Nothing
is assumed of an engine's answers, nor that it ends when its input does. So
`EveryCallSettles` rests on the timers alone.

`TelegramBot` (`TgFairSpec`): the container restarts, a process that may exit does,
and each request or statement of the loop is answered or fails. The last is an
assumption about Telegram and the network: `httpJson` sets no timeout, so a
connection that hangs stops the loop and with it the shutdown. Nothing is
assumed of crashes, errors, the cron or the queue.

`SgfAnalysis` states no fairness and no liveness: whether the engine answers is
`KatagoClient`'s question.

## Proofs

`tlapm <module>` checks each of the eight proof modules from the assumptions named
in the modules they are about (`JobTableAssumption`, `QueueWorkerAssumption`,
`AnalyzeAssumption`, `ClientAssumption`, `SgfAssumption`, `TelegramAssumption`): any
sets of jobs, classes, workers, calls, games, requests, readers, queries, turns,
documents and updates, and any bounds. An assumption of one theorem alone stands in
its ASSUME and is named below. Every invariant and every action property that a run
checks is the conclusion of a theorem.

### The queue (`QueueWorkerProofs`)

For any number of workers:

- `TypeCorrect`: `[]TypeOK`, by `TypeInv == TypeOK /\ HeldOK` (a call that has a job
  has a job id). `WriteTyped` and the lemmas on single rows say what a statement
  returns.
- `BusyFlagWorks` and `BusyIsExact`: `OneCallAtATime /\ BusyMeansActive` is inductive on top of
  `TypeInv` once it is added that a process that is not up has no call.
- `ClaimOwnsItsRow`: `ClaimIsExclusive` is inductive as it stands: no statement of
  another client writes a pending row under its lock.
- `StrandedIsPaidFor`: `[]OnlyFaultsStrand`, by `StrandInv`, which adds that the set of
  rows left behind is finite, so that its cardinality can be compared. Each step
  shrinks the set (`StrandsNone`) or is a failing statement and adds at most its own
  row (`StrandsOne`); a worker that is not up makes it hold of nothing until its
  `RequeueOnInit`, which empties the set.

For one worker (`OneWorker`, an assumption of each theorem), by the invariant
`WorkerInv`, the conjunction of the above with

- `RowsInv`: `RowOK` for each row: stamps and error fit the status, and a row that
  waits has room for the claim to come (`attempts + 1 <= MaxAttempts + crashes`);
- `InterruptedInv`: while the worker is not up, a running row has that room too.
  Without it the requeue at the start would not keep `RowsInv`; it is the crash
  that makes the room, by one, while the interrupted run has used one;
- `CallsInv`: what the row of a call looks like at each await, and on which side of
  `triesCount` it is when it retries or gives up.

follow `HeldJobStaysRunning`, `AttemptsAreCounted`, `FailedIsLastAttempt` and
`StampsAgree`. `OnlyCall`
(no call but one is under way) turns the question of interference into one of
the CLI and of inserts, which touch neither running nor done rows.

### What the queue promises (`QueueLifecycleProofs`)

With one worker, whatever fails: `StepWrites` names, for each step, the one row it
may write and how. From it and `WorkerInv` follow `DoneIsHeldInDoubt` and
`FailedIsAskedFor`.

With one worker and a database that answers (`CalmDatabase`, which is
`MaxFaults = 0`), `CalmInv` adds to `WorkerInv` that a row is `running` only under the
one call that runs it or while the worker that ran it is not up again
(`ServerInv`), and that a call that settles a row finds it running. So at most
one row runs, which is the single server: every step moves at most one job from
one of the four sets to another or none, which is `QueueIsSingleServer`, the
refinement. `DoneStaysDone` is read off the abstract
steps: none of them takes a job out of `done`.

### The pipeline (`AnalyzePipelineProofs`, `AnalyzeReadsProofs`)

`PipelineIsQueueWorker` (every step is one of the queue or a
stutter), so all of the above holds of it. `PipeInv` is `TypeInv` of the queue with
`HeldThere` (a held job was inserted), `PipeTyped`, `StoringInv` (a request between
its two INSERTs owns its job: no row, no other request, the payload is its game),
`RowMatchesJob`, `KnownInv` and `AckedInv` (ids that are known, about to be named or
named have rows), `FinishingInv` (a call between `handle` and `markDone` has stored
its analysis) and `DoneHasResult`. `FinishingInv` is what makes `DoneHasResult`
inductive, and `StoringInv` what makes `RowMatchesJob` so: an insert writes the
row of its own job and no other. From it follow `DoneJobsHaveResults`,
`RowsMatchJobs` and `AckedJobsHaveRows`.

A job without a row is explained (`MissingRowsAreExplained`, with overlapping
requests and failures of the API): a job comes with a request that is about to store
its row (`ArrivingIsExplained`), a request leaves that point with the row, before a row
of the same game, or by a failure (`LeavingIsExplained`), and a game that has a row
keeps one. `CountInv` adds that a job's payload is a game and that failures are counted.

Whatever else fails, no two rows hold one game (`RowsAreUnique`, from the unique
index). That no *job* is left without a row, and that a game has one job, needs what
the runs needed: requests that take turns (`OneRequest`) and an API that stays up
and whose statements answer (`NoApiFailure`); crashes of the worker, failing
statements of the queue and requeues stay as they are. `TurnInv` adds to
`PipeInv` that a job without a row is the one the request is about to store a row
for, that a game the request does not know has no row, and that the game it is
about to store is one it did not know. The middle part is what the lookup is for,
and it is kept through a batch because the request adds each game it has queued to
what it knows (`queuedInBatch`). `JobsHaveRows` and `GamesHaveOneJob` follow, the
second because two jobs of one game would be two rows of it, or a row beside a game
that has none.

For readers the invariant says what a record may hold while the tables move on: a
job or a row that a reader has found is there for good, and of the single read,
whose second statement waits for the first, that `done` was read before the row.
`DoneHasResult` then gives `SingleReplyIsCoherent` - a single read of a job whose
row is missing replies with not found - and `AckedInv` gives `ToldIsFound`. The batch
read has no such order, which is the counterexample of `analyze_many_doc`.

### The engine client (`KatagoClientProofs`, `KatagoClientUseProofs`)

`ClientInv` is `TypeOK` with `CallsOK` and `Paid`. `CallsOK` is about the record of one
call: each turn asked is in `left` or in `got` while it waits, so in `got` when
`left` is empty, which is `ResolvedIsComplete`. `Paid` counts: every engine was
spawned by a call, and a call that waits for `stop()` may still spawn one, so both
together are no more than the calls made; without it the number of the next engine
would not be in `Engines`. `GoOK` says once what `ensureStarted` leaves behind, and
the three events that run it (`Analyze`, `ForceTimer`, `Exit`) use that; the others
are `Quiet`. `NoEngineIsLost` needs, under `ExitIsPrompt`, that there is one process
at most (`Sole`): a spawn finds none, because one that was not told to stop would
be `this.process` and usable, and one that was is gone.

`EngineInv` (`EnginesAreHeld`) holds for overlapping calls, late exits and slow
starts: engines are numbered without gaps, so the next is none that a pending call
has used; while `stop()` waits for an engine there is no `this.process`, and that
engine was told to end; and the engine of a pending query is `this.process` or was told to be killed. The last is why
`HungEngineIsKilled` needs no assumption although a late `exit` may take
`this.process` from under a query: a timeout kills what `this.process` is, and
when that is not the query's engine, that one had been told already.

`IdleEngineHasTimer` adds `TimerInv`: without an open call, `this.process` has its
idle timer. It needs engines that are ready in time (`~SlowStart`), because a ready timeout leaves
the timer off; that there is no other engine to time is `NoOrphan`, which
needs `ExitIsPrompt`. `EngineInUseIsSpared` is for one call at a time (`MaxOpen = 1`):
`LoneInv` says that a call which waits for a start or a stop has the timer off, and
that a start under way has its call waiting, so the step that stops an engine in
use can only be the timeout or the shutdown.

### The data of an analysis (`SgfAnalysisProofs`)

Two theorems about games of any length, with any variations, any payload and any
set of answered turns, under `DocsAreGames`: each document `IsTree` (finitely many nodes, numbered from
the root down, as a parser makes them) and `IsLegal` (boards of at most 25 by 25,
whose columns GTP can name, and moves that are points of the board or passes). The
second is needed because the parser sends a coordinate beyond the board on as it is
(above). `MCSgfAnalysis` assumes the same of the documents of the run, so TLC
checks that they are such.

- `EngineIsAskedAboutTheGame`, by `SgfInv`: while the loop of `parseMainLineMoves` runs,
  the moves read so far followed by the main line from the node it is at
  (`game.moves \o MainLine[node]`) are the main line of the game. At the end
  `node` is `None`, and the moves read are all of it. `CoordIsGtp` says that what
  the parser makes of a coordinate is what GTP means by it, for each of the 25
  columns; `QueryFields` that no option of a payload replaces the id, the moves
  or the board.
- `MovesHaveTheirOwnTurns`, by `ByTurnIsResponse` (the map from turns to answers has one
  answer for each answered turn, none for the others) and `AlternativesAreBest`
  (KataGo's `order` starts at 0 without gaps, so the i-th alternative after the sort
  has order i - 1).

`MainLine` is a recursive function over trees, and `SortedBy` chooses a sorted
sequence; that the function satisfies its equation and that a sorted sequence exists
takes induction. The library's theorem of induction is out of reach of the provers,
but `WFMin`, that a set of numbers has a least member, is a statement on sets:
`InductionOnNat` is induction in that form, used for `MainLineUnfolds`,
`MainLineIsMoves` and `SortingExists`.

### The bot (`TelegramBotProofs`)

`ReportInv` follows each job through the five statements: it is in one set at a
time, what a count has seen bounds what the later ones can see, and only
`queue:requeue-failed` takes a job back: a job that had failed when the report began is
in no count only if it was requeued since, and one that was open only if it was
settled between the counts. `ReportsFit` and `AverageIsRare` are its last
line, when the report is complete. For the loop, `BotInv` relates the offset to the
batch - an update below the offset was taken by this process, one at or above it
was not, and a batch is the rest of a contiguous piece from the offset on - and the
offset to what was settled: all below it is, but for the one in hand.
Without contiguity the offset could jump over an update that was never taken.
`NothingTwice` and `NothingLost` follow.

### Only model-checked

Liveness (`EveryJobSettles`, `AckedSettles`, `EveryCallSettles`, `EnginesAreReaped`,
`EveryCommandSettles`, `ShutdownEnds`) and with it everything about fairness, which
is out of the provers' reach. What documents say and the code does not keep
(`ManyReplyCoherent`, `OneRowPerTrimmedGame`, and `NoOrphan` where exits are late) is
refuted. All other properties are proved.

## What is left out

- Checks of a request's form (the DTOs, the sizes of a batch), the guard, the
  exception filter, the logger and the helpers: no state, no order, and they come
  before anything is stored.
- The wording of the bot's messages and of the report, durations included; only
  which estimate is given is modelled.
- How a request that hangs is noticed: it is not (see Fairness).
- NestJS wiring, module registration, the placeholder cron, `TestCommand`, the
  user repository and the seeds: nothing of the above depends on them.
- PostgreSQL's isolation beyond row locks and unique indexes: every statement is
  atomic and reads what is committed.
- Time: a timer may fire whenever it is armed. Durations decide nothing in the
  model, so a property that holds does so for every setting.

## Plan

Done: all parts with state or order, each with its runs; the proofs named above.
What could follow:

- The composition of `AnalyzePipeline` with `KatagoClient`, so that the handler's stage
  `engine` is a call of `analyze()` and not what has been shown of it; the product
  is beyond the bounds TLC can cover in reasonable time, so as a proof.
- `KatagoClient` shown to implement a specification of `analyze()` alone: calls that
  are open, resolve with every answer or are rejected, and no engine.
