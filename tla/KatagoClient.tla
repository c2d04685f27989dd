---------------------------- MODULE KatagoClient ----------------------------
(***************************************************************************)
(* KatagoClientService: the worker's one KataGo process, started for the   *)
(* first query, stopped when it has been idle, killed when a query hangs.  *)
(*                                                                         *)
(* An action is one event of the Node process (a call, a line on stdout, a *)
(* timer, an 'exit' event) with every microtask it leads to.  An engine    *)
(* that is gone for the operating system is "dead" until its 'exit' event  *)
(* has been handled.  A pending query is a call at "query".                *)
(*                                                                         *)
(* A query id is used by one call at a time (a job is run by one call of   *)
(* tick()), so the check for a duplicate id never fails and is left out;   *)
(* so are log lines and KataGo's warnings.                                 *)
(***************************************************************************)
EXTENDS Naturals, FiniteSets

CONSTANTS
    Queries,       \* query ids, `job-${job.id}`; a job run again uses its id again
    Turns,         \* the turns of a game
    None,          \* null
    IdleStop,      \* KATAGO_IDLE_STOP_MS > 0
    SlowStart,     \* may an engine take longer than KATAGO_READY_TIMEOUT_MS?
    ExitIsPrompt,  \* is an engine that was told to stop gone before the next is spawned?
    MaxOpen,       \* calls of analyze() under way together: the worker makes one
    MaxCalls,      \* bound: calls of analyze()
    MaxDeaths      \* bound: engines that end by themselves

ASSUME ClientAssumption ==
    /\ IdleStop \in BOOLEAN /\ SlowStart \in BOOLEAN /\ ExitIsPrompt \in BOOLEAN
    /\ MaxOpen \in Nat \ {0} /\ MaxCalls \in Nat /\ MaxDeaths \in Nat
    /\ None \notin Nat

Engines == 1 .. MaxCalls   \* a call spawns one engine at most

VARIABLES
    proc,      \* this.process
    starting,  \* this.starting: the engine whose ready line is awaited
    stopping,  \* this.stopping: the engine terminate() waits for
    idle,      \* this.idleStopTimer is armed
    engine,    \* the spawned engines
    call,      \* the calls of analyze(), with the entries of this.pending
    made, deaths, down  \* calls made, engines that died, onModuleDestroy has run

vars == <<proc, starting, stopping, idle, engine, call, made, deaths, down>>

Unborn == [life |-> "unborn", told |-> "no", open |-> FALSE, todo |-> {}]
\* told: what it was told, "eof" on stdin or "kill"; open: its stdout is read;
\* todo: the answers it still owes.
Engine == [life: {"unborn", "loading", "ready", "dead", "gone"},
           told: {"no", "eof", "kill"}, open: BOOLEAN, todo: SUBSET (Queries \X Turns)]

Idle == [at |-> "idle", eng |-> None, asked |-> {}, left |-> {}, got |-> {}, out |-> "none"]
\* left: expectedTurns; got: results; out: how the last call ended.
Call == [at: {"idle", "stopWait", "startWait", "query"}, eng: Engines \cup {None},
         asked: SUBSET Turns, left: SUBSET Turns, got: SUBSET Turns,
         out: {"none", "resolved", "timeout", "rejected"}]

TypeOK ==
    /\ {proc, starting, stopping} \subseteq Engines \cup {None}
    /\ idle \in BOOLEAN
    /\ engine \in [Engines -> Engine]
    /\ call \in [Queries -> Call]
    /\ made \in 0 .. MaxCalls /\ deaths \in 0 .. MaxDeaths /\ down \in BOOLEAN

Init ==
    /\ proc = None /\ starting = None /\ stopping = None /\ idle = FALSE
    /\ engine = [e \in Engines |-> Unborn]
    /\ call = [c \in Queries |-> Idle]
    /\ made = 0 /\ deaths = 0 /\ down = FALSE

-----------------------------------------------------------------------------
(* Helpers                                                                 *)

Alive(e) == engine[e].life \in {"loading", "ready"}
At(place) == {c \in Queries : call[c].at = place}
Pending == At("query")
Open == Queries \ At("idle")

\* FAULTY: the outcome in the place of the state.
EndedAt(S, out) ==
    [c \in Queries |-> IF c \in S THEN [call[c] EXCEPT !.at = out] ELSE call[c]]

\* The calls S end.
Ended(S, out) ==
    [c \in Queries |-> IF c \in S THEN [call[c] EXCEPT !.at = "idle", !.out = out]
                                  ELSE call[c]]

\* FAULTY: a timer is not started again.
ScheduledOnlyOnce(pending, p) == IdleStop /\ pending = {} /\ p # None /\ idle

\* scheduleIdleStop, in the finally of a call that has sent its query: is the
\* timer armed afterwards?
Scheduled(pending, p) == IdleStop /\ pending = {} /\ p # None

\* runQuery: the calls S write to stdin of engine e.
Asked(C, S, e) ==
    [c \in Queries |->
        IF c \in S THEN [C[c] EXCEPT !.at = "query", !.eng = e, !.left = C[c].asked, !.got = {}]
                   ELSE C[c]]
Owing(E, C, S, e) ==
    IF E[e].life \in {"loading", "ready"}
      THEN [E EXCEPT ![e].todo = @ \cup UNION {{c} \X C[c].asked : c \in S}]
      ELSE E

\* this.process && !this.process.killed
Usable(E, p) == p # None /\ E[p].told # "kill"

\* ensureStarted from its second test on, for the calls S, with E, p, st and C the
\* values of engine, proc, starting and call so far.  A call that follows one
\* that has spawned finds this.process set and does not wait for the engine.
Go(S, E, p, st, C) ==
    \/ /\ S = {}
       /\ engine' = E /\ proc' = p /\ starting' = st /\ call' = C
    \/ /\ S # {} /\ Usable(E, p)
       /\ engine' = Owing(E, C, S, p) /\ call' = Asked(C, S, p)
       /\ proc' = p /\ starting' = st
    \/ /\ S # {} /\ ~Usable(E, p) /\ st # None
       /\ engine' = E /\ proc' = p /\ starting' = st
       /\ call' = [c \in Queries |-> IF c \in S THEN [C[c] EXCEPT !.at = "startWait"] ELSE C[c]]
    \/ /\ ~Usable(E, p) /\ st = None
       /\ ExitIsPrompt => \A e \in Engines : E[e].told # "no" => E[e].life = "gone"
       /\ \E first \in S :
            LET e == 1 + Cardinality({f \in Engines : E[f].life # "unborn"})
                spawned == [E EXCEPT ![e].life = "loading", ![e].open = TRUE]
                C1 == Asked(C, S \ {first}, e)
            IN /\ engine' = Owing(spawned, C, S \ {first}, e)
               /\ proc' = e /\ starting' = e
               /\ call' = [C1 EXCEPT ![first].at = "startWait", ![first].eng = e]

\* forceKill: SIGKILL to this.process, if there is one.
Killed == IF proc = None THEN engine ELSE [engine EXCEPT ![proc].told = "kill"]

\* FAULTY: the process is forgotten and not told to end.
StoppedUntold(how) ==
    /\ engine' = [engine EXCEPT ![proc].open = FALSE]
    /\ stopping' = proc
    /\ proc' = None

\* stop(), once it has found a process and no other stop under way.
Stopped(how) ==
    /\ engine' = [engine EXCEPT ![proc].open = FALSE,
                                ![proc].told = IF @ = "kill" THEN @ ELSE how]
    /\ stopping' = proc
    /\ proc' = None

-----------------------------------------------------------------------------
(* Calls and timers of the client                                          *)

\* FAULTY: the idle timer runs on while the call waits for the engine.
AnalyzeKeepsTimer(c) ==
    /\ call[c].at = "idle" /\ made < MaxCalls /\ Cardinality(Open) < MaxOpen
    /\ made' = made + 1
    /\ \E asked \in {Turns, {}} :
         LET C == [call EXCEPT ![c] = [Idle EXCEPT !.asked = asked]] IN
         IF stopping # None
           THEN /\ call' = [C EXCEPT ![c].at = "stopWait"]
                /\ UNCHANGED <<proc, starting, engine>>
           ELSE Go({c}, engine, proc, starting, C)
    /\ UNCHANGED <<stopping, idle, deaths, down>>

\* analyze(), up to the first await it stays in.  analyzeTurns of the request
\* is passed on as it is: it may be empty.
Analyze(c) ==
    /\ call[c].at = "idle" /\ made < MaxCalls /\ Cardinality(Open) < MaxOpen
    /\ made' = made + 1
    /\ idle' = FALSE
    /\ \E asked \in {Turns, {}} :
         LET C == [call EXCEPT ![c] = [Idle EXCEPT !.asked = asked]] IN
         IF stopping # None
           THEN /\ call' = [C EXCEPT ![c].at = "stopWait"]
                /\ UNCHANGED <<proc, starting, engine>>
           ELSE Go({c}, engine, proc, starting, C)
    /\ UNCHANGED <<stopping, deaths, down>>

\* The engine is not ready in time: the calls that wait for it fail before
\* their try block, the engine runs on.
ReadyTimeout ==
    /\ SlowStart /\ starting # None
    /\ call' = Ended(At("startWait"), "rejected")
    /\ starting' = None
    /\ UNCHANGED <<proc, stopping, idle, engine, made, deaths, down>>

\* FAULTY: the call is rejected and the engine left to itself.
QueryTimeoutSpares(c) ==
    /\ call[c].at = "query"
    /\ call' = Ended({c}, "timeout")
    /\ idle' = Scheduled(Pending \ {c}, proc)
    /\ UNCHANGED <<proc, starting, stopping, engine, made, deaths, down>>

\* The query takes too long: SIGKILL.
QueryTimeout(c) ==
    /\ call[c].at = "query"
    /\ engine' = Killed
    /\ call' = Ended({c}, "timeout")
    /\ idle' = Scheduled(Pending \ {c}, proc)
    /\ UNCHANGED <<proc, starting, stopping, made, deaths, down>>

\* The callback of stdin.write reports an error.
WriteFails(c) ==
    /\ call[c].at = "query" /\ engine[call[c].eng].life = "dead"
    /\ call' = Ended({c}, "rejected")
    /\ idle' = Scheduled(Pending \ {c}, proc)
    /\ UNCHANGED <<proc, starting, stopping, engine, made, deaths, down>>

IdleFires ==
    /\ idle
    /\ idle' = FALSE
    /\ IF Pending = {} /\ stopping = None /\ proc # None
         THEN Stopped("eof")
         ELSE UNCHANGED <<engine, stopping, proc>>
    /\ UNCHANGED <<starting, call, made, deaths, down>>

\* FAULTY: the promise is resolved, the engine not killed.
ForceTimerOnlyResolves ==
    /\ stopping # None
    /\ stopping' = None
    /\ Go(At("stopWait"), engine, proc, starting, call)
    /\ UNCHANGED <<idle, made, deaths, down>>

\* The engine has not ended two seconds after stdin was closed: SIGKILL, and
\* stop() is over although the engine may not be.
ForceTimer ==
    /\ stopping # None
    /\ stopping' = None
    /\ Go(At("stopWait"), [engine EXCEPT ![stopping].told = "kill"], proc, starting, call)
    /\ UNCHANGED <<idle, made, deaths, down>>

\* onModuleDestroy
Shutdown ==
    /\ ~down /\ down' = TRUE
    /\ idle' = FALSE
    /\ IF stopping = None /\ proc # None
         THEN Stopped("kill")
         ELSE UNCHANGED <<engine, stopping, proc>>
    /\ UNCHANGED <<starting, call, made, deaths>>

-----------------------------------------------------------------------------
(* Events of the engine                                                    *)

\* The ready line on stderr.  Calls that wait for it send their queries to
\* this.process, if there is one still.
Ready(e) ==
    LET E == [engine EXCEPT ![e].life = "ready"]
        S == At("startWait")
    IN
    /\ engine[e].life = "loading"
    /\ IF starting # e
         THEN engine' = E /\ UNCHANGED <<call, starting, idle>>
         ELSE /\ starting' = None
              /\ IF proc # None
                   THEN /\ engine' = Owing(E, call, S, proc)
                        /\ call' = Asked(call, S, proc)
                        /\ UNCHANGED idle
                   ELSE /\ engine' = E
                        /\ call' = Ended(S, "rejected")
                        /\ idle' = FALSE
    /\ UNCHANGED <<proc, stopping, made, deaths, down>>

\* FAULTY: the last turn is not waited for.
AnswerOneShort(e, c, t) ==
    LET left == call[c].left \ {t}
        recorded == [call EXCEPT ![c].left = left, ![c].got = @ \cup {t}]
    IN
    /\ engine[e].open /\ engine[e].life \in {"ready", "dead", "gone"}
    /\ <<c, t>> \in engine[e].todo
    /\ engine' = [engine EXCEPT ![e].todo = @ \ {<<c, t>>}]
    /\ IF call[c].at # "query"
         THEN UNCHANGED <<call, idle>>
         ELSE IF Cardinality(left) > 1
                THEN call' = recorded /\ UNCHANGED idle
                ELSE /\ call' = [recorded EXCEPT ![c].at = "idle", ![c].out = "resolved"]
                     /\ idle' = Scheduled(Pending \ {c}, proc)
    /\ UNCHANGED <<proc, starting, stopping, made, deaths, down>>

\* A final answer on stdout, for whoever has this query id now; without a
\* pending query it is dropped.
Answer(e, c, t) ==
    LET left == call[c].left \ {t}
        recorded == [call EXCEPT ![c].left = left, ![c].got = @ \cup {t}]
    IN
    /\ engine[e].open /\ engine[e].life \in {"ready", "dead", "gone"}
    /\ <<c, t>> \in engine[e].todo
    /\ engine' = [engine EXCEPT ![e].todo = @ \ {<<c, t>>}]
    /\ IF call[c].at # "query"
         THEN UNCHANGED <<call, idle>>
         ELSE IF left # {}
                THEN call' = recorded /\ UNCHANGED idle
                ELSE /\ call' = [recorded EXCEPT ![c].at = "idle", ![c].out = "resolved"]
                     /\ idle' = Scheduled(Pending \ {c}, proc)
    /\ UNCHANGED <<proc, starting, stopping, made, deaths, down>>

\* An error message that names the query; nothing else comes for it.
EngineError(e, c) ==
    /\ engine[e].open /\ engine[e].life = "ready"
    /\ \E t \in Turns : <<c, t>> \in engine[e].todo
    /\ engine' = [engine EXCEPT ![e].todo = {q \in @ : q[1] # c}]
    /\ IF call[c].at # "query"
         THEN UNCHANGED <<call, idle>>
         ELSE /\ call' = Ended({c}, "rejected")
              /\ idle' = Scheduled(Pending \ {c}, proc)
    /\ UNCHANGED <<proc, starting, stopping, made, deaths, down>>

\* The process ends, by itself or because it was told to.
Dies(e) ==
    /\ Alive(e)
    /\ \/ engine[e].told # "no" /\ UNCHANGED deaths
       \/ engine[e].told = "no" /\ deaths < MaxDeaths /\ deaths' = deaths + 1
    /\ engine' = [engine EXCEPT ![e].life = "dead"]
    /\ UNCHANGED <<proc, starting, stopping, idle, call, made, down>>

\* FAULTY: this.pending is cleared and nobody told.
ExitForgetsPending(e) ==
    LET closed == IF proc = None THEN engine ELSE [engine EXCEPT ![proc].open = FALSE]
        early == IF starting = e THEN At("startWait") ELSE {}
        resumed == IF stopping = e THEN At("stopWait") ELSE {}
    IN
    /\ engine[e].life = "dead"
    /\ idle' = FALSE
    /\ stopping' = IF stopping = e THEN None ELSE stopping
    /\ Go(resumed, [closed EXCEPT ![e].life = "gone"], None,
          IF starting = e THEN None ELSE starting,
          [c \in Queries |-> IF c \in Pending THEN [call[c] EXCEPT !.at = "startWait"]
                                              ELSE Ended(early, "rejected")[c]])
    /\ UNCHANGED <<made, deaths, down>>

\* The 'exit' event of an engine.  onProcessExit does not ask whose it is: it
\* gives up this.process and its readline and rejects every pending query.
\* Then the listeners of waitUntilReady and of terminate get the event.
Exit(e) ==
    LET closed == IF proc = None THEN engine ELSE [engine EXCEPT ![proc].open = FALSE]
        early == IF starting = e THEN At("startWait") ELSE {}
        resumed == IF stopping = e THEN At("stopWait") ELSE {}
    IN
    /\ engine[e].life = "dead"
    /\ idle' = FALSE
    /\ stopping' = IF stopping = e THEN None ELSE stopping
    /\ Go(resumed, [closed EXCEPT ![e].life = "gone"], None,
          IF starting = e THEN None ELSE starting, Ended(Pending \cup early, "rejected"))
    /\ UNCHANGED <<made, deaths, down>>

-----------------------------------------------------------------------------
\* The worker makes no more calls; what is left is over.
Finished ==
    /\ Open = {} /\ made = MaxCalls
    /\ UNCHANGED vars

Next ==
    \/ \E c \in Queries : Analyze(c) \/ QueryTimeout(c) \/ WriteFails(c)
    \/ \E e \in Engines : Ready(e) \/ Dies(e) \/ Exit(e)
    \/ \E e \in Engines, c \in Queries : EngineError(e, c) \/ \E t \in Turns : Answer(e, c, t)
    \/ ReadyTimeout \/ IdleFires \/ ForceTimer \/ Shutdown
    \/ Finished

Spec == Init /\ [][Next]_vars

\* Fairness: timers fire, an engine becomes ready unless SlowStart says it may
\* not, SIGKILL ends an engine and its exit is noticed.  Nothing is assumed of an
\* engine's answers, nor that it ends when stdin is closed.
Fairness ==
    /\ \A c \in Queries : WF_vars(QueryTimeout(c))
    /\ \A e \in Engines :
         /\ WF_vars(~SlowStart /\ Ready(e))
         /\ WF_vars(engine[e].told = "kill" /\ Dies(e))
         /\ WF_vars(Exit(e))
    /\ WF_vars(ReadyTimeout) /\ WF_vars(IdleFires) /\ WF_vars(ForceTimer)

FairSpec == Spec /\ Fairness

-----------------------------------------------------------------------------
(* Properties                                                              *)

\* analyze() resolves only with an answer for every turn of the query, in
\* whatever order they come, from engines that die and are replaced meanwhile.
AnswersComplete == \A c \in Queries : call[c].out = "resolved" => call[c].asked \subseteq call[c].got

\* No call waits for ever: not for an engine that hangs, dies while it loads or
\* does not stop, and not in a map entry that an 'exit' event has dropped.
EveryCallSettles == \A c \in Queries : (call[c].at # "idle") ~> (call[c].at = "idle")

\* CHANGELOG 1.1.1: the engine of a query that timed out is killed.
TimeoutKillsEngine ==
    [][\A c \in Queries : call[c].at = "query" /\ call'[c].out = "timeout" =>
          \/ engine'[call[c].eng].told = "kill"
          \/ engine'[call[c].eng].life \in {"dead", "gone"}]_vars

\* The engine a call waits for or has sent its query to is stopped by that
\* query's timeout or by the shutdown of the worker, never by the idle timer.
InUseIsNotStopped ==
    [][\A c \in Queries : call[c].at \in {"startWait", "query"} =>
          LET e == call[c].eng IN
          engine[e].told = "no" /\ engine'[e].told # "no" =>
              call'[c].out = "timeout" \/ down' # down]_vars

\* A running engine that was not told to stop is this.process: the service never
\* loses one it would have to stop.
NoOrphan == \A e \in Engines : Alive(e) /\ engine[e].told = "no" => proc = e

\* .env-dist, CHANGELOG 1.1.0: without a pending query the engine is stopped
\* after KATAGO_IDLE_STOP_MS: one that nobody uses has the timer running.
IdleEngineIsTimed ==
    IdleStop /\ Open = {} => \A e \in Engines :
        Alive(e) /\ engine[e].told = "no" => proc = e /\ idle

\* So when the calls end no engine is left, not even one that ignores the end of
\* its input.
EnginesAreReaped ==
    <>[](Open = {}) => <>[](\A e \in Engines : ~Alive(e))
=============================================================================
