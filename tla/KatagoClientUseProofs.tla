----------------------- MODULE KatagoClientUseProofs ------------------------
(***************************************************************************)
(* Proofs about who stops an engine and when: the engine of a query that   *)
(* timed out is killed, whatever the other calls do; one that nobody uses  *)
(* has its idle timer running; and the idle timer spares one in use.       *)
(***************************************************************************)
EXTENDS KatagoClientProofs

\* Engines are numbered as they come, without a gap: the next one is none that
\* a call has used.
Numbered == \A f \in Spawned(engine) : f <= Cardinality(Spawned(engine))

\* While stop() waits for an engine there is no other, and it was told to end.
StopInv == stopping # None => proc = None /\ engine[stopping].told # "no"

ProcInv == proc # None => engine[proc].life # "unborn"

\* The engine f of a pending query is this.process p, or was told to be killed.
HoldsOn(E, p, f) ==
    /\ f \in Engines /\ E[f].life # "unborn"
    /\ f = p \/ E[f].told = "kill"

HeldInv == \A c \in Pending : HoldsOn(engine, proc, call[c].eng)

EngineInv == Numbered /\ StopInv /\ ProcInv /\ HeldInv

LEMMA NoneIsNoEngine == None \notin Engines
  BY ClientAssumption DEF Engines

LEMMA QuietKeepsEngines ==
    ASSUME ClientInv, EngineInv, Quietly
    PROVE  EngineInv'
  <1>1. Spawned(engine)' = Spawned(engine)
    BY DEF Quietly, Quiet, Spawned
  <1>2. Numbered'
    BY <1>1 DEF EngineInv, Numbered
  <1>3. StopInv'
    BY Known DEF EngineInv, StopInv, Quietly, Quiet
  <1>4. ProcInv'
    BY Known, NoneIsNoEngine DEF EngineInv, ProcInv, Quietly, Quiet
  <1>5. ASSUME NEW c \in Queries, call'[c].at = "query"
        PROVE  HoldsOn(engine', proc', call'[c].eng)
    <2>1. CASE call[c].at = "query" /\ call'[c].eng = call[c].eng
      <3>1. c \in Pending /\ HoldsOn(engine, proc, call[c].eng)
        BY <2>1 DEF EngineInv, HeldInv, Pending, At
      <3>2. QED
        BY <2>1, <3>1 DEF HoldsOn, Quietly, Quiet
    <2>2. CASE proc' \in Engines /\ call'[c].eng = proc'
      BY <1>4, <2>2, NoneIsNoEngine DEF HoldsOn, ProcInv
    <2>3. QED
      BY <1>5, <2>1, <2>2 DEF Quietly, CallsQuiet, Moves
  <1>6. QED
    BY <1>2, <1>3, <1>4, <1>5 DEF EngineInv, HeldInv, Pending, At

\* Calls go on with engines E, of which p is this.process: what was so of E is
\* so of the engines there are then.
Fit(S, E, p, C) ==
    /\ E \in [Engines -> Engine] /\ p \in Engines \cup {None}
    /\ \A f \in Engines : E[f].life = "unborn" <=> engine[f].life = "unborn"
    /\ p # None => E[p].life # "unborn"
    /\ \A c \in Queries \ S : C[c].at = "query" => HoldsOn(E, p, C[c].eng)

LEMMA GoKeepsEngines ==
    ASSUME ClientInv, Numbered, NEW S, NEW E, NEW p, NEW st, NEW C,
           Fit(S, E, p, C), GoLeaves(S, E, p, st, C)
    PROVE  Numbered' /\ ProcInv' /\ HeldInv'
  <1> DEFINE n == Cardinality(Spawned(engine))
  <1>1. /\ Spawned(E) = Spawned(engine) /\ n \in Nat /\ IsFiniteSet(Spawned(engine))
        /\ \A f \in Engines : E[f].life # "unborn" => f <= n
    BY SpawnedFinite DEF Fit, Numbered, Spawned
  <1>2. Numbered' /\ ProcInv'
    <2>1. CASE SpawnsNone(E, p)
      <3>1. Spawned(engine)' = Spawned(engine)
        BY <2>1 DEF SpawnsNone, Fit, Spawned
      <3>2. QED
        BY <2>1, <3>1 DEF Numbered, ProcInv, SpawnsNone, Fit
    <2>2. CASE Spawns(E, p)
      <3>1. proc' = n + 1 /\ proc' \in Engines /\ engine'[proc'].life = "loading"
        BY <1>1, <2>2 DEF Spawns
      <3>2. proc' \notin Spawned(engine)
        BY <1>1, <3>1 DEF Numbered
      <3>3. Spawned(engine)' = Spawned(engine) \cup {proc'}
        BY <1>1, <2>2, <3>1 DEF Spawns, Spawned
      <3>4. Cardinality(Spawned(engine)') = n + 1
        BY <1>1, <3>2, <3>3, FS_AddElement
      <3>5. \A f \in Spawned(engine)' : f <= n + 1
        BY <1>1, <3>1, <3>3 DEF Numbered, Engines, Spawned
      <3>6. QED
        BY <3>1, <3>4, <3>5 DEF Numbered, ProcInv
    <2>3. QED
      BY <2>1, <2>2 DEF GoLeaves
  <1>3. ASSUME NEW f, HoldsOn(E, p, f)
        PROVE  HoldsOn(engine', proc', f)
    <2>1. CASE SpawnsNone(E, p)
      BY <1>3, <2>1 DEF HoldsOn, SpawnsNone
    <2>2. CASE Spawns(E, p)
      <3>1. f \in Engines /\ f <= n /\ proc' = n + 1
        BY <1>1, <1>3, <2>2 DEF HoldsOn, Spawns
      <3>2. f # proc' /\ engine'[f].life = E[f].life /\ engine'[f].told = E[f].told
        BY <1>1, <2>2, <3>1 DEF Spawns, Engines
      <3>3. f = p => E[f].told = "kill"
        BY <2>2, <3>1, NoneIsNoEngine DEF Spawns, Usable
      <3>4. QED
        BY <1>3, <3>2, <3>3 DEF HoldsOn
    <2>3. QED
      BY <2>1, <2>2 DEF GoLeaves
  <1>4. ASSUME NEW c \in Queries, call'[c].at = "query"
        PROVE  HoldsOn(engine', proc', call'[c].eng)
    <2>1. CASE c \in S
      <3>1. proc' \in Engines /\ call'[c].eng = proc'
        BY <1>4, <2>1 DEF GoLeaves, GoesTo
      <3>2. QED
        BY <1>2, <3>1, NoneIsNoEngine DEF HoldsOn, ProcInv
    <2>2. CASE c \notin S
      BY <1>3, <1>4, <2>2 DEF GoLeaves, Fit
    <2>3. QED
      BY <2>1, <2>2
  <1>5. QED
    BY <1>2, <1>4 DEF HeldInv, Pending, At

LEMMA AnalyzeKeepsEngines ==
    ASSUME ClientInv, EngineInv, NEW c \in Queries, Analyze(c)
    PROVE  EngineInv'
  <1>1. CASE stopping = None
    <2>1. PICK C : /\ \A d \in Queries \ {c} : C[d] = call[d]
                   /\ GoLeaves({c}, engine, proc, starting, C)
      BY <1>1, AnalyzeKeeps
    <2>2. Fit({c}, engine, proc, C)
      BY <2>1, Known DEF Fit, EngineInv, ProcInv, HeldInv, Pending, At
    <2>3. StopInv'
      BY <1>1 DEF StopInv, Analyze
    <2>4. QED
      BY <2>1, <2>2, <2>3, GoKeepsEngines DEF EngineInv
  <1>2. CASE stopping # None
    <2>1. PICK R : /\ call' = [[call EXCEPT ![c] = R] EXCEPT ![c].at = "stopWait"]
                   /\ R \in Call
      BY <1>2 DEF Analyze, Idle, Call
    <2>2. /\ UNCHANGED <<proc, engine, stopping>>
          /\ \A d \in Queries : call'[d].at = "query" => call'[d] = call[d]
      BY <1>2, <2>1, Known DEF Analyze, Call
    <2>3. Pending' \subseteq Pending /\ \A d \in Pending' : call'[d] = call[d]
      BY <2>2 DEF Pending, At
    <2>4. QED
      BY <2>2, <2>3 DEF EngineInv, Numbered, StopInv, ProcInv, HeldInv, Spawned
  <1>3. QED
    BY <1>1, <1>2

LEMMA ForceTimerKeepsEngines ==
    ASSUME ClientInv, EngineInv, ForceTimer
    PROVE  EngineInv'
  <1>1. /\ Forced \in [Engines -> Engine]
        /\ \A f \in Engines : /\ Forced[f].life = engine[f].life
                              /\ Forced[f].told \in {"kill", engine[f].told}
    BY Known DEF ForceTimer, Forced, Engine
  <1>2. Fit(At("stopWait"), Forced, proc, call)
    BY <1>1, Known DEF Fit, EngineInv, ProcInv, HeldInv, HoldsOn, Pending, At
  <1>3. StopInv'
    BY DEF ForceTimer, StopInv
  <1>4. QED
    BY <1>2, <1>3, ForceTimerKeeps, GoKeepsEngines DEF EngineInv

\* Exit changes the life of its engine and nothing of what engines were told.
LEMMA ExitedOK ==
    ASSUME ClientInv, NEW e \in Engines
    PROVE  /\ Exited(e) \in [Engines -> Engine]
           /\ \A f \in Engines :
                 /\ Exited(e)[f].life = IF f = e THEN "gone" ELSE engine[f].life
                 /\ Exited(e)[f].told = engine[f].told
  <1>1. /\ Closed \in [Engines -> Engine]
        /\ \A f \in Engines : Closed[f].life = engine[f].life /\ Closed[f].told = engine[f].told
    BY Known, ClosedOK DEF Closed, Engine
  <1>2. QED
    BY <1>1 DEF Exited, Engine

LEMMA ExitKeepsEngines ==
    ASSUME ClientInv, EngineInv, NEW e \in Engines, Exit(e)
    PROVE  EngineInv'
  <1>1. GoLeaves(Resumed(e), Exited(e), None, Awaited(e), Ended(Over(e), "rejected"))
    BY ExitKeeps DEF ExitLeaves
  <1>2. engine[e].life = "dead" /\ stopping' = IF stopping = e THEN None ELSE stopping
    BY DEF Exit
  <1>3. Over(e) \in SUBSET Queries /\ Pending \subseteq Over(e)
    BY DEF Over, Pending, At
  <1>4. \A c \in Queries : Ended(Over(e), "rejected")[c].at # "query"
    <2>1. \A c \in Queries : Ended(Over(e), "rejected")[c].at
                               = IF c \in Over(e) THEN "idle" ELSE call[c].at
      BY <1>3, Known, EndedOK
    <2>2. QED
      BY <1>3, <2>1 DEF Pending, At
  <1>5. Fit(Resumed(e), Exited(e), None, Ended(Over(e), "rejected"))
    BY <1>2, <1>4, ExitedOK DEF Fit
  <1>6. StopInv'
    <2>1. CASE stopping = e
      BY <1>2, <2>1 DEF StopInv
    <2>2. CASE stopping # e
      <3>1. SpawnsNone(Exited(e), None)
        BY <1>1, <2>2 DEF GoLeaves, Resumed
      <3>2. QED
        BY <1>2, <2>2, <3>1, ExitedOK, Known DEF StopInv, SpawnsNone, EngineInv
    <2>3. QED
      BY <2>1, <2>2
  <1>7. QED
    BY <1>1, <1>5, <1>6, GoKeepsEngines DEF EngineInv

LEMMA EnginesKept ==
    ASSUME ClientInv, EngineInv, [Next]_vars
    PROVE  EngineInv'
  BY EventHolds, QuietKeepsEngines, AnalyzeKeepsEngines, ForceTimerKeepsEngines,
     ExitKeepsEngines

\* Which engines there are, and which of them calls and stop() hold.
THEOREM EnginesAreHeld == Spec => []EngineInv
  <1>1. Init => EngineInv
    <2> SUFFICES ASSUME Init PROVE EngineInv
      OBVIOUS
    <2>1. Pending = {} /\ Spawned(engine) = {}
      BY DEF Init, Pending, At, Idle, Spawned, Unborn
    <2>2. QED
      BY <2>1 DEF Init, EngineInv, Numbered, StopInv, ProcInv, HeldInv
  <1>2. ClientInv /\ EngineInv /\ [Next]_vars => EngineInv'
    BY EnginesKept
  <1>3. QED
    BY <1>1, <1>2, ClientInvariant, PTL DEF Spec

-----------------------------------------------------------------------------
(* A timeout kills the engine                                              *)

\* No event but its own timeout ends a pending query as timed out.
LEMMA OnlyTimeouts ==
    ASSUME ClientInv, [Next]_vars, NEW c \in Queries,
           call[c].at = "query", call'[c].out = "timeout"
    PROVE  QueryTimeout(c)
  <1>1. call[c].out = "none"
    BY Known DEF CallsOK, CallOK
  <1>2. CASE Quietly
    BY <1>1, <1>2 DEF Quietly, CallsQuiet, Moves
  <1>3. CASE ForceTimer
    BY <1>1, <1>3, ForceTimerKeeps DEF GoLeaves, At
  <1>4. ASSUME NEW d \in Queries, Analyze(d) PROVE FALSE
    <2>1. c # d
      BY <1>4 DEF Analyze
    <2>2. CASE stopping = None
      <3>1. PICK C : /\ \A b \in Queries \ {d} : C[b] = call[b]
                     /\ GoLeaves({d}, engine, proc, starting, C)
        BY <1>4, <2>2, AnalyzeKeeps
      <3>2. QED
        BY <1>1, <2>1, <3>1 DEF GoLeaves
    <2>3. CASE stopping # None
      <3>1. call'[c] = call[c]
        BY <1>4, <2>1, <2>3, Known DEF Analyze
      <3>2. QED
        BY <1>1, <3>1
    <2>4. QED
      BY <2>2, <2>3
  <1>5. ASSUME NEW e \in Engines, Exit(e) PROVE FALSE
    <2>1. GoLeaves(Resumed(e), Exited(e), None, Awaited(e), Ended(Over(e), "rejected"))
      BY <1>5, ExitKeeps DEF ExitLeaves
    <2>2. c \in Over(e) /\ c \notin Resumed(e) /\ Over(e) \in SUBSET Queries
      BY DEF Over, Resumed, Pending, At
    <2>3. Ended(Over(e), "rejected")[c].out = "rejected"
      BY <2>2, Known, EndedOK
    <2>4. QED
      BY <2>1, <2>2, <2>3 DEF GoLeaves
  <1>6. QED
    BY <1>2, <1>3, <1>4, <1>5, EventHolds

\* CHANGELOG 1.1.1, for any number of overlapping calls, late exits and slow
\* starts: the engine of a query that timed out is told to be killed, also if
\* this.process is another by then.
THEOREM HungEngineIsKilled == Spec => TimeoutKillsEngine
  <1>1. ASSUME ClientInv, EngineInv, [Next]_vars, NEW c \in Queries,
               call[c].at = "query", call'[c].out = "timeout"
        PROVE  engine'[call[c].eng].told = "kill"
    <2>1. engine' = Killed
      BY <1>1, OnlyTimeouts DEF QueryTimeout
    <2>2. HoldsOn(engine, proc, call[c].eng)
      BY <1>1 DEF EngineInv, HeldInv, Pending, At
    <2>3. QED
      BY <1>1, <2>1, <2>2, Known, NoneIsNoEngine DEF Killed, HoldsOn, Engine
  <1>2. ClientInv /\ EngineInv /\ [Next]_vars =>
          [\A c \in Queries : call[c].at = "query" /\ call'[c].out = "timeout" =>
              \/ engine'[call[c].eng].told = "kill"
              \/ engine'[call[c].eng].life \in {"dead", "gone"}]_vars
    BY <1>1
  <1>3. QED
    BY <1>2, ClientInvariant, EnginesAreHeld, PTL DEF Spec, TimeoutKillsEngine

-----------------------------------------------------------------------------
(* The idle timer                                                          *)

\* Where engines are ready in time, one that no call uses has its timer armed,
\* be it this.process or told to end already.
TimerInv == ~SlowStart /\ IdleStop /\ Open = {} /\ proc # None => idle

\* A query that ends arms the timer, unless others are pending.
LEMMA EndArms ==
    ASSUME NEW c \in Queries, \A d \in Queries \ {c} : call'[d] = call[d],
           idle' = Scheduled(Pending \ {c}, proc), proc' = proc
    PROVE  TimerInv'
  <1>1. Pending \ {c} \subseteq Open'
    BY DEF Pending, Open, At
  <1>2. QED
    BY <1>1 DEF TimerInv, Scheduled

LEMMA EndedElsewhere ==
    ASSUME NEW c \in Queries, NEW out
    PROVE  \A d \in Queries \ {c} : Ended({c}, out)[d] = call[d]
  BY DEF Ended

\* One that goes on is open, and so is one that begins.
LEMMA GoneOnIsOpen ==
    ASSUME NEW S, NEW E, NEW p, NEW st, NEW C, S \in SUBSET Queries,
           GoLeaves(S, E, p, st, C), S # {}
    PROVE  Open' # {}
  BY DEF GoLeaves, GoesTo, Open, At

LEMMA AnalyzeOpens ==
    ASSUME ClientInv, NEW c \in Queries, Analyze(c)
    PROVE  /\ call'[c].at # "idle"
           /\ \A d \in Queries \ {c} : call'[d] = call[d]
  <1>1. CASE stopping = None
    <2>1. PICK C : /\ \A d \in Queries \ {c} : C[d] = call[d]
                   /\ GoLeaves({c}, engine, proc, starting, C)
      BY <1>1, AnalyzeKeeps
    <2>2. GoesTo(c, starting) /\ \A d \in Queries \ {c} : call'[d] = C[d]
      BY <2>1 DEF GoLeaves
    <2>3. QED
      BY <2>1, <2>2 DEF GoesTo
  <1>2. CASE stopping # None
    <2>1. PICK R \in Call : call' = [[call EXCEPT ![c] = R] EXCEPT ![c].at = "stopWait"]
      BY <1>2 DEF Analyze, Idle, Call
    <2>2. QED
      BY <2>1, Known DEF Call
  <1>3. QED
    BY <1>1, <1>2

LEMMA AnswerTimes ==
    ASSUME ClientInv, TimerInv, NEW e \in Engines, NEW c \in Queries, NEW t \in Turns,
           Answer(e, c, t)
    PROVE  TimerInv'
  <1>1. proc' = proc /\ \A d \in Queries \ {c} : call'[d] = call[d]
    BY Known DEF Answer
  <1>2. CASE call[c].at # "query"
    BY <1>2 DEF Answer, TimerInv, Open, At
  <1>3. CASE call[c].at = "query"
    <2>1. \/ idle' = Scheduled(Pending \ {c}, proc)
          \/ idle' = idle /\ call'[c].at = "query"
      BY <1>3, Known DEF Answer, Call
    <2>2. CASE idle' = idle /\ call'[c].at = "query"
      BY <2>2 DEF TimerInv, Open, At
    <2>3. QED
      BY <1>1, <2>1, <2>2, EndArms
  <1>4. QED
    BY <1>2, <1>3

LEMMA ReadyTimes ==
    ASSUME ClientInv, TimerInv, NEW e \in Engines, Ready(e)
    PROVE  TimerInv'
  <1>1. CASE starting # e
    BY <1>1 DEF Ready, TimerInv, Open, At
  <1>2. CASE proc = None
    BY <1>2 DEF Ready, TimerInv
  <1>3. CASE starting = e /\ proc # None
    <2>1. call' = Asked(call, At("startWait"), proc) /\ UNCHANGED <<proc, idle>>
      BY <1>3 DEF Ready
    <2>2. At("startWait") \in SUBSET Queries /\ \A c \in At("startWait") : call[c].out = "none"
      BY Known DEF At, CallsOK, CallOK
    <2>3. \A c \in Queries : Asked(call, At("startWait"), proc)[c].at =
                                IF c \in At("startWait") THEN "query" ELSE call[c].at
      BY <1>3, <2>2, Known, AskedOK DEF CallsOK
    <2>4. Open \subseteq Open'
      BY <2>1, <2>3 DEF Open, At
    <2>5. QED
      BY <2>1, <2>4 DEF TimerInv
  <1>4. QED
    BY <1>1, <1>2, <1>3

LEMMA TimerKept ==
    ASSUME ClientInv, EngineInv, TimerInv, [Next]_vars
    PROVE  TimerInv'
  <1>1. CASE \E c \in Queries : Analyze(c)
    BY <1>1, AnalyzeOpens DEF TimerInv, Open, At
  <1>2. CASE \E c \in Queries : QueryTimeout(c) \/ WriteFails(c)
    <2>1. PICK c \in Queries : QueryTimeout(c) \/ WriteFails(c)
      BY <1>2
    <2>2. /\ \E out : call' = Ended({c}, out)
          /\ idle' = Scheduled(Pending \ {c}, proc) /\ proc' = proc
      BY <2>1 DEF QueryTimeout, WriteFails
    <2>3. \A d \in Queries \ {c} : call'[d] = call[d]
      BY <2>2, EndedElsewhere
    <2>4. QED
      BY <2>2, <2>3, EndArms
  <1>3. ASSUME NEW e \in Engines, Dies(e) PROVE TimerInv'
    BY <1>3 DEF Dies, TimerInv, Open, At
  <1>4. ASSUME NEW e \in Engines, Exit(e) PROVE TimerInv'
    <2>1. GoLeaves(Resumed(e), Exited(e), None, Awaited(e), Ended(Over(e), "rejected"))
      BY <1>4, ExitKeeps DEF ExitLeaves
    <2>2. Resumed(e) \in SUBSET Queries
      BY DEF Resumed, At
    <2>3. Resumed(e) = {} => proc' = None
      BY <2>1 DEF GoLeaves, SpawnsNone
    <2>4. QED
      BY <2>1, <2>2, <2>3, GoneOnIsOpen DEF TimerInv
  <1>5. ASSUME NEW e \in Engines, NEW c \in Queries, EngineError(e, c) PROVE TimerInv'
    <2>1. CASE call[c].at # "query"
      BY <1>5, <2>1 DEF EngineError, TimerInv, Open, At
    <2>2. CASE call[c].at = "query"
      BY <1>5, <2>2, EndArms, EndedElsewhere DEF EngineError
    <2>3. QED
      BY <2>1, <2>2
  <1>6. CASE ReadyTimeout
    BY <1>6 DEF ReadyTimeout, TimerInv
  <1>7. CASE IdleFires \/ Shutdown
    <2>1. CASE proc' = None
      BY <2>1 DEF TimerInv
    <2>2. CASE proc' # None
      <3>1. UNCHANGED call /\ proc # None /\ stopping = None /\ Pending # {}
        BY <1>7, <2>2 DEF IdleFires, Shutdown, Stopped, EngineInv, StopInv
      <3>2. Open' # {}
        BY <3>1 DEF Open, Pending, At
      <3>3. QED
        BY <3>2 DEF TimerInv
    <2>3. QED
      BY <2>1, <2>2
  <1>8. CASE ForceTimer
    <2>1. GoLeaves(At("stopWait"), Forced, proc, starting, call) /\ proc = None
      BY <1>8, ForceTimerKeeps DEF ForceTimer, EngineInv, StopInv
    <2>2. At("stopWait") \in SUBSET Queries
      BY DEF At
    <2>3. At("stopWait") = {} => proc' = None
      BY <2>1 DEF GoLeaves, SpawnsNone
    <2>4. QED
      BY <2>1, <2>2, <2>3, GoneOnIsOpen DEF TimerInv
  <1>9. CASE Finished \/ UNCHANGED vars
    BY <1>9 DEF Finished, vars, TimerInv, Open, At
  <1>10. CASE \E c \in Queries : Analyze(c) \/ QueryTimeout(c) \/ WriteFails(c)
    BY <1>1, <1>2, <1>10
  <1>11. CASE \E e \in Engines : Ready(e) \/ Dies(e) \/ Exit(e)
    BY <1>3, <1>4, <1>11, ReadyTimes
  <1>12. CASE \E e \in Engines, c \in Queries : EngineError(e, c) \/ \E t \in Turns : Answer(e, c, t)
    <2>1. PICK e \in Engines, c \in Queries : EngineError(e, c) \/ \E t \in Turns : Answer(e, c, t)
      BY <1>12
    <2>2. QED
      BY <1>5, <2>1, AnswerTimes
  <1>13. QED
    BY <1>6, <1>7, <1>8, <1>9, <1>10, <1>11, <1>12 DEF Next

\* .env-dist, CHANGELOG 1.1.0, for any number of overlapping calls: where
\* engines are ready in time and gone before the next is spawned, an engine
\* that nobody uses has the idle timer running.
THEOREM IdleEngineHasTimer ==
    ASSUME ExitIsPrompt, ~SlowStart PROVE Spec => []IdleEngineIsTimed
  <1>1. Init => TimerInv
    BY DEF Init, TimerInv
  <1>2. ClientInv /\ EngineInv /\ TimerInv /\ [Next]_vars => TimerInv'
    BY TimerKept
  <1>3. Spec => []TimerInv
    BY <1>1, <1>2, ClientInvariant, EnginesAreHeld, PTL DEF Spec
  <1>4. TimerInv /\ NoOrphan => IdleEngineIsTimed
    BY NoneIsNoEngine DEF TimerInv, NoOrphan, IdleEngineIsTimed
  <1>5. Spec => []NoOrphan
    BY NoEngineIsLost
  <1>6. QED
    BY <1>3, <1>4, <1>5, PTL

-----------------------------------------------------------------------------
(* An engine in use                                                        *)

\* The worker makes one call at a time.  While that waits, for the end of an
\* engine or for a new one, the idle timer is off; an engine that starts is the
\* one it waits for.
LoneInv ==
    /\ \A c, d \in Open : c = d
    /\ \A c \in At("stopWait") \cup At("startWait") : ~idle
    /\ starting # None => At("startWait") # {}
    /\ \A c \in At("startWait") : call[c].eng \in Engines

LEMMA OpenAt ==
    ASSUME NEW c \in Queries
    PROVE  c \in Open <=> call[c].at # "idle"
  BY DEF Open, At

\* A call begins when there is no other.
LEMMA BeginsAlone ==
    ASSUME MaxOpen = 1, ClientInv, LoneInv, NEW c \in Queries, Analyze(c)
    PROVE  Open = {}
  <1> SUFFICES ASSUME NEW d \in Open PROVE FALSE
    OBVIOUS
  <1>1. Open = {d}
    BY DEF LoneInv
  <1>2. Cardinality(Open) = 1
    BY <1>1, FS_Singleton
  <1>3. QED
    BY <1>2 DEF Analyze

LEMMA AnalyzeKeepsLone ==
    ASSUME MaxOpen = 1, ClientInv, LoneInv, NEW c \in Queries, Analyze(c)
    PROVE  LoneInv'
  <1>1. \A d \in Queries \ {c} : call'[d].at = "idle"
    BY BeginsAlone, AnalyzeOpens, OpenAt
  <1>2. idle' = FALSE /\ starting = None
    <2>1. At("startWait") = {}
      BY BeginsAlone DEF Open, At
    <2>2. QED
      BY <2>1 DEF LoneInv, Analyze
  <1>3. CASE stopping # None
    <2>1. PICK R \in Call : call' = [[call EXCEPT ![c] = R] EXCEPT ![c].at = "stopWait"]
      BY <1>3 DEF Analyze, Idle, Call
    <2>2. call'[c].at = "stopWait" /\ starting' = None
      BY <1>2, <1>3, <2>1, Known DEF Call, Analyze
    <2>3. QED
      BY <1>1, <1>2, <2>2 DEF LoneInv, Open, At
  <1>4. CASE stopping = None
    <2>1. PICK C : GoLeaves({c}, engine, proc, starting, C)
      BY <1>4, AnalyzeKeeps
    <2>2. GoesTo(c, None) /\ (starting' # None => call'[c].at = "startWait")
      BY <1>2, <2>1 DEF GoLeaves
    <2>3. QED
      BY <1>1, <1>2, <2>2 DEF LoneInv, Open, At, GoesTo
  <1>5. QED
    BY <1>3, <1>4

\* The one call goes on, or nothing does.
LEMMA GoKeepsLone ==
    ASSUME ClientInv, LoneInv, NEW S, NEW E, NEW p, NEW st, NEW C,
           GoLeaves(S, E, p, st, C), S \in {{}, At("stopWait")},
           \A c \in Queries : C[c] = call[c] \/ C[c].at = "idle",
           st \in {starting, None}, idle' \in {FALSE, idle},
           st # None => \A c \in At("startWait") : C[c] = call[c]
    PROVE  LoneInv'
  <1>1. Open' \subseteq Open
    BY DEF GoLeaves, Open, At
  <1>2. S # {} => st = None
    BY <1>1 DEF LoneInv, Open, At
  <1>3. \A c \in S : GoesTo(c, None)
    BY <1>2 DEF GoLeaves
  <1>4. \A c \in Queries \ S : call'[c] = call[c] \/ call'[c].at = "idle"
    BY DEF GoLeaves
  <1>5. \A c, d \in Open' : c = d
    BY <1>1 DEF LoneInv
  <1>6. \A c \in At("stopWait")' \cup At("startWait")' : ~idle'
    BY <1>4 DEF LoneInv, At
  <1>7. \A c \in At("startWait")' : call'[c].eng \in Engines
    BY <1>3, <1>4 DEF LoneInv, At, GoesTo
  <1>8. starting' # None => At("startWait")' # {}
    <2>1. CASE SpawnsNone(E, p) /\ starting' = st /\ st # None
      <3>1. PICK c \in At("startWait") : C[c] = call[c]
        BY <2>1 DEF LoneInv
      <3>2. call'[c] = call[c]
        BY <1>2, <2>1, <3>1 DEF GoLeaves, At
      <3>3. QED
        BY <3>2 DEF At
    <2>2. CASE \E c \in S : call'[c].at = "startWait"
      BY <2>2 DEF At
    <2>3. QED
      BY <2>1, <2>2 DEF GoLeaves
  <1>9. QED
    BY <1>5, <1>6, <1>7, <1>8 DEF LoneInv

\* The other events: the calls stay where they are, are answered or end.
LEMMA QuietKeepsLone ==
    ASSUME ClientInv, LoneInv, Quietly,
           idle' => idle \/ Pending # {},
           \/ starting' = None
           \/ starting' = starting /\ \A c \in At("startWait") : call'[c] = call[c]
    PROVE  LoneInv'
  <1>1. \A c \in Queries : Moves(c)
    BY DEF Quietly, CallsQuiet
  <1>2. Open' \subseteq Open
    BY <1>1 DEF Open, At, Moves
  <1>3. \A c \in Queries : /\ call'[c].at = "stopWait" => call[c].at = "stopWait"
                           /\ call'[c].at = "startWait" => /\ call[c].at = "startWait"
                                                           /\ call'[c].eng = call[c].eng
    BY <1>1 DEF Moves
  <1>4. \A c, d \in Open' : c = d
    BY <1>2 DEF LoneInv
  <1>5. \A c \in At("stopWait")' \cup At("startWait")' : ~idle'
    <2>1. \A c \in At("stopWait") \cup At("startWait") : ~idle /\ Pending = {}
      BY DEF LoneInv, Pending, Open, At
    <2>2. QED
      BY <1>3, <2>1 DEF At
  <1>6. \A c \in At("startWait")' : call'[c].eng \in Engines
    BY <1>3 DEF LoneInv, At
  <1>7. starting' # None => At("startWait")' # {}
    BY DEF LoneInv, At
  <1>8. QED
    BY <1>4, <1>5, <1>6, <1>7 DEF LoneInv

\* Only the end of a query arms the timer, and it leaves the calls that wait.
LEMMA EndKeepsLone ==
    ASSUME ClientInv, LoneInv, Quietly, NEW c \in Queries, call[c].at = "query",
           starting' = starting, \A d \in Queries \ {c} : call'[d] = call[d]
    PROVE  LoneInv'
  <1>1. c \in Pending /\ c \notin At("startWait") /\ At("startWait") \subseteq Queries
    BY DEF Pending, At
  <1>2. QED
    BY <1>1, QuietKeepsLone

LEMMA AnswerKeepsLone ==
    ASSUME ClientInv, LoneInv, NEW e \in Engines, NEW c \in Queries,
           EngineError(e, c) \/ \E t \in Turns : Answer(e, c, t)
    PROVE  LoneInv'
  <1>1. Quietly
    BY EngineErrorKeeps, AnswerKeeps
  <1>2. starting' = starting /\ \A d \in Queries \ {c} : call'[d] = call[d]
    BY Known DEF EngineError, Answer, Ended
  <1>3. CASE call[c].at # "query"
    <2>1. UNCHANGED <<call, idle, starting>>
      BY <1>3 DEF EngineError, Answer
    <2>2. QED
      BY <1>1, <2>1, QuietKeepsLone
  <1>4. CASE call[c].at = "query"
    BY <1>1, <1>2, <1>4, EndKeepsLone
  <1>5. QED
    BY <1>3, <1>4

LEMMA ExitKeepsLone ==
    ASSUME ClientInv, LoneInv, NEW e \in Engines, Exit(e)
    PROVE  LoneInv'
  <1> DEFINE C == Ended(Over(e), "rejected")
  <1>1. GoLeaves(Resumed(e), Exited(e), None, Awaited(e), C)
    BY ExitKeeps DEF ExitLeaves
  <1>2. Over(e) \in SUBSET Queries
    BY DEF Over, Pending, At
  <1>3. \A c \in Queries : C[c] = call[c] \/ C[c].at = "idle"
    BY <1>2, Known, EndedOK
  <1>4. Awaited(e) # None => \A c \in At("startWait") : C[c] = call[c]
    <2>1. Awaited(e) # None => Over(e) = Pending
      BY DEF Awaited, Over
    <2>2. \A c \in At("startWait") : c \in Queries /\ c \notin Pending
      BY DEF At, Pending
    <2>3. QED
      BY <1>2, <2>1, <2>2, Known, EndedOK
  <1>5. /\ Resumed(e) \in {{}, At("stopWait")} /\ Awaited(e) \in {starting, None}
        /\ idle' \in {FALSE, idle}
    BY DEF Resumed, Awaited, Exit
  <1> HIDE DEF C
  <1>6. QED
    BY <1>1, <1>3, <1>4, <1>5, GoKeepsLone

LEMMA LoneKept ==
    ASSUME MaxOpen = 1, ClientInv, LoneInv, [Next]_vars
    PROVE  LoneInv'
  <1>1. ASSUME NEW c \in Queries, QueryTimeout(c) \/ WriteFails(c) PROVE LoneInv'
    <2>1. Quietly
      BY <1>1, QueryTimeoutKeeps, WriteFailsKeeps
    <2>2. starting' = starting /\ call[c].at = "query" /\ \E out : call' = Ended({c}, out)
      BY <1>1 DEF QueryTimeout, WriteFails
    <2>3. QED
      BY <2>1, <2>2, EndedElsewhere, EndKeepsLone
  <1>2. ASSUME NEW e \in Engines, Ready(e) PROVE LoneInv'
    <2>1. Quietly
      BY <1>2, ReadyKeeps
    <2>2. /\ idle' => idle
          /\ starting' = None \/ UNCHANGED <<starting, call>>
      BY <1>2 DEF Ready
    <2>3. QED
      BY <2>1, <2>2, QuietKeepsLone
  <1>3. ASSUME NEW e \in Engines, Dies(e) PROVE LoneInv'
    <2>1. Quietly /\ UNCHANGED <<idle, starting, call>>
      BY <1>3, DiesKeeps DEF Dies
    <2>2. QED
      BY <2>1, QuietKeepsLone
  <1>4. CASE ReadyTimeout
    <2>1. Quietly /\ starting' = None /\ idle' = idle
      BY <1>4, ReadyTimeoutKeeps DEF ReadyTimeout
    <2>2. QED
      BY <2>1, QuietKeepsLone
  <1>5. CASE IdleFires \/ Shutdown
    <2>1. Quietly /\ UNCHANGED <<starting, call>> /\ idle' = FALSE
      BY <1>5, IdleFiresKeeps, ShutdownKeeps DEF IdleFires, Shutdown
    <2>2. QED
      BY <2>1, QuietKeepsLone
  <1>6. CASE ForceTimer
    <2>1. GoLeaves(At("stopWait"), Forced, proc, starting, call)
      BY <1>6, ForceTimerKeeps
    <2>2. idle' = idle
      BY <1>6 DEF ForceTimer
    <2>3. QED
      BY <2>1, <2>2, GoKeepsLone
  <1>7. CASE Finished \/ UNCHANGED vars
    <2>1. Quietly /\ UNCHANGED <<starting, call, idle>>
      BY <1>7, Stutters DEF Finished, vars
    <2>2. QED
      BY <2>1, QuietKeepsLone
  <1>8. CASE \E c \in Queries : Analyze(c) \/ QueryTimeout(c) \/ WriteFails(c)
    BY <1>1, <1>8, AnalyzeKeepsLone
  <1>9. CASE \E e \in Engines : Ready(e) \/ Dies(e) \/ Exit(e)
    BY <1>2, <1>3, <1>9, ExitKeepsLone
  <1>10. CASE \E e \in Engines, c \in Queries : EngineError(e, c) \/ \E t \in Turns : Answer(e, c, t)
    BY <1>10, AnswerKeepsLone
  <1>11. QED
    BY <1>4, <1>5, <1>6, <1>7, <1>8, <1>9, <1>10 DEF Next

\* Who tells an engine to end.
LEMMA ToldBy ==
    ASSUME ClientInv, EngineInv, [Next]_vars, NEW f \in Engines,
           engine[f].told = "no", engine'[f].told # "no"
    PROVE  \/ \E c \in Queries : QueryTimeout(c)
           \/ IdleFires /\ idle /\ Pending = {}
           \/ down' # down
           \/ \E c \in Queries : Analyze(c)
           \/ (ForceTimer \/ \E e \in Engines : Exit(e)) /\ At("stopWait") # {}
  <1> SUFFICES ASSUME ~\E c \in Queries : QueryTimeout(c) \/ Analyze(c)
               PROVE  \/ IdleFires /\ idle /\ Pending = {}
                      \/ down' # down
                      \/ (ForceTimer \/ \E e \in Engines : Exit(e)) /\ At("stopWait") # {}
    OBVIOUS
  <1> DEFINE Same == engine'[f].told = engine[f].told
  <1>1. CASE \E c \in Queries : WriteFails(c)
    BY <1>1 DEF WriteFails
  <1>2. ASSUME NEW e \in Engines, Ready(e) PROVE Same
    <2> DEFINE E == [engine EXCEPT ![e].life = "ready"]
    <2>1. E \in [Engines -> Engine] /\ E[f].told = engine[f].told
      BY Known DEF Engine
    <2>2. engine' = E \/ (proc # None /\ engine' = Owing(E, call, At("startWait"), proc))
      BY <1>2 DEF Ready
    <2> HIDE DEF E
    <2>3. At("startWait") \in SUBSET Queries
      BY DEF At
    <2>4. QED
      BY <2>1, <2>2, <2>3, Known, OwingOK
  <1>3. ASSUME NEW e \in Engines, Dies(e) PROVE Same
    BY <1>3, Known DEF Dies, Engine
  <1>4. ASSUME NEW e \in Engines, Exit(e), At("stopWait") = {} PROVE Same
    <2>1. GoLeaves(Resumed(e), Exited(e), None, Awaited(e), Ended(Over(e), "rejected"))
      BY <1>4, ExitKeeps DEF ExitLeaves
    <2>2. SpawnsNone(Exited(e), None)
      BY <1>4, <2>1 DEF GoLeaves, Resumed
    <2>3. QED
      BY <2>2, ExitedOK DEF SpawnsNone
  <1>5. ASSUME NEW e \in Engines, NEW c \in Queries,
               EngineError(e, c) \/ \E t \in Turns : Answer(e, c, t)
        PROVE  Same
    <2>1. \E T : engine' = [engine EXCEPT ![e] = [engine[e] EXCEPT !.todo = T]]
      BY <1>5 DEF EngineError, Answer
    <2>2. QED
      BY <2>1, Known DEF Engine
  <1>6. CASE ReadyTimeout \/ Finished \/ UNCHANGED vars
    BY <1>6 DEF ReadyTimeout, Finished, vars
  <1>7. CASE IdleFires
    BY <1>7 DEF IdleFires
  <1>8. CASE Shutdown
    BY <1>8 DEF Shutdown
  <1>9. CASE ForceTimer /\ At("stopWait") = {}
    <2>1. SpawnsNone(Forced, proc)
      BY <1>9, ForceTimerKeeps DEF GoLeaves
    <2>2. f # stopping
      BY <1>9 DEF ForceTimer, EngineInv, StopInv
    <2>3. Forced[f].told = engine[f].told
      BY <2>2, Known DEF Forced
    <2>4. QED
      BY <2>1, <2>3 DEF SpawnsNone
  <1> HIDE DEF Same
  <1>10. ~Same
    BY DEF Same
  <1>11. CASE \E e \in Engines : Ready(e) \/ Dies(e) \/ Exit(e)
    BY <1>2, <1>3, <1>4, <1>10, <1>11
  <1>12. CASE \E e \in Engines, c \in Queries : EngineError(e, c) \/ \E t \in Turns : Answer(e, c, t)
    BY <1>5, <1>10, <1>12
  <1>13. QED
    BY <1>1, <1>6, <1>7, <1>8, <1>9, <1>11, <1>12 DEF Next

\* For one call at a time, which is what the worker makes, with late exits and
\* slow starts: the engine a call waits for or has sent its query to is stopped
\* by that query's timeout or by the shutdown, never by the idle timer.
THEOREM EngineInUseIsSpared ==
    ASSUME MaxOpen = 1 PROVE Spec => InUseIsNotStopped
  <1>1. Init => LoneInv
    <2> SUFFICES ASSUME Init PROVE LoneInv
      OBVIOUS
    <2>1. \A c \in Queries : call[c].at = "idle"
      BY DEF Init, Idle
    <2>2. QED
      BY <2>1 DEF Init, LoneInv, Open, At
  <1>2. Spec => []LoneInv
    <2>1. ClientInv /\ LoneInv /\ [Next]_vars => LoneInv'
      BY LoneKept
    <2>2. QED
      BY <1>1, <2>1, ClientInvariant, PTL DEF Spec
  <1>3. ASSUME ClientInv, EngineInv, LoneInv, [Next]_vars,
               NEW c \in Queries, call[c].at \in {"startWait", "query"},
               engine[call[c].eng].told = "no", engine'[call[c].eng].told # "no",
               down' = down
        PROVE  call'[c].out = "timeout"
    <2>1. call[c].eng \in Engines
      BY <1>3 DEF EngineInv, HeldInv, HoldsOn, LoneInv, Pending, At
    <2>2. c \in Open /\ (c \in Pending \/ ~idle)
      BY <1>3 DEF Open, Pending, At, LoneInv
    <2>3. At("stopWait") = {}
      BY <1>3, <2>2 DEF LoneInv, Open, At
    <2>4. ~\E d \in Queries : Analyze(d)
      BY <1>3, <2>2, BeginsAlone
    <2>5. PICK d \in Queries : QueryTimeout(d)
      BY <1>3, <2>1, <2>2, <2>3, <2>4, ToldBy
    <2>6. d = c
      BY <1>3, <2>2, <2>5 DEF LoneInv, QueryTimeout, Open, At
    <2>7. QED
      BY <1>3, <2>5, <2>6, Known, EndedOK DEF QueryTimeout
  <1>4. ClientInv /\ EngineInv /\ LoneInv /\ [Next]_vars =>
          [\A c \in Queries : call[c].at \in {"startWait", "query"} =>
              LET e == call[c].eng IN
              engine[e].told = "no" /\ engine'[e].told # "no" =>
                  call'[c].out = "timeout" \/ down' # down]_vars
    BY <1>3
  <1>5. QED
    BY <1>2, <1>4, ClientInvariant, EnginesAreHeld, PTL DEF Spec, InUseIsNotStopped
=============================================================================
