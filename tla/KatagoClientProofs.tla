------------------------- MODULE KatagoClientProofs -------------------------
(***************************************************************************)
(* Proofs about KatagoClient: types, what analyze() resolves with, and,    *)
(* where an engine that was told to stop is gone before the next is        *)
(* spawned, that none is lost.  Any number of queries, turns and calls,    *)
(* overlapping or not.                                                     *)
(***************************************************************************)
EXTENDS KatagoClient, FiniteSetTheorems, TLAPS

Spawned(E) == {f \in Engines : E[f].life # "unborn"}

\* A record of a call: one that waits for answers has each in one of its two
\* sets, one that has resolved has them all.
CallOK(R) ==
    /\ R \in Call
    /\ R.at = "query" => R.asked \subseteq R.left \cup R.got
    /\ R.at # "idle" => R.out = "none"
    /\ R.out = "resolved" => R.asked \subseteq R.got

CallsOK == call \in [Queries -> Call] /\ \A c \in Queries : CallOK(call[c])

\* Every engine is paid for by a call of analyze(), and a call that waits for
\* stop() may still spawn one.
Paid ==
    /\ IsFiniteSet(At("stopWait"))
    /\ Cardinality(Spawned(engine)) + Cardinality(At("stopWait")) <= made

ClientInv == TypeOK /\ CallsOK /\ Paid

-----------------------------------------------------------------------------
(* Counting                                                                *)

LEMMA SpawnedFinite ==
    ASSUME NEW E PROVE IsFiniteSet(Spawned(E)) /\ Cardinality(Spawned(E)) \in Nat
  <1>1. IsFiniteSet(Engines)
    BY ClientAssumption, FS_Interval DEF Engines
  <1>2. IsFiniteSet(Spawned(E))
    BY <1>1, FS_Subset DEF Spawned
  <1>3. QED
    BY <1>2, FS_CardinalityType

\* A set that is no larger counts no more.
LEMMA NoMore ==
    ASSUME NEW S, NEW T, IsFiniteSet(T), S \subseteq T
    PROVE  IsFiniteSet(S) /\ Cardinality(S) \in Nat /\ Cardinality(T) \in Nat
           /\ Cardinality(S) <= Cardinality(T)
  BY FS_Subset, FS_CardinalityType

\* One that has one more member counts one more at most.
LEMMA OneMore ==
    ASSUME NEW S, NEW T, NEW x, IsFiniteSet(T), S \subseteq T \cup {x}
    PROVE  IsFiniteSet(S) /\ Cardinality(S) \in Nat /\ Cardinality(T) \in Nat
           /\ Cardinality(S) <= Cardinality(T) + 1
  <1>1. IsFiniteSet(T \cup {x})
        /\ Cardinality(T \cup {x}) \in {Cardinality(T), Cardinality(T) + 1}
    BY FS_AddElement, FS_CardinalityType
  <1>2. QED
    BY <1>1, NoMore, FS_CardinalityType

-----------------------------------------------------------------------------
(* The parts of an event                                                   *)

\* runQuery keeps the records right and gives the engine what it owes.
LEMMA AskedOK ==
    ASSUME NEW S \in SUBSET Queries, NEW C \in [Queries -> Call], NEW e \in Engines,
           \A c \in Queries : CallOK(C[c]), \A c \in S : C[c].out = "none"
    PROVE  /\ Asked(C, S, e) \in [Queries -> Call]
           /\ \A c \in Queries : CallOK(Asked(C, S, e)[c])
           /\ \A c \in Queries : Asked(C, S, e)[c].asked = C[c].asked
           /\ \A c \in Queries : Asked(C, S, e)[c].at =
                  IF c \in S THEN "query" ELSE C[c].at
           /\ \A c \in Queries : Asked(C, S, e)[c].out = C[c].out
           /\ \A c \in S : Asked(C, S, e)[c].eng = e
           /\ \A c \in Queries \ S : Asked(C, S, e)[c] = C[c]
  <1> SUFFICES ASSUME NEW c \in Queries
               PROVE  LET R == Asked(C, S, e)[c] IN
                      /\ CallOK(R) /\ R.asked = C[c].asked /\ R.out = C[c].out
                      /\ R.at = IF c \in S THEN "query" ELSE C[c].at
                      /\ IF c \in S THEN R.eng = e ELSE R = C[c]
    BY DEF Asked, CallOK
  <1>1. CASE c \notin S
    BY <1>1 DEF Asked
  <1>2. CASE c \in S
    <2> DEFINE R == C[c]
               a == R.asked
               N == [R EXCEPT !.at = "query", !.eng = e, !.left = a, !.got = {}]
    <2>1. R \in Call /\ R.out = "none" /\ a \in SUBSET Turns
      BY <1>2 DEF Call
    <2>2. Asked(C, S, e)[c] = N
      BY <1>2 DEF Asked
    <2> HIDE DEF R
    <2>3. /\ N \in Call /\ N.at = "query" /\ N.asked = a /\ N.left = a
          /\ N.out = "none" /\ N.eng = e
      BY <2>1 DEF Call
    <2> HIDE DEF N
    <2>4. CallOK(N)
      BY <2>3 DEF CallOK
    <2>5. QED
      BY <1>2, <2>1, <2>2, <2>3, <2>4 DEF R
  <1>3. QED
    BY <1>1, <1>2

LEMMA OwingOK ==
    ASSUME NEW S \in SUBSET Queries, NEW C \in [Queries -> Call], NEW e \in Engines,
           NEW E \in [Engines -> Engine]
    PROVE  /\ Owing(E, C, S, e) \in [Engines -> Engine]
           /\ \A f \in Engines : /\ Owing(E, C, S, e)[f].life = E[f].life
                                 /\ Owing(E, C, S, e)[f].told = E[f].told
  <1> DEFINE debt == UNION {{c} \X C[c].asked : c \in S}
             all == E[e].todo \cup debt
  <1>1. debt \subseteq Queries \X Turns
    BY DEF Call
  <1>2. all \in SUBSET (Queries \X Turns)
    BY <1>1 DEF Engine
  <1>3. Owing(E, C, S, e) \in {E, [E EXCEPT ![e] = [E[e] EXCEPT !.todo = all]]}
    BY DEF Owing
  <1> HIDE DEF all
  <1>4. [E[e] EXCEPT !.todo = all] \in Engine
    BY <1>2 DEF Engine
  <1>5. QED
    BY <1>3, <1>4 DEF Engine

LEMMA EndedOK ==
    ASSUME CallsOK, NEW S \in SUBSET Queries, NEW out \in {"timeout", "rejected"}
    PROVE  /\ Ended(S, out) \in [Queries -> Call]
           /\ \A c \in Queries : CallOK(Ended(S, out)[c])
           /\ \A c \in Queries : Ended(S, out)[c].at = IF c \in S THEN "idle" ELSE call[c].at
           /\ \A c \in Queries \ S : Ended(S, out)[c] = call[c]
           /\ \A c \in S : Ended(S, out)[c].out = out
  <1> DEFINE C == Ended(S, out)
  <1>1. \A c \in Queries \ S : C[c] = call[c]
    BY DEF Ended
  <1>2. ASSUME NEW c \in S
        PROVE  CallOK(C[c]) /\ C[c].at = "idle" /\ C[c].out = out
    <2> DEFINE R == call[c]
    <2>1. R \in Call /\ CallOK(R) /\ c \in Queries
      BY DEF CallsOK
    <2>2. C[c] = [R EXCEPT !.at = "idle", !.out = out]
      BY <2>1 DEF Ended
    <2> HIDE DEF C, R
    <2>3. QED
      BY <2>1, <2>2 DEF CallOK, Call
  <1>3. C = [c \in Queries |-> C[c]]
    BY DEF Ended
  <1> HIDE DEF C
  <1>4. \A c \in Queries : CallOK(C[c]) /\ C[c].at = IF c \in S THEN "idle" ELSE call[c].at
    BY <1>1, <1>2 DEF CallsOK
  <1>5. C \in [Queries -> Call]
    BY <1>3, <1>4 DEF CallOK
  <1>6. QED
    BY <1>1, <1>2, <1>4, <1>5 DEF C

\* ensureStarted: the calls S go on with an engine that is there, wait for one
\* that starts, or have one spawned, the next in line.
Spawns(E, p) ==
    /\ proc' \in Engines /\ ~Usable(E, p)
    /\ proc' = 1 + Cardinality(Spawned(E)) /\ engine'[proc'].life = "loading"
    /\ ExitIsPrompt => \A e \in Engines : E[e].told # "no" => E[e].life = "gone"
    /\ \A f \in Engines \ {proc'} : engine'[f].life = E[f].life /\ engine'[f].told = E[f].told

SpawnsNone(E, p) ==
    /\ proc' = p
    /\ \A f \in Engines : engine'[f].life = E[f].life /\ engine'[f].told = E[f].told

\* The call that spawns waits for its engine, those that follow it do not.
Spawned1(E, e) == [E EXCEPT ![e].life = "loading", ![e].open = TRUE]
Waiting1(A, first, e) == [A EXCEPT ![first].at = "startWait", ![first].eng = e]

LEMMA SpawnedOK ==
    ASSUME NEW S \in SUBSET Queries, NEW E \in [Engines -> Engine],
           NEW C \in [Queries -> Call], NEW e \in Engines
    PROVE  /\ Owing(Spawned1(E, e), C, S, e) \in [Engines -> Engine]
           /\ \A f \in Engines \ {e} :
                 /\ Owing(Spawned1(E, e), C, S, e)[f].life = E[f].life
                 /\ Owing(Spawned1(E, e), C, S, e)[f].told = E[f].told
           /\ Owing(Spawned1(E, e), C, S, e)[e].life = "loading"
  <1>1. Spawned1(E, e) = [E EXCEPT ![e] = [E[e] EXCEPT !.life = "loading", !.open = TRUE]]
    BY DEF Spawned1
  <1>2. /\ [E[e] EXCEPT !.life = "loading", !.open = TRUE] \in Engine
        /\ [E[e] EXCEPT !.life = "loading", !.open = TRUE].life = "loading"
    BY DEF Engine
  <1>3. /\ Spawned1(E, e) \in [Engines -> Engine]
        /\ \A f \in Engines \ {e} : Spawned1(E, e)[f] = E[f]
        /\ Spawned1(E, e)[e].life = "loading"
    BY <1>1, <1>2
  <1>4. QED
    BY <1>3, OwingOK

LEMMA WaitingOK ==
    ASSUME NEW A \in [Queries -> Call], NEW e \in Engines, NEW first \in Queries,
           \A c \in Queries : CallOK(A[c]), A[first].out = "none"
    PROVE  /\ Waiting1(A, first, e) \in [Queries -> Call]
           /\ \A c \in Queries : CallOK(Waiting1(A, first, e)[c])
           /\ \A c \in Queries :
                 Waiting1(A, first, e)[c].at = IF c = first THEN "startWait" ELSE A[c].at
           /\ Waiting1(A, first, e)[first].out = "none"
           /\ Waiting1(A, first, e)[first].eng = e
           /\ \A c \in Queries \ {first} : Waiting1(A, first, e)[c] = A[c]
  <1> DEFINE R == A[first]
             N == [R EXCEPT !.at = "startWait", !.eng = e]
  <1>1. Waiting1(A, first, e) = [A EXCEPT ![first] = N]
    BY DEF Waiting1, Call
  <1>2. R \in Call
    OBVIOUS
  <1>3. N \in Call /\ N.at = "startWait" /\ N.out = "none" /\ N.eng = e
    BY <1>2 DEF Call
  <1>4. CallOK(N)
    BY <1>3 DEF CallOK
  <1> HIDE DEF N
  <1>5. \A c \in Queries : Waiting1(A, first, e)[c] = IF c = first THEN N ELSE A[c]
    BY <1>1
  <1>6. Waiting1(A, first, e) \in [Queries -> Call]
    BY <1>1, <1>3
  <1>7. QED
    BY <1>3, <1>4, <1>5, <1>6

\* What ensureStarted is given, and what it leaves.
GoFits(S, E, p, st, C) ==
    /\ S \in SUBSET Queries /\ E \in [Engines -> Engine]
    /\ p \in Engines \cup {None} /\ st \in Engines \cup {None}
    /\ C \in [Queries -> Call] /\ \A c \in Queries : CallOK(C[c])
    /\ \A c \in S : C[c].out = "none"
    /\ S # {} => Cardinality(Spawned(E)) < MaxCalls

\* A call that goes on has sent its query or waits for an engine.
GoesTo(c, st) ==
    \/ call'[c].at = "query" /\ proc' \in Engines /\ call'[c].eng = proc'
    \/ /\ call'[c].at = "startWait"
       /\ st = None => starting' \in Engines /\ call'[c].eng = starting'

GoLeaves(S, E, p, st, C) ==
    /\ engine' \in [Engines -> Engine]
    /\ proc' \in Engines \cup {None} /\ starting' \in Engines \cup {None}
    /\ CallsOK'
    /\ \A c \in Queries : call'[c].at = "stopWait" => c \notin S /\ C[c].at = "stopWait"
    /\ \A c \in Queries \ S : call'[c] = C[c]
    /\ \A c \in S : call'[c].out = "none" /\ GoesTo(c, st)
    /\ \/ SpawnsNone(E, p) /\ starting' = st
       \/ /\ Spawns(E, p)
          /\ \E c \in S : call'[c].at = "startWait"

Goes(E, p) == SpawnsNone(E, p) \/ Spawns(E, p)

LEMMA LeavesGone ==
    ASSUME NEW S, NEW E, NEW p, NEW st, NEW C, GoLeaves(S, E, p, st, C)
    PROVE  Goes(E, p)
  BY DEF GoLeaves, Goes

\* The engines as ForceTimer and Exit have left them when calls go on.
Forced == [engine EXCEPT ![stopping].told = "kill"]
Closed == IF proc = None THEN engine ELSE [engine EXCEPT ![proc].open = FALSE]
Exited(e) == [Closed EXCEPT ![e].life = "gone"]

LEMMA GoOK ==
    ASSUME NEW S, NEW E, NEW p, NEW st, NEW C,
           GoFits(S, E, p, st, C), Go(S, E, p, st, C)
    PROVE  GoLeaves(S, E, p, st, C)
  <1> USE DEF GoFits, GoLeaves
  <1>0. /\ S \in SUBSET Queries /\ E \in [Engines -> Engine]
        /\ p \in Engines \cup {None} /\ st \in Engines \cup {None}
        /\ C \in [Queries -> Call] /\ \A c \in Queries : CallOK(C[c])
        /\ \A c \in S : C[c].out = "none"
        /\ S # {} => Cardinality(Spawned(E)) < MaxCalls
    OBVIOUS
  <1> HIDE DEF GoFits, GoLeaves
  <1> USE <1>0
  <1>1. CASE S = {} /\ engine' = E /\ proc' = p /\ starting' = st /\ call' = C
    BY <1>1 DEF CallsOK, SpawnsNone, GoLeaves
  <1>2. CASE /\ S # {} /\ Usable(E, p)
             /\ engine' = Owing(E, C, S, p) /\ call' = Asked(C, S, p)
             /\ proc' = p /\ starting' = st
    <2>1. p \in Engines
      BY <1>2 DEF Usable
    <2>2. engine' \in [Engines -> Engine] /\ SpawnsNone(E, p)
      BY <1>2, <2>1, OwingOK DEF SpawnsNone
    <2> DEFINE A == Asked(C, S, p)
    <2>3. /\ A \in [Queries -> Call]
          /\ \A c \in Queries : CallOK(A[c])
          /\ \A c \in Queries : A[c].at = IF c \in S THEN "query" ELSE C[c].at
          /\ \A c \in S : A[c].out = "none" /\ A[c].eng = p
          /\ \A c \in Queries \ S : A[c] = C[c]
      BY <2>1, AskedOK
    <2>4. call' = A
      BY <1>2
    <2> HIDE DEF A
    <2>5. CallsOK' /\ \A c \in Queries : call'[c].at = "stopWait" => c \notin S /\ C[c].at = "stopWait"
      BY <2>3, <2>4 DEF CallsOK
    <2>6. /\ \A c \in Queries \ S : call'[c] = C[c]
          /\ \A c \in S : call'[c].out = "none" /\ GoesTo(c, st)
      BY <1>2, <2>1, <2>3, <2>4 DEF GoesTo
    <2>7. QED
      BY <1>2, <2>2, <2>5, <2>6 DEF GoLeaves
  <1>3. CASE /\ S # {} /\ ~Usable(E, p) /\ st # None
             /\ engine' = E /\ proc' = p /\ starting' = st
             /\ call' = [c \in Queries |-> IF c \in S THEN [C[c] EXCEPT !.at = "startWait"] ELSE C[c]]
    <2>1. \A c \in S : /\ CallOK([C[c] EXCEPT !.at = "startWait"])
                       /\ [C[c] EXCEPT !.at = "startWait"].at = "startWait"
                       /\ [C[c] EXCEPT !.at = "startWait"].out = "none"
      BY DEF CallOK, Call
    <2>2. call' \in [Queries -> Call] /\ \A c \in Queries : CallOK(call'[c])
      BY <1>3, <2>1 DEF CallOK
    <2>3. QED
      BY <1>3, <2>1, <2>2 DEF CallsOK, SpawnsNone, GoLeaves, GoesTo
  <1>4. CASE /\ ~Usable(E, p) /\ st = None
             /\ ExitIsPrompt => \A e \in Engines : E[e].told # "no" => E[e].life = "gone"
             /\ \E first \in S :
                  LET e == 1 + Cardinality({f \in Engines : E[f].life # "unborn"})
                      spawned == [E EXCEPT ![e].life = "loading", ![e].open = TRUE]
                      C1 == Asked(C, S \ {first}, e)
                  IN /\ engine' = Owing(spawned, C, S \ {first}, e)
                     /\ proc' = e /\ starting' = e
                     /\ call' = [C1 EXCEPT ![first].at = "startWait", ![first].eng = e]
    <2> DEFINE e == 1 + Cardinality(Spawned(E))
    <2>1. PICK first \in S :
             /\ engine' = Owing([E EXCEPT ![e].life = "loading", ![e].open = TRUE],
                                C, S \ {first}, e)
             /\ proc' = e /\ starting' = e
             /\ call' = [Asked(C, S \ {first}, e) EXCEPT ![first].at = "startWait",
                                                         ![first].eng = e]
      BY <1>4 DEF Spawned
    <2>2. e \in Engines
      BY <2>1, SpawnedFinite, ClientAssumption DEF Engines
    <2> DEFINE rest == S \ {first}
               A == Asked(C, rest, e)
    <2>3. /\ rest \in SUBSET Queries /\ first \in Queries /\ first \notin rest
          /\ \A c \in rest : C[c].out = "none"
          /\ C[first].out = "none"
      OBVIOUS
    <2>4. engine' = Owing(Spawned1(E, e), C, rest, e) /\ call' = Waiting1(A, first, e)
      BY <2>1 DEF Spawned1, Waiting1
    <2> HIDE DEF e, rest
    <2>5. /\ A \in [Queries -> Call] /\ \A c \in Queries : CallOK(A[c])
          /\ \A c \in Queries : A[c].at = IF c \in rest THEN "query" ELSE C[c].at
          /\ A[first].out = "none"
          /\ \A c \in rest : A[c].out = "none" /\ A[c].eng = e
          /\ \A c \in Queries \ rest : A[c] = C[c]
      BY <2>2, <2>3, AskedOK
    <2> HIDE DEF A
    <2>6. /\ call' \in [Queries -> Call] /\ \A c \in Queries : CallOK(call'[c])
          /\ \A c \in Queries : call'[c].at = IF c = first THEN "startWait" ELSE A[c].at
          /\ call'[first].out = "none" /\ call'[first].eng = e
          /\ \A c \in Queries \ {first} : call'[c] = A[c]
      BY <2>2, <2>3, <2>4, <2>5, WaitingOK
    <2>7. /\ engine' \in [Engines -> Engine]
          /\ \A f \in Engines \ {e} : engine'[f].life = E[f].life /\ engine'[f].told = E[f].told
          /\ engine'[e].life = "loading"
      <3>1. /\ Owing(Spawned1(E, e), C, rest, e) \in [Engines -> Engine]
            /\ \A f \in Engines \ {e} :
                  /\ Owing(Spawned1(E, e), C, rest, e)[f].life = E[f].life
                  /\ Owing(Spawned1(E, e), C, rest, e)[f].told = E[f].told
            /\ Owing(Spawned1(E, e), C, rest, e)[e].life = "loading"
        BY <2>2, <2>3, SpawnedOK
      <3>2. QED
        BY <2>4, <3>1
    <2>8. Spawns(E, p)
      <3>1. proc' = e /\ proc' \in Engines /\ e = 1 + Cardinality(Spawned(E))
        BY <2>1, <2>2 DEF e
      <3>2. ~Usable(E, p) /\ (ExitIsPrompt => \A f \in Engines : E[f].told # "no" => E[f].life = "gone")
        BY <1>4
      <3>3. QED
        BY <2>7, <3>1, <3>2, Zenon DEF Spawns
    <2>9. \A c \in Queries : call'[c].at = "stopWait" => c \notin S /\ C[c].at = "stopWait"
      BY <2>5, <2>6 DEF rest
    <2>10. proc' \in Engines /\ starting' \in Engines /\ \E c \in S : call'[c].at = "startWait"
      BY <2>1, <2>2, <2>6 DEF e
    <2>11. CallsOK'
      BY <2>6 DEF CallsOK
    <2>12. /\ \A c \in Queries \ S : call'[c] = C[c]
           /\ \A c \in S : call'[c].out = "none" /\ GoesTo(c, st)
      <3>1. proc' = e /\ starting' = e
        BY <2>1 DEF e
      <3>2. \A c \in Queries : c \in S <=> c = first \/ c \in rest
        BY DEF rest
      <3>3. /\ \A c \in rest : call'[c].out = "none" /\ call'[c].at = "query" /\ call'[c].eng = e
            /\ \A c \in Queries \ S : call'[c] = C[c]
            /\ call'[first].at = "startWait"
        BY <2>3, <2>5, <2>6, <3>2
      <3>4. QED
        BY <2>2, <2>6, <3>1, <3>2, <3>3 DEF GoesTo
    <2>13. QED
      BY <2>7, <2>8, <2>9, <2>10, <2>11, <2>12 DEF GoLeaves
  <1>5. QED
    BY <1>1, <1>2, <1>3, <1>4 DEF Go

-----------------------------------------------------------------------------
(* Types, complete answers and paid engines                                *)

\* TypeOK, a variable at a time.
LEMMA Known ==
    ASSUME ClientInv
    PROVE  /\ proc \in Engines \cup {None} /\ starting \in Engines \cup {None}
           /\ stopping \in Engines \cup {None} /\ idle \in BOOLEAN
           /\ engine \in [Engines -> Engine]
           /\ call \in [Queries -> Call] /\ CallsOK
           /\ made \in 0 .. MaxCalls /\ deaths \in 0 .. MaxDeaths /\ down \in BOOLEAN
  BY DEF ClientInv, TypeOK

LEMMA TypesKept ==
    ASSUME /\ proc' \in Engines \cup {None} /\ starting' \in Engines \cup {None}
           /\ stopping' \in Engines \cup {None} /\ idle' \in BOOLEAN
           /\ engine' \in [Engines -> Engine]
           /\ CallsOK' /\ made' \in 0 .. MaxCalls
           /\ deaths' \in 0 .. MaxDeaths /\ down' \in BOOLEAN
    PROVE  TypeOK'
  BY DEF TypeOK, CallsOK

\* A step that spawns nothing and lets nobody new wait for stop().
LEMMA PaidKept ==
    ASSUME ClientInv, made' = made, Spawned(engine)' \subseteq Spawned(engine),
           At("stopWait")' \subseteq At("stopWait")
    PROVE  Paid'
  <1>1. /\ Cardinality(Spawned(engine)') \in Nat /\ Cardinality(Spawned(engine)) \in Nat
        /\ Cardinality(Spawned(engine)') <= Cardinality(Spawned(engine))
    BY SpawnedFinite, NoMore
  <1>2. /\ IsFiniteSet(At("stopWait")')
        /\ Cardinality(At("stopWait")') \in Nat /\ Cardinality(At("stopWait")) \in Nat
        /\ Cardinality(At("stopWait")') <= Cardinality(At("stopWait"))
    BY NoMore DEF ClientInv, Paid
  <1>3. Cardinality(Spawned(engine)) + Cardinality(At("stopWait")) <= made /\ made \in Nat
    BY ClientAssumption DEF ClientInv, Paid, TypeOK
  <1>4. QED
    BY <1>1, <1>2, <1>3 DEF Paid

\* Calls that waited for stop() go on, in the state an event has made so far.
GoesOn(S, E, p, st, C) ==
    /\ S \in {{}, At("stopWait")}
    /\ E \in [Engines -> Engine] /\ Spawned(E) = Spawned(engine)
    /\ p \in Engines \cup {None} /\ st \in Engines \cup {None}
    /\ C \in [Queries -> Call] /\ \A c \in Queries : CallOK(C[c])
    /\ \A c \in Queries : C[c].at = "stopWait" <=> call[c].at = "stopWait"

GoneOn(E, p) ==
    /\ engine' \in [Engines -> Engine]
    /\ proc' \in Engines \cup {None} /\ starting' \in Engines \cup {None}
    /\ CallsOK' /\ Paid'
    /\ SpawnsNone(E, p) \/ Spawns(E, p)

LEMMA GoOn ==
    ASSUME ClientInv, NEW S, NEW E, NEW p, NEW st, NEW C,
           GoesOn(S, E, p, st, C), Go(S, E, p, st, C), made' = made
    PROVE  GoneOn(E, p) /\ GoLeaves(S, E, p, st, C)
  <1>0. /\ S \in {{}, At("stopWait")}
        /\ E \in [Engines -> Engine] /\ Spawned(E) = Spawned(engine)
        /\ p \in Engines \cup {None} /\ st \in Engines \cup {None}
        /\ C \in [Queries -> Call] /\ \A c \in Queries : CallOK(C[c])
        /\ \A c \in Queries : C[c].at = "stopWait" <=> call[c].at = "stopWait"
    BY DEF GoesOn
  <1> USE <1>0
  <1> DEFINE W == At("stopWait")
             n == Cardinality(Spawned(engine))
  <1>1. /\ IsFiniteSet(W) /\ Cardinality(W) \in Nat /\ n \in Nat /\ made \in Nat
        /\ n + Cardinality(W) <= made /\ made <= MaxCalls /\ MaxCalls \in Nat
    BY SpawnedFinite, FS_CardinalityType, ClientAssumption DEF ClientInv, Paid, TypeOK
  <1>2. S \subseteq W /\ W \subseteq Queries
    BY DEF At
  <1>3. \A c \in S : C[c].out = "none"
    BY <1>2 DEF At, CallOK
  <1>4. S # {} => S = W /\ n + 1 <= made
    <2>1. W # {} => Cardinality(W) # 0
      BY <1>1, FS_EmptySet
    <2>2. QED
      BY <1>1, <1>2, <2>1
  <1>5. S # {} => Cardinality(Spawned(E)) < MaxCalls
    BY <1>1, <1>4
  <1>6. GoFits(S, E, p, st, C)
    BY <1>2, <1>3, <1>5 DEF GoFits
  <1>7. GoLeaves(S, E, p, st, C)
    BY <1>6, GoOK
  <1>8. At("stopWait")' \subseteq W \ S
    BY <1>7 DEF At, GoLeaves
  <1>9. CASE SpawnsNone(E, p)
    <2>1. Spawned(engine)' \subseteq Spawned(engine)
      BY <1>9 DEF SpawnsNone, Spawned
    <2>2. Paid'
      BY <1>8, <2>1, PaidKept
    <2>3. QED
      BY <1>7, <1>9, <2>2 DEF GoLeaves, GoneOn
  <1>10. CASE S # {} /\ Spawns(E, p)
    <2>1. Spawned(engine)' \subseteq Spawned(engine) \cup {proc'}
      BY <1>10 DEF Spawns, Spawned
    <2>2. /\ Cardinality(Spawned(engine)') \in Nat
          /\ Cardinality(Spawned(engine)') <= n + 1
      BY <2>1, SpawnedFinite, OneMore
    <2>3. At("stopWait")' = {}
      BY <1>4, <1>8, <1>10
    <2>4. IsFiniteSet(At("stopWait")') /\ Cardinality(At("stopWait")') = 0
      BY <2>3, FS_EmptySet
    <2>5. Paid'
      BY <1>1, <1>4, <1>10, <2>2, <2>4 DEF Paid
    <2>6. QED
      BY <1>7, <1>10, <2>5 DEF GoLeaves, GoneOn
  <1>11. QED
    BY <1>7, <1>9, <1>10 DEF GoLeaves, GoneOn

LEMMA AnalyzeKeeps ==
    ASSUME ClientInv, NEW c \in Queries, Analyze(c)
    PROVE  /\ ClientInv'
           /\ stopping = None =>
                 \E C : /\ \A d \in Queries \ {c} : C[d] = call[d]
                       /\ GoLeaves({c}, engine, proc, starting, C)
  <1>1. PICK asked \in {Turns, {}} :
           LET C == [call EXCEPT ![c] = [Idle EXCEPT !.asked = asked]] IN
           IF stopping # None
             THEN /\ call' = [C EXCEPT ![c].at = "stopWait"]
                  /\ UNCHANGED <<proc, starting, engine>>
             ELSE Go({c}, engine, proc, starting, C)
    BY DEF Analyze
  <1> DEFINE R == [Idle EXCEPT !.asked = asked]
             C == [call EXCEPT ![c] = R]
             n == Cardinality(Spawned(engine))
             W == At("stopWait")
  <1>2. R = [at |-> "idle", eng |-> None, asked |-> asked, left |-> {}, got |-> {}, out |-> "none"]
    BY DEF Idle
  <1>3. CallOK(R) /\ R.out = "none"
    BY <1>2 DEF CallOK, Call
  <1>4. /\ call \in [Queries -> Call] /\ \A d \in Queries : CallOK(call[d])
        /\ call[c].at = "idle"
    BY DEF ClientInv, CallsOK, Analyze
  <1>5. /\ C \in [Queries -> Call] /\ \A d \in Queries : CallOK(C[d])
        /\ \A d \in Queries : C[d].at = call[d].at
        /\ C[c] = R
    <2> HIDE DEF R
    <2>1. R \in Call
      BY <1>3 DEF CallOK
    <2>2. R.at = "idle"
      BY <1>2 DEF R
    <2>3. QED
      BY <1>3, <1>4, <2>1, <2>2
  <1>6. /\ made' = made + 1 /\ made \in Nat /\ made < MaxCalls /\ MaxCalls \in Nat
        /\ IsFiniteSet(W) /\ Cardinality(W) \in Nat /\ n \in Nat /\ n + Cardinality(W) <= made
    BY SpawnedFinite, FS_CardinalityType, ClientAssumption DEF ClientInv, Paid, TypeOK, Analyze
  <1>6a. made' \in 0 .. MaxCalls
    BY <1>6
  <1>7. UNCHANGED <<stopping, deaths, down>> /\ idle' = FALSE
    BY DEF Analyze
  <1>8. CASE stopping # None
    <2> DEFINE N == [R EXCEPT !.at = "stopWait"]
    <2>1. CallOK(N) /\ N.at = "stopWait"
      BY <1>2 DEF CallOK, Call
    <2>2. call' = [C EXCEPT ![c].at = "stopWait"] /\ UNCHANGED <<proc, starting, engine>>
      BY <1>1, <1>8
    <2>3. call' = [call EXCEPT ![c] = N]
      BY <1>4, <2>2
    <2> HIDE DEF N, R
    <2>4. CallsOK'
      BY <1>4, <2>1, <2>3 DEF CallsOK, CallOK
    <2>5. At("stopWait")' \subseteq W \cup {c}
      BY <1>4, <2>3 DEF At
    <2>6. /\ IsFiniteSet(At("stopWait")') /\ Cardinality(At("stopWait")') \in Nat
          /\ Cardinality(At("stopWait")') <= Cardinality(W) + 1
      BY <1>6, <2>5, OneMore
    <2>7. Paid'
      BY <1>6, <2>2, <2>6 DEF Paid
    <2>8. TypeOK'
      BY <1>6a, <1>7, <2>2, <2>4, Known, TypesKept
    <2>9. QED
      BY <1>8, <2>4, <2>7, <2>8 DEF ClientInv
  <1>9. CASE stopping = None
    <2>1. Go({c}, engine, proc, starting, C)
      BY <1>1, <1>9
    <2>2. /\ {c} \in SUBSET Queries /\ engine \in [Engines -> Engine]
          /\ proc \in Engines \cup {None} /\ starting \in Engines \cup {None}
          /\ \A d \in {c} : C[d].out = "none"
          /\ {c} # {} => Cardinality(Spawned(engine)) < MaxCalls
      BY <1>3, <1>5, <1>6 DEF ClientInv, TypeOK
    <2>2b. \A d \in Queries \ {c} : C[d] = call[d]
      BY <1>4
    <2> HIDE DEF C
    <2>2a. GoFits({c}, engine, proc, starting, C)
      BY <1>5, <2>2 DEF GoFits
    <2>3. GoLeaves({c}, engine, proc, starting, C)
      BY <2>1, <2>2a, GoOK
    <2>4. At("stopWait")' \subseteq W
      BY <1>5, <2>3 DEF At, GoLeaves
    <2>5. /\ IsFiniteSet(At("stopWait")') /\ Cardinality(At("stopWait")') \in Nat
          /\ Cardinality(At("stopWait")') <= Cardinality(W)
      BY <1>6, <2>4, NoMore
    <2>6. \E x \in Engines \cup {None} : Spawned(engine)' \subseteq Spawned(engine) \cup {x}
      BY <2>3 DEF GoLeaves, SpawnsNone, Spawns, Spawned
    <2>7. /\ Cardinality(Spawned(engine)') \in Nat
          /\ Cardinality(Spawned(engine)') <= n + 1
      BY <2>6, SpawnedFinite, OneMore
    <2>8. Paid'
      BY <1>6, <2>5, <2>7 DEF Paid
    <2>9. TypeOK'
      BY <1>6a, <1>7, <2>3, Known, TypesKept DEF GoLeaves
    <2>10. QED
      BY <2>2b, <2>3, <2>8, <2>9 DEF ClientInv, GoLeaves
  <1>10. QED
    BY <1>8, <1>9

LEMMA ClosedOK ==
    ASSUME ClientInv
    PROVE  /\ Closed \in [Engines -> Engine]
           /\ \A f \in Engines : Closed[f].life = engine[f].life
  <1>1. CASE proc = None
    BY <1>1, Known DEF Closed
  <1>2. CASE proc # None
    <2> DEFINE N == [engine[proc] EXCEPT !.open = FALSE]
    <2>1. proc \in Engines /\ engine \in [Engines -> Engine]
      BY <1>2, Known
    <2>2. N \in Engine /\ N.life = engine[proc].life
      BY <2>1 DEF Engine
    <2>3. Closed = [engine EXCEPT ![proc] = N]
      BY <1>2 DEF Closed
    <2> HIDE DEF N
    <2>4. QED
      BY <2>1, <2>2, <2>3
  <1>3. QED
    BY <1>1, <1>2

\* ForceTimer and Exit: the calls that waited for stop() go on.
LEMMA ForceTimerKeeps ==
    ASSUME ClientInv, ForceTimer
    PROVE  ClientInv' /\ GoLeaves(At("stopWait"), Forced, proc, starting, call)
  <1> DEFINE E == Forced
             W == At("stopWait")
  <1>1. /\ stopping \in Engines /\ stopping' = None
        /\ Go(W, E, proc, starting, call)
        /\ UNCHANGED <<idle, made, deaths, down>>
    BY Known DEF ForceTimer, Forced
  <1>2. E \in [Engines -> Engine] /\ Spawned(E) = Spawned(engine)
    BY <1>1, Known DEF Engine, Spawned, Forced
  <1> HIDE DEF E, W
  <1>3. GoesOn(W, E, proc, starting, call)
    BY <1>1, <1>2, Known DEF GoesOn, CallsOK, W
  <1>4. GoneOn(E, proc) /\ GoLeaves(W, E, proc, starting, call)
    BY <1>1, <1>3, GoOn
  <1>5. TypeOK'
    BY <1>1, <1>4, Known, TypesKept DEF GoneOn
  <1>6. QED
    BY <1>4, <1>5 DEF ClientInv, GoneOn, E, W

\* An exit ends the pending calls and those that wait for this engine, and lets
\* those go on that waited for its end.
Over(e) == Pending \cup (IF starting = e THEN At("startWait") ELSE {})
Resumed(e) == IF stopping = e THEN At("stopWait") ELSE {}
Awaited(e) == IF starting = e THEN None ELSE starting
ExitLeaves(e) ==
    GoLeaves(Resumed(e), Exited(e), None, Awaited(e), Ended(Over(e), "rejected"))

LEMMA ExitKeeps ==
    ASSUME ClientInv, NEW e \in Engines, Exit(e)
    PROVE  ClientInv' /\ ExitLeaves(e)
  <1> DEFINE S == Resumed(e)
             E == Exited(e)
             st == Awaited(e)
             over == Over(e)
             C == Ended(over, "rejected")
  <1>1. /\ engine[e].life = "dead" /\ idle' = FALSE
        /\ stopping' = IF stopping = e THEN None ELSE stopping
        /\ Go(S, E, None, st, C)
        /\ UNCHANGED <<made, deaths, down>>
    BY DEF Exit, Exited, Closed, Resumed, Awaited, Over
  <1>2. /\ Closed \in [Engines -> Engine]
        /\ \A f \in Engines : Closed[f].life = engine[f].life
    BY ClosedOK
  <1>3. E \in [Engines -> Engine] /\ Spawned(E) = Spawned(engine)
    BY <1>1, <1>2 DEF Engine, Spawned, Exited
  <1>4. over \in SUBSET Queries /\ \A c \in over : call[c].at # "stopWait"
    BY DEF Pending, At, Over
  <1> HIDE DEF E, over
  <1>5. /\ C \in [Queries -> Call] /\ \A c \in Queries : CallOK(C[c])
        /\ \A c \in Queries : C[c].at = IF c \in over THEN "idle" ELSE call[c].at
    BY <1>4, Known, EndedOK
  <1>6. st \in Engines \cup {None} /\ S \in {{}, At("stopWait")}
    BY Known DEF Awaited, Resumed
  <1> HIDE DEF C, st, S
  <1>7. GoesOn(S, E, None, st, C)
    BY <1>3, <1>4, <1>5, <1>6 DEF GoesOn
  <1>8. GoneOn(E, None) /\ GoLeaves(S, E, None, st, C)
    BY <1>1, <1>7, GoOn
  <1>9. stopping' \in Engines \cup {None}
    BY <1>1, Known
  <1>10. TypeOK'
    BY <1>1, <1>8, <1>9, Known, TypesKept DEF GoneOn
  <1>11. QED
    BY <1>8, <1>10 DEF ClientInv, GoneOn, ExitLeaves, E, S, st, C, over

-----------------------------------------------------------------------------
(* Events after which no call goes on                                      *)

Present(E, f) == E[f].life \in {"loading", "ready", "dead"}

\* An event that spawns no engine, and gives this.process up only after telling
\* it to end - to be killed, if a query is pending.
Quiet ==
    /\ engine' \in [Engines -> Engine]
    /\ \A f \in Engines :
          /\ engine'[f].life = "unborn" <=> engine[f].life = "unborn"
          /\ Present(engine', f) => Present(engine, f)
          /\ engine'[f].told = "no" => engine[f].told = "no"
          /\ engine[f].told = "kill" => engine'[f].told = "kill"
    /\ \/ UNCHANGED <<proc, stopping>>
       \/ /\ proc \in Engines /\ proc' = None /\ stopping' = proc
          /\ engine'[proc].told = "kill" \/ (engine'[proc].told = "eof" /\ Pending = {})

\* One that only ends calls, answers them, or sends the queries of those that
\* waited for an engine.
Moves(c) ==
    \/ /\ call'[c].at = call[c].at /\ call'[c].eng = call[c].eng
       /\ call'[c].out = call[c].out
    \/ /\ call[c].at \in {"startWait", "query"} /\ call'[c].at = "idle"
       /\ call'[c].out = "timeout" => QueryTimeout(c)
    \/ /\ call[c].at = "startWait" /\ call'[c].at = "query" /\ call'[c].out = "none"
       /\ proc' \in Engines /\ call'[c].eng = proc'

CallsQuiet == CallsOK' /\ made' = made /\ \A c \in Queries : Moves(c)

Quietly == Quiet /\ CallsQuiet

LEMMA QuietKeeps ==
    ASSUME ClientInv, Quiet, CallsQuiet,
           starting' \in {starting, None}, idle' \in BOOLEAN,
           deaths' \in 0 .. MaxDeaths, down' \in BOOLEAN
    PROVE  ClientInv' /\ Quietly
  <1>1. Spawned(engine)' \subseteq Spawned(engine)
    BY DEF Quiet, Spawned
  <1>2. At("stopWait")' \subseteq At("stopWait")
    BY DEF CallsQuiet, Moves, At
  <1>3. Paid'
    BY <1>1, <1>2, PaidKept DEF CallsQuiet
  <1>4. /\ proc' \in Engines \cup {None} /\ starting' \in Engines \cup {None}
        /\ stopping' \in Engines \cup {None} /\ engine' \in [Engines -> Engine]
        /\ CallsOK' /\ made' \in 0 .. MaxCalls
    BY Known DEF Quiet, CallsQuiet
  <1>5. TypeOK'
    BY <1>4, TypesKept
  <1>6. QED
    BY <1>3, <1>4, <1>5 DEF ClientInv, Quietly

\* Ended leaves the rest of the calls alone.
LEMMA EndedQuiet ==
    ASSUME ClientInv, NEW S \in SUBSET Queries, NEW out \in {"timeout", "rejected"},
           S \subseteq At("startWait") \cup Pending,
           out = "timeout" => \A c \in S : QueryTimeout(c),
           call' = Ended(S, out), made' = made
    PROVE  CallsQuiet
  <1> DEFINE C == Ended(S, out)
  <1>1. /\ C \in [Queries -> Call] /\ \A c \in Queries : CallOK(C[c])
        /\ \A c \in S : C[c].at = "idle" /\ C[c].out = out
        /\ \A c \in Queries \ S : C[c] = call[c]
    BY Known, EndedOK
  <1>2. call' = C
    OBVIOUS
  <1> HIDE DEF C
  <1>3. ASSUME NEW c \in Queries PROVE Moves(c)
    <2>1. CASE c \notin S
      BY <1>1, <1>2, <2>1 DEF Moves
    <2>2. CASE c \in S
      <3>1. call[c].at \in {"startWait", "query"}
        BY <2>2 DEF At, Pending
      <3>2. QED
        BY <1>1, <1>2, <2>2, <3>1, Zenon DEF Moves
    <2>3. QED
      BY <2>1, <2>2
  <1>4. QED
    BY <1>1, <1>2, <1>3 DEF CallsQuiet, CallsOK

\* The same engines and the same this.process.
LEMMA SameQuiet ==
    ASSUME ClientInv, UNCHANGED <<engine, proc, stopping>>
    PROVE  Quiet
  BY Known DEF Quiet, Present

\* What an engine still owes is not part of it.
LEMMA OwesQuiet ==
    ASSUME ClientInv, NEW e \in Engines, NEW T \in SUBSET (Queries \X Turns),
           engine' = [engine EXCEPT ![e].todo = T], UNCHANGED <<proc, stopping>>
    PROVE  Quiet
  <1>1. engine' = [engine EXCEPT ![e] = [engine[e] EXCEPT !.todo = T]]
    OBVIOUS
  <1>2. [engine[e] EXCEPT !.todo = T] \in Engine
    BY Known DEF Engine
  <1>3. QED
    BY <1>1, <1>2, Known DEF Quiet, Present, Engine

\* stop() of this.process.
LEMMA StoppedQuiet ==
    ASSUME ClientInv, proc # None, NEW how \in {"eof", "kill"}, Stopped(how),
           how = "kill" \/ Pending = {}
    PROVE  Quiet
  <1> DEFINE R == engine[proc]
             told == IF R.told = "kill" THEN R.told ELSE how
             N == [R EXCEPT !.open = FALSE, !.told = told]
  <1>1. proc \in Engines /\ R \in Engine
    BY Known
  <1>2. told \in {"eof", "kill"}
    OBVIOUS
  <1>3. N \in Engine /\ N.life = R.life /\ N.told = told
    BY <1>1, <1>2 DEF Engine
  <1>4. engine' = [engine EXCEPT ![proc] = N]
    BY <1>1, Known DEF Stopped, Engine
  <1>5. proc' = None /\ stopping' = proc
    BY DEF Stopped
  <1>5a. R.told = "kill" => told = "kill"
    OBVIOUS
  <1>5b. told = "kill" \/ (told = "eof" /\ Pending = {})
    OBVIOUS
  <1> HIDE DEF N, told
  <1>6. QED
    BY <1>1, <1>2, <1>3, <1>4, <1>5, <1>5a, <1>5b, Known DEF Quiet, Present

LEMMA ReadyTimeoutKeeps ==
    ASSUME ClientInv, ReadyTimeout
    PROVE  ClientInv' /\ Quietly
  <1>1. Quiet
    BY SameQuiet DEF ReadyTimeout
  <1>2. CallsQuiet
    <2>1. At("startWait") \in SUBSET Queries
      BY DEF At
    <2>2. QED
      BY <2>1, EndedQuiet DEF ReadyTimeout
  <1>3. QED
    BY <1>1, <1>2, QuietKeeps, Known DEF ReadyTimeout

LEMMA QueryTimeoutKeeps ==
    ASSUME ClientInv, NEW c \in Queries, QueryTimeout(c)
    PROVE  ClientInv' /\ Quietly
  <1>1. Quiet
    BY Known DEF QueryTimeout, Killed, Quiet, Present, Engine
  <1>2. CallsQuiet
    <2>1. {c} \subseteq Pending /\ call' = Ended({c}, "timeout") /\ made' = made
      BY DEF QueryTimeout, Pending, At
    <2>2. QED
      BY <2>1, EndedQuiet
  <1>3. QED
    BY <1>1, <1>2, QuietKeeps, Known, ClientAssumption DEF QueryTimeout, Scheduled

LEMMA WriteFailsKeeps ==
    ASSUME ClientInv, NEW c \in Queries, WriteFails(c)
    PROVE  ClientInv' /\ Quietly
  <1>1. Quiet
    BY SameQuiet DEF WriteFails
  <1>2. CallsQuiet
    <2>1. {c} \subseteq Pending /\ call' = Ended({c}, "rejected") /\ made' = made
      BY DEF WriteFails, Pending, At
    <2>2. QED
      BY <2>1, EndedQuiet
  <1>3. QED
    BY <1>1, <1>2, QuietKeeps, Known, ClientAssumption DEF WriteFails, Scheduled

LEMMA SameCalls ==
    ASSUME ClientInv, UNCHANGED <<call, made>>
    PROVE  CallsQuiet
  BY Known DEF CallsQuiet, CallsOK, Moves

LEMMA IdleFiresKeeps ==
    ASSUME ClientInv, IdleFires
    PROVE  ClientInv' /\ Quietly
  <1>1. Quiet
    <2>1. CASE Pending = {} /\ stopping = None /\ proc # None
      BY <2>1, StoppedQuiet DEF IdleFires, Stopped
    <2>2. CASE ~(Pending = {} /\ stopping = None /\ proc # None)
      BY <2>2, SameQuiet DEF IdleFires
    <2>3. QED
      BY <2>1, <2>2
  <1>2. CallsQuiet
    BY SameCalls DEF IdleFires
  <1>3. QED
    BY <1>1, <1>2, QuietKeeps, Known DEF IdleFires

LEMMA ShutdownKeeps ==
    ASSUME ClientInv, Shutdown
    PROVE  ClientInv' /\ Quietly
  <1>1. Quiet
    <2>1. CASE stopping = None /\ proc # None
      BY <2>1, StoppedQuiet DEF Shutdown, Stopped
    <2>2. CASE ~(stopping = None /\ proc # None)
      BY <2>2, SameQuiet DEF Shutdown
    <2>3. QED
      BY <2>1, <2>2
  <1>2. CallsQuiet
    BY SameCalls DEF Shutdown
  <1>3. QED
    BY <1>1, <1>2, QuietKeeps, Known DEF Shutdown

LEMMA DiesKeeps ==
    ASSUME ClientInv, NEW e \in Engines, Dies(e)
    PROVE  ClientInv' /\ Quietly
  <1>1. Quiet
    BY Known DEF Dies, Alive, Quiet, Present, Engine
  <1>2. CallsQuiet
    BY SameCalls DEF Dies
  <1>3. deaths' \in 0 .. MaxDeaths
    BY Known, ClientAssumption DEF Dies
  <1>4. QED
    BY <1>1, <1>2, <1>3, QuietKeeps, Known DEF Dies

LEMMA ReadyKeeps ==
    ASSUME ClientInv, NEW e \in Engines, Ready(e)
    PROVE  ClientInv' /\ Quietly
  <1> DEFINE E == [engine EXCEPT ![e].life = "ready"]
             S == At("startWait")
  <1>1. /\ engine[e].life = "loading"
        /\ UNCHANGED <<proc, stopping, made, deaths, down>>
    BY DEF Ready
  <1>2. /\ E \in [Engines -> Engine]
        /\ \A f \in Engines : /\ E[f].told = engine[f].told
                              /\ E[f].life = IF f = e THEN "ready" ELSE engine[f].life
    BY Known DEF Engine
  <1>3. S \in SUBSET Queries /\ \A c \in S : call[c].out = "none"
    BY Known DEF At, CallsOK, CallOK
  <1>4. CASE starting # e
    <2>1. engine' = E /\ UNCHANGED <<call, starting, idle>>
      BY <1>4 DEF Ready
    <2> HIDE DEF E
    <2>2. Quiet
      BY <1>1, <1>2, <2>1 DEF Quiet, Present
    <2>3. CallsQuiet
      BY <1>1, <2>1, SameCalls
    <2>4. QED
      BY <1>1, <2>1, <2>2, <2>3, QuietKeeps, Known
  <1>5. CASE starting = e /\ proc = None
    <2>1. engine' = E /\ call' = Ended(S, "rejected") /\ idle' = FALSE /\ starting' = None
      BY <1>5 DEF Ready
    <2> HIDE DEF E
    <2>2. Quiet
      BY <1>1, <1>2, <2>1 DEF Quiet, Present
    <2>3. CallsQuiet
      BY <1>1, <1>3, <2>1, EndedQuiet
    <2>4. QED
      BY <1>1, <2>1, <2>2, <2>3, QuietKeeps, Known
  <1>6. CASE starting = e /\ proc # None
    <2>1. /\ engine' = Owing(E, call, S, proc) /\ call' = Asked(call, S, proc)
          /\ UNCHANGED idle /\ starting' = None
      BY <1>6 DEF Ready
    <2> HIDE DEF E, S
    <2>2. proc \in Engines
      BY <1>6, Known
    <2> DEFINE F == Owing(E, call, S, proc)
               C == Asked(call, S, proc)
    <2>3. /\ F \in [Engines -> Engine]
          /\ \A f \in Engines : F[f].life = E[f].life /\ F[f].told = E[f].told
      BY <1>2, <1>3, <2>2, Known, OwingOK
    <2>4. /\ C \in [Queries -> Call] /\ \A c \in Queries : CallOK(C[c])
          /\ \A c \in S : C[c].at = "query" /\ C[c].eng = proc /\ C[c].out = "none"
          /\ \A c \in Queries \ S : C[c] = call[c]
      BY <1>3, <2>2, Known, AskedOK DEF CallsOK
    <2> HIDE DEF F, C
    <2>5. Quiet
      BY <1>1, <1>2, <2>1, <2>3 DEF Quiet, Present, F
    <2>6. CallsQuiet
      <3>1. ASSUME NEW c \in Queries PROVE Moves(c)
        BY <1>1, <2>1, <2>2, <2>4 DEF Moves, C, S, At
      <3>2. QED
        BY <1>1, <2>1, <2>4, <3>1 DEF CallsQuiet, CallsOK, C
    <2>7. QED
      BY <1>1, <2>1, <2>5, <2>6, QuietKeeps, Known
  <1>7. QED
    BY <1>4, <1>5, <1>6

LEMMA AnswerKeeps ==
    ASSUME ClientInv, NEW e \in Engines, NEW c \in Queries, NEW t \in Turns, Answer(e, c, t)
    PROVE  ClientInv' /\ Quietly
  <1> DEFINE R == call[c]
             left == R.left \ {t}
             got == R.got \cup {t}
             N == [R EXCEPT !.left = left, !.got = got]
             D == [N EXCEPT !.at = "idle", !.out = "resolved"]
  <1>1. /\ UNCHANGED <<proc, starting, stopping, made, deaths, down>>
        /\ engine' = [engine EXCEPT ![e].todo = engine[e].todo \ {<<c, t>>}]
    BY DEF Answer
  <1>2. Quiet
    <2>1. engine[e].todo \ {<<c, t>>} \in SUBSET (Queries \X Turns)
      BY Known DEF Engine
    <2>2. QED
      BY <1>1, <2>1, OwesQuiet
  <1>3. R \in Call /\ CallOK(R) /\ call \in [Queries -> Call] /\ \A d \in Queries : CallOK(call[d])
    BY Known DEF CallsOK
  <1>4. left \in SUBSET Turns /\ got \in SUBSET Turns /\ R.left \cup R.got \subseteq left \cup got
    BY <1>3 DEF Call
  <1>5. R.at = "query" => /\ CallOK(N) /\ N \in Call /\ N.at = "query"
                         /\ N.eng = R.eng /\ N.out = R.out
    <2> HIDE DEF left, got
    <2>1. QED
      BY <1>3, <1>4 DEF Call, CallOK
  <1>6. R.at = "query" /\ left = {} => CallOK(D) /\ D.at = "idle" /\ D.out = "resolved"
    <2>1. R.at = "query" /\ left = {} => R.asked \subseteq got
      BY <1>3, <1>4 DEF CallOK
    <2> HIDE DEF left, got
    <2>2. QED
      BY <1>3, <1>4, <2>1 DEF Call, CallOK
  <1>7. idle' \in BOOLEAN /\ CallsQuiet
    <2>1. CASE call[c].at # "query"
      BY <1>1, <2>1, SameCalls, Known DEF Answer
    <2>2. CASE call[c].at = "query" /\ left # {}
      <3>1. call' = [call EXCEPT ![c] = N] /\ UNCHANGED idle
        BY <1>3, <2>2 DEF Answer
      <3> HIDE DEF N
      <3>2. CallsOK' /\ \A d \in Queries : Moves(d)
        BY <1>3, <1>5, <2>2, <3>1 DEF Moves, CallsOK, CallOK
      <3>3. QED
        BY <1>1, <3>1, <3>2, Known DEF CallsQuiet
    <2>3. CASE call[c].at = "query" /\ left = {}
      <3>1. call' = [call EXCEPT ![c] = D] /\ idle' = Scheduled(Pending \ {c}, proc)
        BY <1>3, <2>3 DEF Answer
      <3> HIDE DEF D
      <3>2. idle' \in BOOLEAN
        BY <3>1, ClientAssumption DEF Scheduled
      <3>3. CallsOK'
        BY <1>3, <1>6, <2>3, <3>1 DEF CallsOK, CallOK
      <3>4. \A d \in Queries : Moves(d)
        BY <1>3, <1>6, <2>3, <3>1 DEF Moves
      <3>5. QED
        BY <1>1, <3>2, <3>3, <3>4 DEF CallsQuiet
    <2>4. QED
      BY <2>1, <2>2, <2>3
  <1>8. QED
    BY <1>1, <1>2, <1>7, QuietKeeps, Known

LEMMA EngineErrorKeeps ==
    ASSUME ClientInv, NEW e \in Engines, NEW c \in Queries, EngineError(e, c)
    PROVE  ClientInv' /\ Quietly
  <1>1. /\ UNCHANGED <<proc, starting, stopping, made, deaths, down>>
        /\ engine' = [engine EXCEPT ![e].todo = {q \in engine[e].todo : q[1] # c}]
    BY DEF EngineError
  <1>2. Quiet
    <2>1. {q \in engine[e].todo : q[1] # c} \in SUBSET (Queries \X Turns)
      BY Known DEF Engine
    <2>2. QED
      BY <1>1, <2>1, OwesQuiet
  <1>3. idle' \in BOOLEAN
    BY Known, ClientAssumption DEF EngineError, Scheduled
  <1>4. CallsQuiet
    <2>1. CASE call[c].at # "query"
      BY <1>1, <2>1, SameCalls DEF EngineError
    <2>2. CASE call[c].at = "query"
      <3>1. {c} \subseteq Pending /\ call' = Ended({c}, "rejected")
        BY <2>2 DEF EngineError, Pending, At
      <3>2. QED
        BY <1>1, <3>1, EndedQuiet
    <2>3. QED
      BY <2>1, <2>2
  <1>5. QED
    BY <1>1, <1>2, <1>3, <1>4, QuietKeeps, Known

-----------------------------------------------------------------------------
(* The invariants                                                          *)

LEMMA InitHolds ==
    ASSUME Init
    PROVE  ClientInv
  <1>1. TypeOK
    <2>1. Unborn \in Engine /\ Idle \in Call
      BY DEF Unborn, Engine, Idle, Call
    <2>2. engine \in [Engines -> Engine] /\ call \in [Queries -> Call]
      BY <2>1 DEF Init
    <2>3. {proc, starting, stopping} \subseteq Engines \cup {None} /\ idle \in BOOLEAN
      BY DEF Init
    <2>4. made = 0 /\ deaths = 0 /\ MaxCalls \in Nat /\ MaxDeaths \in Nat
      BY ClientAssumption DEF Init
    <2>5. made \in 0 .. MaxCalls /\ deaths \in 0 .. MaxDeaths
      BY <2>4
    <2>6. down \in BOOLEAN
      BY DEF Init
    <2>7. QED
      BY <2>2, <2>3, <2>5, <2>6 DEF TypeOK
  <1>2. CallsOK
    BY <1>1 DEF Init, TypeOK, CallsOK, CallOK, Idle
  <1>3. Spawned(engine) = {} /\ At("stopWait") = {}
    BY DEF Init, Spawned, At, Unborn, Idle
  <1>4. Paid
    BY <1>3, FS_EmptySet DEF Init, Paid
  <1>5. QED
    BY <1>1, <1>2, <1>4 DEF ClientInv

\* Every event, with what it does to the engines.
LEMMA Stutters ==
    ASSUME ClientInv, UNCHANGED vars
    PROVE  ClientInv' /\ Quietly
  <1>1. Quiet /\ CallsQuiet
    BY SameQuiet, SameCalls DEF vars
  <1>2. QED
    BY <1>1, QuietKeeps, Known DEF vars

LEMMA EventHolds ==
    ASSUME ClientInv, [Next]_vars
    PROVE  /\ ClientInv'
           /\ \/ Quietly
              \/ ForceTimer
              \/ \E c \in Queries : Analyze(c)
              \/ \E e \in Engines : Exit(e)
  <1>1. CASE \E c \in Queries : Analyze(c) \/ QueryTimeout(c) \/ WriteFails(c)
    BY <1>1, AnalyzeKeeps, QueryTimeoutKeeps, WriteFailsKeeps
  <1>2. CASE \E e \in Engines : Ready(e) \/ Dies(e) \/ Exit(e)
    BY <1>2, ReadyKeeps, DiesKeeps, ExitKeeps
  <1>3. CASE \E e \in Engines, c \in Queries : EngineError(e, c) \/ \E t \in Turns : Answer(e, c, t)
    <2>1. PICK e \in Engines, c \in Queries : EngineError(e, c) \/ \E t \in Turns : Answer(e, c, t)
      BY <1>3
    <2>2. ClientInv' /\ Quietly
      BY <2>1, EngineErrorKeeps, AnswerKeeps
    <2>3. QED
      BY <2>2
  <1>4. CASE ReadyTimeout \/ IdleFires \/ ForceTimer \/ Shutdown
    BY <1>4, ReadyTimeoutKeeps, IdleFiresKeeps, ForceTimerKeeps, ShutdownKeeps
  <1>5. CASE Finished \/ UNCHANGED vars
    BY <1>5, Stutters DEF Finished
  <1>6. QED
    BY <1>1, <1>2, <1>3, <1>4, <1>5 DEF Next

\* The inductive invariant of the service.
THEOREM ClientInvariant == Spec => []ClientInv
  <1>1. Init => ClientInv
    BY InitHolds
  <1>2. ClientInv /\ [Next]_vars => ClientInv'
    BY EventHolds
  <1>3. QED
    BY <1>1, <1>2, PTL DEF Spec

\* Every variable keeps its type: an engine spawned has a number of its own.
THEOREM ClientTypes == Spec => []TypeOK
  <1>1. ClientInv => TypeOK
    BY DEF ClientInv
  <1>2. QED
    BY <1>1, ClientInvariant, PTL

-----------------------------------------------------------------------------
(* No engine is lost                                                       *)

\* At most one process exists, and one that was not told to end is this.process.
OneOf(E, p) ==
    /\ \A e, f \in Engines : Present(E, e) /\ Present(E, f) => e = f
    /\ \A e \in Engines : Present(E, e) /\ E[e].told = "no" => p = e

Sole == ExitIsPrompt => OneOf(engine, proc)

\* A call finds no engine when it spawns one.
LEMMA GoneOnIsSole ==
    ASSUME ExitIsPrompt, NEW E \in [Engines -> Engine], NEW p \in Engines \cup {None},
           OneOf(E, p), Goes(E, p)
    PROVE  Sole'
  <1>1. CASE SpawnsNone(E, p)
    BY <1>1 DEF SpawnsNone, Sole, OneOf, Present
  <1>2. CASE Spawns(E, p)
    <2>1. \A f \in Engines : ~Present(E, f)
      <3> SUFFICES ASSUME NEW f \in Engines, Present(E, f)
                   PROVE  FALSE
        OBVIOUS
      <3>1. E[f].told = "no"
        BY <1>2 DEF Spawns, Present
      <3>2. p = f /\ p # None
        BY <3>1, ClientAssumption DEF OneOf, Engines
      <3>3. QED
        BY <1>2, <3>1, <3>2 DEF Spawns, Usable
    <2>2. \A f \in Engines : Present(engine', f) => f = proc'
      BY <1>2, <2>1 DEF Spawns, Present
    <2>3. QED
      BY <2>2 DEF Sole, OneOf
  <1>3. QED
    BY <1>1, <1>2 DEF Goes

\* The three events that let a call go on, and the others.
LEMMA AnalyzeIsSole ==
    ASSUME ExitIsPrompt, ClientInv, Sole, NEW c \in Queries, Analyze(c)
    PROVE  Sole'
  <1>1. OneOf(engine, proc)
    BY DEF Sole
  <1>2. CASE stopping # None
    BY <1>1, <1>2 DEF Analyze, Sole
  <1>3. CASE stopping = None
    BY <1>1, <1>3, Known, AnalyzeKeeps, LeavesGone, GoneOnIsSole
  <1>4. QED
    BY <1>2, <1>3

LEMMA ForceTimerIsSole ==
    ASSUME ExitIsPrompt, ClientInv, Sole, ForceTimer
    PROVE  Sole'
  <1>1. /\ Forced \in [Engines -> Engine]
        /\ \A f \in Engines : /\ Forced[f].life = engine[f].life
                              /\ Forced[f].told \in {"kill", engine[f].told}
    <2>1. stopping \in Engines
      BY Known DEF ForceTimer
    <2>2. QED
      BY <2>1, Known DEF Forced, Engine
  <1>2. OneOf(Forced, proc)
    <2>1. OneOf(engine, proc)
      BY DEF Sole
    <2>2. \A f \in Engines : /\ Present(Forced, f) <=> Present(engine, f)
                             /\ Forced[f].told = "no" => engine[f].told = "no"
      BY <1>1 DEF Present
    <2>3. QED
      BY <2>1, <2>2 DEF OneOf
  <1>3. Goes(Forced, proc)
    BY ForceTimerKeeps, LeavesGone
  <1>4. QED
    BY <1>1, <1>2, <1>3, Known, GoneOnIsSole

LEMMA ExitIsSole ==
    ASSUME ExitIsPrompt, ClientInv, Sole, NEW e \in Engines, Exit(e)
    PROVE  Sole'
  <1>1. Goes(Exited(e), None)
    BY ExitKeeps, LeavesGone DEF ExitLeaves
  <1>2. /\ Closed \in [Engines -> Engine]
        /\ \A f \in Engines : Closed[f].life = engine[f].life
    BY ClosedOK
  <1>3. /\ Exited(e) \in [Engines -> Engine]
        /\ \A f \in Engines : Exited(e)[f].life = IF f = e THEN "gone" ELSE engine[f].life
    BY <1>2 DEF Engine, Exited
  <1>4. Present(engine, e)
    BY DEF Exit, Present
  <1>5. \A f \in Engines : ~Present(Exited(e), f)
    BY <1>3, <1>4 DEF Sole, OneOf, Present
  <1>6. OneOf(Exited(e), None)
    BY <1>5 DEF OneOf
  <1>7. QED
    BY <1>1, <1>3, <1>6, GoneOnIsSole

LEMMA QuietIsSole ==
    ASSUME ClientInv, Sole, Quiet
    PROVE  Sole'
  <1> SUFFICES ASSUME ExitIsPrompt PROVE OneOf(engine, proc)'
    BY DEF Sole
  <1>1. OneOf(engine, proc)
    BY DEF Sole
  <1>2. \A e, f \in Engines : Present(engine', e) /\ Present(engine', f) => e = f
    BY <1>1 DEF OneOf, Quiet
  <1>3. \A e \in Engines : Present(engine', e) /\ engine'[e].told = "no" => proc' = e
    BY <1>1 DEF OneOf, Quiet
  <1>4. QED
    BY <1>2, <1>3 DEF OneOf

LEMMA SoleHolds ==
    ASSUME ClientInv, Sole, [Next]_vars
    PROVE  Sole'
  <1>1. CASE Quietly
    BY <1>1, QuietIsSole DEF Quietly
  <1>2. CASE ~ExitIsPrompt
    BY <1>2 DEF Sole
  <1>3. CASE ExitIsPrompt /\ ~Quietly
    BY <1>3, EventHolds, ForceTimerIsSole, AnalyzeIsSole, ExitIsSole
  <1>4. QED
    BY <1>1, <1>2, <1>3

\* Where an engine that was told to end is gone before the next is spawned, the
\* service never loses one that it would have to stop.
THEOREM NoEngineIsLost ==
    ASSUME ExitIsPrompt PROVE Spec => []NoOrphan
  <1>1. Init => Sole
    BY DEF Init, Sole, OneOf, Present, Unborn
  <1>2. ClientInv /\ Sole /\ [Next]_vars => Sole'
    BY SoleHolds
  <1>3. Spec => []Sole
    BY <1>1, <1>2, ClientInvariant, PTL DEF Spec
  <1>4. Sole => NoOrphan
    BY DEF Sole, OneOf, NoOrphan, Alive, Present
  <1>5. QED
    BY <1>3, <1>4, PTL

\* analyze() resolves with an answer for every turn asked, for any number of
\* overlapping calls and engines.
THEOREM ResolvedIsComplete == Spec => []AnswersComplete
  <1>1. ClientInv => AnswersComplete
    BY DEF ClientInv, CallsOK, CallOK, AnswersComplete
  <1>2. QED
    BY <1>1, ClientInvariant, PTL
=============================================================================
