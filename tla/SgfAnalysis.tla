---------------------------- MODULE SgfAnalysis ----------------------------
(***************************************************************************)
(* The data an SgfAnalyzeJob moves: SgfParserService reads the main line,  *)
(* buildKatagoQuery makes the query of the game and the options of the     *)
(* request, the engine answers the turns, and the client hands its answers *)
(* sorted by turn to KatagoResultMapper, which makes a result per move.    *)
(* A letter of a coordinate is its character code; scoreLead is in         *)
(* hundredths and stands for winrate too.  @sabaki/sgf and KataGo are      *)
(* modelled from how they are used: a tree of nodes with properties; one   *)
(* answer per turn, or an error for a turn the game does not have.         *)
(***************************************************************************)
EXTENDS Integers, Sequences, SequencesExt, FiniteSets

CONSTANTS
    Undefined, Null,   \* of JavaScript
    None,              \* no node
    Docs,              \* what sgf.parse may return
    Bodies,            \* job payloads: [key -> value or Undefined]
    JobId,             \* `job-${job.id}`
    Tidied,            \* rules as written -> trimmed, lower case, with dashes
    Lead,              \* KataGo's scoreLead after turn 0, 1, ...
    Infos,             \* the `order` of its moveInfos, as they come
    Limit              \* alternativesLimit (10)

\* KataGo numbers its moveInfos from the best on: 0, 1, ...
ASSUME SgfAssumption ==
    /\ Undefined # Null /\ Limit \in Nat
    /\ Lead \in Seq(Int)
    /\ Infos \in Seq(Nat) /\ ToSet(Infos) = 0 .. Len(Infos) - 1

VARIABLES
    stage, doc, body, \* how far handle() is; its input
    game, node,       \* ParsedSgf so far, the node parseMainLineMoves is at
    query, answered,  \* the query sent; the turns in the client's results
    result            \* the moves stored

vars == <<stage, doc, body, game, node, query, answered, result>>

Init ==
    /\ stage = "root" /\ doc \in Docs /\ body \in Bodies
    /\ game = None /\ node = None /\ query = None /\ answered = {} /\ result = <<>>

-----------------------------------------------------------------------------
(* Coordinates.  parseVertex gives <<-1, -1>> for what it cannot read; here *)
(* the empty coordinate of a pass has that value too, and "tt" is <<19, 19>>. *)

Pass == <<>>
A == 65

Column(x) == IF x >= 8 THEN A + x + 1 ELSE A + x

VertexToGtp(v, ySize) == <<Column(v[1]), ySize - v[2]>>

SgfCoordToGtp(v, xSize, ySize) ==
    IF \/ v = <<19, 19>> /\ xSize <= 19 /\ ySize <= 19
       \/ v[1] < 0 \/ v[2] < 0
    THEN Pass ELSE VertexToGtp(v, ySize)

-----------------------------------------------------------------------------
(* SgfParserService.parse                                                  *)

\* 0 is a size that is no number, Null a komi that is none.
Size(d) == IF d.size = Undefined THEN <<19, 19>> ELSE d.size
BoardSize == Size(doc)
Komi == IF doc.komi = Undefined THEN 0 ELSE doc.komi
Rules == IF doc.rules = Undefined THEN "japanese" ELSE Tidied[doc.rules]

InitialStones ==
    LET stones(c) == [i \in DOMAIN doc[c] |-> <<c, VertexToGtp(doc[c][i], BoardSize[2])>>]
    IN stones("B") \o stones("W")

\* No move, or one; B comes first.
ExtractMove(n) ==
    LET move(c) == <<c, SgfCoordToGtp(doc.play[n][c], BoardSize[1], BoardSize[2])>>
        colours == {c \in {"B", "W"} : doc.play[n][c] # Undefined}
    IN IF colours = {} THEN <<>> ELSE <<move(IF "B" \in colours THEN "B" ELSE "W")>>

Readable == doc.root # None /\ 0 \notin {BoardSize[1], BoardSize[2]} /\ Komi # Null

ReadRoot ==
    /\ stage = "root" /\ Readable
    /\ stage' = "moves"
    /\ game' = [size |-> BoardSize, komi |-> Komi, rules |-> Rules,
                initialStones |-> InitialStones, moves |-> <<>>]
    /\ node' = doc.root
    /\ UNCHANGED <<doc, body, query, answered, result>>

Unreadable ==
    /\ stage = "root" /\ ~Readable
    /\ stage' = "failed"
    /\ UNCHANGED <<doc, body, game, node, query, answered, result>>

\* One turn of the loop in parseMainLineMoves.
VisitNode ==
    /\ stage = "moves" /\ node # None
    /\ game' = [game EXCEPT !.moves = @ \o ExtractMove(node)]
    /\ node' = IF doc.kids[node] = <<>> THEN None ELSE Head(doc.kids[node])
    /\ UNCHANGED <<stage, doc, body, query, answered, result>>

-----------------------------------------------------------------------------
(* pickKatagoOptions and buildKatagoQuery                                  *)

\* FAULTY: whatever the body has.
AnyKey == {"sgf", "id", "moves", "analyzeTurns", "rules", "komi", "maxVisits"}

\* KATAGO_OPTION_KEYS; maxVisits stands for all that are passed on as they are.
KatagoOptionKeys == {"analyzeTurns", "rules", "komi", "maxVisits"}

Picked == {k \in KatagoOptionKeys \cap DOMAIN body : body[k] # Undefined}

\* options[k] ?? own
Override(k, own) == IF k \in Picked /\ body[k] # Null THEN body[k] ELSE own

BuiltQuery ==
    LET stones == IF game.initialStones = <<>> THEN {} ELSE {"initialStones"}
        base == [id |-> JobId, moves |-> game.moves, size |-> game.size,
                 initialStones |-> game.initialStones,
                 rules |-> Override("rules", game.rules),
                 komi |-> Override("komi", game.komi),
                 analyzeTurns |-> Override("analyzeTurns", 0 .. Len(game.moves))]
        rest == Picked \ {"rules", "komi", "analyzeTurns"}
    IN [k \in (DOMAIN base \ {"initialStones"}) \cup stones \cup rest |->
          IF k \in rest THEN body[k] ELSE base[k]]

BuildQuery ==
    /\ stage = "moves" /\ node = None
    /\ query' = BuiltQuery
    /\ stage' = "engine"
    /\ UNCHANGED <<doc, body, game, node, answered, result>>

-----------------------------------------------------------------------------
(* The engine, and the client's results: sorted by turn                    *)

\* S in ascending order of keys that are all different.
SortedBy(S, key) ==
    CHOOSE s \in [1 .. Cardinality(S) -> S] :
      \A i, j \in DOMAIN s : i < j => key[s[i]] < key[s[j]]

Turns == query.analyzeTurns

EngineAnswers(t) ==
    /\ stage = "engine"
    /\ Turns \subseteq 0 .. Len(query.moves) /\ t \in Turns \ answered
    /\ answered' = answered \cup {t}
    /\ UNCHANGED <<stage, doc, body, game, node, query, result>>

\* An error or a timeout; without turns nothing else can come.
EngineFails ==
    /\ stage = "engine" /\ (Turns # answered \/ Turns = {})
    /\ stage' = "failed"
    /\ UNCHANGED <<doc, body, game, node, query, answered, result>>

TurnResponses ==
    LET turns == SortedBy(answered, [t \in answered |-> t])
    IN [i \in DOMAIN turns |->
          [turnNumber |-> turns[i], scoreLead |-> Lead[turns[i] + 1],
           moveInfos |-> [k \in DOMAIN Infos |-> [turn |-> turns[i], order |-> Infos[k]]]]]

-----------------------------------------------------------------------------
(* KatagoResultMapper.mapMoves                                             *)

\* FAULTY: the answers have no gaps.
ByIndex(t) == IF t + 1 \in DOMAIN TurnResponses THEN {TurnResponses[t + 1]} ELSE {}

\* byTurn.get(t), if there is one.
ByTurn(t) == {r \in ToSet(TurnResponses) : r.turnNumber = t}

LeaderFromScoreLead(lead) == IF lead > 5 THEN "B" ELSE IF lead < -5 THEN "W" ELSE "even"

Alternatives(i) ==
    LET source == IF ByTurn(i - 1) # {} THEN ByTurn(i - 1) ELSE ByTurn(i)
        infos == UNION {ToSet(r.moveInfos) : r \in source}
        sorted == SortedBy(infos, [m \in infos |-> m.order])
    IN SubSeq(sorted, 1, IF Len(sorted) < Limit THEN Len(sorted) ELSE Limit)

MapMove(i) ==
    LET lead == IF ByTurn(i) = {} THEN 0 ELSE (CHOOSE r \in ByTurn(i) : TRUE).scoreLead
    IN [turnNumber |-> i, move |-> game.moves[i], scoreLead |-> lead,
        leader |-> LeaderFromScoreLead(lead), alternatives |-> Alternatives(i)]

\* The last answer is in: handle() maps and stores.
Store ==
    /\ stage = "engine" /\ Turns # {} /\ Turns = answered
    /\ result' = [i \in DOMAIN game.moves |-> MapMove(i)]
    /\ stage' = "stored"
    /\ UNCHANGED <<doc, body, game, node, query, answered>>

-----------------------------------------------------------------------------
Over == stage \in {"stored", "failed"} /\ UNCHANGED vars

Next ==
    \/ ReadRoot \/ Unreadable \/ VisitNode \/ BuildQuery
    \/ (\E t \in 0 .. Len(Lead) - 1 : EngineAnswers(t)) \/ EngineFails
    \/ Store \/ Over

Spec == Init /\ [][Next]_vars

-----------------------------------------------------------------------------
(* What the properties are about: a tree, its nodes numbered from the root *)
(* down, of moves that are points of a board GTP can name, or passes.      *)

IsTree(d) ==
    /\ d.kids \in Seq(Seq(Nat)) /\ None \notin DOMAIN d.kids
    /\ d.root \in DOMAIN d.kids \cup {None}
    /\ \A n \in DOMAIN d.kids : \A k \in DOMAIN d.kids[n] :
         d.kids[n][k] \in n + 1 .. Len(d.kids)

IsLegal(d) ==
    LET x == Size(d)[1]
        y == Size(d)[2]
        passes == {<<-1, -1>>} \cup (IF x <= 19 /\ y <= 19 THEN {<<19, 19>>} ELSE {})
    IN /\ x \in 0 .. 25 /\ y \in 0 .. 25
       /\ \A n \in DOMAIN d.kids, c \in {"B", "W"} :
            d.play[n][c] # Undefined =>
              d.play[n][c] \in passes \cup ((0 .. x - 1) \X (0 .. y - 1))

-----------------------------------------------------------------------------
(* Properties                                                              *)

\* A game as GTP writes it: the letters A to Z without I for the columns, rows
\* counted from below, a coordinate that is no point of the board a pass.
GtpLetters == <<65, 66, 67, 68, 69, 70, 71, 72, 74, 75, 76, 77, 78,
                79, 80, 81, 82, 83, 84, 85, 86, 87, 88, 89, 90>>
OnBoard(v) == v[1] \in 0 .. BoardSize[1] - 1 /\ v[2] \in 0 .. BoardSize[2] - 1
Gtp(v) == IF OnBoard(v) THEN <<GtpLetters[v[1] + 1], BoardSize[2] - v[2]>> ELSE Pass

\* The nodes on the path of first children, which is the game that was played,
\* and the moves of it that are still to come at n.
MainLine[n \in DOMAIN doc.kids \cup {None}] ==
    IF n = None THEN <<>>
    ELSE LET c == IF doc.play[n].B = Undefined THEN "W" ELSE "B"
             here == IF doc.play[n][c] = Undefined THEN <<>> ELSE <<<<c, Gtp(doc.play[n][c])>>>>
         IN here \o MainLine[IF doc.kids[n] = <<>> THEN None ELSE Head(doc.kids[n])]

\* The engine is asked about the game in the SGF: its main line alone, in GTP's
\* coordinates, under the job's own id, and by default about every position of
\* it - whatever other keys the request's body had.
QueryIsOfTheGame ==
    stage \in {"engine", "stored"} =>
        /\ query.id = JobId /\ query.size = BoardSize
        /\ query.moves = MainLine[doc.root]
        /\ body.analyzeTurns \in {Undefined, Null} => Turns = 0 .. Len(MainLine[doc.root])

\* Each stored move has the lead after that move and the best alternatives of
\* the position before it, best first, when those turns were analysed - also if
\* other turns were left out.
EachMoveHasItsOwnTurn ==
    stage = "stored" =>
        /\ DOMAIN result = DOMAIN MainLine[doc.root]
        /\ \A i \in DOMAIN result :
             LET r == result[i]
                 count == IF Limit < Len(Infos) THEN Limit ELSE Len(Infos)
             IN /\ r.turnNumber = i /\ r.move = MainLine[doc.root][i]
                /\ i \in Turns => r.scoreLead = Lead[i + 1]
                /\ r.leader = "B" => r.scoreLead > 0
                /\ r.leader = "W" => r.scoreLead < 0
                /\ i - 1 \in Turns =>
                     r.alternatives = [k \in 1 .. count |-> [turn |-> i - 1, order |-> k - 1]]
=============================================================================
