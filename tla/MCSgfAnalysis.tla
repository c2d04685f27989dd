--------------------------- MODULE MCSgfAnalysis ---------------------------
(***************************************************************************)
(* Instances of SgfAnalysis for TLC: trees of three nodes with every kind  *)
(* of move, on boards of every kind the parser tells apart, and payloads   *)
(* with and without options.                                               *)
(***************************************************************************)
EXTENDS SgfAnalysis, FiniteSets, TLC

CONSTANT Foreign   \* what a body may hold under a key that is no option

Nobody == [B |-> Undefined, W |-> Undefined]
Plays == {Nobody,
          [Nobody EXCEPT !.B = <<0, 0>>],
          [Nobody EXCEPT !.W = <<8, 8>>],
          [Nobody EXCEPT !.B = <<19, 19>>],
          [B |-> <<-1, -1>>, W |-> <<7, 1>>]}

\* A game, and two with a variation at the first move.
Trees == {<<<<2>>, <<3>>, <<>>>>, <<<<2, 3>>, <<>>, <<>>>>, <<<<3, 2>>, <<>>, <<>>>>}

Plain == [komi |-> Undefined, rules |-> Undefined, B |-> <<>>, W |-> <<>>]
Handicap == [komi |-> 650, rules |-> " Stone Scoring", B |-> <<<<3, 3>>, <<8, 2>>>>, W |-> <<<<0, 4>>>>]
NoKomi == [Plain EXCEPT !.komi = Null]

MCTidied == (" Stone Scoring" :> "stone-scoring")

Doc(root, tree, play, size, head) ==
    [root |-> root, kids |-> tree, play |-> play, size |-> size] @@ head

MCDocs ==
    {Doc(1, t, p, s, h) : t \in Trees, p \in [1 .. 3 -> Plays],
                          s \in {Undefined, <<9, 13>>, <<21, 21>>}, h \in {Plain, Handicap}}
    \cup {Doc(1, <<<<>>>>, <<Nobody>>, s, h) : s \in {Undefined, <<9, 0>>}, h \in {Plain, NoKomi}}
    \cup {Doc(None, <<>>, <<>>, Undefined, Plain)}

MCBodies ==
    LET keys == {"sgf", "id", "moves", "analyzeTurns", "rules", "komi", "maxVisits"}
        bare == [k \in keys |-> IF k = "sgf" THEN Foreign ELSE Undefined]
    IN {bare,
        [bare EXCEPT !.analyzeTurns = {0, 2}, !.maxVisits = 50],
        [bare EXCEPT !.analyzeTurns = {}, !.komi = 0],
        [bare EXCEPT !.analyzeTurns = Null, !.rules = Null, !.id = Foreign, !.moves = Foreign]}

ASSUME MCDocsAreGames == \A d \in MCDocs : IsTree(d) /\ IsLegal(d)

MCLead == <<3, 6, -6, 5>>
MCInfos == <<1, 0, 2>>
=============================================================================
