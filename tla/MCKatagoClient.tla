--------------------------- MODULE MCKatagoClient ---------------------------
(***************************************************************************)
(* Instances of KatagoClient for TLC.  Two calls under way have two query  *)
(* ids; two turns are what an incomplete answer takes.                     *)
(***************************************************************************)
EXTENDS KatagoClient

CONSTANTS q1, q2, m1, m2

MCOneQuery == {q1}
MCQueries == {q1, q2}
MCTurns == {m1, m2}
=============================================================================
