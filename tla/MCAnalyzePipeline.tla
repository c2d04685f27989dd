------------------------- MODULE MCAnalyzePipeline --------------------------
(***************************************************************************)
(* Instances of AnalyzePipeline for TLC: one worker, or two in the run of  *)
(* reads, each with one call of tick() at a time; jobs of SgfAnalyzeJob    *)
(* and, in the run of clients that take turns, of TestJob.  "g" and "g "   *)
(* are one game with and without white space around it, "h" is another,    *)
(* " " is blank.                                                           *)
(***************************************************************************)
EXTENDS AnalyzePipeline, TLC

CONSTANTS t1, t2, w1, w2, c1

MCClasses == {"SgfAnalyzeJob"}
MCTries == "SgfAnalyzeJob" :> 1
MCBothClasses == {"SgfAnalyzeJob", "TestJob"}
MCBothTries == ("SgfAnalyzeJob" :> 1) @@ ("TestJob" :> 2)
MCOf == t1 :> w1
MCTwoOf == t1 :> w1 @@ t2 :> w2

\* Two workers, each with its call: both are exchanged together.
WorkerSymmetry == {[x \in {t1, t2, w1, w2} |-> x],
                   t1 :> t2 @@ t2 :> t1 @@ w1 :> w2 @@ w2 :> w1}

MCGames == {"g", "h"}
MCTexts == {"g", "g ", " "}
MCTrimGames == [s \in MCGames |-> s]
MCTrimTexts == ("g" :> "g") @@ ("g " :> "g") @@ (" " :> " ")
MCOneGame == {"g"}
MCTrimOneGame == "g" :> "g"
MCNoBlank == {}
MCBlank == {" "}

\* Single requests, and batches of two: one game twice, two games, a blank item.
MCRequests == {<<"g">>, <<"g", "h">>, <<"g", "g">>}
MCOneRequest == {<<"g">>}
MCSingle == {<<"g">>, <<"h">>}
MCSingleTexts == {<<"g">>, <<"g ">>, <<" ">>}
MCTextRequests == {<<"g">>, <<"g", " ">>, <<"g", "g">>}
=============================================================================
