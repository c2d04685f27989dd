--------------------------- MODULE MCQueueWorker ----------------------------
(***************************************************************************)
(* Instances of QueueWorker for TLC.  The classes are TestJob, which may be *)
(* tried more than once, SgfAnalyzeJob, which is tried once, and a class   *)
(* only an older or newer deployment knows.                                *)
(***************************************************************************)
EXTENDS QueueWorker, TLC

CONSTANTS t1, t2, w1, c1

MCRegistered == {"TestJob", "SgfAnalyzeJob"}
MCClasses == MCRegistered \cup {"Retired"}
MCTries == ("TestJob" :> 2) @@ ("SgfAnalyzeJob" :> 1) @@ ("Retired" :> 0)

\* One process whose tick() calls may overlap.
MCOneOf == (t1 :> w1) @@ (t2 :> w1)

TickSymmetry == Permutations({t1, t2})
=============================================================================
