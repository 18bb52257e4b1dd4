--------------------------- MODULE MCCoreJobQueue ---------------------------
(* Instances of CoreJobQueue for TLC.                                      *)
EXTENDS CoreJobQueue, TLC

\* The type of the higher priority runs one job at a time; type 3 is unknown.
Narrow == 1 :> 2 @@ 2 :> 1
=============================================================================
