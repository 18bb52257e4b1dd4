---------------------------- MODULE MCJobQueue ----------------------------
(* Two workers, a type with limit 1 below one without a limit in reach,    *)
(* and a special type.                                                     *)
EXTENDS JobQueue, TLC

MCTypes == {1, 2, 3}
MCLimit == (1 :> 1) @@ (2 :> 2) @@ (3 :> 0)
===========================================================================
