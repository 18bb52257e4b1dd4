--------------------------- MODULE MCTaggedCache ----------------------------
(***************************************************************************)
(* The cache over the pointers, and the pointers by themselves.            *)
(***************************************************************************)
EXTENDS TaggedCache

CONSTANT Loose   \* the handles of the pointers by themselves

VARIABLE scene   \* which of the two

mcVars == <<vars, scene>>

MCInit == CacheInit /\ scene \in {"cache", "pointers"}

MCNext ==
    \/ scene = "cache" /\ CacheNext /\ UNCHANGED scene
    \/ /\ scene = "pointers" /\ RefNext
       /\ \A h \in Handles \ Loose : at'[h] = Null
       /\ UNCHANGED <<cacheVars, scene>>

\* A thread that runs a destructor or waits for one goes on.
Finish(h) ==
    /\ at[h].st \in {"partial", "weakPartial", "await", "destroy"}
    /\ GoOn(h) /\ UNCHANGED scene

MCSpec == MCInit /\ [][MCNext]_mcVars /\ \A h \in Handles : WF_mcVars(Finish(h))
=============================================================================
