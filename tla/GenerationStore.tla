--------------------------- MODULE GenerationStore ---------------------------
(***************************************************************************)
(* What a node store with two generations promises, without backends,      *)
(* threads or directories.  Objects are put into the fresh generation; a   *)
(* rotation makes it the old one and drops the one before.  What a         *)
(* rotation pins, the state of the ledger it was made for, can be read     *)
(* until the server ends; what of it was safe when the rotation was noted  *)
(* can be read after that, too.                                            *)
(***************************************************************************)
CONSTANT Objects

VARIABLES
    fresh,      \* the generation that is written
    freshSafe,  \* what of it outlives the server
    old,        \* the one before it
    oldSafe,
    pinned,     \* what the last rotation had to keep
    noted,      \* what of it was safe when that was noted
    known       \* whether the two generations are the ones that are noted

vars == <<fresh, freshSafe, old, oldSafe, pinned, noted, known>>

Stored == fresh \cup old

Init ==
    /\ fresh \in SUBSET Objects /\ freshSafe = fresh
    /\ old \in SUBSET Objects /\ oldSafe = old
    /\ pinned = {} /\ noted = {} /\ known = TRUE

\* Objects are put into the fresh generation, late ones into the old, and
\* more of both becomes safe.
Put(X, Y) ==
    /\ fresh' = fresh \cup X /\ freshSafe \subseteq freshSafe' /\ freshSafe' \subseteq fresh'
    /\ old' = old \cup Y /\ oldSafe \subseteq oldSafe' /\ oldSafe' \subseteq old'
    /\ UNCHANGED <<pinned, noted, known>>

\* Only the old generation is dropped; what must stay is fresh by now.  The
\* two generations are not the noted ones then, or nothing of them is.
Rotate(K) ==
    /\ K \subseteq fresh
    /\ old' = fresh /\ oldSafe' = freshSafe /\ fresh' = {} /\ freshSafe' = {}
    /\ pinned' = K /\ known' \in BOOLEAN /\ (known' => noted = {}) /\ UNCHANGED noted

Note ==
    /\ noted' = pinned \cap (freshSafe \cup oldSafe) /\ known' = TRUE
    /\ UNCHANGED <<fresh, freshSafe, old, oldSafe, pinned>>

\* A rotation that could not be noted: the store may come back without it.
Forget == noted' = {} /\ UNCHANGED <<fresh, freshSafe, old, oldSafe, pinned, known>>

\* The server comes back with the generations that are noted.  If they are
\* the ones it had, it has lost exactly what was not safe.
Recover ==
    /\ fresh' \in SUBSET Objects /\ freshSafe' = fresh'
    /\ old' \in SUBSET Objects /\ oldSafe' = old'
    /\ known => fresh' = freshSafe /\ old' = oldSafe
    /\ noted \subseteq fresh' \cup old' /\ pinned' = noted /\ known' = TRUE
    /\ UNCHANGED noted

Next == \/ \E X, Y \in SUBSET Objects : Put(X, Y)
        \/ \E K \in SUBSET Objects : Rotate(K)
        \/ Note \/ Forget \/ Recover

Spec == Init /\ [][Next]_vars
-----------------------------------------------------------------------------
\* The ledger of the last rotation can be read in full; after a restart,
\* what of it was safe when that rotation was noted.
PinnedIsStored == pinned \subseteq Stored

\* And that would survive the end of the server now.
NotedIsSafe == known => noted \subseteq freshSafe \cup oldSafe
=============================================================================
