--------------------------- MODULE MCOnlineDelete ----------------------------
(***************************************************************************)
(* Online deletion of three ledgers beside one other thread.  A behaviour  *)
(* belongs to one of four scenes: the other thread fetches; it stores and  *)
(* syncs; it exports; or the operator changes the policy both ways and the *)
(* store may be stopped.  Crashes happen in all of them.  At first the     *)
(* node is in the archive, except where it is stored.                      *)
(***************************************************************************)
EXTENDS OnlineDelete

CONSTANTS x, Other
VARIABLE scene

\* The node x is in the state of the first ledger, and again of the third.
Ledgers == <<{x}, {}, {x}>>
Never == 0
Always == 3
Both == {Never, Always}

\* NuDB with a burst that one write does not fill, NuDB that commits every
\* write, and RocksDB.
NuDBBurst == [kind |-> "NuDB", limit |-> 2]
NuDBOne == [kind |-> "NuDB", limit |-> 1]
RocksDB == [kind |-> "RocksDB", limit |-> 1]
Kinds == {NuDBBurst, NuDBOne, RocksDB}

Scenes == [fetch |-> {NuDBBurst, RocksDB}, store |-> Kinds, export |-> {NuDBBurst, RocksDB},
           manage |-> {NuDBBurst}]

In(s, pcs) == op'[Other].pc \in pcs => scene = s
Synced == NuDB /\ mode' = mode /\ op' = op /\ burst' # burst

MCInit ==
    /\ OdInit /\ scene \in DOMAIN Scenes /\ backend \in Scenes[scene]
    /\ disk[0] = {} /\ disk[1] = (IF scene = "store" THEN {} ELSE {x})
    /\ scene # "manage" => can.store = Always
MCNext ==
    /\ OdNext /\ UNCHANGED scene
    /\ In("fetch", {"fetchW"}) /\ In("store", {"storeWait", "batchWait"})
    /\ In("export", {"exporting"}) /\ (Synced => scene = "store")
    /\ scene # "manage" => stop' = "no" /\ (mode = mode' => can' = can)

MCSpec == MCInit /\ [][MCNext]_<<odVars, scene>> /\ Fairness
=============================================================================
