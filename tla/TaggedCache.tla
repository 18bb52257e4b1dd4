---------------------------- MODULE TaggedCache -----------------------------
(***************************************************************************)
(* TaggedCache over SharedWeakUnion entries and SharedIntrusive clients,   *)
(* as TreeNodeCache instantiates it.  The operations run under the mutex   *)
(* of the cache; the clients clone and drop their pointers beside them.    *)
(* Every step makes at most one access to a reference count, a step of     *)
(* RefCounts; a temporary that a section clones and drops again beside the *)
(* pointer it came from is left out.  Times of last access are abstracted: *)
(* any strong entry may be due when a sweep reaches it.                    *)
(***************************************************************************)
EXTENDS RefCounts, Sequences, Functions

CONSTANTS Keys, NoKey

VARIABLES
    keyOf,    \* the key each object was built for, its content's hash
    slot,     \* cache: the handle of each key's entry
    count,    \* cache_count
    op,       \* the operation that holds the mutex
    swept,    \* swept_pointers: removed by a sweep, dropped after the unlock
    handed    \* history: the objects given out and not displaced since

cacheVars == <<keyOf, slot, count, op, swept, handed>>
vars == <<refVars, cacheVars>>

\* checking: lock() runs on the entry; dropping: the pointers replaced or removed are
\* dropped, still under the mutex.
Idle == [name |-> "idle"]
Dropping(hs) == IF hs = <<>> THEN Idle ELSE [name |-> "dropping", hs |-> hs]

CacheInit ==
    /\ Init
    /\ keyOf = [o \in Objects |-> NoKey]
    /\ slot = [k \in Keys |-> NoHandle] /\ count = 0
    /\ op = Idle /\ swept = {} /\ handed = {}

Has(k) == slot[k] # NoHandle
Entries == {slot[k] : k \in {j \in Keys : Has(j)}}
OpHandles ==
    CASE op.name = "dropping" -> {op.hs[i] : i \in DOMAIN op.hs}
      [] op.name = "checking" -> {op.data, op.got}
      [] OTHER -> {}
Client(h) == h \notin Entries \cup OpHandles \cup swept
Holds(h, k) == Client(h) /\ Is(h, "strong") /\ keyOf[at[h].obj] = k

\* Handles and allocations are interchangeable: a new one is any that is free.
FreeHandles == {h \in Handles : Is(h, "null") /\ Client(h)}
Fresh == CHOOSE h \in FreeHandles : TRUE
Another == FreeHandles # {}
FreeObjects == {o \in Objects : life[o] = "freed"}

Decrement(n, by) == IF n > by THEN n - by ELSE 0   \* saturating_sub
-----------------------------------------------------------------------------
\* The clients: a node built for k; clone; drop.
NewNode(k) ==
    /\ Another /\ FreeObjects # {}
    /\ \E o \in {CHOOSE p \in FreeObjects : TRUE} :
         Create(Fresh, o) /\ keyOf' = [keyOf EXCEPT ![o] = k]
    /\ UNCHANGED <<slot, count, op, swept, handed>>
ShareNode(h) == Another /\ Client(h) /\ Clone(h, Fresh) /\ UNCHANGED cacheVars
DropNode(h) == Client(h) /\ StartDrop(h) /\ UNCHANGED cacheVars

\* fetch, and canonicalize_with that keeps the cached value, of a strong entry; the
\* client's own value, if it gave one, is dropped for it.
FetchHit(k) ==
    /\ op = Idle /\ Has(k) /\ Is(slot[k], "strong") /\ Another
    /\ Clone(slot[k], Fresh)
    /\ handed' = handed \cup {at[slot[k]].obj}
    /\ \/ op' = Idle
       \/ \E d \in Handles : Holds(d, k) /\ op' = Dropping(<<d>>)
    /\ UNCHANGED <<keyOf, slot, count, swept>>

\* Either of them on a weak entry: lock() first.
Check(k, d) ==
    /\ op = Idle /\ Has(k) /\ Is(slot[k], "weak") /\ Another
    /\ d \in Handles => Holds(d, k)
    /\ StartLock(slot[k], Fresh)
    /\ op' = [name |-> "checking", key |-> k, data |-> d, got |-> Fresh]
    /\ UNCHANGED <<keyOf, slot, count, swept, handed>>

\* Mutated form: an entry that becomes strong is not counted.
MutEnter(k, src, hs) ==
    /\ Another /\ Clone(src, Fresh)
    /\ slot' = [slot EXCEPT ![k] = Fresh]
    /\ count' = IF Has(k) THEN count ELSE count + 1
    /\ handed' = handed \cup {at[src].obj}
    /\ op' = Dropping(hs)
    /\ UNCHANGED <<keyOf, swept>>

\* set_strong(src.clone()) on an entry that is not strong; hs is what is dropped then.
Enter(k, src, hs) ==
    /\ Another /\ Clone(src, Fresh)
    /\ slot' = [slot EXCEPT ![k] = Fresh] /\ count' = count + 1
    /\ handed' = handed \cup {at[src].obj}
    /\ op' = Dropping(hs)
    /\ UNCHANGED <<keyOf, swept>>

\* lock() returned a pointer: fetch and canonicalize_replace_client make the entry
\* strong again with it, canonicalize_replace_cache with the client's value.
Revive ==
    /\ op.name = "checking" /\ Is(op.got, "strong")
    /\ \/ Enter(op.key, op.got,
                <<slot[op.key]>> \o (IF op.data = NoHandle THEN <<>> ELSE <<op.data>>))
       \/ /\ op.data # NoHandle
          /\ Another /\ Clone(op.data, Fresh)
          /\ slot' = [slot EXCEPT ![op.key] = Fresh] /\ count' = count + 1
          /\ handed' = (handed \ {at[op.got].obj}) \cup {at[op.data].obj}
          /\ op' = Dropping(<<slot[op.key], op.got>>)
          /\ UNCHANGED <<keyOf, swept>>

\* lock() returned nothing: fetch removes the entry, canonicalize_with takes the
\* client's value.
Expire ==
    /\ op.name = "checking" /\ Is(op.got, "null")
    /\ \/ /\ op.data = NoHandle
          /\ slot' = [slot EXCEPT ![op.key] = NoHandle]
          /\ op' = Dropping(<<slot[op.key]>>)
          /\ UNCHANGED <<refVars, keyOf, count, swept, handed>>
       \/ op.data # NoHandle /\ Enter(op.key, op.data, <<slot[op.key]>>)

\* canonicalize_with or fetch_with of a key without an entry.
Insert(k, d) == op = Idle /\ ~Has(k) /\ Holds(d, k) /\ Enter(k, d, <<>>)

\* canonicalize_replace_cache of a strong entry.
Replace(k, d) ==
    /\ op = Idle /\ Has(k) /\ Is(slot[k], "strong") /\ Holds(d, k)
    /\ Another /\ Clone(d, Fresh)
    /\ slot' = [slot EXCEPT ![k] = Fresh]
    /\ handed' = (handed \ {at[slot[k]].obj}) \cup {at[d].obj}
    /\ op' = Dropping(<<slot[k]>>)
    /\ UNCHANGED <<keyOf, count, swept>>

\* The drop of the first pointer in line, and its end.
Release(h) == (Is(h, "strong") /\ StartDrop(h)) \/ (Is(h, "weak") /\ DropWeak(h))
DropHeld ==
    /\ op.name = "dropping"
    /\ \/ Release(Head(op.hs)) /\ UNCHANGED cacheVars
       \/ /\ Is(Head(op.hs), "null") /\ op' = Dropping(Tail(op.hs))
          /\ UNCHANGED <<refVars, keyOf, slot, count, swept, handed>>

\* Mutated form: a value is removed although a client holds it.
MutSole(k) == Word(slot[k]).strong <= 2

\* use_count() == 1: nobody but the cache holds the value.
Sole(k) == Word(slot[k]).strong = 1

\* sweep, entry by entry: an expired weak one goes; a strong one that is due goes if
\* nobody else holds its value and otherwise becomes weak.
StartSweep ==
    /\ op = Idle
    /\ op' = [name |-> "sweep", todo |-> {k \in Keys : Has(k)}, gone |-> {}, removals |-> 0]
    /\ UNCHANGED <<refVars, keyOf, slot, count, swept, handed>>
Settled == \A h \in Entries : at[h].st \in {"strong", "weak"}
Leave(k, gone, removals) ==
    op' = [op EXCEPT !.todo = @ \ {k}, !.gone = @ \cup gone, !.removals = @ + removals]
SweepKey(k) ==
    /\ op.name = "sweep" /\ k \in op.todo /\ Settled
    /\ \/ /\ Is(slot[k], "weak")
          /\ Leave(k, IF Word(slot[k]).strong = 0 THEN {k} ELSE {}, 0)
          /\ UNCHANGED refVars
       \/ Is(slot[k], "strong") /\ Leave(k, {}, 0) /\ UNCHANGED refVars
       \/ /\ Is(slot[k], "strong") /\ Sole(k)
          /\ Leave(k, {k}, 1) /\ UNCHANGED refVars
       \/ /\ Is(slot[k], "strong") /\ ~Sole(k)
          /\ Leave(k, {}, 1) /\ StartWeaken(slot[k])
    /\ UNCHANGED <<keyOf, slot, count, swept, handed>>
EndSweep ==
    /\ op.name = "sweep" /\ op.todo = {} /\ Settled
    /\ slot' = [k \in Keys |-> IF k \in op.gone THEN NoHandle ELSE slot[k]]
    /\ swept' = swept \cup {slot[k] : k \in op.gone}
    /\ count' = Decrement(count, op.removals)
    /\ op' = Idle
    /\ UNCHANGED <<refVars, keyOf, handed>>
DropSwept(h) ==
    /\ h \in swept
    /\ \/ Release(h) /\ UNCHANGED cacheVars
       \/ /\ Is(h, "null") /\ swept' = swept \ {h}
          /\ UNCHANGED <<refVars, keyOf, slot, count, op, handed>>

\* del(key, valid): the entry becomes weak, and goes if it is not valid or expired.
StartDel(k, valid) ==
    /\ op = Idle /\ Has(k)
    /\ op' = [name |-> "del", key |-> k, valid |-> valid, strong |-> Is(slot[k], "strong")]
    /\ IF Is(slot[k], "strong") THEN StartWeaken(slot[k]) ELSE UNCHANGED refVars
    /\ handed' = IF valid THEN handed ELSE handed \ {at[slot[k]].obj}
    /\ UNCHANGED <<keyOf, slot, count, swept>>
EndDel ==
    /\ op.name = "del" /\ Settled
    /\ count' = IF op.strong THEN Decrement(count, 1) ELSE count
    /\ IF ~op.valid \/ Word(slot[op.key]).strong = 0
         THEN slot' = [slot EXCEPT ![op.key] = NoHandle] /\ op' = Dropping(<<slot[op.key]>>)
         ELSE slot' = slot /\ op' = Idle
    /\ UNCHANGED <<refVars, keyOf, swept, handed>>

\* clear and reset: the entries are dropped under the mutex.
Clear ==
    /\ op = Idle
    /\ slot' = [k \in Keys |-> NoHandle] /\ count' = 0
    /\ \E hs \in Bijection(1..Cardinality(Entries), Entries) : op' = Dropping(hs)
    /\ handed' = handed \ {at[h].obj : h \in Entries}
    /\ UNCHANGED <<refVars, keyOf, swept>>

\* A loop or a destructor goes on, whoever's pointer it is.
GoOn(h) ==
    /\ Continue(h)
    /\ handed' = {o \in handed : life'[o] # "freed"}
    /\ UNCHANGED <<keyOf, slot, count, op, swept>>

CacheNext ==
    \/ \E k \in Keys :
         \/ NewNode(k) \/ FetchHit(k) \/ SweepKey(k) \/ Check(k, NoHandle)
         \/ \E d \in Handles : Check(k, d) \/ Insert(k, d) \/ Replace(k, d)
         \/ \E valid \in BOOLEAN : StartDel(k, valid)
    \/ \E h \in Handles : ShareNode(h) \/ DropNode(h) \/ DropSwept(h) \/ GoOn(h)
    \/ Revive \/ Expire \/ DropHeld \/ StartSweep \/ EndSweep \/ EndDel \/ Clear

CacheSpec == CacheInit /\ [][CacheNext]_vars
-----------------------------------------------------------------------------
\* cache_count, kept by increments and saturating decrements in every operation, is
\* the number of strong entries whenever the mutex is free.
CountIsExact ==
    op = Idle => count = Cardinality({k \in Keys : Has(k) /\ Is(slot[k], "strong")})

\* A value given out and not displaced stays the cached one for as long as a client
\* keeps it, through sweeps, expiries and late canonicalisations: two clients never
\* work on two copies of one node.
CanonicalIsTracked ==
    \A o \in handed :
      (\E h \in StrongOf(o) : Client(h)) =>
         Has(keyOf[o]) /\ at[slot[keyOf[o]]].obj = o
=============================================================================
