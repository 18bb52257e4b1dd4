-------------------------- MODULE TaggedCacheProofs -------------------------
(***************************************************************************)
(* The cache over the reference counts, for any number of keys, handles    *)
(* and objects: each of its steps is a step of the counts or none, its     *)
(* nodes stay canonical and its count of strong entries stays exact.       *)
(***************************************************************************)
EXTENDS RefCountsProofs, TaggedCache

\* A leaf that names no prover is left to Zenon.
USE Zenon

Keyed == {k \in Keys : Has(k)}
StrongKeys == {k \in Keys : Has(k) /\ Is(slot[k], "strong")}
EntryObj(k) == at[slot[k]].obj

\* On the way out: the cache has let go of them and their drop is due.
Leaving == swept \cup IF op.name = "dropping" THEN OpHandles ELSE {}

Ops ==
    {Idle}
    \cup [name : {"dropping"}, hs : Seq(Handles) \ {<<>>}]
    \cup [name : {"checking"}, key : Keys, data : Handles \cup {NoHandle}, got : Handles]
    \cup [name : {"sweep"}, todo : SUBSET Keys, gone : SUBSET Keys, removals : Nat]
    \cup [name : {"del"}, key : Keys, valid : BOOLEAN, strong : BOOLEAN]

CacheTypeOK ==
    /\ keyOf \in [Objects -> Keys \cup {NoKey}]
    /\ slot \in [Keys -> Handles \cup {NoHandle}] /\ IsFiniteSet(Keyed)
    /\ count \in Nat /\ op \in Ops
    /\ swept \subseteq Handles /\ handed \subseteq Objects

\* A handle is the entry of one key, in line to be dropped, in the hands of lock(),
\* or a client's.
Apart ==
    /\ \A j, k \in Keyed : slot[j] = slot[k] => j = k
    /\ Entries \cap (OpHandles \cup swept) = {}
    /\ \A h \in Handles :
         /\ at[h].st \notin {"strengthening", "both"}
         /\ at[h].st = "locking" => op.name = "checking" /\ op.got = h
    /\ \A k \in Keyed :
         /\ at[slot[k]].st \in {"strong", "weak", "weakening", "weakPartial"}
         /\ keyOf[EntryObj(k)] = k

\* Only a sweep and del make an entry weak, and only after they have dealt with it.
Busy(k) ==
    \/ op.name = "sweep" /\ k \notin op.todo \cup op.gone
    \/ op.name = "del" /\ k = op.key
Converting ==
    \A k \in Keyed : at[slot[k]].st \in {"weakening", "weakPartial"} => Busy(k)

\* What the operation under way has still to take off cache_count.
Counted ==
    CASE op.name = "sweep" -> count = op.removals + Cardinality(StrongKeys \ op.gone)
      [] op.name = "del" -> count = Cardinality(StrongKeys) + IF op.strong THEN 1 ELSE 0
      [] OTHER -> count = Cardinality(StrongKeys)

OpOK ==
    /\ op.name = "checking" =>
         /\ Has(op.key) /\ Is(slot[op.key], "weak") /\ op.got \notin swept \cup {op.data}
         /\ \/ at[op.got].st \in {"locking", "strong"} /\ at[op.got].obj = EntryObj(op.key)
            \/ Is(op.got, "null") /\ StrongOf(EntryObj(op.key)) = {}
         /\ op.data # NoHandle =>
              /\ op.data \notin swept /\ Is(op.data, "strong")
              /\ keyOf[at[op.data].obj] = op.key
    /\ op.name = "sweep" =>
         /\ op.todo \subseteq Keyed /\ op.gone \subseteq Keyed /\ op.todo \cap op.gone = {}
         /\ \A k \in op.gone : StrongOf(EntryObj(k)) \subseteq {slot[k]}
    /\ op.name = "del" =>
         /\ Has(op.key) /\ ~Is(slot[op.key], "strong")
         /\ ~op.valid => EntryObj(op.key) \notin handed

Kept(o) == \E h \in StrongOf(o) : h \notin Leaving
Tracked ==
    \A o \in handed :
      /\ life[o] # "freed" /\ keyOf[o] \in Keys
      /\ Kept(o) => Has(keyOf[o]) /\ EntryObj(keyOf[o]) = o

CacheInv == CacheTypeOK /\ Apart /\ Converting /\ Counted /\ OpOK /\ Tracked
-----------------------------------------------------------------------------
LEMMA OpFields ==
  ASSUME CacheTypeOK
  PROVE  /\ op.name \in {"idle", "dropping", "checking", "sweep", "del"}
         /\ op.name = "idle" <=> op = Idle
         /\ op.name = "dropping" => op.hs \in Seq(Handles) /\ op.hs # <<>>
         /\ op.name = "checking" =>
              op.key \in Keys /\ op.data \in Handles \cup {NoHandle} /\ op.got \in Handles
         /\ op.name = "sweep" =>
              op.todo \subseteq Keys /\ op.gone \subseteq Keys /\ op.removals \in Nat
         /\ op.name = "del" =>
              op.key \in Keys /\ op.valid \in BOOLEAN /\ op.strong \in BOOLEAN
BY SMT DEF CacheTypeOK, Ops, Idle

LEMMA OpSets ==
  /\ op.name = "dropping" => OpHandles = Range(op.hs) /\ Leaving = swept \cup Range(op.hs)
  /\ op.name = "checking" => OpHandles = {op.data, op.got} /\ Leaving = swept
  /\ op.name \notin {"dropping", "checking"} => OpHandles = {} /\ Leaving = swept
BY DEF OpHandles, Leaving, Range

LEMMA FreshOK ==
  ASSUME Another
  PROVE  Fresh \in Handles /\ Is(Fresh, "null") /\ Client(Fresh)
<1>1. Fresh \in FreeHandles
  BY DEF Fresh, Another
<1> QED
  BY <1>1 DEF FreeHandles

LEMMA DroppingOK ==
  ASSUME NEW hs, hs \in Seq(Handles), op' = Dropping(hs)
  PROVE  /\ op' \in Ops /\ op'.name \in {"idle", "dropping"}
         /\ OpHandles' = Range(hs) /\ Leaving' = swept' \cup Range(hs)
<1>1. CASE hs = <<>>
  <2>1. op' = Idle /\ op'.name = "idle" /\ Range(hs) = {}
    BY <1>1, SMT DEF Dropping, Idle, Range
  <2> QED
    BY <2>1 DEF OpHandles, Leaving, Ops
<1>2. CASE hs # <<>>
  <2>1. op' = [name |-> "dropping", hs |-> hs] /\ op'.name = "dropping" /\ op'.hs = hs
    BY <1>2 DEF Dropping
  <2>2. op' \in Ops
    BY <1>2, <2>1 DEF Ops
  <2> QED
    BY <2>1, <2>2 DEF OpHandles, Leaving, Range
<1> QED
  BY <1>1, <1>2

LEMMA OneList ==
  ASSUME NEW a, a \in Handles
  PROVE  <<a>> \in Seq(Handles) /\ Range(<<a>>) = {a} /\ <<a>> \o <<>> = <<a>>
<1>1. DOMAIN <<a>> = {1} /\ <<a>>[1] = a
  BY SMT
<1>2. Range(<<a>>) = {a}
  BY <1>1 DEF Range
<1>3. <<a>> \in Seq(Handles)
  BY SMT
<1>4. <<a>> \o <<>> = <<a>>
  BY SMT
<1> QED
  BY <1>2, <1>3, <1>4

LEMMA TwoList ==
  ASSUME NEW a, NEW b, a \in Handles, b \in Handles
  PROVE  /\ <<a, b>> \in Seq(Handles) /\ Range(<<a, b>>) = {a, b}
         /\ <<a>> \o <<b>> = <<a, b>>
<1>1. DOMAIN <<a, b>> = {1, 2} /\ <<a, b>>[1] = a /\ <<a, b>>[2] = b
  BY SMT
<1>2. Range(<<a, b>>) = {a, b}
  BY <1>1 DEF Range
<1>3. <<a, b>> \in Seq(Handles)
  BY SMT
<1>4. <<a>> \o <<b>> = <<a, b>>
  <2> DEFINE s == <<a>> \o <<b>>
  <2>1. s \in Seq(Handles) /\ Len(s) = 2 /\ s[1] = a /\ s[2] = b
    BY SMT
  <2>2. s = [i \in 1..2 |-> s[i]]
    BY <2>1, SMT
  <2>3. <<a, b>> = [i \in 1..2 |-> <<a, b>>[i]]
    BY SMT
  <2> QED
    BY <1>1, <2>1, <2>2, <2>3
<1> QED
  BY <1>2, <1>3, <1>4

LEMMA NoList == <<>> \in Seq(Handles) /\ Range(<<>>) = {}
BY SMT DEF Range

\* The pointers in line behind the first.
LEMMA TailList ==
  ASSUME NEW hs, hs \in Seq(Handles), hs # <<>>
  PROVE  /\ Head(hs) \in Handles /\ Head(hs) \in Range(hs) /\ Tail(hs) \in Seq(Handles)
         /\ Range(Tail(hs)) \subseteq Range(hs)
         /\ Range(hs) \subseteq Range(Tail(hs)) \cup {Head(hs)}
<1>1. /\ Len(hs) \in Nat /\ Len(hs) # 0 /\ DOMAIN hs = 1..Len(hs) /\ Head(hs) = hs[1]
      /\ Tail(hs) \in Seq(Handles) /\ DOMAIN Tail(hs) = 1..(Len(hs) - 1)
      /\ \A i \in 1..(Len(hs) - 1) : Tail(hs)[i] = hs[i + 1]
  BY SMT
<1>2. Head(hs) \in Handles /\ Head(hs) \in Range(hs)
  BY <1>1, SMT DEF Range
<1>3. Range(Tail(hs)) \subseteq Range(hs)
  <2> SUFFICES ASSUME NEW i \in 1..(Len(hs) - 1) PROVE Tail(hs)[i] \in Range(hs)
    BY <1>1 DEF Range
  <2> QED
    BY <1>1, SMT DEF Range
<1>4. Range(hs) \subseteq Range(Tail(hs)) \cup {Head(hs)}
  <2> SUFFICES ASSUME NEW i \in 1..Len(hs), i # 1 PROVE hs[i] \in Range(Tail(hs))
    BY <1>1 DEF Range
  <2>1. i - 1 \in 1..(Len(hs) - 1) /\ Tail(hs)[i - 1] = hs[i]
    BY <1>1, SMT
  <2> QED
    BY <1>1, <2>1 DEF Range
<1> QED
  BY <1>1, <1>2, <1>3, <1>4
-----------------------------------------------------------------------------
(* Every step of the cache is a step of the reference counts, or none.     *)

LEMMA SlotOK ==
  ASSUME CacheTypeOK, NEW k \in Keys, Has(k)
  PROVE  slot[k] \in Handles /\ slot[k] \in Entries /\ slot[k] # NoHandle
BY DEF CacheTypeOK, Has, Entries

LEMMA CloneFresh ==
  ASSUME Another, NEW s \in Handles, Clone(s, Fresh)
  PROVE  RefNext
<1>1. Fresh \in Handles \ {s}
  BY FreshOK DEF Clone, Is
<1> QED
  BY <1>1 DEF RefNext

LEMMA ReleaseRef ==
  ASSUME NEW h \in Handles, Release(h)
  PROVE  RefNext
BY DEF Release, RefNext

LEMMA KeyRef ==
  ASSUME CacheInv, NEW k \in Keys,
         \/ NewNode(k) \/ FetchHit(k) \/ SweepKey(k) \/ Check(k, NoHandle)
         \/ \E d \in Handles : Check(k, d) \/ Insert(k, d) \/ Replace(k, d)
         \/ \E valid \in BOOLEAN : StartDel(k, valid)
  PROVE  [RefNext]_refVars
<1>1. CASE NewNode(k)
  BY <1>1, FreshOK DEF NewNode, RefNext, FreeObjects
<1>2. CASE FetchHit(k)
  BY <1>2, SlotOK, CloneFresh DEF FetchHit, CacheInv
<1>3. CASE SweepKey(k)
  <2>1. k \in op.todo => slot[k] \in Handles
    BY <1>3, SlotOK DEF SweepKey, CacheInv, OpOK, Keyed
  <2> QED
    BY <1>3, <2>1 DEF SweepKey, RefNext
<1>4. ASSUME NEW d, Check(k, d) PROVE RefNext
  <2>1. Another /\ slot[k] \in Handles /\ StartLock(slot[k], Fresh)
    BY <1>4, SlotOK DEF Check, CacheInv
  <2>2. Fresh \in Handles \ {slot[k]}
    BY <2>1, FreshOK DEF StartLock, Is
  <2> QED
    BY <2>1, <2>2 DEF RefNext
<1>5. ASSUME NEW d \in Handles, Insert(k, d) \/ Replace(k, d) PROVE RefNext
  BY <1>5, CloneFresh DEF Insert, Enter, Replace
<1>6. ASSUME NEW valid \in BOOLEAN, StartDel(k, valid) PROVE [RefNext]_refVars
  <2>1. slot[k] \in Handles
    BY <1>6, SlotOK DEF StartDel, CacheInv
  <2> QED
    BY <1>6, <2>1 DEF StartDel, RefNext
<1> QED
  BY <1>1, <1>2, <1>3, <1>4, <1>5, <1>6

LEMMA CacheRef ==
  ASSUME CacheInv, CacheNext
  PROVE  [RefNext]_refVars
<1>0. CacheTypeOK /\ OpOK
  BY DEF CacheInv
<1>1. CASE \E h \in Handles : ShareNode(h) \/ DropNode(h) \/ DropSwept(h) \/ GoOn(h)
  BY <1>1, CloneFresh, ReleaseRef DEF ShareNode, DropNode, DropSwept, GoOn, RefNext
<1>2. CASE Revive
  <2>1. op.got \in Handles /\ op.data \in Handles \cup {NoHandle}
    BY <1>0, <1>2, OpFields DEF Revive
  <2> QED
    BY <1>2, <2>1, CloneFresh DEF Revive, Enter
<1>3. CASE Expire
  <2>1. op.data \in Handles \cup {NoHandle}
    BY <1>0, <1>3, OpFields DEF Expire
  <2> QED
    BY <1>3, <2>1, CloneFresh DEF Expire, Enter
<1>4. CASE DropHeld
  <2>1. op.name = "dropping" => Head(op.hs) \in Handles
    BY <1>0, OpFields, TailList
  <2> QED
    BY <1>4, <2>1, ReleaseRef DEF DropHeld
<1>5. CASE StartSweep \/ EndSweep \/ EndDel \/ Clear
  BY <1>5 DEF StartSweep, EndSweep, EndDel, Clear
<1> QED
  BY <1>1, <1>2, <1>3, <1>4, <1>5, KeyRef DEF CacheNext
-----------------------------------------------------------------------------
(* What stays when a step lets the entries alone.                          *)

LEMMA SameEntries ==
  ASSUME slot' = slot, \A k \in Keyed : at'[slot[k]] = at[slot[k]]
  PROVE  /\ Keyed' = Keyed /\ Entries' = Entries /\ StrongKeys' = StrongKeys
         /\ \A k \in Keyed : EntryObj(k)' = EntryObj(k)
<1>1. Keyed' = Keyed /\ \A k \in Keys : Has(k)' <=> Has(k)
  BY DEF Keyed, Has
<1>2. Entries' = Entries
  BY DEF Entries, Has
<1>3. StrongKeys' = StrongKeys
  BY <1>1 DEF StrongKeys, Keyed, Has, Is
<1> QED
  BY <1>1, <1>2, <1>3 DEF EntryObj

LEMMA SameOp ==
  ASSUME op' = op
  PROVE  OpHandles' = OpHandles
BY DEF OpHandles

\* No new strong holder.
LEMMA Shed ==
  ASSUME TypeOK, NEW h \in Handles, NEW r, at' = [at EXCEPT ![h] = r],
         r.st \in StrongStates => at[h].st \in StrongStates /\ r.obj = at[h].obj
  PROVE  \A o : StrongOf(o)' \subseteq StrongOf(o)
<1>1. /\ at'[h] = r
      /\ \A g \in Handles \ {h} : at'[g] = at[g]
  BY DEF TypeOK
<1> QED
  BY <1>1 DEF StrongOf

\* The pointers beside the entries: a drop begins or goes on, a destructor runs.
LEMMA Beside ==
  ASSUME IInv, CacheInv, NEW h \in Handles, NEW r, at' = [at EXCEPT ![h] = r],
         r.st \in StrongStates => at[h].st \in StrongStates /\ r.obj = at[h].obj,
         r.st \notin {"strengthening", "both", "locking"}, h \notin Entries,
         op.name = "checking" => h \notin {op.data, op.got},
         UNCHANGED <<keyOf, slot, count, op>>, swept' \subseteq swept,
         \A g \in swept \ swept' : at'[g].st = "null",
         handed' \subseteq handed, \A o \in handed' : life'[o] # "freed"
  PROVE  CacheInv'
<1>0. TypeOK /\ CacheTypeOK /\ Apart /\ Converting /\ Counted /\ OpOK /\ Tracked
  BY DEF IInv, CacheInv
<1>1. at'[h] = r /\ \A g \in Handles \ {h} : at'[g] = at[g]
  BY <1>0 DEF TypeOK
<1>2. \A k \in Keyed : at'[slot[k]] = at[slot[k]]
  BY <1>0, <1>1, SlotOK DEF Keyed
<1>3. /\ Keyed' = Keyed /\ Entries' = Entries /\ StrongKeys' = StrongKeys
      /\ \A k \in Keyed : EntryObj(k)' = EntryObj(k)
  BY <1>2, SameEntries
<1>4. OpHandles' = OpHandles
  BY SameOp
<1>5. \A o : StrongOf(o)' \subseteq StrongOf(o)
  BY <1>0, Shed
<1>6. CacheTypeOK'
  BY <1>0, <1>3 DEF CacheTypeOK
<1>7. Apart'
  BY <1>0, <1>1, <1>2, <1>3, <1>4, SMT DEF Apart
<1>8. Converting'
  BY <1>0, <1>2, <1>3 DEF Converting, Busy
<1>9. Counted'
  BY <1>0, <1>3 DEF Counted
<1>10. OpOK'
  <2>1. CASE op.name = "checking"
    <3>1. op.key \in Keyed /\ op.got \in Handles /\ op.data \in Handles \cup {NoHandle}
      BY <1>0, <2>1, OpFields DEF OpOK, Keyed
    <3>2. at'[op.got] = at[op.got] /\ op.data # NoHandle => at'[op.data] = at[op.data]
      BY <1>1, <2>1, <3>1
    <3>3. StrongOf(EntryObj(op.key)) = {} => StrongOf(EntryObj(op.key))' = {}
      BY <1>3, <1>5, <3>1, SMT DEF StrongOf
    <3> QED
      BY <1>0, <1>2, <1>3, <2>1, <3>1, <3>2, <3>3, SMTT(30) DEF OpOK, Has, Is
  <2>2. CASE op.name = "sweep"
    <3>1. \A k \in op.gone : StrongOf(EntryObj(k))' \subseteq {slot[k]}
      BY <1>0, <1>3, <1>5, <2>2, SMTT(30) DEF OpOK, StrongOf
    <3> QED
      BY <1>0, <1>3, <2>2, <3>1 DEF OpOK
  <2>3. CASE op.name \notin {"checking", "sweep"}
    BY <1>0, <1>2, <1>3, <2>3, OpFields, SMTT(30) DEF OpOK, Has, Is, Keyed
  <2> QED
    BY <2>1, <2>2, <2>3
<1>11. Tracked'
  <2> SUFFICES ASSUME NEW o, o \in handed'
               PROVE  /\ life'[o] # "freed" /\ keyOf'[o] \in Keys
                      /\ Kept(o)' => Has(keyOf[o])' /\ EntryObj(keyOf[o])' = o
    BY DEF Tracked
  <2>1. Kept(o)' => Kept(o)
    <3> SUFFICES ASSUME NEW g, g \in StrongOf(o)', g \notin Leaving' PROVE Kept(o)
      BY DEF Kept
    <3>1. g \in StrongOf(o) /\ at'[g].st # "null"
      BY <1>5 DEF StrongOf, StrongStates
    <3>2. g \notin Leaving
      BY <1>4, <3>1 DEF Leaving
    <3> QED
      BY <3>1, <3>2 DEF Kept
  <2> QED
    BY <1>0, <1>3, <2>1 DEF Tracked, Keyed, Has
<1> QED
  BY <1>6, <1>7, <1>8, <1>9, <1>10, <1>11 DEF CacheInv

\* One more strong holder of o, beside the entries.  Where o is already tracked, or
\* nobody was given it, it stays so; where a sweep or lock() has found an object
\* without holders, it was another one.
LEMMA Joins ==
  ASSUME IInv, CacheInv, NEW d \in Handles, NEW o, NEW r, at' = [at EXCEPT ![d] = r],
         r.st = "strong", r.obj = o, at[d].st \notin StrongStates, d \notin Entries,
         UNCHANGED <<slot, count, swept>>,
         \/ op' = op
         \/ op = Idle /\ \E x \in Handles \ Entries : op' = Dropping(<<x>>),
         keyOf' \in [Objects -> Keys \cup {NoKey}],
         \A g \in Handles : at[g].st # "null" => keyOf'[at[g].obj] = keyOf[at[g].obj],
         \A p \in handed' : life'[p] # "freed" /\ (p = o \/ (p \in handed /\ keyOf'[p] = keyOf[p])),
         handed' \subseteq Objects, op.name = "del" => handed' \subseteq handed,
         o \in handed' => keyOf'[o] \in Keyed /\ EntryObj(keyOf'[o]) = o,
         op.name = "sweep" => \A k \in op.gone : EntryObj(k) # o,
         op.name = "checking" =>
           \/ d = op.got /\ at[d].st = "locking" /\ at[d].obj = o
           \/ d \notin {op.data, op.got} /\ (Is(op.got, "null") => EntryObj(op.key) # o)
  PROVE  CacheInv'
<1>0. TypeOK /\ CacheTypeOK /\ Apart /\ Converting /\ Counted /\ OpOK /\ Tracked
  BY DEF IInv, CacheInv
<1>1. at'[d] = r /\ \A g \in Handles \ {d} : at'[g] = at[g]
  BY <1>0 DEF TypeOK
<1>2. \A k \in Keyed : at'[slot[k]] = at[slot[k]] /\ at[slot[k]].st # "null"
  BY <1>0, <1>1, SlotOK, SMTT(30) DEF Keyed, Apart
<1>3. /\ Keyed' = Keyed /\ Entries' = Entries /\ StrongKeys' = StrongKeys
      /\ \A k \in Keyed : EntryObj(k)' = EntryObj(k) /\ keyOf'[EntryObj(k)] = k
  BY <1>0, <1>2, SameEntries, SlotOK, SMTT(30) DEF Keyed, Apart, EntryObj
<1>4. \A p : p # o => StrongOf(p)' = StrongOf(p)
  BY <1>1, SMT DEF StrongOf
<1>5. CASE op' = op
  <2>1. OpHandles' = OpHandles /\ Leaving' = Leaving
    BY <1>5, SameOp DEF Leaving
  <2>2. CacheTypeOK'
    BY <1>0, <1>3, <1>5 DEF CacheTypeOK
  <2>3. Apart'
    BY <1>0, <1>1, <1>2, <1>3, <1>5, <2>1, SMTT(30) DEF Apart
  <2>4. Converting' /\ Counted'
    BY <1>0, <1>2, <1>3, <1>5, SMT DEF Converting, Busy, Counted
  <2>5. OpOK'
    <3>1. CASE op.name = "checking"
      <4>1. op.key \in Keyed /\ op.got \in Handles /\ op.data \in Handles \cup {NoHandle}
        BY <1>0, <3>1, OpFields DEF OpOK, Keyed
      <4>2. op.data # NoHandle => at'[op.data] = at[op.data] /\ at[op.data].st # "null"
        BY <1>0, <1>1, <3>1, <4>1 DEF OpOK, Is
      <4>3. \/ at'[op.got].st \in {"locking", "strong"} /\ at'[op.got].obj = EntryObj(op.key)
            \/ at'[op.got].st = "null" /\ StrongOf(EntryObj(op.key))' = {}
        <5>1. CASE d = op.got
          BY <1>0, <1>1, <3>1, <5>1, ZenonT(60) DEF OpOK, Is
        <5>2. CASE d # op.got
          <6>1. at'[op.got] = at[op.got]
            BY <1>1, <4>1, <5>2
          <6>2. Is(op.got, "null") /\ StrongOf(EntryObj(op.key)) = {} =>
                  StrongOf(EntryObj(op.key))' = {}
            <7> SUFFICES ASSUME Is(op.got, "null"), StrongOf(EntryObj(op.key)) = {}
                         PROVE  StrongOf(EntryObj(op.key))' = {}
              OBVIOUS
            <7>1. PICK e : e = EntryObj(op.key)
              OBVIOUS
            <7>2. e # o /\ EntryObj(op.key)' = e
              BY <1>3, <1>5, <3>1, <4>1, <5>2, <7>1, SMTT(30) DEF EntryObj
            <7>3. StrongOf(e)' = {}
              BY <1>4, <7>1, <7>2
            <7> QED
              BY <7>2, <7>3 DEF StrongOf
          <6> QED
            BY <1>0, <3>1, <6>1, <6>2 DEF OpOK, Is
        <5> QED
          BY <5>1, <5>2
      <4> QED
        BY <1>0, <1>2, <1>3, <1>5, <3>1, <4>1, <4>2, <4>3, SMTT(30) DEF OpOK, Has, Is
    <3>2. CASE op.name = "sweep"
      <4>1. \A k \in op.gone : StrongOf(EntryObj(k))' \subseteq {slot[k]}
        BY <1>0, <1>3, <1>4, <3>2, SMTT(30) DEF OpOK, StrongOf
      <4> QED
        BY <1>0, <1>3, <1>5, <3>2, <4>1 DEF OpOK
    <3>3. CASE op.name \notin {"checking", "sweep"}
      <4>1. op.name = "del" => op.key \in Keyed /\ (EntryObj(op.key) \notin handed' \/ op.valid)
        <5> SUFFICES ASSUME op.name = "del", ~op.valid
                     PROVE  op.key \in Keyed /\ EntryObj(op.key) \notin handed'
          BY <1>0, OpFields DEF OpOK, Keyed
        <5>1. op.key \in Keyed /\ EntryObj(op.key) \notin handed
          BY <1>0, OpFields DEF OpOK, Keyed
        <5> QED
          BY <5>1
      <4> QED
        BY <1>0, <1>2, <1>3, <1>5, <3>3, <4>1, OpFields, ZenonT(60) DEF OpOK, Has, Is, Keyed
    <3> QED
      BY <3>1, <3>2, <3>3
  <2>6. Tracked'
    <3> SUFFICES ASSUME NEW p, p \in handed'
                 PROVE  /\ life'[p] # "freed" /\ keyOf'[p] \in Keys
                        /\ Kept(p)' => Has(keyOf[p])' /\ EntryObj(keyOf[p])' = p
      BY DEF Tracked
    <3>1. CASE p = o
      BY <1>3, <3>1, SMTT(30) DEF Keyed, Has, EntryObj
    <3>2. CASE p # o
      <4>1. Kept(p)' => Kept(p)
        BY <1>4, <2>1, <3>2 DEF Kept
      <4> QED
        BY <1>0, <1>3, <3>2, <4>1, SMTT(30) DEF Tracked, Keyed, Has, EntryObj
    <3> QED
      BY <3>1, <3>2
  <2> QED
    BY <2>2, <2>3, <2>4, <2>5, <2>6 DEF CacheInv
<1>6. CASE op = Idle /\ \E x \in Handles \ Entries : op' = Dropping(<<x>>)
  <2>1. PICK x \in Handles \ Entries : op' = Dropping(<<x>>)
    BY <1>6
  <2>2. /\ op' \in Ops /\ op'.name \in {"idle", "dropping"}
        /\ OpHandles' = {x} /\ Leaving' = swept \cup {x}
    BY <2>1, OneList, DroppingOK
  <2>3. op.name = "idle" /\ OpHandles = {} /\ Leaving = swept
    BY <1>6, OpSets DEF Idle
  <2>4. CacheTypeOK'
    BY <1>0, <1>3, <2>2 DEF CacheTypeOK
  <2>5. Apart'
    BY <1>0, <1>1, <1>2, <1>3, <2>1, <2>2, <2>3, SMTT(30) DEF Apart
  <2>6. Converting' /\ Counted'
    BY <1>0, <1>2, <1>3, <2>2, <2>3, SMTT(30) DEF Converting, Busy, Counted
  <2>7. OpOK'
    BY <2>2 DEF OpOK
  <2>8. Tracked'
    <3> SUFFICES ASSUME NEW p, p \in handed'
                 PROVE  /\ life'[p] # "freed" /\ keyOf'[p] \in Keys
                        /\ Kept(p)' => Has(keyOf[p])' /\ EntryObj(keyOf[p])' = p
      BY DEF Tracked
    <3>1. CASE p = o
      BY <1>3, <3>1, SMTT(30) DEF Keyed, Has, EntryObj
    <3>2. CASE p # o
      <4>1. Kept(p)' => Kept(p)
        BY <1>4, <2>2, <2>3, <3>2 DEF Kept
      <4> QED
        BY <1>0, <1>3, <3>2, <4>1, SMTT(30) DEF Tracked, Keyed, Has, EntryObj
    <3> QED
      BY <3>1, <3>2
  <2> QED
    BY <2>4, <2>5, <2>6, <2>7, <2>8 DEF CacheInv
<1> QED
  BY <1>5, <1>6
-----------------------------------------------------------------------------
(* The operations that give a key an entry, or take it.                    *)

\* set_strong: f, a strong pointer to o, becomes the entry of k; what it replaces and
\* what the operation borrowed is dropped.  The object it displaces is forgotten, or
\* nobody held it.
LEMMA Entered ==
  ASSUME IInv, CacheInv, NEW k \in Keys, NEW f \in Handles, NEW o \in Objects, NEW hs,
         Is(f, "null"), Client(f), at' = [at EXCEPT ![f] = Holding("strong", o)],
         keyOf[o] = k, life[o] # "freed", UNCHANGED <<life, keyOf, swept>>,
         op.name \in {"idle", "checking"},
         op.name = "checking" => ~Is(op.got, "locking"),
         slot' = [slot EXCEPT ![k] = f],
         count' = IF k \in StrongKeys THEN count ELSE count + 1,
         hs \in Seq(Handles), op' = Dropping(hs), f \notin Range(hs),
         Range(hs) \cap Entries \subseteq {slot[k]},
         handed' \subseteq handed \cup {o},
         \A p \in handed' \ {o} : Has(k) /\ EntryObj(k) = p => StrongOf(p) = {}
  PROVE  CacheInv'
<1>0. TypeOK /\ CacheTypeOK /\ Apart /\ Converting /\ Counted /\ OpOK /\ Tracked
  BY DEF IInv, CacheInv
<1>1. /\ at'[f].st = "strong" /\ at'[f].obj = o
      /\ \A g \in Handles \ {f} : at'[g] = at[g]
  BY <1>0, HoldingIsRecord, SMT DEF TypeOK, States
<1>2. /\ f \notin Entries /\ f \notin swept /\ f # NoHandle
  BY CountsFit DEF Client
<1>3. /\ slot'[k] = f /\ Keyed' = Keyed \cup {k}
      /\ \A j \in Keys \ {k} : slot'[j] = slot[j] /\ (j \in Keyed' <=> j \in Keyed)
  BY <1>0, <1>2 DEF CacheTypeOK, Keyed, Has
<1>4. \A j \in Keyed \ {k} : /\ slot[j] \in Handles /\ slot[j] \in Entries
                             /\ slot'[j] = slot[j] /\ at'[slot'[j]] = at[slot[j]]
                             /\ EntryObj(j)' = EntryObj(j)
  BY <1>0, <1>1, <1>2, <1>3, SlotOK, SMTT(30) DEF Keyed, EntryObj
<1>5. /\ at'[slot'[k]].st = "strong" /\ EntryObj(k)' = o
  BY <1>1, <1>3 DEF EntryObj
<1>6. /\ op' \in Ops /\ op'.name \in {"idle", "dropping"}
      /\ OpHandles' = Range(hs) /\ Leaving' = swept \cup Range(hs) /\ Leaving = swept
  BY DroppingOK, OpSets
<1>7. StrongKeys' = StrongKeys \cup {k} /\ IsFiniteSet(StrongKeys) /\ IsFiniteSet(Keyed')
  <2>1. StrongKeys' = StrongKeys \cup {k}
    <3>1. \A j \in Keyed' : j \in StrongKeys' <=> at'[slot'[j]].st = "strong"
      BY DEF StrongKeys, Keyed, Is, Has
    <3>2. \A j \in Keyed : j \in StrongKeys <=> at[slot[j]].st = "strong"
      BY DEF StrongKeys, Keyed, Is, Has
    <3>3. StrongKeys' \subseteq Keyed' /\ StrongKeys \subseteq Keyed
      BY DEF StrongKeys, Keyed
    <3> QED
      BY <1>3, <1>4, <1>5, <3>1, <3>2, <3>3, SMTT(30)
  <2>2. IsFiniteSet(Keyed)
    BY <1>0 DEF CacheTypeOK
  <2>3. IsFiniteSet(StrongKeys)
    BY <2>2, FS_Subset, SMT DEF StrongKeys, Keyed
  <2>4. IsFiniteSet(Keyed')
    BY <1>3, <2>2, FS_AddElement
  <2> QED
    BY <2>1, <2>3, <2>4
<1>8. CacheTypeOK'
  BY <1>0, <1>6, <1>7, SMT DEF CacheTypeOK
<1>9. \A g \in Handles : g \in Entries' => g = f \/ (g \in Entries /\ g # slot[k])
  <2> SUFFICES ASSUME NEW j \in Keyed', slot'[j] # f
               PROVE  slot'[j] \in Entries /\ slot'[j] # slot[k]
    BY DEF Entries, Keyed
  <2>1. j \in Keyed /\ j # k
    BY <1>3
  <2>2. Has(k) => k \in Keyed
    BY DEF Keyed
  <2>3. slot'[j] = slot[j] /\ slot[j] \in Entries /\ slot[j] \in Handles
    BY <1>4, <2>1
  <2>4. slot[j] # slot[k]
    BY <1>0, <2>1, <2>2, <2>3, CountsFit, SMTT(30) DEF Apart, Has
  <2> QED
    BY <2>3, <2>4
<1>10. Apart'
  <2>1. \A i, j \in Keyed' : slot'[i] = slot'[j] => i = j
    BY <1>0, <1>2, <1>3, <1>4, SMTT(30) DEF Apart
  <2>2. Entries' \subseteq Handles
    BY <1>8, ZenonT(60) DEF CacheTypeOK, Entries, Has
  <2>3. Entries' \cap (OpHandles' \cup swept') = {}
    BY <1>0, <1>2, <1>6, <1>9, <2>2, SMT DEF Apart
  <2>4. \A g \in Handles : at'[g].st \notin {"strengthening", "both", "locking"}
    BY <1>0, <1>1, SMTT(30) DEF Apart, Is
  <2>5. \A j \in Keyed' : /\ at'[slot'[j]].st \in {"strong", "weak", "weakening", "weakPartial"}
                          /\ keyOf'[EntryObj(j)'] = j
    BY <1>0, <1>3, <1>4, <1>5, SMTT(30) DEF Apart
  <2> QED
    BY <2>1, <2>3, <2>4, <2>5 DEF Apart
<1>11. Converting'
  BY <1>0, <1>3, <1>4, <1>5, SMTT(30) DEF Converting, Busy
<1>12. Counted'
  <2>1. count = Cardinality(StrongKeys)
    BY <1>0 DEF Counted
  <2>2. count' = Cardinality(StrongKeys')
    <3>1. CASE k \in StrongKeys
      BY <1>7, <2>1, <3>1
    <3>2. CASE k \notin StrongKeys
      BY <1>7, <2>1, <3>2, FS_AddElement
    <3> QED
      BY <3>1, <3>2
  <2> QED
    BY <1>6, <2>2 DEF Counted
<1>13. OpOK'
  BY <1>6 DEF OpOK
<1>14. Tracked'
  <2> SUFFICES ASSUME NEW p, p \in handed'
               PROVE  /\ life'[p] # "freed" /\ keyOf'[p] \in Keys
                      /\ Kept(p)' => Has(keyOf[p])' /\ EntryObj(keyOf[p])' = p
    BY DEF Tracked
  <2>1. CASE p = o
    BY <1>3, <1>5, <2>1 DEF Keyed, EntryObj
  <2>2. CASE p # o
    <3>1. p \in handed /\ life[p] # "freed" /\ keyOf[p] \in Keys
      BY <1>0, <2>2 DEF Tracked
    <3>2. StrongOf(p)' = StrongOf(p)
      BY <1>1, <2>2, SMT DEF StrongOf, StrongStates, Is
    <3>3. ASSUME Kept(p)' PROVE keyOf[p] \in Keyed \ {k} /\ EntryObj(keyOf[p]) = p
      <4>1. Kept(p)
        BY <1>6, <3>2, <3>3 DEF Kept
      <4>2. Has(keyOf[p]) /\ EntryObj(keyOf[p]) = p
        BY <1>0, <3>1, <4>1 DEF Tracked
      <4> QED
        BY <2>2, <3>1, <4>1, <4>2 DEF Kept, Keyed
    <3> QED
      BY <1>3, <1>4, <3>1, <3>3, ZenonT(60) DEF Keyed, EntryObj
  <2> QED
    BY <2>1, <2>2
<1> QED
  BY <1>8, <1>10, <1>11, <1>12, <1>13, <1>14 DEF CacheInv

\* The keys of R lose their entries and the operation ends, or goes on to drop what it
\* took: whatever was given out and is still held through none but the pointers on
\* their way out may go.
LEMMA Removed ==
  ASSUME CacheInv, NEW R, UNCHANGED <<at, life, keyOf>>,
         slot' = [k \in Keys |-> IF k \in R THEN NoHandle ELSE slot[k]],
         count' = Cardinality(StrongKeys \ R),
         \A k \in Keyed \ R : at[slot[k]].st \in {"strong", "weak"},
         \A h \in Handles : at[h].st # "locking",
         op' \in Ops, op'.name \in {"idle", "dropping"}, swept' \subseteq Handles,
         \A k \in Keyed \ R : slot[k] \notin Leaving',
         \A g \in Leaving \ Leaving' : at[g].st = "null",
         handed' \subseteq handed,
         \A k \in R \cap Keyed : EntryObj(k) \in handed' => StrongOf(EntryObj(k)) \subseteq Leaving'
  PROVE  CacheInv'
<1>0. CacheTypeOK /\ Apart /\ Converting /\ Counted /\ OpOK /\ Tracked
  BY DEF CacheInv
<1>1. /\ Keyed' = Keyed \ R
      /\ \A k \in Keyed \ R : slot'[k] = slot[k] /\ EntryObj(k)' = EntryObj(k)
  BY <1>0 DEF CacheTypeOK, Keyed, Has, EntryObj
<1>2. StrongKeys' = StrongKeys \ R /\ IsFiniteSet(StrongKeys') /\ IsFiniteSet(Keyed')
  <2>1. StrongKeys' = StrongKeys \ R
    BY <1>1 DEF StrongKeys, Keyed, Is, Has
  <2>2. IsFiniteSet(Keyed) /\ StrongKeys \ R \in SUBSET Keyed /\ Keyed \ R \in SUBSET Keyed
    BY <1>0 DEF CacheTypeOK, StrongKeys, Keyed
  <2> QED
    BY <1>1, <2>1, <2>2, FS_Subset
<1>3. OpHandles' \cup swept' = Leaving'
  BY DEF Leaving, OpHandles
<1>4. CacheTypeOK'
  <2>1. count' \in Nat
    BY <1>2, FS_CardinalityType
  <2>2. slot' \in [Keys -> Handles \cup {NoHandle}]
    BY <1>0 DEF CacheTypeOK
  <2> QED
    BY <1>0, <1>2, <2>1, <2>2 DEF CacheTypeOK
<1>5. Apart'
  <2>1. \A g \in Entries' : \E k \in Keyed \ R : g = slot[k]
    BY <1>1 DEF Entries, Keyed
  <2>2. Entries' \cap (OpHandles' \cup swept') = {}
    BY <1>3, <2>1, SMT
  <2> QED
    BY <1>0, <1>1, <2>2, SMT DEF Apart
<1>6. Converting' /\ Counted' /\ OpOK'
  BY <1>1, <1>2 DEF Converting, Counted, OpOK
<1>7. Tracked'
  <2> SUFFICES ASSUME NEW p, p \in handed'
               PROVE  /\ life'[p] # "freed" /\ keyOf'[p] \in Keys
                      /\ Kept(p)' => Has(keyOf[p])' /\ EntryObj(keyOf[p])' = p
    BY DEF Tracked
  <2>1. p \in handed /\ life[p] # "freed" /\ keyOf[p] \in Keys
    BY <1>0 DEF Tracked
  <2>2. StrongOf(p)' = StrongOf(p)
    BY DEF StrongOf
  <2>3. ASSUME Kept(p)' PROVE keyOf[p] \in Keyed \ R /\ EntryObj(keyOf[p]) = p
    <3>1. PICK g \in StrongOf(p) : g \notin Leaving'
      BY <2>2, <2>3 DEF Kept
    <3>2. g \notin Leaving
      BY <3>1 DEF StrongOf, StrongStates
    <3>3. Has(keyOf[p]) /\ EntryObj(keyOf[p]) = p
      BY <1>0, <2>1, <3>1, <3>2 DEF Tracked, Kept
    <3> QED
      BY <2>1, <3>1, <3>3 DEF Keyed
  <2> QED
    BY <1>1, <2>1, <2>3 DEF Keyed, EntryObj
<1> QED
  BY <1>4, <1>5, <1>6, <1>7 DEF CacheInv
-----------------------------------------------------------------------------
(* The steps.                                                              *)

LEMMA EntryHeld ==
  ASSUME IInv, CacheInv, NEW k, k \in Keyed
  PROVE  /\ k \in Keys /\ slot[k] \in Handles /\ slot[k] \in Entries
         /\ EntryObj(k) \in Objects /\ life[EntryObj(k)] # "freed" /\ keyOf[EntryObj(k)] = k
<1>1. k \in Keys /\ slot[k] \in Handles /\ slot[k] \in Entries
  BY SlotOK DEF CacheInv, Keyed
<1>2. at[slot[k]].st # "null" /\ keyOf[EntryObj(k)] = k
  BY DEF CacheInv, Apart
<1> QED
  BY <1>1, <1>2, OnObject DEF EntryObj

LEMMA ClientIs ==
  ASSUME NEW h, Client(h)
  PROVE  /\ h \notin Entries /\ h \notin swept /\ h \notin Leaving
         /\ op.name = "checking" => h \notin {op.data, op.got}
BY OpSets DEF Client

LEMMA StrongIs ==
  ASSUME NEW o, o \in Objects
  PROVE  Holding("strong", o).st = "strong" /\ Holding("strong", o).obj = o
BY HoldingIsRecord, SMT DEF States

LEMMA NewNodeOK ==
  ASSUME IInv, CacheInv, NEW k \in Keys, NewNode(k)
  PROVE  CacheInv'
<1>1. PICK o \in Objects : /\ life[o] = "freed" /\ Create(Fresh, o)
                           /\ keyOf' = [keyOf EXCEPT ![o] = k]
  BY DEF NewNode, FreeObjects
<1>2. Fresh \in Handles /\ Is(Fresh, "null") /\ Client(Fresh)
  BY FreshOK DEF NewNode
<1>3. \A g \in Handles : at[g].st # "null" => at[g].obj \in Objects /\ at[g].obj # o
  BY <1>1, OnObject
<1>4. \A p \in handed : p \in Objects /\ p # o
  BY <1>1 DEF CacheInv, CacheTypeOK, Tracked
<1>5. /\ keyOf' \in [Objects -> Keys \cup {NoKey}]
      /\ \A p \in Objects : p # o => keyOf'[p] = keyOf[p]
  BY <1>1 DEF CacheInv, CacheTypeOK
<1>6. \A p \in handed : life'[p] # "freed"
  BY <1>1, <1>4 DEF Create, IInv, TypeOK, CacheInv, Tracked
<1>7. \A j \in Keyed : EntryObj(j) # o
  BY <1>1, EntryHeld
<1>8. /\ op.name = "sweep" => \A j \in op.gone : EntryObj(j) # o
      /\ op.name = "checking" => EntryObj(op.key) # o
  BY <1>7, OpFields DEF CacheInv, OpOK, Keyed
<1>9. /\ at' = [at EXCEPT ![Fresh] = Holding("strong", o)] /\ UNCHANGED <<slot, count, op, swept, handed>>
      /\ Holding("strong", o).st = "strong" /\ Holding("strong", o).obj = o
  BY <1>1, StrongIs DEF NewNode, Create
<1>10. PICK d : d = Fresh
  OBVIOUS
<1>11. /\ d \in Handles /\ at[d].st \notin StrongStates /\ d \notin Entries
       /\ op.name = "checking" => d \notin {op.data, op.got}
  BY <1>2, <1>10, ClientIs DEF Is, StrongStates
<1> QED
  BY <1>3, <1>4, <1>5, <1>6, <1>8, <1>9, <1>10, <1>11, Joins, ZenonT(30) DEF CacheInv, CacheTypeOK

LEMMA ShareNodeOK ==
  ASSUME IInv, CacheInv, NEW h \in Handles, ShareNode(h)
  PROVE  CacheInv'
<1>0. TypeOK /\ CacheTypeOK /\ OpOK /\ Tracked
  BY DEF IInv, CacheInv
<1>1. PICK o, d : o = at[h].obj /\ d = Fresh
  OBVIOUS
<1>2. /\ Client(h) /\ Is(h, "strong") /\ at' = [at EXCEPT ![d] = Holding("strong", o)]
      /\ UNCHANGED <<life, keyOf, slot, count, op, swept, handed>>
  BY <1>1 DEF ShareNode, Clone, cacheVars
<1>3. /\ d \in Handles /\ at[d].st \notin StrongStates /\ d \notin Entries
      /\ op.name = "checking" => d \notin {op.data, op.got}
  BY <1>1, FreshOK, ClientIs DEF ShareNode, Is, StrongStates
<1>4. o \in Objects /\ h \in StrongOf(o) /\ h \notin Entries /\ h \notin Leaving
  BY <1>1, <1>2, OnObject, ClientIs DEF Is, StrongOf, StrongStates
<1>5. o \in handed => keyOf[o] \in Keyed /\ EntryObj(keyOf[o]) = o
  BY <1>0, <1>4 DEF Tracked, Kept, Keyed
<1>6. op.name = "sweep" => \A k \in op.gone : EntryObj(k) # o
  <2> SUFFICES ASSUME op.name = "sweep", NEW k \in op.gone, EntryObj(k) = o PROVE FALSE
    OBVIOUS
  <2>1. k \in Keyed /\ StrongOf(o) \subseteq {slot[k]}
    BY <1>0 DEF OpOK
  <2>2. slot[k] \in Entries
    BY <2>1, EntryHeld
  <2> QED
    BY <1>4, <2>1, <2>2
<1>7. op.name = "checking" => (Is(op.got, "null") => EntryObj(op.key) # o)
  BY <1>0, <1>4 DEF OpOK, Is
<1>8. \A p \in handed : life'[p] # "freed"
  BY <1>0, <1>2 DEF Tracked
<1>9. Holding("strong", o).st = "strong" /\ Holding("strong", o).obj = o
  BY <1>4, StrongIs
<1> QED
  BY <1>0, <1>2, <1>3, <1>5, <1>6, <1>7, <1>8, <1>9, Joins, ZenonT(60) DEF CacheTypeOK

LEMMA FetchHitOK ==
  ASSUME IInv, CacheInv, NEW k \in Keys, FetchHit(k)
  PROVE  CacheInv'
<1>0. TypeOK /\ CacheTypeOK /\ OpOK /\ Tracked
  BY DEF IInv, CacheInv
<1>1. PICK o, d : o = EntryObj(k) /\ d = Fresh
  OBVIOUS
<1>2. /\ k \in Keyed /\ op = Idle /\ op.name = "idle" /\ handed' = handed \cup {o}
      /\ at' = [at EXCEPT ![d] = Holding("strong", o)]
      /\ UNCHANGED <<life, keyOf, slot, count, swept>>
  BY <1>1 DEF FetchHit, Clone, Keyed, EntryObj, Idle
<1>3. /\ d \in Handles /\ at[d].st \notin StrongStates /\ d \notin Entries
  BY <1>1, FreshOK, ClientIs DEF FetchHit, Is, StrongStates
<1>4. o \in Objects /\ life[o] # "freed" /\ keyOf[o] = k
  BY <1>1, <1>2, EntryHeld
<1>5. \/ op' = op
      \/ op = Idle /\ \E x \in Handles \ Entries : op' = Dropping(<<x>>)
  BY <1>2, ClientIs DEF FetchHit, Holds
<1>6. handed' \subseteq Objects /\ \A p \in handed' : life'[p] # "freed"
  BY <1>0, <1>2, <1>4 DEF Tracked, CacheTypeOK
<1>7. Holding("strong", o).st = "strong" /\ Holding("strong", o).obj = o
  BY <1>4, StrongIs
<1> QED
  BY <1>0, <1>1, <1>2, <1>3, <1>4, <1>5, <1>6, <1>7, Joins, ZenonT(30) DEF CacheTypeOK

LEMMA DropNodeOK ==
  ASSUME IInv, CacheInv, NEW h \in Handles, DropNode(h)
  PROVE  CacheInv'
<1>1. PICK r : r = [at[h] EXCEPT !.st = "dropping", !.seen = Word(h)]
  OBVIOUS
<1>2. /\ at' = [at EXCEPT ![h] = r] /\ at[h].st = "strong" /\ Client(h)
      /\ UNCHANGED <<life, keyOf, slot, count, op, swept, handed>>
  BY <1>1 DEF DropNode, StartDrop, cacheVars, Is
<1>3. r.st = "dropping" /\ r.obj = at[h].obj
  BY <1>1 DEF IInv, TypeOK
<1>4. \A o \in handed : life[o] # "freed"
  BY DEF CacheInv, Tracked
<1> QED
  BY <1>2, <1>3, <1>4, ClientIs, Beside DEF StrongStates

LEMMA CheckOK ==
  ASSUME IInv, CacheInv, NEW k \in Keys, NEW d \in Handles \cup {NoHandle}, Check(k, d)
  PROVE  CacheInv'
<1>0. TypeOK /\ CacheTypeOK /\ Apart /\ Converting /\ Counted /\ OpOK /\ Tracked
  BY DEF IInv, CacheInv
<1>1. PICK f, r : f = Fresh /\ r = [st |-> "locking", obj |-> at[slot[k]].obj,
                                    seen |-> Guess, src |-> slot[k]]
  OBVIOUS
<1>2. /\ op.name = "idle" /\ Has(k) /\ Is(slot[k], "weak") /\ k \in Keyed
      /\ d \in Handles => Holds(d, k)
      /\ at' = [at EXCEPT ![f] = r] /\ r.st = "locking" /\ r.obj = EntryObj(k)
      /\ op' = [name |-> "checking", key |-> k, data |-> d, got |-> f]
      /\ UNCHANGED <<life, keyOf, slot, count, swept, handed>>
  BY <1>1 DEF Check, StartLock, Keyed, EntryObj, Idle
<1>3. f \in Handles /\ at[f].st = "null" /\ Client(f) /\ f \notin Entries
  BY <1>1, FreshOK, ClientIs DEF Check, Is
<1>4. at'[f] = r /\ \A g \in Handles \ {f} : at'[g] = at[g]
  BY <1>0, <1>2, <1>3 DEF TypeOK
<1>5. \A j \in Keyed : at'[slot[j]] = at[slot[j]]
  BY <1>0, <1>3, <1>4, SlotOK DEF Keyed
<1>6. /\ Keyed' = Keyed /\ Entries' = Entries /\ StrongKeys' = StrongKeys
      /\ \A j \in Keyed : EntryObj(j)' = EntryObj(j)
  BY <1>2, <1>5, SameEntries
<1>7. \A o : StrongOf(o)' \subseteq StrongOf(o)
  BY <1>0, <1>2, <1>3, Shed DEF StrongStates
<1>8. /\ op' \in Ops /\ op'.name = "checking" /\ op'.key = k /\ op'.data = d /\ op'.got = f
      /\ OpHandles' = {d, f} /\ Leaving' = swept' /\ Leaving = swept
  <2>1. op' \in Ops /\ op'.name = "checking" /\ op'.key = k /\ op'.data = d /\ op'.got = f
    BY <1>2, <1>3 DEF Ops
  <2>2. OpHandles' = {d, f} /\ Leaving' = swept'
    BY <2>1 DEF OpHandles, Leaving
  <2> QED
    BY <1>2, <2>1, <2>2, OpSets
<1>9. d # NoHandle => /\ d \in Handles /\ d \notin Entries /\ d \notin swept /\ d # f
                      /\ at'[d] = at[d] /\ Is(d, "strong") /\ keyOf[at[d].obj] = k
  BY <1>2, <1>3, <1>4, ClientIs DEF Holds, Is
<1>10. CacheTypeOK'
  BY <1>0, <1>2, <1>6, <1>8, ZenonT(60) DEF CacheTypeOK
<1>11. Apart'
  <2>1. NoHandle \notin Entries
    BY DEF Entries, Has
  <2>2. Entries' \cap (OpHandles' \cup swept') = {}
    BY <1>0, <1>2, <1>3, <1>6, <1>8, <1>9, <2>1, SMTT(30) DEF Apart
  <2>3. \A g \in Handles : /\ at'[g].st \notin {"strengthening", "both"}
                           /\ at'[g].st = "locking" => op'.name = "checking" /\ op'.got = g
    BY <1>0, <1>2, <1>4, <1>8, SMTT(30) DEF Apart
  <2> QED
    BY <1>0, <1>2, <1>5, <1>6, <2>2, <2>3, SMTT(30) DEF Apart
<1>12. Converting' /\ Counted'
  BY <1>0, <1>2, <1>5, <1>6, <1>8 DEF Converting, Busy, Counted
<1>13. OpOK'
  <2>1. at'[f].st = "locking" /\ at'[f].obj = EntryObj(k)' /\ f \notin swept \cup {d}
    BY <1>2, <1>3, <1>4, <1>6, <1>9, ClientIs, CountsFit
  <2>2. Has(k)' /\ Is(slot[k], "weak")'
    BY <1>2, <1>5 DEF Has, Is
  <2> QED
    BY <1>2, <1>8, <1>9, <2>1, <2>2 DEF OpOK, Is
<1>14. Tracked'
  <2>1. \A o : Kept(o)' => Kept(o)
    BY <1>2, <1>7, <1>8 DEF Kept
  <2> QED
    BY <1>0, <1>2, <1>6, <2>1 DEF Tracked, Keyed, Has
<1> QED
  BY <1>10, <1>11, <1>12, <1>13, <1>14 DEF CacheInv

LEMMA EnterOK ==
  ASSUME IInv, CacheInv, NEW k \in Keys, NEW src \in Handles, NEW hs, Is(src, "strong"),
         keyOf[at[src].obj] = k, Another, Clone(src, Fresh), UNCHANGED <<keyOf, swept>>,
         op.name \in {"idle", "checking"},
         op.name = "checking" => ~Is(op.got, "locking"),
         slot' = [slot EXCEPT ![k] = Fresh],
         count' = IF k \in StrongKeys THEN count ELSE count + 1,
         hs \in Seq(Handles), op' = Dropping(hs),
         Range(hs) \cap Entries \subseteq {slot[k]}, \A x \in Range(hs) : ~Is(x, "null"),
         handed' \subseteq handed \cup {at[src].obj},
         \A p \in handed' \ {at[src].obj} : Has(k) /\ EntryObj(k) = p => StrongOf(p) = {}
  PROVE  CacheInv'
<1>1. PICK f, o : f = Fresh /\ o = at[src].obj
  OBVIOUS
<1>2. f \in Handles /\ Is(f, "null") /\ Client(f) /\ f \notin Range(hs)
  BY <1>1, FreshOK
<1>3. o \in Objects /\ life[o] # "freed" /\ keyOf[o] = k
  BY <1>1, OnObject DEF Is
<1>4. at' = [at EXCEPT ![f] = Holding("strong", o)] /\ UNCHANGED <<life, keyOf, swept>>
  BY <1>1 DEF Clone
<1>5. slot' = [slot EXCEPT ![k] = f] /\ handed' \subseteq handed \cup {o}
  BY <1>1
<1>6. \A p \in handed' \ {o} : Has(k) /\ EntryObj(k) = p => StrongOf(p) = {}
  BY <1>1
<1> HIDE <1>1
<1> QED
  BY <1>2, <1>3, <1>4, <1>5, <1>6, Entered

LEMMA InsertOK ==
  ASSUME IInv, CacheInv, NEW k \in Keys, NEW d \in Handles, Insert(k, d) \/ Replace(k, d)
  PROVE  CacheInv'
<1>0. CacheTypeOK
  BY DEF CacheInv
<1>1. CASE Insert(k, d)
  <2>1. /\ op.name = "idle" /\ Is(d, "strong") /\ keyOf[at[d].obj] = k /\ ~Has(k)
        /\ k \notin StrongKeys /\ Another /\ Clone(d, Fresh) /\ count' = count + 1
        /\ slot' = [slot EXCEPT ![k] = Fresh] /\ handed' = handed \cup {at[d].obj}
        /\ op' = Dropping(<<>>) /\ UNCHANGED <<keyOf, swept>>
    BY <1>1 DEF Insert, Enter, Idle, Holds, StrongKeys
  <2> QED
    BY <2>1, NoList, EnterOK
<1>2. CASE Replace(k, d)
  <2>1. /\ op.name = "idle" /\ Is(d, "strong") /\ keyOf[at[d].obj] = k
        /\ k \in StrongKeys /\ Another /\ Clone(d, Fresh) /\ count' = count
        /\ slot' = [slot EXCEPT ![k] = Fresh]
        /\ handed' = (handed \ {EntryObj(k)}) \cup {at[d].obj}
        /\ op' = Dropping(<<slot[k]>>) /\ UNCHANGED <<keyOf, swept>>
    BY <1>2 DEF Replace, Idle, Holds, StrongKeys, EntryObj
  <2>2. slot[k] \in Handles /\ ~Is(slot[k], "null")
    BY <1>0, <1>2, SlotOK DEF Replace, Is
  <2>3. <<slot[k]>> \in Seq(Handles) /\ Range(<<slot[k]>>) = {slot[k]}
    BY <2>2, OneList
  <2> QED
    BY <2>1, <2>2, <2>3, EnterOK
<1> QED
  BY <1>1, <1>2

\* What lock() holds while it runs.
LEMMA Checking ==
  ASSUME IInv, CacheInv, op.name = "checking"
  PROVE  /\ op.key \in Keyed /\ op.key \in Keys /\ op.key \notin StrongKeys
         /\ slot[op.key] \in Handles /\ Is(slot[op.key], "weak")
         /\ EntryObj(op.key) \in Objects /\ keyOf[EntryObj(op.key)] = op.key
         /\ op.got \in Handles /\ op.got \notin Entries
         /\ op.data # NoHandle =>
              /\ op.data \in Handles /\ op.data \notin Entries /\ Is(op.data, "strong")
              /\ keyOf[at[op.data].obj] = op.key
<1>1. CacheTypeOK /\ OpOK /\ Apart
  BY DEF CacheInv
<1>2. op.key \in Keyed /\ Is(slot[op.key], "weak") /\ op.got \in Handles
  BY <1>1, OpFields DEF OpOK, Keyed
<1>3. op.key \notin StrongKeys
  BY <1>2 DEF StrongKeys, Is
<1>4. op.data \notin Entries /\ op.got \notin Entries
  BY <1>1, OpSets DEF Apart
<1>5. op.data # NoHandle =>
        op.data \in Handles /\ Is(op.data, "strong") /\ keyOf[at[op.data].obj] = op.key
  BY <1>1, OpFields DEF OpOK
<1> QED
  BY <1>2, <1>3, <1>4, <1>5, EntryHeld

LEMMA ReviveOK ==
  ASSUME IInv, CacheInv, Revive
  PROVE  CacheInv'
<1>0. /\ op.name = "checking" /\ Is(op.got, "strong") /\ ~Is(op.got, "locking")
      /\ at[op.got].obj = EntryObj(op.key)
  BY DEF Revive, CacheInv, OpOK, Is
<1>1. PICK k, s : k = op.key /\ s = slot[op.key]
  OBVIOUS
<1>2. /\ k \in Keys /\ k \notin StrongKeys /\ s \in Handles /\ Is(s, "weak") /\ s = slot[k]
      /\ op.got \in Handles /\ op.got \notin Entries /\ keyOf[at[op.got].obj] = k
      /\ op.data # NoHandle =>
           /\ op.data \in Handles /\ op.data \notin Entries /\ Is(op.data, "strong")
           /\ keyOf[at[op.data].obj] = k
  BY <1>0, <1>1, Checking
<1>3. CASE Enter(k, op.got, <<s>> \o (IF op.data = NoHandle THEN <<>> ELSE <<op.data>>))
  <2>1. PICK hs : hs = <<s>> \o (IF op.data = NoHandle THEN <<>> ELSE <<op.data>>)
    OBVIOUS
  <2>2. /\ Another /\ Clone(op.got, Fresh) /\ count' = count + 1
        /\ slot' = [slot EXCEPT ![k] = Fresh] /\ handed' = handed \cup {at[op.got].obj}
        /\ op' = Dropping(hs) /\ UNCHANGED <<keyOf, swept>>
    BY <1>3, <2>1 DEF Enter
  <2>3. /\ hs \in Seq(Handles)
        /\ Range(hs) = IF op.data = NoHandle THEN {s} ELSE {s, op.data}
    <3>1. CASE op.data = NoHandle
      <4>1. hs = <<s>>
        BY <1>2, <2>1, <3>1, OneList
      <4> QED
        BY <1>2, <3>1, <4>1, OneList
    <3>2. CASE op.data # NoHandle
      <4>1. hs = <<s, op.data>>
        BY <1>2, <2>1, <3>2, TwoList
      <4> QED
        BY <1>2, <3>2, <4>1, TwoList
    <3> QED
      BY <3>1, <3>2
  <2>4. /\ Range(hs) \cap Entries \subseteq {slot[k]}
        /\ \A x \in Range(hs) : ~Is(x, "null")
    BY <1>2, <2>3 DEF Is
  <2>5. \A p \in handed' \ {at[op.got].obj} : Has(k) /\ EntryObj(k) = p => StrongOf(p) = {}
    BY <1>0, <1>1
  <2> QED
    BY <1>0, <1>2, <2>2, <2>3, <2>4, <2>5, EnterOK, ZenonT(60)
<1>4. CASE /\ op.data # NoHandle /\ Another /\ Clone(op.data, Fresh)
           /\ slot' = [slot EXCEPT ![k] = Fresh] /\ count' = count + 1
           /\ handed' = (handed \ {at[op.got].obj}) \cup {at[op.data].obj}
           /\ op' = Dropping(<<s, op.got>>) /\ UNCHANGED <<keyOf, swept>>
  <2>1. <<s, op.got>> \in Seq(Handles) /\ Range(<<s, op.got>>) = {s, op.got}
    BY <1>2, TwoList
  <2>2. /\ Range(<<s, op.got>>) \cap Entries \subseteq {slot[k]}
        /\ \A x \in Range(<<s, op.got>>) : ~Is(x, "null")
    BY <1>0, <1>2, <2>1 DEF Is
  <2>3. \A p \in handed' \ {at[op.data].obj} : Has(k) /\ EntryObj(k) = p => StrongOf(p) = {}
    BY <1>0, <1>1, <1>4
  <2> QED
    BY <1>0, <1>2, <1>4, <2>1, <2>2, <2>3, EnterOK, ZenonT(60)
<1> QED
  BY <1>1, <1>3, <1>4 DEF Revive

\* An entry is only on its way to weak under a sweep or del.
LEMMA AtRest ==
  ASSUME CacheInv, op.name \notin {"sweep", "del"}
  PROVE  /\ \A k \in Keyed : at[slot[k]].st \in {"strong", "weak"}
         /\ count = Cardinality(StrongKeys)
BY DEF CacheInv, Apart, Converting, Busy, Counted

\* The entry of k is taken out, to be dropped.
LEMMA TakeOut ==
  ASSUME CacheTypeOK, Apart, NEW k \in Keyed, Leaving = swept, swept' = swept,
         op' = Dropping(<<slot[k]>>), slot' = [slot EXCEPT ![k] = NoHandle]
  PROVE  /\ slot' = [j \in Keys |-> IF j \in {k} THEN NoHandle ELSE slot[j]]
         /\ op' \in Ops /\ op'.name \in {"idle", "dropping"} /\ swept' \subseteq Handles
         /\ Leaving' = Leaving \cup {slot[k]}
         /\ \A j \in Keyed \ {k} : slot[j] \notin Leaving'
<1>1. slot[k] \in Handles
  BY SlotOK DEF Keyed
<1>2. <<slot[k]>> \in Seq(Handles) /\ Range(<<slot[k]>>) = {slot[k]}
  BY <1>1, OneList
<1>3. op' \in Ops /\ op'.name \in {"idle", "dropping"} /\ Leaving' = Leaving \cup {slot[k]}
  BY <1>2, DroppingOK
<1>4. \A j \in Keyed : slot[j] \notin swept
  BY SlotOK DEF Apart, Keyed
<1> QED
  BY <1>3, <1>4, ZenonT(60) DEF CacheTypeOK, Apart

LEMMA ExpireOK ==
  ASSUME IInv, CacheInv, Expire
  PROVE  CacheInv'
<1>0. /\ op.name = "checking" /\ Is(op.got, "null") /\ ~Is(op.got, "locking")
      /\ StrongOf(EntryObj(op.key)) = {} /\ Leaving = swept
  BY OpSets DEF Expire, CacheInv, OpOK, Is
<1>1. PICK k, s : k = op.key /\ s = slot[op.key]
  OBVIOUS
<1>2. /\ k \in Keys /\ k \in Keyed /\ k \notin StrongKeys
      /\ s \in Handles /\ Is(s, "weak") /\ s = slot[k]
      /\ op.data # NoHandle =>
           /\ op.data \in Handles /\ op.data \notin Entries /\ Is(op.data, "strong")
           /\ keyOf[at[op.data].obj] = k
  BY <1>0, <1>1, Checking
<1>3. CASE /\ slot' = [slot EXCEPT ![k] = NoHandle] /\ op' = Dropping(<<s>>)
           /\ UNCHANGED <<refVars, keyOf, count, swept, handed>>
  <2>1. /\ slot' = [j \in Keys |-> IF j \in {k} THEN NoHandle ELSE slot[j]]
        /\ op' \in Ops /\ op'.name \in {"idle", "dropping"} /\ swept' \subseteq Handles
        /\ Leaving' = Leaving \cup {s}
        /\ \A j \in Keyed \ {k} : slot[j] \notin Leaving'
    BY <1>0, <1>2, <1>3, TakeOut DEF CacheInv
  <2>2. StrongKeys \ {k} = StrongKeys
    BY <1>2
  <2>3. /\ count' = Cardinality(StrongKeys \ {k})
        /\ \A j \in Keyed \ {k} : at[slot[j]].st \in {"strong", "weak"}
    BY <1>0, <1>3, <2>2, AtRest
  <2>4. \A h \in Handles : at[h].st # "locking"
    BY <1>0 DEF CacheInv, Apart, Is
  <2>5. \A j \in {k} \cap Keyed : StrongOf(EntryObj(j)) \subseteq Leaving'
    BY <1>0, <1>1
  <2>6. \A g \in Leaving \ Leaving' : at[g].st = "null"
    BY <2>1
  <2>7. UNCHANGED <<at, life, keyOf>> /\ handed' \subseteq handed
    BY <1>3 DEF refVars
  <2> QED
    BY <2>1, <2>3, <2>4, <2>5, <2>6, <2>7, Removed, ZenonT(60)
<1>4. CASE op.data # NoHandle /\ Enter(k, op.data, <<s>>)
  <2>1. <<s>> \in Seq(Handles) /\ Range(<<s>>) = {s}
    BY <1>2, OneList
  <2>2. /\ Another /\ Clone(op.data, Fresh) /\ count' = count + 1
        /\ slot' = [slot EXCEPT ![k] = Fresh] /\ handed' = handed \cup {at[op.data].obj}
        /\ op' = Dropping(<<s>>) /\ UNCHANGED <<keyOf, swept>>
    BY <1>4 DEF Enter
  <2>3. \A p \in handed' \ {at[op.data].obj} : Has(k) /\ EntryObj(k) = p => StrongOf(p) = {}
    BY <1>0, <1>1
  <2>4. Range(<<s>>) \cap Entries \subseteq {slot[k]} /\ \A x \in Range(<<s>>) : ~Is(x, "null")
    BY <1>2, <2>1 DEF Is
  <2> QED
    BY <1>0, <1>2, <1>4, <2>1, <2>2, <2>3, <2>4, EnterOK, ZenonT(60)
<1> QED
  BY <1>1, <1>3, <1>4 DEF Expire

\* The drop of a pointer that the cache has let go.
LEMMA ReleaseOK ==
  ASSUME IInv, CacheInv, NEW h \in Leaving, h \in Handles, Release(h), UNCHANGED cacheVars
  PROVE  CacheInv'
<1>0. /\ h \notin Entries
      /\ op.name = "checking" => h \notin {op.data, op.got}
  <2>1. h \in OpHandles \cup swept
    BY DEF Leaving
  <2>2. op.name = "checking" => h \in swept
    BY OpSets
  <2> QED
    BY <2>1, <2>2, CountsFit, SMTT(30) DEF CacheInv, Apart, OpOK, Is
<1>1. \A o \in handed : life[o] # "freed"
  BY DEF CacheInv, Tracked
<1>2. UNCHANGED <<life, keyOf, slot, count, op, swept, handed>>
  BY DEF cacheVars, Release, StartDrop, DropWeak
<1>3. CASE Is(h, "strong") /\ StartDrop(h)
  <2>1. PICK r : r = [at[h] EXCEPT !.st = "dropping", !.seen = Word(h)]
    OBVIOUS
  <2>2. at' = [at EXCEPT ![h] = r] /\ at[h].st = "strong"
    BY <1>3, <2>1 DEF StartDrop, Is
  <2>3. r.st = "dropping" /\ r.obj = at[h].obj
    BY <2>1 DEF IInv, TypeOK
  <2> QED
    BY <1>0, <1>1, <1>2, <2>2, <2>3, Beside, ZenonT(60) DEF StrongStates
<1>4. CASE Is(h, "weak") /\ DropWeak(h)
  <2>1. PICK st, r : /\ st = AfterDropWeak(Word(h))
                     /\ r = IF st = "null" THEN Null ELSE Holding(st, at[h].obj)
    OBVIOUS
  <2>2. at' = [at EXCEPT ![h] = r]
    BY <1>4, <2>1 DEF DropWeak, Becomes
  <2>3. st \in {"null", "destroy", "await"} /\ r.st = st
    <3>1. st \in {"null", "destroy", "await"} /\ st \in States /\ at[h].obj \in Objects
      BY <1>4, <2>1, OnObject DEF AfterDropWeak, States, Is
    <3> QED
      BY <2>1, <3>1, NullIsRecord, HoldingIsRecord
  <2> QED
    BY <1>0, <1>1, <1>2, <2>2, <2>3, Beside DEF StrongStates
<1> QED
  BY <1>3, <1>4, ZenonT(60) DEF Release

LEMMA DropHeldOK ==
  ASSUME IInv, CacheInv, DropHeld
  PROVE  CacheInv'
<1>0. CacheTypeOK /\ Apart /\ op.name = "dropping"
  BY DEF CacheInv, DropHeld
<1>1. PICK hs : hs = op.hs
  OBVIOUS
<1>2. hs \in Seq(Handles) /\ hs # <<>> /\ OpHandles = Range(hs) /\ Leaving = swept \cup Range(hs)
  BY <1>0, <1>1, OpFields, OpSets
<1>3. /\ Head(hs) \in Handles /\ Head(hs) \in Leaving /\ Tail(hs) \in Seq(Handles)
      /\ Range(Tail(hs)) \subseteq Range(hs)
      /\ Range(hs) \subseteq Range(Tail(hs)) \cup {Head(hs)}
  BY <1>2, TailList
<1>4. CASE Release(Head(hs)) /\ UNCHANGED cacheVars
  BY <1>3, <1>4, ReleaseOK
<1>5. CASE /\ Is(Head(hs), "null") /\ op' = Dropping(Tail(hs))
           /\ UNCHANGED <<refVars, keyOf, slot, count, swept, handed>>
  <2>1. /\ op' \in Ops /\ op'.name \in {"idle", "dropping"}
        /\ Leaving' = swept \cup Range(Tail(hs))
    BY <1>3, <1>5, DroppingOK
  <2>2. slot' = [k \in Keys |-> IF k \in {} THEN NoHandle ELSE slot[k]]
    BY <1>0, <1>5 DEF CacheTypeOK
  <2>3. StrongKeys \ {} = StrongKeys /\ Keyed \ {} = Keyed
    OBVIOUS
  <2>4. /\ count' = Cardinality(StrongKeys \ {})
        /\ \A k \in Keyed \ {} : at[slot[k]].st \in {"strong", "weak"}
    BY <1>0, <1>5, <2>3, AtRest
  <2>5. \A h \in Handles : at[h].st # "locking"
    BY <1>0 DEF Apart
  <2>6. \A k \in Keyed \ {} : slot[k] \notin Leaving'
    BY <1>0, <1>2, <1>3, <2>1, SlotOK DEF Apart, Keyed
  <2>7. \A g \in Leaving \ Leaving' : at[g].st = "null"
    BY <1>2, <1>3, <1>5, <2>1 DEF Is
  <2>8. UNCHANGED <<at, life, keyOf>> /\ handed' \subseteq handed /\ swept' \subseteq Handles
    BY <1>0, <1>5 DEF refVars, CacheTypeOK
  <2>9. \A k \in {} \cap Keyed : StrongOf(EntryObj(k)) \subseteq Leaving'
    OBVIOUS
  <2> QED
    BY <2>1, <2>2, <2>4, <2>5, <2>6, <2>7, <2>8, <2>9, Removed, ZenonT(60)
<1> QED
  BY <1>1, <1>4, <1>5 DEF DropHeld

LEMMA DropSweptOK ==
  ASSUME IInv, CacheInv, NEW h \in Handles, DropSwept(h)
  PROVE  CacheInv'
<1>0. h \in swept /\ h \in Leaving
  BY DEF DropSwept, Leaving
<1>1. CASE Release(h) /\ UNCHANGED cacheVars
  BY <1>0, <1>1, ReleaseOK
<1>2. CASE /\ Is(h, "null") /\ swept' = swept \ {h}
           /\ UNCHANGED <<refVars, keyOf, slot, count, op, handed>>
  <2>1. at' = [at EXCEPT ![h] = at[h]] /\ at[h].st = "null" /\ at'[h].st = "null"
    BY <1>2 DEF refVars, IInv, TypeOK, Is
  <2>2. /\ h \notin Entries
        /\ op.name = "checking" => h \notin {op.data, op.got}
    BY <1>0, <1>2, CountsFit DEF CacheInv, Apart, OpOK, Is
  <2>3. \A o \in handed : life'[o] # "freed"
    BY <1>2 DEF CacheInv, Tracked, refVars
  <2> QED
    BY <1>0, <1>2, <2>1, <2>2, <2>3, Beside DEF StrongStates
<1> QED
  BY <1>0, <1>1, <1>2 DEF DropSwept

LEMMA StrongKeysFinite ==
  ASSUME CacheTypeOK, NEW S, S \in SUBSET StrongKeys
  PROVE  IsFiniteSet(S) /\ Cardinality(S) \in Nat
<1>1. IsFiniteSet(Keyed) /\ S \in SUBSET Keyed
  BY DEF CacheTypeOK, StrongKeys, Keyed
<1> QED
  BY <1>1, FS_Subset, FS_CardinalityType

LEMMA StartSweepOK ==
  ASSUME IInv, CacheInv, StartSweep
  PROVE  CacheInv'
<1>0. CacheTypeOK /\ Apart /\ Tracked /\ op.name = "idle"
  BY DEF CacheInv, StartSweep, Idle
<1>1. UNCHANGED <<at, life, keyOf, slot, count, swept, handed>>
  BY DEF StartSweep, refVars
<1>2. /\ op' \in Ops /\ op'.name = "sweep" /\ op'.todo = Keyed /\ op'.gone = {}
      /\ op'.removals = 0
  BY DEF StartSweep, Ops, Keyed
<1>3. OpHandles' = {} /\ Leaving' = swept /\ OpHandles = {} /\ Leaving = swept
  BY <1>0, <1>1, <1>2, OpSets DEF OpHandles, Leaving
<1>4. /\ Keyed' = Keyed /\ Entries' = Entries /\ StrongKeys' = StrongKeys
      /\ \A k \in Keyed : EntryObj(k)' = EntryObj(k)
  BY <1>1, SameEntries
<1>5. /\ \A k \in Keyed : at[slot[k]].st \in {"strong", "weak"}
      /\ count = Cardinality(StrongKeys)
  BY <1>0, AtRest
<1>6. CacheTypeOK'
  BY <1>0, <1>1, <1>2, <1>4 DEF CacheTypeOK
<1>7. Apart'
  BY <1>0, <1>1, <1>3, <1>4 DEF Apart
<1>8. Converting' /\ OpOK'
  BY <1>1, <1>2, <1>4, <1>5 DEF Converting, OpOK
<1>9. Counted'
  <2>1. StrongKeys \ {} = StrongKeys /\ Cardinality(StrongKeys) \in Nat
    BY <1>0, StrongKeysFinite
  <2> QED
    BY <1>1, <1>2, <1>4, <1>5, <2>1, SMTT(30) DEF Counted
<1>10. Tracked'
  <2>1. \A o : Kept(o)' => Kept(o)
    BY <1>1, <1>3 DEF Kept, StrongOf
  <2> QED
    BY <1>0, <1>1, <1>4, <2>1 DEF Tracked, Keyed, Has
<1> QED
  BY <1>6, <1>7, <1>8, <1>9, <1>10 DEF CacheInv

LEMMA LeaveFields ==
  ASSUME CacheTypeOK, op.name = "sweep", NEW k, NEW G, NEW n,
         G \subseteq Keys, n \in Nat, Leave(k, G, n)
  PROVE  /\ op' \in Ops /\ op'.name = "sweep" /\ op'.todo = op.todo \ {k}
         /\ op'.gone = op.gone \cup G /\ op'.removals = op.removals + n
         /\ OpHandles' = {} /\ OpHandles = {} /\ Leaving' = swept' /\ Leaving = swept
<1>1. /\ op \in [name : {"sweep"}, todo : SUBSET Keys, gone : SUBSET Keys, removals : Nat]
      /\ op.removals + n \in Nat
  BY SMT DEF CacheTypeOK, Ops, Idle
<1>2. /\ op'.name = "sweep" /\ op'.todo = op.todo \ {k}
      /\ op'.gone = op.gone \cup G /\ op'.removals = op.removals + n
      /\ op' \in [name : {"sweep"}, todo : SUBSET Keys, gone : SUBSET Keys, removals : Nat]
  BY <1>1 DEF Leave
<1>3. OpHandles' = {} /\ Leaving' = swept'
  BY <1>2 DEF OpHandles, Leaving
<1> QED
  BY <1>2, <1>3, OpSets, ZenonT(60) DEF Ops

\* A sweep looks at an entry and only notes what to do.
LEMMA SweepNote ==
  ASSUME IInv, CacheInv, op.name = "sweep", NEW k, NEW G, NEW n, k \in op.todo,
         G \subseteq {k}, n \in Nat, Leave(k, G, n),
         UNCHANGED <<at, life, keyOf, slot, count, swept, handed>>,
         n + Cardinality(StrongKeys \ (op.gone \cup G)) = Cardinality(StrongKeys \ op.gone),
         \A j \in G : StrongOf(EntryObj(j)) \subseteq {slot[j]}
  PROVE  CacheInv'
<1>0. /\ CacheTypeOK /\ Apart /\ Converting /\ Counted /\ OpOK /\ Tracked
      /\ k \in Keyed /\ k \notin op.gone /\ G \subseteq Keyed /\ G \subseteq Keys
  BY DEF CacheInv, OpOK, Keyed
<1>1. /\ op' \in Ops /\ op'.name = "sweep" /\ op'.todo = op.todo \ {k}
      /\ op'.gone = op.gone \cup G /\ op'.removals = op.removals + n
      /\ OpHandles' = {} /\ OpHandles = {} /\ Leaving' = swept' /\ Leaving = swept
  BY <1>0, LeaveFields
<1>2. /\ Keyed' = Keyed /\ Entries' = Entries /\ StrongKeys' = StrongKeys
      /\ \A j \in Keyed : EntryObj(j)' = EntryObj(j)
  BY SameEntries
<1>3. CacheTypeOK'
  BY <1>0, <1>1, <1>2 DEF CacheTypeOK
<1>4. Apart'
  BY <1>0, <1>1, <1>2, ZenonT(60) DEF Apart
<1>5. Converting'
  BY <1>0, <1>1, <1>2 DEF Converting, Busy
<1>6. Counted'
  <2>1. /\ Cardinality(StrongKeys \ (op.gone \cup G)) \in Nat /\ op.removals \in Nat
        /\ Cardinality(StrongKeys \ op.gone) \in Nat
    BY <1>0, StrongKeysFinite, OpFields
  <2>2. count = op.removals + Cardinality(StrongKeys \ op.gone)
    BY <1>0, ZenonT(60) DEF Counted
  <2>3. count' = op'.removals + Cardinality(StrongKeys' \ op'.gone)
    BY <1>1, <1>2, <2>1, <2>2, SMTT(30)
  <2> QED
    BY <1>1, <2>3 DEF Counted
<1>7. OpOK'
  <2>1. \A j \in op'.gone : StrongOf(EntryObj(j))' \subseteq {slot'[j]}
    BY <1>0, <1>1, <1>2 DEF OpOK, StrongOf, EntryObj
  <2> QED
    BY <1>0, <1>1, <1>2, <2>1 DEF OpOK
<1>8. Tracked'
  <2>1. \A o : Kept(o)' => Kept(o)
    BY <1>1 DEF Kept, StrongOf
  <2> QED
    BY <1>0, <1>2, <2>1 DEF Tracked, Keyed, Has
<1> QED
  BY <1>3, <1>4, <1>5, <1>6, <1>7, <1>8 DEF CacheInv

\* convert_to_weak begins on a strong entry.
LEMMA EntryWeakens ==
  ASSUME IInv, CacheInv, NEW k, k \in StrongKeys, StartWeaken(slot[k]), slot' = slot
  PROVE  /\ at'[slot[k]].st = "weakening" /\ life' = life
         /\ \A g \in Handles \ {slot[k]} : at'[g] = at[g]
         /\ \A j \in Keyed \ {k} : at'[slot[j]] = at[slot[j]]
         /\ Keyed' = Keyed /\ Entries' = Entries /\ StrongKeys' = StrongKeys \ {k}
         /\ \A j \in Keyed : EntryObj(j)' = EntryObj(j)
         /\ \A o : StrongOf(o)' \subseteq StrongOf(o)
<1>0. TypeOK /\ CacheTypeOK /\ Apart /\ k \in Keyed /\ at[slot[k]].st = "strong"
  BY DEF IInv, CacheInv, StrongKeys, Keyed, Is
<1>1. PICK h, r : h = slot[k] /\ r = [at[h] EXCEPT !.st = "weakening", !.seen = Word(h)]
  OBVIOUS
<1>2. h \in Handles /\ at' = [at EXCEPT ![h] = r] /\ life' = life
  BY <1>0, <1>1, SlotOK DEF StartWeaken, Keyed
<1>3. r.st = "weakening" /\ r.obj = at[h].obj
  BY <1>0, <1>1, <1>2 DEF TypeOK
<1>4. at'[h] = r /\ \A g \in Handles \ {h} : at'[g] = at[g]
  BY <1>0, <1>2 DEF TypeOK
<1>5. \A j \in Keyed \ {k} : at'[slot[j]] = at[slot[j]]
  BY <1>0, <1>1, <1>4, SlotOK DEF Apart, Keyed
<1>6. Keyed' = Keyed /\ Entries' = Entries
  BY DEF Keyed, Entries, Has
<1>7. \A j \in Keyed : EntryObj(j)' = EntryObj(j)
  BY <1>1, <1>3, <1>4, <1>5 DEF EntryObj
<1>8. StrongKeys' = StrongKeys \ {k}
  <2>1. \A j \in Keys : j \in StrongKeys' <=> j \in Keyed /\ at'[slot[j]].st = "strong"
    BY DEF StrongKeys, Keyed, Is, Has
  <2>2. \A j \in Keys : j \in StrongKeys <=> j \in Keyed /\ at[slot[j]].st = "strong"
    BY DEF StrongKeys, Keyed, Is, Has
  <2>3. StrongKeys \subseteq Keys /\ StrongKeys' \subseteq Keys
    BY DEF StrongKeys
  <2>4. k \notin StrongKeys'
    BY <1>0, <1>1, <1>3, <1>4, <2>1, <2>3
  <2>5. \A j \in Keys \ {k} : j \in StrongKeys' <=> j \in StrongKeys
    BY <1>5, <2>1, <2>2
  <2> QED
    BY <2>3, <2>4, <2>5
<1>9. \A o : StrongOf(o)' \subseteq StrongOf(o)
  BY <1>0, <1>1, <1>2, <1>3, Shed DEF StrongStates
<1> QED
  BY <1>1, <1>2, <1>3, <1>4, <1>5, <1>6, <1>7, <1>8, <1>9, ZenonT(60)

LEMMA SweepWeakens ==
  ASSUME IInv, CacheInv, op.name = "sweep", NEW k, k \in op.todo, k \in StrongKeys,
         Leave(k, {}, 1), StartWeaken(slot[k]), UNCHANGED <<keyOf, slot, count, swept, handed>>
  PROVE  CacheInv'
<1>0. /\ CacheTypeOK /\ Apart /\ Converting /\ Counted /\ OpOK /\ Tracked
      /\ k \in Keyed /\ k \notin op.gone
  BY DEF CacheInv, OpOK
<1>1. /\ op' \in Ops /\ op'.name = "sweep" /\ op'.todo = op.todo \ {k}
      /\ op'.gone = op.gone /\ op'.removals = op.removals + 1
      /\ OpHandles' = {} /\ OpHandles = {} /\ Leaving' = swept' /\ Leaving = swept
  <2>1. PICK G : G = {}
    OBVIOUS
  <2>2. G \subseteq Keys /\ 1 \in Nat /\ op.gone \cup G = op.gone /\ Leave(k, G, 1)
    BY <2>1
  <2> QED
    BY <1>0, <2>2, LeaveFields
<1>2. /\ at'[slot[k]].st = "weakening" /\ life' = life
      /\ \A g \in Handles \ {slot[k]} : at'[g] = at[g]
      /\ \A j \in Keyed \ {k} : at'[slot[j]] = at[slot[j]]
      /\ Keyed' = Keyed /\ Entries' = Entries /\ StrongKeys' = StrongKeys \ {k}
      /\ \A j \in Keyed : EntryObj(j)' = EntryObj(j)
      /\ \A o : StrongOf(o)' \subseteq StrongOf(o)
  BY EntryWeakens
<1>3. CacheTypeOK'
  BY <1>0, <1>1, <1>2, ZenonT(60) DEF CacheTypeOK
<1>4. Apart'
  BY <1>0, <1>1, <1>2, SMTT(30) DEF Apart
<1>5. Converting'
  BY <1>0, <1>1, <1>2 DEF Converting, Busy
<1>6. Counted'
  <2> DEFINE S == StrongKeys \ op.gone
  <2>1. IsFiniteSet(S) /\ k \in S /\ Cardinality(S) \in Nat /\ op.removals \in Nat
    BY <1>0, StrongKeysFinite, OpFields
  <2>2. Cardinality(S \ {k}) = Cardinality(S) - 1
    BY <2>1, FS_RemoveElement
  <2>3. StrongKeys' \ op'.gone = S \ {k}
    BY <1>1, <1>2
  <2>4. count = op.removals + Cardinality(S)
    BY <1>0 DEF Counted
  <2> HIDE DEF S
  <2>5. Cardinality(StrongKeys' \ op'.gone) = Cardinality(S) - 1
    BY <2>2, <2>3, ZenonT(60)
  <2>6. count' = op'.removals + Cardinality(StrongKeys' \ op'.gone)
    BY <1>1, <2>1, <2>4, <2>5, SMTT(30)
  <2> QED
    BY <1>1, <2>6 DEF Counted
<1>7. OpOK'
  <2>1. \A j \in op'.gone : StrongOf(EntryObj(j))' \subseteq {slot'[j]}
    BY <1>0, <1>1, <1>2, SMTT(30) DEF OpOK, StrongOf, EntryObj
  <2> QED
    BY <1>0, <1>1, <1>2, <2>1, ZenonT(60) DEF OpOK
<1>8. Tracked'
  <2>1. \A o : Kept(o)' => Kept(o)
    BY <1>1, <1>2 DEF Kept
  <2> QED
    BY <1>0, <1>2, <2>1 DEF Tracked, Keyed, Has
<1> QED
  BY <1>3, <1>4, <1>5, <1>6, <1>7, <1>8, ZenonT(60) DEF CacheInv

\* The strong count of an entry's object is the number of its strong holders.
LEMMA EntryCount ==
  ASSUME IInv, CacheInv, NEW k, k \in Keyed
  PROVE  /\ Word(slot[k]).strong = 0 => StrongOf(EntryObj(k)) = {}
         /\ Sole(k) /\ k \in StrongKeys => StrongOf(EntryObj(k)) \subseteq {slot[k]}
<1>1. PICK o : o = EntryObj(k)
  OBVIOUS
<1>2. o \in Objects /\ life[o] # "freed" /\ Word(slot[k]) = word[o] /\ slot[k] \in Handles
  BY <1>1, EntryHeld DEF Word, EntryObj
<1>3. word[o].strong = Cardinality(StrongOf(o)) /\ StrongOf(o) \in SUBSET Handles
  BY <1>2, Holders DEF IInv, ObjectOK
<1>4. Word(slot[k]).strong = 0 => StrongOf(o) = {}
  BY <1>2, <1>3, CardZero
<1>5. ASSUME Sole(k), k \in StrongKeys PROVE StrongOf(o) \subseteq {slot[k]}
  <2>1. slot[k] \in StrongOf(o)
    BY <1>1, <1>2, <1>5 DEF StrongKeys, StrongOf, StrongStates, Is, EntryObj
  <2> QED
    BY <1>2, <1>3, <1>5, <2>1, CardDel DEF Sole
<1> QED
  BY <1>1, <1>4, <1>5

LEMMA SweepKeyOK ==
  ASSUME IInv, CacheInv, NEW k \in Keys, SweepKey(k)
  PROVE  CacheInv'
<1>0. /\ op.name = "sweep" /\ k \in op.todo /\ CacheTypeOK /\ k \in Keyed /\ k \notin op.gone
      /\ UNCHANGED <<keyOf, slot, count, swept, handed>>
  BY DEF SweepKey, CacheInv, OpOK
<1>1. k \in StrongKeys <=> Is(slot[k], "strong")
  BY <1>0 DEF StrongKeys, Keyed
<1>2. CASE /\ Is(slot[k], "weak") /\ UNCHANGED refVars
           /\ Leave(k, IF Word(slot[k]).strong = 0 THEN {k} ELSE {}, 0)
  <2>1. PICK G : G = IF Word(slot[k]).strong = 0 THEN {k} ELSE {}
    OBVIOUS
  <2>2. k \notin StrongKeys /\ G \subseteq {k}
    BY <1>1, <1>2, <2>1 DEF Is
  <2>3. StrongKeys \ (op.gone \cup G) = StrongKeys \ op.gone
    BY <2>2
  <2>4. Cardinality(StrongKeys \ op.gone) \in Nat
    BY <1>0, StrongKeysFinite
  <2>5. 0 + Cardinality(StrongKeys \ (op.gone \cup G)) = Cardinality(StrongKeys \ op.gone)
    BY <2>3, <2>4, SMT
  <2>6. \A j \in G : StrongOf(EntryObj(j)) \subseteq {slot[j]}
    BY <1>0, <2>1, EntryCount
  <2>7. Leave(k, G, 0) /\ UNCHANGED <<at, life, keyOf, slot, count, swept, handed>>
    BY <1>0, <1>2, <2>1 DEF refVars
  <2> QED
    BY <1>0, <2>2, <2>5, <2>6, <2>7, SweepNote, ZenonT(60)
<1>3. CASE Leave(k, {}, 0) /\ UNCHANGED refVars
  <2>1. PICK G : G = {}
    OBVIOUS
  <2>2. /\ Leave(k, G, 0) /\ G \subseteq {k}
        /\ \A j \in G : StrongOf(EntryObj(j)) \subseteq {slot[j]}
        /\ StrongKeys \ (op.gone \cup G) = StrongKeys \ op.gone
    BY <1>3, <2>1
  <2>3. Cardinality(StrongKeys \ op.gone) \in Nat
    BY <1>0, StrongKeysFinite
  <2>4. 0 + Cardinality(StrongKeys \ (op.gone \cup G)) = Cardinality(StrongKeys \ op.gone)
    BY <2>2, <2>3, SMT
  <2>5. UNCHANGED <<at, life, keyOf, slot, count, swept, handed>>
    BY <1>0, <1>3 DEF refVars
  <2> QED
    BY <1>0, <2>2, <2>4, <2>5, SweepNote
<1>4. CASE Is(slot[k], "strong") /\ Sole(k) /\ Leave(k, {k}, 1) /\ UNCHANGED refVars
  <2> DEFINE S == StrongKeys \ op.gone
  <2>1. IsFiniteSet(S) /\ Cardinality(S) \in Nat /\ k \in S
    BY <1>0, <1>1, <1>4, StrongKeysFinite
  <2>2. StrongKeys \ (op.gone \cup {k}) = S \ {k}
    OBVIOUS
  <2>3. Cardinality(S \ {k}) = Cardinality(S) - 1
    BY <2>1, FS_RemoveElement
  <2> HIDE DEF S
  <2>4. 1 + Cardinality(StrongKeys \ (op.gone \cup {k})) = Cardinality(S)
    <3>1. Cardinality(StrongKeys \ (op.gone \cup {k})) = Cardinality(S) - 1
      BY <2>2, <2>3
    <3> QED
      BY <2>1, <3>1, SMT
  <2>5. \A j \in {k} : StrongOf(EntryObj(j)) \subseteq {slot[j]}
    BY <1>0, <1>1, <1>4, EntryCount
  <2>6. UNCHANGED <<at, life, keyOf, slot, count, swept, handed>>
    BY <1>0, <1>4 DEF refVars
  <2> QED
    BY <1>0, <1>4, <2>4, <2>5, <2>6, SweepNote, SMTT(30) DEF S
<1>5. CASE Is(slot[k], "strong") /\ Leave(k, {}, 1) /\ StartWeaken(slot[k])
  BY <1>0, <1>1, <1>5, SweepWeakens
<1> QED
  BY <1>2, <1>3, <1>4, <1>5 DEF SweepKey

LEMMA EndSweepOK ==
  ASSUME IInv, CacheInv, EndSweep
  PROVE  CacheInv'
<1>0. CacheTypeOK /\ Apart /\ Counted /\ OpOK /\ op.name = "sweep"
  BY DEF CacheInv, EndSweep
<1>1. PICK R : R = op.gone
  OBVIOUS
<1>2. /\ R \subseteq Keyed /\ R \subseteq Keys /\ op.removals \in Nat /\ Leaving = swept
      /\ \A k \in R : StrongOf(EntryObj(k)) \subseteq {slot[k]}
  BY <1>0, <1>1, OpFields, OpSets DEF OpOK
<1>3. /\ slot' = [k \in Keys |-> IF k \in R THEN NoHandle ELSE slot[k]]
      /\ swept' = swept \cup {slot[k] : k \in R}
      /\ op' = Idle /\ UNCHANGED <<at, life, keyOf, handed>>
  BY <1>1 DEF EndSweep, refVars
<1>4. op' \in Ops /\ op'.name = "idle" /\ Leaving' = swept'
  BY <1>3 DEF Ops, Idle, Leaving
<1>5. count' = Cardinality(StrongKeys \ R)
  <2>1. Cardinality(StrongKeys \ R) \in Nat
    BY <1>0, StrongKeysFinite
  <2>2. count = op.removals + Cardinality(StrongKeys \ R)
    BY <1>0, <1>1 DEF Counted
  <2>3. count' = Decrement(count, op.removals)
    BY DEF EndSweep
  <2> QED
    BY <1>2, <2>1, <2>2, <2>3, SMTT(30) DEF Decrement
<1>6. \A k \in Keyed : at[slot[k]].st \in {"strong", "weak"} /\ slot[k] \in Handles /\ slot[k] \in Entries
  BY <1>0, SlotOK DEF EndSweep, Settled, Keyed
<1>7. \A h \in Handles : at[h].st # "locking"
  BY <1>0 DEF Apart
<1>8. \A k \in Keyed \ R : slot[k] \notin Leaving'
  BY <1>0, <1>2, <1>3, <1>4, <1>6, SMTT(30) DEF Apart
<1>9. \A k \in R \cap Keyed : StrongOf(EntryObj(k)) \subseteq Leaving'
  BY <1>2, <1>3, <1>4
<1>10. swept' \subseteq Handles
  BY <1>0, <1>2, <1>3, <1>6, SMTT(30) DEF CacheTypeOK
<1>11. \A g \in Leaving \ Leaving' : at[g].st = "null"
  BY <1>2, <1>3, <1>4
<1> QED
  BY <1>3, <1>4, <1>5, <1>6, <1>7, <1>8, <1>9, <1>10, <1>11, Removed, ZenonT(60)

LEMMA StartDelOK ==
  ASSUME IInv, CacheInv, NEW k \in Keys, NEW valid \in BOOLEAN, StartDel(k, valid)
  PROVE  CacheInv'
<1>0. /\ CacheTypeOK /\ Apart /\ Converting /\ Counted /\ OpOK /\ Tracked
      /\ op.name = "idle" /\ k \in Keyed
      /\ UNCHANGED <<keyOf, slot, count, swept>>
      /\ handed' = IF valid THEN handed ELSE handed \ {EntryObj(k)}
  BY DEF CacheInv, StartDel, Keyed, Idle, EntryObj
<1>1. PICK b \in BOOLEAN : b <=> Is(slot[k], "strong")
  OBVIOUS
<1>2. op' = [name |-> "del", key |-> k, valid |-> valid, strong |-> b]
  <2>1. b = Is(slot[k], "strong")
    BY <1>1 DEF Is
  <2> QED
    BY <2>1 DEF StartDel
<1>3. /\ op' \in Ops /\ op'.name = "del" /\ op'.key = k /\ op'.valid = valid /\ op'.strong = b
      /\ OpHandles' = {} /\ OpHandles = {} /\ Leaving' = swept /\ Leaving = swept
  <2>1. op' \in Ops /\ op'.name = "del" /\ op'.key = k /\ op'.valid = valid /\ op'.strong = b
    BY <1>1, <1>2 DEF Ops
  <2>2. OpHandles' = {} /\ Leaving' = swept
    BY <1>0, <2>1 DEF OpHandles, Leaving
  <2> QED
    BY <1>0, <2>1, <2>2, OpSets
<1>4. /\ life' = life /\ Keyed' = Keyed /\ Entries' = Entries
      /\ \A g \in Handles \ {slot[k]} : at'[g] = at[g]
      /\ at'[slot[k]].st \in {"weak", "weakening"}
      /\ \A j \in Keyed \ {k} : at'[slot[j]] = at[slot[j]]
      /\ StrongKeys' = StrongKeys \ {k} /\ (b <=> k \in StrongKeys)
      /\ \A j \in Keyed : EntryObj(j)' = EntryObj(j)
      /\ \A o : StrongOf(o)' \subseteq StrongOf(o)
  <2>1. b <=> k \in StrongKeys
    BY <1>0, <1>1 DEF StrongKeys, Keyed
  <2>2. CASE b
    <3>1. StartWeaken(slot[k]) /\ k \in StrongKeys
      BY <1>1, <2>1, <2>2 DEF StartDel
    <3> QED
      BY <1>0, <2>1, <3>1, EntryWeakens
  <2>3. CASE ~b
    <3>1. k \notin StrongKeys /\ UNCHANGED refVars
      BY <1>1, <2>1, <2>3 DEF StartDel
    <3>2. /\ Keyed' = Keyed /\ Entries' = Entries /\ StrongKeys' = StrongKeys
          /\ \A j \in Keyed : EntryObj(j)' = EntryObj(j)
      BY <1>0, <3>1, SameEntries DEF refVars
    <3>3. at[slot[k]].st \in {"weak", "weakening"}
      BY <1>0, <3>1, AtRest DEF StrongKeys, Keyed, Is
    <3> QED
      BY <2>1, <3>1, <3>2, <3>3 DEF refVars, StrongOf
  <2> QED
    BY <2>2, <2>3
<1>5. CacheTypeOK'
  BY <1>0, <1>3, <1>4 DEF CacheTypeOK
<1>6. Apart'
  BY <1>0, <1>3, <1>4, SMTT(30) DEF Apart
<1>7. Converting'
  BY <1>0, <1>3, <1>4 DEF Converting, Busy
<1>8. Counted'
  <2>1. count = Cardinality(StrongKeys) /\ Cardinality(StrongKeys) \in Nat /\ IsFiniteSet(StrongKeys)
    BY <1>0, AtRest, StrongKeysFinite
  <2>2. CASE b
    <3>1. Cardinality(StrongKeys') = Cardinality(StrongKeys) - 1
      BY <1>4, <2>1, <2>2, FS_RemoveElement
    <3> QED
      BY <1>0, <1>3, <2>1, <2>2, <3>1, SMTT(30) DEF Counted
  <2>3. CASE ~b
    <3>1. StrongKeys' = StrongKeys
      BY <1>4, <2>3
    <3> QED
      BY <1>0, <1>3, <2>1, <2>3, <3>1, SMTT(30) DEF Counted
  <2> QED
    BY <2>2, <2>3
<1>9. OpOK'
  BY <1>0, <1>3, <1>4 DEF OpOK, Keyed, Has, Is
<1>10. Tracked'
  <2>1. \A o : Kept(o)' => Kept(o)
    BY <1>0, <1>3, <1>4 DEF Kept
  <2>2. handed' \subseteq handed
    BY <1>0
  <2> QED
    BY <1>0, <1>4, <2>1, <2>2 DEF Tracked, Keyed, Has
<1> QED
  BY <1>5, <1>6, <1>7, <1>8, <1>9, <1>10, ZenonT(60) DEF CacheInv

LEMMA EndDelOK ==
  ASSUME IInv, CacheInv, EndDel
  PROVE  CacheInv'
<1>0. CacheTypeOK /\ Apart /\ Counted /\ OpOK /\ op.name = "del" /\ Leaving = swept
  BY OpSets DEF CacheInv, EndDel
<1>1. PICK k : k = op.key
  OBVIOUS
<1>2. k \in Keyed /\ k \notin StrongKeys
  BY <1>0, <1>1, OpFields DEF OpOK, Keyed, StrongKeys
<1>3. count' = Cardinality(StrongKeys)
  <2>1. Cardinality(StrongKeys) \in Nat /\ op.strong \in BOOLEAN
    BY <1>0, StrongKeysFinite, OpFields
  <2>2. count = Cardinality(StrongKeys) + IF op.strong THEN 1 ELSE 0
    BY <1>0 DEF Counted
  <2>3. count' = IF op.strong THEN Decrement(count, 1) ELSE count
    BY DEF EndDel
  <2>4. CASE op.strong
    BY <2>1, <2>2, <2>3, <2>4, SMTT(30) DEF Decrement
  <2>5. CASE ~op.strong
    BY <2>1, <2>2, <2>3, <2>5, SMTT(30)
  <2> QED
    BY <2>4, <2>5
<1>4. \A j \in Keyed : at[slot[j]].st \in {"strong", "weak"}
  BY <1>0, SlotOK DEF EndDel, Settled, Keyed
<1>5. \A h \in Handles : at[h].st # "locking"
  BY <1>0 DEF Apart
<1>6. UNCHANGED <<at, life, keyOf, swept, handed>>
  BY DEF EndDel, refVars
<1>7. CASE /\ ~op.valid \/ Word(slot[k]).strong = 0
           /\ slot' = [slot EXCEPT ![k] = NoHandle] /\ op' = Dropping(<<slot[k]>>)
  <2>1. /\ slot' = [j \in Keys |-> IF j \in {k} THEN NoHandle ELSE slot[j]]
        /\ op' \in Ops /\ op'.name \in {"idle", "dropping"} /\ swept' \subseteq Handles
        /\ Leaving' = Leaving \cup {slot[k]}
        /\ \A j \in Keyed \ {k} : slot[j] \notin Leaving'
    BY <1>0, <1>2, <1>6, <1>7, TakeOut
  <2>2. StrongKeys \ {k} = StrongKeys
    BY <1>2
  <2>3. count' = Cardinality(StrongKeys \ {k})
    BY <1>3, <2>2
  <2>4. \A j \in {k} \cap Keyed : EntryObj(j) \in handed' => StrongOf(EntryObj(j)) \subseteq Leaving'
    BY <1>0, <1>1, <1>2, <1>6, <1>7, EntryCount, ZenonT(60) DEF OpOK
  <2>5. \A g \in Leaving \ Leaving' : at[g].st = "null"
    BY <2>1
  <2> QED
    BY <1>4, <1>5, <1>6, <2>1, <2>3, <2>4, <2>5, Removed, ZenonT(60)
<1>8. CASE slot' = slot /\ op' = Idle
  <2>1. PICK R : R = {}
    OBVIOUS
  <2>2. /\ slot' = [j \in Keys |-> IF j \in R THEN NoHandle ELSE slot[j]]
        /\ StrongKeys \ R = StrongKeys /\ Keyed \ R = Keyed /\ R \cap Keyed = {}
    BY <1>0, <1>8, <2>1 DEF CacheTypeOK
  <2>3. op' \in Ops /\ op'.name = "idle" /\ Leaving' = swept
    BY <1>6, <1>8 DEF Ops, Idle, Leaving
  <2>4. \A j \in Keyed : slot[j] \notin Leaving'
    BY <1>0, <2>3, SlotOK DEF Apart, Keyed
  <2>5. /\ count' = Cardinality(StrongKeys \ R)
        /\ \A j \in Keyed \ R : at[slot[j]].st \in {"strong", "weak"} /\ slot[j] \notin Leaving'
        /\ \A j \in R \cap Keyed : StrongOf(EntryObj(j)) \subseteq Leaving'
        /\ \A g \in Leaving \ Leaving' : at[g].st = "null"
    BY <1>0, <1>3, <1>4, <2>2, <2>3, <2>4, ZenonT(60)
  <2> QED
    BY <1>0, <1>5, <1>6, <2>2, <2>3, <2>5, Removed, ZenonT(60) DEF CacheTypeOK
<1> QED
  BY <1>1, <1>7, <1>8 DEF EndDel

LEMMA ClearOK ==
  ASSUME IInv, CacheInv, Clear
  PROVE  CacheInv'
<1>0. CacheTypeOK /\ Apart /\ op.name = "idle" /\ Leaving = swept
  BY OpSets DEF CacheInv, Clear, Idle
<1>1. PICK hs \in Bijection(1..Cardinality(Entries), Entries) : op' = Dropping(hs)
  BY DEF Clear
<1>2. hs \in Seq(Handles)
  <2>1. Entries \subseteq Handles
    BY <1>0 DEF CacheTypeOK, Entries, Has
  <2>2. PICK n : n = Cardinality(Entries)
    OBVIOUS
  <2>3. hs \in [1..n -> Entries] /\ n \in Nat
    <3>1. IsFiniteSet(Entries)
      BY <2>1, CountsFit, FS_Subset
    <3> QED
      BY <2>2, <3>1, FS_CardinalityType DEF Bijection, Injection
  <2> QED
    BY <2>1, <2>3, SMTT(30)
<1>3. /\ op' \in Ops /\ op'.name \in {"idle", "dropping"} /\ Leaving' = swept \cup Range(hs)
  BY <1>1, <1>2, DroppingOK DEF Clear
<1>4. /\ UNCHANGED <<at, life, keyOf, swept>> /\ handed' = handed \ {at[h].obj : h \in Entries}
      /\ slot' = [k \in Keys |-> NoHandle] /\ count' = 0
  BY DEF Clear, refVars
<1>5. /\ Keyed \ Keys = {} /\ StrongKeys \ Keys = {}
      /\ slot' = [k \in Keys |-> IF k \in Keys THEN NoHandle ELSE slot[k]]
  BY <1>4 DEF Keyed, StrongKeys
<1>6. count' = Cardinality(StrongKeys \ Keys)
  BY <1>4, <1>5, FS_EmptySet
<1>7. \A k \in Keys \cap Keyed : EntryObj(k) \notin handed'
  BY <1>0, <1>4, SlotOK DEF Keyed, EntryObj
<1>8. \A h \in Handles : at[h].st # "locking"
  BY <1>0 DEF Apart
<1>9. /\ \A k \in Keyed \ Keys : at[slot[k]].st \in {"strong", "weak"} /\ slot[k] \notin Leaving'
      /\ \A g \in Leaving \ Leaving' : at[g].st = "null"
      /\ handed' \subseteq handed /\ swept' \subseteq Handles
  BY <1>0, <1>3, <1>4, <1>5 DEF CacheTypeOK
<1> QED
  BY <1>3, <1>4, <1>5, <1>6, <1>7, <1>8, <1>9, Removed, ZenonT(60)

\* What a loop or a destructor makes of its handle.
LEMMA ContinueShape ==
  ASSUME IInv, NEW h \in Handles, Continue(h),
         at[h].st \notin {"locking", "strengthening", "both"}
  PROVE  /\ at[h].st \notin {"strong", "weak", "null"}
         /\ \E r : /\ at' = [at EXCEPT ![h] = r]
                   /\ r.st \in StrongStates => at[h].st \in StrongStates /\ r.obj = at[h].obj
                   /\ r.st \notin {"strong", "strengthening", "both", "locking"}
                   /\ at[h].st \in {"weakening", "weakPartial"} =>
                        /\ r.st \in {"weak", "weakening", "weakPartial"}
                        /\ r.obj = at[h].obj
<1>1. /\ DropStep(h) \/ WeakenStep(h) \/ Await(h) \/ PartialDone(h) \/ Destroy(h)
      /\ at[h].st \in {"dropping", "weakening", "await", "partial", "weakPartial", "destroy"}
  BY DEF Continue, LockStep, StrengthenStep, ReleaseOldWeak, DropStep, WeakenStep, Await,
         PartialDone, Destroy, Is
<1>2. at[h].obj \in Objects /\ at[h] \in Records
  BY <1>1, OnObject DEF IInv, TypeOK, Records
<1>3. CASE Reloads(h) /\ at[h].st \in {"dropping", "weakening"}
  <2>1. PICK r : r = [at[h] EXCEPT !.seen = Word(h)]
    OBVIOUS
  <2>2. r.st = at[h].st /\ r.obj = at[h].obj /\ at' = [at EXCEPT ![h] = r]
    BY <1>2, <1>3, <2>1 DEF Reloads, Records
  <2> QED
    BY <1>3, <2>2 DEF StrongStates
<1>4. ASSUME NEW st, Becomes(h, st),
             st \in {"null", "destroy", "partial", "weak", "weakPartial"},
             at[h].st \in {"weakening", "weakPartial"} => st \in {"weak", "weakPartial"}
      PROVE  \E r : /\ at' = [at EXCEPT ![h] = r]
                    /\ r.st \notin StrongStates /\ r.st \notin {"strengthening", "locking"}
                    /\ at[h].st \in {"weakening", "weakPartial"} =>
                         r.st \in {"weak", "weakPartial"} /\ r.obj = at[h].obj
  <2>1. PICK r : r = IF st = "null" THEN Null ELSE Holding(st, at[h].obj)
    OBVIOUS
  <2>2. at' = [at EXCEPT ![h] = r] /\ st \in States
    BY <1>4, <2>1 DEF Becomes, States
  <2>3. r.st = st /\ (st # "null" => r.obj = at[h].obj)
    BY <1>2, <2>1, <2>2, NullIsRecord, HoldingIsRecord
  <2> QED
    BY <1>4, <2>2, <2>3 DEF StrongStates
<1>5. \/ Reloads(h) /\ at[h].st \in {"dropping", "weakening"}
      \/ \E st :
           /\ Becomes(h, st) /\ st \in {"null", "destroy", "partial", "weak", "weakPartial"}
           /\ at[h].st \in {"weakening", "weakPartial"} => st \in {"weak", "weakPartial"}
  <2>1. CASE DropStep(h)
    BY <2>1 DEF DropStep, AfterDrop, Is
  <2>2. CASE WeakenStep(h)
    BY <2>2 DEF WeakenStep, AfterWeaken, Is
  <2>3. CASE Await(h) \/ Destroy(h)
    BY <2>3 DEF Await, Destroy, Is
  <2>4. CASE PartialDone(h)
    BY <2>4 DEF PartialDone, Is
  <2> QED
    BY <1>1, <2>1, <2>2, <2>3, <2>4
<1> QED
  BY <1>1, <1>3, <1>4, <1>5 DEF StrongStates

\* The conversion of an entry goes on, under a sweep or del.
LEMMA EntryGoesOn ==
  ASSUME IInv, CacheInv, NEW k, k \in Keyed, GoOn(slot[k])
  PROVE  CacheInv'
<1>0. /\ TypeOK /\ CacheTypeOK /\ Apart /\ Converting /\ Counted /\ OpOK /\ Tracked
      /\ UNCHANGED <<keyOf, slot, count, op, swept>>
      /\ handed' = {o \in handed : life'[o] # "freed"}
  BY DEF IInv, CacheInv, GoOn
<1>1. PICK h : h = slot[k] /\ h \in Handles
  BY <1>0, SlotOK DEF Keyed
<1>2. at[h].st \in {"strong", "weak", "weakening", "weakPartial"}
  BY <1>0, <1>1 DEF Apart
<1>3. PICK r : /\ at' = [at EXCEPT ![h] = r]
               /\ r.st \in StrongStates => at[h].st \in StrongStates /\ r.obj = at[h].obj
               /\ r.st \in {"weak", "weakening", "weakPartial"} /\ r.obj = at[h].obj
               /\ at[h].st \in {"weakening", "weakPartial"}
  <2>1. Continue(h)
    BY <1>1 DEF GoOn
  <2> QED
    BY <1>1, <1>2, <2>1, ContinueShape
<1>4. at'[h] = r /\ \A g \in Handles \ {h} : at'[g] = at[g]
  BY <1>0, <1>1, <1>3 DEF TypeOK
<1>5. \A j \in Keyed \ {k} : at'[slot[j]] = at[slot[j]]
  BY <1>0, <1>1, <1>4, SlotOK DEF Apart, Keyed
<1>6. /\ Keyed' = Keyed /\ Entries' = Entries /\ OpHandles' = OpHandles /\ Leaving' = Leaving
  BY <1>0, SameOp DEF Keyed, Entries, Has, Leaving
<1>7. \A j \in Keyed : EntryObj(j)' = EntryObj(j)
  BY <1>0, <1>1, <1>3, <1>4, <1>5, ZenonT(60) DEF EntryObj
<1>8. StrongKeys' = StrongKeys
  <2>1. \A j \in Keys : j \in StrongKeys' <=> j \in Keyed /\ at'[slot[j]].st = "strong"
    BY <1>0 DEF StrongKeys, Keyed, Is, Has
  <2>2. \A j \in Keys : j \in StrongKeys <=> j \in Keyed /\ at[slot[j]].st = "strong"
    BY DEF StrongKeys, Keyed, Is, Has
  <2>3. \A j \in Keys : j \in StrongKeys' <=> j \in StrongKeys
    BY <1>1, <1>3, <1>4, <1>5, <2>1, <2>2, SMTT(30)
  <2> QED
    BY <2>3 DEF StrongKeys
<1>9. \A o : StrongOf(o)' \subseteq StrongOf(o)
  BY <1>0, <1>1, <1>3, Shed
<1>10. Busy(k) /\ op.name # "checking"
  BY <1>0, <1>1, <1>3 DEF Converting, Busy
<1>11. CacheTypeOK'
  BY <1>0, <1>6 DEF CacheTypeOK
<1>12. Apart'
  <2>1. \A g \in Handles : /\ at'[g].st \notin {"strengthening", "both"}
                           /\ at'[g].st = "locking" => op'.name = "checking" /\ op'.got = g
    BY <1>0, <1>3, <1>4, SMT DEF Apart
  <2>2. \A j \in Keyed : at'[slot[j]].st \in {"strong", "weak", "weakening", "weakPartial"}
    BY <1>0, <1>1, <1>3, <1>4, <1>5 DEF Apart
  <2> QED
    BY <1>0, <1>6, <1>7, <2>1, <2>2, ZenonT(60) DEF Apart
<1>13. Converting'
  BY <1>0, <1>5, <1>6, <1>10 DEF Converting, Busy
<1>14. Counted'
  BY <1>0, <1>8 DEF Counted
<1>15. OpOK'
  <2>1. op.name = "sweep" => \A j \in op.gone : StrongOf(EntryObj(j))' \subseteq {slot[j]}
    BY <1>0, <1>7, <1>9, SMTT(30) DEF OpOK, StrongOf
  <2>2. op.name = "del" => op.key = k /\ at'[slot[op.key]].st # "strong"
    BY <1>1, <1>3, <1>4, <1>10 DEF Busy
  <2> QED
    BY <1>0, <1>6, <1>7, <1>10, <2>1, <2>2, ZenonT(60) DEF OpOK, Is, Has, Keyed
<1>16. Tracked'
  <2>1. \A o : Kept(o)' => Kept(o)
    BY <1>6, <1>9 DEF Kept
  <2> QED
    BY <1>0, <1>6, <1>7, <2>1 DEF Tracked, Keyed, Has
<1> QED
  BY <1>11, <1>12, <1>13, <1>14, <1>15, <1>16, ZenonT(60) DEF CacheInv

\* lock() on a weak entry goes on: another look, a strong pointer, or none because no
\* strong holder was left.
LEMMA LockGoesOn ==
  ASSUME IInv, CacheInv, NEW h \in Handles, Is(h, "locking"), GoOn(h)
  PROVE  CacheInv'
<1>0. /\ TypeOK /\ CacheTypeOK /\ Apart /\ Converting /\ Counted /\ OpOK /\ Tracked
      /\ UNCHANGED <<keyOf, slot, count, op, swept>>
      /\ handed' = {o \in handed : life'[o] # "freed"}
  BY DEF IInv, CacheInv, GoOn
<1>1. LockStep(h) /\ at[h].st = "locking"
  BY DEF GoOn, Continue, DropStep, WeakenStep, StrengthenStep, ReleaseOldWeak, Await,
         PartialDone, Destroy, Is
<1>2. op.name = "checking" /\ op.got = h
  BY <1>0, <1>1 DEF Apart
<1>3. /\ op.key \in Keyed /\ h \notin Entries /\ op.data # h /\ at[h].obj = EntryObj(op.key)
      /\ h \notin swept
  BY <1>0, <1>1, <1>2, Checking DEF OpOK, Is
<1>4. PICK o : o = at[h].obj
  OBVIOUS
<1>5. /\ o \in Objects /\ life[o] # "freed" /\ keyOf[o] = op.key /\ EntryObj(op.key) = o
      /\ handed' = handed /\ life' = life
  <2>1. life' = life
    BY <1>1 DEF LockStep, Reloads
  <2>2. handed' = handed
    BY <1>0, <2>1 DEF Tracked
  <2> QED
    BY <1>3, <1>4, <2>1, <2>2, EntryHeld
<1>6. CASE Becomes(h, "strong")
  <2>1. at' = [at EXCEPT ![h] = Holding("strong", o)]
    BY <1>4, <1>6 DEF Becomes
  <2>2. Holding("strong", o).st = "strong" /\ Holding("strong", o).obj = o
    BY <1>5, StrongIs
  <2>3. at[h].st \notin StrongStates /\ \A p \in handed : life'[p] # "freed"
    BY <1>0, <1>1, <1>5 DEF StrongStates, Tracked
  <2> QED
    BY <1>0, <1>1, <1>2, <1>3, <1>4, <1>5, <2>1, <2>2, <2>3, Joins, ZenonT(60) DEF CacheTypeOK
<1>7. ASSUME NEW r, at' = [at EXCEPT ![h] = r],
             \/ r.st = "locking" /\ r.obj = o
             \/ r.st = "null" /\ StrongOf(o) = {}
      PROVE  CacheInv'
  <2>1. at'[h] = r /\ \A g \in Handles \ {h} : at'[g] = at[g]
    BY <1>0, <1>7 DEF TypeOK
  <2>2. \A k \in Keyed : at'[slot[k]] = at[slot[k]]
    BY <1>0, <1>3, <2>1, SlotOK DEF Keyed
  <2>3. /\ Keyed' = Keyed /\ Entries' = Entries /\ StrongKeys' = StrongKeys
        /\ \A k \in Keyed : EntryObj(k)' = EntryObj(k)
    BY <1>0, <2>2, SameEntries
  <2>4. OpHandles' = OpHandles /\ Leaving' = Leaving
    BY <1>0, SameOp DEF Leaving
  <2>5. \A p : StrongOf(p)' \subseteq StrongOf(p)
    BY <1>0, <1>7, Shed DEF StrongStates
  <2>6. CacheTypeOK'
    BY <1>0, <1>5, <2>3 DEF CacheTypeOK
  <2>7. Apart'
    <3>1. \A g \in Handles : /\ at'[g].st \notin {"strengthening", "both"}
                             /\ at'[g].st = "locking" => op'.name = "checking" /\ op'.got = g
      BY <1>0, <1>2, <1>7, <2>1, ZenonT(60) DEF Apart
    <3> QED
      BY <1>0, <2>2, <2>3, <2>4, <3>1, SMTT(30) DEF Apart
  <2>8. Converting' /\ Counted'
    BY <1>0, <2>2, <2>3 DEF Converting, Busy, Counted
  <2>9. OpOK'
    <3>1. \/ at'[h].st = "locking" /\ at'[h].obj = EntryObj(op.key)'
          \/ at'[h].st = "null" /\ StrongOf(EntryObj(op.key))' = {}
      <4>1. EntryObj(op.key)' = o
        BY <1>0, <1>3, <1>5, <2>3 DEF EntryObj
      <4>2. StrongOf(o) = {} => StrongOf(EntryObj(op.key))' = {}
        BY <2>5, <4>1 DEF StrongOf
      <4> QED
        BY <1>7, <2>1, <4>1, <4>2
    <3>2. op.data # NoHandle => at'[op.data] = at[op.data]
      BY <1>0, <1>2, <1>3, <2>1, OpFields, ZenonT(60)
    <3> QED
      BY <1>0, <1>2, <1>3, <2>2, <3>1, <3>2, ZenonT(60) DEF OpOK, Is, Has
  <2>10. Tracked'
    <3>1. \A p : Kept(p)' => Kept(p)
      BY <2>4, <2>5 DEF Kept
    <3> QED
      BY <1>0, <1>5, <2>3, <3>1 DEF Tracked, Keyed, Has
  <2> QED
    BY <2>6, <2>7, <2>8, <2>9, <2>10, ZenonT(60) DEF CacheInv
<1>8. CASE Word(h).strong = 0 /\ Becomes(h, "null")
  <2>1. StrongOf(o) = {}
    <3>1. word[o].strong = Cardinality(StrongOf(o)) /\ StrongOf(o) \in SUBSET Handles
      BY <1>5, Holders DEF IInv, ObjectOK
    <3> QED
      BY <1>4, <1>8, <3>1, CardZero DEF Word
  <2> QED
    BY <1>7, <1>8, <2>1, NullIsRecord DEF Becomes
<1>9. CASE Reloads(h)
  <2>1. PICK r : r = [at[h] EXCEPT !.seen = Word(h)]
    OBVIOUS
  <2>2. r.st = "locking" /\ r.obj = o /\ at' = [at EXCEPT ![h] = r]
    BY <1>0, <1>1, <1>4, <1>9, <2>1 DEF Reloads, TypeOK
  <2> QED
    BY <1>7, <2>2
<1> QED
  BY <1>1, <1>6, <1>8, <1>9 DEF LockStep

LEMMA GoOnOK ==
  ASSUME IInv, CacheInv, NEW h \in Handles, GoOn(h)
  PROVE  CacheInv'
<1>0. at[h].st \notin {"strengthening", "both"}
  BY DEF CacheInv, Apart
<1>1. CASE h \in Entries
  BY <1>1, EntryGoesOn DEF Entries, Keyed
<1>2. CASE Is(h, "locking")
  BY <1>2, LockGoesOn
<1>3. CASE h \notin Entries /\ ~Is(h, "locking")
  <2>1. /\ Continue(h) /\ handed' = {o \in handed : life'[o] # "freed"}
        /\ UNCHANGED <<keyOf, slot, count, op, swept>>
    BY DEF GoOn
  <2>2. at[h].st \notin {"strong", "weak", "null", "locking"}
    BY <1>0, <1>3, <2>1, ContinueShape DEF Is
  <2>3. PICK r : /\ at' = [at EXCEPT ![h] = r]
                 /\ r.st \in StrongStates => at[h].st \in StrongStates /\ r.obj = at[h].obj
                 /\ r.st \notin {"strengthening", "both", "locking"}
    BY <1>0, <1>3, <2>1, ContinueShape DEF Is
  <2>4. op.name = "checking" => h \notin {op.data, op.got}
    BY <2>2, CountsFit DEF CacheInv, OpOK, Is
  <2> QED
    BY <1>3, <2>1, <2>3, <2>4, Beside
<1> QED
  BY <1>1, <1>2, <1>3
-----------------------------------------------------------------------------
LEMMA CacheInitOK ==
  ASSUME CacheInit
  PROVE  CacheInv
<1>1. /\ \A k \in Keys : ~Has(k)
      /\ Keyed = {} /\ StrongKeys = {} /\ Entries = {}
  BY DEF CacheInit, Has, Keyed, StrongKeys, Entries
<1>2. op = Idle /\ op.name = "idle" /\ op \in Ops
  BY DEF CacheInit, Idle, Ops
<1>3. \A h \in Handles : at[h].st = "null"
  BY NullIsRecord DEF CacheInit, Init
<1>4. IsFiniteSet(Keyed) /\ Cardinality(StrongKeys) = 0
  BY <1>1, FS_EmptySet
<1>5. CacheTypeOK
  BY <1>2, <1>4 DEF CacheInit, CacheTypeOK
<1>6. Apart
  BY <1>1, <1>3 DEF Apart
<1>7. Converting /\ Counted /\ OpOK /\ Tracked
  BY <1>1, <1>2, <1>4 DEF CacheInit, Converting, Counted, OpOK, Tracked
<1> QED
  BY <1>5, <1>6, <1>7 DEF CacheInv

LEMMA CacheStutter ==
  ASSUME CacheInv, UNCHANGED vars
  PROVE  CacheInv'
<1>1. UNCHANGED <<at, life, word, keyOf, slot, count, op, swept, handed>>
  BY DEF vars, refVars, cacheVars
<1>2. /\ Keyed' = Keyed /\ Entries' = Entries /\ StrongKeys' = StrongKeys
      /\ \A k \in Keyed : EntryObj(k)' = EntryObj(k)
  BY <1>1, SameEntries
<1>3. OpHandles' = OpHandles /\ Leaving' = Leaving /\ \A o : StrongOf(o)' = StrongOf(o)
  BY <1>1, SameOp DEF Leaving, StrongOf
<1>4. CacheTypeOK' /\ Apart'
  BY <1>1, <1>2, <1>3, ZenonT(60) DEF CacheInv, CacheTypeOK, Apart
<1>5. Converting' /\ Counted'
  BY <1>1, <1>2 DEF CacheInv, Converting, Busy, Counted
<1>6. OpOK'
  BY <1>1, <1>2 DEF CacheInv, OpOK, StrongOf, EntryObj, Is, Has
<1>7. Tracked'
  <2>1. \A o : Kept(o)' => Kept(o)
    BY <1>3 DEF Kept
  <2> QED
    BY <1>1, <2>1 DEF CacheInv, Tracked, EntryObj, Has
<1> QED
  BY <1>4, <1>5, <1>6, <1>7 DEF CacheInv

LEMMA CacheNextOK ==
  ASSUME IInv, CacheInv, [CacheNext]_vars
  PROVE  IInv' /\ CacheInv' /\ Abstract
<1>1. CacheInv'
  <2>1. ASSUME NEW k \in Keys,
               \/ NewNode(k) \/ FetchHit(k) \/ SweepKey(k) \/ Check(k, NoHandle)
               \/ \E d \in Handles : Check(k, d) \/ Insert(k, d) \/ Replace(k, d)
               \/ \E valid \in BOOLEAN : StartDel(k, valid)
        PROVE  CacheInv'
    BY <2>1, NewNodeOK, FetchHitOK, SweepKeyOK, CheckOK, InsertOK, StartDelOK, ZenonT(60)
  <2>2. ASSUME NEW h \in Handles, ShareNode(h) \/ DropNode(h) \/ DropSwept(h) \/ GoOn(h)
        PROVE  CacheInv'
    BY <2>2, ShareNodeOK, DropNodeOK, DropSweptOK, GoOnOK, ZenonT(60)
  <2>3. CASE Revive \/ Expire \/ DropHeld \/ StartSweep \/ EndSweep \/ EndDel \/ Clear
    BY <2>3, ReviveOK, ExpireOK, DropHeldOK, StartSweepOK, EndSweepOK, EndDelOK, ClearOK, ZenonT(60)
  <2> QED
    BY <2>1, <2>2, <2>3, CacheStutter DEF CacheNext
<1>2. [RefNext]_refVars
  BY CacheRef DEF vars
<1>3. \A h \in Handles : ~Is(h, "strengthening")
  BY DEF CacheInv, Apart, Is
<1> QED
  BY <1>1, <1>2, <1>3, NextOK

LEMMA CacheInvariance == CacheSpec => [](IInv /\ CacheInv)
<1>1. CacheInit => IInv /\ CacheInv
  BY InitOK, CacheInitOK DEF CacheInit
<1>2. IInv /\ CacheInv /\ [CacheNext]_vars => IInv' /\ CacheInv'
  BY CacheNextOK
<1> QED
  BY <1>1, <1>2, PTL DEF CacheSpec

\* The entries, the clients and the sweeps together share objects as the pointers
\* promise, in every build: the cache never upgrades a union in place, the one operation
\* that needs debug_assert to evaluate its arguments.
THEOREM CacheImplementsSharing == CacheSpec => ImplementsSharedObject
<1>1. CacheInit => Shared!Init
  BY InitOK DEF CacheInit
<1>2. IInv /\ CacheInv /\ [CacheNext]_vars => [Shared!Next]_(Shared!vars)
  BY CacheNextOK DEF Abstract
<1> QED
  BY <1>1, <1>2, CacheInvariance, PTL DEF CacheSpec, ImplementsSharedObject, Shared!Spec

\* cache_count is the number of strong entries whenever the mutex is free; the
\* saturating subtractions of sweep and del never saturate.
THEOREM CountStaysExact == CacheSpec => []CountIsExact
<1>1. CacheInv => CountIsExact
  BY AtRest, SMTT(30) DEF CountIsExact, StrongKeys, Idle
<1> QED
  BY <1>1, CacheInvariance, PTL

\* A node that a client was given and still holds is the node the cache gives out for
\* its key, whatever sweeps, expiries and replacements of other nodes do.
THEOREM NodesStayCanonical == CacheSpec => []CanonicalIsTracked
<1>1. CacheInv => CanonicalIsTracked
  <2> SUFFICES ASSUME CacheInv, NEW o \in handed, NEW h \in StrongOf(o), Client(h)
               PROVE  Has(keyOf[o]) /\ at[slot[keyOf[o]]].obj = o
    BY DEF CanonicalIsTracked
  <2>1. Kept(o)
    BY ClientIs DEF Kept
  <2> QED
    BY <2>1 DEF CacheInv, Tracked, EntryObj
<1> QED
  BY <1>1, CacheInvariance, PTL
=============================================================================
