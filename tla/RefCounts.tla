----------------------------- MODULE RefCounts ------------------------------
(***************************************************************************)
(* IntrusiveRefCounts and the pointers over it: SharedIntrusive,           *)
(* WeakIntrusive and SharedWeakUnion.  One atomic word per object holds    *)
(* the strong count, the weak count and the two bits of the partial        *)
(* destruction; one step of the model is one access to the word.  Moving a *)
(* pointer or looking at a handle of one's own is no access and joins the  *)
(* step it belongs to.  A compare_exchange_weak that fails with the word   *)
(* it expected changes nothing and is tried again: a stutter.              *)
(***************************************************************************)
EXTENDS Integers, FiniteSets

CONSTANTS
    Handles,          \* pointers: SharedIntrusive, WeakIntrusive, SharedWeakUnion
    Objects,          \* allocations
    NoObject, NoHandle,
    MaxStrong,        \* the largest count the 16 bits hold
    MaxWeak,          \* the largest count the 14 bits hold
    DebugAssertions   \* whether debug_assert evaluates its arguments

\* No more handles than a count can hold; nothing in the code enforces it.
ASSUME CountsFit ==
    /\ IsFiniteSet(Handles) /\ Cardinality(Handles) \in Nat
    /\ MaxStrong \in Nat /\ MaxWeak \in Nat
    /\ Cardinality(Handles) <= MaxStrong /\ Cardinality(Handles) <= MaxWeak
    /\ NoObject \notin Objects /\ NoHandle \notin Handles
    /\ DebugAssertions \in BOOLEAN

VARIABLES
    word,   \* ref_counts of each object
    life,   \* what the destructors have left of each object
    at      \* each handle: its state, its object, the word last seen, whom it locks

refVars == <<word, life, at>>

Words == [strong : Int, weak : Int, started : BOOLEAN, finished : BOOLEAN]
NewWord == [strong |-> 1, weak |-> 0, started |-> FALSE, finished |-> FALSE]
Zero == [NewWord EXCEPT !.strong = 0]

\* RefCountPair::new(1, 1), the guess of checkout_strong_ref_from_weak.
Guess == [NewWord EXCEPT !.weak = 1]

\* null; holding; in the loop of release_strong_ref, add_weak_release_strong_ref or
\* checkout_strong_ref_from_weak (into another handle or in place); between the two
\* halves of convert_to_strong; in the partial destructor, after a drop or a
\* conversion; waiting for it to end; about to destroy.
States ==
    {"null", "strong", "weak", "dropping", "weakening", "locking", "strengthening",
     "both", "partial", "weakPartial", "await", "destroy"}
Null == [st |-> "null", obj |-> NoObject, seen |-> Zero, src |-> NoHandle]
Holding(st, o) == [Null EXCEPT !.st = st, !.obj = o]

Init ==
    /\ word = [o \in Objects |-> Zero]
    /\ life = [o \in Objects |-> "freed"]
    /\ at = [h \in Handles |-> Null]

Is(h, st) == at[h].st = st
Word(h) == word[at[h].obj]
Lent(h) == \E d \in Handles : Is(d, "locking") /\ at[d].src = h

\* fetch_add on the packed word: a full count carries into the next field.
AddWeak(w) ==
    IF w.weak < MaxWeak THEN [w EXCEPT !.weak = @ + 1]
    ELSE [w EXCEPT !.weak = 0, !.finished = ~@, !.started = IF w.finished THEN ~@ ELSE @]
AddStrong(w) ==
    IF w.strong < MaxStrong THEN [w EXCEPT !.strong = @ + 1]
    ELSE AddWeak([w EXCEPT !.strong = 0])
SubStrong(w) == [w EXCEPT !.strong = @ - 1]
SubWeak(w) == [w EXCEPT !.weak = @ - 1]

\* release_strong_ref: the word it tries to store, and what the caller must then do.
DroppedWord(w) ==
    IF w.strong = 1 /\ w.weak # 0 THEN [SubStrong(w) EXCEPT !.started = TRUE]
                                  ELSE SubStrong(w)
\* Mutated form: a lone strong reference is taken for one among weak ones.
MutAfterDrop(w) == IF w.strong # 1 THEN "null" ELSE "partial"
AfterDrop(w) ==
    IF w.strong # 1 THEN "null" ELSE IF w.weak = 0 THEN "destroy" ELSE "partial"

\* add_weak_release_strong_ref: the same for a handle that stays as a weak one.
WeakenedWord(w) ==
    IF w.strong = 1 /\ w.weak # 0 THEN [AddWeak(SubStrong(w)) EXCEPT !.started = TRUE]
                                  ELSE AddWeak(SubStrong(w))
AfterWeaken(w) == IF w.strong = 1 /\ w.weak # 0 THEN "weakPartial" ELSE "weak"

\* Mutated form: the last weak reference does not wait for the partial destructor.
MutAfterDropWeak(w) == IF w.weak # 1 \/ w.strong # 0 THEN "null" ELSE "destroy"

\* release_weak_ref, by the word it found: the last weak reference destroys, at once
\* if no partial destructor was ever due and otherwise after it.
AfterDropWeak(w) ==
    IF w.weak # 1 \/ w.strong # 0 THEN "null"
    ELSE IF ~w.started /\ ~w.finished THEN "destroy" ELSE "await"

\* h takes the state st, on its object unless that is null.
Becomes(h, st) ==
    at' = [at EXCEPT ![h] = IF st = "null" THEN Null ELSE Holding(st, at[h].obj)]
Stores(h, w) == word' = [word EXCEPT ![at[h].obj] = w]
Reloads(h) == at' = [at EXCEPT ![h].seen = Word(h)] /\ UNCHANGED <<word, life>>
\* started goes up with the call of the partial destructor.
Hollows(h, st) ==
    life' = IF st \in {"partial", "weakPartial"}
              THEN [life EXCEPT ![at[h].obj] = "hollowing"] ELSE life
-----------------------------------------------------------------------------
\* make_shared_intrusive: a new allocation, adopted without an increment.
Create(h, o) ==
    /\ Is(h, "null") /\ life[o] = "freed"
    /\ word' = [word EXCEPT ![o] = NewWord]
    /\ life' = [life EXCEPT ![o] = "intact"]
    /\ at' = [at EXCEPT ![h] = Holding("strong", o)]

\* Clone for SharedIntrusive and for a strong union, get_strong, the casts.
Clone(s, d) ==
    /\ Is(s, "strong") /\ Is(d, "null")
    /\ Stores(s, AddStrong(Word(s)))
    /\ at' = [at EXCEPT ![d] = Holding("strong", at[s].obj)]
    /\ UNCHANGED life

\* downgrade, and Clone for a weak union.
Downgrade(s, d) ==
    /\ at[s].st \in {"strong", "weak"} /\ Is(d, "null")
    /\ Stores(s, AddWeak(Word(s)))
    /\ at' = [at EXCEPT ![d] = Holding("weak", at[s].obj)]
    /\ UNCHANGED life

\* WeakIntrusive::lock: s stays borrowed while checkout_strong_ref_from_weak loops.
StartLock(s, d) ==
    /\ Is(s, "weak") /\ Is(d, "null")
    /\ at' = [at EXCEPT ![d] = [st |-> "locking", obj |-> at[s].obj, seen |-> Guess,
                                src |-> s]]
    /\ UNCHANGED <<word, life>>
LockStep(d) ==
    /\ Is(d, "locking") /\ UNCHANGED life
    /\ \/ Word(d) = at[d].seen /\ Stores(d, AddStrong(Word(d))) /\ Becomes(d, "strong")
       \/ Word(d) # at[d].seen /\ Word(d).strong = 0 /\ Becomes(d, "null")
            /\ UNCHANGED word
       \/ Word(d) # at[d].seen /\ Word(d).strong # 0 /\ Reloads(d)

\* Drop of a strong pointer: release_and_store(None) and release_strong_ref.
StartDrop(h) ==
    /\ Is(h, "strong")
    /\ at' = [at EXCEPT ![h].st = "dropping", ![h].seen = Word(h)]
    /\ UNCHANGED <<word, life>>
DropStep(h) ==
    /\ Is(h, "dropping")
    /\ \/ /\ Word(h) = at[h].seen
          /\ Stores(h, DroppedWord(Word(h)))
          /\ Becomes(h, AfterDrop(Word(h))) /\ Hollows(h, AfterDrop(Word(h)))
       \/ Word(h) # at[h].seen /\ Reloads(h)

\* Drop of a weak pointer: release_weak_ref.
DropWeak(h) ==
    /\ Is(h, "weak") /\ ~Lent(h)
    /\ Stores(h, SubWeak(Word(h)))
    /\ Becomes(h, AfterDropWeak(Word(h)))
    /\ UNCHANGED life

\* wait_until: the two bits only go up, so the two waits are one.
Await(h) ==
    /\ Is(h, "await") /\ Word(h).started /\ Word(h).finished
    /\ Becomes(h, "destroy") /\ UNCHANGED <<word, life>>

\* SharedWeakUnion::convert_to_weak.
StartWeaken(h) ==
    /\ Is(h, "strong")
    /\ at' = [at EXCEPT ![h].st = "weakening", ![h].seen = Word(h)]
    /\ UNCHANGED <<word, life>>
WeakenStep(h) ==
    /\ Is(h, "weakening")
    /\ \/ /\ Word(h) = at[h].seen
          /\ Stores(h, WeakenedWord(Word(h)))
          /\ Becomes(h, AfterWeaken(Word(h))) /\ Hollows(h, AfterWeaken(Word(h)))
       \/ Word(h) # at[h].seen /\ Reloads(h)

\* SharedWeakUnion::convert_to_strong: the weak reference it no longer needs is
\* released inside a debug_assert_eq.
StartStrengthen(h) ==
    /\ Is(h, "weak") /\ ~Lent(h)
    /\ at' = [at EXCEPT ![h].st = "strengthening", ![h].seen = Guess]
    /\ UNCHANGED <<word, life>>
StrengthenStep(h) ==
    /\ Is(h, "strengthening") /\ UNCHANGED life
    /\ \/ Word(h) = at[h].seen /\ Stores(h, AddStrong(Word(h)))
            /\ Becomes(h, IF DebugAssertions THEN "both" ELSE "strong")
       \/ Word(h) # at[h].seen /\ Word(h).strong = 0 /\ Becomes(h, "weak")
            /\ UNCHANGED word
       \/ Word(h) # at[h].seen /\ Word(h).strong # 0 /\ Reloads(h)
ReleaseOldWeak(h) ==
    /\ Is(h, "both")
    /\ Stores(h, SubWeak(Word(h))) /\ Becomes(h, "strong")
    /\ UNCHANGED life

\* The end of the partial destructor, and of one that unwinds: the guard's
\* partial_destructor_finished.
PartialDone(h) ==
    /\ at[h].st \in {"partial", "weakPartial"}
    /\ Stores(h, [Word(h) EXCEPT !.finished = TRUE])
    /\ Becomes(h, IF Is(h, "partial") THEN "null" ELSE "weak")
    /\ life' = [life EXCEPT ![at[h].obj] = "hollow"]

\* dispatch_final_destroy.
Destroy(h) ==
    /\ Is(h, "destroy")
    /\ life' = [life EXCEPT ![at[h].obj] = "freed"]
    /\ Stores(h, Zero) /\ Becomes(h, "null")

\* The steps that finish what a handle has begun.
Continue(h) ==
    \/ LockStep(h) \/ DropStep(h) \/ WeakenStep(h) \/ StrengthenStep(h)
    \/ ReleaseOldWeak(h) \/ Await(h) \/ PartialDone(h) \/ Destroy(h)

RefNext ==
    \E h \in Handles :
      \/ Continue(h)
      \/ StartDrop(h) \/ DropWeak(h) \/ StartWeaken(h) \/ StartStrengthen(h)
      \/ \E o \in Objects : Create(h, o)
      \/ \E d \in Handles \ {h} :
           Clone(h, d) \/ Downgrade(h, d) \/ StartLock(h, d)

RefSpec == Init /\ [][RefNext]_refVars
-----------------------------------------------------------------------------
StrongStates == {"strong", "dropping", "weakening", "both"}
WeakStates == {"weak", "strengthening", "both", "weakPartial"}
StrongOf(o) == {h \in Handles : at[h].obj = o /\ at[h].st \in StrongStates}
WeakOf(o) == {h \in Handles : at[h].obj = o /\ at[h].st \in WeakStates}

Shared == INSTANCE SharedObject WITH
            Holders <- Handles,
            strong <- [o \in Objects |-> StrongOf(o)],
            weak <- [o \in Objects |-> WeakOf(o)]

\* The word implements the sharing of objects: upgrades only while a strong holder
\* keeps the payload, the partial destructor run once when the last strong reference
\* leaves weak ones behind, and the allocation destroyed once, after everyone.
ImplementsSharedObject == Shared!Spec

\* An object that nobody holds is destroyed: the last holder to leave always knows,
\* and its wait for the partial destructor ends.
UnheldIsFreed ==
    \A o \in Objects : (StrongOf(o) = {} /\ WeakOf(o) = {}) ~> (life[o] = "freed")
=============================================================================
