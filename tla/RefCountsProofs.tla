-------------------------- MODULE RefCountsProofs ---------------------------
(***************************************************************************)
(* The reference counts implement the sharing of objects, for any number   *)
(* of handles that the fields of the word can count.                       *)
(***************************************************************************)
EXTENDS RefCounts, FiniteSetTheorems, TLAPS

Lives == {"freed", "intact", "hollowing", "hollow"}

TypeOK ==
    /\ word \in [Objects -> Words]
    /\ life \in [Objects -> Lives]
    /\ at \in [Handles -> [st : States, obj : Objects \cup {NoObject}, seen : Words,
                           src : Handles \cup {NoHandle}]]

\* What the state of a handle says of its object.
HandleOn(h, o) ==
    /\ life[o] # "freed"
    /\ at[h].st = "locking" =>
         at[h].src \in Handles /\ at[at[h].src].st = "weak" /\ at[at[h].src].obj = o
    /\ at[h].st \in {"partial", "weakPartial"} => life[o] = "hollowing"
    /\ at[h].st = "await" => life[o] \in {"hollowing", "hollow"}
    /\ at[h].st = "destroy" => life[o] \in {"intact", "hollow"}
    /\ at[h].st \in {"await", "destroy"} => StrongOf(o) = {} /\ WeakOf(o) = {}

HandleOK(h) ==
    /\ at[h].st = "null" <=> at[h].obj = NoObject
    /\ at[h].st \in {"locking", "strengthening"} => at[h].seen.strong # 0
    /\ \A o \in Objects : at[h].obj = o => HandleOn(h, o)

\* The word counts the holders and knows what the destructors have done.
ObjectOK(o) ==
    /\ life[o] # "freed" =>
         /\ word[o].strong = Cardinality(StrongOf(o))
         /\ word[o].weak = Cardinality(WeakOf(o))
         /\ word[o].started <=> life[o] \in {"hollowing", "hollow"}
         /\ word[o].finished <=> life[o] = "hollow"
    /\ StrongOf(o) # {} => life[o] = "intact"

\* One partial destructor and one destroyer per object.
OnePer(states) ==
    \A g, h \in Handles :
      at[g].st \in states /\ at[h].st \in states /\ at[g].obj = at[h].obj => g = h

IInv ==
    /\ TypeOK
    /\ \A h \in Handles : HandleOK(h)
    /\ \A o \in Objects : ObjectOK(o)
    /\ OnePer({"partial", "weakPartial"}) /\ OnePer({"await", "destroy"})
-----------------------------------------------------------------------------
LEMMA CardType ==
  ASSUME NEW S \in SUBSET Handles
  PROVE  IsFiniteSet(S) /\ Cardinality(S) \in Nat /\ Cardinality(S) <= Cardinality(Handles)
BY CountsFit, FS_Subset, FS_CardinalityType

\* One more holder, and still no more than the word can count.
LEMMA CardAdd ==
  ASSUME NEW S \in SUBSET Handles, NEW h \in Handles, h \notin S
  PROVE  /\ Cardinality(S \cup {h}) = Cardinality(S) + 1
         /\ Cardinality(S) \in Nat
         /\ Cardinality(S) < MaxStrong /\ Cardinality(S) < MaxWeak
<1>1. IsFiniteSet(S) /\ Cardinality(S) \in Nat
  BY CardType
<1>2. Cardinality(S \cup {h}) = Cardinality(S) + 1
  BY <1>1, FS_AddElement, Zenon
<1>3. Cardinality(S \cup {h}) <= Cardinality(Handles)
  <2>1. S \cup {h} \in SUBSET Handles
    OBVIOUS
  <2> QED
    BY <2>1, CardType
<1> QED
  BY <1>1, <1>2, <1>3, CountsFit

LEMMA CardDel ==
  ASSUME NEW S \in SUBSET Handles, NEW h \in S
  PROVE  /\ Cardinality(S \ {h}) = Cardinality(S) - 1
         /\ Cardinality(S) \in Nat /\ Cardinality(S) >= 1
         /\ Cardinality(S) = 1 <=> S = {h}
<1>1. IsFiniteSet(S) /\ Cardinality(S) \in Nat
  BY CardType
<1>2. Cardinality(S \ {h}) = Cardinality(S) - 1
  BY <1>1, FS_RemoveElement, Zenon
<1>3. IsFiniteSet(S \ {h}) /\ Cardinality(S \ {h}) \in Nat
  BY <1>1, CardType
<1>4. Cardinality(S \ {h}) = 0 <=> S \ {h} = {}
  BY <1>3, FS_EmptySet
<1>5. S \ {h} = {} <=> S = {h}
  OBVIOUS
<1> QED
  BY <1>1, <1>2, <1>3, <1>4, <1>5

LEMMA CardZero ==
  ASSUME NEW S \in SUBSET Handles
  PROVE  Cardinality(S) = 0 <=> S = {}
BY CardType, FS_EmptySet

\* The holders of every object after one handle has changed.
LEMMA Change ==
  ASSUME TypeOK, NEW h \in Handles, NEW r, at' = [at EXCEPT ![h] = r]
  PROVE  \A o \in Objects :
           /\ StrongOf(o)' = IF r.obj = o /\ r.st \in StrongStates
                               THEN StrongOf(o) \cup {h} ELSE StrongOf(o) \ {h}
           /\ WeakOf(o)' = IF r.obj = o /\ r.st \in WeakStates
                               THEN WeakOf(o) \cup {h} ELSE WeakOf(o) \ {h}
<1> SUFFICES ASSUME NEW o \in Objects
             PROVE  /\ StrongOf(o)' = IF r.obj = o /\ r.st \in StrongStates
                                        THEN StrongOf(o) \cup {h} ELSE StrongOf(o) \ {h}
                    /\ WeakOf(o)' = IF r.obj = o /\ r.st \in WeakStates
                                        THEN WeakOf(o) \cup {h} ELSE WeakOf(o) \ {h}
  OBVIOUS
<1>1. at'[h] = r /\ \A g \in Handles : g # h => at'[g] = at[g]
  BY DEF TypeOK
<1>2. StrongOf(o)' = {g \in Handles : at'[g].obj = o /\ at'[g].st \in StrongStates}
  BY DEF StrongOf, StrongStates
<1>3. WeakOf(o)' = {g \in Handles : at'[g].obj = o /\ at'[g].st \in WeakStates}
  BY DEF WeakOf, WeakStates
<1> HIDE DEF StrongStates, WeakStates
<1> QED
  BY <1>1, <1>2, <1>3 DEF StrongOf, WeakOf

LEMMA Holders ==
  ASSUME NEW o
  PROVE  StrongOf(o) \in SUBSET Handles /\ WeakOf(o) \in SUBSET Handles
BY DEF StrongOf, WeakOf

\* A handle that holds something is on an object that is there.
LEMMA OnObject ==
  ASSUME IInv, NEW h \in Handles, at[h].st # "null"
  PROVE  /\ at[h].obj \in Objects /\ life[at[h].obj] # "freed"
         /\ word[at[h].obj] \in Words /\ ObjectOK(at[h].obj) /\ HandleOK(h)
BY SMTT(30) DEF IInv, TypeOK, HandleOK, HandleOn

Records == [st : States, obj : Objects \cup {NoObject}, seen : Words,
            src : Handles \cup {NoHandle}]

LEMMA WordValues ==
    Zero \in Words /\ NewWord \in Words /\ Guess \in Words /\ Guess.strong = 1
<1>1. NewWord \in Words /\ NewWord.strong = 1
  BY DEF NewWord, Words
<1>2. Zero \in Words /\ Guess \in Words /\ Guess.strong = 1
  BY <1>1 DEF Zero, Guess, Words
<1> QED
  BY <1>1, <1>2

\* The fields of a word after each arithmetic step that stays within them.
LEMMA WordSteps ==
  ASSUME NEW w \in Words
  PROVE  /\ SubStrong(w) \in Words /\ SubStrong(w).strong = w.strong - 1
         /\ SubStrong(w).weak = w.weak
         /\ SubStrong(w).started = w.started /\ SubStrong(w).finished = w.finished
         /\ SubWeak(w) \in Words /\ SubWeak(w).weak = w.weak - 1
         /\ SubWeak(w).strong = w.strong
         /\ SubWeak(w).started = w.started /\ SubWeak(w).finished = w.finished
         /\ w.strong < MaxStrong =>
              /\ AddStrong(w) \in Words /\ AddStrong(w).strong = w.strong + 1
              /\ AddStrong(w).weak = w.weak
              /\ AddStrong(w).started = w.started /\ AddStrong(w).finished = w.finished
         /\ w.weak < MaxWeak =>
              /\ AddWeak(w) \in Words /\ AddWeak(w).weak = w.weak + 1
              /\ AddWeak(w).strong = w.strong
              /\ AddWeak(w).started = w.started /\ AddWeak(w).finished = w.finished
BY DEF SubStrong, SubWeak, AddStrong, AddWeak, Words

LEMMA WordBits ==
  ASSUME NEW w \in Words
  PROVE  /\ [w EXCEPT !.started = TRUE] \in Words /\ [w EXCEPT !.started = TRUE].started
         /\ [w EXCEPT !.started = TRUE].strong = w.strong
         /\ [w EXCEPT !.started = TRUE].weak = w.weak
         /\ [w EXCEPT !.started = TRUE].finished = w.finished
         /\ [w EXCEPT !.finished = TRUE] \in Words /\ [w EXCEPT !.finished = TRUE].finished
         /\ [w EXCEPT !.finished = TRUE].strong = w.strong
         /\ [w EXCEPT !.finished = TRUE].weak = w.weak
         /\ [w EXCEPT !.finished = TRUE].started = w.started
BY Zenon DEF Words

\* The word that a dropped strong reference leaves.
LEMMA DroppedFields ==
  ASSUME NEW w \in Words, ~w.started, ~w.finished
  PROVE  /\ DroppedWord(w) \in Words /\ DroppedWord(w).strong = w.strong - 1
         /\ DroppedWord(w).weak = w.weak
         /\ DroppedWord(w).started <=> AfterDrop(w) = "partial"
         /\ ~DroppedWord(w).finished
<1> DEFINE s == SubStrong(w)
<1>1. /\ s \in Words /\ s.strong = w.strong - 1 /\ s.weak = w.weak
      /\ ~s.started /\ ~s.finished
  BY WordSteps
<1> HIDE DEF s
<1>2. CASE w.strong = 1 /\ w.weak # 0
  <2>1. DroppedWord(w) = [s EXCEPT !.started = TRUE] /\ AfterDrop(w) = "partial"
    BY <1>2 DEF DroppedWord, AfterDrop, s
  <2> DEFINE t == [s EXCEPT !.started = TRUE]
  <2>2. /\ t \in Words /\ t.started /\ t.strong = s.strong /\ t.weak = s.weak
        /\ t.finished = s.finished
    BY <1>1, WordBits, Zenon
  <2> HIDE DEF t
  <2>3. DroppedWord(w) = t
    BY <2>1 DEF t
  <2> QED
    BY <1>1, <2>1, <2>2, <2>3, Zenon
<1>3. CASE ~(w.strong = 1 /\ w.weak # 0)
  <2>1. DroppedWord(w) = s /\ AfterDrop(w) # "partial"
    BY <1>3 DEF DroppedWord, AfterDrop, s
  <2> QED
    BY <1>1, <2>1
<1> QED
  BY <1>2, <1>3

LEMMA NullIsRecord ==
    Null \in Records /\ Null.st = "null" /\ Null.obj = NoObject /\ Null.src = NoHandle
BY WordValues DEF Null, Records, States

LEMMA HoldingIsRecord ==
  ASSUME NEW st \in States, NEW o \in Objects
  PROVE  /\ Holding(st, o) \in Records /\ Holding(st, o).st = st /\ Holding(st, o).obj = o
         /\ Holding(st, o).src = NoHandle
BY WordValues, Zenon DEF Holding, Null, Records

\* What a step that changes one handle and one object leaves to show: the invariant
\* of the object, of the handle and of the other handles on that object.
LEMMA Frame ==
  ASSUME IInv, NEW h \in Handles, NEW o \in Objects,
         NEW r \in Records,
         at[h].obj \in {o, NoObject}, r.obj \in {o, NoObject},
         at' = [at EXCEPT ![h] = r],
         word' \in [Objects -> Words], life' \in [Objects -> Lives],
         \A p \in Objects \ {o} : word'[p] = word[p] /\ life'[p] = life[p],
         ObjectOK(o)', HandleOK(h)',
         \A g \in Handles \ {h} : at[g].obj = o => HandleOK(g)',
         \A g \in Handles \ {h} : at[g].obj = o /\ r.obj = o =>
           /\ r.st \in {"partial", "weakPartial"} => at[g].st \notin {"partial", "weakPartial"}
           /\ r.st \in {"await", "destroy"} => at[g].st \notin {"await", "destroy"}
  PROVE  IInv'
<1>1. TypeOK'
  BY DEF IInv, TypeOK, Records
<1>2. \A p \in Objects : p # o =>
        StrongOf(p)' = StrongOf(p) /\ WeakOf(p)' = WeakOf(p)
        /\ word'[p] = word[p] /\ life'[p] = life[p]
  <2> SUFFICES ASSUME NEW p \in Objects, p # o
               PROVE  StrongOf(p)' = StrongOf(p) /\ WeakOf(p)' = WeakOf(p)
                      /\ word'[p] = word[p] /\ life'[p] = life[p]
    OBVIOUS
  <2>1. TypeOK /\ NoObject \notin Objects
    BY CountsFit DEF IInv
  <2>2. h \notin StrongOf(p) /\ h \notin WeakOf(p) /\ r.obj # p
    BY <2>1 DEF StrongOf, WeakOf
  <2>3. StrongOf(p)' = StrongOf(p) \ {h} /\ WeakOf(p)' = WeakOf(p) \ {h}
    BY <2>1, <2>2, Change, Zenon
  <2>4. word'[p] = word[p] /\ life'[p] = life[p]
    BY <2>1 DEF TypeOK
  <2> QED
    BY <2>2, <2>3, <2>4
<1>3. \A p \in Objects : ObjectOK(p)'
  BY <1>2 DEF ObjectOK, IInv
<1>4. \A g \in Handles : g # h => at'[g] = at[g]
  BY DEF IInv, TypeOK
<1>5. ASSUME NEW g \in Handles PROVE HandleOK(g)'
  <2>1. CASE g = h \/ at[g].obj = o
    BY <2>1
  <2>2. CASE g # h /\ at[g].obj # o
    <3>1. HandleOK(g) /\ at'[g] = at[g] /\ at[g].obj \in Objects \cup {NoObject}
      BY <1>4, <2>2 DEF IInv, TypeOK
    <3>2. ASSUME NEW q \in Objects, at[g].obj = q PROVE HandleOn(g, q)'
      <4>1. HandleOn(g, q) /\ q # o
        BY <3>1, <3>2, <2>2 DEF HandleOK
      <4>2. at[g].st = "locking" => at[g].src \in Handles /\ at'[at[g].src] = at[at[g].src]
        BY <4>1, <1>4, CountsFit DEF HandleOn
      <4> QED
        BY <4>1, <4>2, <3>1, <1>2 DEF HandleOn
    <3> QED
      BY <3>1, <3>2 DEF HandleOK
  <2> QED
    BY <2>1, <2>2
<1>6. ASSUME NEW states \in {{"partial", "weakPartial"}, {"await", "destroy"}}
      PROVE  OnePer(states)'
  <2>1. at'[h] = r
    BY DEF IInv, TypeOK
  <2>2. SUFFICES ASSUME NEW f \in Handles, NEW g \in Handles, f # g,
                        at'[f].st \in states, at'[g].st \in states, at'[f].obj = at'[g].obj
                 PROVE  FALSE
    BY DEF OnePer
  <2>3. at'[f].obj # NoObject
    BY <1>5, <2>2 DEF HandleOK
  <2>4. CASE f # h /\ g # h
    BY <2>2, <2>4, <1>4 DEF IInv, OnePer
  <2>5. CASE f = h
    BY <2>1, <2>2, <2>3, <2>5, <1>4
  <2>6. CASE g = h
    BY <2>1, <2>2, <2>3, <2>6, <1>4
  <2> QED
    BY <2>4, <2>5, <2>6
<1> QED
  BY <1>1, <1>3, <1>5, <1>6 DEF IInv

\* The holders that SharedObject sees, before and after a change of one handle.
Strongs == [o \in Objects |-> StrongOf(o)]
Weaks == [o \in Objects |-> WeakOf(o)]

LEMMA AbstractFrame ==
  ASSUME NEW h \in Handles, NEW o \in Objects,
         at[h].obj \in {o, NoObject}, at'[h].obj \in {o, NoObject},
         \A g \in Handles \ {h} : at'[g] = at[g]
  PROVE  /\ Strongs[o] = StrongOf(o) /\ Weaks[o] = WeakOf(o)
         /\ Strongs' = [Strongs EXCEPT ![o] = StrongOf(o)']
         /\ Weaks' = [Weaks EXCEPT ![o] = WeakOf(o)']
         /\ StrongOf(o)' = StrongOf(o) => Strongs' = Strongs
         /\ WeakOf(o)' = WeakOf(o) => Weaks' = Weaks
<1>1. NoObject \notin Objects
  BY CountsFit
<1>2. ASSUME NEW p \in Objects, p # o
      PROVE  StrongOf(p)' = StrongOf(p) /\ WeakOf(p)' = WeakOf(p)
  <2>1. /\ StrongOf(p)' = {g \in Handles : at'[g].obj = p /\ at'[g].st \in StrongStates}
        /\ WeakOf(p)' = {g \in Handles : at'[g].obj = p /\ at'[g].st \in WeakStates}
    BY DEF StrongOf, WeakOf, StrongStates, WeakStates
  <2> HIDE DEF StrongStates, WeakStates
  <2> QED
    BY <1>1, <1>2, <2>1 DEF StrongOf, WeakOf
<1>3. /\ Strongs' = [p \in Objects |-> StrongOf(p)']
      /\ Weaks' = [p \in Objects |-> WeakOf(p)']
  BY DEF Strongs, Weaks
<1> QED
  BY <1>2, <1>3, Zenon DEF Strongs, Weaks

Abstract == [Shared!Next]_(Shared!vars)

LEMMA DropStepOK ==
  ASSUME IInv, NEW h \in Handles, Is(h, "dropping"),
         Stores(h, DroppedWord(Word(h))), Becomes(h, AfterDrop(Word(h))),
         Hollows(h, AfterDrop(Word(h)))
  PROVE  IInv' /\ Abstract
<1>1. PICK o \in Objects : o = at[h].obj
  BY OnObject DEF Is
<1>2. life[o] # "freed" /\ word[o] \in Words /\ ObjectOK(o) /\ TypeOK
  BY <1>1, OnObject DEF Is, IInv
<1>3. h \in StrongOf(o) /\ h \notin WeakOf(o)
  BY <1>1 DEF Is, StrongOf, WeakOf, StrongStates, WeakStates
<1>4. /\ life[o] = "intact" /\ ~word[o].started /\ ~word[o].finished
      /\ word[o].strong = Cardinality(StrongOf(o)) /\ word[o].weak = Cardinality(WeakOf(o))
  BY <1>2, <1>3 DEF ObjectOK
<1>5. /\ Cardinality(StrongOf(o) \ {h}) = word[o].strong - 1
      /\ word[o].strong = 1 <=> StrongOf(o) = {h}
      /\ word[o].weak = 0 <=> WeakOf(o) = {}
  BY <1>3, <1>4, CardDel, CardZero, Holders
<1> DEFINE st == AfterDrop(word[o])
           r == IF st = "null" THEN Null ELSE Holding(st, o)
           w == DroppedWord(word[o])
           l == IF st = "partial" THEN "hollowing" ELSE life[o]
<1>6. /\ st = "null" <=> StrongOf(o) # {h}
      /\ st = "destroy" <=> StrongOf(o) = {h} /\ WeakOf(o) = {}
      /\ st = "partial" <=> StrongOf(o) = {h} /\ WeakOf(o) # {}
      /\ st \in {"null", "destroy", "partial"}
  BY <1>5 DEF AfterDrop
<1>7. /\ w \in Words /\ w.strong = word[o].strong - 1 /\ w.weak = word[o].weak
      /\ w.started <=> st = "partial"
      /\ ~w.finished
  BY <1>2, <1>4, DroppedFields
<1>8. /\ at' = [at EXCEPT ![h] = r] /\ word' = [word EXCEPT ![o] = w]
      /\ life' = [life EXCEPT ![o] = l] /\ l \in Lives
  BY <1>1, <1>2, <1>6, Zenon DEF Becomes, Stores, Hollows, Word, TypeOK, Lives
<1> HIDE DEF st, w
<1>9. /\ r \in Records /\ r.obj \in {o, NoObject} /\ r.st = st
      /\ st # "null" => r.obj = o
      /\ st = "null" => r.obj = NoObject
      /\ r.st \notin StrongStates /\ r.st \notin WeakStates
  BY <1>6, NullIsRecord, HoldingIsRecord DEF States, StrongStates, WeakStates
<1> HIDE DEF r
<1>10. StrongOf(o)' = StrongOf(o) \ {h} /\ WeakOf(o)' = WeakOf(o)
  <2>1. StrongOf(o)' = StrongOf(o) \ {h} /\ WeakOf(o)' = WeakOf(o) \ {h}
    BY <1>2, <1>8, <1>9, Change, Zenon
  <2> QED
    BY <2>1, <1>3
<1>11. word'[o] = w /\ life'[o] = l /\ at'[h] = r /\ \A g \in Handles \ {h} : at'[g] = at[g]
  BY <1>2, <1>8 DEF TypeOK
<1>12. ObjectOK(o)'
  BY <1>4, <1>5, <1>6, <1>7, <1>10, <1>11 DEF ObjectOK
<1>13. HandleOK(h)'
  BY <1>4, <1>6, <1>9, <1>10, <1>11, CountsFit, SMTT(30) DEF HandleOK, HandleOn
<1>14. ASSUME NEW g \in Handles \ {h}, at[g].obj = o
       PROVE  /\ HandleOK(g)'
              /\ at[g].st \notin {"await", "destroy", "partial", "weakPartial"}
  <2>1. HandleOK(g) /\ HandleOn(g, o)
    BY <1>14 DEF IInv, HandleOK
  <2>2. at[g].st \notin {"await", "destroy", "partial", "weakPartial"}
    BY <1>3, <1>4, <2>1 DEF HandleOn
  <2>3. at[g].st = "locking" => at[g].src # h
    BY <2>1 DEF HandleOn, Is
  <2> QED
    BY <1>4, <1>11, <1>14, <2>1, <2>2, <2>3 DEF HandleOK, HandleOn
<1>15. IInv'
  <2>1. \A g \in Handles \ {h} : at[g].obj = o => HandleOK(g)'
    BY <1>14
  <2>2. \A g \in Handles \ {h} : at[g].obj = o /\ r.obj = o =>
           /\ r.st \in {"partial", "weakPartial"} => at[g].st \notin {"partial", "weakPartial"}
           /\ r.st \in {"await", "destroy"} => at[g].st \notin {"await", "destroy"}
    BY <1>14
  <2>3. at[h].obj \in {o, NoObject} /\ r.obj \in {o, NoObject} /\ r \in Records
    BY <1>1, <1>7, <1>9
  <2>4. /\ word' \in [Objects -> Words] /\ life' \in [Objects -> Lives]
        /\ \A p \in Objects \ {o} : word'[p] = word[p] /\ life'[p] = life[p]
    BY <1>2, <1>7, <1>8 DEF TypeOK
  <2>5. at' = [at EXCEPT ![h] = r]
    BY <1>8
  <2> QED
    BY <2>1, <2>2, <2>3, <2>4, <2>5, <1>12, <1>13, Frame, Zenon
<1>16. Shared!Drop(o, h)
  <2>1. at[h].obj \in {o, NoObject} /\ at'[h].obj \in {o, NoObject}
    BY <1>1, <1>9, <1>11
  <2>2. /\ Strongs[o] = StrongOf(o) /\ Weaks[o] = WeakOf(o)
        /\ Strongs' = [Strongs EXCEPT ![o] = StrongOf(o)']
        /\ Weaks' = [Weaks EXCEPT ![o] = WeakOf(o)']
        /\ StrongOf(o)' = StrongOf(o) => Strongs' = Strongs
        /\ WeakOf(o)' = WeakOf(o) => Weaks' = Weaks
    BY <1>11, <2>1, AbstractFrame
  <2> QED
    BY <2>2, <1>3, <1>6, <1>8, <1>10, Zenon DEF Shared!Drop, Shared!LifeWithout, Strongs, Weaks
<1> QED
  BY <1>15, <1>16 DEF Abstract, Shared!Next

\* A handle that comes to hold a strong reference beside another: Clone, and the
\* successful exchanges of checkout_strong_ref_from_weak.
LEMMA ShareOK ==
  ASSUME IInv, NEW h \in Handles, NEW o \in Objects, NEW st \in {"strong", "both"},
         NEW r, r = Holding(st, o),
         at[h].obj \in {o, NoObject}, StrongOf(o) # {}, h \notin StrongOf(o),
         st = "both" <=> h \in WeakOf(o),
         at[h].st # "weak",
         at' = [at EXCEPT ![h] = r],
         word' = [word EXCEPT ![o] = AddStrong(word[o])], UNCHANGED life
  PROVE  IInv' /\ Abstract
<1> DEFINE w == AddStrong(word[o])
           l == life[o]
<1>2. word[o] \in Words /\ ObjectOK(o) /\ TypeOK
  BY DEF IInv, TypeOK
<1>4. /\ life[o] = "intact" /\ ~word[o].started /\ ~word[o].finished
      /\ word[o].strong = Cardinality(StrongOf(o)) /\ word[o].weak = Cardinality(WeakOf(o))
  BY <1>2 DEF ObjectOK
<1>5. Cardinality(StrongOf(o) \cup {h}) = word[o].strong + 1 /\ word[o].strong < MaxStrong
  BY <1>4, CardAdd, Holders
<1>7. /\ w \in Words /\ w.strong = word[o].strong + 1 /\ w.weak = word[o].weak
      /\ ~w.started /\ ~w.finished
  BY <1>2, <1>4, <1>5, WordSteps
<1>8. /\ at' = [at EXCEPT ![h] = r] /\ word' = [word EXCEPT ![o] = w]
      /\ life' = [life EXCEPT ![o] = l] /\ l \in Lives
  BY <1>2 DEF TypeOK
<1>9. /\ r \in Records /\ r.obj = o /\ r.st = st /\ r.st \in StrongStates
      /\ r.st \in WeakStates <=> h \in WeakOf(o)
  BY HoldingIsRecord DEF States, StrongStates, WeakStates
<1> HIDE DEF w
<1>10. StrongOf(o)' = StrongOf(o) \cup {h} /\ WeakOf(o)' = WeakOf(o)
  <2>1. /\ StrongOf(o)' = StrongOf(o) \cup {h}
        /\ WeakOf(o)' = IF h \in WeakOf(o) THEN WeakOf(o) \cup {h} ELSE WeakOf(o) \ {h}
    BY <1>2, <1>8, <1>9, Change, Zenon
  <2> QED
    BY <2>1
<1>11. word'[o] = w /\ life'[o] = l /\ at'[h] = r /\ \A g \in Handles \ {h} : at'[g] = at[g]
  BY <1>2, <1>8 DEF TypeOK
<1>12. ObjectOK(o)'
  BY <1>4, <1>5, <1>7, <1>10, <1>11 DEF ObjectOK
<1>13. HandleOK(h)'
  BY <1>4, <1>9, <1>11, CountsFit, SMTT(30) DEF HandleOK, HandleOn
<1>14. ASSUME NEW g \in Handles \ {h}, at[g].obj = o
       PROVE  /\ HandleOK(g)'
              /\ at[g].st \notin {"await", "destroy", "partial", "weakPartial"}
  <2>1. HandleOK(g) /\ HandleOn(g, o)
    BY <1>14 DEF IInv, HandleOK
  <2>2. at[g].st \notin {"await", "destroy", "partial", "weakPartial"}
    BY <1>4, <2>1 DEF HandleOn
  <2>3. at[g].st = "locking" => at[g].src # h
    BY <2>1 DEF HandleOn
  <2> QED
    BY <1>4, <1>11, <1>14, <2>1, <2>2, <2>3 DEF HandleOK, HandleOn
<1>15. IInv'
  <2>1. \A g \in Handles \ {h} : at[g].obj = o => HandleOK(g)'
    BY <1>14
  <2>2. \A g \in Handles \ {h} : at[g].obj = o /\ r.obj = o =>
           /\ r.st \in {"partial", "weakPartial"} => at[g].st \notin {"partial", "weakPartial"}
           /\ r.st \in {"await", "destroy"} => at[g].st \notin {"await", "destroy"}
    BY <1>9, <1>14
  <2>3. at[h].obj \in {o, NoObject} /\ r.obj \in {o, NoObject} /\ r \in Records
    BY <1>7, <1>9
  <2>4. /\ word' \in [Objects -> Words] /\ life' \in [Objects -> Lives]
        /\ \A p \in Objects \ {o} : word'[p] = word[p] /\ life'[p] = life[p]
    BY <1>2, <1>7, <1>8 DEF TypeOK
  <2>5. at' = [at EXCEPT ![h] = r]
    BY <1>8
  <2> QED
    BY <2>1, <2>2, <2>3, <2>4, <2>5, <1>12, <1>13, Frame, ZenonT(60)
<1>16. Shared!Share(o, h)
  <2>1. at[h].obj \in {o, NoObject} /\ at'[h].obj \in {o, NoObject}
    BY <1>9, <1>11
  <2>2. /\ Strongs[o] = StrongOf(o) /\ Weaks[o] = WeakOf(o)
        /\ Strongs' = [Strongs EXCEPT ![o] = StrongOf(o)']
        /\ Weaks' = [Weaks EXCEPT ![o] = WeakOf(o)']
        /\ StrongOf(o)' = StrongOf(o) => Strongs' = Strongs
        /\ WeakOf(o)' = WeakOf(o) => Weaks' = Weaks
    BY <1>11, <2>1, AbstractFrame
  <2> QED
    BY <2>2, <1>10 DEF Shared!Share, Strongs, Weaks
<1> QED
  BY <1>15, <1>16 DEF Abstract, Shared!Next

\* A handle that comes to hold a weak reference beside another.
LEMMA WatchOK ==
  ASSUME IInv, NEW h \in Handles, NEW o \in Objects, at[h].st = "null",
         NEW r, r = Holding("weak", o),
         StrongOf(o) # {} \/ WeakOf(o) # {},
         at' = [at EXCEPT ![h] = r],
         word' = [word EXCEPT ![o] = AddWeak(word[o])], UNCHANGED life
  PROVE  IInv' /\ Abstract
<1> DEFINE w == AddWeak(word[o])
           l == life[o]
<1>1. at[h].obj = NoObject /\ at[h].st = "null"
  BY DEF IInv, HandleOK
<1>2. word[o] \in Words /\ ObjectOK(o) /\ TypeOK
  BY DEF IInv, TypeOK
<1>3. h \notin StrongOf(o) /\ h \notin WeakOf(o)
  BY <1>1, CountsFit DEF StrongOf, WeakOf
<1>4. /\ life[o] # "freed"
      /\ word[o].strong = Cardinality(StrongOf(o)) /\ word[o].weak = Cardinality(WeakOf(o))
      /\ word[o].started <=> life[o] \in {"hollowing", "hollow"}
      /\ word[o].finished <=> life[o] = "hollow"
  <2>1. PICK g \in Handles : at[g].obj = o
    BY DEF StrongOf, WeakOf
  <2>2. HandleOn(g, o)
    BY <2>1 DEF IInv, HandleOK
  <2> QED
    BY <2>2, <1>2 DEF HandleOn, ObjectOK
<1>5. Cardinality(WeakOf(o) \cup {h}) = word[o].weak + 1 /\ word[o].weak < MaxWeak
  BY <1>3, <1>4, CardAdd, Holders
<1>7. /\ w \in Words /\ w.strong = word[o].strong /\ w.weak = word[o].weak + 1
      /\ w.started = word[o].started /\ w.finished = word[o].finished
  BY <1>2, <1>4, <1>5, WordSteps
<1>8. /\ at' = [at EXCEPT ![h] = r] /\ word' = [word EXCEPT ![o] = w]
      /\ life' = [life EXCEPT ![o] = l] /\ l \in Lives
  BY <1>2 DEF TypeOK
<1>9. /\ r \in Records /\ r.obj = o /\ r.st = "weak" /\ r.st \notin StrongStates
      /\ r.st \in WeakStates
  BY HoldingIsRecord DEF States, StrongStates, WeakStates
<1> HIDE DEF w
<1>10. StrongOf(o)' = StrongOf(o) /\ WeakOf(o)' = WeakOf(o) \cup {h}
  <2>1. StrongOf(o)' = StrongOf(o) \ {h} /\ WeakOf(o)' = WeakOf(o) \cup {h}
    BY <1>2, <1>8, <1>9, Change, Zenon
  <2> QED
    BY <2>1, <1>3
<1>11. word'[o] = w /\ life'[o] = l /\ at'[h] = r /\ \A g \in Handles \ {h} : at'[g] = at[g]
  BY <1>2, <1>8 DEF TypeOK
<1>12. ObjectOK(o)'
  BY <1>2, <1>4, <1>5, <1>7, <1>10, <1>11, SMTT(30) DEF ObjectOK
<1>13. HandleOK(h)'
  BY <1>4, <1>9, <1>11, CountsFit, SMTT(30) DEF HandleOK, HandleOn
<1>14. ASSUME NEW g \in Handles \ {h}, at[g].obj = o
       PROVE  HandleOK(g)'
  <2>1. HandleOK(g) /\ HandleOn(g, o)
    BY <1>14 DEF IInv, HandleOK
  <2>2. at[g].st \notin {"await", "destroy"}
    BY <2>1 DEF HandleOn
  <2>3. at[g].st = "locking" => at[g].src # h
    BY <1>1, <2>1 DEF HandleOn
  <2> QED
    BY <1>4, <1>11, <1>14, <2>1, <2>2, <2>3, SMTT(30) DEF HandleOK, HandleOn
<1>15. IInv'
  <2>1. \A g \in Handles \ {h} : at[g].obj = o => HandleOK(g)'
    BY <1>14
  <2>2. \A g \in Handles \ {h} : at[g].obj = o /\ r.obj = o =>
           /\ r.st \in {"partial", "weakPartial"} => at[g].st \notin {"partial", "weakPartial"}
           /\ r.st \in {"await", "destroy"} => at[g].st \notin {"await", "destroy"}
    BY <1>9, <1>14
  <2>3. at[h].obj \in {o, NoObject} /\ r.obj \in {o, NoObject} /\ r \in Records
    BY <1>1, <1>7, <1>9
  <2>4. /\ word' \in [Objects -> Words] /\ life' \in [Objects -> Lives]
        /\ \A p \in Objects \ {o} : word'[p] = word[p] /\ life'[p] = life[p]
    BY <1>2, <1>7, <1>8 DEF TypeOK
  <2>5. at' = [at EXCEPT ![h] = r]
    BY <1>8
  <2> QED
    BY <2>1, <2>2, <2>3, <2>4, <2>5, <1>12, <1>13, Frame, Zenon
<1>16. Shared!Watch(o, h)
  <2>1. at[h].obj \in {o, NoObject} /\ at'[h].obj \in {o, NoObject}
    BY <1>1, <1>9, <1>11
  <2>2. /\ Strongs[o] = StrongOf(o) /\ Weaks[o] = WeakOf(o)
        /\ Strongs' = [Strongs EXCEPT ![o] = StrongOf(o)']
        /\ Weaks' = [Weaks EXCEPT ![o] = WeakOf(o)']
        /\ StrongOf(o)' = StrongOf(o) => Strongs' = Strongs
        /\ WeakOf(o)' = WeakOf(o) => Weaks' = Weaks
    BY <1>11, <2>1, AbstractFrame
  <2> QED
    BY <2>2, <1>10 DEF Shared!Watch, Shared!Held, Strongs, Weaks
<1> QED
  BY <1>15, <1>16 DEF Abstract, Shared!Next

\* A conversion to weak: the reference changes sides in one exchange.
LEMMA WeakenOK ==
  ASSUME IInv, NEW h \in Handles, Is(h, "weakening"),
         Stores(h, WeakenedWord(Word(h))), Becomes(h, AfterWeaken(Word(h))),
         Hollows(h, AfterWeaken(Word(h)))
  PROVE  IInv' /\ Abstract
<1>1. PICK o \in Objects : o = at[h].obj
  BY OnObject DEF Is
<1>2. life[o] # "freed" /\ word[o] \in Words /\ ObjectOK(o) /\ TypeOK
  BY <1>1, OnObject DEF Is, IInv
<1>3. h \in StrongOf(o) /\ h \notin WeakOf(o)
  BY <1>1 DEF Is, StrongOf, WeakOf, StrongStates, WeakStates
<1>4. /\ life[o] = "intact" /\ ~word[o].started /\ ~word[o].finished
      /\ word[o].strong = Cardinality(StrongOf(o)) /\ word[o].weak = Cardinality(WeakOf(o))
  BY <1>2, <1>3 DEF ObjectOK
<1>5. /\ Cardinality(StrongOf(o) \ {h}) = word[o].strong - 1
      /\ Cardinality(WeakOf(o) \cup {h}) = word[o].weak + 1 /\ word[o].weak < MaxWeak
      /\ word[o].strong = 1 <=> StrongOf(o) = {h}
      /\ word[o].weak = 0 <=> WeakOf(o) = {}
  BY <1>3, <1>4, CardDel, CardAdd, CardZero, Holders
<1> DEFINE st == AfterWeaken(word[o])
           r == Holding(st, o)
           w == WeakenedWord(word[o])
           l == IF st = "weakPartial" THEN "hollowing" ELSE life[o]
<1>6. /\ st = "weakPartial" <=> StrongOf(o) = {h} /\ WeakOf(o) # {}
      /\ st \in {"weak", "weakPartial"}
  BY <1>5 DEF AfterWeaken
<1>7. /\ w \in Words /\ w.strong = word[o].strong - 1 /\ w.weak = word[o].weak + 1
      /\ w.started <=> st = "weakPartial"
      /\ ~w.finished
  <2>1. /\ SubStrong(word[o]) \in Words /\ SubStrong(word[o]).weak = word[o].weak
        /\ SubStrong(word[o]).strong = word[o].strong - 1
        /\ ~SubStrong(word[o]).started /\ ~SubStrong(word[o]).finished
    BY <1>2, <1>4, WordSteps, SMTT(30)
  <2>2. /\ AddWeak(SubStrong(word[o])) \in Words
        /\ AddWeak(SubStrong(word[o])).weak = word[o].weak + 1
        /\ AddWeak(SubStrong(word[o])).strong = word[o].strong - 1
        /\ ~AddWeak(SubStrong(word[o])).started /\ ~AddWeak(SubStrong(word[o])).finished
    BY <2>1, <1>5, WordSteps
  <2>3. CASE st = "weakPartial"
    BY <2>2, <2>3, <1>5, <1>6, WordBits, Zenon DEF WeakenedWord
  <2>4. CASE st # "weakPartial"
    BY <2>2, <2>4, <1>5, <1>6 DEF WeakenedWord
  <2> QED
    BY <2>3, <2>4
<1>8. /\ at' = [at EXCEPT ![h] = r] /\ word' = [word EXCEPT ![o] = w]
      /\ life' = [life EXCEPT ![o] = l] /\ l \in Lives
  BY <1>1, <1>2, <1>6, Zenon DEF Becomes, Stores, Hollows, Word, TypeOK, Lives
<1> HIDE DEF st, w
<1>9. /\ r \in Records /\ r.obj = o /\ r.st = st
      /\ r.st \notin StrongStates /\ r.st \in WeakStates
  BY <1>6, HoldingIsRecord DEF States, StrongStates, WeakStates
<1> HIDE DEF r
<1>10. StrongOf(o)' = StrongOf(o) \ {h} /\ WeakOf(o)' = WeakOf(o) \cup {h}
  BY <1>2, <1>8, <1>9, Change, Zenon
<1>11. word'[o] = w /\ life'[o] = l /\ at'[h] = r /\ \A g \in Handles \ {h} : at'[g] = at[g]
  BY <1>2, <1>8, SMTT(30) DEF TypeOK
<1>12. ObjectOK(o)'
  BY <1>4, <1>5, <1>6, <1>7, <1>10, <1>11, SMTT(30) DEF ObjectOK
<1>13. HandleOK(h)'
  BY <1>4, <1>6, <1>9, <1>11, CountsFit, SMTT(30) DEF HandleOK, HandleOn
<1>14. ASSUME NEW g \in Handles \ {h}, at[g].obj = o
       PROVE  /\ HandleOK(g)'
              /\ at[g].st \notin {"await", "destroy", "partial", "weakPartial"}
  <2>1. HandleOK(g) /\ HandleOn(g, o)
    BY <1>14 DEF IInv, HandleOK
  <2>2. at[g].st \notin {"await", "destroy", "partial", "weakPartial"}
    BY <1>3, <1>4, <2>1, SMTT(30) DEF HandleOn
  <2>3. at[g].st = "locking" => at[g].src # h
    BY <2>1 DEF HandleOn, Is
  <2> QED
    BY <1>4, <1>11, <1>14, <2>1, <2>2, <2>3, SMTT(30) DEF HandleOK, HandleOn
<1>15. IInv'
  <2>1. \A g \in Handles \ {h} : at[g].obj = o => HandleOK(g)'
    BY <1>14
  <2>2. \A g \in Handles \ {h} : at[g].obj = o /\ r.obj = o =>
           /\ r.st \in {"partial", "weakPartial"} => at[g].st \notin {"partial", "weakPartial"}
           /\ r.st \in {"await", "destroy"} => at[g].st \notin {"await", "destroy"}
    BY <1>9, <1>14
  <2>3. at[h].obj \in {o, NoObject} /\ r.obj \in {o, NoObject} /\ r \in Records
    BY <1>1, <1>9
  <2>4. /\ word' \in [Objects -> Words] /\ life' \in [Objects -> Lives]
        /\ \A p \in Objects \ {o} : word'[p] = word[p] /\ life'[p] = life[p]
    BY <1>2, <1>7, <1>8 DEF TypeOK
  <2>5. at' = [at EXCEPT ![h] = r]
    BY <1>8
  <2> QED
    BY <2>1, <2>2, <2>3, <2>4, <2>5, <1>12, <1>13, Frame, Zenon
<1>16. Shared!Weaken(o, h)
  <2>1. at[h].obj \in {o, NoObject} /\ at'[h].obj \in {o, NoObject}
    BY <1>1, <1>9, <1>11, SMTT(30)
  <2>2. /\ Strongs[o] = StrongOf(o) /\ Weaks[o] = WeakOf(o)
        /\ Strongs' = [Strongs EXCEPT ![o] = StrongOf(o)']
        /\ Weaks' = [Weaks EXCEPT ![o] = WeakOf(o)']
        /\ StrongOf(o)' = StrongOf(o) => Strongs' = Strongs
        /\ WeakOf(o)' = WeakOf(o) => Weaks' = Weaks
    BY <1>11, <2>1, AbstractFrame
  <2> QED
    BY <2>2, <1>3, <1>6, <1>8, <1>10, Zenon DEF Shared!Weaken, Shared!LifeWithout, Strongs, Weaks
<1> QED
  BY <1>15, <1>16 DEF Abstract, Shared!Next

\* The release of a weak reference, by its drop.
LEMMA DropWeakOK ==
  ASSUME IInv, NEW h \in Handles, DropWeak(h)
  PROVE  IInv' /\ Abstract
<1>1. PICK o \in Objects : o = at[h].obj
  BY OnObject, SMTT(30) DEF DropWeak, Is
<1>2. life[o] # "freed" /\ word[o] \in Words /\ ObjectOK(o) /\ TypeOK
  BY <1>1, OnObject DEF DropWeak, Is, IInv
<1>3. h \notin StrongOf(o) /\ h \in WeakOf(o)
  BY <1>1 DEF DropWeak, Is, StrongOf, WeakOf, StrongStates, WeakStates
<1>4. /\ word[o].strong = Cardinality(StrongOf(o)) /\ word[o].weak = Cardinality(WeakOf(o))
      /\ word[o].started <=> life[o] \in {"hollowing", "hollow"}
      /\ word[o].finished <=> life[o] = "hollow"
  BY <1>2 DEF ObjectOK
<1>5. /\ Cardinality(WeakOf(o) \ {h}) = word[o].weak - 1
      /\ word[o].weak = 1 <=> WeakOf(o) = {h}
      /\ word[o].strong = 0 <=> StrongOf(o) = {}
  <2>1. Cardinality(WeakOf(o) \ {h}) = word[o].weak - 1 /\ (word[o].weak = 1 <=> WeakOf(o) = {h})
    BY <1>3, <1>4, CardDel, Holders
  <2>2. word[o].strong = 0 <=> StrongOf(o) = {}
    BY <1>4, CardZero, Holders
  <2> QED
    BY <2>1, <2>2
<1> DEFINE st == AfterDropWeak(word[o])
           r == IF st = "null" THEN Null ELSE Holding(st, o)
           w == SubWeak(word[o])
           l == life[o]
<1>6. /\ st = "destroy" => StrongOf(o) = {} /\ WeakOf(o) = {h} /\ life[o] = "intact"
      /\ st = "await" => StrongOf(o) = {} /\ WeakOf(o) = {h}
                         /\ life[o] \in {"hollowing", "hollow"}
      /\ st \in {"null", "destroy", "await"}
  <2>1. life[o] \in Lives
    BY <1>2 DEF TypeOK
  <2> QED
    BY <2>1, <1>2, <1>4, <1>5 DEF AfterDropWeak, Lives
<1>7. /\ w \in Words /\ w.strong = word[o].strong /\ w.weak = word[o].weak - 1
      /\ w.started = word[o].started /\ w.finished = word[o].finished
  BY <1>2, WordSteps
<1>8. /\ at' = [at EXCEPT ![h] = r] /\ word' = [word EXCEPT ![o] = w]
      /\ life' = life /\ life' = [life EXCEPT ![o] = l] /\ l \in Lives
  BY <1>1, <1>2 DEF DropWeak, Becomes, Stores, Word, TypeOK
<1> HIDE DEF st, w
<1>9. /\ r \in Records /\ r.obj \in {o, NoObject} /\ r.st = st
      /\ st # "null" => r.obj = o
      /\ st = "null" => r.obj = NoObject
      /\ r.st \notin StrongStates /\ r.st \notin WeakStates
  BY <1>6, NullIsRecord, HoldingIsRecord DEF States, StrongStates, WeakStates
<1> HIDE DEF r
<1>10. StrongOf(o)' = StrongOf(o) /\ WeakOf(o)' = WeakOf(o) \ {h}
  <2>1. StrongOf(o)' = StrongOf(o) \ {h} /\ WeakOf(o)' = WeakOf(o) \ {h}
    BY <1>2, <1>8, <1>9, Change, Zenon
  <2> QED
    BY <2>1, <1>3
<1>11. word'[o] = w /\ life'[o] = l /\ at'[h] = r /\ \A g \in Handles \ {h} : at'[g] = at[g]
  BY <1>2, <1>8 DEF TypeOK
<1>12. ObjectOK(o)'
  BY <1>2, <1>4, <1>5, <1>7, <1>10, <1>11, SMTT(30) DEF ObjectOK
<1>13. HandleOK(h)'
  BY <1>2, <1>6, <1>9, <1>10, <1>11, CountsFit, SMTT(30) DEF HandleOK, HandleOn
<1>14. ASSUME NEW g \in Handles \ {h}, at[g].obj = o
       PROVE  HandleOK(g)' /\ at[g].st \notin {"await", "destroy"}
  <2>1. HandleOK(g) /\ HandleOn(g, o)
    BY <1>14 DEF IInv, HandleOK
  <2>2. at[g].st \notin {"await", "destroy"}
    BY <1>3, <2>1 DEF HandleOn
  <2>3. at[g].st = "locking" => at[g].src # h
    BY DEF DropWeak, Lent, Is
  <2> QED
    BY <1>11, <1>14, <2>1, <2>2, <2>3 DEF HandleOK, HandleOn
<1>15. IInv'
  <2>1. \A g \in Handles \ {h} : at[g].obj = o => HandleOK(g)'
    BY <1>14
  <2>2. \A g \in Handles \ {h} : at[g].obj = o /\ r.obj = o =>
           /\ r.st \in {"partial", "weakPartial"} => at[g].st \notin {"partial", "weakPartial"}
           /\ r.st \in {"await", "destroy"} => at[g].st \notin {"await", "destroy"}
    BY <1>6, <1>9, <1>14
  <2>3. at[h].obj \in {o, NoObject} /\ r.obj \in {o, NoObject} /\ r \in Records
    BY <1>1, <1>9
  <2>4. /\ word' \in [Objects -> Words] /\ life' \in [Objects -> Lives]
        /\ \A p \in Objects \ {o} : word'[p] = word[p] /\ life'[p] = life[p]
    BY <1>2, <1>7, <1>8 DEF TypeOK
  <2>5. at' = [at EXCEPT ![h] = r]
    BY <1>8
  <2> QED
    BY <2>1, <2>2, <2>3, <2>4, <2>5, <1>12, <1>13, Frame, Zenon
<1>16. Shared!DropWeak(o, h)
  <2>1. at[h].obj \in {o, NoObject} /\ at'[h].obj \in {o, NoObject}
    BY <1>1, <1>9, <1>11
  <2>2. /\ Strongs[o] = StrongOf(o) /\ Weaks[o] = WeakOf(o)
        /\ Strongs' = [Strongs EXCEPT ![o] = StrongOf(o)']
        /\ Weaks' = [Weaks EXCEPT ![o] = WeakOf(o)']
        /\ StrongOf(o)' = StrongOf(o) => Strongs' = Strongs
        /\ WeakOf(o)' = WeakOf(o) => Weaks' = Weaks
    BY <1>11, <2>1, AbstractFrame, SMTT(30)
  <2> QED
    BY <2>2, <1>3, <1>8, <1>10 DEF Shared!DropWeak, Strongs, Weaks
<1> QED
  BY <1>15, <1>16 DEF Abstract, Shared!Next

\* The old weak reference of a handle that has become strong.
LEMMA ReleaseOldWeakOK ==
  ASSUME IInv, NEW h \in Handles, ReleaseOldWeak(h)
  PROVE  IInv' /\ Abstract
<1>1. PICK o \in Objects : o = at[h].obj
  BY OnObject DEF ReleaseOldWeak, Is
<1>2. life[o] # "freed" /\ word[o] \in Words /\ ObjectOK(o) /\ TypeOK
  BY <1>1, OnObject DEF ReleaseOldWeak, Is, IInv
<1>3. h \in StrongOf(o) /\ h \in WeakOf(o)
  BY <1>1 DEF ReleaseOldWeak, Is, StrongOf, WeakOf, StrongStates, WeakStates
<1>4. /\ life[o] = "intact" /\ ~word[o].started /\ ~word[o].finished
      /\ word[o].strong = Cardinality(StrongOf(o)) /\ word[o].weak = Cardinality(WeakOf(o))
  BY <1>2, <1>3 DEF ObjectOK
<1>5. Cardinality(WeakOf(o) \ {h}) = word[o].weak - 1
  BY <1>3, <1>4, CardDel, Holders
<1> DEFINE r == Holding("strong", o)
           w == SubWeak(word[o])
           l == life[o]
<1>7. /\ w \in Words /\ w.strong = word[o].strong /\ w.weak = word[o].weak - 1
      /\ w.started = word[o].started /\ w.finished = word[o].finished
  BY <1>2, WordSteps
<1>8. /\ at' = [at EXCEPT ![h] = r] /\ word' = [word EXCEPT ![o] = w]
      /\ life' = life /\ life' = [life EXCEPT ![o] = l] /\ l \in Lives
  BY <1>1, <1>2 DEF ReleaseOldWeak, Becomes, Stores, Word, TypeOK
<1> HIDE DEF w
<1>9. /\ r \in Records /\ r.obj = o /\ r.st = "strong"
      /\ r.st \in StrongStates /\ r.st \notin WeakStates
  BY HoldingIsRecord DEF States, StrongStates, WeakStates
<1> HIDE DEF r
<1>10. StrongOf(o)' = StrongOf(o) /\ WeakOf(o)' = WeakOf(o) \ {h}
  <2>1. StrongOf(o)' = StrongOf(o) \cup {h} /\ WeakOf(o)' = WeakOf(o) \ {h}
    BY <1>2, <1>8, <1>9, Change, Zenon
  <2> QED
    BY <2>1, <1>3
<1>11. word'[o] = w /\ life'[o] = l /\ at'[h] = r /\ \A g \in Handles \ {h} : at'[g] = at[g]
  BY <1>2, <1>8 DEF TypeOK
<1>12. ObjectOK(o)'
  BY <1>2, <1>4, <1>5, <1>7, <1>10, <1>11, SMTT(30) DEF ObjectOK
<1>13. HandleOK(h)'
  BY <1>4, <1>9, <1>11, CountsFit, SMTT(30) DEF HandleOK, HandleOn
<1>14. ASSUME NEW g \in Handles \ {h}, at[g].obj = o
       PROVE  HandleOK(g)' /\ at[g].st \notin {"await", "destroy"}
  <2>1. HandleOK(g) /\ HandleOn(g, o)
    BY <1>14 DEF IInv, HandleOK
  <2>2. at[g].st \notin {"await", "destroy"}
    BY <1>3, <2>1, SMTT(30) DEF HandleOn
  <2>3. at[g].st = "locking" => at[g].src # h
    BY <2>1 DEF ReleaseOldWeak, HandleOn, Is
  <2> QED
    BY <1>11, <1>14, <2>1, <2>2, <2>3 DEF HandleOK, HandleOn
<1>15. IInv'
  <2>1. \A g \in Handles \ {h} : at[g].obj = o => HandleOK(g)'
    BY <1>14
  <2>2. \A g \in Handles \ {h} : at[g].obj = o /\ r.obj = o =>
           /\ r.st \in {"partial", "weakPartial"} => at[g].st \notin {"partial", "weakPartial"}
           /\ r.st \in {"await", "destroy"} => at[g].st \notin {"await", "destroy"}
    BY <1>9, <1>14
  <2>3. at[h].obj \in {o, NoObject} /\ r.obj \in {o, NoObject} /\ r \in Records
    BY <1>1, <1>9
  <2>4. /\ word' \in [Objects -> Words] /\ life' \in [Objects -> Lives]
        /\ \A p \in Objects \ {o} : word'[p] = word[p] /\ life'[p] = life[p]
    BY <1>2, <1>7, <1>8 DEF TypeOK
  <2>5. at' = [at EXCEPT ![h] = r]
    BY <1>8
  <2> QED
    BY <2>1, <2>2, <2>3, <2>4, <2>5, <1>12, <1>13, Frame, Zenon
<1>16. Shared!DropWeak(o, h)
  <2>1. at[h].obj \in {o, NoObject} /\ at'[h].obj \in {o, NoObject}
    BY <1>1, <1>9, <1>11
  <2>2. /\ Strongs[o] = StrongOf(o) /\ Weaks[o] = WeakOf(o)
        /\ Strongs' = [Strongs EXCEPT ![o] = StrongOf(o)']
        /\ Weaks' = [Weaks EXCEPT ![o] = WeakOf(o)']
        /\ StrongOf(o)' = StrongOf(o) => Strongs' = Strongs
        /\ WeakOf(o)' = WeakOf(o) => Weaks' = Weaks
    BY <1>11, <2>1, AbstractFrame
  <2> QED
    BY <2>2, <1>3, <1>8, <1>10 DEF Shared!DropWeak, Strongs, Weaks
<1> QED
  BY <1>15, <1>16 DEF Abstract, Shared!Next

\* The end of the partial destructor.
LEMMA PartialDoneOK ==
  ASSUME IInv, NEW h \in Handles, PartialDone(h)
  PROVE  IInv' /\ Abstract
<1>1. PICK o \in Objects : o = at[h].obj
  BY OnObject DEF PartialDone
<1>2. /\ life[o] = "hollowing" /\ word[o] \in Words /\ ObjectOK(o) /\ TypeOK
      /\ at[h].st \in {"partial", "weakPartial"}
  BY <1>1, OnObject DEF PartialDone, IInv, HandleOK, HandleOn
<1>3. h \notin StrongOf(o) /\ (h \in WeakOf(o) <=> at[h].st = "weakPartial")
  BY <1>1, <1>2 DEF StrongOf, WeakOf, StrongStates, WeakStates
<1>4. /\ word[o].strong = Cardinality(StrongOf(o)) /\ word[o].weak = Cardinality(WeakOf(o))
      /\ word[o].started /\ StrongOf(o) = {}
  BY <1>2 DEF ObjectOK
<1> DEFINE st == IF at[h].st = "partial" THEN "null" ELSE "weak"
           r == IF st = "null" THEN Null ELSE Holding(st, o)
           w == [word[o] EXCEPT !.finished = TRUE]
           l == "hollow"
<1>7. /\ w \in Words /\ w.strong = word[o].strong /\ w.weak = word[o].weak
      /\ w.started = word[o].started /\ w.finished
  BY <1>2, WordBits, Zenon
<1>8. /\ at' = [at EXCEPT ![h] = r] /\ word' = [word EXCEPT ![o] = w]
      /\ life' = [life EXCEPT ![o] = l] /\ l \in Lives
  BY <1>1, <1>2, SMTT(30) DEF PartialDone, Becomes, Stores, Word, Is, TypeOK, Lives
<1> HIDE DEF w
<1>9. /\ r \in Records /\ r.obj \in {o, NoObject} /\ r.st = st
      /\ st = "null" <=> r.obj = NoObject
      /\ st \in {"null", "weak"} /\ (st = "weak" <=> at[h].st = "weakPartial")
      /\ r.st \notin StrongStates /\ (r.obj = o /\ r.st \in WeakStates <=> h \in WeakOf(o))
  BY <1>2, <1>3, NullIsRecord, HoldingIsRecord, CountsFit, SMTT(30) DEF States, StrongStates, WeakStates
<1> HIDE DEF r, st
<1>10. StrongOf(o)' = StrongOf(o) /\ WeakOf(o)' = WeakOf(o)
  <2>1. /\ StrongOf(o)' = StrongOf(o) \ {h}
        /\ WeakOf(o)' = IF h \in WeakOf(o) THEN WeakOf(o) \cup {h} ELSE WeakOf(o) \ {h}
    BY <1>2, <1>8, <1>9, Change, Zenon
  <2> QED
    BY <2>1, <1>3
<1>11. word'[o] = w /\ life'[o] = l /\ at'[h] = r /\ \A g \in Handles \ {h} : at'[g] = at[g]
  BY <1>2, <1>8 DEF TypeOK
<1>12. ObjectOK(o)'
  BY <1>4, <1>7, <1>10, <1>11, Zenon DEF ObjectOK
<1>13. HandleOK(h)'
  BY <1>9, <1>11, CountsFit, SMTT(30) DEF HandleOK, HandleOn
<1>14. ASSUME NEW g \in Handles \ {h}, at[g].obj = o
       PROVE  HandleOK(g)' /\ at[g].st \notin {"partial", "weakPartial"}
  <2>1. HandleOK(g) /\ HandleOn(g, o)
    BY <1>14 DEF IInv, HandleOK
  <2>2. at[g].st \notin {"partial", "weakPartial", "destroy"}
    BY <1>1, <1>2, <1>14, <2>1, SMTT(30) DEF HandleOn, IInv, OnePer
  <2>3. at[g].st = "locking" => at[g].src # h
    BY <1>2, <2>1, SMTT(30) DEF HandleOn
  <2> QED
    BY <1>10, <1>11, <1>14, <2>1, <2>2, <2>3, SMTT(30) DEF HandleOK, HandleOn
<1>15. IInv'
  <2>1. \A g \in Handles \ {h} : at[g].obj = o => HandleOK(g)'
    BY <1>14
  <2>2. \A g \in Handles \ {h} : at[g].obj = o /\ r.obj = o =>
           /\ r.st \in {"partial", "weakPartial"} => at[g].st \notin {"partial", "weakPartial"}
           /\ r.st \in {"await", "destroy"} => at[g].st \notin {"await", "destroy"}
    BY <1>9, <1>14
  <2>3. at[h].obj \in {o, NoObject} /\ r.obj \in {o, NoObject} /\ r \in Records
    BY <1>1, <1>9
  <2>4. /\ word' \in [Objects -> Words] /\ life' \in [Objects -> Lives]
        /\ \A p \in Objects \ {o} : word'[p] = word[p] /\ life'[p] = life[p]
    BY <1>2, <1>7, <1>8 DEF TypeOK
  <2>5. at' = [at EXCEPT ![h] = r]
    BY <1>8
  <2> QED
    BY <2>1, <2>2, <2>3, <2>4, <2>5, <1>12, <1>13, Frame, Zenon
<1>16. Shared!Hollow(o)
  <2>1. at[h].obj \in {o, NoObject} /\ at'[h].obj \in {o, NoObject}
    BY <1>1, <1>9, <1>11
  <2>2. /\ Strongs[o] = StrongOf(o) /\ Weaks[o] = WeakOf(o)
        /\ Strongs' = [Strongs EXCEPT ![o] = StrongOf(o)']
        /\ Weaks' = [Weaks EXCEPT ![o] = WeakOf(o)']
        /\ StrongOf(o)' = StrongOf(o) => Strongs' = Strongs
        /\ WeakOf(o)' = WeakOf(o) => Weaks' = Weaks
    BY <1>11, <2>1, AbstractFrame
  <2> QED
    BY <2>2, <1>2, <1>8, <1>10, SMTT(30) DEF Shared!Hollow, Strongs, Weaks
<1> QED
  BY <1>15, <1>16 DEF Abstract, Shared!Next

\* The destruction: by the only handle left on the object.
LEMMA DestroyOK ==
  ASSUME IInv, NEW h \in Handles, Destroy(h)
  PROVE  IInv' /\ Abstract
<1>1. PICK o \in Objects : o = at[h].obj
  BY OnObject, SMTT(30) DEF Destroy, Is
<1>2. /\ life[o] \in {"intact", "hollow"} /\ ObjectOK(o) /\ TypeOK /\ at[h].st = "destroy"
      /\ StrongOf(o) = {} /\ WeakOf(o) = {}
  BY <1>1, OnObject DEF Destroy, Is, IInv, HandleOK, HandleOn
<1> DEFINE r == Null
           w == Zero
           l == "freed"
<1>7. w \in Words
  BY WordValues
<1>8. /\ at' = [at EXCEPT ![h] = r] /\ word' = [word EXCEPT ![o] = w]
      /\ life' = [life EXCEPT ![o] = l] /\ l \in Lives
  BY <1>1, <1>2 DEF Destroy, Becomes, Stores, Lives
<1> HIDE DEF w
<1>9. /\ r \in Records /\ r.obj = NoObject /\ r.st = "null"
      /\ r.st \notin StrongStates /\ r.st \notin WeakStates
  BY NullIsRecord DEF StrongStates, WeakStates
<1> HIDE DEF r
<1>10. StrongOf(o)' = StrongOf(o) /\ WeakOf(o)' = WeakOf(o)
  <2>1. StrongOf(o)' = StrongOf(o) \ {h} /\ WeakOf(o)' = WeakOf(o) \ {h}
    BY <1>2, <1>8, <1>9, Change, Zenon
  <2> QED
    BY <2>1, <1>2
<1>11. word'[o] = w /\ life'[o] = l /\ at'[h] = r /\ \A g \in Handles \ {h} : at'[g] = at[g]
  BY <1>2, <1>8 DEF TypeOK
<1>12. ObjectOK(o)'
  BY <1>2, <1>10, <1>11, SMTT(30) DEF ObjectOK
<1>13. HandleOK(h)'
  BY <1>9, <1>11, CountsFit DEF HandleOK, HandleOn
<1>14. ASSUME NEW g \in Handles \ {h}, at[g].obj = o
       PROVE  FALSE
  <2>1. HandleOK(g) /\ HandleOn(g, o)
    BY <1>14 DEF IInv, HandleOK
  <2>2. at[g].st \notin {"null", "await", "destroy", "partial", "weakPartial"}
    BY <1>1, <1>2, <1>14, <2>1, CountsFit, SMTT(30) DEF HandleOK, HandleOn, IInv, OnePer
  <2>3. at[g].st \notin StrongStates /\ at[g].st \notin WeakStates
    BY <1>2, <1>14 DEF StrongOf, WeakOf
  <2>4. at[g].st # "locking"
    <3>1. SUFFICES ASSUME at[g].st = "locking" PROVE FALSE
      OBVIOUS
    <3>2. PICK f \in Handles : f = at[g].src
      BY <2>1, <3>1 DEF HandleOn
    <3>3. f \in WeakOf(o)
      BY <2>1, <3>1, <3>2 DEF HandleOn, WeakOf, WeakStates
    <3> QED
      BY <1>2, <3>3
  <2>5. at[g].st \in States
    BY <1>2, <1>14 DEF TypeOK
  <2> QED
    BY <2>2, <2>3, <2>4, <2>5, SMTT(30) DEF States, StrongStates, WeakStates
<1>15. IInv'
  <2>1. \A g \in Handles \ {h} : at[g].obj = o => HandleOK(g)'
    BY <1>14
  <2>2. \A g \in Handles \ {h} : at[g].obj = o /\ r.obj = o =>
           /\ r.st \in {"partial", "weakPartial"} => at[g].st \notin {"partial", "weakPartial"}
           /\ r.st \in {"await", "destroy"} => at[g].st \notin {"await", "destroy"}
    BY <1>9, <1>14
  <2>3. at[h].obj \in {o, NoObject} /\ r.obj \in {o, NoObject} /\ r \in Records
    BY <1>1, <1>9
  <2>4. /\ word' \in [Objects -> Words] /\ life' \in [Objects -> Lives]
        /\ \A p \in Objects \ {o} : word'[p] = word[p] /\ life'[p] = life[p]
    BY <1>2, <1>7, <1>8 DEF TypeOK
  <2>5. at' = [at EXCEPT ![h] = r]
    BY <1>8
  <2> QED
    BY <2>1, <2>2, <2>3, <2>4, <2>5, <1>12, <1>13, Frame, Zenon
<1>16. Shared!Free(o)
  <2>1. at[h].obj \in {o, NoObject} /\ at'[h].obj \in {o, NoObject}
    BY <1>1, <1>9, <1>11
  <2>2. /\ Strongs[o] = StrongOf(o) /\ Weaks[o] = WeakOf(o)
        /\ Strongs' = [Strongs EXCEPT ![o] = StrongOf(o)']
        /\ Weaks' = [Weaks EXCEPT ![o] = WeakOf(o)']
        /\ StrongOf(o)' = StrongOf(o) => Strongs' = Strongs
        /\ WeakOf(o)' = WeakOf(o) => Weaks' = Weaks
    BY <1>11, <2>1, AbstractFrame
  <2> QED
    BY <2>2, <1>2, <1>8, <1>10, SMTT(30) DEF Shared!Free, Shared!Held, Strongs, Weaks
<1> QED
  BY <1>15, <1>16 DEF Abstract, Shared!Next

\* A new object: nobody is on a freed allocation.
LEMMA CreateOK ==
  ASSUME IInv, NEW h \in Handles, NEW o \in Objects, Create(h, o)
  PROVE  IInv' /\ Abstract
<1> DEFINE r == Holding("strong", o)
           w == NewWord
           l == "intact"
<1>1. at[h].obj = NoObject /\ at[h].st = "null"
  BY DEF Create, Is, IInv, HandleOK
<1>2. life[o] = "freed" /\ TypeOK
  BY SMTT(30) DEF Create, IInv
<1>14. ASSUME NEW g \in Handles \ {h}, at[g].obj = o
       PROVE  FALSE
  BY <1>2, <1>14 DEF IInv, HandleOK, HandleOn
<1>3. StrongOf(o) = {} /\ WeakOf(o) = {}
  BY <1>1, <1>14, CountsFit DEF StrongOf, WeakOf
<1>7. w \in Words /\ w.strong = 1 /\ w.weak = 0 /\ ~w.started /\ ~w.finished
  BY WordValues DEF NewWord
<1>8. /\ at' = [at EXCEPT ![h] = r] /\ word' = [word EXCEPT ![o] = w]
      /\ life' = [life EXCEPT ![o] = l] /\ l \in Lives
  BY DEF Create, Lives
<1> HIDE DEF w
<1>9. /\ r \in Records /\ r.obj = o /\ r.st = "strong"
      /\ r.st \in StrongStates /\ r.st \notin WeakStates
  BY HoldingIsRecord DEF States, StrongStates, WeakStates
<1> HIDE DEF r
<1>10. StrongOf(o)' = {h} /\ WeakOf(o)' = {}
  <2>1. StrongOf(o)' = StrongOf(o) \cup {h} /\ WeakOf(o)' = WeakOf(o) \ {h}
    BY <1>2, <1>8, <1>9, Change, Zenon
  <2> QED
    BY <2>1, <1>3
<1>11. word'[o] = w /\ life'[o] = l /\ at'[h] = r /\ \A g \in Handles \ {h} : at'[g] = at[g]
  BY <1>2, <1>8 DEF TypeOK
<1>12. ObjectOK(o)'
  <2>1. Cardinality({h}) = 1 /\ Cardinality({}) = 0
    BY FS_Singleton, FS_EmptySet, Zenon
  <2>2. /\ word'[o].strong = 1 /\ word'[o].weak = 0
        /\ ~word'[o].started /\ ~word'[o].finished /\ life'[o] = "intact"
    BY <1>7, <1>11, SMTT(30)
  <2> QED
    BY <2>1, <2>2, <1>10 DEF ObjectOK
<1>13. HandleOK(h)'
  BY <1>9, <1>11, CountsFit DEF HandleOK, HandleOn
<1>15. IInv'
  <2>1. \A g \in Handles \ {h} : at[g].obj = o => HandleOK(g)'
    BY <1>14
  <2>2. \A g \in Handles \ {h} : at[g].obj = o /\ r.obj = o =>
           /\ r.st \in {"partial", "weakPartial"} => at[g].st \notin {"partial", "weakPartial"}
           /\ r.st \in {"await", "destroy"} => at[g].st \notin {"await", "destroy"}
    BY <1>9, <1>14
  <2>3. at[h].obj \in {o, NoObject} /\ r.obj \in {o, NoObject} /\ r \in Records
    BY <1>1, <1>9
  <2>4. /\ word' \in [Objects -> Words] /\ life' \in [Objects -> Lives]
        /\ \A p \in Objects \ {o} : word'[p] = word[p] /\ life'[p] = life[p]
    BY <1>2, <1>7, <1>8 DEF TypeOK
  <2>5. at' = [at EXCEPT ![h] = r]
    BY <1>8
  <2> QED
    BY <2>1, <2>2, <2>3, <2>4, <2>5, <1>12, <1>13, Frame, Zenon
<1>16. Shared!Create(o, h)
  <2>1. at[h].obj \in {o, NoObject} /\ at'[h].obj \in {o, NoObject}
    BY <1>1, <1>9, <1>11, SMTT(30)
  <2>2. /\ Strongs[o] = StrongOf(o) /\ Weaks[o] = WeakOf(o)
        /\ Strongs' = [Strongs EXCEPT ![o] = StrongOf(o)']
        /\ Weaks' = [Weaks EXCEPT ![o] = WeakOf(o)']
        /\ StrongOf(o)' = StrongOf(o) => Strongs' = Strongs
        /\ WeakOf(o)' = WeakOf(o) => Weaks' = Weaks
    BY <1>11, <2>1, AbstractFrame
  <2> QED
    BY <2>2, <1>2, <1>3, <1>8, <1>10, SMTT(30) DEF Shared!Create, Strongs, Weaks
<1> QED
  BY <1>15, <1>16 DEF Abstract, Shared!Next

\* A step of one handle that touches no word: the start or another turn of a loop, a
\* checkout that finds no strong holder, the end of the wait.
LEMMA QuietOK ==
  ASSUME IInv, NEW h \in Handles, NEW o \in Objects, NEW r \in Records,
         life[o] # "freed", at[h].obj \in {o, NoObject}, r.obj \in {o, NoObject},
         at' = [at EXCEPT ![h] = r], UNCHANGED <<word, life>>,
         h \in StrongOf(o) <=> r.obj = o /\ r.st \in StrongStates,
         h \in WeakOf(o) <=> r.obj = o /\ r.st \in WeakStates,
         at[h].st = "weak" => ~Lent(h),
         r.st = "null" <=> r.obj = NoObject,
         r.st \in {"locking", "strengthening"} => r.seen.strong # 0,
         r.st = "locking" =>
           r.src \in Handles \ {h} /\ at[r.src].st = "weak" /\ at[r.src].obj = o,
         r.st \notin {"partial", "weakPartial", "await"},
         r.st = "destroy" => at[h].obj = o /\ at[h].st = "await" /\ life[o] = "hollow"
  PROVE  IInv' /\ Abstract
<1>2. word[o] \in Words /\ ObjectOK(o) /\ TypeOK /\ HandleOK(h)
  BY DEF IInv, TypeOK
<1>10. StrongOf(o)' = StrongOf(o) /\ WeakOf(o)' = WeakOf(o)
  <2>1. /\ StrongOf(o)' = IF h \in StrongOf(o) THEN StrongOf(o) \cup {h} ELSE StrongOf(o) \ {h}
        /\ WeakOf(o)' = IF h \in WeakOf(o) THEN WeakOf(o) \cup {h} ELSE WeakOf(o) \ {h}
    BY <1>2, Change, Zenon
  <2> QED
    BY <2>1
<1>11. at'[h] = r /\ \A g \in Handles \ {h} : at'[g] = at[g]
  BY <1>2, SMTT(30) DEF TypeOK
<1>12. ObjectOK(o)'
  BY <1>2, <1>10, SMTT(30) DEF ObjectOK
<1>13. HandleOK(h)'
  <2>1. r.st = "locking" => at'[r.src] = at[r.src]
    BY <1>11, SMTT(30)
  <2>2. ASSUME NEW q \in Objects, r.obj = q PROVE HandleOn(h, q)'
    <3>1. q = o
      BY <2>2, CountsFit, SMTT(30)
    <3>2. r.st = "destroy" => StrongOf(o) = {} /\ WeakOf(o) = {}
      BY <1>2, SMTT(30) DEF HandleOK, HandleOn
    <3> QED
      BY <3>1, <3>2, <2>1, <1>10, <1>11, SMTT(30) DEF HandleOn
  <2> QED
    BY <2>2, <1>11, SMTT(30) DEF HandleOK
<1>14. ASSUME NEW g \in Handles \ {h}, at[g].obj = o
       PROVE  HandleOK(g)' /\ (r.st = "destroy" => at[g].st \notin {"await", "destroy"})
  <2>1. HandleOK(g) /\ HandleOn(g, o)
    BY <1>14, SMTT(30) DEF IInv, HandleOK
  <2>2. r.st = "destroy" => at[g].st \notin {"await", "destroy"}
    BY <1>14, SMTT(30) DEF IInv, OnePer
  <2>3. at[g].st = "locking" => at[g].src # h
    BY <2>1, SMTT(30) DEF HandleOn, Lent, Is
  <2>4. at[g].st = "locking" => at'[at[g].src] = at[at[g].src]
    BY <2>1, <2>3, <1>11 DEF HandleOn
  <2> QED
    BY <1>10, <1>11, <1>14, <2>1, <2>2, <2>4, SMTT(30) DEF HandleOK, HandleOn
<1>15. IInv'
  <2>1. \A g \in Handles \ {h} : at[g].obj = o => HandleOK(g)'
    BY <1>14, SMTT(30)
  <2>2. \A g \in Handles \ {h} : at[g].obj = o /\ r.obj = o =>
           /\ r.st \in {"partial", "weakPartial"} => at[g].st \notin {"partial", "weakPartial"}
           /\ r.st \in {"await", "destroy"} => at[g].st \notin {"await", "destroy"}
    BY <1>14, SMTT(30)
  <2>4. /\ word' \in [Objects -> Words] /\ life' \in [Objects -> Lives]
        /\ \A p \in Objects \ {o} : word'[p] = word[p] /\ life'[p] = life[p]
    BY <1>2 DEF TypeOK
  <2> QED
    BY <2>1, <2>2, <2>4, <1>12, <1>13, Frame, Zenon
<1>16. UNCHANGED (Shared!vars)
  <2>1. at'[h].obj \in {o, NoObject}
    BY <1>11, SMTT(30)
  <2>2. Strongs' = Strongs /\ Weaks' = Weaks
    BY <1>10, <1>11, <2>1, AbstractFrame
  <2> QED
    BY <2>2 DEF Shared!vars, Strongs, Weaks
<1> QED
  BY <1>15, <1>16, SMTT(30) DEF Abstract

\* The starts of the loops.
LEMMA StartDropOK ==
  ASSUME IInv, NEW h \in Handles, StartDrop(h)
  PROVE  IInv' /\ Abstract
<1>1. PICK o \in Objects : o = at[h].obj
  BY OnObject DEF StartDrop, Is
<1>2. life[o] # "freed" /\ word[o] \in Words /\ TypeOK /\ at[h] \in Records /\ HandleOK(h)
  BY <1>1, OnObject DEF StartDrop, Is, IInv, TypeOK, Records
<1> DEFINE r == [at[h] EXCEPT !.st = "dropping", !.seen = word[o]]
<1>3. r \in Records /\ r.st = "dropping" /\ r.obj = o /\ r.seen = word[o]
  BY <1>1, <1>2, WordValues, Zenon DEF Records, States
<1>4. at' = [at EXCEPT ![h] = r] /\ UNCHANGED <<word, life>> /\ at[h].st = "strong"
  BY <1>1, <1>2, Zenon DEF StartDrop, Word, Is, TypeOK, Records
<1>5. /\ h \in StrongOf(o) <=> r.obj = o /\ r.st \in StrongStates
      /\ h \in WeakOf(o) <=> r.obj = o /\ r.st \in WeakStates
  BY <1>1, <1>3, <1>4 DEF StrongOf, WeakOf, StrongStates, WeakStates
<1> HIDE DEF r
<1> QED
  BY <1>1, <1>2, <1>3, <1>4, <1>5, QuietOK, CountsFit, Zenon

LEMMA StartWeakenOK ==
  ASSUME IInv, NEW h \in Handles, StartWeaken(h)
  PROVE  IInv' /\ Abstract
<1>1. PICK o \in Objects : o = at[h].obj
  BY OnObject DEF StartWeaken, Is
<1>2. life[o] # "freed" /\ word[o] \in Words /\ TypeOK /\ at[h] \in Records /\ HandleOK(h)
  BY <1>1, OnObject DEF StartWeaken, Is, IInv, TypeOK, Records
<1> DEFINE r == [at[h] EXCEPT !.st = "weakening", !.seen = word[o]]
<1>3. r \in Records /\ r.st = "weakening" /\ r.obj = o /\ r.seen = word[o]
  BY <1>1, <1>2, WordValues, Zenon DEF Records, States
<1>4. at' = [at EXCEPT ![h] = r] /\ UNCHANGED <<word, life>> /\ at[h].st = "strong"
  BY <1>1, <1>2, Zenon DEF StartWeaken, Word, Is, TypeOK, Records
<1>5. /\ h \in StrongOf(o) <=> r.obj = o /\ r.st \in StrongStates
      /\ h \in WeakOf(o) <=> r.obj = o /\ r.st \in WeakStates
  BY <1>1, <1>3, <1>4 DEF StrongOf, WeakOf, StrongStates, WeakStates
<1> HIDE DEF r
<1> QED
  BY <1>1, <1>2, <1>3, <1>4, <1>5, QuietOK, CountsFit, Zenon

LEMMA StartStrengthenOK ==
  ASSUME IInv, NEW h \in Handles, StartStrengthen(h)
  PROVE  IInv' /\ Abstract
<1>1. PICK o \in Objects : o = at[h].obj
  BY OnObject DEF StartStrengthen, Is
<1>2. life[o] # "freed" /\ word[o] \in Words /\ TypeOK /\ at[h] \in Records /\ HandleOK(h)
  BY <1>1, OnObject DEF StartStrengthen, Is, IInv, TypeOK, Records
<1> DEFINE r == [at[h] EXCEPT !.st = "strengthening", !.seen = Guess]
<1>3. r \in Records /\ r.st = "strengthening" /\ r.obj = o /\ r.seen = Guess
  BY <1>1, <1>2, WordValues, Zenon DEF Records, States
<1>4. at' = [at EXCEPT ![h] = r] /\ UNCHANGED <<word, life>> /\ at[h].st = "weak" /\ ~Lent(h)
  BY <1>1, <1>2, Zenon DEF StartStrengthen, Word, Is, TypeOK, Records
<1>5. /\ h \in StrongOf(o) <=> r.obj = o /\ r.st \in StrongStates
      /\ h \in WeakOf(o) <=> r.obj = o /\ r.st \in WeakStates
  BY <1>1, <1>3, <1>4 DEF StrongOf, WeakOf, StrongStates, WeakStates
<1>6. r.seen.strong # 0
  BY <1>3, WordValues
<1> HIDE DEF r
<1> QED
  BY <1>1, <1>2, <1>3, <1>4, <1>5, <1>6, QuietOK, CountsFit, Zenon

LEMMA StartLockOK ==
  ASSUME IInv, NEW s \in Handles, NEW d \in Handles \ {s}, StartLock(s, d)
  PROVE  IInv' /\ Abstract
<1>1. PICK o \in Objects : o = at[s].obj
  BY OnObject DEF StartLock, Is
<1>2. life[o] # "freed" /\ at[d].st = "null" /\ at[d].obj = NoObject /\ at[s].st = "weak"
  BY <1>1, OnObject DEF StartLock, Is, IInv, HandleOK
<1> DEFINE r == [st |-> "locking", obj |-> o, seen |-> Guess, src |-> s]
<1>3. r \in Records /\ r.st = "locking" /\ r.obj = o /\ r.seen = Guess /\ r.src = s
  BY WordValues DEF Records, States
<1>4. at' = [at EXCEPT ![d] = r] /\ UNCHANGED <<word, life>>
  BY <1>1 DEF StartLock
<1>5. /\ d \in StrongOf(o) <=> r.obj = o /\ r.st \in StrongStates
      /\ d \in WeakOf(o) <=> r.obj = o /\ r.st \in WeakStates
  BY <1>2, <1>3 DEF StrongOf, WeakOf, StrongStates, WeakStates
<1>6. r.seen.strong # 0
  BY <1>3, WordValues
<1> HIDE DEF r
<1> QED
  BY <1>1, <1>2, <1>3, <1>4, <1>5, <1>6, QuietOK, CountsFit, Zenon

\* Another turn of a loop.
LEMMA ReloadOK ==
  ASSUME IInv, NEW h \in Handles, Reloads(h),
         at[h].st \in {"dropping", "weakening", "locking", "strengthening"},
         at[h].st \in {"locking", "strengthening"} => Word(h).strong # 0
  PROVE  IInv' /\ Abstract
<1>1. PICK o \in Objects : o = at[h].obj
  BY OnObject
<1>2. life[o] # "freed" /\ word[o] \in Words /\ TypeOK /\ at[h] \in Records /\ HandleOn(h, o)
  BY <1>1, OnObject DEF IInv, TypeOK, Records, HandleOK
<1> DEFINE r == [at[h] EXCEPT !.seen = word[o]]
<1>3. r \in Records /\ r.st = at[h].st /\ r.obj = o /\ r.seen = word[o] /\ r.src = at[h].src
  BY <1>1, <1>2 DEF Records
<1>4. at' = [at EXCEPT ![h] = r] /\ UNCHANGED <<word, life>>
  BY <1>1, <1>2 DEF Reloads, Word, TypeOK, Records
<1>5. /\ h \in StrongOf(o) <=> r.obj = o /\ r.st \in StrongStates
      /\ h \in WeakOf(o) <=> r.obj = o /\ r.st \in WeakStates
  BY <1>1, <1>3 DEF StrongOf, WeakOf
<1>6. r.st = "locking" =>
        r.src \in Handles \ {h} /\ at[r.src].st = "weak" /\ at[r.src].obj = o
  BY <1>2, <1>3 DEF HandleOn
<1>7. r.st \in {"locking", "strengthening"} => r.seen.strong # 0
  BY <1>1, <1>3 DEF Word
<1> HIDE DEF r
<1> QED
  BY <1>1, <1>2, <1>3, <1>4, <1>5, <1>6, <1>7, QuietOK, CountsFit, Zenon

\* A handle between two states that hold the same references.
LEMMA BecomesOK ==
  ASSUME IInv, NEW h \in Handles, NEW st, Becomes(h, st), UNCHANGED <<word, life>>,
         \/ at[h].st = "locking" /\ st = "null"
         \/ at[h].st = "strengthening" /\ st = "weak"
         \/ at[h].st = "await" /\ st = "destroy" /\ Word(h).finished
  PROVE  IInv' /\ Abstract
<1>1. PICK o \in Objects : o = at[h].obj
  BY OnObject, SMTT(30)
<1>2. life[o] # "freed" /\ TypeOK /\ (at[h].st = "await" => life[o] = "hollow")
  BY <1>1, OnObject DEF IInv, HandleOK, HandleOn, ObjectOK, Word
<1> DEFINE r == IF st = "null" THEN Null ELSE Holding(st, o)
<1>3. /\ r \in Records /\ r.st = st /\ r.obj \in {o, NoObject}
      /\ st # "null" => r.obj = o
      /\ st = "null" => r.obj = NoObject
  BY NullIsRecord, HoldingIsRecord DEF States
<1>4. at' = [at EXCEPT ![h] = r] /\ UNCHANGED <<word, life>>
  BY <1>1 DEF Becomes
<1> HIDE DEF r
<1>5. /\ h \in StrongOf(o) <=> r.obj = o /\ r.st \in StrongStates
      /\ h \in WeakOf(o) <=> r.obj = o /\ r.st \in WeakStates
  BY <1>1, <1>3 DEF StrongOf, WeakOf, StrongStates, WeakStates
<1> QED
  BY <1>1, <1>2, <1>3, <1>4, <1>5, QuietOK, CountsFit, ZenonT(60)

\* A checkout that wins its exchange found the strong holder it had seen.
LEMMA CheckoutOK ==
  ASSUME IInv, NEW h \in Handles, NEW st \in {"strong", "both"},
         \/ at[h].st = "locking" /\ st = "strong"
         \/ at[h].st = "strengthening" /\ st = "both",
         Word(h) = at[h].seen, Stores(h, AddStrong(Word(h))), Becomes(h, st), UNCHANGED life
  PROVE  IInv' /\ Abstract
<1>1. PICK o \in Objects : o = at[h].obj
  BY OnObject
<1>2. StrongOf(o) # {}
  <2>1. word[o].strong # 0
    BY <1>1, SMTT(30) DEF IInv, HandleOK, Word
  <2>2. word[o].strong = Cardinality(StrongOf(o))
    BY <1>1, OnObject, SMTT(30) DEF ObjectOK
  <2> QED
    BY <2>1, <2>2, CardZero, Holders, SMTT(30)
<1>3. h \notin StrongOf(o) /\ (st = "both" <=> h \in WeakOf(o))
  BY <1>1 DEF StrongOf, WeakOf, StrongStates, WeakStates
<1>4. /\ at' = [at EXCEPT ![h] = Holding(st, o)]
      /\ word' = [word EXCEPT ![o] = AddStrong(word[o])]
  BY <1>1, Zenon DEF Becomes, Stores, Word
<1> QED
  BY <1>1, <1>2, <1>3, <1>4, ShareOK, Zenon

\* Clone and downgrade.
LEMMA CopyOK ==
  ASSUME IInv, NEW s \in Handles, NEW d \in Handles, Clone(s, d) \/ Downgrade(s, d)
  PROVE  IInv' /\ Abstract
<1>1. PICK o \in Objects : o = at[s].obj
  BY OnObject, SMTT(30) DEF Clone, Downgrade, Is
<1>2. at[d].st = "null" /\ at[d].obj = NoObject /\ d \notin StrongOf(o) /\ d \notin WeakOf(o)
  BY DEF Clone, Downgrade, Is, IInv, HandleOK, StrongOf, WeakOf, StrongStates, WeakStates
<1>3. CASE Clone(s, d)
  <2>1. s \in StrongOf(o)
    BY <1>1, <1>3 DEF Clone, Is, StrongOf, StrongStates
  <2>2. /\ at' = [at EXCEPT ![d] = Holding("strong", o)] /\ UNCHANGED life
        /\ word' = [word EXCEPT ![o] = AddStrong(word[o])]
    BY <1>1, <1>3 DEF Clone, Stores, Word
  <2> QED
    BY <1>2, <2>1, <2>2, ShareOK, Zenon
<1>4. CASE Downgrade(s, d)
  <2>1. s \in StrongOf(o) \cup WeakOf(o)
    BY <1>1, <1>4 DEF Downgrade, StrongOf, WeakOf, StrongStates, WeakStates
  <2>2. /\ at' = [at EXCEPT ![d] = Holding("weak", o)] /\ UNCHANGED life
        /\ word' = [word EXCEPT ![o] = AddWeak(word[o])]
    BY <1>1, <1>4 DEF Downgrade, Stores, Word
  <2> QED
    BY <1>2, <2>1, <2>2, WatchOK, Zenon
<1> QED
  BY <1>3, <1>4, SMTT(30)
-----------------------------------------------------------------------------
LEMMA InitOK ==
  ASSUME Init
  PROVE  IInv /\ Shared!Init
<1>1. TypeOK
  BY WordValues, NullIsRecord DEF Init, TypeOK, Records, Lives
<1>2. \A h \in Handles : at[h] = Null /\ at[h].st = "null" /\ at[h].obj = NoObject
  BY NullIsRecord DEF Init
<1>3. \A o \in Objects : StrongOf(o) = {} /\ WeakOf(o) = {} /\ life[o] = "freed"
  BY <1>2, CountsFit DEF Init, StrongOf, WeakOf
<1>4. \A h \in Handles : HandleOK(h)
  BY <1>2, CountsFit DEF HandleOK
<1>5. \A o \in Objects : ObjectOK(o)
  BY <1>3 DEF ObjectOK
<1>6. OnePer({"partial", "weakPartial"}) /\ OnePer({"await", "destroy"})
  BY <1>2 DEF OnePer
<1>7. Shared!Init
  BY <1>3 DEF Shared!Init, Init
<1> QED
  BY <1>1, <1>4, <1>5, <1>6, <1>7 DEF IInv

\* Only convert_to_strong depends on the arguments of debug_assert being evaluated.
LEMMA NextOK ==
  ASSUME IInv, [RefNext]_refVars,
         DebugAssertions \/ \A h \in Handles : ~Is(h, "strengthening")
  PROVE  IInv' /\ Abstract
<1>1. CASE UNCHANGED refVars
  <2>1. IInv'
    <3>1. /\ word' = word /\ life' = life /\ at' = at
          /\ \A o \in Objects : StrongOf(o)' = StrongOf(o) /\ WeakOf(o)' = WeakOf(o)
      BY <1>1, SMTT(30) DEF refVars, StrongOf, WeakOf, StrongStates, WeakStates
    <3>2. \A h \in Handles : HandleOK(h)'
      BY <3>1 DEF IInv, HandleOK, HandleOn
    <3>3. \A o \in Objects : ObjectOK(o)'
      BY <3>1 DEF IInv, ObjectOK
    <3> QED
      BY <3>1, <3>2, <3>3 DEF IInv, TypeOK, OnePer
  <2>2. UNCHANGED (Shared!vars)
    BY <1>1 DEF refVars, Shared!vars, StrongOf, WeakOf, StrongStates, WeakStates
  <2> QED
    BY <2>1, <2>2 DEF Abstract
<1>2. ASSUME NEW h \in Handles, Continue(h) PROVE IInv' /\ Abstract
  <2>1. CASE LockStep(h)
    BY <2>1, CheckoutOK, BecomesOK, ReloadOK, SMTT(30) DEF LockStep, Is
  <2>2. CASE DropStep(h)
    BY <2>2, DropStepOK, ReloadOK, SMTT(30) DEF DropStep, Is
  <2>3. CASE WeakenStep(h)
    BY <2>3, WeakenOK, ReloadOK, SMTT(30) DEF WeakenStep, Is
  <2>4. CASE StrengthenStep(h)
    <3>1. DebugAssertions
      BY <2>4 DEF StrengthenStep
    <3> QED
      BY <2>4, <3>1, CheckoutOK, BecomesOK, ReloadOK, SMTT(30) DEF StrengthenStep, Is
  <2>5. CASE ReleaseOldWeak(h)
    BY <2>5, ReleaseOldWeakOK
  <2>6. CASE Await(h)
    BY <2>6, BecomesOK DEF Await, Is
  <2>7. CASE PartialDone(h)
    BY <2>7, PartialDoneOK
  <2>8. CASE Destroy(h)
    BY <2>8, DestroyOK
  <2> QED
    BY <1>2, <2>1, <2>2, <2>3, <2>4, <2>5, <2>6, <2>7, <2>8, SMTT(30) DEF Continue
<1>3. ASSUME NEW h \in Handles,
             StartDrop(h) \/ DropWeak(h) \/ StartWeaken(h) \/ StartStrengthen(h)
      PROVE  IInv' /\ Abstract
  BY <1>3, StartDropOK, DropWeakOK, StartWeakenOK, StartStrengthenOK
<1>4. ASSUME NEW h \in Handles, NEW o \in Objects, Create(h, o) PROVE IInv' /\ Abstract
  BY <1>4, CreateOK
<1>5. ASSUME NEW h \in Handles, NEW d \in Handles \ {h},
             Clone(h, d) \/ Downgrade(h, d) \/ StartLock(h, d)
      PROVE  IInv' /\ Abstract
  BY <1>5, CopyOK, StartLockOK
<1> QED
  BY <1>1, <1>2, <1>3, <1>4, <1>5 DEF RefNext

\* The word of every object counts its holders, and each handle's place in a loop or a
\* destructor agrees with what is left of the object, in a build that evaluates the
\* arguments of debug_assert.
THEOREM WordsAreExact == DebugAssertions /\ RefSpec => []IInv
<1> SUFFICES ASSUME DebugAssertions PROVE RefSpec => []IInv
  OBVIOUS
<1>1. Init => IInv
  BY InitOK
<1>2. IInv /\ [RefNext]_refVars => IInv'
  BY NextOK
<1> QED
  BY <1>1, <1>2, PTL DEF RefSpec

\* ref_counts, accessed by one atomic operation at a time from any number of threads,
\* implements the sharing of objects.
THEOREM CountsImplementSharing == DebugAssertions /\ RefSpec => ImplementsSharedObject
<1> SUFFICES ASSUME DebugAssertions PROVE RefSpec => ImplementsSharedObject
  OBVIOUS
<1>1. Init => Shared!Init
  BY InitOK
<1>2. IInv /\ [RefNext]_refVars => [Shared!Next]_(Shared!vars)
  BY NextOK DEF Abstract
<1> QED
  BY <1>1, <1>2, WordsAreExact, PTL DEF RefSpec, ImplementsSharedObject, Shared!Spec

\* A strong pointer never outlives its payload, nor a weak one its allocation.
THEOREM PointersAreSafe == DebugAssertions /\ RefSpec => []Shared!HoldersAreSafe
<1>1. IInv => Shared!HoldersAreSafe
  <2> SUFFICES ASSUME IInv, NEW o \in Objects
               PROVE  /\ StrongOf(o) # {} => life[o] = "intact"
                      /\ WeakOf(o) # {} => life[o] # "freed"
    BY DEF Shared!HoldersAreSafe
  <2>1. StrongOf(o) # {} => life[o] = "intact"
    BY SMTT(30) DEF IInv, ObjectOK
  <2>2. WeakOf(o) # {} => life[o] # "freed"
    BY DEF IInv, HandleOK, HandleOn, WeakOf
  <2> QED
    BY <2>1, <2>2
<1> QED
  BY <1>1, WordsAreExact, PTL
=============================================================================
