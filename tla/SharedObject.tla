---------------------------- MODULE SharedObject ----------------------------
(***************************************************************************)
(* What the intrusive pointers promise of the objects they share: the      *)
(* payload lives while a strong holder does, the allocation while any      *)
(* holder or destructor does, and each is destroyed once.  Allocations may *)
(* be reused, so a second destruction would hit someone else's object.     *)
(***************************************************************************)
CONSTANTS Holders, Objects

VARIABLES
    strong,   \* the strong holders of each object
    weak,     \* the weak holders of each object
    life      \* what is left of each object

vars == <<strong, weak, life>>

\* freed; all there; partial destructor running; only the shell left.
Lives == {"freed", "intact", "hollowing", "hollow"}

TypeOK ==
    /\ strong \in [Objects -> SUBSET Holders] /\ weak \in [Objects -> SUBSET Holders]
    /\ life \in [Objects -> Lives]

Init ==
    /\ strong = [o \in Objects |-> {}] /\ weak = [o \in Objects |-> {}]
    /\ life = [o \in Objects |-> "freed"]

Held(o) == strong[o] # {} \/ weak[o] # {}

Create(o, h) ==
    /\ life[o] = "freed"
    /\ life' = [life EXCEPT ![o] = "intact"]
    /\ strong' = [strong EXCEPT ![o] = {h}]
    /\ UNCHANGED weak

\* Another strong holder, copied from a strong one or checked out of a weak one:
\* there must be one that keeps the payload.
Share(o, h) ==
    /\ strong[o] # {}
    /\ strong' = [strong EXCEPT ![o] = @ \cup {h}]
    /\ UNCHANGED <<weak, life>>

Watch(o, h) ==
    /\ Held(o)
    /\ weak' = [weak EXCEPT ![o] = @ \cup {h}]
    /\ UNCHANGED <<strong, life>>

\* What becomes of the object when h lets go of its strength.
LifeWithout(o, h) == IF strong[o] = {h} /\ weak[o] # {} THEN "hollowing" ELSE life[o]

Drop(o, h) ==
    /\ h \in strong[o]
    /\ strong' = [strong EXCEPT ![o] = @ \ {h}]
    /\ life' = [life EXCEPT ![o] = LifeWithout(o, h)]
    /\ UNCHANGED weak

\* A strong holder becomes a weak one.  A lone holder takes the payload with it.
Weaken(o, h) ==
    /\ h \in strong[o]
    /\ strong' = [strong EXCEPT ![o] = @ \ {h}]
    /\ weak' = [weak EXCEPT ![o] = @ \cup {h}]
    /\ life' = [life EXCEPT ![o] = LifeWithout(o, h)]

DropWeak(o, h) ==
    /\ h \in weak[o]
    /\ weak' = [weak EXCEPT ![o] = @ \ {h}]
    /\ UNCHANGED <<strong, life>>

Hollow(o) ==
    /\ life[o] = "hollowing"
    /\ life' = [life EXCEPT ![o] = "hollow"]
    /\ UNCHANGED <<strong, weak>>

Free(o) ==
    /\ ~Held(o) /\ life[o] \in {"intact", "hollow"}
    /\ life' = [life EXCEPT ![o] = "freed"]
    /\ UNCHANGED <<strong, weak>>

Next ==
    \E o \in Objects :
      \/ Hollow(o) \/ Free(o)
      \/ \E h \in Holders :
           \/ Create(o, h) \/ Share(o, h) \/ Watch(o, h)
           \/ Drop(o, h) \/ Weaken(o, h) \/ DropWeak(o, h)

Spec == Init /\ [][Next]_vars

\* A strong holder can use the payload, and no holder's object is freed.
HoldersAreSafe ==
    \A o \in Objects :
      /\ strong[o] # {} => life[o] = "intact"
      /\ weak[o] # {} => life[o] # "freed"
=============================================================================
