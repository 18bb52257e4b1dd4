------------------------ MODULE ConsensusRoundProofs ------------------------
(***************************************************************************)
(* The consensus round, for any number of peers, transactions and ledgers, *)
(* any durations and any order of calls: the disputes are complete, the    *)
(* votes are those of the current positions, our proposals are ordered,    *)
(* and past its limit a round ends or waits for a fresh close time.        *)
(***************************************************************************)
EXTENDS ConsensusRound, FiniteSetTheorems, TLAPS

\* A leaf that names no prover is left to Zenon.
USE Zenon
-----------------------------------------------------------------------------
(* Folds over a finite set S, from b, that take the element C[s] of what    *)
(* is left: the shape of FoldSet and MapThenFoldSet.                       *)

\* A set of natural numbers that is not empty has a least member.
LEMMA Least ==
    ASSUME NEW N \in SUBSET Nat, N # {}
    PROVE  \E n \in N : \A m \in N : n <= m
<1>1. IsWellFoundedOn(OpToRel(<, Nat), Nat)
  BY NatLessThanWellFounded
<1>2. PICK n \in N : \A m \in N : ~(<<m, n>> \in OpToRel(<, Nat))
  BY <1>1, WFMin
<1>3. \A m \in N : ~(m < n)
  BY <1>2 DEF OpToRel
<1> QED
  BY <1>3, SMT

UpTo(S, n) == {s \in SUBSET S : Cardinality(s) <= n}
Chooses(C, S) == \A s \in SUBSET S : s # {} => C[s] \in s

LEMMA UpToZero ==
    ASSUME NEW S, IsFiniteSet(S), NEW s \in UpTo(S, 0)
    PROVE  s = {}
<1>1. s \in SUBSET S /\ Cardinality(s) <= 0
  BY DEF UpTo
<1>2. IsFiniteSet(s) /\ Cardinality(s) \in Nat
  BY <1>1, FS_Subset, FS_CardinalityType
<1>3. Cardinality(s) = 0
  BY <1>1, <1>2, SMT
<1> QED
  BY <1>2, <1>3, FS_EmptySet

LEMMA UpToGrows ==
    ASSUME NEW S, IsFiniteSet(S), NEW n \in Nat, NEW s \in UpTo(S, n)
    PROVE  s \in UpTo(S, n + 1)
<1>1. s \in SUBSET S /\ Cardinality(s) \in Nat /\ Cardinality(s) <= n
  BY FS_Subset, FS_CardinalityType DEF UpTo
<1> QED
  BY <1>1, SMT DEF UpTo

LEMMA SmallerPart ==
    ASSUME NEW S, IsFiniteSet(S), NEW C, Chooses(C, S),
           NEW n \in Nat, NEW s \in UpTo(S, n + 1), s # {}
    PROVE  C[s] \in S /\ s \ {C[s]} \in UpTo(S, n)
<1>1. s \in SUBSET S /\ IsFiniteSet(s) /\ Cardinality(s) \in Nat /\ Cardinality(s) <= n + 1
  BY FS_Subset, FS_CardinalityType DEF UpTo
<1>2. C[s] \in s
  BY <1>1 DEF Chooses
<1>3. Cardinality(s \ {C[s]}) = Cardinality(s) - 1
  BY <1>1, <1>2, FS_RemoveElement
<1> QED
  BY <1>1, <1>2, <1>3, SMT DEF UpTo

\* g solves the recursion on the sets of at most n elements.  Z[s] is a set of
\* values that is known to hold the value for s.
Partial(g, S, C, b, G, Z, n) ==
    /\ DOMAIN g = UpTo(S, n) /\ g = [s \in UpTo(S, n) |-> g[s]]
    /\ \A s \in UpTo(S, n) :
          /\ g[s] = IF s = {} THEN b ELSE G[<<C[s], g[s \ {C[s]}]>>]
          /\ g[s] \in Z[s]
FoldsIn(S, C, b, G, Z) ==
    /\ Chooses(C, S) /\ b \in Z[{}]
    /\ \A s \in SUBSET S : s # {} =>
          \A z \in Z[s \ {C[s]}] : G[<<C[s], z>>] \in Z[s]

Solves(g, S, C, b, G, Z) ==
    /\ g = [s \in SUBSET S |-> IF s = {} THEN b ELSE G[<<C[s], g[s \ {C[s]}]>>]]
    /\ \A s \in SUBSET S : g[s] \in Z[s]

LEMMA FoldStep ==
    ASSUME NEW S, IsFiniteSet(S), NEW C, NEW b, NEW G, NEW Z, FoldsIn(S, C, b, G, Z),
           NEW n \in Nat, NEW g, Partial(g, S, C, b, G, Z, n)
    PROVE  \E h : Partial(h, S, C, b, G, Z, n + 1)
<1> DEFINE h == [s \in UpTo(S, n + 1) |-> IF s = {} THEN b ELSE G[<<C[s], g[s \ {C[s]}]>>]]
<1>1. ASSUME NEW s \in UpTo(S, n + 1), s # {}
      PROVE  C[s] \in S /\ s \ {C[s]} \in UpTo(S, n)
  BY <1>1, SmallerPart DEF FoldsIn
<1>2. ASSUME NEW s \in UpTo(S, n) PROVE s \in UpTo(S, n + 1) /\ h[s] = g[s]
  <2>1. s \in UpTo(S, n + 1)
    BY UpToGrows
  <2>2. h[s] = IF s = {} THEN b ELSE G[<<C[s], g[s \ {C[s]}]>>]
    BY <2>1
  <2> QED
    BY <2>1, <2>2 DEF Partial
<1>3. ASSUME NEW s \in UpTo(S, n + 1)
      PROVE  h[s] = IF s = {} THEN b ELSE G[<<C[s], h[s \ {C[s]}]>>]
  <2>1. CASE s = {}
    BY <2>1
  <2>2. CASE s # {}
    <3>1. h[s \ {C[s]}] = g[s \ {C[s]}]
      BY <1>1, <1>2, <2>2
    <3>2. h[s] = G[<<C[s], g[s \ {C[s]}]>>]
      BY <2>2
    <3> QED
      BY <2>2, <3>1, <3>2
  <2> QED
    BY <2>1, <2>2
<1>4. ASSUME NEW s \in UpTo(S, n + 1) PROVE h[s] \in Z[s]
  <2>1. CASE s = {}
    BY <2>1 DEF FoldsIn
  <2>2. CASE s # {}
    <3>1. g[s \ {C[s]}] \in Z[s \ {C[s]}]
      BY <1>1, <2>2 DEF Partial
    <3>2. s \in SUBSET S
      BY DEF UpTo
    <3>3. h[s] = G[<<C[s], g[s \ {C[s]}]>>]
      BY <2>2
    <3> QED
      BY <2>2, <3>1, <3>2, <3>3 DEF FoldsIn
  <2> QED
    BY <2>1, <2>2
<1>5. DOMAIN h = UpTo(S, n + 1) /\ h = [s \in UpTo(S, n + 1) |-> h[s]]
  OBVIOUS
<1> HIDE DEF h
<1>6. Partial(h, S, C, b, G, Z, n + 1)
  BY <1>3, <1>4, <1>5 DEF Partial
<1> QED
  BY <1>6

\* The recursion has a solution, and its values stay where the steps keep them.
LEMMA FoldExists ==
    ASSUME NEW S, IsFiniteSet(S), NEW C, NEW b, NEW G, NEW Z, FoldsIn(S, C, b, G, Z)
    PROVE  \E g : Solves(g, S, C, b, G, Z)
<1> DEFINE Bad == {n \in Nat : ~\E g : Partial(g, S, C, b, G, Z, n)}
<1>1. \E g : Partial(g, S, C, b, G, Z, 0)
  <2> DEFINE g == [s \in UpTo(S, 0) |-> b]
  <2>1. \A s \in UpTo(S, 0) : s = {}
    BY UpToZero
  <2>2. Partial(g, S, C, b, G, Z, 0)
    BY <2>1 DEF Partial, FoldsIn
  <2> QED
    BY <2>2
<1>2. Bad = {}
  <2> SUFFICES ASSUME Bad # {} PROVE FALSE
    OBVIOUS
  <2>1. Bad \in SUBSET Nat
    OBVIOUS
  <2> HIDE DEF Bad
  <2>2. PICK n \in Bad : \A m \in Bad : n <= m
    BY <2>1, Least
  <2>3. n \in Nat /\ n # 0
    BY <1>1, <2>1 DEF Bad
  <2>4. n - 1 \in Nat /\ n - 1 \notin Bad
    BY <2>2, <2>3, SMT
  <2>5. PICK g : Partial(g, S, C, b, G, Z, n - 1)
    BY <2>4 DEF Bad
  <2>6. \E h : Partial(h, S, C, b, G, Z, (n - 1) + 1)
    BY <2>4, <2>5, FoldStep
  <2>7. (n - 1) + 1 = n
    BY <2>3, SMT
  <2> QED
    BY <2>2, <2>6, <2>7 DEF Bad
<1>3. Cardinality(S) \in Nat
  BY FS_CardinalityType
<1>4. PICK g : Partial(g, S, C, b, G, Z, Cardinality(S))
  BY <1>2, <1>3
<1>5. UpTo(S, Cardinality(S)) = SUBSET S
  BY FS_Subset, FS_CardinalityType DEF UpTo
<1>6. g = [s \in SUBSET S |-> g[s]]
  BY <1>4, <1>5 DEF Partial
<1>7. \A s \in SUBSET S : /\ g[s] = IF s = {} THEN b ELSE G[<<C[s], g[s \ {C[s]}]>>]
                          /\ g[s] \in Z[s]
  BY <1>4, <1>5 DEF Partial
<1>8. g = [s \in SUBSET S |-> IF s = {} THEN b ELSE G[<<C[s], g[s \ {C[s]}]>>]]
  BY <1>6, <1>7
<1> QED
  BY <1>7, <1>8 DEF Solves

\* Induction over the subsets of a finite set, along the elements that C takes.
LEMMA SubsetInduction ==
    ASSUME NEW S, IsFiniteSet(S), NEW C, Chooses(C, S), NEW G, {} \in G,
           \A s \in SUBSET S : s # {} /\ s \ {C[s]} \in G => s \in G
    PROVE  \A s \in SUBSET S : s \in G
<1> SUFFICES ASSUME NEW b \in SUBSET S, b \notin G PROVE FALSE
  OBVIOUS
<1> DEFINE B == {s \in SUBSET S : s \notin G}
           R == StrictSubsetOrdering(S)
<1>1. IsWellFoundedOn(R, SUBSET S)
  <2>1. FiniteSubsetsOf(S) = SUBSET S
    BY FS_FiniteSubsetsOfFinite
  <2>2. IsWellFoundedOn(StrictSubsetOrdering(S), FiniteSubsetsOf(S))
    BY FS_StrictSubsetOrderingWellFounded
  <2> QED
    BY <2>1, <2>2
<1>2. PICK s \in B : \A r \in B : ~(<<r, s>> \in R)
  <2>1. B \subseteq SUBSET S /\ B # {}
    OBVIOUS
  <2> HIDE DEF B, R
  <2> QED
    BY <1>1, <2>1, WFMin
<1>3. s \in SUBSET S /\ s \notin G /\ s # {}
  OBVIOUS
<1>4. C[s] \in s
  BY <1>3 DEF Chooses
<1>5. s \ {C[s]} \in SUBSET S /\ s \ {C[s]} \notin G
  BY <1>3
<1>6. <<s \ {C[s]}, s>> \in R
  BY <1>3, <1>4, <1>5, SMT DEF StrictSubsetOrdering
<1> QED
  BY <1>2, <1>5, <1>6

\* What every step keeps holds of the value for the whole set.
LEMMA FoldKeeps ==
    ASSUME NEW S, IsFiniteSet(S), NEW C, Chooses(C, S), NEW Z, NEW g, g[{}] \in Z[{}],
           \A s \in SUBSET S : s # {} /\ g[s \ {C[s]}] \in Z[s \ {C[s]}] => g[s] \in Z[s]
    PROVE  g[S] \in Z[S]
<1> DEFINE G == {s \in SUBSET S : g[s] \in Z[s]}
<1>1. {} \in G
  OBVIOUS
<1>2. \A s \in SUBSET S : s # {} /\ s \ {C[s]} \in G => s \in G
  OBVIOUS
<1> HIDE DEF G
<1>3. \A s \in SUBSET S : s \in G
  BY <1>1, <1>2, SubsetInduction, SMT
<1> QED
  BY <1>3 DEF G
-----------------------------------------------------------------------------
(* Types.                                                                  *)

Modes == {"Proposing", "Observing", "WrongLedger", "SwitchedLedger"}
PartialFns(S, T) == UNION {[P -> T] : P \in SUBSET S}

Props == [node : Peers, prev : Ledgers, seq : 0..Leave, set : SUBSET Txs, ct : Nat, seen : Nat]
Answers == [net : Ledgers, have : SUBSET Ledgers, avail : SUBSET SUBSET Txs,
            open : SUBSET Txs, validated : Nat, finished : Nat, since : Nat,
            pause : BOOLEAN]
BallotShapes == [votes : PartialFns(Peers, BOOLEAN), yays : Int, nays : Int, our : BOOLEAN,
                 held : Int, state : AvalancheStates, rounds : Int]
YesOf(d) == {p \in DOMAIN d.votes : d.votes[p]}
NoOf(d) == {p \in DOMAIN d.votes : ~d.votes[p]}
Ballots == {d \in BallotShapes : d.yays = Cardinality(YesOf(d)) /\ d.nays = Cardinality(NoOf(d))}
OwnPositions == [set : SUBSET Txs, ct : Int, seen : Nat, seq : Nat]
Results == [txns : SUBSET Txs, pos : OwnPositions, disputes : PartialFns(Txs, Ballots),
            compares : SUBSET SUBSET Txs, start : Nat,
            state : {"No", "Yes", "MovedOn", "Expired"}]
States == [now : Nat, phase : {"Open", "Establish", "Accepted"}, mode : Modes,
           prevId : Ledgers, prev : Ledgers,
           positions : PartialFns(Peers, Props), recent : [Peers -> Seq(Props)],
           dead : SUBSET Peers, acquired : SUBSET SUBSET Txs,
           result : Results \cup {NoResult},
           prevProposers : Nat, prevRoundTime : Nat, percent : Int, haveCT : BOOLEAN,
           ctState : AvalancheStates, unchanged : Nat, establish : Nat,
           openStart : Nat, sent : Seq(Nat)]

LEMMA PartialFn ==
    ASSUME NEW S, NEW T, NEW f \in PartialFns(S, T)
    PROVE  /\ DOMAIN f \subseteq S /\ f \in [DOMAIN f -> T]
           /\ \A x \in DOMAIN f : x \in S /\ f[x] \in T
BY DEF PartialFns

LEMMA PartialFnOver ==
    ASSUME NEW S, NEW T, NEW P \in SUBSET S, NEW f \in [P -> T]
    PROVE  f \in PartialFns(S, T) /\ DOMAIN f = P
BY DEF PartialFns

LEMMA EmptyFn ==
    ASSUME NEW S, NEW T
    PROVE  <<>> \in PartialFns(S, T) /\ DOMAIN <<>> = {}
<1>1. <<>> \in [{} -> T] /\ DOMAIN <<>> = {}
  BY SMT
<1>2. {} \in SUBSET S
  OBVIOUS
<1> QED
  BY <1>1, <1>2 DEF PartialFns

LEMMA NotNoResult ==
    ASSUME NEW r \in Results
    PROVE  r # NoResult
BY SMT DEF Results, NoResult

LEMMA TypedResult ==
    ASSUME NEW x \in States, HasResult(x)
    PROVE  x.result \in Results
BY SMT DEF States, HasResult
-----------------------------------------------------------------------------
(* Ballots.                                                                *)

LEMMA BallotFacts ==
    ASSUME NEW d \in BallotShapes
    PROVE  /\ DOMAIN d.votes \subseteq Peers /\ d.votes \in [DOMAIN d.votes -> BOOLEAN]
           /\ \A q \in DOMAIN d.votes : d.votes[q] \in BOOLEAN
           /\ IsFiniteSet(YesOf(d)) /\ IsFiniteSet(NoOf(d))
           /\ Cardinality(YesOf(d)) \in Nat /\ Cardinality(NoOf(d)) \in Nat
<1>1. d.votes \in PartialFns(Peers, BOOLEAN)
  BY DEF BallotShapes
<1>2. /\ DOMAIN d.votes \subseteq Peers /\ d.votes \in [DOMAIN d.votes -> BOOLEAN]
      /\ \A q \in DOMAIN d.votes : d.votes[q] \in BOOLEAN
  BY <1>1 DEF PartialFns
<1>3. YesOf(d) \subseteq Peers /\ NoOf(d) \subseteq Peers
  BY <1>2 DEF YesOf, NoOf
<1>4. IsFiniteSet(YesOf(d)) /\ IsFiniteSet(NoOf(d))
  BY <1>3, PeersAssumption, FS_Subset
<1> QED
  BY <1>2, <1>4, FS_CardinalityType

LEMMA NewBallot ==
    ASSUME NEW b \in BOOLEAN
    PROVE  NewDispute(b) \in Ballots /\ NewDispute(b).our = b /\ DOMAIN NewDispute(b).votes = {}
<1>1. <<>> \in PartialFns(Peers, BOOLEAN) /\ DOMAIN <<>> = {}
  BY EmptyFn
<1>2. 0 \in Int /\ "Init" \in AvalancheStates
  BY SMT DEF AvalancheStates
<1>3. /\ NewDispute(b) \in BallotShapes /\ NewDispute(b).our = b /\ NewDispute(b).votes = <<>>
      /\ NewDispute(b).yays = 0 /\ NewDispute(b).nays = 0
  BY <1>1, <1>2 DEF BallotShapes, NewDispute
<1>4. YesOf(NewDispute(b)) = {} /\ NoOf(NewDispute(b)) = {}
  BY <1>1, <1>3 DEF YesOf, NoOf
<1>5. Cardinality({}) = 0
  BY FS_EmptySet
<1> QED
  BY <1>1, <1>3, <1>4, <1>5 DEF Ballots

LEMMA CountsMove ==
    ASSUME NEW S, IsFiniteSet(S), NEW p
    PROVE  /\ p \notin S => Cardinality(S \cup {p}) = Cardinality(S) + 1
           /\ Cardinality(S \ {p}) = IF p \in S THEN Cardinality(S) - 1 ELSE Cardinality(S)
<1>1. p \notin S => Cardinality(S \cup {p}) = Cardinality(S) + 1
  BY FS_AddElement
<1>2. Cardinality(S \ {p}) = IF p \in S THEN Cardinality(S) - 1 ELSE Cardinality(S)
  BY FS_RemoveElement
<1> QED
  BY <1>1, <1>2

LEMMA BallotCounts ==
    ASSUME NEW d \in Ballots, NEW p
    PROVE  /\ Cardinality(YesOf(d) \ {p}) = IF p \in YesOf(d) THEN d.yays - 1 ELSE d.yays
           /\ p \notin YesOf(d) => Cardinality(YesOf(d) \cup {p}) = d.yays + 1
           /\ Cardinality(NoOf(d) \ {p}) = IF p \in NoOf(d) THEN d.nays - 1 ELSE d.nays
           /\ p \notin NoOf(d) => Cardinality(NoOf(d) \cup {p}) = d.nays + 1
<1>1. d \in BallotShapes
  BY DEF Ballots
<1>2. d.yays = Cardinality(YesOf(d)) /\ d.nays = Cardinality(NoOf(d))
  BY DEF Ballots
<1>3. IsFiniteSet(YesOf(d)) /\ IsFiniteSet(NoOf(d))
  BY <1>1, BallotFacts
<1>4. /\ Cardinality(YesOf(d) \ {p}) = IF p \in YesOf(d) THEN d.yays - 1 ELSE d.yays
      /\ p \notin YesOf(d) => Cardinality(YesOf(d) \cup {p}) = d.yays + 1
  BY <1>2, <1>3, CountsMove
<1>5. /\ Cardinality(NoOf(d) \ {p}) = IF p \in NoOf(d) THEN d.nays - 1 ELSE d.nays
      /\ p \notin NoOf(d) => Cardinality(NoOf(d) \cup {p}) = d.nays + 1
  BY <1>2, <1>3, CountsMove, ZenonT(60)
<1> QED
  BY <1>4, <1>5

\* The ballot e is d with the vote b of p.
Voted(d, e, p, b) ==
    /\ e \in Ballots /\ e.our = d.our /\ DOMAIN e.votes = DOMAIN d.votes \cup {p}
    /\ e.votes[p] = b /\ \A q \in DOMAIN d.votes \ {p} : e.votes[q] = d.votes[q]

LEMMA BallotAfterVote ==
    ASSUME NEW d \in Ballots, NEW p \in Peers, NEW b \in BOOLEAN
    PROVE  Voted(d, SetVote(d, p, b), p, b)
<1> DEFINE f == SetVote(d, p, b)
           v == [q \in DOMAIN d.votes \cup {p} |-> IF q = p THEN b ELSE d.votes[q]]
           w1 == Bit(p \in DOMAIN d.votes /\ d.votes[p] = TRUE)
           w0 == Bit(p \in DOMAIN d.votes /\ d.votes[p] = FALSE)
           y == d.yays + Bit(b) - w1
           n == d.nays + Bit(~b) - w0
<1>1. /\ d \in BallotShapes /\ d.yays = Cardinality(YesOf(d)) /\ d.nays = Cardinality(NoOf(d))
  BY DEF Ballots
<1>2. /\ DOMAIN d.votes \subseteq Peers /\ \A q \in DOMAIN d.votes : d.votes[q] \in BOOLEAN
      /\ IsFiniteSet(YesOf(d)) /\ IsFiniteSet(NoOf(d)) /\ d.yays \in Nat /\ d.nays \in Nat
  BY <1>1, BallotFacts
<1>3. v \in PartialFns(Peers, BOOLEAN)
  <2>1. v \in [DOMAIN d.votes \cup {p} -> BOOLEAN]
    BY <1>2
  <2>2. DOMAIN d.votes \cup {p} \in SUBSET Peers
    BY <1>2
  <2> HIDE DEF v
  <2> QED
    BY <2>1, <2>2, PartialFnOver
<1>4. CASE ~VoteChanges(d, p, b)
  <2>1. SetVote(d, p, b) = d /\ p \in DOMAIN d.votes /\ d.votes[p] = b
    BY <1>4 DEF SetVote, VoteChanges
  <2> QED
    BY <2>1 DEF Voted
<1>5. CASE VoteChanges(d, p, b)
  <2>1. y \in Int /\ n \in Int
    BY <1>2, SMT DEF Bit
  <2>2. f = [d EXCEPT !.votes = v, !.yays = y, !.nays = n]
    BY <1>5 DEF SetVote
  <2>3. f \in BallotShapes /\ f.our = d.our /\ f.votes = v /\ f.yays = y /\ f.nays = n
    <3> HIDE DEF f, v, y, n
    <3> QED
      BY <1>1, <1>3, <2>1, <2>2 DEF BallotShapes
  <2> HIDE DEF f
  <2>4. f.yays = Cardinality(YesOf(f)) /\ f.nays = Cardinality(NoOf(f))
    <3>1. CASE b
      <4>1. YesOf(f) = YesOf(d) \cup {p} /\ p \notin YesOf(d) /\ NoOf(f) = NoOf(d) \ {p}
        BY <1>2, <1>5, <2>3, <3>1 DEF YesOf, NoOf, VoteChanges
      <4>2. Bit(b) = 1 /\ Bit(~b) = 0 /\ w1 = 0 /\ w0 = (IF p \in NoOf(d) THEN 1 ELSE 0)
        BY <1>2, <1>5, <3>1 DEF Bit, VoteChanges, NoOf
      <4>3. /\ Cardinality(YesOf(f)) = d.yays + 1
            /\ Cardinality(NoOf(f)) = IF p \in NoOf(d) THEN d.nays - 1 ELSE d.nays
        BY <4>1, BallotCounts, ZenonT(60)
      <4>4. f.yays = d.yays + 1 - 0 /\ f.nays = d.nays + 0 - (IF p \in NoOf(d) THEN 1 ELSE 0)
        BY <2>3, <4>2
      <4> QED
        BY <1>2, <4>3, <4>4, SMT
    <3>2. CASE ~b
      <4>1. NoOf(f) = NoOf(d) \cup {p} /\ p \notin NoOf(d) /\ YesOf(f) = YesOf(d) \ {p}
        BY <1>2, <1>5, <2>3, <3>2 DEF YesOf, NoOf, VoteChanges
      <4>2. Bit(b) = 0 /\ Bit(~b) = 1 /\ w0 = 0 /\ w1 = (IF p \in YesOf(d) THEN 1 ELSE 0)
        BY <1>2, <1>5, <3>2 DEF Bit, VoteChanges, YesOf
      <4>3. /\ Cardinality(NoOf(f)) = d.nays + 1
            /\ Cardinality(YesOf(f)) = IF p \in YesOf(d) THEN d.yays - 1 ELSE d.yays
        BY <4>1, BallotCounts, ZenonT(60)
      <4>4. f.nays = d.nays + 1 - 0 /\ f.yays = d.yays + 0 - (IF p \in YesOf(d) THEN 1 ELSE 0)
        BY <2>3, <4>2
      <4> QED
        BY <1>2, <4>3, <4>4, SMT
    <3> QED
      BY <3>1, <3>2
  <2> QED
    BY <2>3, <2>4 DEF Ballots, Voted, f
<1> QED
  BY <1>4, <1>5

LEMMA BallotAfterUnVote ==
    ASSUME NEW d \in Ballots, NEW p
    PROVE  /\ UnVote(d, p) \in Ballots /\ UnVote(d, p).our = d.our
           /\ DOMAIN UnVote(d, p).votes = DOMAIN d.votes \ {p}
           /\ \A q \in DOMAIN d.votes \ {p} : UnVote(d, p).votes[q] = d.votes[q]
<1> DEFINE f == UnVote(d, p)
           v == Restrict(d.votes, DOMAIN d.votes \ {p})
           y == d.yays - Bit(d.votes[p])
           n == d.nays - Bit(~d.votes[p])
<1>1. /\ d \in BallotShapes /\ d.yays = Cardinality(YesOf(d)) /\ d.nays = Cardinality(NoOf(d))
  BY DEF Ballots
<1>2. /\ DOMAIN d.votes \subseteq Peers /\ \A q \in DOMAIN d.votes : d.votes[q] \in BOOLEAN
      /\ IsFiniteSet(YesOf(d)) /\ IsFiniteSet(NoOf(d)) /\ d.yays \in Nat /\ d.nays \in Nat
  BY <1>1, BallotFacts
<1>3. v \in PartialFns(Peers, BOOLEAN)
  <2>1. v \in [DOMAIN d.votes \ {p} -> BOOLEAN]
    BY <1>2 DEF Restrict
  <2>2. DOMAIN d.votes \ {p} \in SUBSET Peers
    BY <1>2
  <2> HIDE DEF v
  <2> QED
    BY <2>1, <2>2, PartialFnOver
<1>4. CASE p \notin DOMAIN d.votes
  BY <1>4 DEF UnVote
<1>5. CASE p \in DOMAIN d.votes
  <2>1. y \in Int /\ n \in Int
    BY <1>2, SMT DEF Bit
  <2>2. f = [d EXCEPT !.votes = v, !.yays = y, !.nays = n]
    BY <1>5 DEF UnVote
  <2>3. f \in BallotShapes /\ f.our = d.our /\ f.votes = v /\ f.yays = y /\ f.nays = n
    <3> HIDE DEF f, v, y, n
    <3> QED
      BY <1>1, <1>3, <2>1, <2>2 DEF BallotShapes
  <2> HIDE DEF f
  <2>4. YesOf(f) = YesOf(d) \ {p} /\ NoOf(f) = NoOf(d) \ {p}
    BY <1>2, <2>3 DEF YesOf, NoOf, Restrict
  <2>5. /\ Cardinality(YesOf(f)) = IF p \in YesOf(d) THEN d.yays - 1 ELSE d.yays
        /\ Cardinality(NoOf(f)) = IF p \in NoOf(d) THEN d.nays - 1 ELSE d.nays
    BY <2>4, BallotCounts, ZenonT(60)
  <2>6. /\ Bit(d.votes[p]) = IF p \in YesOf(d) THEN 1 ELSE 0
        /\ Bit(~d.votes[p]) = IF p \in NoOf(d) THEN 1 ELSE 0
    BY <1>2, <1>5 DEF Bit, YesOf, NoOf
  <2>7. f.yays = Cardinality(YesOf(f)) /\ f.nays = Cardinality(NoOf(f))
    BY <1>2, <2>3, <2>5, <2>6, SMT
  <2> QED
    BY <2>3, <2>7 DEF Ballots, f, v, Restrict
<1> QED
  BY <1>4, <1>5

LEMMA NextAvalancheState ==
    ASSUME NEW s \in AvalancheStates, NEW a, NEW b, NEW n
    PROVE  /\ NeededState(s, a, b, n) \in AvalancheStates
           /\ AvalancheCutoffs[s].pct \in Int
BY SMT DEF NeededState, AvalancheStates, AvalancheCutoffs

\* Our vote is a Boolean because the counts are those of the votes: the total
\* that update_vote divides by is not zero.
LEMMA BallotUpdated ==
    ASSUME NEW d \in Ballots, NEW pct, NEW own
    PROVE  UpdateVote(d, pct, own) \in Ballots /\ UpdateVote(d, pct, own).votes = d.votes
<1> DEFINE f == UpdateVote(d, pct, own)
           n == Smaller(d.rounds + 1, Parms.avMinRounds)
           s == NeededState(d.state, pct, n, Parms.avMinRounds)
           v == NewPosition(d, pct, own)
<1>1. /\ d \in BallotShapes /\ d.yays = Cardinality(YesOf(d)) /\ d.nays = Cardinality(NoOf(d))
  BY DEF Ballots
<1>2. d.yays \in Nat /\ d.nays \in Nat
  BY <1>1, BallotFacts
<1>3. d.state \in AvalancheStates /\ d.rounds \in Int /\ d.held \in Int
  BY <1>1 DEF BallotShapes
<1>4. CASE Uncontested(d)
  BY <1>4 DEF UpdateVote
<1>5. CASE ~Uncontested(d)
  <2>1. Parms.avMinRounds \in Int /\ VoteCap \in Int
    BY ParmsAssumption, SMT DEF ParmsFields, VoteCap, Larger
  <2>2. n \in Int
    BY <1>3, <2>1, SMT DEF Smaller
  <2>3. s \in AvalancheStates
    BY <1>3, NextAvalancheState
  <2>4. v \in BOOLEAN
    <3> DEFINE weight == NeededWeight(d.state, pct, n, Parms.avMinRounds)
               share == ((d.yays + Bit(d.our)) * 100) \div (d.nays + d.yays + 1)
    <3>1. weight \in Int
      BY <2>3, NextAvalancheState DEF NeededWeight
    <3>2. share \in Int
      BY <1>2, SMT DEF Bit
    <3>3. v = IF own THEN share > weight ELSE d.yays > d.nays
      BY DEF NewPosition
    <3> HIDE DEF weight, share, v
    <3>4. (share > weight) \in BOOLEAN /\ (d.yays > d.nays) \in BOOLEAN
      BY <1>2, <3>1, <3>2, SMT
    <3> QED
      BY <3>3, <3>4
  <2>5. f = [d EXCEPT !.state = s, !.rounds = IF s # d.state THEN 0 ELSE n, !.our = v,
                      !.held = IF v = d.our THEN Smaller(d.held + 1, VoteCap) ELSE 0]
    BY <1>5 DEF UpdateVote
  <2>6. (IF s # d.state THEN 0 ELSE n) \in Int
    BY <2>2, SMT
  <2>7. (IF v = d.our THEN Smaller(d.held + 1, VoteCap) ELSE 0) \in Int
    BY <1>3, <2>1, SMT DEF Smaller
  <2>8. f \in BallotShapes /\ f.votes = d.votes /\ f.yays = d.yays /\ f.nays = d.nays
    <3> HIDE DEF f, n, s, v
    <3> QED
      BY <1>1, <2>3, <2>4, <2>5, <2>6, <2>7 DEF BallotShapes
  <2> HIDE DEF f
  <2>9. YesOf(f) = YesOf(d) /\ NoOf(f) = NoOf(d)
    BY <2>8 DEF YesOf, NoOf
  <2> QED
    BY <1>1, <2>8, <2>9 DEF Ballots, f
<1> QED
  BY <1>4, <1>5
-----------------------------------------------------------------------------
(* Sequences.                                                              *)

LEMMA SeqFacts ==
    ASSUME NEW S, NEW q \in Seq(S)
    PROVE  /\ Len(q) \in Nat /\ DOMAIN q = 1..Len(q) /\ \A i \in 1..Len(q) : q[i] \in S
           /\ q # <<>> => Len(q) \in 1..Len(q)
<1>1. Len(q) \in Nat /\ DOMAIN q = 1..Len(q)
  BY SMT
<1>2. \A i \in 1..Len(q) : q[i] \in S
  BY SMT
<1>3. q # <<>> => Len(q) # 0
  BY SMT
<1>4. q # <<>> => Len(q) \in 1..Len(q)
  BY <1>1, <1>3, SMT
<1> QED
  BY <1>1, <1>2, <1>4

LEMMA AppendFacts ==
    ASSUME NEW S, NEW q \in Seq(S), NEW a \in S
    PROVE  /\ Append(q, a) \in Seq(S) /\ Append(q, a) # <<>>
           /\ Len(Append(q, a)) = Len(q) + 1 /\ Append(q, a)[Len(q) + 1] = a
           /\ \A i \in 1..Len(q) : Append(q, a)[i] = q[i]
<1>1. Append(q, a) \in Seq(S)
  BY SMT
<1>2. Len(Append(q, a)) = Len(q) + 1
  BY SMT
<1>3. Append(q, a)[Len(q) + 1] = a
  BY SMT
<1>4. \A i \in 1..Len(q) : Append(q, a)[i] = q[i]
  BY SMT
<1>5. Append(q, a) # <<>>
  <2>1. Len(q) + 1 # 0 /\ Len(<<>>) = 0
    BY SMT
  <2> QED
    BY <1>2, <2>1
<1> QED
  BY <1>1, <1>2, <1>3, <1>4, <1>5

LEMMA TailFacts ==
    ASSUME NEW S, NEW q \in Seq(S), q # <<>>
    PROVE  /\ Tail(q) \in Seq(S) /\ Len(Tail(q)) = Len(q) - 1
           /\ \A i \in 1..Len(Tail(q)) : Tail(q)[i] = q[i + 1]
<1>1. Tail(q) \in Seq(S)
  BY SMT
<1>2. Len(Tail(q)) = Len(q) - 1
  BY SMT
<1>3. \A i \in 1..Len(Tail(q)) : Tail(q)[i] = q[i + 1]
  BY SMT
<1> QED
  BY <1>1, <1>2, <1>3
-----------------------------------------------------------------------------
(* The invariant, on the record of the machine.                            *)

NewestOf(q) == q[Len(q)]

\* The recent proposals of a peer are its own, and none is newer than the last.
Recorded(x) ==
    \A p \in Peers : \A i \in 1..Len(x.recent[p]) :
       LET prop == x.recent[p][i] IN
       /\ prop.node = p /\ prop.seen <= x.now
       /\ prop.seen <= NewestOf(x.recent[p]).seen

\* The positions are on our ledger, of peers that have not bowed out, and not
\* newer than the last proposal of the peer that is kept.
Held(x) ==
    \A p \in DOMAIN x.positions :
       /\ x.positions[p].prev = x.prevId /\ p \notin x.dead /\ x.positions[p].seq # Leave
       /\ x.recent[p] # <<>> /\ x.positions[p].seen <= NewestOf(x.recent[p]).seen

\* What the disputes say is so for the peers in W.  Every set that was compared
\* stays compared: a position of ours that changes changes in disputes only.
Compared(x) ==
    \A o \in x.result.compares : \A t \in Txs :
       (t \in x.result.txns) # (t \in o) => t \in DOMAIN x.result.disputes
BallotOK(x, W, t, d) ==
    /\ DOMAIN d.votes \subseteq DOMAIN x.positions
    /\ \A p \in Voters(x) \cap W : p \in DOMAIN d.votes /\ d.votes[p] = (t \in x.positions[p].set)
    /\ d.our = (t \in x.result.txns)
Counted(x, W) ==
    HasResult(x) =>
       /\ Compared(x)
       /\ \A p \in Voters(x) \cap W : x.positions[p].set \in x.result.compares
       /\ \A t \in DOMAIN x.result.disputes : BallotOK(x, W, t, x.result.disputes[t])

\* Our proposals are ordered.  A position changes at most once in a unit of time
\* (k is zero before this one's change), so that its sequence number stays below
\* SEQ_LEAVE.
Ordered(x, k) ==
    /\ x.now \in 1..(Leave - 1)
    /\ x.phase = "Open" => ~HasResult(x)
    /\ x.phase = "Establish" => HasResult(x)
    /\ \A i \in 1..(Len(x.sent) - 1) : x.sent[i] < x.sent[i + 1]
    /\ x.sent # <<>> => HasResult(x) /\ x.result.pos.seq >= NewestOf(x.sent)
    /\ HasResult(x) =>
         /\ x.result.start \in 1..x.now
         /\ BowedOut(x.result) => ~Proposing(x)
         /\ BowedOut(x.result) \/ x.result.pos.seq <= x.now - x.result.start + k

\* Past the limit a round lasts only while a close time is undecided and fresh.
Fresh(x) == \E p \in Peers : /\ x.recent[p] # <<>>
                             /\ NewestOf(x.recent[p]).seen > x.now - Parms.freshness
Ends(x) == x.phase = "Establish" /\ PastLimit(x) => ~x.haveCT /\ Fresh(x)

\* What the treatment of disputes and of peers' positions leaves alone.
Kept(x, y) ==
    /\ y.now = x.now /\ y.phase = x.phase /\ y.mode = x.mode
    /\ y.prevId = x.prevId /\ y.prev = x.prev /\ y.recent = x.recent
    /\ y.prevProposers = x.prevProposers /\ y.prevRoundTime = x.prevRoundTime
    /\ y.percent = x.percent /\ y.haveCT = x.haveCT /\ y.ctState = x.ctState
    /\ y.establish = x.establish /\ y.openStart = x.openStart /\ y.sent = x.sent
    /\ HasResult(y) <=> HasResult(x)
    /\ HasResult(x) => /\ y.result.txns = x.result.txns /\ y.result.pos = x.result.pos
                       /\ y.result.start = x.result.start

LEMMA KeptTwice ==
    ASSUME NEW x, NEW y, NEW z, Kept(x, y), Kept(y, z)
    PROVE  Kept(x, z)
BY DEF Kept

LEMMA KeptOrdered ==
    ASSUME NEW x, NEW y, NEW k, Kept(x, y)
    PROVE  /\ Ordered(x, k) => Ordered(y, k)
           /\ Recorded(x) => Recorded(y)
           /\ Ends(x) => Ends(y)
<1>1. Ordered(x, k) => Ordered(y, k)
  BY DEF Ordered, Kept, BowedOut, Proposing
<1>2. Recorded(x) => Recorded(y)
  BY DEF Recorded, Kept
<1>3. RoundTime(y) = RoundTime(x)
  BY DEF Kept, RoundTime, HasResult
<1>4. PastLimit(y) = PastLimit(x)
  BY <1>3 DEF Kept, PastLimit, ExpiryAllowed
<1>5. Ends(x) => Ends(y)
  BY <1>4 DEF Kept, Ends, Fresh
<1> QED
  BY <1>1, <1>2, <1>5
-----------------------------------------------------------------------------
(* Disputes.                                                               *)

Taken(s) == CHOOSE p \in s : TRUE

LEMMA FinitePeers ==
    ASSUME NEW S \in SUBSET Peers
    PROVE  IsFiniteSet(S) /\ Cardinality(S) \in Nat
BY PeersAssumption, FS_Subset, FS_CardinalityType

LEMMA TakenChooses ==
    ASSUME NEW S
    PROVE  Chooses([s \in SUBSET S |-> Taken(s)], S)
<1>1. \A s : s # {} => Taken(s) \in s
  BY DEF Taken
<1> QED
  BY <1>1 DEF Chooses

LEMMA PositionFacts ==
    ASSUME NEW x \in States
    PROVE  /\ x.positions \in PartialFns(Peers, Props) /\ DOMAIN x.positions \subseteq Peers
           /\ \A p \in DOMAIN x.positions : x.positions[p] \in Props /\ x.positions[p].set \in SUBSET Txs
           /\ Voters(x) \in SUBSET Peers /\ x.acquired \in SUBSET SUBSET Txs
<1>1. x.positions \in PartialFns(Peers, Props) /\ x.acquired \in SUBSET SUBSET Txs
  BY DEF States
<1>2. DOMAIN x.positions \subseteq Peers /\ \A p \in DOMAIN x.positions : x.positions[p] \in Props
  BY <1>1, PartialFn
<1>3. \A q \in Props : q.set \in SUBSET Txs
  BY DEF Props
<1> QED
  BY <1>1, <1>2, <1>3 DEF Voters

LEMMA ResultFacts ==
    ASSUME NEW x \in States, HasResult(x)
    PROVE  /\ x.result \in Results /\ x.result.txns \in SUBSET Txs
           /\ x.result.disputes \in PartialFns(Txs, Ballots) /\ DOMAIN x.result.disputes \subseteq Txs
           /\ \A t \in DOMAIN x.result.disputes : x.result.disputes[t] \in Ballots
           /\ x.result.compares \in SUBSET SUBSET Txs /\ x.result.pos \in OwnPositions
           /\ x.result.start \in Nat
<1>1. x.result \in Results
  BY TypedResult
<1>2. /\ x.result.txns \in SUBSET Txs /\ x.result.disputes \in PartialFns(Txs, Ballots)
      /\ x.result.compares \in SUBSET SUBSET Txs /\ x.result.pos \in OwnPositions
      /\ x.result.start \in Nat
  BY <1>1 DEF Results
<1>3. /\ DOMAIN x.result.disputes \subseteq Txs
      /\ \A t \in DOMAIN x.result.disputes : x.result.disputes[t] \in Ballots
  <2>1. PICK f : f = x.result.disputes
    OBVIOUS
  <2>2. f \in PartialFns(Txs, Ballots)
    BY <1>2, <2>1
  <2>3. DOMAIN f \subseteq Txs /\ \A t \in DOMAIN f : f[t] \in Ballots
    BY <2>2, PartialFn
  <2> QED
    BY <2>1, <2>3
<1> QED
  BY <1>1, <1>2, <1>3

\* A new dispute has the votes of exactly the peers whose set we have.
LEMMA DisputeOK ==
    ASSUME NEW x \in States, HasResult(x), NEW t \in Txs
    PROVE  /\ Dispute(x, t) \in Ballots /\ Dispute(x, t).our = (t \in x.result.txns)
           /\ DOMAIN Dispute(x, t).votes = Voters(x)
           /\ \A p \in Voters(x) : Dispute(x, t).votes[p] = (t \in x.positions[p].set)
<1> DEFINE S == Voters(x)
           C == [s \in SUBSET S |-> Taken(s)]
           own == t \in x.result.txns
           b == NewDispute(own)
           op(p, d) == SetVote(d, p, t \in x.positions[p].set)
           Z == [s \in SUBSET S |->
                   {d \in Ballots : /\ d.our = (t \in x.result.txns) /\ DOMAIN d.votes = s
                                    /\ \A p \in s : d.votes[p] = (t \in x.positions[p].set)}]
           G == [a \in S \X Ballots |-> op(a[1], a[2])]
           Eq(h) == h = [s \in SUBSET S |-> IF s = {} THEN b ELSE op(Taken(s), h[s \ {Taken(s)}])]
           it == CHOOSE h : Eq(h)
<1>1. S \in SUBSET Peers /\ IsFiniteSet(S) /\ Chooses(C, S)
  BY PositionFacts, FinitePeers, TakenChooses
<1>2. b \in Z[{}]
  <2>1. b \in Ballots /\ b.our = own /\ DOMAIN b.votes = {}
    <3>1. own \in BOOLEAN
      BY SMT
    <3> HIDE DEF own
    <3> QED
      BY <3>1, NewBallot
  <2> HIDE DEF b
  <2> QED
    BY <2>1
<1>3. ASSUME NEW s \in SUBSET S, s # {}, NEW d \in Z[s \ {Taken(s)}]
      PROVE  /\ Taken(s) \in S /\ C[s] = Taken(s) /\ d \in Ballots
             /\ op(Taken(s), d) \in Z[s]
  <2>1. Taken(s) \in s /\ C[s] = Taken(s)
    BY <1>3 DEF Taken
  <2>2. PICK p : p = Taken(s)
    OBVIOUS
  <2> DEFINE v == t \in x.positions[p].set
  <2>3. p \in s /\ s \subseteq Peers
    BY <1>1, <2>1, <2>2
  <2>4. p \in Peers /\ v \in BOOLEAN
    BY <2>3, SMT
  <2>5. /\ d \in Ballots /\ d.our = (t \in x.result.txns) /\ DOMAIN d.votes = s \ {p}
        /\ \A q \in s \ {p} : d.votes[q] = (t \in x.positions[q].set)
    BY <2>2
  <2>6. PICK e : e = SetVote(d, p, v)
    OBVIOUS
  <2>7. /\ e \in Ballots /\ e.our = d.our /\ DOMAIN e.votes = DOMAIN d.votes \cup {p}
        /\ e.votes[p] = v /\ \A q \in DOMAIN d.votes \ {p} : e.votes[q] = d.votes[q]
    <3>1. d \in Ballots
      BY <2>5
    <3> HIDE DEF v
    <3>2. Voted(d, e, p, v)
      BY <2>4, <2>6, <3>1, BallotAfterVote
    <3> QED
      BY <3>2 DEF Voted
  <2>8. DOMAIN e.votes = s /\ \A q \in s : e.votes[q] = (t \in x.positions[q].set)
    BY <2>1, <2>2, <2>3, <2>5, <2>7, ZenonT(60)
  <2>9. e \in Z[s]
    BY <2>5, <2>7, <2>8
  <2> QED
    BY <2>1, <2>2, <2>5, <2>6, <2>9
<1>4. FoldsIn(S, C, b, G, Z)
  <2>1. ASSUME NEW s \in SUBSET S, s # {}, NEW d \in Z[s \ {C[s]}]
        PROVE  G[<<C[s], d>>] \in Z[s]
    <3>1. C[s] = Taken(s)
      OBVIOUS
    <3>2. d \in Z[s \ {Taken(s)}]
      BY <2>1, <3>1
    <3>3. Taken(s) \in S /\ d \in Ballots /\ op(Taken(s), d) \in Z[s]
      BY <1>3, <2>1, <3>2
    <3>4. G[<<Taken(s), d>>] = op(Taken(s), d)
      BY <3>3, SMT
    <3> QED
      BY <3>1, <3>3, <3>4
  <2> HIDE DEF Z, G, C, b, S
  <2> QED
    BY <1>1, <1>2, <2>1 DEF FoldsIn
<1>5. \E h : Eq(h)
  <2>1. PICK g : Solves(g, S, C, b, G, Z)
    <3> HIDE DEF Z, G, C, b, S
    <3> QED
      BY <1>1, <1>4, FoldExists
  <2>2. ASSUME NEW s \in SUBSET S, s # {}
        PROVE  G[<<C[s], g[s \ {C[s]}]>>] = op(Taken(s), g[s \ {Taken(s)}])
    <3>1. C[s] = Taken(s) /\ s \ {Taken(s)} \in SUBSET S
      OBVIOUS
    <3>2. PICK d : d = g[s \ {Taken(s)}]
      OBVIOUS
    <3>3. d \in Z[s \ {Taken(s)}]
      BY <2>1, <3>1, <3>2 DEF Solves
    <3>4. Taken(s) \in S /\ d \in Ballots
      BY <1>3, <2>2, <3>3
    <3>5. G[<<Taken(s), d>>] = op(Taken(s), d)
      BY <3>4, SMT
    <3> QED
      BY <3>1, <3>2, <3>5
  <2>3. Eq(g)
    <3> HIDE DEF Z, G, C, b, S, op
    <3> QED
      BY <2>1, <2>2 DEF Solves
  <2> QED
    BY <2>3
<1>6. Eq(it)
  BY <1>5
<1>7. Dispute(x, t) = it[S]
  BY DEF Dispute, FoldSet, MapThenFoldSet, Taken
<1> HIDE DEF it
<1>8. it[S] \in Z[S]
  <2>1. it[{}] \in Z[{}]
    BY <1>2, <1>6
  <2>2. ASSUME NEW s \in SUBSET S, s # {}, it[s \ {C[s]}] \in Z[s \ {C[s]}]
        PROVE  it[s] \in Z[s]
    <3>1. C[s] = Taken(s)
      OBVIOUS
    <3>2. it[s] = op(Taken(s), it[s \ {Taken(s)}])
      BY <1>6, <2>2
    <3>3. PICK d : d = it[s \ {Taken(s)}]
      OBVIOUS
    <3>4. d \in Z[s \ {Taken(s)}]
      BY <2>2, <3>1, <3>3
    <3>5. op(Taken(s), d) \in Z[s]
      BY <1>3, <2>2, <3>4
    <3> QED
      BY <3>2, <3>3, <3>5
  <2> HIDE DEF Z, C, S
  <2> QED
    BY <1>1, <2>1, <2>2, FoldKeeps
<1> QED
  BY <1>7, <1>8

\* The disputes, the sets compared and the counter of rounds without a change are
\* all that y may have different.
SameSide(x, y) ==
    /\ Kept(x, y) /\ HasResult(y)
    /\ y.positions = x.positions /\ y.dead = x.dead /\ y.acquired = x.acquired
AfterDisputes(x, y, W, compares) ==
    /\ y \in States /\ SameSide(x, y) /\ Counted(y, W) /\ y.result.compares = compares

LEMMA SameVoters ==
    ASSUME NEW x, NEW y, SameSide(x, y)
    PROVE  /\ Voters(y) = Voters(x) /\ DOMAIN y.positions = DOMAIN x.positions
           /\ \A set : PeersOn(y, set) = PeersOn(x, set)
           /\ \A p \in DOMAIN x.positions : y.positions[p] = x.positions[p]
BY DEF SameSide, Voters, PeersOn

LEMMA SameBallot ==
    ASSUME NEW x, NEW y, HasResult(x), SameSide(x, y), NEW W, NEW t, NEW d, BallotOK(x, W, t, d)
    PROVE  BallotOK(y, W, t, d)
<1>1. y.positions = x.positions /\ Voters(y) = Voters(x) /\ y.result.txns = x.result.txns
  BY SameVoters DEF SameSide, Kept
<1> QED
  BY <1>1 DEF BallotOK

AfterResult(x, y, r) == y \in States /\ SameSide(x, y) /\ y.result = r
SamePosition(x, r) ==
    r \in Results /\ r.txns = x.result.txns /\ r.pos = x.result.pos /\ r.start = x.result.start

LEMMA OnlyResult ==
    ASSUME NEW x \in States, HasResult(x), NEW r, SamePosition(x, r), NEW u \in Nat
    PROVE  AfterResult(x, [x EXCEPT !.result = r, !.unchanged = u], r)
<1>1. PICK y : y = [x EXCEPT !.result = r, !.unchanged = u]
  OBVIOUS
<1>2. r \in Results
  BY DEF SamePosition
<1>3. y \in States /\ y.result = r
  BY <1>1, <1>2 DEF States
<1>4. /\ y.now = x.now /\ y.phase = x.phase /\ y.mode = x.mode
      /\ y.prevId = x.prevId /\ y.prev = x.prev /\ y.recent = x.recent
      /\ y.prevProposers = x.prevProposers /\ y.prevRoundTime = x.prevRoundTime
      /\ y.percent = x.percent /\ y.haveCT = x.haveCT /\ y.ctState = x.ctState
      /\ y.establish = x.establish /\ y.openStart = x.openStart /\ y.sent = x.sent
      /\ y.positions = x.positions /\ y.dead = x.dead /\ y.acquired = x.acquired
  BY <1>1 DEF States
<1>5. HasResult(y)
  BY <1>2, <1>3, NotNoResult DEF HasResult
<1>6. AfterResult(x, y, r)
  BY <1>3, <1>4, <1>5 DEF AfterResult, SamePosition, SameSide, Kept
<1> QED
  BY <1>1, <1>6

LEMMA NestedUpdate ==
    ASSUME NEW x \in States, NEW A, NEW D, NEW u, NEW r,
           r = [x.result EXCEPT !.compares = A, !.disputes = D]
    PROVE  [x EXCEPT !.result.compares = A, !.result.disputes = D, !.unchanged = u]
             = [x EXCEPT !.result = r, !.unchanged = u]
BY DEF States

LEMMA NestedUpdate1 ==
    ASSUME NEW x \in States, NEW D, NEW u, NEW r, r = [x.result EXCEPT !.disputes = D]
    PROVE  [x EXCEPT !.result.disputes = D, !.unchanged = u]
             = [x EXCEPT !.result = r, !.unchanged = u]
BY DEF States

\* A step that sets the disputes, and perhaps the sets compared.
DisputesSet(x, y, A, D) ==
    y \in States /\ SameSide(x, y) /\ y.result.compares = A /\ y.result.disputes = D

LEMMA OnlyDisputes ==
    ASSUME NEW x \in States, HasResult(x), NEW A \in SUBSET SUBSET Txs,
           NEW D \in PartialFns(Txs, Ballots), NEW u \in Nat
    PROVE  /\ DisputesSet(x, [x EXCEPT !.result.compares = A, !.result.disputes = D,
                                       !.unchanged = u], A, D)
           /\ DisputesSet(x, [x EXCEPT !.result.disputes = D, !.unchanged = u],
                          x.result.compares, D)
<1> DEFINE y2 == [x EXCEPT !.result.compares = A, !.result.disputes = D, !.unchanged = u]
           y1 == [x EXCEPT !.result.disputes = D, !.unchanged = u]
<1>1. x.result \in Results
  BY ResultFacts
<1>2. ASSUME NEW r, r = [x.result EXCEPT !.compares = A, !.disputes = D]
      PROVE  DisputesSet(x, y2, A, D)
  <2>1. SamePosition(x, r) /\ r.compares = A /\ r.disputes = D
    BY <1>1, <1>2 DEF Results, SamePosition
  <2>2. AfterResult(x, [x EXCEPT !.result = r, !.unchanged = u], r)
    BY <2>1, OnlyResult
  <2>3. y2 = [x EXCEPT !.result = r, !.unchanged = u]
    BY <1>2, NestedUpdate
  <2> HIDE DEF y2
  <2> QED
    BY <2>1, <2>2, <2>3 DEF AfterResult, DisputesSet
<1>3. ASSUME NEW r, r = [x.result EXCEPT !.disputes = D]
      PROVE  DisputesSet(x, y1, x.result.compares, D)
  <2>1. SamePosition(x, r) /\ r.compares = x.result.compares /\ r.disputes = D
    BY <1>1, <1>3 DEF Results, SamePosition
  <2>2. AfterResult(x, [x EXCEPT !.result = r, !.unchanged = u], r)
    BY <2>1, OnlyResult
  <2>3. y1 = [x EXCEPT !.result = r, !.unchanged = u]
    BY <1>3, NestedUpdate1
  <2> HIDE DEF y1
  <2> QED
    BY <2>1, <2>2, <2>3 DEF AfterResult, DisputesSet
<1> QED
  BY <1>2, <1>3

\* Counted, with the peers V whose votes are taken apart from those, W, whose sets
\* are compared.
Tallied(x, W, V) ==
    HasResult(x) =>
       /\ Compared(x)
       /\ \A p \in Voters(x) \cap W : x.positions[p].set \in x.result.compares
       /\ \A t \in DOMAIN x.result.disputes : BallotOK(x, V, t, x.result.disputes[t])
AfterTally(x, y, W, V, compares) ==
    /\ y \in States /\ SameSide(x, y) /\ Tallied(y, W, V) /\ y.result.compares = compares

\* create_disputes compares one more set.
LEMMA CreateDisputesTally ==
    ASSUME NEW x \in States, HasResult(x), NEW W, NEW V, Tallied(x, W, V), NEW o \in SUBSET Txs
    PROVE  AfterTally(x, CreateDisputes(x, o), W, V, x.result.compares \cup {o})
<1> DEFINE r == x.result
           fresh == ((r.txns \ o) \cup (o \ r.txns)) \ DOMAIN r.disputes
           D == [t \in DOMAIN r.disputes \cup fresh |->
                   IF t \in fresh THEN Dispute(x, t) ELSE r.disputes[t]]
           A == r.compares \cup {o}
           u == IF fresh # {} /\ Voters(x) # {} THEN 0 ELSE x.unchanged
           y == CreateDisputes(x, o)
<1>1. CASE o \in r.compares
  <2>1. y = x /\ A = r.compares
    BY <1>1 DEF CreateDisputes
  <2>2. SameSide(x, x)
    BY DEF SameSide, Kept
  <2> HIDE DEF y, A
  <2> QED
    BY <2>1, <2>2 DEF AfterTally, y, A
<1>2. CASE o \notin r.compares
  <2>1. /\ r \in Results /\ r.txns \in SUBSET Txs /\ DOMAIN r.disputes \subseteq Txs
        /\ \A t \in DOMAIN r.disputes : r.disputes[t] \in Ballots
        /\ r.compares \in SUBSET SUBSET Txs
    BY ResultFacts
  <2>2. fresh \subseteq Txs /\ A \in SUBSET SUBSET Txs
    BY <2>1
  <2>3. u \in Nat
    <3>1. x.unchanged \in Nat /\ 0 \in Nat
      BY SMT DEF States
    <3> QED
      BY <3>1
  <2>4. D \in PartialFns(Txs, Ballots)
    <3>1. D \in [DOMAIN r.disputes \cup fresh -> Ballots]
      BY <2>1, <2>2, DisputeOK
    <3>2. DOMAIN r.disputes \cup fresh \in SUBSET Txs
      BY <2>1, <2>2
    <3> HIDE DEF D, fresh
    <3> QED
      BY <3>1, <3>2, PartialFnOver
  <2>5. y = [x EXCEPT !.result.compares = A, !.result.disputes = D, !.unchanged = u]
    BY <1>2 DEF CreateDisputes
  <2>6. y \in States /\ SameSide(x, y) /\ y.result.compares = A /\ y.result.disputes = D
    <3> HIDE DEF y, A, D, u
    <3>1. DisputesSet(x, y, A, D)
      BY <2>2, <2>3, <2>4, <2>5, OnlyDisputes
    <3> QED
      BY <3>1 DEF DisputesSet
  <2> HIDE DEF y
  <2>7. y.result.txns = r.txns
    BY <2>6 DEF SameSide, Kept
  <2>8. Compared(y)
    <3> SUFFICES ASSUME NEW s \in A, NEW t \in Txs, (t \in r.txns) # (t \in s)
                 PROVE  t \in DOMAIN D
      BY <2>6, <2>7 DEF Compared
    <3>1. CASE s = o
      <4>1. t \in fresh \/ t \in DOMAIN r.disputes
        BY <3>1, SMT
      <4> QED
        BY <4>1
    <3>2. CASE s # o
      <4>1. s \in r.compares
        BY <3>2
      <4>2. t \in DOMAIN r.disputes
        BY <4>1 DEF Tallied, Compared
      <4> QED
        BY <4>2
    <3> QED
      BY <3>1, <3>2
  <2>9. \A p \in Voters(y) \cap W : y.positions[p].set \in A
    BY <2>6, SameVoters DEF Tallied, SameSide
  <2>10. ASSUME NEW t \in DOMAIN D PROVE BallotOK(y, V, t, D[t])
    <3>1. CASE t \in fresh
      <4>1. t \in Txs /\ D[t] = Dispute(x, t)
        BY <2>2, <3>1
      <4>2. Voters(x) \subseteq DOMAIN x.positions
        BY DEF Voters
      <4>3. BallotOK(x, V, t, Dispute(x, t))
        BY <4>1, <4>2, DisputeOK DEF BallotOK
      <4>4. BallotOK(y, V, t, Dispute(x, t))
        BY <2>6, <4>3, SameBallot
      <4> HIDE DEF D
      <4> QED
        BY <4>1, <4>4
    <3>2. CASE t \notin fresh
      <4>1. t \in DOMAIN r.disputes /\ D[t] = r.disputes[t]
        BY <3>2
      <4>2. BallotOK(x, V, t, r.disputes[t])
        BY <4>1 DEF Tallied
      <4>3. BallotOK(y, V, t, r.disputes[t])
        BY <2>6, <4>2, SameBallot
      <4> HIDE DEF D
      <4> QED
        BY <4>1, <4>3
    <3> QED
      BY <3>1, <3>2
  <2>11. Tallied(y, W, V)
    <3> HIDE DEF D, A
    <3> QED
      BY <2>6, <2>8, <2>9, <2>10 DEF Tallied
  <2> QED
    BY <2>6, <2>11 DEF AfterTally, y
<1> QED
  BY <1>1, <1>2

LEMMA CreateDisputesOK ==
    ASSUME NEW x \in States, HasResult(x), NEW W, Counted(x, W), NEW o \in SUBSET Txs
    PROVE  AfterDisputes(x, CreateDisputes(x, o), W, x.result.compares \cup {o})
<1>1. \A y : Tallied(y, W, W) <=> Counted(y, W)
  BY DEF Tallied, Counted
<1>2. AfterTally(x, CreateDisputes(x, o), W, W, x.result.compares \cup {o})
  BY <1>1, CreateDisputesTally
<1> QED
  BY <1>1, <1>2 DEF AfterTally, AfterDisputes

LEMMA SameSideTwice ==
    ASSUME NEW x, NEW y, NEW z, SameSide(x, y), SameSide(y, z)
    PROVE  SameSide(x, z)
<1>1. Kept(x, z)
  BY KeptTwice DEF SameSide
<1> QED
  BY <1>1 DEF SameSide

\* The votes of one more peer are taken.
LEMMA CastVotesOK ==
    ASSUME NEW x \in States, HasResult(x), NEW W, Counted(x, W),
           NEW p \in DOMAIN x.positions, x.positions[p].set \in x.result.compares
    PROVE  AfterDisputes(x, CastVotes(x, p, x.positions[p].set), W \cup {p}, x.result.compares)
<1> DEFINE o == x.positions[p].set
           ds == x.result.disputes
           D == [t \in DOMAIN ds |-> SetVote(ds[t], p, t \in o)]
           u == IF \E t \in DOMAIN ds : VoteChanges(ds[t], p, t \in o) THEN 0 ELSE x.unchanged
           y == CastVotes(x, p, o)
<1>1. /\ ds \in PartialFns(Txs, Ballots) /\ DOMAIN ds \subseteq Txs
      /\ \A t \in DOMAIN ds : ds[t] \in Ballots
      /\ x.result.compares \in SUBSET SUBSET Txs /\ p \in Peers
  BY ResultFacts, PositionFacts
<1>2. ASSUME NEW t \in DOMAIN ds PROVE Voted(ds[t], D[t], p, t \in o)
  <2>1. PICK d : d = ds[t]
    OBVIOUS
  <2> DEFINE v == t \in o
  <2>2. d \in Ballots /\ p \in Peers /\ D[t] = SetVote(d, p, v)
    BY <1>1, <2>1
  <2>3. v \in BOOLEAN
    BY SMT
  <2> HIDE DEF v, D
  <2>4. Voted(d, SetVote(d, p, v), p, v)
    BY <2>2, <2>3, BallotAfterVote
  <2>5. Voted(d, D[t], p, v)
    BY <2>2, <2>4
  <2> QED
    BY <2>1, <2>5 DEF v
<1>3. D \in PartialFns(Txs, Ballots)
  <2>1. ASSUME NEW t \in DOMAIN ds PROVE D[t] \in Ballots
    BY <1>2 DEF Voted
  <2>2. D \in [DOMAIN ds -> Ballots]
    BY <2>1
  <2> HIDE DEF D
  <2> QED
    BY <1>1, <2>2, PartialFnOver
<1>4. u \in Nat
  <2>1. x.unchanged \in Nat /\ 0 \in Nat
    BY SMT DEF States
  <2> QED
    BY <2>1
<1>5. y = [x EXCEPT !.result.disputes = D, !.unchanged = u]
  BY DEF CastVotes
<1>6. y \in States /\ SameSide(x, y) /\ y.result.compares = x.result.compares /\ y.result.disputes = D
  <2> HIDE DEF y, D, u
  <2>1. DisputesSet(x, y, x.result.compares, D)
    BY <1>1, <1>3, <1>4, <1>5, OnlyDisputes
  <2> QED
    BY <2>1 DEF DisputesSet
<1> HIDE DEF y
<1>7. y.result.txns = x.result.txns
  BY <1>6 DEF SameSide, Kept
<1>8. Compared(y)
  BY <1>6, <1>7 DEF Counted, Compared
<1>9. \A q \in Voters(y) \cap (W \cup {p}) : y.positions[q].set \in y.result.compares
  BY <1>6, SameVoters DEF Counted, SameSide
<1>10. ASSUME NEW t \in DOMAIN D PROVE BallotOK(y, W \cup {p}, t, D[t])
  <2>1. PICK d, e : d = ds[t] /\ e = D[t]
    OBVIOUS
  <2>2. Voted(d, e, p, t \in o)
    BY <1>2, <2>1
  <2>3. BallotOK(x, W, t, d)
    BY <2>1 DEF Counted
  <2>4. DOMAIN e.votes \subseteq DOMAIN x.positions /\ e.our = (t \in x.result.txns)
    BY <2>2, <2>3 DEF Voted, BallotOK
  <2>5. ASSUME NEW q \in Voters(x) \cap (W \cup {p})
        PROVE  q \in DOMAIN e.votes /\ e.votes[q] = (t \in x.positions[q].set)
    <3>1. CASE q = p
      BY <2>2, <3>1 DEF Voted
    <3>2. CASE q # p
      BY <2>2, <2>3, <3>2 DEF Voted, BallotOK
    <3> QED
      BY <3>1, <3>2
  <2>6. BallotOK(x, W \cup {p}, t, e)
    BY <2>4, <2>5 DEF BallotOK
  <2>7. BallotOK(y, W \cup {p}, t, e)
    BY <1>6, <2>6, SameBallot
  <2> QED
    BY <2>1, <2>7
<1>11. Counted(y, W \cup {p})
  <2> HIDE DEF D
  <2> QED
    BY <1>6, <1>8, <1>9, <1>10 DEF Counted
<1> QED
  BY <1>6, <1>11 DEF AfterDisputes, y

LEMMA UpdateDisputesOK ==
    ASSUME NEW x \in States, HasResult(x), NEW W, Counted(x, W),
           NEW p \in DOMAIN x.positions, NEW o, o = x.positions[p].set
    PROVE  AfterDisputes(x, UpdateDisputes(x, p, o), W \cup {p}, x.result.compares \cup {o})
<1>1. PICK y : y = CreateDisputes(x, o)
  OBVIOUS
<1>2. o \in SUBSET Txs
  BY PositionFacts
<1>3. /\ y \in States /\ SameSide(x, y) /\ Counted(y, W)
      /\ y.result.compares = x.result.compares \cup {o}
  BY <1>1, <1>2, CreateDisputesOK DEF AfterDisputes
<1>4. HasResult(y) /\ p \in DOMAIN y.positions /\ o = y.positions[p].set
  BY <1>3 DEF SameSide
<1>5. PICK z : z = CastVotes(y, p, o)
  OBVIOUS
<1>6. AfterDisputes(y, z, W \cup {p}, y.result.compares)
  BY <1>3, <1>4, <1>5, CastVotesOK
<1>7. SameSide(x, z)
  BY <1>3, <1>6, SameSideTwice DEF AfterDisputes
<1>8. UpdateDisputes(x, p, o) = z
  BY <1>1, <1>5 DEF UpdateDisputes
<1> QED
  BY <1>3, <1>6, <1>7, <1>8 DEF AfterDisputes

\* The votes of all peers on a set that has just become known are taken.
LEMMA AllVotesTaken ==
    ASSUME NEW x \in States, HasResult(x), NEW set, Counted(x, Peers \ PeersOn(x, set))
    PROVE  \E y \in States :
             /\ y = FoldSet(LAMBDA p, z : UpdateDisputes(z, p, set), x, PeersOn(x, set))
             /\ SameSide(x, y) /\ Counted(y, Peers)
<1> DEFINE S == PeersOn(x, set)
           C == [s \in SUBSET S |-> Taken(s)]
           op(p, z) == UpdateDisputes(z, p, set)
           Z == [s \in SUBSET S |->
                   {z \in States : SameSide(x, z) /\ Counted(z, (Peers \ S) \cup s)}]
           G == [a \in S \X States |-> op(a[1], a[2])]
           Eq(h) == h = [s \in SUBSET S |-> IF s = {} THEN x ELSE op(Taken(s), h[s \ {Taken(s)}])]
           it == CHOOSE h : Eq(h)
<1>1. S \in SUBSET Peers /\ IsFiniteSet(S) /\ Chooses(C, S)
  <2>1. S \in SUBSET Peers
    BY PositionFacts DEF PeersOn
  <2> HIDE DEF S
  <2> QED
    BY <2>1, FinitePeers, TakenChooses
<1>2. x \in Z[{}]
  <2>1. SameSide(x, x)
    BY DEF SameSide, Kept
  <2>2. (Peers \ S) \cup {} = Peers \ S
    OBVIOUS
  <2> QED
    BY <2>1, <2>2
<1>3. ASSUME NEW s \in SUBSET S, s # {}, NEW z \in Z[s \ {Taken(s)}]
      PROVE  /\ Taken(s) \in S /\ C[s] = Taken(s) /\ z \in States
             /\ op(Taken(s), z) \in Z[s]
  <2>1. Taken(s) \in s /\ C[s] = Taken(s)
    BY <1>3 DEF Taken
  <2>2. PICK p, W : p = Taken(s) /\ W = (Peers \ S) \cup (s \ {p})
    OBVIOUS
  <2>3. z \in States /\ SameSide(x, z) /\ Counted(z, W)
    BY <2>2
  <2>4. p \in s /\ p \in DOMAIN x.positions /\ set = x.positions[p].set /\ W \cup {p} = (Peers \ S) \cup s
    BY <2>1, <2>2 DEF PeersOn
  <2>5. HasResult(z) /\ p \in DOMAIN z.positions /\ set = z.positions[p].set
    BY <2>3, <2>4 DEF SameSide
  <2>6. PICK y : y = UpdateDisputes(z, p, set)
    OBVIOUS
  <2>7. y \in States /\ SameSide(z, y) /\ Counted(y, W \cup {p})
    BY <2>3, <2>5, <2>6, UpdateDisputesOK DEF AfterDisputes
  <2>8. SameSide(x, y)
    BY <2>3, <2>7, SameSideTwice
  <2>9. y \in Z[s]
    BY <2>4, <2>7, <2>8
  <2> QED
    BY <2>1, <2>2, <2>3, <2>6, <2>9
<1>4. FoldsIn(S, C, x, G, Z)
  <2>1. ASSUME NEW s \in SUBSET S, s # {}, NEW z \in Z[s \ {C[s]}]
        PROVE  G[<<C[s], z>>] \in Z[s]
    <3>1. C[s] = Taken(s)
      OBVIOUS
    <3>2. z \in Z[s \ {Taken(s)}]
      BY <2>1, <3>1
    <3>3. Taken(s) \in S /\ z \in States /\ op(Taken(s), z) \in Z[s]
      BY <1>3, <2>1, <3>2
    <3>4. G[<<Taken(s), z>>] = op(Taken(s), z)
      BY <3>3, SMT
    <3> QED
      BY <3>1, <3>3, <3>4
  <2> HIDE DEF Z, G, C, S
  <2> QED
    BY <1>1, <1>2, <2>1 DEF FoldsIn
<1>5. \E h : Eq(h)
  <2>1. PICK g : Solves(g, S, C, x, G, Z)
    <3> HIDE DEF Z, G, C, S
    <3> QED
      BY <1>1, <1>4, FoldExists
  <2>2. ASSUME NEW s \in SUBSET S, s # {}
        PROVE  G[<<C[s], g[s \ {C[s]}]>>] = op(Taken(s), g[s \ {Taken(s)}])
    <3>1. C[s] = Taken(s) /\ s \ {Taken(s)} \in SUBSET S
      OBVIOUS
    <3>2. PICK z : z = g[s \ {Taken(s)}]
      OBVIOUS
    <3>3. z \in Z[s \ {Taken(s)}]
      BY <2>1, <3>1, <3>2 DEF Solves
    <3>4. Taken(s) \in S /\ z \in States
      BY <1>3, <2>2, <3>3
    <3>5. G[<<Taken(s), z>>] = op(Taken(s), z)
      BY <3>4, SMT
    <3> QED
      BY <3>1, <3>2, <3>5
  <2>3. Eq(g)
    <3> HIDE DEF Z, G, C, S, op
    <3> QED
      BY <2>1, <2>2 DEF Solves
  <2> QED
    BY <2>3
<1>6. Eq(it)
  BY <1>5
<1>7. FoldSet(LAMBDA p, z : UpdateDisputes(z, p, set), x, PeersOn(x, set)) = it[S]
  BY DEF FoldSet, MapThenFoldSet, Taken
<1> HIDE DEF it
<1>8. it[S] \in Z[S]
  <2>1. it[{}] \in Z[{}]
    BY <1>2, <1>6
  <2>2. ASSUME NEW s \in SUBSET S, s # {}, it[s \ {C[s]}] \in Z[s \ {C[s]}]
        PROVE  it[s] \in Z[s]
    <3>1. C[s] = Taken(s)
      OBVIOUS
    <3>2. it[s] = op(Taken(s), it[s \ {Taken(s)}])
      BY <1>6, <2>2
    <3>3. PICK z : z = it[s \ {Taken(s)}]
      OBVIOUS
    <3>4. z \in Z[s \ {Taken(s)}]
      BY <2>2, <3>1, <3>3
    <3>5. op(Taken(s), z) \in Z[s]
      BY <1>3, <2>2, <3>4
    <3> QED
      BY <3>2, <3>3, <3>5
  <2> HIDE DEF Z, C, S
  <2> QED
    BY <1>1, <2>1, <2>2, FoldKeeps
<1>9. (Peers \ S) \cup S = Peers
  BY <1>1
<1> QED
  BY <1>7, <1>8, <1>9
-----------------------------------------------------------------------------
(* Peer positions.                                                         *)

\* What every treatment of a peer's position keeps.
PeersOK(x) == x \in States /\ Held(x) /\ Counted(x, Peers)
PeersStep(x, y) == PeersOK(y) /\ Kept(x, y)

LEMMA HeldKept ==
    ASSUME NEW x, NEW y, Kept(x, y), y.positions = x.positions, y.dead = x.dead, Held(x)
    PROVE  Held(y)
BY ZenonT(60) DEF Held, Kept

LEMMA KeptSame == ASSUME NEW x PROVE Kept(x, x)
BY DEF Kept

\* A set that arrives late: the votes of all peers that propose it are taken.
LEMMA GotTxSetOK ==
    ASSUME NEW x, PeersOK(x), NEW set \in SUBSET Txs
    PROVE  PeersStep(x, GotTxSet(x, set))
<1> DEFINE w == [x EXCEPT !.acquired = @ \cup {set}]
           y == GotTxSet(x, set)
           f == FoldSet(LAMBDA p, z : UpdateDisputes(z, p, set), w, PeersOn(w, set))
<1>1. x \in States /\ Held(x) /\ Counted(x, Peers)
  BY DEF PeersOK
<1>2. CASE x.phase = "Accepted" \/ set \in x.acquired
  <2>1. y = x
    BY <1>2 DEF GotTxSet
  <2> HIDE DEF y
  <2> QED
    BY <2>1, KeptSame DEF PeersStep, y
<1>3. CASE ~(x.phase = "Accepted" \/ set \in x.acquired)
  <2>1. y = IF ~HasResult(w) THEN w ELSE f
    BY <1>3 DEF GotTxSet
  <2>2. x.acquired \cup {set} \in SUBSET SUBSET Txs
    BY <1>1, PositionFacts
  <2>3. w \in States
    BY <1>1, <2>2 DEF States
  <2>4. /\ w.acquired = x.acquired \cup {set} /\ w.result = x.result
        /\ w.positions = x.positions /\ w.dead = x.dead
    BY <1>1 DEF States
  <2>5. Kept(x, w)
    <3>1. /\ w.now = x.now /\ w.phase = x.phase /\ w.mode = x.mode
          /\ w.prevId = x.prevId /\ w.prev = x.prev /\ w.recent = x.recent
          /\ w.prevProposers = x.prevProposers /\ w.prevRoundTime = x.prevRoundTime
          /\ w.percent = x.percent /\ w.haveCT = x.haveCT /\ w.ctState = x.ctState
          /\ w.establish = x.establish /\ w.openStart = x.openStart /\ w.sent = x.sent
      BY <1>1 DEF States
    <3> HIDE DEF w
    <3> QED
      BY <2>4, <3>1 DEF Kept, HasResult
  <2> HIDE DEF w
  <2>6. Held(w)
    BY <1>1, <2>4, <2>5, HeldKept
  <2>7. CASE ~HasResult(w)
    <3>1. y = w /\ Counted(w, Peers)
      BY <2>1, <2>7 DEF Counted
    <3> HIDE DEF y
    <3> QED
      BY <2>3, <2>5, <2>6, <3>1 DEF PeersStep, PeersOK, y
  <2>8. CASE HasResult(w)
    <3>1. y = f
      BY <2>1, <2>8
    <3>2. \A q \in Voters(w) \cap (Peers \ PeersOn(w, set)) : q \in Voters(x) \cap Peers
      BY <2>4 DEF Voters, PeersOn
    <3>3. HasResult(x)
      BY <2>4, <2>8 DEF HasResult
    <3>4. Counted(w, Peers \ PeersOn(w, set))
      <4>1. Compared(w)
        BY <1>1, <2>4, <3>3 DEF Counted, Compared
      <4>2. \A q \in Voters(w) \cap (Peers \ PeersOn(w, set)) : w.positions[q].set \in w.result.compares
        BY <1>1, <2>4, <3>2, <3>3 DEF Counted
      <4>3. ASSUME NEW t \in DOMAIN x.result.disputes
            PROVE  BallotOK(w, Peers \ PeersOn(w, set), t, x.result.disputes[t])
        <5>1. PICK d : d = x.result.disputes[t]
          OBVIOUS
        <5>2. BallotOK(x, Peers, t, d)
          BY <1>1, <3>3, <5>1 DEF Counted
        <5>3. BallotOK(w, Peers \ PeersOn(w, set), t, d)
          BY <2>4, <3>2, <5>2 DEF BallotOK
        <5> QED
          BY <5>1, <5>3
      <4> QED
        BY <2>4, <4>1, <4>2, <4>3 DEF Counted
    <3>5. PICK z \in States : z = f /\ SameSide(w, z) /\ Counted(z, Peers)
      BY <2>3, <2>8, <3>4, AllVotesTaken
    <3> HIDE DEF f, y
    <3>6. Kept(x, z)
      BY <2>5, <3>5, KeptTwice DEF SameSide
    <3>7. Held(z)
      BY <2>6, <3>5, HeldKept DEF SameSide
    <3> QED
      BY <3>1, <3>5, <3>6, <3>7 DEF PeersStep, PeersOK, y
  <2> QED
    BY <2>7, <2>8
<1> QED
  BY <1>2, <1>3

\* Without its votes and its position, p is as if it had never proposed.
Removed(x, p) == [UnVoteAll(x, p) EXCEPT !.positions = Restrict(@, DOMAIN @ \ {p})]
RemovedStep(x, y, p) ==
    /\ PeersStep(x, y)
    /\ y.acquired = x.acquired /\ y.dead = x.dead
    /\ y.positions = Restrict(x.positions, DOMAIN x.positions \ {p})

LEMMA NestedUpdate0 ==
    ASSUME NEW x \in States, NEW D
    PROVE  [x EXCEPT !.result.disputes = D]
             = [x EXCEPT !.result.disputes = D, !.unchanged = x.unchanged]
BY DEF States

LEMMA UnVoteAllOK ==
    ASSUME NEW x \in States, HasResult(x), NEW p
    PROVE  DisputesSet(x, UnVoteAll(x, p), x.result.compares,
                       [t \in DOMAIN x.result.disputes |-> UnVote(x.result.disputes[t], p)])
<1> DEFINE D == [t \in DOMAIN x.result.disputes |-> UnVote(x.result.disputes[t], p)]
<1>1. /\ DOMAIN x.result.disputes \subseteq Txs
      /\ \A t \in DOMAIN x.result.disputes : x.result.disputes[t] \in Ballots
      /\ x.result.compares \in SUBSET SUBSET Txs
  BY ResultFacts
<1>2. D \in PartialFns(Txs, Ballots)
  <2>1. D \in [DOMAIN x.result.disputes -> Ballots]
    BY <1>1, BallotAfterUnVote
  <2> HIDE DEF D
  <2> QED
    BY <1>1, <2>1, PartialFnOver
<1>3. x.unchanged \in Nat
  BY DEF States
<1>4. UnVoteAll(x, p) = [x EXCEPT !.result.disputes = D]
  BY DEF UnVoteAll
<1> HIDE DEF D
<1>5. UnVoteAll(x, p) = [x EXCEPT !.result.disputes = D, !.unchanged = x.unchanged]
  BY <1>4, NestedUpdate0
<1>6. DisputesSet(x, [x EXCEPT !.result.disputes = D, !.unchanged = x.unchanged],
                  x.result.compares, D)
  BY <1>1, <1>2, <1>3, OnlyDisputes
<1>7. DisputesSet(x, UnVoteAll(x, p), x.result.compares, D)
  BY <1>5, <1>6
<1> QED
  BY <1>7 DEF D

LEMMA CountedSame ==
    ASSUME NEW x, NEW y, NEW W, Counted(x, W),
           y.positions = x.positions, y.result = x.result, y.acquired = x.acquired
    PROVE  Counted(y, W)
<1>1. Voters(y) = Voters(x) /\ (HasResult(y) <=> HasResult(x)) /\ (Compared(y) <=> Compared(x))
  BY DEF Voters, HasResult, Compared
<1>2. \A t, d : BallotOK(y, W, t, d) <=> BallotOK(x, W, t, d)
  BY <1>1 DEF BallotOK
<1> QED
  BY <1>1, <1>2 DEF Counted

LEMMA RemovedOK ==
    ASSUME NEW x, PeersOK(x), NEW p
    PROVE  RemovedStep(x, Removed(x, p), p)
<1> DEFINE P == Restrict(x.positions, DOMAIN x.positions \ {p})
<1>1. x \in States /\ Held(x) /\ Counted(x, Peers)
  BY DEF PeersOK
<1>2. PICK v : v = UnVoteAll(x, p)
  OBVIOUS
<1>3. /\ v \in States /\ Kept(x, v) /\ v.positions = x.positions
      /\ v.dead = x.dead /\ v.acquired = x.acquired
  <2>1. CASE ~HasResult(x)
    <3>1. v = x
      BY <1>2, <2>1 DEF UnVoteAll
    <3> QED
      BY <1>1, <3>1, KeptSame
  <2>2. CASE HasResult(x)
    BY <1>1, <1>2, <2>2, UnVoteAllOK DEF DisputesSet, SameSide
  <2> QED
    BY <2>1, <2>2
<1>4. P \in PartialFns(Peers, Props)
  <2>1. /\ DOMAIN x.positions \subseteq Peers
        /\ \A q \in DOMAIN x.positions : x.positions[q] \in Props
    BY <1>1, PositionFacts
  <2>2. P \in [DOMAIN x.positions \ {p} -> Props]
    BY <2>1 DEF Restrict
  <2>3. DOMAIN x.positions \ {p} \in SUBSET Peers
    BY <2>1
  <2> HIDE DEF P
  <2> QED
    BY <2>2, <2>3, PartialFnOver
<1>5. DOMAIN P = DOMAIN x.positions \ {p} /\ \A q \in DOMAIN P : P[q] = x.positions[q]
  BY DEF Restrict
<1>6. PICK y : y = Removed(x, p)
  OBVIOUS
<1>7. y = [v EXCEPT !.positions = P]
  BY <1>2, <1>3, <1>6 DEF Removed
<1> HIDE DEF P
<1>8. y \in States /\ y.positions = P /\ y.result = v.result /\ y.dead = v.dead /\ y.acquired = v.acquired
  BY <1>3, <1>4, <1>7 DEF States
<1>9. Kept(v, y)
  <2>1. /\ y.now = v.now /\ y.phase = v.phase /\ y.mode = v.mode
        /\ y.prevId = v.prevId /\ y.prev = v.prev /\ y.recent = v.recent
        /\ y.prevProposers = v.prevProposers /\ y.prevRoundTime = v.prevRoundTime
        /\ y.percent = v.percent /\ y.haveCT = v.haveCT /\ y.ctState = v.ctState
        /\ y.establish = v.establish /\ y.openStart = v.openStart /\ y.sent = v.sent
    BY <1>3, <1>7 DEF States
  <2> QED
    BY <1>8, <2>1 DEF Kept, HasResult
<1>10. Kept(x, y)
  BY <1>3, <1>9, KeptTwice
<1>11. Held(y)
  BY <1>1, <1>3, <1>5, <1>8, <1>10, ZenonT(60) DEF Held, Kept
<1>12. Counted(y, Peers)
  <2> SUFFICES ASSUME HasResult(y) PROVE Counted(y, Peers)
    BY DEF Counted
  <2>1. HasResult(x)
    BY <1>10 DEF Kept
  <2>2. /\ y.result.txns = x.result.txns /\ y.result.compares = x.result.compares
        /\ y.result.disputes = [t \in DOMAIN x.result.disputes |-> UnVote(x.result.disputes[t], p)]
    <3>1. DisputesSet(x, v, x.result.compares,
                      [t \in DOMAIN x.result.disputes |-> UnVote(x.result.disputes[t], p)])
      BY <1>1, <1>2, <2>1, UnVoteAllOK
    <3>2. y.result.txns = x.result.txns
      BY <1>10, <2>1 DEF Kept
    <3> QED
      BY <1>8, <3>1, <3>2 DEF DisputesSet
  <2>3. Voters(y) \subseteq Voters(x) \ {p}
    BY <1>3, <1>5, <1>8 DEF Voters
  <2>4. Compared(y)
    BY <1>1, <2>1, <2>2 DEF Counted, Compared
  <2>5. \A q \in Voters(y) \cap Peers : y.positions[q].set \in y.result.compares
    <3> SUFFICES ASSUME NEW q \in Voters(y) \cap Peers PROVE y.positions[q].set \in y.result.compares
      OBVIOUS
    <3>1. q \in Voters(x) \cap Peers /\ q \in DOMAIN P
      BY <1>8, <2>3 DEF Voters
    <3>2. x.positions[q].set \in x.result.compares
      BY <1>1, <2>1, <3>1 DEF Counted
    <3> QED
      BY <1>5, <1>8, <2>2, <3>1, <3>2
  <2>6. ASSUME NEW t \in DOMAIN x.result.disputes
        PROVE  BallotOK(y, Peers, t, UnVote(x.result.disputes[t], p))
    <3>1. PICK d, e : d = x.result.disputes[t] /\ e = UnVote(d, p)
      OBVIOUS
    <3>2. BallotOK(x, Peers, t, d)
      BY <1>1, <2>1, <3>1 DEF Counted
    <3>3. d \in Ballots
      BY <1>1, <2>1, <3>1, ResultFacts
    <3>4. /\ e.our = d.our /\ DOMAIN e.votes = DOMAIN d.votes \ {p}
          /\ \A q \in DOMAIN d.votes \ {p} : e.votes[q] = d.votes[q]
      BY <3>1, <3>3, BallotAfterUnVote
    <3>5. DOMAIN e.votes \subseteq DOMAIN y.positions /\ e.our = (t \in y.result.txns)
      BY <1>5, <1>8, <2>2, <3>2, <3>4 DEF BallotOK
    <3>6. ASSUME NEW q \in Voters(y) \cap Peers
          PROVE  q \in DOMAIN e.votes /\ e.votes[q] = (t \in y.positions[q].set)
      <4>1. q \in Voters(x) \cap Peers /\ q # p /\ q \in DOMAIN P
        BY <1>8, <2>3 DEF Voters
      <4>2. q \in DOMAIN d.votes /\ d.votes[q] = (t \in x.positions[q].set)
        BY <3>2, <4>1 DEF BallotOK
      <4>3. y.positions[q] = x.positions[q]
        BY <1>5, <1>8, <4>1
      <4> QED
        BY <3>4, <4>1, <4>2, <4>3
    <3>7. BallotOK(y, Peers, t, e)
      BY <3>5, <3>6 DEF BallotOK
    <3> QED
      BY <3>1, <3>7
  <2> QED
    BY <2>2, <2>4, <2>5, <2>6 DEF Counted
<1> QED
  BY <1>3, <1>6, <1>8, <1>10, <1>11, <1>12 DEF RemovedStep, PeersStep, PeersOK, P

LEMMA BowOutOK ==
    ASSUME NEW x, PeersOK(x), NEW p \in Peers
    PROVE  PeersStep(x, BowOut(x, p))
<1>1. x \in States
  BY DEF PeersOK
<1>2. PICK z : z = Removed(x, p)
  OBVIOUS
<1>3. /\ PeersOK(z) /\ Kept(x, z) /\ z.dead = x.dead
      /\ z.positions = Restrict(x.positions, DOMAIN x.positions \ {p})
  BY <1>2, RemovedOK DEF RemovedStep, PeersStep
<1>4. z \in States /\ Held(z) /\ Counted(z, Peers)
  BY <1>3 DEF PeersOK
<1>5. PICK y : y = BowOut(x, p)
  OBVIOUS
<1>6. x.dead \cup {p} \in SUBSET Peers /\ z.dead = UnVoteAll(x, p).dead
  <2>1. x.dead \in SUBSET Peers
    BY <1>1 DEF States
  <2>2. UnVoteAll(x, p).dead = x.dead
    <3>1. CASE HasResult(x)
      BY <1>1, <3>1, UnVoteAllOK DEF DisputesSet, SameSide
    <3>2. CASE ~HasResult(x)
      BY <3>2 DEF UnVoteAll
    <3> QED
      BY <3>1, <3>2
  <2> QED
    BY <1>3, <2>1, <2>2
<1>7. y = [z EXCEPT !.dead = x.dead \cup {p}]
  BY <1>2, <1>3, <1>5, <1>6 DEF Removed, BowOut
<1>8. y \in States /\ y.dead = x.dead \cup {p} /\ y.positions = z.positions /\ y.result = z.result
      /\ y.acquired = z.acquired
  BY <1>4, <1>6, <1>7 DEF States
<1>9. Kept(z, y)
  <2>1. /\ y.now = z.now /\ y.phase = z.phase /\ y.mode = z.mode
        /\ y.prevId = z.prevId /\ y.prev = z.prev /\ y.recent = z.recent
        /\ y.prevProposers = z.prevProposers /\ y.prevRoundTime = z.prevRoundTime
        /\ y.percent = z.percent /\ y.haveCT = z.haveCT /\ y.ctState = z.ctState
        /\ y.establish = z.establish /\ y.openStart = z.openStart /\ y.sent = z.sent
    BY <1>4, <1>7 DEF States
  <2> QED
    BY <1>8, <2>1 DEF Kept, HasResult
<1>10. Held(y)
  <2>1. p \notin DOMAIN y.positions
    BY <1>3, <1>8 DEF Restrict
  <2> QED
    BY <1>3, <1>4, <1>8, <1>9, <2>1, ZenonT(60) DEF Held, Kept
<1>11. Counted(y, Peers)
  BY <1>4, <1>8, CountedSame
<1> QED
  BY <1>3, <1>5, <1>8, <1>9, <1>10, <1>11, KeptTwice DEF PeersStep, PeersOK

\* A proposal that is kept: it is typed, and the last one kept is not older.
Remembered(x, prop) ==
    /\ prop \in Props /\ x.recent[prop.node] # <<>>
    /\ prop.seen <= NewestOf(x.recent[prop.node]).seen

LEMMA TakePositionOK ==
    ASSUME NEW x, PeersOK(x), NEW prop, Remembered(x, prop), Accepts(x, prop), prop.seq # Leave,
           NEW avail \in SUBSET SUBSET Txs
    PROVE  PeersStep(x, TakePosition(x, prop, avail))
<1> DEFINE p == prop.node
           o == prop.set
           P == [q \in DOMAIN x.positions \cup {p} |-> IF q = p THEN prop ELSE x.positions[q]]
           w == [x EXCEPT !.positions = P]
           y == TakePosition(x, prop, avail)
<1>1. x \in States /\ Held(x) /\ Counted(x, Peers)
  BY DEF PeersOK
<1>2. prop \in Props /\ p \in Peers /\ o \in SUBSET Txs
  BY DEF Remembered, Props
<1>3. y = CASE o \notin w.acquired -> IF o \in avail THEN GotTxSet(w, o) ELSE w
            [] o \in w.acquired /\ HasResult(w) -> UpdateDisputes(w, p, o)
            [] OTHER -> w
  BY DEF TakePosition
<1>4. P \in PartialFns(Peers, Props) /\ DOMAIN P = DOMAIN x.positions \cup {p}
  <2>1. /\ DOMAIN x.positions \subseteq Peers
        /\ \A q \in DOMAIN x.positions : x.positions[q] \in Props
    BY <1>1, PositionFacts
  <2>2. P \in [DOMAIN x.positions \cup {p} -> Props]
    BY <1>2, <2>1
  <2>3. DOMAIN x.positions \cup {p} \in SUBSET Peers
    BY <1>2, <2>1
  <2> HIDE DEF P
  <2> QED
    BY <2>2, <2>3, PartialFnOver
<1>5. P[p] = prop /\ \A q \in DOMAIN x.positions : q # p => P[q] = x.positions[q]
  OBVIOUS
<1> HIDE DEF P
<1>6. w \in States /\ w.positions = P /\ w.result = x.result /\ w.dead = x.dead /\ w.acquired = x.acquired
  BY <1>1, <1>4 DEF States
<1>7. Kept(x, w)
  <2>1. /\ w.now = x.now /\ w.phase = x.phase /\ w.mode = x.mode
        /\ w.prevId = x.prevId /\ w.prev = x.prev /\ w.recent = x.recent
        /\ w.prevProposers = x.prevProposers /\ w.prevRoundTime = x.prevRoundTime
        /\ w.percent = x.percent /\ w.haveCT = x.haveCT /\ w.ctState = x.ctState
        /\ w.establish = x.establish /\ w.openStart = x.openStart /\ w.sent = x.sent
    BY <1>1 DEF States
  <2> HIDE DEF w
  <2> QED
    BY <1>6, <2>1 DEF Kept, HasResult
<1> HIDE DEF w, y
<1>8. Held(w)
  <2> SUFFICES ASSUME NEW q \in DOMAIN P
               PROVE  /\ P[q].prev = x.prevId /\ q \notin x.dead /\ P[q].seq # Leave
                      /\ x.recent[q] # <<>> /\ P[q].seen <= NewestOf(x.recent[q]).seen
    BY <1>6, <1>7 DEF Held, Kept
  <2>1. CASE q = p
    BY <1>5, <2>1 DEF Accepts, Remembered
  <2>2. CASE q # p
    BY <1>1, <1>4, <1>5, <2>2 DEF Held
  <2> QED
    BY <2>1, <2>2
<1>9. Voters(w) \ {p} \subseteq Voters(x) /\ \A q \in Voters(w) \ {p} : w.positions[q] = x.positions[q]
  BY <1>4, <1>5, <1>6 DEF Voters
<1>10. Counted(w, Peers \ {p})
  <2> SUFFICES ASSUME HasResult(w) PROVE Counted(w, Peers \ {p})
    BY DEF Counted
  <2>1. HasResult(x)
    BY <1>6 DEF HasResult
  <2>2. Compared(w)
    BY <1>1, <1>6, <2>1 DEF Counted, Compared
  <2>3. \A q \in Voters(w) \cap (Peers \ {p}) : w.positions[q].set \in w.result.compares
    BY <1>1, <1>6, <1>9, <2>1 DEF Counted
  <2>4. ASSUME NEW t \in DOMAIN x.result.disputes
        PROVE  BallotOK(w, Peers \ {p}, t, x.result.disputes[t])
    <3>1. PICK d : d = x.result.disputes[t]
      OBVIOUS
    <3>2. BallotOK(x, Peers, t, d)
      BY <1>1, <2>1, <3>1 DEF Counted
    <3>3. BallotOK(w, Peers \ {p}, t, d)
      BY <1>4, <1>6, <1>9, <3>2 DEF BallotOK
    <3> QED
      BY <3>1, <3>3
  <2> QED
    BY <1>6, <2>2, <2>3, <2>4 DEF Counted
<1>11. CASE o \notin w.acquired
  <2>1. Voters(w) \cap (Peers \ {p}) = Voters(w) \cap Peers
    BY <1>5, <1>6, <1>11 DEF Voters
  <2>2. Counted(w, Peers)
    BY <1>10, <2>1 DEF Counted, BallotOK
  <2>3. PeersOK(w)
    BY <1>6, <1>8, <2>2 DEF PeersOK
  <2>4. y = IF o \in avail THEN GotTxSet(w, o) ELSE w
    BY <1>3, <1>11, SMT
  <2>5. CASE o \in avail
    <3>1. PeersStep(w, GotTxSet(w, o))
      BY <1>2, <2>3, GotTxSetOK
    <3>2. PeersStep(w, y)
      BY <2>4, <2>5, <3>1
    <3> QED
      BY <1>7, <3>2, KeptTwice DEF PeersStep, y
  <2>6. CASE o \notin avail
    BY <1>7, <2>3, <2>4, <2>6 DEF PeersStep, y
  <2> QED
    BY <2>5, <2>6
<1>12. CASE o \in w.acquired /\ HasResult(w)
  <2>1. y = UpdateDisputes(w, p, o)
    BY <1>3, <1>12, SMT
  <2>2. p \in DOMAIN w.positions /\ o = w.positions[p].set
    BY <1>4, <1>5, <1>6
  <2>3. y \in States /\ SameSide(w, y) /\ Counted(y, (Peers \ {p}) \cup {p})
    BY <1>6, <1>10, <1>12, <2>1, <2>2, UpdateDisputesOK DEF AfterDisputes
  <2>4. (Peers \ {p}) \cup {p} = Peers
    BY <1>2
  <2>5. Held(y) /\ Kept(x, y)
    BY <1>7, <1>8, <2>3, HeldKept, KeptTwice DEF SameSide
  <2> QED
    BY <2>3, <2>4, <2>5 DEF PeersStep, PeersOK, y
<1>13. CASE o \in w.acquired /\ ~HasResult(w)
  <2>1. y = w
    BY <1>3, <1>13, SMT
  <2>2. Counted(w, Peers)
    BY <1>13 DEF Counted
  <2> QED
    BY <1>6, <1>7, <1>8, <2>1, <2>2 DEF PeersStep, PeersOK, y
<1> QED
  BY <1>11, <1>12, <1>13

LEMMA PeerProposalInternalOK ==
    ASSUME NEW x, PeersOK(x), NEW prop, Remembered(x, prop), NEW avail \in SUBSET SUBSET Txs
    PROVE  PeersStep(x, PeerProposalInternal(x, prop, avail))
<1>1. prop.node \in Peers
  BY DEF Remembered, Props
<1>2. PICK y : y = PeerProposalInternal(x, prop, avail)
  OBVIOUS
<1>3. CASE ~Accepts(x, prop)
  <2>1. y = x
    BY <1>2, <1>3 DEF PeerProposalInternal
  <2> QED
    BY <1>2, <2>1, KeptSame DEF PeersStep
<1>4. CASE Accepts(x, prop) /\ prop.seq = Leave
  <2>1. y = BowOut(x, prop.node)
    BY <1>2, <1>4 DEF PeerProposalInternal
  <2> QED
    BY <1>1, <1>2, <2>1, BowOutOK
<1>5. CASE Accepts(x, prop) /\ prop.seq # Leave
  <2>1. y = TakePosition(x, prop, avail)
    BY <1>2, <1>5 DEF PeerProposalInternal
  <2> QED
    BY <1>2, <1>5, <2>1, TakePositionOK
<1> QED
  BY <1>3, <1>4, <1>5

LEMMA MaxOfFinite ==
    ASSUME NEW S \in SUBSET Int, IsFiniteSet(S), S # {}
    PROVE  Max(S) \in S /\ \A n \in S : Max(S) >= n
<1> DEFINE Top(s) == \E m \in s : \A n \in s : m >= n
           G == {s \in SUBSET S : s # {} => Top(s)}
           C == [s \in SUBSET S |-> Taken(s)]
<1>1. {} \in G
  OBVIOUS
<1>2. ASSUME NEW s \in SUBSET S, s # {}, s \ {C[s]} \in G
      PROVE  s \in G
  <2>1. PICK k : k = Taken(s) /\ k \in s
    BY <1>2 DEF Taken
  <2>2. s \ {k} = {} \/ Top(s \ {k})
    BY <1>2, <2>1
  <2>3. k \in Int /\ s \subseteq Int
    BY <2>1
  <2>4. CASE s \ {k} = {}
    <3>1. \A n \in s : k >= n
      BY <2>3, <2>4, SMT
    <3> QED
      BY <2>1, <3>1
  <2>5. CASE Top(s \ {k})
    <3>1. PICK m \in s \ {k} : \A n \in s \ {k} : m >= n
      BY <2>5
    <3>2. \/ \A n \in s : k >= n
          \/ \A n \in s : m >= n
      BY <2>3, <3>1, SMT
    <3> QED
      BY <2>1, <3>1, <3>2
  <2> QED
    BY <2>2, <2>4, <2>5
<1>3. Chooses(C, S)
  BY TakenChooses
<1> HIDE DEF G, C
<1>4. \A s \in SUBSET S : s \in G
  <2>1. \A s \in SUBSET S : s # {} /\ s \ {C[s]} \in G => s \in G
    BY <1>2
  <2> QED
    BY <1>1, <1>3, <2>1, SubsetInduction
<1>5. PICK m \in S : \A n \in S : m >= n
  BY <1>4 DEF G
<1> QED
  BY <1>5 DEF Max

\* The proposals of one peer, replayed in order.
Replay(y, prop, avail) ==
    IF prop.prev = y.prevId THEN PeerProposalInternal(y, prop, avail) ELSE y
Replayed(y, q, avail) ==
    MapThenFoldSet(LAMBDA prop, z : Replay(z, prop, avail), y, LAMBDA i : q[i], Max, DOMAIN q)

LEMMA ReplayOK ==
    ASSUME NEW x, PeersOK(x), NEW avail \in SUBSET SUBSET Txs, NEW q, NEW n \in Nat, DOMAIN q = 1..n,
           \A i \in DOMAIN q : Remembered(x, q[i])
    PROVE  PeersStep(x, Replayed(x, q, avail))
<1> DEFINE S == DOMAIN q
           C == [s \in SUBSET S |-> Max(s)]
           op(i, z) == Replay(z, q[i], avail)
           Z == [s \in SUBSET S |-> {z \in States : PeersStep(x, z)}]
           G == [a \in S \X States |-> op(a[1], a[2])]
           Eq(h) == h = [s \in SUBSET S |-> IF s = {} THEN x ELSE op(Max(s), h[s \ {Max(s)}])]
           it == CHOOSE h : Eq(h)
<1>0. ASSUME NEW s \in SUBSET S, s # {} PROVE Max(s) \in s
  <2>1. IsFiniteSet(S) /\ S \subseteq Int
    BY FS_Interval, SMT
  <2>2. IsFiniteSet(s) /\ s \in SUBSET Int
    BY <2>1, FS_Subset
  <2> QED
    BY <1>0, <2>2, MaxOfFinite
<1>1. IsFiniteSet(S) /\ Chooses(C, S)
  <2>1. IsFiniteSet(S)
    BY FS_Interval, SMT
  <2>2. Chooses(C, S)
    BY <1>0 DEF Chooses
  <2> QED
    BY <2>1, <2>2
<1>2. x \in Z[{}]
  BY KeptSame DEF PeersStep, PeersOK
<1>3. ASSUME NEW s \in SUBSET S, s # {}, NEW z \in Z[s \ {Max(s)}]
      PROVE  /\ Max(s) \in S /\ C[s] = Max(s) /\ z \in States
             /\ op(Max(s), z) \in Z[s]
  <2>1. PICK i : i = Max(s) /\ i \in s
    BY <1>0, <1>3
  <2>2. z \in States /\ PeersStep(x, z)
    OBVIOUS
  <2>3. PeersOK(z) /\ Kept(x, z)
    BY <2>2 DEF PeersStep
  <2>4. PICK prop, y : prop = q[i] /\ y = Replay(z, prop, avail)
    OBVIOUS
  <2>5. Remembered(z, prop)
    BY <2>1, <2>3, <2>4 DEF Remembered, Kept
  <2>6. PeersStep(z, y)
    <3>1. CASE prop.prev = z.prevId
      <4>1. y = PeerProposalInternal(z, prop, avail)
        BY <2>4, <3>1 DEF Replay
      <4> QED
        BY <2>3, <2>5, <4>1, PeerProposalInternalOK
    <3>2. CASE prop.prev # z.prevId
      <4>1. y = z
        BY <2>4, <3>2 DEF Replay
      <4> QED
        BY <2>3, <4>1, KeptSame DEF PeersStep
    <3> QED
      BY <3>1, <3>2
  <2>7. y \in States /\ PeersStep(x, y)
    BY <2>3, <2>6, KeptTwice DEF PeersStep, PeersOK
  <2> QED
    BY <2>1, <2>2, <2>4, <2>7
<1>4. FoldsIn(S, C, x, G, Z)
  <2>1. ASSUME NEW s \in SUBSET S, s # {}, NEW z \in Z[s \ {C[s]}]
        PROVE  G[<<C[s], z>>] \in Z[s]
    <3>1. C[s] = Max(s)
      OBVIOUS
    <3>2. z \in Z[s \ {Max(s)}]
      BY <2>1, <3>1
    <3>3. Max(s) \in S /\ z \in States /\ op(Max(s), z) \in Z[s]
      BY <1>3, <2>1, <3>2
    <3>4. G[<<Max(s), z>>] = op(Max(s), z)
      BY <3>3, SMT
    <3> QED
      BY <3>1, <3>3, <3>4
  <2> HIDE DEF Z, G, C, S
  <2> QED
    BY <1>1, <1>2, <2>1 DEF FoldsIn
<1>5. \E h : Eq(h)
  <2>1. PICK g : Solves(g, S, C, x, G, Z)
    <3> HIDE DEF Z, G, C, S
    <3> QED
      BY <1>1, <1>4, FoldExists
  <2>2. ASSUME NEW s \in SUBSET S, s # {}
        PROVE  G[<<C[s], g[s \ {C[s]}]>>] = op(Max(s), g[s \ {Max(s)}])
    <3>1. C[s] = Max(s) /\ s \ {Max(s)} \in SUBSET S
      OBVIOUS
    <3>2. PICK z : z = g[s \ {Max(s)}]
      OBVIOUS
    <3>3. z \in Z[s \ {Max(s)}]
      BY <2>1, <3>1, <3>2 DEF Solves
    <3>4. Max(s) \in S /\ z \in States
      BY <1>3, <2>2, <3>3
    <3>5. G[<<Max(s), z>>] = op(Max(s), z)
      BY <3>4, SMT
    <3> QED
      BY <3>1, <3>2, <3>5
  <2>3. Eq(g)
    <3> HIDE DEF Z, G, C, S, op
    <3> QED
      BY <2>1, <2>2 DEF Solves
  <2> QED
    BY <2>3
<1>6. Eq(it)
  BY <1>5
<1>7. Replayed(x, q, avail) = it[S]
  BY DEF Replayed, MapThenFoldSet
<1> HIDE DEF it
<1>8. it[S] \in Z[S]
  <2>1. it[{}] \in Z[{}]
    BY <1>2, <1>6
  <2>2. ASSUME NEW s \in SUBSET S, s # {}, it[s \ {C[s]}] \in Z[s \ {C[s]}]
        PROVE  it[s] \in Z[s]
    <3>1. C[s] = Max(s)
      OBVIOUS
    <3>2. it[s] = op(Max(s), it[s \ {Max(s)}])
      BY <1>6, <2>2
    <3>3. PICK z : z = it[s \ {Max(s)}]
      OBVIOUS
    <3>4. z \in Z[s \ {Max(s)}]
      BY <2>2, <3>1, <3>3
    <3>5. op(Max(s), z) \in Z[s]
      BY <1>3, <2>2, <3>4
    <3> QED
      BY <3>2, <3>3, <3>5
  <2> HIDE DEF Z, C, S
  <2> QED
    BY <1>1, <2>1, <2>2, FoldKeeps
<1> QED
  BY <1>7, <1>8

LEMMA PlaybackOK ==
    ASSUME NEW x, PeersOK(x), Recorded(x), NEW avail \in SUBSET SUBSET Txs
    PROVE  PeersStep(x, PlaybackProposals(x, avail))
<1> DEFINE S == Peers
           C == [s \in SUBSET S |-> Taken(s)]
           op(p, z) == Replayed(z, x.recent[p], avail)
           Z == [s \in SUBSET S |-> {z \in States : PeersStep(x, z)}]
           G == [a \in S \X States |-> op(a[1], a[2])]
           Eq(h) == h = [s \in SUBSET S |-> IF s = {} THEN x ELSE op(Taken(s), h[s \ {Taken(s)}])]
           it == CHOOSE h : Eq(h)
<1>1. IsFiniteSet(S) /\ Chooses(C, S)
  BY PeersAssumption, TakenChooses
<1>2. x \in Z[{}]
  BY KeptSame DEF PeersStep, PeersOK
<1>3. ASSUME NEW s \in SUBSET S, s # {}, NEW z \in Z[s \ {Taken(s)}]
      PROVE  /\ Taken(s) \in S /\ C[s] = Taken(s) /\ z \in States
             /\ op(Taken(s), z) \in Z[s]
  <2>1. PICK p : p = Taken(s) /\ p \in s
    BY <1>3 DEF Taken
  <2>2. z \in States /\ PeersStep(x, z)
    OBVIOUS
  <2>3. PeersOK(z) /\ Kept(x, z)
    BY <2>2 DEF PeersStep
  <2>4. PICK q, y : q = x.recent[p] /\ y = Replayed(z, q, avail)
    OBVIOUS
  <2>5. q \in Seq(Props)
    <3>1. x.recent \in [Peers -> Seq(Props)]
      BY DEF States, PeersOK
    <3> QED
      BY <2>1, <2>4, <3>1
  <2>6. Len(q) \in Nat /\ DOMAIN q = 1..Len(q) /\ \A i \in DOMAIN q : q[i] \in Props
    BY <2>5, SMT
  <2>7. \A i \in DOMAIN q : Remembered(z, q[i])
    <3> SUFFICES ASSUME NEW i \in DOMAIN q PROVE Remembered(z, q[i])
      OBVIOUS
    <3>1. q[i] \in Props /\ q[i].node = p /\ q[i].seen <= NewestOf(q).seen
      BY <2>1, <2>4, <2>6 DEF Recorded
    <3>2. q # <<>>
      BY EmptyFn
    <3> QED
      BY <2>3, <2>4, <3>1, <3>2 DEF Remembered, Kept
  <2>8. PeersStep(z, y)
    BY <2>3, <2>4, <2>6, <2>7, ReplayOK
  <2>9. y \in States /\ PeersStep(x, y)
    BY <2>3, <2>8, KeptTwice DEF PeersStep, PeersOK
  <2> QED
    BY <2>1, <2>2, <2>4, <2>9
<1>4. FoldsIn(S, C, x, G, Z)
  <2>1. ASSUME NEW s \in SUBSET S, s # {}, NEW z \in Z[s \ {C[s]}]
        PROVE  G[<<C[s], z>>] \in Z[s]
    <3>1. C[s] = Taken(s)
      OBVIOUS
    <3>2. z \in Z[s \ {Taken(s)}]
      BY <2>1, <3>1
    <3>3. Taken(s) \in S /\ z \in States /\ op(Taken(s), z) \in Z[s]
      BY <1>3, <2>1, <3>2
    <3>4. G[<<Taken(s), z>>] = op(Taken(s), z)
      BY <3>3, SMT
    <3> QED
      BY <3>1, <3>3, <3>4
  <2> HIDE DEF Z, G, C, S
  <2> QED
    BY <1>1, <1>2, <2>1 DEF FoldsIn
<1>5. \E h : Eq(h)
  <2>1. PICK g : Solves(g, S, C, x, G, Z)
    <3> HIDE DEF Z, G, C, S
    <3> QED
      BY <1>1, <1>4, FoldExists
  <2>2. ASSUME NEW s \in SUBSET S, s # {}
        PROVE  G[<<C[s], g[s \ {C[s]}]>>] = op(Taken(s), g[s \ {Taken(s)}])
    <3>1. C[s] = Taken(s) /\ s \ {Taken(s)} \in SUBSET S
      OBVIOUS
    <3>2. PICK z : z = g[s \ {Taken(s)}]
      OBVIOUS
    <3>3. z \in Z[s \ {Taken(s)}]
      BY <2>1, <3>1, <3>2 DEF Solves
    <3>4. Taken(s) \in S /\ z \in States
      BY <1>3, <2>2, <3>3
    <3>5. G[<<Taken(s), z>>] = op(Taken(s), z)
      BY <3>4, SMT
    <3> QED
      BY <3>1, <3>2, <3>5
  <2>3. Eq(g)
    <3> HIDE DEF Z, G, C, S, op
    <3> QED
      BY <2>1, <2>2 DEF Solves
  <2> QED
    BY <2>3
<1>6. Eq(it)
  BY <1>5
<1>7. PlaybackProposals(x, avail) = it[S]
  BY DEF PlaybackProposals, Replayed, Replay, FoldSet, MapThenFoldSet, Taken
<1> HIDE DEF it
<1>8. it[S] \in Z[S]
  <2>1. it[{}] \in Z[{}]
    BY <1>2, <1>6
  <2>2. ASSUME NEW s \in SUBSET S, s # {}, it[s \ {C[s]}] \in Z[s \ {C[s]}]
        PROVE  it[s] \in Z[s]
    <3>1. C[s] = Taken(s)
      OBVIOUS
    <3>2. it[s] = op(Taken(s), it[s \ {Taken(s)}])
      BY <1>6, <2>2
    <3>3. PICK z : z = it[s \ {Taken(s)}]
      OBVIOUS
    <3>4. z \in Z[s \ {Taken(s)}]
      BY <2>2, <3>1, <3>3
    <3>5. op(Taken(s), z) \in Z[s]
      BY <1>3, <2>2, <3>4
    <3> QED
      BY <3>2, <3>3, <3>5
  <2> HIDE DEF Z, C, S
  <2> QED
    BY <1>1, <2>1, <2>2, FoldKeeps
<1> QED
  BY <1>7, <1>8

\* The positions that are left are fresh.
Stale(x) == {p \in DOMAIN x.positions : x.positions[p].seen <= Larger(0, x.now - Parms.freshness)}
LEMMA DropStaleOK ==
    ASSUME NEW x, PeersOK(x)
    PROVE  /\ PeersStep(x, DropStale(x)) /\ DropStale(x).acquired = x.acquired
           /\ \A p \in DOMAIN DropStale(x).positions :
                 ~(DropStale(x).positions[p].seen <= Larger(0, x.now - Parms.freshness))
<1> DEFINE S == Stale(x)
           C == [s \in SUBSET S |-> Taken(s)]
           op(p, z) == Removed(z, p)
           Z == [s \in SUBSET S |->
                   {z \in States : /\ PeersStep(x, z) /\ z.acquired = x.acquired
                                   /\ DOMAIN z.positions = DOMAIN x.positions \ s
                                   /\ \A q \in DOMAIN x.positions \ s : z.positions[q] = x.positions[q]}]
           G == [a \in S \X States |-> op(a[1], a[2])]
           Eq(h) == h = [s \in SUBSET S |-> IF s = {} THEN x ELSE op(Taken(s), h[s \ {Taken(s)}])]
           it == CHOOSE h : Eq(h)
<1>1. S \in SUBSET Peers /\ IsFiniteSet(S) /\ Chooses(C, S)
  <2>1. S \in SUBSET Peers
    BY PositionFacts DEF Stale, PeersOK
  <2> HIDE DEF S
  <2> QED
    BY <2>1, FinitePeers, TakenChooses
<1>2. x \in Z[{}]
  BY KeptSame DEF PeersStep, PeersOK
<1>3. ASSUME NEW s \in SUBSET S, s # {}, NEW z \in Z[s \ {Taken(s)}]
      PROVE  /\ Taken(s) \in S /\ C[s] = Taken(s) /\ z \in States
             /\ op(Taken(s), z) \in Z[s]
  <2>1. PICK p : p = Taken(s) /\ p \in s
    BY <1>3 DEF Taken
  <2>2. /\ z \in States /\ PeersStep(x, z) /\ z.acquired = x.acquired
        /\ DOMAIN z.positions = DOMAIN x.positions \ (s \ {p})
        /\ \A q \in DOMAIN x.positions \ (s \ {p}) : z.positions[q] = x.positions[q]
    BY <2>1
  <2>3. PeersOK(z) /\ Kept(x, z)
    BY <2>2 DEF PeersStep
  <2>4. PICK y : y = Removed(z, p)
    OBVIOUS
  <2>5. RemovedStep(z, y, p)
    BY <2>3, <2>4, RemovedOK
  <2>6. y \in States /\ PeersStep(x, y) /\ y.acquired = x.acquired
    BY <2>2, <2>3, <2>5, KeptTwice DEF RemovedStep, PeersStep, PeersOK
  <2>7. DOMAIN y.positions = DOMAIN z.positions \ {p} /\ \A q \in DOMAIN z.positions \ {p} : y.positions[q] = z.positions[q]
    BY <2>5 DEF RemovedStep, Restrict
  <2>8. /\ DOMAIN y.positions = DOMAIN x.positions \ s
        /\ \A q \in DOMAIN x.positions \ s : y.positions[q] = x.positions[q]
    BY <2>1, <2>2, <2>7
  <2>9. y \in Z[s]
    BY <2>6, <2>8
  <2> QED
    BY <2>1, <2>2, <2>4, <2>9
<1>4. FoldsIn(S, C, x, G, Z)
  <2>1. ASSUME NEW s \in SUBSET S, s # {}, NEW z \in Z[s \ {C[s]}]
        PROVE  G[<<C[s], z>>] \in Z[s]
    <3>1. C[s] = Taken(s)
      OBVIOUS
    <3>2. z \in Z[s \ {Taken(s)}]
      BY <2>1, <3>1
    <3>3. Taken(s) \in S /\ z \in States /\ op(Taken(s), z) \in Z[s]
      BY <1>3, <2>1, <3>2
    <3>4. G[<<Taken(s), z>>] = op(Taken(s), z)
      BY <3>3, SMT
    <3> QED
      BY <3>1, <3>3, <3>4
  <2> HIDE DEF Z, G, C, S
  <2> QED
    BY <1>1, <1>2, <2>1 DEF FoldsIn
<1>5. \E h : Eq(h)
  <2>1. PICK g : Solves(g, S, C, x, G, Z)
    <3> HIDE DEF Z, G, C, S
    <3> QED
      BY <1>1, <1>4, FoldExists
  <2>2. ASSUME NEW s \in SUBSET S, s # {}
        PROVE  G[<<C[s], g[s \ {C[s]}]>>] = op(Taken(s), g[s \ {Taken(s)}])
    <3>1. C[s] = Taken(s) /\ s \ {Taken(s)} \in SUBSET S
      OBVIOUS
    <3>2. PICK z : z = g[s \ {Taken(s)}]
      OBVIOUS
    <3>3. z \in Z[s \ {Taken(s)}]
      BY <2>1, <3>1, <3>2 DEF Solves
    <3>4. Taken(s) \in S /\ z \in States
      BY <1>3, <2>2, <3>3
    <3>5. G[<<Taken(s), z>>] = op(Taken(s), z)
      BY <3>4, SMT
    <3> QED
      BY <3>1, <3>2, <3>5
  <2>3. Eq(g)
    <3> HIDE DEF Z, G, C, S, op
    <3> QED
      BY <2>1, <2>2 DEF Solves
  <2> QED
    BY <2>3
<1>6. Eq(it)
  BY <1>5
<1>7. DropStale(x) = it[S]
  BY DEF DropStale, Stale, Removed, FoldSet, MapThenFoldSet, Taken
<1> HIDE DEF it
<1>8. it[S] \in Z[S]
  <2>1. it[{}] \in Z[{}]
    BY <1>2, <1>6
  <2>2. ASSUME NEW s \in SUBSET S, s # {}, it[s \ {C[s]}] \in Z[s \ {C[s]}]
        PROVE  it[s] \in Z[s]
    <3>1. C[s] = Taken(s)
      OBVIOUS
    <3>2. it[s] = op(Taken(s), it[s \ {Taken(s)}])
      BY <1>6, <2>2
    <3>3. PICK z : z = it[s \ {Taken(s)}]
      OBVIOUS
    <3>4. z \in Z[s \ {Taken(s)}]
      BY <2>2, <3>1, <3>3
    <3>5. op(Taken(s), z) \in Z[s]
      BY <1>3, <2>2, <3>4
    <3> QED
      BY <3>2, <3>3, <3>5
  <2> HIDE DEF Z, C, S
  <2> QED
    BY <1>1, <2>1, <2>2, FoldKeeps
<1> QED
  BY <1>7, <1>8 DEF Stale
-----------------------------------------------------------------------------
(* Our position.                                                           *)

\* What holds of the machine between any two steps of a handler.
Fit(x, k) == PeersOK(x) /\ Recorded(x) /\ Ordered(x, k)

LEMMA FitKept ==
    ASSUME NEW x, NEW y, NEW k, Fit(x, k), PeersStep(x, y)
    PROVE  Fit(y, k) /\ y.now = x.now /\ y.phase = x.phase
BY KeptOrdered DEF Fit, PeersStep, Kept

LEMMA StateFacts ==
    ASSUME NEW x \in States
    PROVE  /\ x.now \in Nat /\ x.percent \in Int /\ x.unchanged \in Nat /\ x.establish \in Nat
           /\ x.prevProposers \in Nat /\ x.prevRoundTime \in Nat /\ x.sent \in Seq(Nat)
           /\ x.haveCT \in BOOLEAN /\ x.ctState \in AvalancheStates /\ x.mode \in Modes
BY DEF States

LEMMA AppendOrdered ==
    ASSUME NEW q \in Seq(Nat), NEW n \in Nat, q # <<>> => NewestOf(q) < n,
           \A i \in 1..(Len(q) - 1) : q[i] < q[i + 1]
    PROVE  /\ Append(q, n) \in Seq(Nat) /\ Append(q, n) # <<>> /\ NewestOf(Append(q, n)) = n
           /\ \A i \in 1..(Len(Append(q, n)) - 1) : Append(q, n)[i] < Append(q, n)[i + 1]
<1>1. /\ Append(q, n) \in Seq(Nat) /\ Append(q, n) # <<>> /\ Len(Append(q, n)) = Len(q) + 1
      /\ Append(q, n)[Len(q) + 1] = n /\ \A i \in 1..Len(q) : Append(q, n)[i] = q[i]
      /\ Len(q) \in Nat
  <2>1. Len(q) \in Nat
    BY SeqFacts
  <2>2. PICK S : S = Nat
    OBVIOUS
  <2>3. q \in Seq(S) /\ n \in S
    BY <2>2
  <2>4. /\ Append(q, n) \in Seq(S) /\ Append(q, n) # <<>> /\ Len(Append(q, n)) = Len(q) + 1
        /\ \A i \in 1..Len(q) : Append(q, n)[i] = q[i]
        /\ Append(q, n)[Len(q) + 1] = n
    BY <2>3, AppendFacts, SMT
  <2> QED
    BY <2>1, <2>2, <2>4
<1>2. ASSUME NEW i \in 1..Len(q) PROVE Append(q, n)[i] < Append(q, n)[i + 1]
  <2>1. CASE i = Len(q)
    <3>1. q # <<>>
      BY <2>1, SMT
    <3> QED
      BY <1>1, <2>1, <3>1, SMT DEF NewestOf
  <2>2. CASE i # Len(q)
    BY <1>1, <2>2, SMT
  <2> QED
    BY <2>1, <2>2
<1>3. PICK a : a = Append(q, n)
  OBVIOUS
<1>4. Len(a) - 1 = Len(q)
  BY <1>1, <1>3, SMT
<1>5. NewestOf(a) = n /\ \A i \in 1..(Len(a) - 1) : a[i] < a[i + 1]
  BY <1>1, <1>2, <1>3, <1>4 DEF NewestOf
<1> QED
  BY <1>1, <1>3, <1>5

\* A proposal is sent, and nothing else changes.
SentMore(x, y) ==
    /\ y \in States /\ y.sent = Append(x.sent, x.result.pos.seq)
    /\ y.now = x.now /\ y.phase = x.phase /\ y.mode = x.mode
    /\ y.prevId = x.prevId /\ y.prev = x.prev /\ y.recent = x.recent
    /\ y.prevProposers = x.prevProposers /\ y.prevRoundTime = x.prevRoundTime
    /\ y.percent = x.percent /\ y.haveCT = x.haveCT /\ y.ctState = x.ctState
    /\ y.establish = x.establish /\ y.openStart = x.openStart
    /\ y.positions = x.positions /\ y.dead = x.dead /\ y.acquired = x.acquired
    /\ y.result = x.result

LEMMA ProposeOK ==
    ASSUME NEW x \in States, HasResult(x)
    PROVE  SentMore(x, Propose(x))
<1>1. PICK n, y : n = x.result.pos.seq /\ y = Propose(x)
  OBVIOUS
<1>2. n \in Nat
  <2>1. x.result.pos \in OwnPositions
    BY ResultFacts
  <2> QED
    BY <1>1, <2>1 DEF OwnPositions
<1>3. PICK q : q = Append(x.sent, n)
  OBVIOUS
<1>4. q \in Seq(Nat)
  BY <1>2, <1>3, StateFacts, AppendFacts
<1>5. y = [x EXCEPT !.sent = q]
  BY <1>1, <1>3 DEF Propose
<1>6. y \in States /\ y.sent = q
  BY <1>4, <1>5 DEF States
<1>7. /\ y.now = x.now /\ y.phase = x.phase /\ y.mode = x.mode
      /\ y.prevId = x.prevId /\ y.prev = x.prev /\ y.recent = x.recent
      /\ y.prevProposers = x.prevProposers /\ y.prevRoundTime = x.prevRoundTime
      /\ y.percent = x.percent /\ y.haveCT = x.haveCT /\ y.ctState = x.ctState
      /\ y.establish = x.establish /\ y.openStart = x.openStart
      /\ y.positions = x.positions /\ y.dead = x.dead /\ y.acquired = x.acquired
      /\ y.result = x.result
  BY <1>5 DEF States
<1> QED
  BY <1>1, <1>3, <1>6, <1>7 DEF SentMore

LEMMA SentKeeps ==
    ASSUME NEW x, NEW y, NEW k, SentMore(x, y), HasResult(x), Fit(x, k),
           x.sent # <<>> => NewestOf(x.sent) < x.result.pos.seq
    PROVE  Fit(y, k) /\ HasResult(y)
<1>1. x \in States /\ Held(x) /\ Counted(x, Peers) /\ Recorded(x) /\ Ordered(x, k)
  BY DEF Fit, PeersOK
<1>2. y \in States /\ Held(y) /\ Counted(y, Peers) /\ Recorded(y) /\ HasResult(y)
  <2>1. Held(y) /\ Recorded(y) /\ HasResult(y)
    BY <1>1, ZenonT(60) DEF SentMore, Held, Recorded, HasResult
  <2> QED
    BY <1>1, <2>1, CountedSame DEF SentMore
<1>3. PICK n, q : n = x.result.pos.seq /\ q = x.sent
  OBVIOUS
<1>4. n \in Nat /\ q \in Seq(Nat)
  <2>1. x.result.pos \in OwnPositions
    BY <1>1, ResultFacts
  <2> QED
    BY <1>1, <1>3, <2>1, StateFacts DEF OwnPositions
<1>5. /\ y.sent # <<>> /\ NewestOf(y.sent) = n
      /\ \A i \in 1..(Len(y.sent) - 1) : y.sent[i] < y.sent[i + 1]
  <2>1. \A i \in 1..(Len(q) - 1) : q[i] < q[i + 1]
    BY <1>1, <1>3 DEF Ordered
  <2>2. y.sent = Append(q, n) /\ (q # <<>> => NewestOf(q) < n)
    BY <1>3 DEF SentMore
  <2>3. /\ Append(q, n) # <<>> /\ NewestOf(Append(q, n)) = n
        /\ \A i \in 1..(Len(Append(q, n)) - 1) : Append(q, n)[i] < Append(q, n)[i + 1]
    BY <1>4, <2>1, <2>2, AppendOrdered
  <2> QED
    BY <2>2, <2>3
<1>6. y.result.pos.seq >= NewestOf(y.sent)
  <2>1. n >= n
    BY <1>4, SMT
  <2> QED
    BY <1>3, <1>5, <2>1 DEF SentMore
<1>7. Ordered(y, k)
  BY <1>1, <1>2, <1>5, <1>6 DEF Ordered, SentMore, BowedOut, Proposing
<1> QED
  BY <1>2, <1>7 DEF Fit, PeersOK

\* Our first position on the open ledger, before it is proposed.
Closed(x, o) ==
    [x EXCEPT !.phase = "Establish", !.unchanged = 0, !.establish = 0,
              !.acquired = @ \cup {o},
              !.result = [txns |-> o,
                          pos |-> [set |-> o, ct |-> x.now, seen |-> x.now, seq |-> 0],
                          disputes |-> <<>>, compares |-> {}, start |-> x.now,
                          state |-> "No"]]
FirstPosition(x, y) ==
    /\ y \in States /\ HasResult(y) /\ y.phase = "Establish" /\ y.now = x.now
    /\ y.positions = x.positions /\ y.dead = x.dead /\ y.prevId = x.prevId
    /\ y.recent = x.recent /\ y.sent = <<>> /\ y.prevRoundTime = x.prevRoundTime
    /\ y.result.start = x.now /\ y.result.pos.seq = 0
    /\ y.result.compares = {} /\ DOMAIN y.result.disputes = {}

LEMMA CloseLedgerStart ==
    ASSUME NEW x, NEW k, Fit(x, k), x.phase = "Open", NEW o \in SUBSET Txs,
           NEW y, y = Closed(x, o)
    PROVE  FirstPosition(x, y)
<1> DEFINE r == [txns |-> o, pos |-> [set |-> o, ct |-> x.now, seen |-> x.now, seq |-> 0],
                 disputes |-> <<>>, compares |-> {}, start |-> x.now, state |-> "No"]
<1>1. x \in States /\ x.now \in Nat /\ x.now \in Int /\ 0 \in Nat
  <2>1. x \in States
    BY DEF Fit, PeersOK
  <2> QED
    BY <2>1, StateFacts, SMT
<1>2. [set |-> o, ct |-> x.now, seen |-> x.now, seq |-> 0] \in OwnPositions
  BY <1>1 DEF OwnPositions
<1>3. r \in Results /\ r.start = x.now /\ r.pos.seq = 0 /\ r.compares = {} /\ r.disputes = <<>>
  BY <1>1, <1>2, EmptyFn DEF Results
<1> HIDE DEF r
<1>4. y = [x EXCEPT !.phase = "Establish", !.unchanged = 0, !.establish = 0,
                    !.acquired = x.acquired \cup {o}, !.result = r]
  BY DEF r, Closed
<1>5. x.acquired \cup {o} \in SUBSET SUBSET Txs
  BY <1>1, PositionFacts
<1>6. y \in States
  BY <1>1, <1>3, <1>4, <1>5, ZenonT(60) DEF States
<1>7. /\ y.phase = "Establish" /\ y.now = x.now /\ y.positions = x.positions
      /\ y.dead = x.dead /\ y.prevId = x.prevId /\ y.recent = x.recent
      /\ y.sent = x.sent /\ y.prevRoundTime = x.prevRoundTime /\ y.result = r
  BY <1>1, <1>4, ZenonT(60) DEF States
<1>8. x.sent = <<>>
  BY DEF Fit, Ordered
<1>9. HasResult(y) /\ DOMAIN r.disputes = {}
  BY <1>3, <1>7, NotNoResult, EmptyFn DEF HasResult
<1> QED
  BY <1>3, <1>6, <1>7, <1>8, <1>9 DEF FirstPosition

\* The disputes with all peers whose set we have, when our first position is taken.
LEMMA AllSetsCompared ==
    ASSUME NEW x \in States, HasResult(x), x.result.compares = {}, DOMAIN x.result.disputes = {}
    PROVE  \E y \in States :
             /\ y = FoldSet(LAMBDA p, y1 : CreateDisputes(y1, y1.positions[p].set), x, Voters(x))
             /\ SameSide(x, y) /\ Counted(y, Peers)
<1> DEFINE S == Voters(x)
           C == [s \in SUBSET S |-> Taken(s)]
           op(p, z) == CreateDisputes(z, z.positions[p].set)
           Z == [s \in SUBSET S |-> {z \in States : SameSide(x, z) /\ Tallied(z, s, Peers)}]
           G == [a \in S \X States |-> op(a[1], a[2])]
           Eq(h) == h = [s \in SUBSET S |-> IF s = {} THEN x ELSE op(Taken(s), h[s \ {Taken(s)}])]
           it == CHOOSE h : Eq(h)
<1>1. S \in SUBSET Peers /\ IsFiniteSet(S) /\ Chooses(C, S)
  BY PositionFacts, FinitePeers, TakenChooses
<1>2. x \in Z[{}]
  <2>1. SameSide(x, x)
    BY DEF SameSide, Kept
  <2>2. Tallied(x, {}, Peers)
    BY DEF Tallied, Compared
  <2> QED
    BY <2>1, <2>2
<1>3. ASSUME NEW s \in SUBSET S, s # {}, NEW z \in Z[s \ {Taken(s)}]
      PROVE  /\ Taken(s) \in S /\ C[s] = Taken(s) /\ z \in States
             /\ op(Taken(s), z) \in Z[s]
  <2>1. PICK p, W : p = Taken(s) /\ p \in s /\ W = s \ {p}
    BY <1>3 DEF Taken
  <2>2. z \in States /\ SameSide(x, z) /\ Tallied(z, W, Peers)
    BY <2>1
  <2>3. p \in DOMAIN z.positions /\ z.positions[p].set \in SUBSET Txs /\ HasResult(z)
    <3>1. p \in DOMAIN x.positions
      BY <2>1 DEF Voters
    <3> QED
      BY <2>2, <3>1, PositionFacts DEF SameSide
  <2>4. PICK o, y : o = z.positions[p].set /\ y = CreateDisputes(z, o)
    OBVIOUS
  <2>5. AfterTally(z, y, W, Peers, z.result.compares \cup {o})
    BY <2>2, <2>3, <2>4, CreateDisputesTally
  <2>6. y \in States /\ SameSide(z, y) /\ Tallied(y, W, Peers) /\ o \in y.result.compares
    BY <2>5 DEF AfterTally
  <2>7. SameSide(x, y)
    BY <2>2, <2>6, SameSideTwice
  <2>8. Tallied(y, s, Peers)
    <3>1. y.positions[p].set \in y.result.compares
      BY <2>4, <2>6 DEF SameSide
    <3>2. \A q \in Voters(y) \cap s : q = p \/ q \in Voters(y) \cap W
      BY <2>1
    <3> QED
      BY <2>6, <3>1, <3>2 DEF Tallied
  <2>9. y \in Z[s]
    BY <2>6, <2>7, <2>8
  <2> QED
    BY <2>1, <2>2, <2>4, <2>9
<1>4. FoldsIn(S, C, x, G, Z)
  <2>1. ASSUME NEW s \in SUBSET S, s # {}, NEW z \in Z[s \ {C[s]}]
        PROVE  G[<<C[s], z>>] \in Z[s]
    <3>1. C[s] = Taken(s)
      OBVIOUS
    <3>2. z \in Z[s \ {Taken(s)}]
      BY <2>1, <3>1
    <3>3. Taken(s) \in S /\ z \in States /\ op(Taken(s), z) \in Z[s]
      BY <1>3, <2>1, <3>2
    <3>4. G[<<Taken(s), z>>] = op(Taken(s), z)
      BY <3>3, SMT
    <3> QED
      BY <3>1, <3>3, <3>4
  <2> HIDE DEF Z, G, C, S
  <2> QED
    BY <1>1, <1>2, <2>1 DEF FoldsIn
<1>5. \E h : Eq(h)
  <2>1. PICK g : Solves(g, S, C, x, G, Z)
    <3> HIDE DEF Z, G, C, S
    <3> QED
      BY <1>1, <1>4, FoldExists
  <2>2. ASSUME NEW s \in SUBSET S, s # {}
        PROVE  G[<<C[s], g[s \ {C[s]}]>>] = op(Taken(s), g[s \ {Taken(s)}])
    <3>1. C[s] = Taken(s) /\ s \ {Taken(s)} \in SUBSET S
      OBVIOUS
    <3>2. PICK z : z = g[s \ {Taken(s)}]
      OBVIOUS
    <3>3. z \in Z[s \ {Taken(s)}]
      BY <2>1, <3>1, <3>2 DEF Solves
    <3>4. Taken(s) \in S /\ z \in States
      BY <1>3, <2>2, <3>3
    <3>5. G[<<Taken(s), z>>] = op(Taken(s), z)
      BY <3>4, SMT
    <3> QED
      BY <3>1, <3>2, <3>5
  <2>3. Eq(g)
    <3> HIDE DEF Z, G, C, S, op
    <3> QED
      BY <2>1, <2>2 DEF Solves
  <2> QED
    BY <2>3
<1>6. Eq(it)
  BY <1>5
<1>7. FoldSet(LAMBDA p, y1 : CreateDisputes(y1, y1.positions[p].set), x, Voters(x)) = it[S]
  BY DEF FoldSet, MapThenFoldSet, Taken
<1> HIDE DEF it
<1>8. it[S] \in Z[S]
  <2>1. it[{}] \in Z[{}]
    BY <1>2, <1>6
  <2>2. ASSUME NEW s \in SUBSET S, s # {}, it[s \ {C[s]}] \in Z[s \ {C[s]}]
        PROVE  it[s] \in Z[s]
    <3>1. C[s] = Taken(s)
      OBVIOUS
    <3>2. it[s] = op(Taken(s), it[s \ {Taken(s)}])
      BY <1>6, <2>2
    <3>3. PICK z : z = it[s \ {Taken(s)}]
      OBVIOUS
    <3>4. z \in Z[s \ {Taken(s)}]
      BY <2>2, <3>1, <3>3
    <3>5. op(Taken(s), z) \in Z[s]
      BY <1>3, <2>2, <3>4
    <3> QED
      BY <3>2, <3>3, <3>5
  <2> HIDE DEF Z, C, S
  <2> QED
    BY <1>1, <2>1, <2>2, FoldKeeps
<1>9. PICK y \in States : y = it[S] /\ SameSide(x, y) /\ Tallied(y, S, Peers)
  BY <1>8
<1>10. Counted(y, Peers)
  <2>1. Voters(y) \cap Peers \subseteq Voters(y) \cap S
    BY <1>9, SameVoters
  <2> QED
    BY <1>9, <2>1 DEF Tallied, Counted
<1> QED
  BY <1>7, <1>9, <1>10

LEMMA CloseLedgerOK ==
    ASSUME NEW x, NEW k, Fit(x, k), x.phase = "Open", NEW e \in Answers
    PROVE  Fit(CloseLedger(x, e), 0) /\ Ends(CloseLedger(x, e))
<1>1. PICK o, y : o = e.open /\ y = Closed(x, o)
  OBVIOUS
<1>2. o \in SUBSET Txs
  BY <1>1 DEF Answers
<1>3. /\ y \in States /\ HasResult(y) /\ y.phase = "Establish" /\ y.now = x.now
      /\ y.positions = x.positions /\ y.dead = x.dead /\ y.prevId = x.prevId
      /\ y.recent = x.recent /\ y.sent = <<>> /\ y.prevRoundTime = x.prevRoundTime
      /\ y.result.start = x.now /\ y.result.pos.seq = 0
      /\ y.result.compares = {} /\ DOMAIN y.result.disputes = {}
  <2>1. FirstPosition(x, y)
    BY <1>1, <1>2, CloseLedgerStart
  <2> QED
    BY <2>1 DEF FirstPosition
<1>4. PICK z : z = IF Proposing(y) THEN Propose(y) ELSE y
  OBVIOUS
<1>5. CloseLedger(x, e) = FoldSet(LAMBDA p, y1 : CreateDisputes(y1, y1.positions[p].set), z, Voters(z))
  BY <1>1, <1>4 DEF CloseLedger, Closed
<1>6. /\ z \in States /\ HasResult(z) /\ z.phase = "Establish" /\ z.now = x.now
      /\ z.positions = x.positions /\ z.dead = x.dead /\ z.prevId = x.prevId
      /\ z.recent = x.recent
      /\ z.result.start = x.now /\ z.result.pos.seq = 0
      /\ z.result.compares = {} /\ DOMAIN z.result.disputes = {}
      /\ z.sent = <<>> \/ z.sent = Append(<<>>, 0)
  <2>1. CASE Proposing(y)
    <3>1. SentMore(y, z)
      BY <1>3, <1>4, <2>1, ProposeOK
    <3>2. HasResult(z)
      BY <1>3, <3>1 DEF SentMore, HasResult
    <3> QED
      BY <1>3, <3>1, <3>2 DEF SentMore
  <2>2. CASE ~Proposing(y)
    BY <1>3, <1>4, <2>2
  <2> QED
    BY <2>1, <2>2
<1>7. PICK w \in States :
        /\ w = FoldSet(LAMBDA p, y1 : CreateDisputes(y1, y1.positions[p].set), z, Voters(z))
        /\ SameSide(z, w) /\ Counted(w, Peers)
  BY <1>6, AllSetsCompared
<1>8. Recorded(z) /\ Held(z)
  <2>1. Recorded(x) /\ Held(x)
    BY DEF Fit, PeersOK
  <2>2. Recorded(z)
    BY <1>6, <2>1, ZenonT(60) DEF Recorded
  <2>3. Held(z)
    BY <1>6, <2>1 DEF Held
  <2> QED
    BY <2>2, <2>3
<1>9. Ordered(z, 0)
  <2>1. x.now \in 1..(Leave - 1)
    BY DEF Fit, Ordered
  <2>2. z.result.start \in 1..z.now /\ z.result.pos.seq <= z.now - z.result.start + 0 /\ ~BowedOut(z.result)
    <3>1. x.now \in 1..x.now /\ 0 <= x.now - x.now + 0 /\ 0 # Leave
      BY <2>1, SMTT(30) DEF Leave
    <3> QED
      BY <1>6, <3>1 DEF BowedOut
  <2>3. /\ z.sent # <<>> => z.result.pos.seq >= NewestOf(z.sent)
        /\ \A i \in 1..(Len(z.sent) - 1) : z.sent[i] < z.sent[i + 1]
    <3>1. \A q : q = <<>> \/ q = Append(<<>>, 0) => /\ q # <<>> => 0 >= NewestOf(q)
                                                  /\ \A i \in 1..(Len(q) - 1) : q[i] < q[i + 1]
      BY SMT DEF NewestOf
    <3> QED
      BY <1>6, <3>1
  <2> QED
    BY <1>6, <2>1, <2>2, <2>3 DEF Ordered
<1>10. Ends(z)
  <2>1. RoundTime(z) = 0
    <3>1. x.now - x.now = 0
      BY SMT DEF Fit, Ordered
    <3> QED
      BY <1>6, <3>1 DEF RoundTime
  <2>2. z.prevRoundTime \in Nat
    BY <1>6, StateFacts
  <2>3. ~(0 > Larger(Parms.abandon, z.prevRoundTime + Parms.minConsensus))
    BY <2>2, ParmsAssumption, SMT DEF Larger, ParmsFields
  <2> QED
    BY <2>1, <2>3 DEF Ends, PastLimit
<1>11. Held(w) /\ Recorded(w) /\ Ordered(w, 0) /\ Ends(w)
  BY <1>7, <1>8, <1>9, <1>10, KeptOrdered, HeldKept DEF SameSide
<1> QED
  BY <1>5, <1>7, <1>11 DEF Fit, PeersOK

LEMMA PhaseOpenOK ==
    ASSUME NEW x, NEW k, Fit(x, k), x.phase = "Open", NEW e \in Answers
    PROVE  /\ Ends(PhaseOpen(x, e))
           /\ Fit(PhaseOpen(x, e), 0) \/ PhaseOpen(x, e) = x
<1>1. PICK y : y = PhaseOpen(x, e)
  OBVIOUS
<1>2. CASE y = x
  BY <1>1, <1>2 DEF Ends
<1>3. CASE y = CloseLedger(x, e)
  BY <1>1, <1>3, CloseLedgerOK
<1>4. y = x \/ y = CloseLedger(x, e)
  BY <1>1 DEF PhaseOpen
<1> QED
  BY <1>2, <1>3, <1>4

LEMMA CountedParts ==
    ASSUME NEW x, NEW y, NEW W, HasResult(x), Counted(x, W),
           y.positions = x.positions, y.acquired = x.acquired,
           y.result.txns = x.result.txns, y.result.compares = x.result.compares,
           y.result.disputes = x.result.disputes
    PROVE  Counted(y, W)
<1>1. Voters(y) = Voters(x) /\ (Compared(y) <=> Compared(x))
  BY DEF Voters, Compared
<1>2. \A t, d : BallotOK(y, W, t, d) <=> BallotOK(x, W, t, d)
  BY <1>1 DEF BallotOK
<1> QED
  BY <1>1, <1>2 DEF Counted

\* What leaving and a change of our position leave alone.
SameRound(x, y) ==
    /\ y.now = x.now /\ y.phase = x.phase /\ y.prevId = x.prevId /\ y.prev = x.prev
    /\ y.recent = x.recent /\ y.prevProposers = x.prevProposers
    /\ y.prevRoundTime = x.prevRoundTime /\ y.establish = x.establish
    /\ y.positions = x.positions /\ y.dead = x.dead /\ y.openStart = x.openStart
    /\ HasResult(y) <=> HasResult(x)
    /\ HasResult(x) => y.result.start = x.result.start

LEMMA SameRoundTwice ==
    ASSUME NEW x, NEW y, NEW z, SameRound(x, y), SameRound(y, z)
    PROVE  SameRound(x, z)
BY DEF SameRound

LEMMA SameRoundKeeps ==
    ASSUME NEW x, NEW y, SameRound(x, y)
    PROVE  (Recorded(x) => Recorded(y)) /\ (Held(x) => Held(y))
<1>1. Recorded(x) => Recorded(y)
  BY DEF SameRound, Recorded
<1>2. Held(x) => Held(y)
  BY DEF SameRound, Held
<1> QED
  BY <1>1, <1>2

\* The number of a position that has not bowed out leaves room for one more.
LEMMA SeqBelowLeave ==
    ASSUME NEW x, NEW k \in {0, 1}, Fit(x, k), HasResult(x), ~BowedOut(x.result)
    PROVE  /\ x.result.pos.seq \in Nat /\ x.result.pos.seq < Leave
           /\ k = 0 => x.result.pos.seq + 1 < Leave
           /\ x.result.start \in Nat /\ x.now \in Nat
           /\ x.result.pos.seq <= x.now - x.result.start + k
<1>1. x \in States
  BY DEF Fit, PeersOK
<1>2. x.result.pos.seq \in Nat
  <2>1. x.result.pos \in OwnPositions
    BY <1>1, ResultFacts
  <2> QED
    BY <2>1 DEF OwnPositions
<1>3. /\ x.now \in 1..(Leave - 1) /\ x.result.start \in 1..x.now
      /\ x.result.pos.seq <= x.now - x.result.start + k
  BY DEF Fit, Ordered
<1>4. PICK a, b, n : a = x.result.pos.seq /\ b = x.result.start /\ n = x.now
  OBVIOUS
<1>5. a \in Nat /\ n \in 1..(Leave - 1) /\ b \in 1..n /\ a <= n - b + k
  BY <1>2, <1>3, <1>4
<1>6. a \in Nat /\ a < Leave /\ (k = 0 => a + 1 < Leave) /\ b \in Nat /\ n \in Nat
  BY <1>5, SMT DEF Leave
<1> QED
  BY <1>3, <1>4, <1>6

LEMMA LeaveConsensusOK ==
    ASSUME NEW x, NEW k \in {0, 1}, Fit(x, k)
    PROVE  /\ Fit(LeaveConsensus(x), k) /\ SameRound(x, LeaveConsensus(x))
           /\ LeaveConsensus(x).haveCT = x.haveCT
<1>1. PICK y : y = LeaveConsensus(x)
  OBVIOUS
<1>2. x \in States /\ Held(x) /\ Counted(x, Peers) /\ Recorded(x) /\ Ordered(x, k)
  BY DEF Fit, PeersOK
<1>3. CASE ~Proposing(x)
  <2>1. y = x
    BY <1>1, <1>3 DEF LeaveConsensus
  <2>2. SameRound(x, x)
    BY DEF SameRound
  <2> QED
    BY <1>1, <2>1, <2>2
<1>4. CASE Proposing(x) /\ ~(HasResult(x) /\ ~BowedOut(x.result))
  <2>1. y = [x EXCEPT !.mode = "Observing"]
    BY <1>1, <1>4 DEF LeaveConsensus
  <2>2. y \in States /\ y.mode = "Observing"
    BY <1>2, <2>1 DEF States, Modes
  <2>3. /\ y.now = x.now /\ y.phase = x.phase /\ y.prevId = x.prevId /\ y.prev = x.prev
        /\ y.recent = x.recent /\ y.prevProposers = x.prevProposers
        /\ y.prevRoundTime = x.prevRoundTime /\ y.establish = x.establish
        /\ y.positions = x.positions /\ y.dead = x.dead /\ y.openStart = x.openStart
        /\ y.acquired = x.acquired /\ y.sent = x.sent /\ y.haveCT = x.haveCT /\ y.result = x.result
    BY <1>2, <2>1 DEF States
  <2>4. SameRound(x, y)
    BY <2>3 DEF SameRound, HasResult
  <2>5. Recorded(y) /\ Held(y) /\ Counted(y, Peers)
    BY <1>2, <2>3, <2>4, SameRoundKeeps, CountedSame
  <2>6. ~Proposing(y)
    BY <2>2 DEF Proposing
  <2>7. Ordered(y, k)
    BY <1>2, <2>3, <2>4, <2>6 DEF Ordered, SameRound
  <2> QED
    BY <1>1, <2>2, <2>3, <2>4, <2>5, <2>7 DEF Fit, PeersOK
<1>5. CASE Proposing(x) /\ HasResult(x) /\ ~BowedOut(x.result)
  <2>1. PICK r : r = [x.result EXCEPT !.pos.seq = Leave, !.pos.seen = x.now]
    OBVIOUS
  <2>2. PICK q : q = Append(x.sent, Leave)
    OBVIOUS
  <2>3. x.result \in Results /\ x.result.pos \in OwnPositions /\ x.now \in Nat /\ Leave \in Nat
    BY <1>2, <1>5, ResultFacts, StateFacts, SMT DEF Leave
  <2>4. r \in Results /\ r.pos.seq = Leave
    <3>1. PICK o : o = [x.result.pos EXCEPT !.seq = Leave, !.seen = x.now]
      OBVIOUS
    <3>2. o \in OwnPositions /\ o.seq = Leave
      BY <2>3, <3>1 DEF OwnPositions
    <3>3. r = [x.result EXCEPT !.pos = o]
      BY <2>1, <2>3, <3>1 DEF Results
    <3> QED
      BY <2>3, <3>2, <3>3 DEF Results
  <2>5. /\ r.txns = x.result.txns /\ r.compares = x.result.compares
        /\ r.disputes = x.result.disputes /\ r.start = x.result.start
    BY <2>1, <2>3 DEF Results
  <2>6. y = [x EXCEPT !.result = r, !.sent = q, !.mode = "Observing"]
    <3>1. y = [Propose([x EXCEPT !.result.pos.seq = Leave, !.result.pos.seen = x.now])
                 EXCEPT !.mode = "Observing"]
      BY <1>1, <1>5 DEF LeaveConsensus
    <3>2. [x EXCEPT !.result.pos.seq = Leave, !.result.pos.seen = x.now] = [x EXCEPT !.result = r]
      BY <1>2, <2>1, ZenonT(60) DEF States
    <3>3. PICK w : w = [x EXCEPT !.result = r]
      OBVIOUS
    <3>4. w.result = r /\ w.sent = x.sent
      BY <1>2, <3>3 DEF States
    <3>5. Propose(w) = [w EXCEPT !.sent = q]
      BY <2>2, <2>4, <3>4 DEF Propose
    <3>6. y = [[w EXCEPT !.sent = q] EXCEPT !.mode = "Observing"]
      BY <3>1, <3>2, <3>3, <3>5
    <3> QED
      BY <1>2, <3>3, <3>6 DEF States
  <2>7. x.sent \in Seq(Nat) /\ (x.sent # <<>> => NewestOf(x.sent) < Leave)
    <3>1. x.sent \in Seq(Nat)
      BY <1>2, StateFacts
    <3>2. x.result.pos.seq \in Nat /\ x.result.pos.seq < Leave
      BY <1>5, SeqBelowLeave
    <3>3. x.sent # <<>> => x.result.pos.seq >= NewestOf(x.sent) /\ NewestOf(x.sent) \in Nat
      <4>1. \A s \in Seq(Nat) : s # <<>> => NewestOf(s) \in Nat
        BY SMT DEF NewestOf
      <4> QED
        BY <1>2, <3>1, <4>1 DEF Ordered
    <3>4. \A a, b \in Nat : a >= b /\ a < Leave => b < Leave
      BY SMT DEF Leave
    <3> QED
      BY <3>1, <3>2, <3>3, <3>4
  <2>8. /\ q \in Seq(Nat) /\ q # <<>> /\ NewestOf(q) = Leave
        /\ \A i \in 1..(Len(q) - 1) : q[i] < q[i + 1]
    <3>1. \A i \in 1..(Len(x.sent) - 1) : x.sent[i] < x.sent[i + 1]
      BY <1>2 DEF Ordered
    <3> QED
      BY <2>2, <2>3, <2>7, <3>1, AppendOrdered
  <2>9. y \in States /\ y.mode = "Observing" /\ y.result = r /\ y.sent = q
    BY <1>2, <2>4, <2>6, <2>8 DEF States, Modes
  <2>10. /\ y.now = x.now /\ y.phase = x.phase /\ y.prevId = x.prevId /\ y.prev = x.prev
         /\ y.recent = x.recent /\ y.prevProposers = x.prevProposers
         /\ y.prevRoundTime = x.prevRoundTime /\ y.establish = x.establish
         /\ y.positions = x.positions /\ y.dead = x.dead /\ y.openStart = x.openStart
         /\ y.acquired = x.acquired /\ y.haveCT = x.haveCT
    BY <1>2, <2>6 DEF States
  <2>11. HasResult(y)
    BY <2>4, <2>9, NotNoResult DEF HasResult
  <2>12. SameRound(x, y)
    BY <1>5, <2>5, <2>9, <2>10, <2>11 DEF SameRound
  <2>13. Recorded(y) /\ Held(y) /\ Counted(y, Peers)
    BY <1>2, <1>5, <2>5, <2>9, <2>10, <2>12, SameRoundKeeps, CountedParts
  <2>14. ~Proposing(y) /\ BowedOut(y.result) /\ y.result.pos.seq >= NewestOf(y.sent)
    <3>1. Leave >= Leave
      BY SMT DEF Leave
    <3> QED
      BY <2>4, <2>8, <2>9, <3>1 DEF Proposing, BowedOut
  <2>15. Ordered(y, k)
    BY <1>2, <1>5, <2>5, <2>8, <2>9, <2>10, <2>11, <2>14 DEF Ordered
  <2> QED
    BY <1>1, <2>9, <2>10, <2>12, <2>13, <2>15 DEF Fit, PeersOK
<1> QED
  BY <1>3, <1>4, <1>5

LEMMA RoundedTime ==
    ASSUME NEW t \in Int
    PROVE  Round(t) \in Int
<1>1. Resolution \in Nat \ {0}
  BY ConsensusRoundAssumption
<1>2. PICK R, s : R = Resolution /\ s = t + R \div 2
  OBVIOUS
<1>3. R \div 2 \in Int
  BY <1>1, <1>2, SMT
<1>4. s \in Int /\ s % R \in Int
  BY <1>1, <1>2, <1>3, SMT
<1>5. s - (s % R) \in Int /\ 0 \in Int
  BY <1>4, SMT
<1> QED
  BY <1>2, <1>5 DEF Round, RoundCloseTime

\* The values of a function on a finite set are finitely many.
LEMMA FiniteImage ==
    ASSUME NEW S, IsFiniteSet(S), NEW f, DOMAIN f = S
    PROVE  IsFiniteSet({f[p] : p \in S})
<1> DEFINE C == [s \in SUBSET S |-> Taken(s)]
           G == {s \in SUBSET S : IsFiniteSet({f[p] : p \in s})}
<1>1. {} \in G
  <2>1. {f[p] : p \in {}} = {}
    OBVIOUS
  <2> QED
    BY <2>1, FS_EmptySet
<1>2. \A s \in SUBSET S : s # {} /\ s \ {C[s]} \in G => s \in G
  <2> SUFFICES ASSUME NEW s \in SUBSET S, s # {}, s \ {C[s]} \in G PROVE s \in G
    OBVIOUS
  <2>1. PICK k : k = Taken(s) /\ k \in s
    BY DEF Taken
  <2>2. IsFiniteSet({f[p] : p \in s \ {k}})
    BY <2>1
  <2>3. {f[p] : p \in s} = {f[p] : p \in s \ {k}} \cup {f[k]}
    BY <2>1
  <2>4. IsFiniteSet({f[p] : p \in s \ {k}} \cup {f[k]})
    <3>1. PICK A, v : A = {f[p] : p \in s \ {k}} /\ v = f[k]
      OBVIOUS
    <3>2. IsFiniteSet(A)
      BY <2>2, <3>1
    <3>3. IsFiniteSet(A \cup {v})
      BY <3>2, FS_AddElement
    <3> QED
      BY <3>1, <3>3
  <2> QED
    BY <2>3, <2>4
<1>3. Chooses(C, S)
  BY TakenChooses
<1> HIDE DEF G, C
<1>4. \A s \in SUBSET S : s \in G
  BY <1>1, <1>2, <1>3, SubsetInduction, SMT
<1> QED
  BY <1>4 DEF G

\* With positions to count, the close times that have votes.
LEMMA CloseTimeVotesOK ==
    ASSUME NEW x \in States, HasResult(x), DOMAIN x.positions # {}
    PROVE  /\ DOMAIN CloseTimeVotes(x) # {} /\ DOMAIN CloseTimeVotes(x) \in SUBSET Int
           /\ IsFiniteSet(DOMAIN CloseTimeVotes(x))
           /\ \A t \in DOMAIN CloseTimeVotes(x) : CloseTimeVotes(x)[t] \in Int
<1> DEFINE P == DOMAIN x.positions
           at == [p \in P |-> Round(x.positions[p].ct)]
           ours == IF Proposing(x) THEN {Round(x.result.pos.ct)} ELSE {}
           times == {at[p] : p \in P} \cup ours
           V == CloseTimeVotes(x)
<1>1. DOMAIN V = times
  BY DEF CloseTimeVotes
<1>2. P \subseteq Peers /\ IsFiniteSet(P)
  BY PositionFacts, FinitePeers
<1>3. \A p \in P : at[p] \in Int
  <2>1. \A q \in Props : q.ct \in Int
    <3>1. \A q \in Props : q.ct \in Nat
      BY DEF Props
    <3> QED
      BY <3>1, SMT
  <2> QED
    BY <2>1, PositionFacts, RoundedTime
<1>4. Round(x.result.pos.ct) \in Int
  <2>1. x.result.pos \in OwnPositions
    BY ResultFacts
  <2> QED
    BY <2>1, RoundedTime DEF OwnPositions
<1>5. IsFiniteSet(times)
  <2>1. IsFiniteSet({at[p] : p \in P})
    <3>1. DOMAIN at = P
      OBVIOUS
    <3> HIDE DEF at, P
    <3> QED
      BY <1>2, <3>1, FiniteImage
  <2>2. IsFiniteSet(ours)
    BY FS_EmptySet, FS_Singleton
  <2> HIDE DEF at, P, ours
  <2> QED
    BY <2>1, <2>2, FS_Union
<1>6. times # {} /\ times \in SUBSET Int
  BY <1>3, <1>4
<1>7. ASSUME NEW t \in times PROVE V[t] \in Int
  <2>1. V[t] = Cardinality({p \in P : Round(x.positions[p].ct) = t})
                 + Bit(Proposing(x) /\ Round(x.result.pos.ct) = t)
    BY DEF CloseTimeVotes
  <2>2. PICK T : T = {p \in P : Round(x.positions[p].ct) = t}
    OBVIOUS
  <2>3. Cardinality(T) \in Nat
    BY <1>2, <2>2, FinitePeers
  <2>4. PICK b : b = Bit(Proposing(x) /\ Round(x.result.pos.ct) = t)
    OBVIOUS
  <2>5. b \in Int
    BY <2>4, SMT DEF Bit
  <2>6. Cardinality(T) + b \in Int
    BY <2>3, <2>5, SMT
  <2> QED
    BY <2>1, <2>2, <2>4, <2>6
<1> HIDE DEF V, times
<1> QED
  BY <1>1, <1>5, <1>6, <1>7 DEF V

CloseTimes == [ct : Int, have : BOOLEAN, state : AvalancheStates]

LEMMA CloseTimeOK ==
    ASSUME NEW x \in States, HasResult(x)
    PROVE  /\ CloseTimeConsensus(x) \in CloseTimes
           /\ DOMAIN x.positions = {} => CloseTimeConsensus(x).have
<1> DEFINE V == CloseTimeVotes(x)
           state == NeededState(x.ctState, x.percent, 0, 0)
           n == Cardinality(DOMAIN x.positions) + Bit(Proposing(x))
           best == Max({V[t] : t \in DOMAIN V})
           passes == best >= ParticipantsNeeded(n, AvalancheCutoffs[state].pct)
           have == passes /\ best >= ParticipantsNeeded(n, AvCtConsensusPct)
           top == Max({t \in DOMAIN V : V[t] = best})
           y == CloseTimeConsensus(x)
<1>1. x.ctState \in AvalancheStates /\ state \in AvalancheStates
  BY StateFacts, NextAvalancheState
<1>2. CASE DOMAIN x.positions = {}
  <2>1. y = [ct |-> Round(x.result.pos.ct), have |-> TRUE, state |-> x.ctState]
    BY <1>2 DEF CloseTimeConsensus, CloseTimeOf
  <2>2. Round(x.result.pos.ct) \in Int
    <3>1. x.result.pos \in OwnPositions
      BY ResultFacts
    <3> QED
      BY <3>1, RoundedTime DEF OwnPositions
  <2>3. PICK a, b : a = Round(x.result.pos.ct) /\ b = TRUE
    OBVIOUS
  <2> HIDE DEF y
  <2>4. y = [ct |-> a, have |-> b, state |-> x.ctState] /\ a \in Int /\ b \in BOOLEAN
    BY <2>1, <2>2, <2>3
  <2>5. y \in CloseTimes /\ y.have = b
    BY <1>1, <2>4 DEF CloseTimes
  <2>6. y \in CloseTimes /\ y.have
    BY <2>3, <2>5
  <2> QED
    BY <2>6 DEF y
<1>3. CASE DOMAIN x.positions # {}
  <2>1. y = [ct |-> IF passes THEN top ELSE 0, have |-> have, state |-> state]
    BY <1>3 DEF CloseTimeConsensus, CloseTimeOf
  <2>2. /\ DOMAIN V # {} /\ DOMAIN V \in SUBSET Int /\ IsFiniteSet(DOMAIN V)
        /\ \A t \in DOMAIN V : V[t] \in Int
    BY <1>3, CloseTimeVotesOK
  <2> HIDE DEF V
  <2>3. PICK B : B = {V[t] : t \in DOMAIN V}
    OBVIOUS
  <2>4. B \in SUBSET Int /\ IsFiniteSet(B) /\ B # {}
    BY <2>2, <2>3, FiniteImage
  <2>5. best \in B
    BY <2>3, <2>4, MaxOfFinite
  <2> HIDE DEF best
  <2>6. PICK T : T = {t \in DOMAIN V : V[t] = best}
    OBVIOUS
  <2>7. T # {} /\ T \in SUBSET Int /\ IsFiniteSet(T)
    <3>1. T # {} /\ T \subseteq DOMAIN V
      BY <2>3, <2>5, <2>6
    <3> QED
      BY <2>2, <3>1, FS_Subset
  <2>8. top \in Int
    BY <2>6, <2>7, MaxOfFinite
  <2>9. have \in BOOLEAN /\ 0 \in Int
    BY SMT
  <2> HIDE DEF top, have, passes, state, y
  <2>10. PICK a : a = IF passes THEN top ELSE 0
    OBVIOUS
  <2>11. a \in Int
    BY <2>8, <2>9, <2>10
  <2>12. y = [ct |-> a, have |-> have, state |-> state]
    BY <2>1, <2>10
  <2>13. y \in CloseTimes
    BY <1>1, <2>9, <2>11, <2>12 DEF CloseTimes
  <2> QED
    BY <1>3, <2>13 DEF y
<1> QED
  BY <1>2, <1>3

LEMMA CountedFor ==
    ASSUME NEW x, NEW W, NEW V, Counted(x, W), Voters(x) \cap V \subseteq W
    PROVE  Counted(x, V)
<1>1. \A t, d : BallotOK(x, W, t, d) => BallotOK(x, V, t, d)
  BY DEF BallotOK
<1> QED
  BY <1>1 DEF Counted

\* Our position changes in disputes only, and our votes follow it.
Follows(x, y) ==
    /\ y.result.compares = x.result.compares
    /\ DOMAIN y.result.disputes = DOMAIN x.result.disputes
    /\ \A t \in DOMAIN x.result.disputes :
          /\ y.result.disputes[t].votes = x.result.disputes[t].votes
          /\ y.result.disputes[t].our = (t \in y.result.txns)
    /\ \A t \in Txs \ DOMAIN x.result.disputes : t \in y.result.txns <=> t \in x.result.txns

LEMMA CountedFollows ==
    ASSUME NEW x, NEW y, HasResult(x), Counted(x, Peers), y.positions = x.positions,
           x.acquired \subseteq y.acquired, Voters(x) \subseteq Peers, Follows(x, y)
    PROVE  Counted(y, Voters(x))
<1>1. Compared(y)
  <2> SUFFICES ASSUME NEW o \in y.result.compares, NEW t \in Txs,
                      (t \in y.result.txns) # (t \in o), t \notin DOMAIN x.result.disputes
               PROVE  FALSE
    BY DEF Compared, Follows
  <2>1. t \in y.result.txns <=> t \in x.result.txns
    BY DEF Follows
  <2>2. (t \in x.result.txns) # (t \in o)
    BY <2>1, SMT
  <2>3. o \in x.result.compares
    BY DEF Follows
  <2> QED
    BY <2>2, <2>3 DEF Counted, Compared
<1>2. \A p \in Voters(y) \cap Voters(x) : y.positions[p].set \in y.result.compares
  BY DEF Counted, Follows
<1>3. ASSUME NEW t \in DOMAIN x.result.disputes
      PROVE  BallotOK(y, Voters(x), t, y.result.disputes[t])
  <2>1. PICK d, e : d = x.result.disputes[t] /\ e = y.result.disputes[t]
    OBVIOUS
  <2>2. BallotOK(x, Peers, t, d)
    BY <2>1 DEF Counted
  <2>3. e.votes = d.votes /\ e.our = (t \in y.result.txns)
    BY <2>1 DEF Follows
  <2>4. BallotOK(y, Voters(x), t, e)
    BY <2>2, <2>3 DEF BallotOK
  <2> QED
    BY <2>1, <2>4
<1> QED
  BY <1>1, <1>2, <1>3 DEF Counted, Follows

\* The votes that follow a decision on the disputes.
Decided(x, new) ==
    /\ new \in PartialFns(Txs, Ballots) /\ DOMAIN new = DOMAIN x.result.disputes
    /\ \A t \in DOMAIN new : /\ new[t] \in Ballots /\ new[t].our \in BOOLEAN
                             /\ new[t].votes = x.result.disputes[t].votes

LEMMA VoteAnewOK ==
    ASSUME NEW x \in States, HasResult(x)
    PROVE  Decided(x, VoteAnew(x))
<1> DEFINE D == x.result.disputes
           new == VoteAnew(x)
<1>1. DOMAIN D \in SUBSET Txs /\ \A t \in DOMAIN D : D[t] \in Ballots
  BY ResultFacts
<1>2. DOMAIN new = DOMAIN D /\ \A t \in DOMAIN D : new[t] = UpdateVote(D[t], x.percent, Proposing(x))
  BY DEF VoteAnew
<1>3. \A t \in DOMAIN D : new[t] \in Ballots /\ new[t].votes = D[t].votes
  <2> SUFFICES ASSUME NEW t \in DOMAIN D PROVE new[t] \in Ballots /\ new[t].votes = D[t].votes
    OBVIOUS
  <2>1. PICK d, own : d = D[t] /\ own = Proposing(x)
    OBVIOUS
  <2>2. d \in Ballots /\ new[t] = UpdateVote(d, x.percent, own)
    BY <1>1, <1>2, <2>1
  <2>3. UpdateVote(d, x.percent, own) \in Ballots /\ UpdateVote(d, x.percent, own).votes = d.votes
    BY <2>2, BallotUpdated
  <2> HIDE DEF new
  <2> QED
    BY <2>1, <2>2, <2>3
<1>4. new \in [DOMAIN D -> Ballots]
  BY <1>1, BallotUpdated DEF VoteAnew
<1>5. \A d \in Ballots : d.our \in BOOLEAN
  BY DEF Ballots, BallotShapes
<1> HIDE DEF new
<1>6. new \in PartialFns(Txs, Ballots)
  BY <1>1, <1>4, PartialFnOver
<1> QED
  BY <1>2, <1>3, <1>5, <1>6 DEF Decided, new

Flipped(x, new) == {t \in DOMAIN x.result.disputes : new[t].our # x.result.disputes[t].our}
NewSet(x, new) ==
    (x.result.txns \ Flipped(x, new)) \cup {t \in Flipped(x, new) : new[t].our}

LEMMA NewSetOK ==
    ASSUME NEW x \in States, HasResult(x), Counted(x, Peers), NEW new, Decided(x, new)
    PROVE  /\ NewSet(x, new) \in SUBSET Txs
           /\ \A t \in DOMAIN new : new[t].our = (t \in NewSet(x, new))
           /\ \A t \in Txs \ DOMAIN new : t \in NewSet(x, new) <=> t \in x.result.txns
           /\ Flipped(x, new) = {} => NewSet(x, new) = x.result.txns
<1> DEFINE F == Flipped(x, new)
           N == NewSet(x, new)
           D == x.result.disputes
<1>1. x.result.txns \in SUBSET Txs /\ DOMAIN D \subseteq Txs /\ F \subseteq DOMAIN D /\ DOMAIN new = DOMAIN D
  BY ResultFacts DEF Flipped, Decided
<1>2. N \in SUBSET Txs /\ (\A t \in Txs \ DOMAIN new : t \in N <=> t \in x.result.txns)
        /\ (F = {} => N = x.result.txns)
  BY <1>1 DEF NewSet
<1>3. ASSUME NEW t \in DOMAIN new PROVE new[t].our = (t \in N)
  <2>1. PICK a, b : a = new[t].our /\ b = D[t].our
    OBVIOUS
  <2>2. a \in BOOLEAN
    BY <2>1 DEF Decided
  <2>3. b = (t \in x.result.txns)
    BY <1>1, <2>1 DEF Counted, BallotOK
  <2>4. CASE t \in F
    <3>1. t \in N <=> a
      BY <2>1, <2>4 DEF NewSet
    <3> QED
      BY <2>1, <2>2, <3>1, SMT
  <2>5. CASE t \notin F
    <3>1. a = b
      BY <1>1, <2>1, <2>5 DEF Flipped
    <3>2. (t \in N) <=> (t \in x.result.txns)
      BY <2>5 DEF NewSet
    <3> QED
      BY <2>1, <2>2, <2>3, <3>1, <3>2, SMTT(30)
  <2> QED
    BY <2>4, <2>5
<1> QED
  BY <1>2, <1>3

\* The disputes and the close time are decided; the position still stands.
DecidedTo(x, y, new, ct) ==
    /\ y \in States /\ HasResult(y) /\ y.result.disputes = new
    /\ y.result.txns = x.result.txns /\ y.result.compares = x.result.compares
    /\ y.result.pos = x.result.pos /\ y.result.start = x.result.start
    /\ y.haveCT = ct.have /\ y.mode = x.mode /\ y.acquired = x.acquired /\ y.sent = x.sent
    /\ SameRound(x, y)

LEMMA DecidedState ==
    ASSUME NEW x \in States, HasResult(x), NEW new, Decided(x, new), NEW ct \in CloseTimes
    PROVE  DecidedTo(x, [x EXCEPT !.result.disputes = new, !.haveCT = ct.have,
                                  !.ctState = ct.state], new, ct)
<1>1. PICK r, y, h, a : /\ r = [x.result EXCEPT !.disputes = new] /\ h = ct.have /\ a = ct.state
                        /\ y = [x EXCEPT !.result.disputes = new, !.haveCT = h, !.ctState = a]
  OBVIOUS
<1>2. h \in BOOLEAN /\ a \in AvalancheStates
  BY <1>1 DEF CloseTimes
<1>3. x.result \in Results /\ new \in PartialFns(Txs, Ballots)
  BY ResultFacts DEF Decided
<1>4. /\ r \in Results /\ r.disputes = new /\ r.txns = x.result.txns
      /\ r.compares = x.result.compares /\ r.pos = x.result.pos /\ r.start = x.result.start
  BY <1>1, <1>3 DEF Results
<1>5. y = [x EXCEPT !.result = r, !.haveCT = h, !.ctState = a]
  BY <1>1 DEF States
<1>6. y \in States /\ y.result = r /\ y.haveCT = h
  BY <1>2, <1>4, <1>5 DEF States
<1>7. /\ y.now = x.now /\ y.phase = x.phase /\ y.prevId = x.prevId /\ y.prev = x.prev
      /\ y.recent = x.recent /\ y.prevProposers = x.prevProposers
      /\ y.prevRoundTime = x.prevRoundTime /\ y.establish = x.establish
      /\ y.positions = x.positions /\ y.dead = x.dead /\ y.openStart = x.openStart
      /\ y.mode = x.mode /\ y.acquired = x.acquired /\ y.sent = x.sent
  BY <1>5 DEF States
<1>8. HasResult(y)
  BY <1>4, <1>6, NotNoResult DEF HasResult
<1>9. SameRound(x, y)
  BY <1>4, <1>6, <1>7, <1>8 DEF SameRound
<1>10. DecidedTo(x, y, new, ct)
  BY <1>1, <1>4, <1>6, <1>7, <1>8, <1>9 DEF DecidedTo
<1> QED
  BY <1>1, <1>10

\* The position moves to the set.
MovedTo(x, y, set, o) ==
    /\ y \in States /\ HasResult(y) /\ y.result.disputes = x.result.disputes
    /\ y.result.txns = set /\ y.result.compares = x.result.compares
    /\ y.result.pos = o /\ y.result.start = x.result.start
    /\ y.haveCT = x.haveCT /\ y.mode = x.mode /\ y.sent = x.sent
    /\ y.acquired = x.acquired \cup {set}
    /\ SameRound(x, y)
Moved(x, set, o) ==
    [x EXCEPT !.result.txns = set, !.result.pos = o, !.acquired = x.acquired \cup {set}]

LEMMA MovedState ==
    ASSUME NEW x \in States, HasResult(x), NEW set \in SUBSET Txs, NEW o \in OwnPositions
    PROVE  MovedTo(x, Moved(x, set, o), set, o)
<1>1. PICK r, y, A : /\ r = [x.result EXCEPT !.txns = set, !.pos = o]
                     /\ y = Moved(x, set, o) /\ A = x.acquired \cup {set}
  OBVIOUS
<1>2. A \in SUBSET SUBSET Txs
  BY <1>1, PositionFacts
<1>3. x.result \in Results
  BY ResultFacts
<1>4. /\ r \in Results /\ r.disputes = x.result.disputes /\ r.txns = set
      /\ r.compares = x.result.compares /\ r.pos = o /\ r.start = x.result.start
  BY <1>1, <1>3 DEF Results
<1>5. y = [x EXCEPT !.result = r, !.acquired = A]
  BY <1>1 DEF States, Moved
<1>6. y \in States /\ y.result = r /\ y.acquired = A
  BY <1>2, <1>4, <1>5 DEF States
<1>7. /\ y.now = x.now /\ y.phase = x.phase /\ y.prevId = x.prevId /\ y.prev = x.prev
      /\ y.recent = x.recent /\ y.prevProposers = x.prevProposers
      /\ y.prevRoundTime = x.prevRoundTime /\ y.establish = x.establish
      /\ y.positions = x.positions /\ y.dead = x.dead /\ y.openStart = x.openStart
      /\ y.mode = x.mode /\ y.haveCT = x.haveCT /\ y.sent = x.sent
  BY <1>5 DEF States
<1>8. HasResult(y)
  BY <1>4, <1>6, NotNoResult DEF HasResult
<1>9. SameRound(x, y)
  BY <1>4, <1>6, <1>7, <1>8 DEF SameRound
<1>10. MovedTo(x, y, set, o)
  BY <1>1, <1>4, <1>6, <1>7, <1>8, <1>9 DEF MovedTo
<1> QED
  BY <1>1, <1>10

\* A step of our own position, and what it makes of the close time.
OwnStep(x, y, have) == Fit(y, 1) /\ SameRound(x, y) /\ HasResult(y) /\ y.haveCT = have

LEMMA StandsOK ==
    ASSUME NEW x, Fit(x, 0), HasResult(x), NEW new, Decided(x, new), NEW ct,
           Flipped(x, new) = {}, NEW y, DecidedTo(x, y, new, ct)
    PROVE  OwnStep(x, y, ct.have)
<1>1. x \in States /\ Held(x) /\ Counted(x, Peers) /\ Recorded(x) /\ Ordered(x, 0)
  BY DEF Fit, PeersOK
<1>2. Follows(x, y)
  <2>1. y.result.txns = NewSet(x, new)
    BY <1>1, NewSetOK DEF DecidedTo
  <2>2. y.result.disputes = new /\ y.result.compares = x.result.compares
    BY DEF DecidedTo
  <2>3. /\ DOMAIN new = DOMAIN x.result.disputes
        /\ \A t \in DOMAIN x.result.disputes : new[t].votes = x.result.disputes[t].votes
    BY DEF Decided
  <2>4. /\ \A t \in DOMAIN new : new[t].our = (t \in NewSet(x, new))
        /\ \A t \in Txs \ DOMAIN new : t \in NewSet(x, new) <=> t \in x.result.txns
    BY <1>1, NewSetOK
  <2> QED
    BY <2>1, <2>2, <2>3, <2>4 DEF Follows
<1>3. Voters(x) \subseteq Peers
  BY <1>1, PositionFacts
<1>4. y.positions = x.positions /\ y.acquired = x.acquired
  BY DEF DecidedTo, SameRound
<1>5. Counted(y, Peers)
  <2>1. Counted(y, Voters(x))
    BY <1>1, <1>2, <1>3, <1>4, CountedFollows
  <2>2. Voters(y) \cap Peers \subseteq Voters(x)
    BY <1>4 DEF Voters
  <2> QED
    BY <2>1, <2>2, CountedFor
<1>6. Recorded(y) /\ Held(y)
  BY <1>1, SameRoundKeeps DEF DecidedTo
<1>7. Ordered(y, 1)
  <2>1. BowedOut(x.result) \/ x.result.pos.seq <= x.now - x.result.start + 1
    <3>1. CASE ~BowedOut(x.result)
      <4>1. PICK a, b, n : a = x.result.pos.seq /\ b = x.result.start /\ n = x.now
        OBVIOUS
      <4>2. a \in Nat /\ b \in Nat /\ n \in Nat /\ a <= n - b + 0
        <5>1. 0 \in {0, 1}
          OBVIOUS
        <5> QED
          BY <3>1, <4>1, <5>1, SeqBelowLeave
      <4>3. a <= n - b + 1
        BY <4>2, SMT
      <4> QED
        BY <4>1, <4>3
    <3> QED
      BY <3>1
  <2> QED
    BY <1>1, <2>1 DEF Ordered, DecidedTo, SameRound, BowedOut, Proposing
<1> QED
  BY <1>5, <1>6, <1>7 DEF OwnStep, Fit, PeersOK, DecidedTo

\* The number of the next position; one that bowed out keeps its own.
NextSeq(n) == IF n = Leave THEN Leave ELSE n + 1

LEMMA MovedOrdered ==
    ASSUME NEW x, Fit(x, 0), HasResult(x), NEW y, HasResult(y), SameRound(x, y),
           y.mode = x.mode, y.sent = x.sent,
           y.result.pos.seq = NextSeq(x.result.pos.seq)
    PROVE  /\ Ordered(y, 1)
           /\ y.sent # <<>> /\ ~BowedOut(y.result) => NewestOf(y.sent) < y.result.pos.seq
<1>1. x \in States /\ Ordered(x, 0)
  BY DEF Fit, PeersOK
<1>2. PICK a, b, n, q : /\ a = x.result.pos.seq /\ b = x.result.start /\ n = x.now
                        /\ q = x.sent
  OBVIOUS
<1>3. /\ q \in Seq(Nat) /\ (q # <<>> => NewestOf(q) \in Nat /\ a >= NewestOf(q))
  <2>1. q \in Seq(Nat)
    BY <1>1, <1>2, StateFacts
  <2>2. \A s \in Seq(Nat) : s # <<>> => NewestOf(s) \in Nat
    BY SMT DEF NewestOf
  <2> QED
    BY <1>1, <1>2, <2>1, <2>2 DEF Ordered
<1>4. CASE BowedOut(x.result)
  <2>1. BowedOut(y.result) /\ y.result.pos.seq = x.result.pos.seq
    BY <1>4 DEF BowedOut, NextSeq
  <2> QED
    BY <1>1, <1>4, <2>1 DEF Ordered, SameRound, Proposing
<1>5. CASE ~BowedOut(x.result)
  <2>1. a \in Nat /\ a + 1 < Leave /\ b \in Nat /\ n \in Nat /\ a <= n - b + 0
    <3>1. 0 \in {0, 1}
      OBVIOUS
    <3> QED
      BY <1>2, <1>5, <3>1, SeqBelowLeave
  <2>2. y.result.pos.seq = a + 1
    BY <1>2, <1>5 DEF BowedOut, NextSeq
  <2>3. a + 1 # Leave /\ a + 1 <= n - b + 1
    BY <2>1, SMT DEF Leave
  <2>4. q # <<>> => NewestOf(q) < a + 1 /\ a + 1 >= NewestOf(q)
    BY <1>3, <2>1, SMT
  <2>5. ~BowedOut(y.result) /\ y.result.pos.seq <= y.now - y.result.start + 1
    BY <1>2, <2>2, <2>3 DEF BowedOut, SameRound
  <2>6. y.sent # <<>> => y.result.pos.seq >= NewestOf(y.sent) /\ NewestOf(y.sent) < y.result.pos.seq
    BY <1>2, <2>2, <2>4
  <2> QED
    BY <1>1, <2>5, <2>6 DEF Ordered, SameRound
<1> QED
  BY <1>4, <1>5

LEMMA ProposeUnlessOutOK ==
    ASSUME NEW x, Fit(x, 1), HasResult(x),
           x.sent # <<>> /\ ~BowedOut(x.result) => NewestOf(x.sent) < x.result.pos.seq
    PROVE  OwnStep(x, ProposeUnlessOut(x), x.haveCT)
<1>1. PICK y : y = ProposeUnlessOut(x)
  OBVIOUS
<1>2. CASE Proposing(x) /\ ~BowedOut(x.result)
  <2>1. y = Propose(x)
    BY <1>1, <1>2 DEF ProposeUnlessOut
  <2>2. SentMore(x, y)
    BY <2>1, ProposeOK DEF Fit, PeersOK
  <2>3. Fit(y, 1) /\ HasResult(y)
    BY <1>2, <2>2, SentKeeps
  <2>4. SameRound(x, y)
    BY <2>2, <2>3 DEF SentMore, SameRound
  <2> QED
    BY <1>1, <2>2, <2>3, <2>4 DEF OwnStep, SentMore
<1>3. CASE ~(Proposing(x) /\ ~BowedOut(x.result))
  <2>1. y = x
    BY <1>1, <1>3 DEF ProposeUnlessOut
  <2>2. SameRound(x, x)
    BY DEF SameRound
  <2> QED
    BY <1>1, <2>1, <2>2 DEF OwnStep
<1> QED
  BY <1>2, <1>3

\* The votes of the peers on the set.
TakeAll(x, set) == FoldSet(LAMBDA p, w : UpdateDisputes(w, p, set), x, PeersOn(x, set))

\* Our position moves: the votes on the new set are taken if it was not known.
LEMMA MovesOK ==
    ASSUME NEW x, Fit(x, 0), HasResult(x), NEW new, Decided(x, new), NEW ct \in CloseTimes,
           NEW y, DecidedTo(x, y, new, ct)
    PROVE  OwnStep(x, ChangePosition(y, NewSet(x, new), ct.ct), ct.have)
<1>1. x \in States /\ Held(x) /\ Counted(x, Peers) /\ Recorded(x) /\ Ordered(x, 0)
  BY DEF Fit, PeersOK
<1>2. PICK set, m : set = NewSet(x, new) /\ m = NextSeq(y.result.pos.seq)
  OBVIOUS
<1>3. PICK o : o = [set |-> set, ct |-> ct.ct, seen |-> y.now, seq |-> m]
  OBVIOUS
<1>4. PICK u : u = Moved(y, set, o)
  OBVIOUS
<1>5. y \in States /\ HasResult(y) /\ y.result.pos = x.result.pos
  BY DEF DecidedTo
<1>6. set \in SUBSET Txs
  BY <1>1, <1>2, NewSetOK
<1>7. m \in Nat
  <2>1. y.result.pos \in OwnPositions
    BY <1>5, ResultFacts
  <2>2. y.result.pos.seq \in Nat
    BY <2>1 DEF OwnPositions
  <2>3. \A n \in Nat : NextSeq(n) \in Nat
    BY SMT DEF NextSeq, Leave
  <2> QED
    BY <1>2, <2>2, <2>3
<1>8. o \in OwnPositions /\ o.seq = m
  <2>1. y.now \in Nat /\ ct.ct \in Int
    BY <1>5, StateFacts DEF CloseTimes
  <2> QED
    BY <1>3, <1>6, <1>7, <2>1 DEF OwnPositions
<1>9. MovedTo(y, u, set, o)
  BY <1>4, <1>5, <1>6, <1>8, MovedState
<1>10. PICK w : w = IF set \in y.acquired THEN u ELSE TakeAll(u, set)
  OBVIOUS
<1>11. ChangePosition(y, set, ct.ct) = ProposeUnlessOut(w)
  <2> DEFINE v == [y EXCEPT !.result.txns = set,
                      !.result.pos = [set |-> set, ct |-> ct.ct, seen |-> y.now,
                                      seq |-> IF @.seq = Leave THEN Leave ELSE @.seq + 1],
                      !.acquired = @ \cup {set}]
  <2>1. u = v
    <3>1. m = IF y.result.pos.seq = Leave THEN Leave ELSE y.result.pos.seq + 1
      BY <1>2 DEF NextSeq
    <3> QED
      BY <1>3, <1>4, <1>5, <3>1 DEF Moved, States
  <2>2. ChangePosition(y, set, ct.ct)
          = ProposeUnlessOut(IF set \in y.acquired THEN v ELSE TakeAll(v, set))
    BY DEF ChangePosition, TakeAll
  <2> HIDE DEF v
  <2> QED
    BY <1>10, <2>1, <2>2
<1>12. u \in States /\ HasResult(u) /\ SameRound(x, u) /\ u.haveCT = ct.have
  BY <1>9, SameRoundTwice DEF MovedTo, DecidedTo
<1>13. Follows(x, u)
  <2>1. u.result.txns = set /\ u.result.disputes = new /\ u.result.compares = x.result.compares
    BY <1>9 DEF MovedTo, DecidedTo
  <2>2. /\ DOMAIN new = DOMAIN x.result.disputes
        /\ \A t \in DOMAIN x.result.disputes : new[t].votes = x.result.disputes[t].votes
    BY DEF Decided
  <2>3. /\ \A t \in DOMAIN new : new[t].our = (t \in set)
        /\ \A t \in Txs \ DOMAIN new : t \in set <=> t \in x.result.txns
    BY <1>1, <1>2, NewSetOK
  <2> QED
    BY <2>1, <2>2, <2>3 DEF Follows
<1>14. /\ u.positions = x.positions /\ u.acquired = x.acquired \cup {set}
       /\ y.acquired = x.acquired
  BY <1>9 DEF MovedTo, DecidedTo, SameRound
<1>15. Counted(u, Voters(x))
  <2>1. x.acquired \subseteq u.acquired /\ Voters(x) \subseteq Peers
    BY <1>1, <1>14, PositionFacts
  <2> QED
    BY <1>1, <1>13, <1>14, <2>1, CountedFollows
<1>16. /\ w \in States /\ HasResult(w) /\ Kept(u, w) /\ w.positions = u.positions
       /\ w.dead = u.dead /\ Counted(w, Peers)
  <2>1. CASE set \in y.acquired
    <3>1. w = u
      BY <1>10, <2>1
    <3>2. Voters(u) \cap Peers \subseteq Voters(x)
      BY <1>14, <2>1 DEF Voters
    <3>3. Counted(u, Peers)
      BY <1>15, <3>2, CountedFor
    <3> QED
      BY <1>12, <3>1, <3>3, KeptSame
  <2>2. CASE set \notin y.acquired
    <3>1. w = FoldSet(LAMBDA p, y1 : UpdateDisputes(y1, p, set), u, PeersOn(u, set))
      BY <1>10, <2>2 DEF TakeAll
    <3>2. Voters(u) \cap (Peers \ PeersOn(u, set)) \subseteq Voters(x)
      BY <1>14 DEF Voters, PeersOn
    <3>3. Counted(u, Peers \ PeersOn(u, set))
      BY <1>15, <3>2, CountedFor
    <3>4. PICK z \in States :
            /\ z = FoldSet(LAMBDA p, y1 : UpdateDisputes(y1, p, set), u, PeersOn(u, set))
            /\ SameSide(u, z) /\ Counted(z, Peers)
      BY <1>12, <3>3, AllVotesTaken
    <3> QED
      BY <3>1, <3>4 DEF SameSide
  <2> QED
    BY <2>1, <2>2
<1>17. Ordered(u, 1) /\ (u.sent # <<>> /\ ~BowedOut(u.result) => NewestOf(u.sent) < u.result.pos.seq)
  <2>1. u.mode = x.mode /\ u.sent = x.sent /\ u.result.pos.seq = NextSeq(x.result.pos.seq)
    BY <1>2, <1>5, <1>8, <1>9 DEF MovedTo, DecidedTo
  <2> QED
    BY <1>12, <2>1, MovedOrdered
<1>18. Recorded(u) /\ Held(u)
  BY <1>1, <1>12, SameRoundKeeps
<1>19. Fit(w, 1)
  BY <1>16, <1>17, <1>18, KeptOrdered, HeldKept DEF Fit, PeersOK
<1>20. w.sent # <<>> /\ ~BowedOut(w.result) => NewestOf(w.sent) < w.result.pos.seq
  <2>1. w.sent = u.sent /\ w.result.pos = u.result.pos
    BY <1>12, <1>16 DEF Kept
  <2> QED
    BY <1>17, <2>1 DEF BowedOut
<1>21. SameRound(x, w) /\ w.haveCT = ct.have
  <2>1. SameRound(u, w) /\ w.haveCT = u.haveCT
    BY <1>12, <1>16 DEF SameRound, Kept
  <2> QED
    BY <1>12, <2>1, SameRoundTwice
<1>22. OwnStep(w, ProposeUnlessOut(w), w.haveCT)
  BY <1>16, <1>19, <1>20, ProposeUnlessOutOK
<1>23. OwnStep(x, ProposeUnlessOut(w), ct.have)
  BY <1>21, <1>22, SameRoundTwice DEF OwnStep
<1> QED
  BY <1>2, <1>11, <1>23

LEMMA RepositionOK ==
    ASSUME NEW x, Fit(x, 0), HasResult(x), NEW new, Decided(x, new), NEW ct \in CloseTimes
    PROVE  OwnStep(x, Reposition(x, new, ct), ct.have)
<1>1. PICK y : y = [x EXCEPT !.result.disputes = new, !.haveCT = ct.have, !.ctState = ct.state]
  OBVIOUS
<1>2. DecidedTo(x, y, new, ct)
  BY <1>1, DecidedState DEF Fit, PeersOK
<1>3. PICK z : z = Reposition(x, new, ct)
  OBVIOUS
<1>4. \/ z = ChangePosition(y, NewSet(x, new), ct.ct)
      \/ z = y /\ Flipped(x, new) = {}
  BY <1>1, <1>3 DEF Reposition, NewSet, Flipped
<1>5. CASE z = ChangePosition(y, NewSet(x, new), ct.ct)
  BY <1>2, <1>3, <1>5, MovesOK
<1>6. CASE z = y /\ Flipped(x, new) = {}
  BY <1>2, <1>3, <1>6, StandsOK
<1> QED
  BY <1>4, <1>5, <1>6

\* update_our_positions: past it the close time is agreed or a fresh position is held.
LEMMA UpdateOurPositionsOK ==
    ASSUME NEW x, Fit(x, 0), HasResult(x)
    PROVE  /\ Fit(UpdateOurPositions(x), 1) /\ HasResult(UpdateOurPositions(x))
           /\ UpdateOurPositions(x).now = x.now /\ UpdateOurPositions(x).phase = x.phase
           /\ UpdateOurPositions(x).haveCT \/ Fresh(UpdateOurPositions(x))
<1>1. PICK w : w = DropStale(x)
  OBVIOUS
<1>2. /\ PeersStep(x, w)
      /\ \A p \in DOMAIN w.positions :
            ~(w.positions[p].seen <= Larger(0, x.now - Parms.freshness))
  <2>1. PeersOK(x)
    BY DEF Fit
  <2> QED
    BY <1>1, <2>1, DropStaleOK
<1>3. Fit(w, 0) /\ w.now = x.now /\ w.phase = x.phase
  BY <1>2, FitKept
<1>4. w \in States /\ HasResult(w) /\ Held(w)
  BY <1>2 DEF PeersStep, PeersOK, Kept
<1>5. PICK new, ct, y : new = VoteAnew(w) /\ ct = CloseTimeConsensus(w) /\ y = Reposition(w, new, ct)
  OBVIOUS
<1>6. Decided(w, new) /\ ct \in CloseTimes /\ (DOMAIN w.positions = {} => ct.have)
  BY <1>4, <1>5, VoteAnewOK, CloseTimeOK
<1>7. OwnStep(w, y, ct.have)
  BY <1>3, <1>4, <1>5, <1>6, RepositionOK
<1>8. UpdateOurPositions(x) = y
  BY <1>1, <1>5 DEF UpdateOurPositions, UpdateFresh
<1>9. y.haveCT \/ Fresh(y)
  <2> SUFFICES ASSUME ~ct.have PROVE Fresh(y)
    BY <1>7 DEF OwnStep
  <2>1. PICK p \in DOMAIN w.positions : TRUE
    BY <1>6
  <2>2. p \in Peers /\ w.recent[p] # <<>> /\ w.positions[p].seen <= NewestOf(w.recent[p]).seen
    BY <1>4, PositionFacts DEF Held
  <2>3. PICK a, b, n : a = w.positions[p].seen /\ b = NewestOf(w.recent[p]).seen /\ n = x.now
    OBVIOUS
  <2>4. a \in Nat /\ b \in Nat /\ n \in Nat
    <3>1. w.positions[p] \in Props
      BY <1>4, PositionFacts
    <3>2. w.recent[p] \in Seq(Props)
      <4>1. w.recent \in [Peers -> Seq(Props)]
        BY <1>4 DEF States
      <4> QED
        BY <2>2, <4>1
    <3>3. \A q \in Seq(Props) : q # <<>> => NewestOf(q) \in Props
      BY SMT DEF NewestOf
    <3>4. \A q \in Props : q.seen \in Nat
      BY DEF Props
    <3>5. w.now \in Nat
      BY <1>4, StateFacts
    <3> QED
      BY <1>3, <2>2, <2>3, <3>1, <3>2, <3>3, <3>4, <3>5, ZenonT(60)
  <2>5. ~(a <= Larger(0, n - Parms.freshness)) /\ a <= b
    BY <1>2, <2>2, <2>3
  <2>6. Parms.freshness \in Nat
    BY ParmsAssumption DEF ParmsFields
  <2>7. b > n - Parms.freshness
    BY <2>4, <2>5, <2>6, SMTT(30) DEF Larger
  <2>8. Fresh(w)
    BY <1>3, <2>2, <2>3, <2>7 DEF Fresh
  <2> QED
    BY <1>7, <2>8 DEF OwnStep, SameRound, Fresh
<1> QED
  BY <1>3, <1>7, <1>8, <1>9 DEF OwnStep, SameRound

LEMMA FitLater == ASSUME NEW x, Fit(x, 0) PROVE Fit(x, 1)
<1>1. Ordered(x, 0)
  BY DEF Fit
<1>2. ASSUME HasResult(x), ~BowedOut(x.result) PROVE x.result.pos.seq <= x.now - x.result.start + 1
  <2>1. PICK a, b, n : a = x.result.pos.seq /\ b = x.result.start /\ n = x.now
    OBVIOUS
  <2>2. a \in Nat /\ b \in Nat /\ n \in Nat /\ a <= n - b + 0
    <3>1. 0 \in {0, 1}
      OBVIOUS
    <3> QED
      BY <1>2, <2>1, <3>1, SeqBelowLeave
  <2>3. a <= n - b + 1
    BY <2>2, SMT
  <2> QED
    BY <2>1, <2>3
<1>3. Ordered(x, 1)
  BY <1>1, <1>2 DEF Ordered
<1> QED
  BY <1>3 DEF Fit
-----------------------------------------------------------------------------
(* The end of a round.                                                     *)

Verdicts == {"No", "Yes", "MovedOn", "Expired"}

\* check_consensus decides once the wait for missing peers and the hard limit are over.
LEMMA CheckConsensusOK ==
    ASSUME NEW pp, NEW p, NEW a, NEW f, NEW prev \in Nat, NEW time \in Nat, NEW st, NEW own
    PROVE  /\ CheckConsensus(pp, p, a, f, prev, time, st, own) \in Verdicts
           /\ time > Larger(Parms.abandon, prev + Parms.minConsensus)
                => CheckConsensus(pp, p, a, f, prev, time, st, own) # "No"
<1> DEFINE reachedMax == time > Parms.maxConsensus
           R1 == CheckConsensusReached(a, p, own, reachedMax, st)
           R2 == CheckConsensusReached(f, p, FALSE, reachedMax, FALSE)
           late == time > AbandonAfter(prev)
           last == IF R1 THEN "Yes" ELSE IF R2 THEN "MovedOn" ELSE IF late THEN "Expired" ELSE "No"
           early == time <= Parms.minConsensus
           missing == /\ time > Parms.minConsensus /\ p < (pp * 3) \div 4
                      /\ time < prev + Parms.minConsensus
           v == CheckConsensus(pp, p, a, f, prev, time, st, own)
<1>1. v = CASE early -> "No" [] missing -> "No" [] OTHER -> last
  BY DEF CheckConsensus
<1>2. last \in Verdicts /\ (late => last # "No")
  BY DEF Verdicts
<1>3. time > Larger(Parms.abandon, prev + Parms.minConsensus) => ~early /\ ~missing /\ late
  <2>1. /\ Parms.abandon \in Nat /\ Parms.minConsensus \in Nat /\ Parms.maxConsensus \in Nat
        /\ Parms.abandonFactor \in Nat
    BY ParmsAssumption DEF ParmsFields
  <2>2. time > Larger(Parms.abandon, prev + Parms.minConsensus) =>
          /\ time > Parms.abandon /\ ~(time <= Parms.minConsensus)
          /\ ~(time < prev + Parms.minConsensus)
    BY <2>1, SMT DEF Larger
  <2>3. PICK g : g = Larger(prev * Parms.abandonFactor, Parms.maxConsensus)
    OBVIOUS
  <2>4. g \in Int
    <3>1. prev * Parms.abandonFactor \in Int
      BY <2>1, SMT
    <3> QED
      BY <2>1, <2>3, <3>1, SMTT(30) DEF Larger
  <2>5. time > Parms.abandon => time > Smaller(g, Parms.abandon)
    BY <2>1, <2>4, SMT DEF Smaller
  <2> QED
    BY <2>2, <2>3, <2>5 DEF AbandonAfter
<1> HIDE DEF last, late, early, missing, v
<1>4. v = "No" \/ v = last
  BY <1>1, SMT
<1>5. ~early /\ ~missing => v = last
  BY <1>1, SMT
<1>6. "No" \in Verdicts
  BY DEF Verdicts
<1> QED
  BY <1>2, <1>3, <1>4, <1>5, <1>6 DEF v

LEMMA ElapsedOK ==
    ASSUME NEW x, NEW k, Fit(x, k), HasResult(x)
    PROVE  RoundTime(x) \in Nat /\ x.prevRoundTime \in Nat
<1>1. x \in States /\ x.result.start \in 1..x.now
  BY DEF Fit, PeersOK, Ordered
<1>2. x.now \in Nat /\ x.prevRoundTime \in Nat
  BY <1>1, StateFacts
<1>3. x.now - x.result.start \in Nat
  BY <1>1, <1>2, SMT
<1> QED
  BY <1>2, <1>3 DEF RoundTime

\* The state of the result is stored.
Stored(x, s) == [x EXCEPT !.result.state = s]
LEMMA StoredOK ==
    ASSUME NEW x, NEW k, Fit(x, k), HasResult(x), NEW s \in Verdicts
    PROVE  /\ Fit(Stored(x, s), k) /\ SameRound(x, Stored(x, s))
           /\ Stored(x, s).haveCT = x.haveCT
<1>1. PICK r, y : r = [x.result EXCEPT !.state = s] /\ y = Stored(x, s)
  OBVIOUS
<1>2. x \in States /\ Held(x) /\ Counted(x, Peers) /\ Recorded(x) /\ Ordered(x, k)
  BY DEF Fit, PeersOK
<1>3. x.result \in Results
  BY <1>2, ResultFacts
<1>4. /\ r \in Results /\ r.txns = x.result.txns /\ r.compares = x.result.compares
      /\ r.disputes = x.result.disputes /\ r.pos = x.result.pos /\ r.start = x.result.start
  BY <1>1, <1>3 DEF Results, Verdicts
<1>5. y = [x EXCEPT !.result = r]
  BY <1>1, <1>2 DEF Stored, States
<1>6. y \in States /\ y.result = r
  BY <1>2, <1>4, <1>5 DEF States
<1>7. /\ y.now = x.now /\ y.phase = x.phase /\ y.prevId = x.prevId /\ y.prev = x.prev
      /\ y.recent = x.recent /\ y.prevProposers = x.prevProposers
      /\ y.prevRoundTime = x.prevRoundTime /\ y.establish = x.establish
      /\ y.positions = x.positions /\ y.dead = x.dead /\ y.openStart = x.openStart
      /\ y.mode = x.mode /\ y.acquired = x.acquired /\ y.sent = x.sent /\ y.haveCT = x.haveCT
  BY <1>2, <1>5 DEF States
<1>8. HasResult(y)
  BY <1>4, <1>6, NotNoResult DEF HasResult
<1>9. SameRound(x, y)
  BY <1>4, <1>6, <1>7, <1>8 DEF SameRound
<1>10. Recorded(y) /\ Held(y) /\ Counted(y, Peers)
  BY <1>2, <1>4, <1>6, <1>7, <1>9, SameRoundKeeps, CountedParts, ZenonT(60)
<1>11. Ordered(y, k)
  BY <1>2, <1>4, <1>6, <1>7, <1>8 DEF Ordered, BowedOut, Proposing
<1> QED
  BY <1>1, <1>6, <1>7, <1>9, <1>10, <1>11 DEF Fit, PeersOK

\* A round that is accepted, or waits for a close time.
LEMMA AcceptOK ==
    ASSUME NEW x, Fit(x, 1), HasResult(x), x.haveCT \/ Fresh(x)
    PROVE  Fit(Accept(x), 1) /\ Ends(Accept(x))
<1>1. PICK y : y = Accept(x)
  OBVIOUS
<1>2. x \in States /\ Held(x) /\ Counted(x, Peers) /\ Recorded(x) /\ Ordered(x, 1)
  BY DEF Fit, PeersOK
<1>3. CASE ~x.haveCT
  <2>1. y = x
    BY <1>1, <1>3 DEF Accept
  <2> QED
    BY <1>1, <1>3, <2>1 DEF Ends
<1>4. CASE x.haveCT
  <2>1. PICK n, m : n = Cardinality(DOMAIN x.positions) /\ m = RoundTime(x)
    OBVIOUS
  <2>2. n \in Nat /\ m \in Nat
    <3>1. DOMAIN x.positions \in SUBSET Peers
      BY <1>2, PositionFacts
    <3> QED
      BY <2>1, <3>1, FinitePeers, ElapsedOK
  <2>3. y = [x EXCEPT !.prevProposers = n, !.prevRoundTime = m, !.phase = "Accepted"]
    BY <1>1, <1>4, <2>1 DEF Accept
  <2>4. y \in States /\ y.phase = "Accepted"
    BY <1>2, <2>2, <2>3 DEF States
  <2>5. /\ y.now = x.now /\ y.prevId = x.prevId /\ y.recent = x.recent /\ y.mode = x.mode
        /\ y.positions = x.positions /\ y.dead = x.dead
        /\ y.acquired = x.acquired /\ y.sent = x.sent /\ y.result = x.result
    BY <1>2, <2>3 DEF States
  <2>6. Recorded(y)
    BY <1>2, <2>5 DEF Recorded
  <2>7. Held(y)
    BY <1>2, <2>5 DEF Held
  <2>8. Counted(y, Peers)
    BY <1>2, <2>5, CountedSame
  <2>9. Ordered(y, 1)
    BY <1>2, <2>4, <2>5 DEF Ordered, HasResult, Proposing
  <2>10. Ends(y)
    BY <2>4 DEF Ends
  <2> QED
    BY <1>1, <2>4, <2>6, <2>7, <2>8, <2>9, <2>10, ZenonT(60) DEF Fit, PeersOK
<1> QED
  BY <1>3, <1>4

LEMMA SameEnds ==
    ASSUME NEW x, NEW y, SameRound(x, y), HasResult(x), y.haveCT = x.haveCT
    PROVE  /\ Ends(x) => Ends(y)
           /\ x.haveCT \/ Fresh(x) => y.haveCT \/ Fresh(y)
           /\ PastLimit(x) <=> PastLimit(y)
<1>1. RoundTime(y) = RoundTime(x)
  BY DEF SameRound, RoundTime
<1>2. PastLimit(x) <=> PastLimit(y)
  BY <1>1 DEF SameRound, PastLimit, ExpiryAllowed
<1>3. Fresh(x) <=> Fresh(y)
  BY DEF SameRound, Fresh
<1> QED
  BY <1>2, <1>3 DEF Ends, SameRound

\* Past the limit the verdict is not "No", and an expiry is allowed.
LEMMA ConcludeOK ==
    ASSUME NEW x, Fit(x, 1), HasResult(x), x.haveCT \/ Fresh(x), NEW s \in Verdicts,
           PastLimit(x) => s # "No"
    PROVE  Fit(Conclude(x, s), 1) /\ Ends(Conclude(x, s))
<1>1. PICK y, z : y = Stored(x, s) /\ z = Conclude(x, s)
  OBVIOUS
<1>2. Fit(y, 1) /\ SameRound(x, y) /\ y.haveCT = x.haveCT
  BY <1>1, StoredOK
<1>3. HasResult(y) /\ (y.haveCT \/ Fresh(y)) /\ (PastLimit(x) <=> PastLimit(y))
  BY <1>2, SameEnds DEF SameRound
<1>4. \/ z = Accept(y)
      \/ z = Accept(LeaveConsensus(y))
      \/ z = y /\ s \notin {"Yes", "MovedOn"} /\ ~(s = "Expired" /\ ExpiryAllowed(x))
  <2>1. z = CASE s \in {"Yes", "MovedOn"} -> Accept(y)
              [] s = "Expired" /\ ExpiryAllowed(x) -> Accept(LeaveConsensus(y))
              [] OTHER -> y
    BY <1>1 DEF Conclude, Stored
  <2>2. PICK A, B : A = Accept(y) /\ B = Accept(LeaveConsensus(y))
    OBVIOUS
  <2>3. PICK a \in BOOLEAN : a <=> s \in {"Yes", "MovedOn"}
    OBVIOUS
  <2>4. PICK b \in BOOLEAN : b <=> s = "Expired" /\ ExpiryAllowed(x)
    OBVIOUS
  <2>5. z = CASE a -> A [] b -> B [] OTHER -> y
    BY <2>1, <2>2, <2>3, <2>4
  <2>6. z = A \/ z = B \/ (z = y /\ ~a /\ ~b)
    BY <2>5, SMT
  <2> QED
    BY <2>2, <2>3, <2>4, <2>6
<1>5. CASE z = Accept(y)
  BY <1>1, <1>2, <1>3, <1>5, AcceptOK
<1>6. CASE z = Accept(LeaveConsensus(y))
  <2>1. PICK w : w = LeaveConsensus(y)
    OBVIOUS
  <2>2. Fit(w, 1) /\ SameRound(y, w) /\ w.haveCT = y.haveCT
    <3>1. 1 \in {0, 1}
      OBVIOUS
    <3> QED
      BY <1>2, <2>1, <3>1, LeaveConsensusOK
  <2>3. HasResult(w) /\ (w.haveCT \/ Fresh(w))
    BY <1>3, <2>2, SameEnds DEF SameRound
  <2>4. Fit(Accept(w), 1) /\ Ends(Accept(w))
    BY <2>2, <2>3, AcceptOK
  <2> QED
    BY <1>1, <1>6, <2>1, <2>4
<1>7. CASE z = y /\ s \notin {"Yes", "MovedOn"} /\ ~(s = "Expired" /\ ExpiryAllowed(x))
  <2>1. ~PastLimit(y)
    <3> SUFFICES ASSUME PastLimit(x) PROVE FALSE
      BY <1>3
    <3>1. s = "Expired"
      BY <1>7 DEF Verdicts
    <3> QED
      BY <1>7, <3>1 DEF PastLimit
  <2> QED
    BY <1>1, <1>2, <1>7, <2>1 DEF Ends
<1> QED
  BY <1>4, <1>5, <1>6, <1>7

LEMMA PauseOrConcludeOK ==
    ASSUME NEW x, Fit(x, 1), HasResult(x), x.haveCT \/ Fresh(x), NEW e
    PROVE  Fit(PauseOrConclude(x, e), 1) /\ Ends(PauseOrConclude(x, e))
<1>1. PICK s, z : s = ConsensusStateOf(x, e) /\ z = PauseOrConclude(x, e)
  OBVIOUS
<1>2. PICK n, m : n = RoundTime(x) /\ m = x.prevRoundTime
  OBVIOUS
<1>3. n \in Nat /\ m \in Nat
  BY <1>2, ElapsedOK
<1>4. /\ Parms.abandon \in Nat /\ Parms.minConsensus \in Nat /\ Parms.maxConsensus \in Nat
      /\ Parms.maxConsensus <= Parms.abandon
  BY ParmsAssumption DEF ParmsFields
<1>5. s \in Verdicts /\ (PastLimit(x) => s # "No")
  <2>1. \E pp, p, a, f, st, own : s = CheckConsensus(pp, p, a, f, m, n, st, own)
    BY <1>1, <1>2 DEF ConsensusStateOf
  <2>2. s \in Verdicts /\ (n > Larger(Parms.abandon, m + Parms.minConsensus) => s # "No")
    BY <1>3, <2>1, CheckConsensusOK
  <2> QED
    BY <1>2, <2>2 DEF PastLimit
<1>6. CASE e.pause /\ RoundTime(x) <= Parms.maxConsensus
  <2>1. z = x
    BY <1>1, <1>6 DEF PauseOrConclude
  <2>2. ~(n > Larger(Parms.abandon, m + Parms.minConsensus))
    <3>1. n <= Parms.maxConsensus
      BY <1>2, <1>6
    <3> QED
      BY <1>3, <1>4, <3>1, SMTT(30) DEF Larger
  <2>3. ~PastLimit(x)
    BY <1>2, <2>2 DEF PastLimit
  <2> QED
    BY <1>1, <2>1, <2>3 DEF Ends
<1>7. CASE ~(e.pause /\ RoundTime(x) <= Parms.maxConsensus)
  <2>1. z = Conclude(x, s)
    BY <1>1, <1>7 DEF PauseOrConclude
  <2> QED
    BY <1>1, <1>5, <2>1, ConcludeOK
<1> QED
  BY <1>6, <1>7

LEMMA PhaseEstablishOK ==
    ASSUME NEW x, Fit(x, 0), HasResult(x), NEW e
    PROVE  Fit(PhaseEstablish(x, e), 1) /\ Ends(PhaseEstablish(x, e))
<1>1. PICK a, b, g, y, z :
        /\ a = x.unchanged + 1 /\ b = x.establish + 1
        /\ g = (RoundTime(x) * 100) \div Larger(x.prevRoundTime, Parms.avMinConsensus)
        /\ y = [x EXCEPT !.unchanged = a, !.establish = b, !.percent = g]
        /\ z = PhaseEstablish(x, e)
  OBVIOUS
<1>2. x \in States /\ Held(x) /\ Counted(x, Peers) /\ Recorded(x) /\ Ordered(x, 0)
  BY DEF Fit, PeersOK
<1>3. RoundTime(x) \in Nat /\ x.prevRoundTime \in Nat
  BY ElapsedOK
<1>4. /\ Parms.abandon \in Nat /\ Parms.minConsensus \in Nat
      /\ Parms.avMinConsensus \in Nat /\ Parms.avMinConsensus > 0
  BY ParmsAssumption DEF ParmsFields
<1>5. a \in Nat /\ b \in Nat /\ g \in Int
  <2>1. a \in Nat /\ b \in Nat
    <3>1. x.unchanged \in Nat /\ x.establish \in Nat
      BY <1>2, StateFacts
    <3> QED
      BY <1>1, <3>1, SMT
  <2>2. PICK i, j : i = RoundTime(x) * 100 /\ j = Larger(x.prevRoundTime, Parms.avMinConsensus)
    OBVIOUS
  <2>3. i \in Int /\ j \in Int /\ j > 0
    BY <1>3, <1>4, <2>2, SMTT(30) DEF Larger
  <2>4. i \div j \in Int
    BY <2>3, SMT
  <2> QED
    BY <1>1, <2>1, <2>2, <2>4
<1>6. y \in States
  BY <1>1, <1>2, <1>5, ZenonT(60) DEF States
<1>7. /\ y.now = x.now /\ y.phase = x.phase /\ y.prevId = x.prevId /\ y.recent = x.recent
      /\ y.prevRoundTime = x.prevRoundTime /\ y.mode = x.mode
      /\ y.positions = x.positions /\ y.dead = x.dead
      /\ y.acquired = x.acquired /\ y.sent = x.sent /\ y.result = x.result
  BY <1>1, <1>2 DEF States
<1>8. Recorded(y)
  BY <1>2, <1>7 DEF Recorded
<1>9. Held(y)
  BY <1>2, <1>7 DEF Held
<1>10. Counted(y, Peers)
  BY <1>2, <1>7, CountedSame
<1>11. Ordered(y, 0) /\ HasResult(y)
  BY <1>2, <1>7 DEF Ordered, HasResult, Proposing
<1>12. Fit(y, 0)
  BY <1>6, <1>8, <1>9, <1>10, <1>11 DEF Fit, PeersOK
<1>13. z = IF RoundTime(x) < Parms.minConsensus THEN y
           ELSE PauseOrConclude(UpdateOurPositions(y), e)
  BY <1>1 DEF PhaseEstablish
<1>14. CASE RoundTime(x) < Parms.minConsensus
  <2>1. z = y
    BY <1>13, <1>14
  <2>2. RoundTime(y) = RoundTime(x)
    BY <1>7 DEF RoundTime
  <2>3. PICK n, m : n = RoundTime(x) /\ m = x.prevRoundTime
    OBVIOUS
  <2>4. ~(n > Larger(Parms.abandon, m + Parms.minConsensus))
    BY <1>3, <1>4, <1>14, <2>3, SMTT(30) DEF Larger
  <2>5. Ends(y)
    BY <1>7, <2>2, <2>3, <2>4 DEF Ends, PastLimit
  <2> QED
    BY <1>1, <1>12, <2>1, <2>5, FitLater
<1>15. CASE ~(RoundTime(x) < Parms.minConsensus)
  <2>1. PICK w : w = UpdateOurPositions(y)
    OBVIOUS
  <2>2. z = PauseOrConclude(w, e)
    BY <1>13, <1>15, <2>1
  <2>3. Fit(w, 1) /\ HasResult(w) /\ (w.haveCT \/ Fresh(w))
    BY <1>11, <1>12, <2>1, UpdateOurPositionsOK
  <2> QED
    BY <1>1, <2>2, <2>3, PauseOrConcludeOK
<1> QED
  BY <1>14, <1>15

LEMMA PhaseStepOK ==
    ASSUME NEW x, Fit(x, 0), NEW e \in Answers
    PROVE  /\ Fit(PhaseStep(x, e), 1) /\ Ends(PhaseStep(x, e))
           /\ x.phase = "Open" => Fit(PhaseStep(x, e), 0)
<1>1. PICK z : z = PhaseStep(x, e)
  OBVIOUS
<1>2. x.phase \in {"Open", "Establish", "Accepted"}
  BY DEF Fit, PeersOK, States
<1>3. CASE x.phase = "Open"
  <2>1. z = PhaseOpen(x, e)
    BY <1>1, <1>3, SMT DEF PhaseStep
  <2>2. Ends(z) /\ Fit(z, 0)
    BY <1>3, <2>1, PhaseOpenOK
  <2> QED
    BY <1>1, <2>2, FitLater
<1>4. CASE x.phase = "Establish"
  <2>1. z = PhaseEstablish(x, e)
    BY <1>1, <1>4, SMT DEF PhaseStep
  <2>2. HasResult(x)
    BY <1>4 DEF Fit, Ordered
  <2> QED
    BY <1>1, <1>4, <2>1, <2>2, PhaseEstablishOK
<1>5. CASE x.phase = "Accepted"
  <2>1. z = x
    BY <1>1, <1>5, SMTT(30) DEF PhaseStep
  <2> QED
    BY <1>1, <1>5, <2>1, FitLater DEF Ends
<1> QED
  BY <1>2, <1>3, <1>4, <1>5
-----------------------------------------------------------------------------
(* Rounds.                                                                 *)

LEMMA ResetOK ==
    ASSUME NEW x \in States, Recorded(x), x.now \in 1..(Leave - 1), NEW id \in Ledgers,
           NEW ledger \in Ledgers, NEW mode \in Modes, NEW e \in Answers
    PROVE  /\ Fit(Reset(x, id, ledger, mode, e), 0)
           /\ Reset(x, id, ledger, mode, e).phase = "Open"
<1>1. PICK y, z :
        /\ y = [x EXCEPT !.phase = "Open", !.mode = mode, !.prevId = id, !.prev = ledger,
                !.result = NoResult, !.percent = 0, !.ctState = "Init",
                !.haveCT = FALSE, !.openStart = x.now, !.positions = <<>>,
                !.acquired = {}, !.dead = {}, !.sent = <<>>]
        /\ z = PlaybackProposals(y, e.avail)
  OBVIOUS
<1>2. Reset(x, id, ledger, mode, e) = z
  BY <1>1 DEF Reset
<1>3. /\ <<>> \in PartialFns(Peers, Props) /\ <<>> \in Seq(Nat) /\ 0 \in Int /\ x.now \in Nat
      /\ "Init" \in AvalancheStates /\ FALSE \in BOOLEAN /\ NoResult \in Results \cup {NoResult}
      /\ {} \in SUBSET Peers /\ {} \in SUBSET SUBSET Txs
  <2>1. 0 \in Int /\ <<>> \in Seq(Nat)
    BY SMT
  <2> QED
    BY <2>1, EmptyFn, StateFacts DEF AvalancheStates
<1>4. y \in States
  BY <1>1, <1>3 DEF States
<1>5. /\ y.phase = "Open" /\ y.result = NoResult /\ y.positions = <<>> /\ y.sent = <<>>
      /\ y.now = x.now /\ y.recent = x.recent
  BY <1>1 DEF States
<1>6. ~HasResult(y) /\ DOMAIN y.positions = {}
  BY <1>5, EmptyFn DEF HasResult
<1>7. Recorded(y)
  BY <1>5 DEF Recorded
<1>8. Held(y)
  BY <1>6 DEF Held
<1>9. Counted(y, Peers)
  BY <1>6 DEF Counted
<1>10. \A i \in 1..(Len(y.sent) - 1) : y.sent[i] < y.sent[i + 1]
  <2>1. \A q : q = <<>> => \A i \in 1..(Len(q) - 1) : q[i] < q[i + 1]
    BY SMT
  <2> QED
    BY <1>5, <2>1
<1>11. Ordered(y, 0)
  BY <1>5, <1>6, <1>10 DEF Ordered
<1>12. Fit(y, 0) /\ PeersOK(y)
  BY <1>4, <1>7, <1>8, <1>9, <1>11 DEF Fit, PeersOK
<1>13. e.avail \in SUBSET SUBSET Txs
  BY DEF Answers
<1>14. PeersStep(y, z)
  BY <1>1, <1>7, <1>12, <1>13, PlaybackOK
<1> QED
  BY <1>2, <1>5, <1>12, <1>14, FitKept

LEMMA SwitchLedgerOK ==
    ASSUME NEW x, Fit(x, 0), NEW e \in Answers
    PROVE  Fit(SwitchLedger(x, e), 0)
<1>1. PICK y, z : y = Reset(x, e.net, e.net, "SwitchedLedger", e) /\ z = SwitchLedger(x, e)
  OBVIOUS
<1>2. Fit(y, 0) /\ y.phase = "Open"
  <2>1. x \in States /\ Recorded(x) /\ x.now \in 1..(Leave - 1)
    BY DEF Fit, PeersOK, Ordered
  <2>2. e.net \in Ledgers /\ "SwitchedLedger" \in Modes
    BY DEF Answers, Modes
  <2> QED
    BY <1>1, <2>1, <2>2, ResetOK
<1>3. z = y \/ z = PhaseStep(y, e)
  BY <1>1 DEF SwitchLedger, CatchUp
<1>4. CASE z = y
  BY <1>1, <1>2, <1>4
<1>5. CASE z = PhaseStep(y, e)
  BY <1>1, <1>2, <1>5, PhaseStepOK
<1> QED
  BY <1>3, <1>4, <1>5

\* Another ledger id: no position and no vote of the old one stays.
LEMMA FollowLedgerOK ==
    ASSUME NEW x, Fit(x, 0), NEW net \in Ledgers
    PROVE  Fit(FollowLedger(x, net), 0)
<1>1. PICK r, y : /\ r = IF HasResult(x) THEN [x.result EXCEPT !.disputes = <<>>, !.compares = {}]
                                         ELSE x.result
                  /\ y = FollowLedger(x, net)
  OBVIOUS
<1>2. x \in States /\ Recorded(x) /\ Ordered(x, 0)
  BY DEF Fit, PeersOK
<1>3. y = [x EXCEPT !.prevId = net, !.positions = <<>>, !.dead = {}, !.result = r]
  BY <1>1 DEF FollowLedger
<1>4. r \in Results \cup {NoResult} /\ (r = NoResult <=> x.result = NoResult)
  <2>1. CASE HasResult(x)
    <3>1. x.result \in Results /\ r = [x.result EXCEPT !.disputes = <<>>, !.compares = {}]
      BY <1>1, <1>2, <2>1, ResultFacts
    <3>2. r \in Results
      BY <3>1, EmptyFn DEF Results
    <3> QED
      BY <2>1, <3>2, NotNoResult DEF HasResult
  <2>2. CASE ~HasResult(x)
    <3>1. r = x.result
      BY <1>1, <2>2
    <3> QED
      BY <2>2, <3>1 DEF HasResult
  <2> QED
    BY <2>1, <2>2
<1>5. HasResult(x) => /\ r.pos = x.result.pos /\ r.start = x.result.start
                      /\ r.compares = {} /\ DOMAIN r.disputes = {}
  <2> SUFFICES ASSUME HasResult(x)
               PROVE  /\ r.pos = x.result.pos /\ r.start = x.result.start
                      /\ r.compares = {} /\ DOMAIN r.disputes = {}
    OBVIOUS
  <2>1. x.result \in Results /\ r = [x.result EXCEPT !.disputes = <<>>, !.compares = {}]
    BY <1>1, <1>2, ResultFacts
  <2>2. /\ r.pos = x.result.pos /\ r.start = x.result.start
        /\ r.compares = {} /\ r.disputes = <<>>
    BY <2>1 DEF Results
  <2> QED
    BY <2>2, EmptyFn
<1>6. y \in States
  <2>1. <<>> \in PartialFns(Peers, Props)
    BY EmptyFn
  <2> QED
    BY <1>2, <1>3, <1>4, <2>1 DEF States
<1>7. /\ y.now = x.now /\ y.phase = x.phase /\ y.recent = x.recent /\ y.mode = x.mode
      /\ y.sent = x.sent /\ y.positions = <<>> /\ y.result = r
  BY <1>2, <1>3 DEF States
<1>8. (HasResult(y) <=> HasResult(x)) /\ DOMAIN y.positions = {}
  BY <1>4, <1>7, EmptyFn DEF HasResult
<1>9. Recorded(y)
  BY <1>2, <1>7 DEF Recorded
<1>10. Held(y)
  BY <1>8 DEF Held
<1>11. Counted(y, Peers)
  BY <1>5, <1>7, <1>8 DEF Counted, Compared, Voters
<1>12. Ordered(y, 0)
  BY <1>2, <1>5, <1>7, <1>8 DEF Ordered, BowedOut, Proposing
<1> QED
  BY <1>1, <1>6, <1>9, <1>10, <1>11, <1>12, ZenonT(60) DEF Fit, PeersOK

LEMMA TakeLedgerIdOK ==
    ASSUME NEW x, Fit(x, 0), NEW e \in Answers
    PROVE  Fit(TakeLedgerId(x, e), 0)
<1>1. PICK y, z : y = FollowLedger(x, e.net) /\ z = TakeLedgerId(x, e)
  OBVIOUS
<1>2. CASE x.prevId = e.net
  <2>1. z = x
    BY <1>1, <1>2 DEF TakeLedgerId
  <2> QED
    BY <1>1, <2>1
<1>3. CASE x.prevId # e.net
  <2>1. z = PlaybackProposals(y, e.avail)
    BY <1>1, <1>3 DEF TakeLedgerId
  <2>2. e.net \in Ledgers /\ e.avail \in SUBSET SUBSET Txs
    BY DEF Answers
  <2>3. Fit(y, 0)
    BY <1>1, <2>2, FollowLedgerOK
  <2>4. PeersStep(y, z)
    BY <2>1, <2>2, <2>3, PlaybackOK DEF Fit
  <2> QED
    BY <1>1, <2>3, <2>4, FitKept
<1> QED
  BY <1>2, <1>3

LEMMA TakeLedgerOK ==
    ASSUME NEW x, Fit(x, 0), NEW e \in Answers
    PROVE  Fit(TakeLedger(x, e), 0)
<1>1. PICK w, y, z : /\ w = SwitchLedger(x, e) /\ y = [x EXCEPT !.mode = "WrongLedger"]
                     /\ z = TakeLedger(x, e)
  OBVIOUS
<1>2. z = x \/ z = w \/ z = y
  BY <1>1, SMT DEF TakeLedger
<1>3. Fit(w, 0)
  BY <1>1, SwitchLedgerOK
<1>4. Fit(y, 0)
  <2>1. x \in States /\ Held(x) /\ Counted(x, Peers) /\ Recorded(x) /\ Ordered(x, 0)
    BY DEF Fit, PeersOK
  <2>2. y \in States /\ y.mode = "WrongLedger"
    BY <1>1, <2>1 DEF States, Modes
  <2>3. /\ y.now = x.now /\ y.phase = x.phase /\ y.prevId = x.prevId /\ y.recent = x.recent
        /\ y.positions = x.positions /\ y.dead = x.dead
        /\ y.acquired = x.acquired /\ y.sent = x.sent /\ y.result = x.result
    BY <1>1, <2>1 DEF States
  <2>4. Recorded(y)
    BY <2>1, <2>3 DEF Recorded
  <2>5. Held(y)
    BY <2>1, <2>3 DEF Held
  <2>6. Counted(y, Peers)
    BY <2>1, <2>3, CountedSame
  <2>7. ~Proposing(y)
    BY <2>2 DEF Proposing
  <2>8. Ordered(y, 0)
    BY <2>1, <2>3, <2>7 DEF Ordered, HasResult
  <2> QED
    BY <2>2, <2>4, <2>5, <2>6, <2>8 DEF Fit, PeersOK
<1> QED
  BY <1>1, <1>2, <1>3, <1>4

LEMMA CheckLedgerOK ==
    ASSUME NEW x, Fit(x, 0), NEW e \in Answers
    PROVE  Fit(CheckLedger(x, e), 0)
<1>1. PICK w, y, z : /\ w = LeaveConsensus(x) /\ y = TakeLedgerId(w, e)
                     /\ z = TakeLedger(y, e)
  OBVIOUS
<1>2. Fit(w, 0)
  <2>1. 0 \in {0, 1}
    OBVIOUS
  <2> QED
    BY <1>1, <2>1, LeaveConsensusOK
<1>3. Fit(y, 0)
  BY <1>1, <1>2, TakeLedgerIdOK
<1>4. Fit(z, 0)
  BY <1>1, <1>3, TakeLedgerOK
<1>5. CheckLedger(x, e) = z \/ CheckLedger(x, e) = x
  BY <1>1 DEF CheckLedger, HandleWrongLedger
<1> QED
  BY <1>4, <1>5

\* The invariant of the machine.
Good(x) == Fit(x, 1) /\ Ends(x)

LEMMA TimerEntryOK ==
    ASSUME NEW x, Fit(x, 0), NEW e \in Answers
    PROVE  Good(TimerEntry(x, e))
<1>1. PICK y, z : y = CheckLedger(x, e) /\ z = TimerEntry(x, e)
  OBVIOUS
<1>2. CASE x.phase = "Accepted"
  <2>1. z = x
    BY <1>1, <1>2 DEF TimerEntry
  <2> QED
    BY <1>1, <1>2, <2>1, FitLater DEF Good, Ends
<1>3. CASE x.phase # "Accepted"
  <2>1. z = PhaseStep(y, e)
    BY <1>1, <1>3 DEF TimerEntry
  <2>2. Fit(y, 0)
    BY <1>1, CheckLedgerOK
  <2> QED
    BY <1>1, <2>1, <2>2, PhaseStepOK DEF Good
<1> QED
  BY <1>2, <1>3
-----------------------------------------------------------------------------
(* The actions.                                                            *)

LEMMA StartRoundOnOK ==
    ASSUME NEW x, Fit(x, 1), NEW e \in Answers,
           NEW call \in [id : Ledgers, ledger : Ledgers, proposing : BOOLEAN,
                         untrusted : SUBSET Peers]
    PROVE  Good(StartRoundOn(x, call, e))
<1>1. PICK got, mode, f, y, z, w :
        /\ got = IF call.id \in e.have THEN call.id ELSE call.ledger
        /\ mode = StartMode(got, call)
        /\ f = [p \in Peers |-> IF p \in call.untrusted THEN <<>> ELSE x.recent[p]]
        /\ y = [x EXCEPT !.recent = f]
        /\ z = Reset(y, call.id, got, mode, e)
        /\ w = TimerIfBehind(z, e)
  OBVIOUS
<1>2. StartRoundOn(x, call, e) = w
  BY <1>1 DEF StartRoundOn
<1>3. x \in States /\ Recorded(x) /\ x.now \in 1..(Leave - 1)
  BY DEF Fit, PeersOK, Ordered
<1>4. f \in [Peers -> Seq(Props)]
  <2>1. x.recent \in [Peers -> Seq(Props)]
    BY <1>3 DEF States
  <2>2. <<>> \in Seq(Props)
    BY SMT
  <2> QED
    BY <1>1, <2>1, <2>2
<1>5. y \in States /\ y.recent = f /\ y.now = x.now
  BY <1>1, <1>3, <1>4 DEF States
<1>6. Recorded(y)
  <2> SUFFICES ASSUME NEW p \in Peers, NEW i \in 1..Len(f[p])
               PROVE  /\ f[p][i].node = p /\ f[p][i].seen <= x.now
                      /\ f[p][i].seen <= NewestOf(f[p]).seen
    BY <1>5 DEF Recorded
  <2>1. f[p] = <<>> \/ f[p] = x.recent[p]
    BY <1>1
  <2>2. f[p] # <<>>
    <3>1. \A q : q = <<>> => ~(\E j : j \in 1..Len(q))
      BY SMT
    <3> QED
      BY <3>1
  <2>3. f[p] = x.recent[p]
    BY <2>1, <2>2
  <2> QED
    BY <1>3, <2>3 DEF Recorded
<1>7. call.id \in Ledgers /\ got \in Ledgers /\ mode \in Modes
  <2>1. call.id \in Ledgers /\ got \in Ledgers
    BY <1>1
  <2>2. mode \in Modes
    BY <1>1 DEF StartMode, Modes
  <2> QED
    BY <2>1, <2>2
<1>8. Fit(z, 0) /\ z.phase = "Open"
  <2>1. y.now \in 1..(Leave - 1)
    BY <1>3, <1>5
  <2>2. PICK id : id = call.id
    OBVIOUS
  <2>3. id \in Ledgers /\ z = Reset(y, id, got, mode, e)
    BY <1>1, <1>7, <2>2
  <2>4. y \in States /\ got \in Ledgers /\ mode \in Modes
    BY <1>5, <1>7
  <2> QED
    <3>1. Fit(Reset(y, id, got, mode, e), 0) /\ Reset(y, id, got, mode, e).phase = "Open"
      BY <1>6, <2>1, <2>3, <2>4, ResetOK, SMTT(30)
    <3> QED
      BY <2>3, <3>1
<1>9. w = z \/ w = TimerEntry(z, e)
  BY <1>1 DEF TimerIfBehind
<1>10. Good(z)
  BY <1>8, FitLater DEF Good, Ends
<1>11. Good(TimerEntry(z, e))
  BY <1>8, TimerEntryOK
<1> QED
  BY <1>2, <1>9, <1>10, <1>11

\* What is kept of a peer's proposals ends with the last one.
LEMMA RememberOK ==
    ASSUME NEW q \in Seq(Props), NEW prop \in Props
    PROVE  /\ Remember(q, prop) \in Seq(Props) /\ Remember(q, prop) # <<>>
           /\ NewestOf(Remember(q, prop)) = prop
           /\ \A i \in 1..Len(Remember(q, prop)) :
                 \/ Remember(q, prop)[i] = prop
                 \/ \E j \in 1..Len(q) : Remember(q, prop)[i] = q[j]
<1>1. PICK s, r : s = (IF Len(q) >= RecentCap THEN Tail(q) ELSE q) /\ r = Append(s, prop)
  OBVIOUS
<1>2. Remember(q, prop) = r
  BY <1>1 DEF Remember
<1>3. s \in Seq(Props) /\ \A i \in 1..Len(s) : \E j \in 1..Len(q) : s[i] = q[j]
  <2>1. CASE Len(q) >= RecentCap
    <3>1. s = Tail(q)
      BY <1>1, <2>1
    <3>2. Len(q) \in Nat /\ Len(q) # 0
      BY <2>1, SeqFacts, ConsensusRoundAssumption, SMTT(30)
    <3>3. q # <<>>
      BY <3>2, SMT
    <3>4. s \in Seq(Props) /\ Len(s) = Len(q) - 1
      BY <3>1, <3>3, TailFacts
    <3>5. ASSUME NEW i \in 1..Len(s) PROVE i + 1 \in 1..Len(q) /\ s[i] = q[i + 1]
      <4>1. i \in 1..Len(Tail(q))
        BY <3>1, <3>5
      <4>2. s[i] = q[i + 1]
        BY <3>1, <3>3, <4>1, TailFacts
      <4>3. i + 1 \in 1..Len(q)
        BY <3>2, <3>4, <3>5, SMTT(30)
      <4> QED
        BY <4>2, <4>3
    <3> QED
      BY <3>4, <3>5
  <2>2. CASE ~(Len(q) >= RecentCap)
    <3>1. s = q
      BY <1>1, <2>2
    <3> QED
      BY <3>1
  <2> QED
    BY <2>1, <2>2
<1>4. Len(s) \in Nat
  BY <1>3, SeqFacts
<1>5. /\ r \in Seq(Props) /\ r # <<>> /\ Len(r) = Len(s) + 1 /\ r[Len(s) + 1] = prop
      /\ \A i \in 1..Len(s) : r[i] = s[i]
  BY <1>1, <1>3, AppendFacts, SMTT(30)
<1>6. NewestOf(r) = prop
  BY <1>5 DEF NewestOf
<1>7. ASSUME NEW i \in 1..Len(r) PROVE r[i] = prop \/ \E j \in 1..Len(q) : r[i] = q[j]
  <2>1. i \in 1..Len(s) \/ i = Len(s) + 1
    BY <1>4, <1>5, <1>7, SMTT(30)
  <2>2. CASE i \in 1..Len(s)
    BY <1>3, <1>5, <2>2
  <2>3. CASE i = Len(s) + 1
    BY <1>5, <2>3
  <2> QED
    BY <2>1, <2>2, <2>3
<1> QED
  BY <1>2, <1>5, <1>6, <1>7

Messages == [node : Peers, prev : Ledgers, seq : 0..Leave, set : SUBSET Txs, ct : Nat]

LEMMA PeerProposalOK ==
    ASSUME NEW x, Good(x), NEW msg \in Messages, NEW avail \in SUBSET SUBSET Txs,
           NEW prop, prop = [node |-> msg.node, prev |-> msg.prev, seq |-> msg.seq,
                             set |-> msg.set, ct |-> msg.ct, seen |-> x.now]
    PROVE  Good(PeerProposalInternal([x EXCEPT !.recent[prop.node] = Remember(@, prop)],
                                     prop, avail))
<1>1. PICK n, s, f, y, z :
        /\ n = prop.node /\ s = Remember(x.recent[n], prop)
        /\ f = [x.recent EXCEPT ![n] = s] /\ y = [x EXCEPT !.recent = f]
        /\ z = PeerProposalInternal(y, prop, avail)
  OBVIOUS
<1>2. x \in States /\ Held(x) /\ Counted(x, Peers) /\ Recorded(x) /\ Ordered(x, 1) /\ Ends(x)
  BY DEF Good, Fit, PeersOK
<1>3. x.now \in Nat /\ x.recent \in [Peers -> Seq(Props)]
  BY <1>2 DEF States
<1>4. prop \in Props /\ n \in Peers /\ prop.seen = x.now
  BY <1>1, <1>3 DEF Messages, Props
<1>5. x.recent[n] \in Seq(Props)
  BY <1>3, <1>4
<1>6. /\ s \in Seq(Props) /\ s # <<>> /\ NewestOf(s) = prop
      /\ \A i \in 1..Len(s) : s[i] = prop \/ \E j \in 1..Len(x.recent[n]) : s[i] = x.recent[n][j]
  <2>1. PICK q : q = x.recent[n]
    OBVIOUS
  <2>2. q \in Seq(Props) /\ s = Remember(q, prop)
    BY <1>1, <1>5, <2>1
  <2>3. /\ s \in Seq(Props) /\ s # <<>> /\ NewestOf(s) = prop
        /\ \A i \in 1..Len(s) : s[i] = prop \/ \E j \in 1..Len(q) : s[i] = q[j]
    BY <1>4, <2>2, RememberOK
  <2> QED
    BY <2>1, <2>3
<1>7. f \in [Peers -> Seq(Props)] /\ f[n] = s /\ \A p \in Peers \ {n} : f[p] = x.recent[p]
  BY <1>1, <1>3, <1>4, <1>6, ZenonT(60)
<1>8. y \in States
  BY <1>1, <1>2, <1>7, ZenonT(60) DEF States
<1>9. /\ y.now = x.now /\ y.phase = x.phase /\ y.prevId = x.prevId /\ y.recent = f
      /\ y.positions = x.positions /\ y.dead = x.dead /\ y.mode = x.mode
      /\ y.acquired = x.acquired /\ y.sent = x.sent /\ y.result = x.result
      /\ y.haveCT = x.haveCT /\ y.prevRoundTime = x.prevRoundTime /\ y.establish = x.establish
  BY <1>1, <1>2 DEF States
<1>10. x.now <= x.now
  BY <1>3, SMT
<1>11. ASSUME NEW i \in 1..Len(s) PROVE s[i].node = n /\ s[i].seen <= x.now
  <2>1. CASE s[i] = prop
    BY <1>1, <1>4, <1>10, <2>1
  <2>2. CASE \E j \in 1..Len(x.recent[n]) : s[i] = x.recent[n][j]
    BY <1>2, <1>4, <2>2 DEF Recorded
  <2> QED
    BY <1>6, <1>11, <2>1, <2>2
<1>12. Recorded(y)
  <2> SUFFICES ASSUME NEW p \in Peers, NEW i \in 1..Len(f[p])
               PROVE  /\ f[p][i].node = p /\ f[p][i].seen <= x.now
                      /\ f[p][i].seen <= NewestOf(f[p]).seen
    BY <1>9 DEF Recorded
  <2>1. CASE p = n
    BY <1>4, <1>6, <1>7, <1>11, <2>1
  <2>2. CASE p # n
    BY <1>2, <1>7, <2>2 DEF Recorded
  <2> QED
    BY <2>1, <2>2
\* The last proposal of every peer is no older than before.
<1>13. ASSUME NEW p \in Peers, x.recent[p] # <<>>
       PROVE  /\ f[p] # <<>> /\ NewestOf(x.recent[p]).seen \in Nat /\ NewestOf(f[p]).seen \in Nat
              /\ NewestOf(x.recent[p]).seen <= NewestOf(f[p]).seen
  <2>1. x.recent[p] \in Seq(Props)
    BY <1>3
  <2>2. Len(x.recent[p]) \in 1..Len(x.recent[p])
    BY <1>13, <2>1, SeqFacts
  <2>3. NewestOf(x.recent[p]) \in Props
    BY <2>1, <2>2, SeqFacts DEF NewestOf
  <2>4. NewestOf(x.recent[p]).seen \in Nat /\ NewestOf(x.recent[p]).seen <= x.now
    BY <1>2, <2>2, <2>3 DEF Recorded, NewestOf, Props
  <2>5. CASE p = n
    BY <1>3, <1>4, <1>6, <1>7, <2>4, <2>5, ZenonT(60)
  <2>6. CASE p # n
    <3>1. f[p] = x.recent[p]
      BY <1>7, <2>6
    <3>2. \A m \in Nat : m <= m
      BY SMT
    <3> QED
      BY <1>13, <2>4, <3>1, <3>2
  <2> QED
    BY <2>5, <2>6
<1>14. Held(y)
  <2> SUFFICES ASSUME NEW p \in DOMAIN x.positions
               PROVE  f[p] # <<>> /\ x.positions[p].seen <= NewestOf(f[p]).seen
    BY <1>2, <1>9 DEF Held
  <2>1. p \in Peers /\ x.positions[p].seen \in Nat
    BY <1>2, PositionFacts DEF Props
  <2>2. x.recent[p] # <<>> /\ x.positions[p].seen <= NewestOf(x.recent[p]).seen
    BY <1>2 DEF Held
  <2>3. /\ f[p] # <<>> /\ NewestOf(x.recent[p]).seen \in Nat /\ NewestOf(f[p]).seen \in Nat
        /\ NewestOf(x.recent[p]).seen <= NewestOf(f[p]).seen
    BY <1>13, <2>1, <2>2
  <2>4. \A i, j, k \in Nat : i <= j /\ j <= k => i <= k
    BY SMT
  <2> QED
    BY <2>1, <2>2, <2>3, <2>4
<1>15. Counted(y, Peers)
  BY <1>2, <1>9, CountedSame
<1>16. Ordered(y, 1)
  BY <1>2, <1>9 DEF Ordered, HasResult, Proposing
<1>17. Ends(y)
  <2>1. PastLimit(y) <=> PastLimit(x)
    BY <1>9 DEF PastLimit, RoundTime, ExpiryAllowed
  <2> SUFFICES ASSUME y.phase = "Establish", PastLimit(y) PROVE ~y.haveCT /\ Fresh(y)
    BY DEF Ends, Fresh
  <2>2. ~x.haveCT /\ Fresh(x)
    BY <1>2, <1>9, <2>1 DEF Ends, Fresh
  <2>3. PICK p \in Peers : x.recent[p] # <<>>
                           /\ NewestOf(x.recent[p]).seen > x.now - Parms.freshness
    BY <2>2 DEF Fresh
  <2>4. /\ f[p] # <<>> /\ NewestOf(x.recent[p]).seen \in Nat /\ NewestOf(f[p]).seen \in Nat
        /\ NewestOf(x.recent[p]).seen <= NewestOf(f[p]).seen
    BY <1>13, <2>3
  <2>5. Parms.freshness \in Nat
    BY ParmsAssumption DEF ParmsFields
  <2>6. NewestOf(f[p]).seen > x.now - Parms.freshness
    BY <1>3, <2>3, <2>4, <2>5, SMTT(30)
  <2> QED
    BY <1>9, <2>2, <2>4, <2>6 DEF Fresh
<1>18. Fit(y, 1) /\ PeersOK(y)
  BY <1>8, <1>12, <1>14, <1>15, <1>16, ZenonT(60) DEF Fit, PeersOK
<1>19. Remembered(y, prop)
  <2>1. y.recent[prop.node] = s
    BY <1>1, <1>7, <1>9
  <2>2. s # <<>> /\ prop.seen <= NewestOf(s).seen
    BY <1>4, <1>6, <1>10
  <2> QED
    BY <1>4, <2>1, <2>2 DEF Remembered
<1>20. PeersStep(y, z)
  BY <1>1, <1>18, <1>19, PeerProposalInternalOK
<1>21. Good(z)
  BY <1>17, <1>18, <1>20, FitKept, KeptOrdered, ZenonT(60) DEF Good, PeersStep
<1> QED
  BY <1>1, <1>21

LEMMA TimerOK ==
    ASSUME NEW x, Good(x), NEW n \in 0..(Leave - 1), x.now < n, NEW e \in Answers
    PROVE  Good(TimerEntry([x EXCEPT !.now = @ + 1], e))
<1>1. PICK y : y = [x EXCEPT !.now = @ + 1]
  OBVIOUS
<1>2. x \in States /\ Held(x) /\ Counted(x, Peers) /\ Recorded(x) /\ Ordered(x, 1)
  BY DEF Good, Fit, PeersOK
<1>3. x.now \in 1..(Leave - 1) /\ x.now \in Nat
  BY <1>2, StateFacts DEF Ordered
<1>4. x.now + 1 \in Nat /\ x.now + 1 \in 1..(Leave - 1)
  <2>1. \A i \in Nat, j \in 0..(Leave - 1) : i < j => i + 1 \in Nat /\ i + 1 \in 1..(Leave - 1)
    BY SMT DEF Leave
  <2> QED
    BY <1>3, <2>1, ZenonT(60)
<1>5. y \in States /\ y.now = x.now + 1
  BY <1>1, <1>2, <1>4 DEF States
<1>6. /\ y.phase = x.phase /\ y.prevId = x.prevId /\ y.recent = x.recent /\ y.mode = x.mode
      /\ y.positions = x.positions /\ y.dead = x.dead
      /\ y.acquired = x.acquired /\ y.sent = x.sent /\ y.result = x.result
  BY <1>1, <1>2 DEF States
<1>7. Held(y)
  BY <1>2, <1>6 DEF Held
<1>8. Counted(y, Peers)
  BY <1>2, <1>6, CountedSame
<1>9. Recorded(y)
  <2> SUFFICES ASSUME NEW p \in Peers, NEW i \in 1..Len(x.recent[p])
               PROVE  /\ x.recent[p][i].node = p /\ x.recent[p][i].seen <= x.now + 1
                      /\ x.recent[p][i].seen <= NewestOf(x.recent[p]).seen
    BY <1>5, <1>6 DEF Recorded
  <2>1. x.recent[p] \in Seq(Props)
    BY <1>2 DEF States
  <2>2. x.recent[p][i] \in Props
    BY <2>1, SeqFacts
  <2>3. x.recent[p][i].seen \in Nat
    BY <2>2 DEF Props
  <2>4. /\ x.recent[p][i].node = p /\ x.recent[p][i].seen <= x.now
        /\ x.recent[p][i].seen <= NewestOf(x.recent[p]).seen
    BY <1>2 DEF Recorded
  <2>5. \A i1, j \in Nat : i1 <= j => i1 <= j + 1
    BY SMT
  <2> QED
    BY <1>3, <2>3, <2>4, <2>5
<1>10. Ordered(y, 0)
  <2>1. HasResult(y) <=> HasResult(x)
    BY <1>6 DEF HasResult
  <2>2. ASSUME HasResult(x)
        PROVE  /\ x.result.start \in 1..(x.now + 1)
               /\ BowedOut(x.result) \/ x.result.pos.seq <= (x.now + 1) - x.result.start + 0
    <3>1. x.result.pos \in OwnPositions
      BY <1>2, <2>2, ResultFacts
    <3>2. x.result.pos.seq \in Nat
      BY <3>1 DEF OwnPositions
    <3>3. /\ x.result.start \in 1..x.now
          /\ BowedOut(x.result) \/ x.result.pos.seq <= x.now - x.result.start + 1
      BY <1>2, <2>2 DEF Ordered
    <3>4. \A s \in 1..x.now, q \in Nat :
             s \in 1..(x.now + 1) /\ (q <= x.now - s + 1 => q <= (x.now + 1) - s + 0)
      BY <1>3, SMT
    <3> QED
      BY <3>2, <3>3, <3>4
  <2>3. y.now \in 1..(Leave - 1)
    BY <1>4, <1>5
  <2> QED
    BY <1>2, <1>5, <1>6, <2>1, <2>2, <2>3, ZenonT(60) DEF Ordered, Proposing
<1>11. Fit(y, 0)
  BY <1>5, <1>7, <1>8, <1>9, <1>10 DEF Fit, PeersOK
<1> QED
  BY <1>1, <1>11, TimerEntryOK
-----------------------------------------------------------------------------
(* The theorems.                                                           *)

IInv == Good(c) /\ env \in DOMAIN Environments

LEMMA EnvOK ==
    ASSUME env \in DOMAIN Environments
    PROVE  /\ Env.ledgers \subseteq Ledgers /\ Env.sets \subseteq SUBSET Txs
           /\ Env.messages \subseteq Messages /\ Env.answers \subseteq Answers
           /\ Env.calls \subseteq [id : Ledgers, ledger : Ledgers, proposing : BOOLEAN,
                                   untrusted : SUBSET Peers]
           /\ Env.maxNow \in 0..(Leave - 1)
BY ConsensusRoundAssumption DEF Env, Messages, Answers

LEMMA InitOK == Init => IInv
<1> SUFFICES ASSUME Init PROVE IInv
  OBVIOUS
<1>1. env \in DOMAIN Environments
  BY DEF Init
<1>2. PICK id \in Ledgers :
         c = [now |-> Start, phase |-> "Accepted", mode |-> "Observing",
              prevId |-> id, prev |-> id,
              positions |-> <<>>, recent |-> [p \in Peers |-> <<>>], dead |-> {},
              acquired |-> {}, result |-> NoResult,
              prevProposers |-> 0, prevRoundTime |-> Parms.idle,
              percent |-> 0, haveCT |-> FALSE, ctState |-> "Init",
              unchanged |-> 0, establish |-> 0, openStart |-> Start, sent |-> <<>>]
  BY <1>1, EnvOK DEF Init
<1>3. /\ Start \in Nat /\ Start \in 1..(Leave - 1) /\ 0 \in Nat /\ 0 \in Int /\ Parms.idle \in Nat
      /\ <<>> \in PartialFns(Peers, Props) /\ <<>> \in Seq(Nat)
      /\ [p \in Peers |-> <<>>] \in [Peers -> Seq(Props)]
  <2>1. Start \in 1..(Leave - 1)
    BY ConsensusRoundAssumption
  <2>2. 0 \in Nat /\ 0 \in Int /\ <<>> \in Seq(Nat) /\ Start \in Nat
    BY <2>1, SMT DEF Leave
  <2>3. Parms.idle \in Nat
    BY ParmsAssumption DEF ParmsFields
  <2>4. <<>> \in Seq(Props)
    BY SMT
  <2> QED
    BY <2>1, <2>2, <2>3, <2>4, EmptyFn, ZenonT(60)
<1>4. c \in States
  BY <1>2, <1>3 DEF States, Modes, AvalancheStates
<1>5. /\ c.now \in 1..(Leave - 1) /\ c.phase = "Accepted" /\ c.positions = <<>>
      /\ c.sent = <<>> /\ c.result = NoResult /\ \A p \in Peers : c.recent[p] = <<>>
  BY <1>2, <1>3
<1>6. ~HasResult(c) /\ DOMAIN c.positions = {}
  BY <1>5, EmptyFn DEF HasResult
<1>7. \A q : q = <<>> => ~(\E i : i \in 1..Len(q)) /\ \A i \in 1..(Len(q) - 1) : q[i] < q[i + 1]
  BY SMT
<1>8. Recorded(c)
  BY <1>5, <1>7 DEF Recorded
<1>9. Held(c) /\ Counted(c, Peers)
  BY <1>6 DEF Held, Counted
<1>10. Ordered(c, 1)
  BY <1>5, <1>6, <1>7 DEF Ordered
<1>11. Ends(c)
  BY <1>5 DEF Ends
<1> QED
  BY <1>1, <1>4, <1>8, <1>9, <1>10, <1>11, ZenonT(60) DEF IInv, Good, Fit, PeersOK

LEMMA NextOK == IInv /\ [Next]_vars => IInv'
<1> SUFFICES ASSUME IInv, [Next]_vars PROVE IInv'
  OBVIOUS
<1>1. Good(c) /\ env \in DOMAIN Environments
  BY DEF IInv
<1>2. Fit(c, 1) /\ PeersOK(c)
  BY <1>1 DEF Good, Fit
<1>3. ASSUME Good(c'), env' = env PROVE IInv'
  BY <1>1, <1>3 DEF IInv
<1>4. ASSUME NEW call \in Env.calls, NEW e \in Env.answers, StartRound(call, e) PROVE IInv'
  <2>1. c' = StartRoundOn(c, call, e) /\ env' = env
    BY <1>4 DEF StartRound
  <2>2. e \in Answers /\ call \in [id : Ledgers, ledger : Ledgers, proposing : BOOLEAN,
                                   untrusted : SUBSET Peers]
    BY <1>1, <1>4, EnvOK
  <2>3. Good(StartRoundOn(c, call, e))
    BY <1>2, <2>2, StartRoundOnOK
  <2> QED
    BY <1>3, <2>1, <2>3
<1>5. ASSUME NEW msg \in Env.messages, NEW e \in Env.answers, PeerProposal(msg, e.avail)
      PROVE  IInv'
  <2>1. PICK prop, avail :
          /\ prop = [node |-> msg.node, prev |-> msg.prev, seq |-> msg.seq, set |-> msg.set,
                     ct |-> msg.ct, seen |-> c.now]
          /\ avail = e.avail
    OBVIOUS
  <2>2. /\ env' = env
        /\ c' = PeerProposalInternal([c EXCEPT !.recent[prop.node] = Remember(@, prop)],
                                     prop, avail)
    BY <1>5, <2>1 DEF PeerProposal
  <2>3. msg \in Messages /\ avail \in SUBSET SUBSET Txs
    BY <1>1, <1>5, <2>1, EnvOK, ZenonT(60) DEF Answers
  <2>4. Good(PeerProposalInternal([c EXCEPT !.recent[prop.node] = Remember(@, prop)],
                                  prop, avail))
    BY <1>1, <2>1, <2>3, PeerProposalOK
  <2> QED
    BY <1>3, <2>2, <2>4
<1>6. ASSUME NEW set \in Env.sets, TxSetArrives(set) PROVE IInv'
  <2>1. c' = GotTxSet(c, set) /\ env' = env
    BY <1>6 DEF TxSetArrives
  <2>2. PeersStep(c, c')
    BY <1>1, <1>2, <1>6, <2>1, EnvOK, GotTxSetOK, ZenonT(60)
  <2>3. Good(c')
    BY <1>1, <1>2, <2>2, FitKept, KeptOrdered, ZenonT(60) DEF Good, PeersStep
  <2> QED
    BY <1>3, <2>1, <2>3
<1>7. ASSUME NEW e \in Env.answers, Timer(e) PROVE IInv'
  <2>1. PICK n : n = Env.maxNow
    OBVIOUS
  <2>2. c' = TimerEntry([c EXCEPT !.now = @ + 1], e) /\ env' = env /\ c.now < n
    BY <1>7, <2>1 DEF Timer
  <2>3. e \in Answers /\ n \in 0..(Leave - 1)
    BY <1>1, <1>7, <2>1, EnvOK
  <2>4. Good(TimerEntry([c EXCEPT !.now = @ + 1], e))
    BY <1>1, <2>2, <2>3, TimerOK, ZenonT(60)
  <2> QED
    BY <1>3, <2>2, <2>4
<1>8. CASE UNCHANGED vars
  BY <1>1, <1>3, <1>8 DEF vars
<1> QED
  BY <1>4, <1>5, <1>6, <1>7, <1>8, ZenonT(60) DEF Next

\* The inductive invariant of the round: types, what is recorded of each peer,
\* what is held and counted of it, the order of our proposals and the end of the
\* round.
THEOREM RoundInvariant == Spec => []IInv
BY InitOK, NextOK, PTL DEF Spec

\* create_disputes and update_disputes keep the disputes complete, whatever the
\* order in which positions, sets, ledgers and changes of our position arrive.
THEOREM DisputesComplete == Spec => []DisputesAreComplete
<1>1. ASSUME IInv PROVE DisputesAreComplete
  <2> SUFFICES ASSUME HasResult(c), NEW p \in Voters(c), NEW t \in Txs,
                      (t \in c.result.txns) # (t \in c.positions[p].set)
               PROVE  t \in DOMAIN c.result.disputes
    BY DEF DisputesAreComplete
  <2>1. Counted(c, Peers) /\ c \in States
    BY <1>1 DEF IInv, Good, Fit, PeersOK
  <2>2. p \in Voters(c) \cap Peers
    BY <2>1, PositionFacts DEF Voters
  <2>3. c.positions[p].set \in c.result.compares /\ Compared(c)
    BY <2>1, <2>2, ZenonT(60) DEF Counted
  <2> QED
    BY <2>3 DEF Compared
<1> QED
  BY <1>1, RoundInvariant, PTL

\* peer_proposal_internal, update_our_positions, got_tx_set and
\* handle_wrong_ledger keep the positions on our ledger and the votes of every
\* dispute those of the current positions.
THEOREM VotesCurrent == Spec => []VotesAreCurrent
<1>1. ASSUME IInv PROVE VotesAreCurrent
  <2>1. Held(c) /\ Counted(c, Peers) /\ c \in States
    BY <1>1 DEF IInv, Good, Fit, PeersOK
  <2>2. \A p \in Voters(c) : p \in Voters(c) \cap Peers
    BY <2>1, PositionFacts DEF Voters
  <2>3. \A p \in DOMAIN c.positions :
          c.positions[p].prev = c.prevId /\ p \notin c.dead /\ c.positions[p].seq # Leave
    BY <2>1 DEF Held
  <2>4. ASSUME HasResult(c), NEW t \in DOMAIN c.result.disputes
        PROVE  /\ DOMAIN c.result.disputes[t].votes \subseteq DOMAIN c.positions
               /\ \A p \in Voters(c) :
                    /\ p \in DOMAIN c.result.disputes[t].votes
                    /\ c.result.disputes[t].votes[p] = (t \in c.positions[p].set)
               /\ c.result.disputes[t].our = (t \in c.result.txns)
    <3>1. BallotOK(c, Peers, t, c.result.disputes[t])
      BY <2>1, <2>4, ZenonT(60) DEF Counted
    <3> QED
      BY <2>2, <3>1 DEF BallotOK
  <2> QED
    BY <2>3, <2>4 DEF VotesAreCurrent
<1> QED
  BY <1>1, RoundInvariant, PTL

\* Within a round our proposals carry increasing sequence numbers and none
\* follows the one that bows out (change_position, leave_consensus).
THEOREM ProposalsOrdered == Spec => []ProposalsAreOrdered
<1>1. ASSUME IInv PROVE ProposalsAreOrdered
  <2>1. Ordered(c, 1)
    BY <1>1 DEF IInv, Good, Fit
  <2> QED
    BY <2>1 DEF Ordered, NewestOf, ProposalsAreOrdered
<1> QED
  BY <1>1, RoundInvariant, PTL

\* A round past its limits lasts only while its close time is undecided between
\* positions of which one is fresh (phase_establish, check_consensus, and the
\* staleness test of update_our_positions).
THEOREM SilentRoundsEnd == Spec => []RoundEnds
<1>1. ASSUME IInv PROVE RoundEnds
  <2> SUFFICES ASSUME c.phase = "Establish", PastLimit(c)
               PROVE  /\ ~c.haveCT
                      /\ \E p \in Peers : \E prop \in Range(c.recent[p]) :
                            prop.seen > c.now - Parms.freshness
    BY DEF RoundEnds
  <2>1. c \in States /\ ~c.haveCT /\ Fresh(c)
    BY <1>1 DEF IInv, Good, Fit, PeersOK, Ends
  <2>2. PICK p \in Peers : /\ c.recent[p] # <<>>
                           /\ NewestOf(c.recent[p]).seen > c.now - Parms.freshness
    BY <2>1 DEF Fresh
  <2>3. c.recent[p] \in Seq(Props)
    BY <2>1 DEF States
  <2>4. Len(c.recent[p]) \in 1..Len(c.recent[p])
    BY <2>2, <2>3, SeqFacts
  <2>5. Len(c.recent[p]) \in DOMAIN c.recent[p]
    BY <2>3, <2>4, SeqFacts
  <2>6. NewestOf(c.recent[p]) \in Range(c.recent[p])
    BY <2>5 DEF NewestOf, Range
  <2> QED
    BY <2>1, <2>2, <2>6
<1> QED
  BY <1>1, RoundInvariant, PTL
=============================================================================
