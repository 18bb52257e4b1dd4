-------------------------- MODULE ConsensusProofs --------------------------
(***************************************************************************)
(* Proofs about the decision functions, for every value of the durations,  *)
(* every time and every number of proposers, and about the votes of a      *)
(* disputed transaction, for any finite set of peers, any durations and    *)
(* any number of votes.                                                    *)
(***************************************************************************)
EXTENDS DisputeVoting, ConsensusDecisions, FiniteSetTheorems, TLAPS

(* The decision functions.                                                 *)
ArgsInv == time \in Nat /\ proposers \in Nat

\* The invariant that the theorems below need of the states of the driver.
LEMMA ArgsInvHolds == ArgsSpec => []ArgsInv
<1>1. ArgsInit => ArgsInv
  BY DecisionsAssumption DEF ArgsInit, ArgsInv
<1>2. ArgsInv /\ [ArgsNext]_args => ArgsInv'
  BY DEF ArgsInv, ArgsNext, args
<1> QED
  BY <1>1, <1>2, PTL DEF ArgsSpec

\* Every duration is a natural number.
LEMMA ParmsType ==
  ASSUME NEW f \in ParmsFields
  PROVE  Parms[f] \in Nat
BY ParmsAssumption

LEMMA Durations ==
    /\ Parms.minConsensus \in Nat /\ Parms.maxConsensus \in Nat /\ Parms.abandon \in Nat
    /\ Parms.abandonFactor \in Nat /\ Parms.unexpected \in Nat /\ Parms.idle \in Nat
    /\ Parms.minClose \in Nat /\ Parms.maxConsensus <= Parms.abandon
BY ParmsAssumption DEF ParmsFields

\* The clamp of check_consensus keeps the limit between its two bounds.
LEMMA AbandonBound ==
  ASSUME NEW pt \in Nat
  PROVE  AbandonAfter(pt) \in Nat /\ AbandonAfter(pt) <= Parms.abandon
         /\ Parms.maxConsensus <= AbandonAfter(pt)
<1> DEFINE m == pt * Parms.abandonFactor
<1>1. m \in Nat
  BY Durations
<1> HIDE DEF m
<1>2. AbandonAfter(pt) = Smaller(Larger(m, Parms.maxConsensus), Parms.abandon)
  BY DEF AbandonAfter, m
<1> QED
  BY <1>1, <1>2, Durations DEF Smaller, Larger

\* check_consensus: past the hard limit and the slow start the answer is not No,
\* for any durations, votes and numbers of proposers.
THEOREM RoundsEnd == ArgsSpec => []RoundMustEnd
<1>1. ArgsInv => RoundMustEnd
  <2> SUFFICES ASSUME ArgsInv,
                      NEW agree \in 0..proposers, NEW finished \in 0..proposers,
                      NEW pp \in PrevProposers, NEW pt \in PrevTimes,
                      NEW stalled \in BOOLEAN, NEW own \in BOOLEAN,
                      time > Larger(Parms.abandon, pt + Parms.minConsensus)
               PROVE  Outcome(agree, finished, pp, pt, time, stalled, own) # "No"
    BY DEF RoundMustEnd
  <2>1. pt \in Nat
    BY Durations DEF PrevTimes
  <2>2. time > Parms.abandon /\ time > pt + Parms.minConsensus
    BY <2>1, Durations DEF Larger, ArgsInv
  <2>3. ~(time <= Parms.minConsensus) /\ ~(time < pt + Parms.minConsensus)
    BY <2>1, <2>2, Durations DEF ArgsInv
  <2>4. time > AbandonAfter(pt)
    BY <2>1, <2>2, AbandonBound, Durations DEF ArgsInv
  <2> QED
    BY <2>3, <2>4 DEF Outcome, CheckConsensus
<1> QED
  BY <1>1, ArgsInvHolds, PTL

\* participants_needed: the threshold is never zero and never above the number of
\* participants, and three quarters of more than two are more than half.
THEOREM ThresholdsAreReachable == ArgsSpec => []ThresholdsReachable
<1>1. ArgsInv => ThresholdsReachable
  BY DEF ArgsInv, ThresholdsReachable, ParticipantsNeeded, Larger, AvCtConsensusPct
<1> QED
  BY <1>1, ArgsInvHolds, PTL

\* should_pause: the patience with laggards grows with the phase and with their
\* number, and ends with ledger_max_consensus, for any number of validators and
\* of ledgers ahead.
THEOREM PatienceOnlyGrows == ArgsSpec => []PatienceGrows
<1>1. ArgsInv => PatienceGrows
  <2> SUFFICES ASSUME ArgsInv,
                      NEW quorum \in 0..proposers, NEW laggards \in 0..proposers,
                      NEW offline \in 0..proposers, NEW ahead \in Nat \ {0},
                      laggards + offline <= proposers,
                      ShouldPause(ahead, proposers, quorum, laggards, offline, TRUE, time)
               PROVE  /\ time <= Parms.maxConsensus
                      /\ ahead % 5 # 0 =>
                           ShouldPause(ahead + 1, proposers, quorum, laggards, offline, TRUE, time)
                      /\ laggards + offline < proposers =>
                           ShouldPause(ahead, proposers, quorum, laggards + 1, offline, TRUE, time)
    BY Zenon DEF PatienceGrows
  <2>1. time <= Parms.maxConsensus /\ laggards > 0 /\ proposers > 0
    BY DEF ShouldPause
  <2>2. PausePhase(ahead) \in 0..4
    BY DEF PausePhase
  <2>3. ahead % 5 # 0 => PausePhase(ahead + 1) = PausePhase(ahead) + 1
    BY DEF PausePhase
  <2>4. ASSUME ahead % 5 # 0
        PROVE  ShouldPause(ahead + 1, proposers, quorum, laggards, offline, TRUE, time)
    <3>1. PausePhase(ahead + 1) = PausePhase(ahead) + 1 /\ PausePhase(ahead) \in 0..4
          /\ PausePhase(ahead + 1) \in 0..4
      BY <2>2, <2>3, <2>4 DEF PausePhase
    <3>2. CASE PausePhase(ahead) = 0
      BY <2>1, <3>1, <3>2 DEF ShouldPause, Larger, ArgsInv
    <3>3. CASE PausePhase(ahead) = 1
      BY <2>1, <3>1, <3>3 DEF ShouldPause, Larger, ArgsInv
    <3>4. CASE PausePhase(ahead) = 2
      BY <2>1, <3>1, <3>4 DEF ShouldPause, Larger, ArgsInv
    <3>5. CASE PausePhase(ahead) = 3
      BY <2>1, <3>1, <3>5 DEF ShouldPause, Larger, ArgsInv
    <3>6. PausePhase(ahead) \in {0, 1, 2, 3}
      BY <3>1
    <3> QED
      BY <3>2, <3>3, <3>4, <3>5, <3>6, Zenon
  <2>5. ASSUME laggards + offline < proposers
        PROVE  ShouldPause(ahead, proposers, quorum, laggards + 1, offline, TRUE, time)
    <3>1. CASE PausePhase(ahead) = 0
      BY <2>1, <2>5, <3>1 DEF ShouldPause, Larger, ArgsInv
    <3>2. CASE PausePhase(ahead) = 1
      BY <2>1, <2>5, <3>2 DEF ShouldPause, Larger, ArgsInv
    <3>3. CASE PausePhase(ahead) = 2
      BY <2>1, <2>5, <3>3 DEF ShouldPause, Larger, ArgsInv
    <3>4. CASE PausePhase(ahead) = 3
      BY <2>1, <2>5, <3>4 DEF ShouldPause, Larger, ArgsInv
    <3>5. CASE PausePhase(ahead) = 4
      BY <2>1, <2>5, <3>5 DEF ShouldPause, Larger, ArgsInv
    <3>6. PausePhase(ahead) \in {0, 1, 2, 3, 4}
      BY <2>2
    <3> QED
      BY <3>1, <3>2, <3>3, <3>4, <3>5, <3>6, Zenon
  <2> QED
    BY <2>1, <2>4, <2>5, Zenon
<1> QED
  BY <1>1, ArgsInvHolds, PTL

LEMMA Range6Values == Range6 = {10, 20, 30, 60, 90, 120}
<1>1. /\ Resolutions[1] = 10 /\ Resolutions[2] = 20 /\ Resolutions[3] = 30
      /\ Resolutions[4] = 60 /\ Resolutions[5] = 90 /\ Resolutions[6] = 120
  BY DEF Resolutions
<1>2. 1..6 = {1, 2, 3, 4, 5, 6}
  OBVIOUS
<1> QED
  BY <1>1, <1>2 DEF Range6

\* round_close_time: the nearest multiple of the resolution, at every time;
\* effective_close_time is always after the parent's close time.
THEOREM CloseTimesAreNearest == ArgsSpec => []CloseTimeIsNearest
<1>1. ASSUME ArgsInv, NEW r \in Range6
      PROVE  LET m == RoundCloseTime(time, r) IN
             /\ m \in Int /\ m % r = 0
             /\ time > 0 => 2 * m - 2 * time <= r /\ 2 * time - 2 * m < r
  <2>1. CASE r = 10 BY <2>1, <1>1 DEF RoundCloseTime, ArgsInv
  <2>2. CASE r = 20 BY <2>2, <1>1 DEF RoundCloseTime, ArgsInv
  <2>3. CASE r = 30 BY <2>3, <1>1 DEF RoundCloseTime, ArgsInv
  <2>4. CASE r = 60 BY <2>4, <1>1 DEF RoundCloseTime, ArgsInv
  <2>5. CASE r = 90 BY <2>5, <1>1 DEF RoundCloseTime, ArgsInv
  <2>6. CASE r = 120 BY <2>6, <1>1 DEF RoundCloseTime, ArgsInv
  <2> QED BY <2>1, <2>2, <2>3, <2>4, <2>5, <2>6, Range6Values
<1>2. ASSUME ArgsInv, NEW r \in Range6, NEW prior \in Int, time > 0
      PROVE  EffectiveCloseTime(time, r, prior) > prior
  <2>1. RoundCloseTime(time, r) \in Int
    BY <1>1, <1>2
  <2> QED
    BY <2>1, <1>2 DEF EffectiveCloseTime, Larger, ArgsInv
<1>3. ArgsInv => CloseTimeIsNearest
  <2> SUFFICES ASSUME ArgsInv, NEW r \in Range6
               PROVE  LET m == RoundCloseTime(time, r) IN
                      /\ m % r = 0
                      /\ time > 0 => 2 * m - 2 * time <= r /\ 2 * time - 2 * m < r
                      /\ \A prior \in {0, time, time + 1, m} :
                           time > 0 => EffectiveCloseTime(time, r, prior) > prior
    BY DEF CloseTimeIsNearest
  <2>1. \A prior \in {0, time, time + 1, RoundCloseTime(time, r)} : prior \in Int
    BY <1>1 DEF ArgsInv
  <2> QED
    BY <1>1, <1>2, <2>1
<1> QED
  BY <1>3, ArgsInvHolds, PTL

\* What a share computed with integer division says of the numbers it is of.
LEMMA ShareBound ==
  ASSUME NEW x \in Nat, NEW y \in Nat, y > 0, (x * 100) \div y >= 80
  PROVE  5 * x >= 4 * y
<1> DEFINE q == (x * 100) \div y
<1>1. q \in Int /\ q * y <= x * 100
  OBVIOUS
<1>2. 80 * y <= q * y
  <2> HIDE DEF q
  <2>1. q >= 80
    BY DEF q
  <2> QED
    BY <1>1, <2>1
<1> HIDE DEF q
<1>3. q * y \in Int
  BY <1>1
<1> QED
  BY <1>1, <1>2, <1>3

\* check_consensus: Yes without a stall takes four fifths of all proposers, ours
\* included, or an empty round that has lasted longer than the maximum.
THEOREM YesTakesAgreement == ArgsSpec => []YesNeedsAgreement
<1>1. ArgsInv => YesNeedsAgreement
  <2> SUFFICES ASSUME ArgsInv,
                      NEW agree \in 0..proposers, NEW finished \in 0..proposers,
                      NEW pp \in PrevProposers, NEW pt \in PrevTimes,
                      NEW own \in BOOLEAN,
                      Outcome(agree, finished, pp, pt, time, FALSE, own) = "Yes"
               PROVE  LET one == IF own THEN 1 ELSE 0 IN
                      \/ proposers = 0 /\ time > Parms.maxConsensus
                      \/ proposers > 0 /\ 5 * (agree + one) >= 4 * (proposers + one)
    BY Zenon DEF YesNeedsAgreement
  <2> DEFINE one == IF own THEN 1 ELSE 0
  <2>1. CheckConsensusReached(agree, proposers, own, time > Parms.maxConsensus, FALSE)
    BY Zenon DEF Outcome, CheckConsensus
  <2>2. CASE proposers = 0
    BY <2>1, <2>2 DEF CheckConsensusReached
  <2>3. CASE proposers # 0
    <3>1. ((agree + one) * 100) \div (proposers + one) >= 80
      BY <2>1, <2>3 DEF CheckConsensusReached, MinConsensusPct
    <3>2. agree + one \in Nat /\ proposers + one \in Nat /\ proposers + one > 0
      BY <2>3 DEF ArgsInv
    <3> HIDE DEF one
    <3>3. 5 * (agree + one) >= 4 * (proposers + one)
      BY <3>1, <3>2, ShareBound
    <3> QED
      BY <3>3, <2>3 DEF ArgsInv, one
  <2> QED
    BY <2>2, <2>3
<1> QED
  BY <1>1, ArgsInvHolds, PTL

\* get_next_ledger_time_resolution stays on the ladder, moves by one rung at most
\* and in the right direction, and eight agreements undo a disagreement.
THEOREM ResolutionStaysOnLadder == ArgsSpec => []ResolutionLadder
<1> DEFINE Index(r) == CHOOSE i \in 1..6 : Resolutions[i] = r
           Coarser(r) == CASE r = 10 -> 20 [] r = 20 -> 30 [] r = 30 -> 60
                           [] r = 60 -> 90 [] r = 90 -> 120 [] r = 120 -> 120
           Finer(r) == CASE r = 10 -> 10 [] r = 20 -> 10 [] r = 30 -> 20
                         [] r = 60 -> 30 [] r = 90 -> 60 [] r = 120 -> 90
           Step(r, agree, seq) == IF ~agree THEN Coarser(r)
                                  ELSE IF seq % 8 = 0 THEN Finer(r) ELSE r
<1>1. ASSUME NEW r \in Range6
      PROVE  /\ IsResolution(r)
             /\ Index(r) =
                 CASE r = 10 -> 1 [] r = 20 -> 2 [] r = 30 -> 3
                   [] r = 60 -> 4 [] r = 90 -> 5 [] r = 120 -> 6
  <2> DEFINE i == Index(r)
  <2>1. \E k \in 1..6 : Resolutions[k] = r
    BY DEF Range6
  <2>2. i \in 1..6 /\ Resolutions[i] = r
    BY <2>1
  <2>3. i \in {1, 2, 3, 4, 5, 6}
    BY <2>2
  <2> HIDE DEF i
  <2> QED
    BY <2>1, <2>2, <2>3 DEF IsResolution, Resolutions, i
<1> HIDE DEF Index
<1>2. ASSUME NEW r \in Range6, NEW agree \in BOOLEAN, NEW seq \in Nat
      PROVE  GetNextLedgerTimeResolution(r, agree, seq) = Step(r, agree, seq)
  <2>0. r \in {10, 20, 30, 60, 90, 120}
    BY Range6Values
  <2>1. CASE r = 10
    <3>1. Index(r) = 1 BY <1>1, <2>1
    <3> QED BY <1>1, <3>1, <2>1 DEF Index, GetNextLedgerTimeResolution, Resolutions, Smaller, Larger
  <2>2. CASE r = 20
    <3>1. Index(r) = 2 BY <1>1, <2>2
    <3> QED BY <1>1, <3>1, <2>2 DEF Index, GetNextLedgerTimeResolution, Resolutions, Smaller, Larger
  <2>3. CASE r = 30
    <3>1. Index(r) = 3 BY <1>1, <2>3
    <3> QED BY <1>1, <3>1, <2>3 DEF Index, GetNextLedgerTimeResolution, Resolutions, Smaller, Larger
  <2>4. CASE r = 60
    <3>1. Index(r) = 4 BY <1>1, <2>4
    <3> QED BY <1>1, <3>1, <2>4 DEF Index, GetNextLedgerTimeResolution, Resolutions, Smaller, Larger
  <2>5. CASE r = 90
    <3>1. Index(r) = 5 BY <1>1, <2>5
    <3> QED BY <1>1, <3>1, <2>5 DEF Index, GetNextLedgerTimeResolution, Resolutions, Smaller, Larger
  <2>6. CASE r = 120
    <3>1. Index(r) = 6 BY <1>1, <2>6
    <3> QED BY <1>1, <3>1, <2>6 DEF Index, GetNextLedgerTimeResolution, Resolutions, Smaller, Larger
  <2> QED
    BY <2>0, <2>1, <2>2, <2>3, <2>4, <2>5, <2>6
<1>3. ASSUME NEW r \in Range6
      PROVE  Coarser(r) \in Range6 /\ Finer(r) \in Range6
  BY Range6Values
<1>4. ASSUME ArgsInv, NEW r \in Range6, NEW agree \in BOOLEAN
      PROVE  LET n == Step(r, agree, time)
                 back == Step(Step(r, FALSE, time), TRUE, 8 * time)
             IN /\ n \in Range6
                /\ ~\E q \in Range6 : (r < q /\ q < n) \/ (n < q /\ q < r)
                /\ IF agree THEN n <= r ELSE n >= r
                /\ r < 120 => back = r
  <2>1. (8 * time) % 8 = 0
    BY <1>4 DEF ArgsInv
  <2> QED
    BY <2>1, Range6Values
<1>5. ArgsInv => ResolutionLadder
  <2> SUFFICES ASSUME ArgsInv, NEW r \in Range6, NEW agree \in BOOLEAN
               PROVE  LET n == GetNextLedgerTimeResolution(r, agree, time)
                          back == GetNextLedgerTimeResolution(
                                    GetNextLedgerTimeResolution(r, FALSE, time), TRUE, 8 * time)
                      IN /\ n \in Range6
                         /\ ~\E q \in Range6 : (r < q /\ q < n) \/ (n < q /\ q < r)
                         /\ IF agree THEN n <= r ELSE n >= r
                         /\ r < 120 => back = r
    BY Zenon DEF ResolutionLadder
  <2>1. time \in Nat /\ 8 * time \in Nat
    BY DEF ArgsInv
  <2>2. Step(r, FALSE, time) \in Range6
    BY <1>3, Zenon
  <2> HIDE DEF Step
  <2>3. /\ GetNextLedgerTimeResolution(r, agree, time) = Step(r, agree, time)
        /\ GetNextLedgerTimeResolution(r, FALSE, time) = Step(r, FALSE, time)
        /\ GetNextLedgerTimeResolution(Step(r, FALSE, time), TRUE, 8 * time)
             = Step(Step(r, FALSE, time), TRUE, 8 * time)
    BY <1>2, <2>1, <2>2, Zenon
  <2> DEFINE n == Step(r, agree, time)
             back == Step(Step(r, FALSE, time), TRUE, 8 * time)
  <2>4. /\ n \in Range6
        /\ ~\E q \in Range6 : (r < q /\ q < n) \/ (n < q /\ q < r)
        /\ IF agree THEN n <= r ELSE n >= r
        /\ r < 120 => back = r
    BY <1>4, Zenon
  <2>5. /\ n = GetNextLedgerTimeResolution(r, agree, time)
        /\ back = GetNextLedgerTimeResolution(
                    GetNextLedgerTimeResolution(r, FALSE, time), TRUE, 8 * time)
    BY <2>3, Zenon
  <2> HIDE DEF n, back
  <2> QED
    BY <2>4, <2>5, Zenon
<1> QED
  BY <1>5, ArgsInvHolds, PTL
-----------------------------------------------------------------------------
(* The votes of a disputed transaction.                                    *)
YesOf(e) == {p \in DOMAIN e.votes : e.votes[p]}
NoOf(e) == DOMAIN e.votes \ YesOf(e)
Exact(e) == e.yays = Cardinality(YesOf(e)) /\ e.nays = Cardinality(NoOf(e))

VoteMaps == UNION {[P -> BOOLEAN] : P \in SUBSET Peers}

\* A dispute whose counts are integers.
Shapes ==
    [votes : VoteMaps, yays : Int, nays : Int, our : BOOLEAN, held : 0..VoteCap,
     state : AvalancheStates, rounds : 0..Parms.avMinRounds]

VoteInv ==
    /\ d \in Shapes /\ Exact(d)
    /\ proposing \in BOOLEAN
    /\ percent \in Percents \cup {0} /\ unchanged \in 0..Parms.avStalledRounds
    /\ changes \in 0..MaxChanges

LEMMA Rounds ==
    /\ Parms.avMinRounds \in Nat /\ Parms.avStalledRounds \in Nat /\ VoteCap \in Nat
BY ParmsAssumption DEF ParmsFields, VoteCap, Larger

LEMMA VoteMapFacts ==
  ASSUME NEW v \in VoteMaps
  PROVE  /\ DOMAIN v \subseteq Peers /\ IsFiniteSet(DOMAIN v)
         /\ \A p \in DOMAIN v : v[p] \in BOOLEAN
<1>1. PICK P \in SUBSET Peers : v \in [P -> BOOLEAN]
  BY DEF VoteMaps
<1>2. IsFiniteSet(P)
  BY PeersAssumption, FS_Subset
<1> QED
  BY <1>1, <1>2

LEMMA CountFacts ==
  ASSUME NEW e \in Shapes
  PROVE  /\ IsFiniteSet(YesOf(e)) /\ IsFiniteSet(NoOf(e))
         /\ YesOf(e) \subseteq Peers /\ NoOf(e) \subseteq Peers
         /\ Cardinality(YesOf(e)) \in 0..Cardinality(Peers)
         /\ Cardinality(NoOf(e)) \in 0..Cardinality(Peers)
<1>1. e.votes \in VoteMaps
  BY DEF Shapes
<1>2. YesOf(e) \subseteq Peers /\ NoOf(e) \subseteq Peers
  BY <1>1, VoteMapFacts DEF YesOf, NoOf
<1>3. /\ IsFiniteSet(YesOf(e)) /\ Cardinality(YesOf(e)) <= Cardinality(Peers)
      /\ IsFiniteSet(NoOf(e)) /\ Cardinality(NoOf(e)) <= Cardinality(Peers)
  BY <1>2, PeersAssumption, FS_Subset
<1> QED
  BY <1>2, <1>3, PeersAssumption, FS_CardinalityType

\* set_vote keeps the counts exact, whether the vote is new, changed or the same.
LEMMA SetVoteExact ==
  ASSUME NEW e \in Shapes, Exact(e), NEW p \in Peers, NEW yes \in BOOLEAN
  PROVE  SetVote(e, p, yes) \in Shapes /\ Exact(SetVote(e, p, yes))
<1>1. CASE ~VoteChanges(e, p, yes)
  BY <1>1 DEF SetVote
<1>2. CASE VoteChanges(e, p, yes)
  <2> DEFINE f == SetVote(e, p, yes)
             v == [q \in DOMAIN e.votes \cup {p} |-> IF q = p THEN yes ELSE e.votes[q]]
             was(b) == Bit(p \in DOMAIN e.votes /\ e.votes[p] = b)
             b1 == Bit(yes)
             b0 == Bit(~yes)
             w1 == was(TRUE)
             w0 == was(FALSE)
  <2>1. e.votes \in VoteMaps
    BY DEF Shapes
  <2>2. v \in [DOMAIN e.votes \cup {p} -> BOOLEAN] /\ DOMAIN e.votes \cup {p} \subseteq Peers
    BY <2>1, VoteMapFacts
  <2>3. v \in VoteMaps
    BY <2>2, Zenon DEF VoteMaps
  <2>4. f = [e EXCEPT !.votes = v, !.yays = @ + Bit(yes) - was(TRUE),
                      !.nays = @ + Bit(~yes) - was(FALSE)]
    BY <1>2 DEF SetVote
  <2> DEFINE y == e.yays + b1 - w1
             n == e.nays + b0 - w0
  <2>5. e.yays \in Int /\ e.nays \in Int /\ y \in Int /\ n \in Int
    BY DEF Bit, Shapes
  <2>6. f \in Shapes /\ f.votes = v /\ f.yays = y /\ f.nays = n
    <3>1. f = [e EXCEPT !.votes = v, !.yays = y, !.nays = n]
      BY <2>4 DEF Shapes
    <3> HIDE DEF v, y, n, f
    <3> QED BY <2>3, <2>5, <3>1, Zenon DEF Shapes
  <2> HIDE DEF f
  <2>7. /\ yes => YesOf(f) = YesOf(e) \cup {p} /\ NoOf(f) = NoOf(e) \ {p}
        /\ ~yes => YesOf(f) = YesOf(e) \ {p} /\ NoOf(f) = NoOf(e) \cup {p}
    BY <2>1, <2>6, VoteMapFacts DEF YesOf, NoOf
  <2>8. /\ w1 = (IF p \in YesOf(e) THEN 1 ELSE 0) /\ w0 = (IF p \in NoOf(e) THEN 1 ELSE 0)
        /\ yes => p \notin YesOf(e)
        /\ ~yes => p \notin NoOf(e)
    BY <1>2, <2>1, VoteMapFacts DEF VoteChanges, YesOf, NoOf, Bit
  <2>9. /\ Cardinality(YesOf(e) \cup {p}) =
             IF p \in YesOf(e) THEN Cardinality(YesOf(e)) ELSE Cardinality(YesOf(e)) + 1
        /\ Cardinality(NoOf(e) \cup {p}) =
             IF p \in NoOf(e) THEN Cardinality(NoOf(e)) ELSE Cardinality(NoOf(e)) + 1
    BY CountFacts, FS_AddElement, Zenon
  <2>10. /\ Cardinality(YesOf(e) \ {p}) =
              IF p \in YesOf(e) THEN Cardinality(YesOf(e)) - 1 ELSE Cardinality(YesOf(e))
         /\ Cardinality(NoOf(e) \ {p}) =
              IF p \in NoOf(e) THEN Cardinality(NoOf(e)) - 1 ELSE Cardinality(NoOf(e))
    BY CountFacts, FS_RemoveElement, Zenon
  <2>11. Cardinality(YesOf(e)) \in Int /\ Cardinality(NoOf(e)) \in Int
    BY CountFacts
  <2>12. Exact(f)
    <3>0. e.yays = Cardinality(YesOf(e)) /\ e.nays = Cardinality(NoOf(e))
      BY DEF Exact
    <3>1. CASE yes
      <4>1. b1 = 1 /\ b0 = 0
        BY <3>1 DEF Bit
      <4>2. w1 = 0 /\ w0 = IF p \in NoOf(e) THEN 1 ELSE 0
        BY <3>1, <2>8
      <4>3. /\ Cardinality(YesOf(f)) = Cardinality(YesOf(e)) + 1
            /\ Cardinality(NoOf(f)) = Cardinality(NoOf(e))
                                         - (IF p \in NoOf(e) THEN 1 ELSE 0)
        <5>1. YesOf(f) = YesOf(e) \cup {p} /\ NoOf(f) = NoOf(e) \ {p} /\ p \notin YesOf(e)
          BY <3>1, <2>7, <2>8
        <5>2. Cardinality(YesOf(f)) = Cardinality(YesOf(e)) + 1
          BY <5>1, <2>9
        <5>3. Cardinality(NoOf(f)) = IF p \in NoOf(e) THEN Cardinality(NoOf(e)) - 1
                                                    ELSE Cardinality(NoOf(e))
          BY <5>1, <2>10
        <5> QED
          BY <5>2, <5>3, <2>11
      <4> HIDE DEF b1, b0, w1, w0, v, was
      <4> QED
        BY <3>0, <4>1, <4>2, <4>3, <2>5, <2>6, <2>11 DEF Exact
    <3>2. CASE ~yes
      <4>1. b1 = 0 /\ b0 = 1
        BY <3>2 DEF Bit
      <4>2. w0 = 0 /\ w1 = IF p \in YesOf(e) THEN 1 ELSE 0
        BY <3>2, <2>8
      <4>3. /\ Cardinality(NoOf(f)) = Cardinality(NoOf(e)) + 1
            /\ Cardinality(YesOf(f)) = Cardinality(YesOf(e))
                                         - (IF p \in YesOf(e) THEN 1 ELSE 0)
        <5>1. NoOf(f) = NoOf(e) \cup {p} /\ YesOf(f) = YesOf(e) \ {p} /\ p \notin NoOf(e)
          BY <3>2, <2>7, <2>8
        <5>2. Cardinality(NoOf(f)) = Cardinality(NoOf(e)) + 1
          BY <5>1, <2>9
        <5>3. Cardinality(YesOf(f)) = IF p \in YesOf(e) THEN Cardinality(YesOf(e)) - 1
                                                    ELSE Cardinality(YesOf(e))
          BY <5>1, <2>10
        <5> QED
          BY <5>2, <5>3, <2>11
      <4> HIDE DEF b1, b0, w1, w0, v, was
      <4> QED
        BY <3>0, <4>1, <4>2, <4>3, <2>5, <2>6, <2>11 DEF Exact
    <3> QED BY <3>1, <3>2
  <2> QED
    BY <2>6, <2>12 DEF f
<1> QED
  BY <1>1, <1>2

\* un_vote keeps the counts exact.
LEMMA UnVoteExact ==
  ASSUME NEW e \in Shapes, Exact(e), NEW p \in Peers
  PROVE  UnVote(e, p) \in Shapes /\ Exact(UnVote(e, p))
<1>1. CASE p \notin DOMAIN e.votes
  BY <1>1 DEF UnVote
<1>2. CASE p \in DOMAIN e.votes
  <2> DEFINE f == UnVote(e, p)
             v == [q \in DOMAIN e.votes \ {p} |-> e.votes[q]]
             b1 == Bit(e.votes[p])
             b0 == Bit(~e.votes[p])
             y == e.yays - b1
             n == e.nays - b0
  <2>1. e.votes \in VoteMaps
    BY DEF Shapes
  <2>2. v \in [DOMAIN e.votes \ {p} -> BOOLEAN] /\ DOMAIN e.votes \ {p} \subseteq Peers
    BY <2>1, VoteMapFacts
  <2>3. v \in VoteMaps
    BY <2>2, Zenon DEF VoteMaps
  <2>4. e.yays \in Int /\ e.nays \in Int /\ y \in Int /\ n \in Int
    BY DEF Bit, Shapes
  <2>5. f = [e EXCEPT !.votes = v, !.yays = y, !.nays = n]
    BY <1>2 DEF UnVote, Restrict, Shapes
  <2>6. f \in Shapes /\ f.votes = v /\ f.yays = y /\ f.nays = n
    <3> HIDE DEF v, y, n, f
    <3> QED BY <2>3, <2>4, <2>5, Zenon DEF Shapes
  <2> HIDE DEF f
  <2>7. YesOf(f) = YesOf(e) \ {p} /\ NoOf(f) = NoOf(e) \ {p}
    BY <1>2, <2>1, <2>6, VoteMapFacts DEF YesOf, NoOf
  <2>8. /\ b1 = (IF p \in YesOf(e) THEN 1 ELSE 0) /\ b0 = (IF p \in NoOf(e) THEN 1 ELSE 0)
    BY <1>2, <2>1, VoteMapFacts DEF YesOf, NoOf, Bit
  <2>9. /\ Cardinality(YesOf(e) \ {p}) =
              IF p \in YesOf(e) THEN Cardinality(YesOf(e)) - 1 ELSE Cardinality(YesOf(e))
        /\ Cardinality(NoOf(e) \ {p}) =
              IF p \in NoOf(e) THEN Cardinality(NoOf(e)) - 1 ELSE Cardinality(NoOf(e))
    BY CountFacts, FS_RemoveElement, Zenon
  <2>10. Cardinality(YesOf(e)) \in Int /\ Cardinality(NoOf(e)) \in Int
    BY CountFacts
  <2>11. Cardinality(YesOf(f)) = Cardinality(YesOf(e)) - b1
         /\ Cardinality(NoOf(f)) = Cardinality(NoOf(e)) - b0
    <3> HIDE DEF b1, b0
    <3> QED BY <2>7, <2>8, <2>9, <2>10
  <2>12. Exact(f)
    <3>1. e.yays = Cardinality(YesOf(e)) /\ e.nays = Cardinality(NoOf(e))
      BY DEF Exact
    <3> HIDE DEF b1, b0, v
    <3> QED BY <2>6, <2>11, <3>1 DEF Exact
  <2> QED
    BY <2>6, <2>12 DEF f
<1> QED
  BY <1>1, <1>2

LEMMA StateFacts ==
  ASSUME NEW s \in AvalancheStates, NEW t, NEW r, NEW m
  PROVE  /\ NeededState(s, t, r, m) \in AvalancheStates
         /\ AvalancheCutoffs[s].next \in AvalancheStates
         /\ AvalancheCutoffs[s].time \in Nat
         /\ AvalancheCutoffs[s].pct \in {50, 65, 70, 95}
         /\ AvalancheCutoffs[AvalancheCutoffs[s].next].time >= AvalancheCutoffs[s].time
BY DEF AvalancheStates, AvalancheCutoffs, NeededState, Advances

\* update_vote leaves the peers' votes and their counts alone.
LEMMA UpdateVoteExact ==
  ASSUME NEW e \in Shapes, Exact(e), NEW t \in Int, NEW b \in BOOLEAN
  PROVE  /\ UpdateVote(e, t, b) \in Shapes
         /\ UpdateVote(e, t, b).votes = e.votes
         /\ Exact(UpdateVote(e, t, b))
<1>1. CASE Uncontested(e)
  BY <1>1 DEF UpdateVote
<1>2. CASE ~Uncontested(e)
  <2> DEFINE f == UpdateVote(e, t, b)
             n == Smaller(e.rounds + 1, Parms.avMinRounds)
             s == NeededState(e.state, t, n, Parms.avMinRounds)
             v == NewPosition(e, t, b)
             r == IF s # e.state THEN 0 ELSE n
             h == IF v = e.our THEN Smaller(e.held + 1, VoteCap) ELSE 0
  <2>1. f = [e EXCEPT !.state = s, !.rounds = r, !.our = v, !.held = h]
    BY <1>2 DEF UpdateVote, Shapes
  <2>2. s \in AvalancheStates
    BY StateFacts DEF Shapes
  <2>3. r \in 0..Parms.avMinRounds /\ h \in 0..VoteCap
    <3> HIDE DEF s, v
    <3> QED BY Rounds DEF Smaller, Shapes
  <2>4. v \in BOOLEAN
    <3>1. CASE b
      <4>1. v = (((e.yays + Bit(e.our)) * 100) \div (e.nays + e.yays + 1)
                   > NeededWeight(e.state, t, n, Parms.avMinRounds))
        BY <3>1 DEF NewPosition
      <4> QED BY <4>1
    <3>2. CASE ~b
      <4>1. v = (e.yays > e.nays)
        BY <3>2 DEF NewPosition
      <4> QED BY <4>1
    <3> QED BY <3>1, <3>2
  <2>5. f \in Shapes /\ f.votes = e.votes /\ f.yays = e.yays /\ f.nays = e.nays
    <3> HIDE DEF s, r, v, h, f
    <3> QED BY <2>1, <2>2, <2>3, <2>4, Zenon DEF Shapes
  <2> HIDE DEF f
  <2>6. Exact(f)
    BY <2>5 DEF Exact, YesOf, NoOf
  <2> QED
    BY <2>5, <2>6 DEF f
<1> QED
  BY <1>1, <1>2

\* The inductive invariant: the shape of the record and the exact counts.
LEMMA VoteInvHolds == Spec => []VoteInv
<1>1. Init => VoteInv
  <2> SUFFICES ASSUME Init PROVE VoteInv
    OBVIOUS
  <2>1. PICK b \in BOOLEAN : d = NewDispute(b)
    BY DEF Init
  <2>2. <<>> \in VoteMaps
    <3>1. <<>> \in [{} -> BOOLEAN]
      OBVIOUS
    <3> QED BY <3>1, Zenon DEF VoteMaps
  <2>3. d \in Shapes
    BY <2>1, <2>2, Rounds DEF NewDispute, Shapes, AvalancheStates
  <2>4. YesOf(d) = {} /\ NoOf(d) = {}
    BY <2>1 DEF NewDispute, YesOf, NoOf
  <2>5. Exact(d)
    BY <2>1, <2>4, FS_EmptySet DEF Exact, NewDispute
  <2> QED
    BY <2>3, <2>5, Rounds, PercentsAssumption DEF Init, VoteInv
<1>2. VoteInv /\ [Next]_vars => VoteInv'
  <2> SUFFICES ASSUME VoteInv, [Next]_vars PROVE VoteInv'
    OBVIOUS
  <2>1. ASSUME NEW p \in Peers, NEW yes \in BOOLEAN, PeerVotes(p, yes) PROVE VoteInv'
    <3>1. d' \in Shapes /\ Exact(d')
      BY <2>1, SetVoteExact DEF VoteInv, PeerVotes
    <3> QED BY <2>1, <3>1, Rounds, PercentsAssumption DEF VoteInv, PeerVotes
  <2>2. ASSUME NEW p \in Peers, PeerDropped(p) PROVE VoteInv'
    <3>1. d' \in Shapes /\ Exact(d')
      BY <2>2, UnVoteExact DEF VoteInv, PeerDropped
    <3> QED BY <2>2, <3>1, PercentsAssumption DEF VoteInv, PeerDropped
  <2>3. CASE Tick
    <3>1. percent' \in Percents /\ percent' \in Int
      BY <2>3, PercentsAssumption DEF Tick
    <3>2. d' \in Shapes /\ Exact(d')
      BY <2>3, <3>1, UpdateVoteExact DEF VoteInv, Tick
    <3>3. unchanged' \in 0..Parms.avStalledRounds
      BY <2>3, Rounds DEF VoteInv, Tick, Smaller
    <3> QED BY <2>3, <3>1, <3>2, <3>3 DEF VoteInv, Tick
  <2>4. CASE Leave
    BY <2>4, Zenon DEF VoteInv, Leave
  <2>5. CASE UNCHANGED vars
    BY <2>5 DEF VoteInv, vars
  <2> QED
    BY <2>1, <2>2, <2>3, <2>4, <2>5 DEF Next
<1> QED
  BY <1>1, <1>2, PTL DEF Spec

\* Every field of a DisputedTx stays in its range, for any peers and votes.
THEOREM TypeCorrect == Spec => []TypeOK
<1>1. VoteInv => TypeOK
  <2> SUFFICES ASSUME VoteInv PROVE TypeOK
    OBVIOUS
  <2>1. d.yays \in 0..Cardinality(Peers) /\ d.nays \in 0..Cardinality(Peers)
    BY CountFacts DEF VoteInv, Exact
  <2>2. d \in Disputes
    BY <2>1 DEF VoteInv, Shapes, Disputes, VoteMaps
  <2> QED
    BY <2>2 DEF VoteInv, TypeOK
<1> QED
  BY <1>1, VoteInvHolds, PTL

\* set_vote and un_vote keep the cached counts equal to the votes, whatever the
\* order in which peers vote, change their votes and are dropped.
THEOREM CountsAreExact == Spec => []CountsAreVotes
<1>1. VoteInv => CountsAreVotes
  BY DEF VoteInv, Exact, CountsAreVotes, YesOf, NoOf, Yes, No
<1> QED
  BY <1>1, VoteInvHolds, PTL

LEMMA InvCounts ==
  ASSUME VoteInv
  PROVE  /\ d.yays = Cardinality(Yes) /\ d.nays = Cardinality(No)
         /\ d.yays \in Nat /\ d.nays \in Nat
<1>1. Yes = YesOf(d) /\ No = NoOf(d)
  BY DEF Yes, No, YesOf, NoOf
<1>2. d \in Shapes /\ Exact(d)
  BY DEF VoteInv
<1>3. Cardinality(YesOf(d)) \in Nat /\ Cardinality(NoOf(d)) \in Nat
  BY <1>2, CountFacts, FS_CardinalityType
<1> QED
  BY <1>1, <1>2, <1>3 DEF Exact

\* What a share computed with integer division says of the numbers it is of.
LEMMA ShareBounds ==
  ASSUME NEW x \in Nat, NEW y \in Nat, y > 0, NEW k \in Nat
  PROVE  LET q == (x * 100) \div y IN
         /\ q \in Int
         /\ q >= k => 100 * x >= k * y
         /\ q < k => 100 * x <= k * y
<1> DEFINE q == (x * 100) \div y
<1>1. q \in Int /\ q * y <= x * 100 /\ x * 100 < (q + 1) * y
  OBVIOUS
<1> HIDE DEF q
<1>2. q * y \in Int /\ (q + 1) * y \in Int /\ k * y \in Int
  BY <1>1
<1>3. q >= k => k * y <= q * y
  BY <1>1
<1>4. q < k => (q + 1) * y <= k * y
  BY <1>1
<1>5. (q >= k => 100 * x >= k * y) /\ (q < k => 100 * x <= k * y)
  BY <1>1, <1>2, <1>3, <1>4
<1> QED
  BY <1>1, <1>5 DEF q

\* stalled gives a dispute up only in the last avalanche state and with
\* min_consensus_pct of all votes, ours included, on one side.
THEOREM StalledDisputesAreDecided == Spec => []StalledIsDecided
<1>1. VoteInv => StalledIsDecided
  <2> SUFFICES ASSUME VoteInv, IsStalled
               PROVE  LET for == Cardinality(Yes) + Bit(proposing /\ d.our)
                          all == Cardinality(Yes) + Cardinality(No) + Bit(proposing)
                      IN /\ d.state = "Stuck"
                         /\ 100 * for >= MinConsensusPct * all
                              \/ 100 * for <= (100 - MinConsensusPct) * all
    BY DEF StalledIsDecided
  <2> DEFINE for == Cardinality(Yes) + Bit(proposing /\ d.our)
             all == Cardinality(Yes) + Cardinality(No) + Bit(proposing)
  <2>1. /\ d.yays = Cardinality(Yes) /\ d.nays = Cardinality(No)
        /\ Cardinality(Yes) \in Nat /\ Cardinality(No) \in Nat
    BY InvCounts
  <2>2. d.state = "Stuck"
    <3>1. /\ d.state \in AvalancheStates
          /\ AvalancheCutoffs[AvalancheCutoffs[d.state].next].time
               <= AvalancheCutoffs[d.state].time
      BY DEF VoteInv, Shapes, IsStalled, Stalled
    <3> QED BY <3>1 DEF AvalancheStates, AvalancheCutoffs
  <2>3. for \in Nat /\ all \in Nat
    BY <2>1 DEF Bit
  <2>4. all > 0 /\ Support(d, proposing) = (for * 100) \div all
    <3>1. d.nays + d.yays + Bit(proposing) = all
      BY <2>1 DEF Bit
    <3> QED BY <2>1, <3>1 DEF Support, IsStalled, Stalled
  <2>5. Support(d, proposing) > 80 \/ Support(d, proposing) < 20
    BY DEF IsStalled, Stalled, MinConsensusPct
  <2> HIDE DEF for, all
  <2>6. 100 * for >= 80 * all \/ 100 * for <= 20 * all
    BY <2>3, <2>4, <2>5, ShareBounds
  <2> QED
    BY <2>2, <2>6 DEF for, all, MinConsensusPct
<1> QED
  BY <1>1, VoteInvHolds, PTL

\* update_vote: the avalanche only moves forwards, and we come round to a
\* transaction only when more peers vote for it than against it.
THEOREM VotesFollowTheMajority == Spec => VotesFollowMajority
<1> DEFINE Step == /\ AvalancheCutoffs[d'.state].time >= AvalancheCutoffs[d.state].time
                   /\ d'.our /\ ~d.our => Cardinality(Yes) > Cardinality(No)
<1>1. VoteInv /\ [Next]_vars => [Step]_vars
  <2> SUFFICES ASSUME VoteInv, Next PROVE Step
    OBVIOUS
  <2>0. d.state \in AvalancheStates /\ AvalancheCutoffs[d.state].time \in Nat
    BY StateFacts DEF VoteInv, Shapes
  <2>1. ASSUME d'.state = d.state, d'.our = d.our PROVE Step
    BY <2>0, <2>1
  <2>2. ASSUME NEW p \in Peers, NEW yes \in BOOLEAN, PeerVotes(p, yes) PROVE Step
    BY <2>1, <2>2 DEF PeerVotes, SetVote, VoteInv, Shapes
  <2>3. ASSUME NEW p \in Peers, PeerDropped(p) PROVE Step
    BY <2>1, <2>3 DEF PeerDropped, UnVote, VoteInv, Shapes
  <2>4. CASE Leave
    BY <2>1, <2>4 DEF Leave
  <2>5. CASE Tick
    <3>1. CASE Uncontested(d)
      BY <2>1, <2>5, <3>1 DEF Tick, UpdateVote
    <3>2. CASE ~Uncontested(d)
      <4> DEFINE n == Smaller(d.rounds + 1, Parms.avMinRounds)
                 s == NeededState(d.state, percent', n, Parms.avMinRounds)
                 v == NewPosition(d, percent', proposing)
      <4>1. d'.state = s /\ d'.our = v
        BY <2>5, <3>2 DEF Tick, UpdateVote, VoteInv, Shapes
      <4>2. /\ s \in AvalancheStates /\ AvalancheCutoffs[s].time >= AvalancheCutoffs[d.state].time
            /\ AvalancheCutoffs[s].pct >= 50 /\ AvalancheCutoffs[s].pct \in Nat
        <5>1. s = d.state \/ s = AvalancheCutoffs[d.state].next
          BY DEF NeededState
        <5>2. s \in AvalancheStates
          BY <2>0, StateFacts
        <5> HIDE DEF s
        <5> QED BY <2>0, <5>1, <5>2, StateFacts
      <4>3. /\ d.yays = Cardinality(Yes) /\ d.nays = Cardinality(No)
            /\ d.yays \in Nat /\ d.nays \in Nat
        BY InvCounts
      <4>4. ASSUME v, ~d.our PROVE d.yays > d.nays
        <5>1. CASE ~proposing
          BY <4>4, <5>1 DEF NewPosition
        <5>2. CASE proposing
          <6>1. ((d.yays + 0) * 100) \div (d.nays + d.yays + 1) > AvalancheCutoffs[s].pct
            BY <4>4, <5>2 DEF NewPosition, NeededWeight, Bit
          <6>2. d.yays + 0 = d.yays /\ d.nays + d.yays + 1 \in Nat /\ d.nays + d.yays + 1 > 0
            BY <4>3
          <6>3. (d.yays * 100) \div (d.nays + d.yays + 1) >= 50
            <7> HIDE DEF s
            <7>1. (d.yays * 100) \div (d.nays + d.yays + 1) \in Int
              BY <4>3, <6>2, ShareBounds
            <7> QED BY <4>2, <6>1, <6>2, <7>1
          <6>4. 100 * d.yays >= 50 * (d.nays + d.yays + 1)
            BY <4>3, <6>2, <6>3, ShareBounds
          <6> QED BY <4>3, <6>4
        <5> QED BY <5>1, <5>2
      <4> HIDE DEF s, v
      <4> QED BY <4>1, <4>2, <4>3, <4>4
    <3> QED BY <3>1, <3>2
  <2> QED
    BY <2>2, <2>3, <2>4, <2>5 DEF Next
<1> QED
  BY <1>1, VoteInvHolds, PTL DEF VotesFollowMajority, Spec
=============================================================================
