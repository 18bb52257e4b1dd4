------------------------- MODULE ConsensusFunctions -------------------------
(***************************************************************************)
(* The decisions of the consensus algorithm that depend on nothing but     *)
(* their arguments: xrpld/consensus/src/algorithm/{params, types, functions,*)
(* timing}.rs.                                                             *)
(*                                                                         *)
(* Durations are numbers of one unit of time.  Percentages, rounds and the *)
(* avalanche table are those of ConsensusParms::default(); the durations   *)
(* are the fields of the record Parms, so that an instance can scale them. *)
(***************************************************************************)
EXTENDS Integers

CONSTANT Parms      \* the durations and round counts of ConsensusParms

ParmsFields == {"freshness", "interval", "idle", "minConsensus", "maxConsensus",
                "minClose", "abandonFactor", "abandon", "avMinConsensus",
                "avMinRounds", "avStalledRounds", "unexpected"}

\* What check_consensus needs of the durations: clamp panics otherwise.
ASSUME ParmsAssumption ==
    /\ Parms \in [ParmsFields -> Nat]
    /\ Parms.maxConsensus <= Parms.abandon
    /\ Parms.avMinConsensus > 0

MinConsensusPct == 80
AvCtConsensusPct == 75

Larger(a, b) == IF a >= b THEN a ELSE b
Smaller(a, b) == IF a <= b THEN a ELSE b
-----------------------------------------------------------------------------
(* Mutated forms.                                                          *)

\* the bound of the wait that the previous round's length is not clamped to.
MutAbandonAfter(prevAgreeTime) == prevAgreeTime * Parms.abandonFactor
\* rounding down, as integer division alone does.
MutRoundCloseTime(t, resolution) == t - (t % resolution)
\* ourselves counted among the agreeing but not in the total.
MutCheckConsensusReached(agreeing, total, countSelf, reachedMax, stalled) ==
    IF total = 0 THEN reachedMax
    ELSE stalled \/ ((agreeing + 1) * 100) \div total >= MinConsensusPct
-----------------------------------------------------------------------------
(* Avalanche.                                                              *)

AvalancheStates == {"Init", "Mid", "Late", "Stuck"}

AvalancheCutoffs ==
    [Init  |-> [time |-> 0,   pct |-> 50, next |-> "Mid"],
     Mid   |-> [time |-> 50,  pct |-> 65, next |-> "Late"],
     Late  |-> [time |-> 85,  pct |-> 70, next |-> "Stuck"],
     Stuck |-> [time |-> 200, pct |-> 95, next |-> "Stuck"]]

\* Whether the state gives way to the next one.
Advances(state, percentTime, rounds, minRounds) ==
    LET next == AvalancheCutoffs[state].next IN
    next # state /\ rounds >= minRounds /\ percentTime >= AvalancheCutoffs[next].time

\* get_needed_weight: the state from now on, and the percentage it asks for.
NeededState(state, percentTime, rounds, minRounds) ==
    IF Advances(state, percentTime, rounds, minRounds)
      THEN AvalancheCutoffs[state].next ELSE state
NeededWeight(state, percentTime, rounds, minRounds) ==
    AvalancheCutoffs[NeededState(state, percentTime, rounds, minRounds)].pct

ParticipantsNeeded(participants, percent) ==
    Larger(1, (participants * percent + percent \div 2) \div 100)
-----------------------------------------------------------------------------
(* Closing and agreeing.                                                   *)

ShouldCloseLedger(anyTxns, prevProposers, closed, validated, prevRound, sinceClose, open, idleInterval) ==
    \/ prevRound > Parms.unexpected \/ sinceClose > Parms.unexpected
    \/ closed + validated > prevProposers \div 2
    \/ IF anyTxns THEN open >= Parms.minClose /\ open >= prevRound \div 2
                  ELSE sinceClose >= idleInterval

CheckConsensusReached(agreeing, total, countSelf, reachedMax, stalled) ==
    LET one == IF countSelf THEN 1 ELSE 0 IN
    IF total = 0 THEN reachedMax
    ELSE stalled \/ ((agreeing + one) * 100) \div (total + one) >= MinConsensusPct

\* previous_agree_time * factor, clamped.
AbandonAfter(prevAgreeTime) ==
    Smaller(Larger(prevAgreeTime * Parms.abandonFactor, Parms.maxConsensus),
            Parms.abandon)

CheckConsensus(prevProposers, proposers, agree, finished, prevAgreeTime, agreeTime, stalled, proposing) ==
    LET reachedMax == agreeTime > Parms.maxConsensus IN
    CASE agreeTime <= Parms.minConsensus -> "No"
      [] agreeTime > Parms.minConsensus
           /\ proposers < (prevProposers * 3) \div 4
           /\ agreeTime < prevAgreeTime + Parms.minConsensus -> "No"
      [] OTHER ->
           IF CheckConsensusReached(agree, proposers, proposing, reachedMax, stalled)
             THEN "Yes"
           ELSE IF CheckConsensusReached(finished, proposers, FALSE, reachedMax, FALSE)
             THEN "MovedOn"
           ELSE IF agreeTime > AbandonAfter(prevAgreeTime) THEN "Expired" ELSE "No"

\* should_pause: the five phases of patience with laggards, repeated as the
\* ledgers we are ahead grow.  The comparison of 32-bit ratios is the comparison of
\* the exact ones, multiplied out.
PausePhase(ahead) == (ahead - 1) % 5
ShouldPause(ahead, total, quorum, laggards, offline, mayPause, roundTime) ==
    LET phase == PausePhase(ahead)
        unavailable == laggards + offline
        Minus(a, b) == Larger(0, a - b)
    IN
    /\ ahead > 0 /\ laggards > 0 /\ total > 0 /\ mayPause
    /\ roundTime <= Parms.maxConsensus
    /\ CASE phase = 0 -> unavailable > Minus(total, quorum)
         [] phase = 4 -> TRUE
         [] OTHER -> 4 * Minus(total, unavailable) < 4 * quorum + (total - quorum) * phase
-----------------------------------------------------------------------------
(* Close times.                                                            *)

Resolutions == <<10, 20, 30, 60, 90, 120>>
IsResolution(r) == \E i \in 1..6 : Resolutions[i] = r

GetNextLedgerTimeResolution(r, agree, seq) ==
    IF ~IsResolution(r) THEN r
    ELSE LET i == CHOOSE i \in 1..6 : Resolutions[i] = r IN
         IF ~agree THEN Resolutions[Smaller(6, i + 1)]
         ELSE IF seq % 8 = 0 THEN Resolutions[Larger(1, i - 1)] ELSE r

\* Zero is the unset close time and stays zero.
RoundCloseTime(t, resolution) ==
    IF t = 0 THEN 0
    ELSE LET shifted == t + resolution \div 2 IN shifted - (shifted % resolution)

EffectiveCloseTime(t, resolution, prior) ==
    IF t = 0 THEN 0 ELSE Larger(RoundCloseTime(t, resolution), prior + 1)
=============================================================================
