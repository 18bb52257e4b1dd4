------------------------- MODULE ConsensusDecisions -------------------------
(***************************************************************************)
(* What the decisions of ConsensusFunctions promise, over bounded          *)
(* arguments.  A state holds a time and a number of proposers; ArgsNext   *)
(* counts the time up, as the timer does.                                  *)
(***************************************************************************)
EXTENDS ConsensusFunctions

CONSTANTS MaxTime, MaxProposers

ASSUME DecisionsAssumption == MaxTime \in Nat /\ MaxProposers \in Nat

VARIABLES time, proposers
args == <<time, proposers>>

ArgsInit == time = 0 /\ proposers \in 0..MaxProposers
ArgsNext == time < MaxTime /\ time' = time + 1 /\ UNCHANGED proposers
ArgsSpec == ArgsInit /\ [][ArgsNext]_args

PrevTimes == {0, Parms.minConsensus, Parms.maxConsensus, Parms.abandon}
PrevProposers == {0, 1, MaxProposers, 2 * MaxProposers}
Range6 == {Resolutions[i] : i \in 1..6}

\* check_consensus with the rest of its arguments.
Outcome(agree, finished, prevProps, prevTime, at, stalled, proposing) ==
    CheckConsensus(prevProps, proposers, agree, finished, prevTime, at, stalled,
                   proposing)

\* check_consensus: a round cannot stay undecided for ever, whatever the votes:
\* once the abandon limit and the slow start are over the answer is never No.
RoundMustEnd ==
    \A agree, finished \in 0..proposers, pp \in PrevProposers, pt \in PrevTimes,
       stalled, proposing \in BOOLEAN :
      time > Larger(Parms.abandon, pt + Parms.minConsensus) =>
        Outcome(agree, finished, pp, pt, time, stalled, proposing) # "No"

\* check_consensus: Yes without a stall takes four fifths of the proposers (and
\* of us, if we propose), or nobody there at all for maxConsensus.
YesNeedsAgreement ==
    \A agree, finished \in 0..proposers, pp \in PrevProposers, pt \in PrevTimes,
       proposing \in BOOLEAN :
      LET one == IF proposing THEN 1 ELSE 0 IN
      Outcome(agree, finished, pp, pt, time, FALSE, proposing) = "Yes" =>
        \/ proposers = 0 /\ time > Parms.maxConsensus
        \/ proposers > 0 /\ 5 * (agree + one) >= 4 * (proposers + one)

\* should_pause: within one cycle of five ledgers ahead of the validated one, the
\* patience with laggards only grows, more laggards never end a pause, and a round
\* longer than ledger_max_consensus is not paused.
PatienceGrows ==
    \A quorum, laggards, offline \in 0..proposers, ahead \in Nat \ {0} :
      laggards + offline <= proposers /\
      ShouldPause(ahead, proposers, quorum, laggards, offline, TRUE, time) =>
        /\ time <= Parms.maxConsensus
        /\ ahead % 5 # 0 =>
             ShouldPause(ahead + 1, proposers, quorum, laggards, offline, TRUE, time)
        /\ laggards + offline < proposers =>
             ShouldPause(ahead, proposers, quorum, laggards + 1, offline, TRUE, time)

\* participants_needed: a threshold that the participants can reach, that is
\* never zero, and that a close time needs more than half of them to pass as
\* consensus, but for two participants.
ThresholdsReachable ==
    \A pct \in {50, 65, 70, 75, 95} :
      LET need == ParticipantsNeeded(proposers, pct) IN
      /\ need >= 1 /\ (proposers > 0 => need <= proposers)
      /\ pct = AvCtConsensusPct /\ proposers > 2 => 2 * need > proposers

\* round_close_time: the multiple of the resolution nearest to the time, the
\* later of two; effective_close_time is never at or before the parent's.
CloseTimeIsNearest ==
    \A r \in Range6 :
      LET m == RoundCloseTime(time, r) IN
      /\ m % r = 0
      /\ time > 0 => 2 * m - 2 * time <= r /\ 2 * time - 2 * m < r
      /\ \A prior \in {0, time, time + 1, m} :
           time > 0 => EffectiveCloseTime(time, r, prior) > prior

\* get_next_ledger_time_resolution: a step of at most one on the ladder, to the
\* coarser side after disagreement and the finer after agreement; eight ledgers
\* in agreement make up for one in disagreement.
ResolutionLadder ==
    \A r \in Range6, agree \in BOOLEAN :
      LET n == GetNextLedgerTimeResolution(r, agree, time)
          back == GetNextLedgerTimeResolution(GetNextLedgerTimeResolution(r, FALSE, time),
                                              TRUE, 8 * time)
      IN /\ n \in Range6
         /\ ~\E q \in Range6 : (r < q /\ q < n) \/ (n < q /\ q < r)
         /\ IF agree THEN n <= r ELSE n >= r
         /\ r < 120 => back = r
=============================================================================
