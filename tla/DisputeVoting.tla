--------------------------- MODULE DisputeVoting ----------------------------
(***************************************************************************)
(* The life of one disputed transaction during the establish phase, as     *)
(* Consensus drives it: peers vote, change their vote, are dropped, and    *)
(* every timer tick updates our vote with the progress of the round.  The  *)
(* rest of the transactions are agreed on, so a peer agrees with our       *)
(* position exactly when its vote is ours.                                 *)
(***************************************************************************)
EXTENDS DisputedTx

CONSTANTS
    Percents,    \* values of converge_percent, which only grows
    MaxChanges   \* bound: votes set and removed

ASSUME PercentsAssumption == Percents \subseteq Nat /\ MaxChanges \in Nat

VARIABLES
    d,              \* the DisputedTx
    proposing,      \* mode == Proposing
    percent,        \* converge_percent
    unchanged,      \* peer_unchanged_counter
    changes

vars == <<d, proposing, percent, unchanged, changes>>

Init ==
    /\ \E b \in BOOLEAN : d = NewDispute(b)
    /\ proposing \in BOOLEAN
    /\ percent = 0 /\ unchanged = 0 /\ changes = 0

\* update_disputes for this transaction.
PeerVotes(p, yes) ==
    /\ changes < MaxChanges /\ changes' = changes + 1
    /\ unchanged' = IF VoteChanges(d, p, yes) THEN 0 ELSE unchanged
    /\ d' = SetVote(d, p, yes)
    /\ UNCHANGED <<proposing, percent>>

\* A peer bows out or its position is stale.
PeerDropped(p) ==
    /\ p \in DOMAIN d.votes
    /\ changes < MaxChanges /\ changes' = changes + 1
    /\ d' = UnVote(d, p)
    /\ UNCHANGED <<proposing, percent, unchanged>>

\* phase_establish: the counter, the percentage, and the loop over disputes.
Tick ==
    /\ unchanged' = Smaller(unchanged + 1, Parms.avStalledRounds)
    /\ \E q \in Percents : q >= percent /\ percent' = q
    /\ d' = UpdateVote(d, percent', proposing)
    /\ UNCHANGED <<proposing, changes>>

\* leave_consensus.
Leave ==
    /\ proposing /\ proposing' = FALSE
    /\ UNCHANGED <<d, percent, unchanged, changes>>

Next ==
    \/ \E p \in Peers : (\E yes \in BOOLEAN : PeerVotes(p, yes)) \/ PeerDropped(p)
    \/ Tick \/ Leave

Spec == Init /\ [][Next]_vars

\* The timer fires for as long as the round lasts, and time passes with it.
TimerIsFair == WF_vars(Tick) /\ \A q \in Percents : WF_vars(Tick /\ percent' >= q)
FairSpec == Spec /\ TimerIsFair
-----------------------------------------------------------------------------
Yes == {p \in DOMAIN d.votes : d.votes[p]}
No == DOMAIN d.votes \ Yes
IsStalled == Stalled(d, proposing, unchanged)

\* The fields of a DisputedTx stay in their ranges, whatever the order of votes.
TypeOK ==
    /\ d \in Disputes /\ proposing \in BOOLEAN
    /\ percent \in Percents \cup {0} /\ unchanged \in 0..Parms.avStalledRounds
    /\ changes \in 0..MaxChanges

\* set_vote and un_vote keep the cached counts equal to the votes.
CountsAreVotes == d.yays = Cardinality(Yes) /\ d.nays = Cardinality(No)

\* stalled: a dispute is given up only in the last avalanche state, where the
\* votes for one side, ours included, are at least min_consensus_pct of all.
StalledIsDecided ==
    IsStalled =>
      LET for == Cardinality(Yes) + Bit(proposing /\ d.our)
          all == Cardinality(Yes) + Cardinality(No) + Bit(proposing)
      IN /\ d.state = "Stuck"
         /\ 100 * for >= MinConsensusPct * all
              \/ 100 * for <= (100 - MinConsensusPct) * all

\* update_vote: avalanche states are left only forwards, and we change our vote
\* to yes only with more peers for the transaction than against it.
VotesFollowMajority ==
    [][/\ AvalancheCutoffs[d'.state].time >= AvalancheCutoffs[d.state].time
       /\ d'.our /\ ~d.our => Cardinality(Yes) > Cardinality(No)]_vars

\* Votes that stay as they are lead to a vote of ours that stays.
VoteSettles == <>[][d'.our = d.our]_vars
=============================================================================
