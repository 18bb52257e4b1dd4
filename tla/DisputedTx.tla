----------------------------- MODULE DisputedTx -----------------------------
(***************************************************************************)
(* A transaction in dispute: xrpld/consensus/src/model/disputed_tx.rs.     *)
(*                                                                         *)
(* A dispute is a record: the peers' votes, the cached counts of yes and no *)
(* votes, our own vote, the rounds we have held it, and the avalanche state *)
(* with the rounds spent in it.  The two counters are only compared with   *)
(* avMinRounds and avStalledRounds and stop counting there.                *)
(***************************************************************************)
EXTENDS ConsensusFunctions, FiniteSets, Functions

CONSTANT Peers

ASSUME PeersAssumption == IsFiniteSet(Peers)

VoteCap == Larger(Parms.avMinRounds, Parms.avStalledRounds)
Bit(b) == IF b THEN 1 ELSE 0

Disputes ==
    [votes : UNION {[P -> BOOLEAN] : P \in SUBSET Peers},
     yays : 0..Cardinality(Peers), nays : 0..Cardinality(Peers),
     our : BOOLEAN, held : 0..VoteCap,
     state : AvalancheStates, rounds : 0..Parms.avMinRounds]

\* No peer votes against our vote.
Uncontested(d) == IF d.our THEN d.nays = 0 ELSE d.yays = 0
-----------------------------------------------------------------------------
(* Mutated forms.                                                          *)

\* a majority, with our own vote counted on the other side.
MutNewPosition(d, percentTime, proposing) == d.yays + Bit(~d.our) > d.nays + Bit(d.our)
\* a removed vote that stays counted.
MutUnVote(d, p) ==
    [d EXCEPT !.votes = Restrict(d.votes, DOMAIN d.votes \ {p})]
\* the last test of stalled left out.
MutStalled(d, proposing, peersUnchanged) ==
    /\ AvalancheCutoffs[d.state].next = d.state
    /\ d.rounds >= Parms.avMinRounds
    /\ proposing => d.held >= Parms.avMinRounds
    /\ peersUnchanged >= Parms.avStalledRounds
-----------------------------------------------------------------------------
NewDispute(our) ==
    [votes |-> <<>>, yays |-> 0, nays |-> 0, our |-> our, held |-> 0,
     state |-> "Init", rounds |-> 0]

\* set_vote; it tells whether a vote is new or has changed.
VoteChanges(d, p, yes) == p \notin DOMAIN d.votes \/ d.votes[p] # yes
SetVote(d, p, yes) ==
    IF ~VoteChanges(d, p, yes) THEN d
    ELSE LET was(b) == Bit(p \in DOMAIN d.votes /\ d.votes[p] = b) IN
         [d EXCEPT !.votes = [q \in DOMAIN d.votes \cup {p} |->
                                IF q = p THEN yes ELSE d.votes[q]],
                   !.yays = @ + Bit(yes) - was(TRUE),
                   !.nays = @ + Bit(~yes) - was(FALSE)]

UnVote(d, p) ==
    IF p \notin DOMAIN d.votes THEN d
    ELSE [d EXCEPT !.votes = Restrict(d.votes, DOMAIN d.votes \ {p}),
                   !.yays = @ - Bit(d.votes[p]), !.nays = @ - Bit(~d.votes[p])]

\* The vote that the votes of the peers and the needed percentage ask for.
NewPosition(d, percentTime, proposing) ==
    LET n == Smaller(d.rounds + 1, Parms.avMinRounds) IN
    IF proposing
      THEN ((d.yays + Bit(d.our)) * 100) \div (d.nays + d.yays + 1)
             > NeededWeight(d.state, percentTime, n, Parms.avMinRounds)
      ELSE d.yays > d.nays

\* update_vote; our vote changes when it differs in the result.
UpdateVote(d, percentTime, proposing) ==
    IF Uncontested(d) THEN d
    ELSE LET n == Smaller(d.rounds + 1, Parms.avMinRounds)
             s == NeededState(d.state, percentTime, n, Parms.avMinRounds)
             v == NewPosition(d, percentTime, proposing)
         IN [d EXCEPT !.state = s,
                      !.rounds = IF s # d.state THEN 0 ELSE n,
                      !.our = v,
                      !.held = IF v = d.our THEN Smaller(@ + 1, VoteCap) ELSE 0]

\* The percentage of votes for the transaction, ours included.
Support(d, proposing) ==
    ((d.yays + Bit(proposing /\ d.our)) * 100)
      \div (d.nays + d.yays + Bit(proposing))

Stalled(d, proposing, peersUnchanged) ==
    LET cutoff == AvalancheCutoffs[d.state] IN
    /\ AvalancheCutoffs[cutoff.next].time <= cutoff.time
    /\ d.rounds >= Parms.avMinRounds
    /\ proposing => d.held >= Parms.avMinRounds
    /\ ~(peersUnchanged < Parms.avStalledRounds
           /\ proposing /\ d.held < Parms.avStalledRounds)
    /\ d.nays + d.yays + Bit(proposing) > 0
    /\ \/ Support(d, proposing) > MinConsensusPct
       \/ Support(d, proposing) < 100 - MinConsensusPct
=============================================================================
