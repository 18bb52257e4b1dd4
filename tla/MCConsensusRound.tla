------------------------- MODULE MCConsensusRound --------------------------
(* Instances of ConsensusRound for TLC.                                    *)
EXTENDS ConsensusRound, TLC

CONSTANTS L0, L1, t1, t2, p1, p2

\* The durations of ConsensusParms::default() divided by about four, with the
\* order between them kept.
SmallParms ==
    [freshness |-> 4, interval |-> 3, idle |-> 2, minConsensus |-> 1,
     maxConsensus |-> 2, minClose |-> 1, abandonFactor |-> 2, abandon |-> 3,
     avMinConsensus |-> 2, avMinRounds |-> 1, avStalledRounds |-> 2,
     unexpected |-> 100]

Msg(p, prev, seq, set, ct) == [node |-> p, prev |-> prev, seq |-> seq, set |-> set, ct |-> ct]
Call(id, ledger, proposing) ==
    [id |-> id, ledger |-> ledger, proposing |-> proposing, untrusted |-> {}]
Answer(net, have, avail, open) ==
    [net |-> net, have |-> have, avail |-> avail, open |-> open,
     validated |-> 0, finished |-> 0, since |-> 20, pause |-> FALSE]

\* The network stays, moves on with its ledger at hand, or moves on without it.
SwitchAnswers ==
    {Answer(L0, {L0}, {}, {t1}), Answer(L1, {L1}, {{}}, {t1}), Answer(L1, {}, {{t1}}, {})}
SwitchCalls == {Call(L0, L0, TRUE), [Call(L1, L0, FALSE) EXCEPT !.untrusted = Peers]}
SwitchMessages ==
    {Msg(p, l, s, {}, 21) : p \in Peers, l \in Ledgers, s \in {0, Leave}}

\* One ledger: two transactions, sets that arrive at once or later.
RoundAnswers ==
    {Answer(L0, {}, SUBSET Txs, {t1}),
     [Answer(L0, {}, {}, {}) EXCEPT !.finished = 2, !.pause = TRUE]}
RoundCalls == {Call(L0, L0, TRUE)}
RoundMessages ==
    {Msg(p, L0, 0, {t2}, 21) : p \in Peers}
      \cup {Msg(p, L0, 1, {t1, t2}, 29) : p \in Peers}
      \cup {Msg(p, L0, Leave, {}, 29) : p \in Peers}

\* A round driven past its hard limit on one ledger, and two ledgers between which
\* the network moves at every tick while rounds are restarted.
Both ==
    [round  |-> [ledgers |-> {L0}, answers |-> RoundAnswers, calls |-> RoundCalls,
                 messages |-> RoundMessages, sets |-> SUBSET {t1, t2},
                 maxNow |-> 27, maxMsgs |-> 3, maxSets |-> 1, maxRounds |-> 1],
     switch |-> [ledgers |-> {L0, L1}, answers |-> SwitchAnswers, calls |-> SwitchCalls,
                 messages |-> SwitchMessages, sets |-> SUBSET {t1},
                 maxNow |-> 25, maxMsgs |-> 2, maxSets |-> 1, maxRounds |-> 2]]
Symmetric == Permutations(Peers)
=============================================================================
