-------------------------- MODULE MCDisputeVoting ---------------------------
(***************************************************************************)
(* An instance of DisputeVoting for TLC, which also walks through the      *)
(* arguments of ConsensusDecisions: before a dispute's first step, and     *)
(* never beside it.                                                        *)
(***************************************************************************)
EXTENDS DisputeVoting, ConsensusDecisions

\* ConsensusParms::default(), in seconds; min_consensus is 1950 ms.
DefaultParms ==
    [freshness |-> 20, interval |-> 12, idle |-> 15, minConsensus |-> 2,
     maxConsensus |-> 15, minClose |-> 2, abandonFactor |-> 10, abandon |-> 120,
     avMinConsensus |-> 5, avMinRounds |-> 2, avStalledRounds |-> 4,
     unexpected |-> 600]

MCInit == Init /\ ArgsInit
MCNext ==
    \/ Next /\ time = 0 /\ proposers = 0 /\ UNCHANGED args
    \/ ArgsNext /\ Init /\ UNCHANGED vars
    \/ time = MaxTime /\ UNCHANGED <<vars, args>>
MCSpec == MCInit /\ [][MCNext]_<<vars, args>> /\ TimerIsFair
=============================================================================
