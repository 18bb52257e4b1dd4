SPECIFICATION Spec
CONSTANTS
    Parms <- SmallParms
    Peers = {p1, p2}
    L0 = L0
    L1 = L1
    t1 = t1
    t2 = t2
    p1 = p1
    p2 = p2
    Ledgers = {L0, L1}
    Txs = {t1, t2}
    Resolution = 10
    RecentCap = 2
    Start = 21
    Environments <- Both
SYMMETRY Symmetric
CHECK_DEADLOCK FALSE
INVARIANTS
    DisputesAreComplete
    VotesAreCurrent
    ProposalsAreOrdered
    RoundEnds
