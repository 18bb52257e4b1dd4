SPECIFICATION MCSpec
CONSTANTS
    Parms <- DefaultParms
    Peers = {p1, p2, p3, p4}
    Percents = {0, 50, 85, 200}
    MaxChanges = 6
    MaxTime = 260
    MaxProposers = 6
INVARIANTS
    StalledIsDecided
    RoundMustEnd
    YesNeedsAgreement
    CloseTimeIsNearest
PROPERTIES
    VotesFollowMajority
    VoteSettles
