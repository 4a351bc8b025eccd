SPECIFICATION FairSpec
CONSTANTS
    n1 = n1
    n2 = n2
    n3 = n3
    Node <- MCNode
    None = None
    MaxTerm = 2
    MaxVoteCalls = 2
    LastEntry <- MCOneLastEntry
    Faults = {"crash"}
    Windows = {"probe"}
PROPERTY
    CampaignReturns
INVARIANT
    LeaderIDWasElected
