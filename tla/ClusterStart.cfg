\* Three nodes, right and wrong configurations, views that time out.
CONSTANTS
    Nodes <- ThreeNodes
    Configs <- AllNetworks
    Quorum = 2
    MaxRetries = 2
    MaxHeight = 2
    MaxTimeouts = 3
    MaxStops = 1
SPECIFICATION FairSpec
CHECK_DEADLOCK FALSE
INVARIANTS
    TypeOK
    NeverPanics
    OneLeader
    HaltTakesEveryProposal
PROPERTIES
    DecidesUnlessExhausted
