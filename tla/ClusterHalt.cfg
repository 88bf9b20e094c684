\* Three nodes, all configured alike, none stops.
CONSTANTS
    Nodes <- ThreeNodes
    Configs <- SoundNetwork
    Quorum = 2
    MaxRetries = 1
    MaxHeight = 2
    MaxTimeouts = 3
    MaxStops = 0
SPECIFICATION FairSpec
CHECK_DEADLOCK FALSE
PROPERTIES
    QuorumDecides
