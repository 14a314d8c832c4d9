SPECIFICATION FairSpec
CONSTANTS
    Pages = {1, 2}
    Elements = {a}
    Clock <- Clocks
    MaxActs = 2
    MaxLinks = 2
    MaxBreaks = 1
    MaxBacklog = 2
CHECK_DEADLOCK FALSE
INVARIANTS
    GoneOnce
    ReadyIsHeard
PROPERTIES
    HoldsAgree
    RoomIsKnown
