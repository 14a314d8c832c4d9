SPECIFICATION FairTunnel
CONSTANTS
    MaxStarts = 3
    MaxUnknown = 3
CHECK_DEADLOCK FALSE
INVARIANTS
    LinkIsUp
    NoneLeftRunning
PROPERTIES
    StartEnds
