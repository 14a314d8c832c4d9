SPECIFICATION TunnelSpec
CONSTANTS
    MaxStarts = 1
    MaxUnknown = 3
CHECK_DEADLOCK FALSE
INVARIANTS
    NeverAgainstDns
