SPECIFICATION Spec
CONSTANTS
    Requests = {r1, r2}
    Operations <- Ops
    Nothing = Nothing
    Nobody = Nobody
    b1 = b1
    b2 = b2
    sid = sid
    pid = pid
    pid2 = pid2
    uid = uid
    mine = mine
    other = other
    Tokens = {mine, other}
    Bodies = {b1, b2}
    Weight <- Full
    Sids = {sid}
    Pids = {pid, pid2}
    Uids = {uid}
    PartBytes = 2
    MaxParts = 2
    MaxDrawingBytes = 4
    MaxPictures = 1
    Attempts = 2
    IdleTicks = 1
    ExpiryTicks = 2
    Lasting = 1
    MaxRequests = 4
    MaxClock = 3
    MaxEvents = 6
SYMMETRY Slots
CHECK_DEADLOCK FALSE
INVARIANTS
    CountersMatch
    CapsHold
    HeadGuardsParts
PROPERTIES
    CommitFits
    KeepsPromise
