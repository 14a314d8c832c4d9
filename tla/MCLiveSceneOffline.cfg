SPECIFICATION Spec
CONSTANTS
    a = a
    b = b
    p = p
    q = q
    Ids = {a, b}
    Images = {}
    Pictures = {}
    Absent = Absent
    NoPicture = NoPicture
    Everything = Everything
    DocumentLimit = 9
    Pages = {p, q}
    Nonces <- EngineNonces
    HostNonces <- PageNonces
    Nothing = Nothing
    Asked = Asked
    Boards <- JustA
    MaxEdits = 2
    MaxBreaks = 1
CHECK_DEADLOCK FALSE
INVARIANTS
    OfflineEditsStand
