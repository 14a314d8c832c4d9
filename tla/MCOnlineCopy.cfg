SPECIFICATION FairSpec
CONSTANTS
    a = a
    b = b
    p = p
    q = q
    pic = pic
    Ids = {a, b}
    Images = {a}
    Pictures = {pic}
    Absent = Absent
    NoPicture = NoPicture
    Everything = Everything
    DocumentLimit = 9
    Tabs = {p, q}
    Sharer = p
    Nonces <- TabNonces
    Attempts = 2
    Nothing = Nothing
    Boards <- JustA
    MaxEdits = 2
    MaxFailures = 1
    MaxReads = 1
    MaxCloses = 1
CHECK_DEADLOCK FALSE
INVARIANTS
    ImagesAreStored
    EditsReachCopy
PROPERTIES
    CopyNeverGoesBack
    SavesEnd
