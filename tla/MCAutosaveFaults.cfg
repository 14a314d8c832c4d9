SPECIFICATION Spec
CONSTANTS
    a = a
    b = b
    pic = pic
    Ids = {a, b}
    Images = {a}
    Pictures = {pic}
    Absent = Absent
    NoPicture = NoPicture
    Everything = Everything
    DocumentLimit = 9
    Nonces = {0}
    EngineRestamps <- BothEngines
    AnswersGetLost = TRUE
    MayRefuse = TRUE
    PeerOperations <- OtherTab
    MaxEdits = 3
    MaxFailures = 1
    MaxPeerWrites = 1
CHECK_DEADLOCK FALSE
INVARIANTS
    SavedIsSaved
    NothingGoesMissing
    PicturesAreSavedUntilUndo
    KnownIsServed
