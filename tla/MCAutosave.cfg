SPECIFICATION FairSpec
CONSTANTS
    a = a
    b = b
    pic = pic
    Ids = {a, b}
    Images = {}
    Pictures = {}
    Absent = Absent
    NoPicture = NoPicture
    Everything = Everything
    DocumentLimit = 9
    Nonces = {0}
    EngineRestamps = {TRUE}
    AnswersGetLost = FALSE
    MayRefuse = TRUE
    PeerOperations = {}
    MaxEdits = 3
    MaxFailures = 1
    MaxPeerWrites = 0
CHECK_DEADLOCK FALSE
INVARIANTS
    NothingComesBack
    StackIsSavedUntilUndo
    NotesAreEnough
    NothingIsStranded
PROPERTIES
    FlushSendsTheRest
    EverythingIsSaved
