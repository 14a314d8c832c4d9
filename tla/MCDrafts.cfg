SPECIFICATION Spec
CONSTANTS
    a = a
    b = b
    Ids = {a, b}
    Images = {}
    Pictures = {}
    Absent = Absent
    NoPicture = NoPicture
    Everything = Everything
    DocumentLimit = 9
    Nonces = {0}
    Boards <- SomeOfA
    MaxEdits = 3
    MaxVisits = 2
    MaxFailures = 1
    MaxOthers = 1
CHECK_DEADLOCK FALSE
INVARIANTS
    DraftKeepsUp
    OnlyTheErasedGo
