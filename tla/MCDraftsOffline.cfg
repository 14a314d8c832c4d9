SPECIFICATION Spec
CONSTANTS
    a = a
    b = b
    Ids = {a, b}
    Images = {}
    Pictures = {}
    Absent = Absent
    NoPicture = NoPicture
    Everything = Everything
    DocumentLimit = 9
    Nonces = {0}
    Boards <- SomeOfA
    MaxEdits = 2
    MaxVisits = 2
    MaxFailures = 0
    MaxOthers = 0
CHECK_DEADLOCK FALSE
INVARIANTS
    SavedIsOnServer
