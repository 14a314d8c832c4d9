SPECIFICATION FairSpec
CONSTANTS
    a = a
    b = b
    c = c
    pic = pic
    Ids = {a, b, c}
    Images = {a}
    Pictures = {pic}
    Absent = Absent
    NoPicture = NoPicture
    Nothing = Nothing
    DocumentLimit = 2
    Requests = {r1, r2}
    Operations <- MCOperations
    MaxAttempts = 2
    MaxRev = 4
CHECK_DEADLOCK FALSE
INVARIANTS
    OptimisticLock
    NamedPicturesStored
    ConflictMeansContention
PROPERTIES
    PatchNeverRegresses
    PatchIsServed
    PictureSurvivesEdits
    ReplaceIsGuarded
    KeepsPromise
    EveryRequestAnswered
