SPECIFICATION Spec
CONSTANTS
    s1 = s1
    s2 = s2
    store1 = store1
    None = None
    Sessions = {s1, s2}
    Users = {}
    Stores = {store1}
    InitPicture <- MCInitPicture
    MaxFiles = 3
    MaxFaults = 1
SYMMETRY Symmetry
INVARIANTS
    TypeOK
    ShownWasUploaded
    ReadyHasObject
    PictureIsLive
CHECK_DEADLOCK FALSE
