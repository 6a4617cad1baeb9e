SPECIFICATION Spec
CONSTANTS
    s1 = s1
    s2 = s2
    c1 = c1
    c2 = c2
    c3 = c3
    f1 = f1
    red = red
    None = None
    Sessions = {s1, s2}
    Categories = {c1}
    Schemas <- MCFree
    Fields = {}
    Words = {}
    MaxProducts = 1
    MaxImages = 3
    MaxPosition = 2
    MaxPictures = 2
SYMMETRY SessionSymmetry
INVARIANTS
    PositionsDistinct
CHECK_DEADLOCK FALSE
