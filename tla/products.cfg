SPECIFICATION Spec
CONSTANTS
    s1 = s1
    s2 = s2
    c1 = c1
    c2 = c2
    c3 = c3
    f1 = f1
    red = red
    None = None
    Sessions = {s1, s2}
    Categories = {c1, c2, c3}
    Schemas <- MCSchemas
    Fields = {f1}
    Words = {red}
    MaxProducts = 1
    MaxImages = 2
    MaxPosition = 2
    MaxPictures = 2
SYMMETRY Symmetry
CONSTRAINT OneConcern
INVARIANTS
    TypeOK
    PositionsDistinct
PROPERTIES
    SpecsStayFit
    HierarchyLosesOnlyCycles
CHECK_DEADLOCK FALSE
