SPECIFICATION Spec
CONSTANTS
    eth0 = eth0
    tap0 = tap0
    int0 = int0
    r1 = r1
    r2 = r2
    x = x
    y = y
    v1 = v1
    v2 = v2
    Absent = Absent
    Broken = Broken
    System = {eth0, tap0}
    Internal = {int0}
    Bare = {tap0}
    ResIds = {r1, r2}
    Texts = {x, y}
    Values = {v1, v2}
    Areas <- MCAreas
    MaxOps = 2
INVARIANTS
    TypeOK
    RowInUse
    ShownAsAsked
SYMMETRY MCSymmetry
