SPECIFICATION Spec
CONSTANTS
    b1 = b1
    b2 = b2
    p1 = p1
    p2 = p2
    q1 = q1
    q2 = q2
    t1 = t1
    t2 = t2
    c1 = c1
    k1 = k1
    k2 = k2
    k3 = k3
    None = None
    Bridges = {b1, b2}
    Ports = {p1, p2}
    Tables = {t1}
    Queues = {}
    Ids = {0, 1}
    Ctrls = {c1}
    QosRows = {k1}
    MaxOps = 3
INVARIANTS
    ReadBack
    RefusedForReason
SYMMETRY MCSymmetry
