SPECIFICATION Spec
CONSTANTS
    p830 = p830
    p22 = p22
    i1 = i1
    i2 = i2
    Garbled = Garbled
    Default = p830
    Ports = {p830, p22}
    Interfaces = {i1, i2}
    Pids <- MCPids
    PidLimit = 4
    MaxChanges = 4
INVARIANTS
    SshdKnown
    LastChangeServed
    SshdLostForReason
CHECK_DEADLOCK FALSE
