SPECIFICATION Spec
CONSTANTS
    a1 = a1
    a2 = a2
    a3 = a3
    NoAgent = NoAgent
    Agents = {a1, a2, a3}
    AGENTS_QUEUE = 2
    MaxFds = 2
    PidOf <- WidePids
    PidMod = 4
    Victims = {a1}
    MaxFaults = 1
INVARIANTS
    SlotAccounting
    SessionIdentity
    StaleSessionsAreDead
    CommDownNeedsLeaks
CHECK_DEADLOCK FALSE
