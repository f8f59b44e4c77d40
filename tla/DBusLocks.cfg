SPECIFICATION DFairSpec
CONSTANTS
    a1 = a1
    a2 = a2
    NoAgent = NoAgent
    Agents = {a1, a2}
    Stores = {"running"}
    PidOf <- MCPids
    PidMod = 4
    Kills <- OtherKills
    MaxCalls = 5
    MaxFaults = 1
    MaxRestarts = 1
CHECK_DEADLOCK FALSE
INVARIANTS
    TypeOK
    DepartedIsClosed
    LockHasSession
PROPERTIES
    ImplementsRegistry
    ImplementsLocks
    AnsweredEventually
    SessionEventuallyRemoved
    LockReleased
