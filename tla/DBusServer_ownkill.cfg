SPECIFICATION Spec
CONSTANTS
    a1 = a1
    a2 = a2
    Agents = {a1, a2}
    PidOf <- MCPids
    PidMod = 4
    Kills <- AnyKills
    MaxCalls = 5
    MaxFaults = 1
    MaxRestarts = 1
CHECK_DEADLOCK FALSE
PROPERTY OwnSessionKept
