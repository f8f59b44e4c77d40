SPECIFICATION FairSpec
CONSTANTS
    id = id
    br = br
    q = q
    Id = id
    Collected = {br}
    Kept = {q}
    Inline <- MCInline
    Targets = {"running"}
    MaxDels = 1
    MaxCrashes = 0
PROPERTIES
    EveryEditReturns
