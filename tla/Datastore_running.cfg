SPECIFICATION FairSpec
CONSTANTS
    id = id
    br = br
    q = q
    Id = id
    Collected = {br}
    Kept = {q}
    Inline <- MCInline
    Targets = {"running"}
    MaxDels = 2
    MaxCrashes = 1
INVARIANTS
    TypeOK
    SingleTransaction
    FailedEditKeepsOVSDB
    CopyReplaces
    RollbackUndoes
PROPERTIES
    OperationsReturn
