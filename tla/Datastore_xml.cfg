SPECIFICATION Spec
CONSTANTS
    id = id
    br = br
    q = q
    Id = id
    Collected = {br}
    Kept = {}
    Inline <- MCInlineXml
    Targets = {"startup", "candidate"}
    MaxDels = 2
    MaxCrashes = 0
INVARIANTS
    RollbackUndoes
PROPERTIES
    CleanRestartKeepsStartup
