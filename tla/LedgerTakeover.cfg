SPECIFICATION Spec
CONSTANTS
    service = service
    oneShot = oneShot
    Runs <- TwoRuns
    Service <- service
    SizeOf <- Sizes
    NumArchives = 1
    ClaimTTL = 2
    ToolTimeout = 1
    ProtectSeconds = 2
    MaxClock = 4
    MaxVersion = 3
    MaxClaims = 3
INVARIANTS
    TypeOK
    SkipIsSound
    YoungPassKeepsClaim
PROPERTIES
    RevokedOwnerHarmless
    OutputsOutliveReclaim
    FencesRuns
