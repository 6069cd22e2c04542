SPECIFICATION Spec
CONSTANTS
    service = service
    oneShot = oneShot
    Runs <- TwoRuns
    Service <- service
    SizeOf <- Sizes
    NumArchives = 1
    ClaimTTL = 2
    ToolTimeout = 1
    ProtectSeconds = 2
    MaxClock = 2
    MaxVersion = 1
    MaxClaims = 3
INVARIANTS
    ProducedIsSurfaced
