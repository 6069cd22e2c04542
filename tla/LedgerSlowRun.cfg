SPECIFICATION Spec
CONSTANTS
    service = service
    oneShot = oneShot
    Runs <- TwoRuns
    Service <- service
    SizeOf <- Sizes
    NumArchives = 2
    ClaimTTL = 4
    ToolTimeout = 1
    ProtectSeconds = 2
    MaxClock = 4
    MaxVersion = 1
    MaxClaims = 3
INVARIANTS
    LiveClaimHeld
