SPECIFICATION Spec
CONSTANTS
    web = web
    cli = cli
    Passes <- HLone
    Modes <- HModes
    NumGroups = 2
    Copies <- HCopies
    Paths <- HPaths
    CopiesOf <- HStacked
    PartsOf <- HPartsOf
    SizeOf <- HSizeOf
    Blocks = {0, 1}
    Contents <- HContents
    MaxRows = 1
    MaxChanges = 2
INVARIANTS TypeOK CacheSound
PROPERTIES VerdictTrue
CHECK_DEADLOCK FALSE
