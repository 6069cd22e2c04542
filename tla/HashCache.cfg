SPECIFICATION Spec
CONSTANTS
    web = web
    cli = cli
    Passes <- HPasses
    Modes <- HModes
    NumGroups = 1
    Copies <- HFiles
    Paths <- HFilePaths
    CopiesOf <- HPair
    PartsOf <- HFileParts
    SizeOf <- HFileSizes
    Blocks = {0, 1}
    Contents <- HFileContents
    MaxRows = 1
    MaxChanges = 1
INVARIANTS TypeOK CacheSound
PROPERTIES VerdictTrue
SYMMETRY HSame
CHECK_DEADLOCK FALSE
