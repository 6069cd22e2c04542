SPECIFICATION Spec
CONSTANTS
    service = service
    scan = scan
    loose = loose
    inner = inner
    dir = dir
    root = root
    single = single
    multi = multi
    DirOf <- Everywhere
    ContentOf <- Contents
    Procs = {service}
    DryRuns = {}
    Paths = {loose}
    Media = {loose}
    Dirs = {}
    Root = root
    Torrents = {single}
    ProtectParents = FALSE
    DeleteEmptyDirs = TRUE
    Grace = 2
    MinAge = 1
    ProtectSeconds = 2
    OneShots = {}
PROPERTIES
    RunMediaKept
