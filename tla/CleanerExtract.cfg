SPECIFICATION FairSpec
CONSTANTS
    service = service
    scan = scan
    loose = loose
    inner = inner
    dir = dir
    root = root
    single = single
    multi = multi
    DirOf <- Everywhere
    ContentOf <- InnerSingle
    Procs = {service}
    DryRuns = {}
    Paths = {inner}
    Media = {inner}
    Dirs = {dir}
    Root = root
    Torrents = {single}
    ProtectParents = TRUE
    DeleteEmptyDirs = TRUE
    Grace = 2
    MinAge = 1
    ProtectSeconds = 2
    OneShots = {}
PROPERTIES
    ExtractedMediaKept
    OrphansGo
