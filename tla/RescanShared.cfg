SPECIFICATION ServiceFairSpec
CONSTANTS
    click1 = click1
    click2 = click2
    cron = cron
    page1 = page1
    page2 = page2
    tab = tab
    server = server
    shell = shell
    Actors <- Regenerations
    Hosts = {server, shell}
    Servers = {server}
    HostOf <- ProcessOf
    Degradable <- Unsupported
    MaxLibrary = 2
    Visitors <- Pages
    Sites = {server}
    SiteOf <- ServerOf
    MaxEditions = 2
    Watchers = {tab}
    HomeOf <- TabOf
    MaxFailures = 2
    Scenes <- WhoMeet
INVARIANTS
    TypeOK
    SingleFlight
    FlagIsTheThread
PROPERTIES
    ReportAdvances
    ServesRegister
    Reopens
    PageSettles
    SuccessShown
