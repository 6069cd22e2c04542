SPECIFICATION Spec
CONSTANTS
    m1 = m1
    m2 = m2
    m3 = m3
    blank = blank
    e1 = e1
    movies = movies
    shows = shows
    music = music
    one = one
    other = other
    silent = silent
    MaxAttempts = 2
    Items <- Everything
    Empty = {blank}
    Sections = {movies, shows}
    SectionOf <- Home
    Initial <- Listed
    Requests <- AskedFor
    PageSize = 2
    Totals = {TRUE, FALSE}
    Paged = TRUE
    Series = {one, other, silent}
    Mute = {silent}
    Tracked <- EpisodeFiles
    Edits = 3
INVARIANTS
    PinnedIsOnly
CHECK_DEADLOCK FALSE
