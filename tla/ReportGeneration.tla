-------------------------- MODULE ReportGeneration --------------------------
(***************************************************************************)
(* PlexDuplicateReporter.generate: which sections are scanned, the paged   *)
(* read of each of them from a library that changes meanwhile, and the     *)
(* indexes of the files that Radarr and Sonarr track.  Everything is a GET *)
(* of HttpClient.                                                          *)
(*                                                                         *)
(* The position is clipped to the number of items, and an item is counted  *)
(* as listed up to Often times: beyond that, neither the server nor a      *)
(* property tells one from another.                                        *)
(***************************************************************************)
EXTENDS HttpClient, FiniteSets, Sequences, SequencesExt

CONSTANTS
    Items,    \* duplicate entries the library may list
    Empty,    \* those that are not objects, or have no file
    Sections, \* the video sections of the server
    SectionOf, \* the section of an entry
    Initial,  \* Initial[s]: what section s lists at first
    Requests, \* what --section or PLEX_SECTIONS may ask for
    PageSize, \* entries asked for at once
    Totals,   \* the answers to "does a page carry totalSize?"
    Paged,    \* the server heeds the position it is asked for
    Series,   \* the series of Sonarr
    Tracked,  \* its episode files: a set of [series, path, name, id]
    Mute,     \* series that tell of none: no id, or an answer of null or an object
    Edits     \* bound: changes of the library during a scan

ASSUME GenerationAssumption ==
    /\ IsFiniteSet(Items) /\ IsFiniteSet(Sections)
    /\ Empty \subseteq Items /\ SectionOf \in [Items -> Sections]
    /\ Initial \in [Sections -> Seq(Items)]
    /\ \A s \in Sections : /\ IsInjective(Initial[s])
                          /\ \A i \in DOMAIN Initial[s] : SectionOf[Initial[s][i]] = s
    /\ \A ids \in Requests : ids \in Seq(Range(ids))
    /\ PageSize \in Nat \ {0} /\ Edits \in Nat
    /\ Totals \subseteq BOOLEAN /\ Totals # {} /\ Paged \in BOOLEAN
    /\ IsFiniteSet(Tracked)
    /\ \A f \in Tracked : f.series \in Series /\ f.id \in Nat

VARIABLES
    library, \* library[s]: the entries of section s, in the server's order
    gone,    \* sections that have been deleted and answer 404
    edits,   \* changes made so far
    asked,   \* the sections the generation is asked for; none: all of them
    step,    \* where it stands
    todo,    \* sections still to be read, the one in hand first
    start,   \* the position asked for next
    found,   \* found[x]: how often the section in hand has listed x
    groups,  \* groups[x]: how often the finished sections have
    pending, \* series whose files are still to be fetched
    rows,    \* episode files in the index
    warned,  \* what the report says was skipped
    steady,  \* history: entries that stayed in the section all through its scan
    cuts,    \* history: entries removed from it during its scan
    adds,    \* history: entries inserted into a section during its scan
    whole,   \* history: sections read to their end
    hollow   \* history: sections that an answer without a list has ended

plexVars == <<library, gone, edits>>
scanVars == <<todo, start, found, groups>>
arrVars == <<pending, rows>>
auditVars == <<steady, cuts, adds, whole, hollow>>
generation == <<plexVars, asked, step, scanVars, arrVars, warned, auditVars>>
reportVars == <<attempt, generation>>

Often == 3
NoId == 0
Never == [x \in Items |-> 0]
Clipped(n, bound) == IF n > bound THEN bound ELSE n
Plus(f, g) == [x \in Items |-> Clipped(f[x] + g[x], Often)]

ReportInit ==
    /\ attempt = 1
    /\ library = Initial /\ gone = {} /\ edits = 0
    /\ asked = <<>> /\ step = "idle"
    /\ todo = <<>> /\ start = 0 /\ found = Never /\ groups = Never
    /\ pending = {} /\ rows = {} /\ warned = {}
    /\ steady = {} /\ cuts = 0 /\ adds = 0 /\ whole = {} /\ hollow = {}

-----------------------------------------------------------------------------
(* The library changes.                                                    *)

Reading(s) == step = "pages" /\ Head(todo) = s

Inserted(x, s, i) ==
    /\ edits < Edits /\ s \notin gone
    /\ SectionOf[x] = s /\ x \notin Range(library[s])
    /\ library' = [library EXCEPT ![s] = InsertAt(@, i, x)]
    /\ edits' = edits + 1
    /\ adds' = IF Reading(s) THEN adds + 1 ELSE adds
    /\ UNCHANGED <<attempt, gone, asked, step, scanVars, arrVars, warned, steady, cuts, whole, hollow>>

Removed(s, i) ==
    /\ edits < Edits /\ s \notin gone
    /\ library' = [library EXCEPT ![s] = RemoveAt(@, i)]
    /\ edits' = edits + 1
    /\ IF Reading(s)
       THEN cuts' = cuts + 1 /\ steady' = steady \ {library[s][i]}
       ELSE UNCHANGED <<cuts, steady>>
    /\ UNCHANGED <<attempt, gone, asked, step, scanVars, arrVars, warned, adds, whole, hollow>>

SectionDeleted(s) ==
    /\ edits < Edits /\ s \notin gone
    /\ gone' = gone \cup {s} /\ edits' = edits + 1
    /\ UNCHANGED <<attempt, library, asked, step, scanVars, arrVars, warned, auditVars>>

-----------------------------------------------------------------------------
(* Plex.                                                                   *)

Busy == {"sections", "pages", "radarr", "sonarr", "episodes"}

Generate ==
    /\ step = "idle" /\ step' = "sections"
    /\ asked' \in Requests
    /\ UNCHANGED <<attempt, plexVars, scanVars, arrVars, warned, auditVars>>

Retry ==
    /\ step \in Busy
    /\ \E r \in Transient : Again("GET", r)
    /\ UNCHANGED <<plexVars, asked, step, scanVars, arrVars, warned, auditVars>>

\* Mutation of Chosen: a repeated id is scanned again.
ChosenTwice(ids, there) == SelectSeq(ids, LAMBDA s : s \in there)

\* _resolve_sections: the ids in the order asked, without repetitions and
\* without those that are no video section; all sections when none is asked for.
Chosen(ids, there) ==
    IF ids = <<>> THEN SetToSeq(there)
    ELSE LET upTo[n \in 0..Len(ids)] ==
               IF n = 0 THEN <<>>
               ELSE IF ids[n] \in there \ Range(upTo[n - 1]) THEN Append(upTo[n - 1], ids[n])
               ELSE upTo[n - 1]
         IN upTo[Len(ids)]

\* On to the sections that are left, or to the associations.
Turn(left) ==
    /\ todo' = left /\ start' = 0 /\ found' = Never
    /\ step' = IF left = <<>> THEN "radarr" ELSE "pages"
    /\ steady' = IF left = <<>> THEN {} ELSE Range(library[Head(left)])
    /\ cuts' = 0

Resolve ==
    /\ step = "sections"
    /\ attempt' = 1
    /\ LET there == Sections \ gone IN
        /\ Turn(Chosen(asked, there))
        /\ warned' = Range(asked) \ there
    /\ UNCHANGED <<plexVars, asked, groups, arrVars, adds, whole, hollow>>

\* A list of sections without MediaContainer or Directory is an empty one.
NoSections ==
    /\ step = "sections"
    /\ attempt' = 1
    /\ Turn(<<>>)
    /\ warned' = Range(asked) /\ hollow' = Sections
    /\ UNCHANGED <<plexVars, asked, groups, arrVars, adds, whole>>

\* Mutation of Advance: by the size that was asked for.
AdvanceBySize(page) == Clipped(start + PageSize, Cardinality(Items))

\* By what was returned, entries that are no objects included.
Advance(page) == Clipped(start + Len(page), Cardinality(Items))

\* The total, when the page carries it, has been reached.
AtEndByTotal(page, total, s) == total /\ Advance(page) >= Len(library[s])

AtEnd(page, total, s) == page = <<>> \/ AtEndByTotal(page, total, s)

Listing(page) == [x \in Items |-> IF x \in Empty THEN 0 ELSE Cardinality({i \in DOMAIN page : page[i] = x})]

\* What a server may answer: up to PageSize entries from the position asked for,
\* or, if it does not page, everything.
Pages(s) ==
    LET rest == SubSeq(library[s], start + 1, Len(library[s])) IN
    IF ~Paged THEN {library[s]}
    ELSE IF rest = <<>> THEN {<<>>}
    ELSE {SubSeq(rest, 1, n) : n \in 1..Clipped(PageSize, Len(rest))}

Page ==
    /\ step = "pages"
    /\ attempt' = 1
    /\ LET s == Head(todo) IN
        /\ s \notin gone
        /\ \E page \in Pages(s), total \in Totals :
            LET listed == Plus(found, Listing(page)) IN
            IF AtEnd(page, total, s)
            THEN /\ Turn(Tail(todo))
                 /\ groups' = Plus(groups, listed)
                 /\ whole' = IF start + Len(page) >= Len(library[s]) THEN whole \cup {s} ELSE whole
            ELSE /\ start' = Advance(page) /\ found' = listed
                 /\ UNCHANGED <<step, todo, groups, steady, cuts, whole>>
    /\ UNCHANGED <<plexVars, asked, arrVars, warned, adds, hollow>>

\* A page without MediaContainer or Metadata is an empty one: the section ends as
\* if there were no more.
HollowPage ==
    /\ step = "pages"
    /\ attempt' = 1
    /\ Turn(Tail(todo))
    /\ groups' = Plus(groups, found)
    /\ hollow' = hollow \cup {Head(todo)}
    /\ UNCHANGED <<plexVars, asked, arrVars, warned, adds, whole>>

\* A 404 skips the section with everything it has listed.
Vanished ==
    /\ step = "pages" /\ Head(todo) \in gone /\ Final("GET", "missing")
    /\ Turn(Tail(todo))
    /\ UNCHANGED <<plexVars, asked, groups, arrVars, warned, adds, whole, hollow>>

\* Mutation of PlexFails: any error in a section skips it.
PlexFailsQuietly ==
    /\ step = "pages"
    /\ \E r \in Failures \ {"missing"} : Final("GET", r)
    /\ Turn(Tail(todo))
    /\ UNCHANGED <<plexVars, asked, groups, arrVars, warned, adds, whole, hollow>>

\* Any other error ends the generation, and so does an answer that is no object or
\* has a MediaContainer or a list of another type.  A 404 is taken at its word: the
\* section is gone.
PlexFails ==
    /\ \/ step = "sections" /\ \E r \in Failures \cup Unmapped : Final("GET", r)
       \/ step = "pages" /\ \E r \in (Failures \ {"missing"}) \cup Unmapped : Final("GET", r)
    /\ step' = "failed"
    /\ UNCHANGED <<plexVars, asked, scanVars, arrVars, warned, auditVars>>

-----------------------------------------------------------------------------
(* Radarr and Sonarr: an error leaves the index empty and is a warning.    *)

RadarrIndexed ==
    /\ step = "radarr" /\ attempt' = 1
    /\ step' = "sonarr"
    /\ UNCHANGED <<plexVars, asked, scanVars, arrVars, warned, auditVars>>

RadarrSkipped ==
    /\ step = "radarr" /\ \E r \in Failures : Final("GET", r)
    /\ step' = "sonarr" /\ warned' = warned \cup {"radarr"}
    /\ UNCHANGED <<plexVars, asked, scanVars, arrVars, auditVars>>

\* One request per series, whose answers are taken as they come; none, if the
\* list of series is null or an object.
SeriesListed ==
    /\ step = "sonarr" /\ attempt' = 1
    /\ pending' \in {Series, {}}
    /\ step' = IF pending' = {} THEN "made" ELSE "episodes"
    /\ UNCHANGED <<plexVars, asked, scanVars, rows, warned, auditVars>>

EpisodesIndexed(s) ==
    /\ step = "episodes" /\ s \in pending /\ attempt' = 1
    /\ rows' = rows \cup {f \in Tracked : f.series = s /\ s \notin Mute}
    /\ pending' = pending \ {s}
    /\ step' = IF pending' = {} THEN "made" ELSE step
    /\ UNCHANGED <<plexVars, asked, scanVars, warned, auditVars>>

\* Mutation of SonarrSkipped: the series that failed is left out.
SonarrSkipsOne ==
    /\ step \in {"sonarr", "episodes"} /\ \E r \in Failures : Final("GET", r)
    /\ \E s \in pending : pending' = pending \ {s}
    /\ step' = IF pending' = {} THEN "made" ELSE step
    /\ UNCHANGED <<plexVars, asked, scanVars, rows, warned, auditVars>>

\* One worker's failure voids the whole index and cancels what has not started.
SonarrSkipped ==
    /\ step \in {"sonarr", "episodes"} /\ \E r \in Failures : Final("GET", r)
    /\ step' = "made" /\ pending' = {} /\ rows' = {}
    /\ warned' = warned \cup {"sonarr"}
    /\ UNCHANGED <<plexVars, asked, scanVars, auditVars>>

\* An error that is not the client's own is no warning: it ends the generation.
ArrEscapes ==
    /\ step \in {"radarr", "sonarr", "episodes"} /\ \E r \in Unmapped : Final("GET", r)
    /\ step' = "failed" /\ pending' = {}
    /\ UNCHANGED <<plexVars, asked, scanVars, rows, warned, auditVars>>

ReportStep ==
    \/ Retry
    \/ Resolve \/ NoSections \/ Page \/ HollowPage \/ Vanished \/ PlexFails
    \/ RadarrIndexed \/ RadarrSkipped \/ ArrEscapes
    \/ SeriesListed \/ (\E s \in Series : EpisodesIndexed(s)) \/ SonarrSkipped

\* Changes after the last page are left out: nothing reads the library any more.
LibraryChanges ==
    /\ step \in {"idle", "sections", "pages"}
    /\ \E s \in Sections :
        \/ \E x \in Items, i \in 1..Len(library[s]) + 1 : Inserted(x, s, i)
        \/ \E i \in 1..Len(library[s]) : Removed(s, i)
        \/ SectionDeleted(s)

ReportNext == Generate \/ ReportStep \/ LibraryChanges

-----------------------------------------------------------------------------
(* What a generated report promises.                                       *)

ReportTypeOK ==
    /\ attempt \in 1..Tries
    /\ library \in [Sections -> Seq(Items)] /\ gone \subseteq Sections /\ edits \in 0..Edits
    /\ asked \in Requests \cup {<<>>} /\ step \in Busy \cup {"idle", "made", "failed"}
    /\ todo \in Seq(Sections) /\ start \in 0..Cardinality(Items)
    /\ found \in [Items -> 0..Often] /\ groups \in [Items -> 0..Often]
    /\ pending \subseteq Series /\ rows \subseteq Tracked
    /\ step = "pages" => todo # <<>>
    /\ step # "episodes" => pending = {}
    /\ steady \subseteq Items /\ cuts \in Nat /\ adds \in Nat
    /\ whole \subseteq Sections /\ hollow \subseteq Sections

\* A report is about whole sections: each one it was to scan has been read to its
\* end, unless it is gone, and what it lists belongs to those.  No error leaves part
\* of a section in a report; only an answer of Plex without a list can, which the
\* code takes for the end.
NoPartialReport ==
    step = "made" =>
        /\ (IF asked = <<>> THEN Sections ELSE Range(asked) \cap Sections) \subseteq whole \cup gone \cup hollow
        /\ \A x \in Items : groups[x] > 0 => SectionOf[x] \in whole \cup hollow

\* Entries that were there all the time are missed only if others were removed
\* during the scan of their section, one for one.
MissedBound ==
    [][\A s \in whole' \ whole :
        Cardinality({x \in steady \ Empty : groups'[x] = 0}) <= cuts]_reportVars

\* The report lists an entry once more only if another was inserted during a scan,
\* one for one; with a quiet library it double-counts nothing.
TwiceBound == Cardinality({t \in Items \X (2..Often) : groups[t[1]] >= t[2]}) <= adds

\* _annotate_by_basename: the id an episode's name is pinned to, if any.
Pinned(name) ==
    LET same == {f \in rows : f.name = name}
    IN IF Cardinality(same) = 1 THEN (CHOOSE f \in same : TRUE).id ELSE NoId

\* The file that a finished report pins a name to is the only one of that name in
\* the series that tell of their files, although any of the requests may have failed.
PinnedIsSole ==
    step = "made" => \A f \in Tracked : f.series \notin Mute /\ Pinned(f.name) # NoId =>
        \A g \in Tracked : g.series \notin Mute /\ g.name = f.name => g = f /\ Pinned(f.name) = g.id

\* It is the only one in all of Sonarr: refuted where a series tells of none.
PinnedIsOnly ==
    step = "made" => \A f \in rows :
        Pinned(f.name) # NoId => \A g \in Tracked : g.name = f.name => g = f

\* A generation ends, with a report or an error.
GenerationEnds == step \in Busy ~> step \in {"made", "failed"}

=============================================================================
