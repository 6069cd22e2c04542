# A TLA+ verification of unraid-cache-cleaner

TLA+ modules model the parts of `unraid-cache-cleaner` that keep state, share
it between processes, talk to other services, or delete files. TLC checks them
on small instances; TLAPS proves every safety property of the passing runs for all
values of the constants, and that two modules implement an abstract
specification. Paths below such as `service.py:77` are relative to
`src/src/unraid_cache_cleaner/`; `docs/` and `README.md` are the repository's.

1. [The system](#1-the-system)
2. [Modules and how they correspond to the code](#2-modules-and-how-they-correspond-to-the-code)
3. [Runs](#3-runs)
4. [Fairness](#4-fairness)
5. [Proofs](#5-proofs)
6. [Where the code and its documentation disagree](#6-where-the-code-and-its-documentation-disagree)
7. [What is not modelled](#7-what-is-not-modelled)
8. [Plan](#8-plan)
9. [Running it](#9-running-it)

## 1. The system

The program runs on an Unraid server as up to four kinds of process over one
`/config` directory and the same media volumes: the polling **service**
(`service`, every `POLL_INTERVAL`, 300 s), **one-shot commands** (`scan`,
`extract`, `plex-duplicates`), usually from cron, and the **web server**
(`plex-duplicates-web`). They share no memory: they meet in the SQLite store,
in the report on disk, in one advisory file lock, and in the media tree, which
qBittorrent, Plex, Radarr, Sonarr and the operator write as well.

| component | state | operations | talks to |
|---|---|---|---|
| Orphan cleaner service (`service.py`) | the plan, scan and selection of one cycle, in memory | `run_once`: fetch, plan, extract, scan, sync, select, delete, remove directories; `serve_forever` | qBittorrent, store, extractor, file system |
| Protection planner and scanner (`planner.py`, `scanner.py`) | none | `build_protection_plan`, `scan_filesystem`, `find_orphan_candidates` | called by the service |
| qBittorrent client (`qbittorrent.py`) | session cookie, `_authenticated` | `login`, `fetch_torrents`, a forced login after a 403 | qBittorrent over HTTP |
| State store, candidates (`state.py`) | table `candidates`: `first_seen`, mtime | `sync_candidates`, `get_eligible_candidates`, `remove_candidates` | all processes, one transaction each |
| State store, extraction ledger (`state.py`) | tables `extractions`, `extraction_outputs` | claim, complete, release, protected paths, prune | all processes |
| State store, actions and history (`state.py`) | tables `runs`, `actions` | `record_actions`, `recent_web_reclaim_actions`, history pages | service, web server |
| Extraction pass (`extractor.py`) | results of one pass | `extract_all`, `_extract_one`, `_finalize_output` | `unar`/`lsar`, ledger |
| Duplicate analysis (`dedupe.py`) | none | stacks, ranking, keeper, classes | called by report generation |
| Content hash and hash cache (`hasher.py`, `state.py`) | digests by file identity, in a database of their own | `confirm_groups`, `get`, `put`, `close` | media files |
| Radarr and Sonarr clients (`arr.py`) | none | tracked indexes, `annotate`, GET and DELETE by id | *arrs over HTTP |
| Plex client, HTTP client (`plex.py`, `http_client.py`, `http_redirect.py`) | none | paged reads, retries, redirects | Plex, *arrs |
| Report generation (`plex_report.py`) | `plex-duplicates.json` / `.txt` | `generate`, `write_report` | Plex, analysis, hash, *arrs |
| Report regeneration (`web_rescan.py`) | `_running`, `_last_status`; the flock file | `trigger`, `_run`, `report_generation_lock` | threads of the server, `plex-duplicates` in other processes |
| Reclaim request (`web_actions.py`) | one request lock; sessions are signed and kept nowhere | `reclaim`, `preview`, `_reclaim_one` | report, *arrs, file system, trail |
| Filesystem reclaim and startup sweep (`web_actions.py`) | `*.uncc-reclaim` siblings, audit rows | stage, purge, roll back, `reconcile_staging` | file system, trail |
| Viewer and HTTP handlers (`web.py`) | a memo of the report, shared by threads; in the browser, the live poll of the status page | pages, JSON, unlock sessions | report on disk, regeneration, requests |
| Command line, configuration (`cli.py`, `config.py`, `models.py`) | none | order of start-up, values from the environment | everything |

**What is hard.** There is little locking: processes interleave between any two
SQLite transactions and any two system calls.

- *Interleaving and stale state.* A plan made from one snapshot of qBittorrent
  is applied minutes or hours later to a tree others write. Two processes
  overwrite the same candidates table with different orphan sets. A report is
  acted upon after the files and the *arr ids in it have changed. An identity
  is read with `lstat` before the bytes it stands for.
- *Time.* Claims expire while their owner is alive; grace and age windows are
  compared with timestamps taken earlier in the cycle.
- *Crashes.* Any process dies between a claim and a promotion, between the
  rename and the unlink of a part, between a delete and its audit row. Only
  SQLite and the file tree survive.
- *Partial failure.* The second rename, unlink or database write of a sequence
  fails, and what the first ones did must be undone or reported.
- *Lost answers.* A DELETE by id happens and its answer is lost. A session lapses
  in the middle of a poll, a library changes between two pages of a read, one of
  many requests for an index fails.
- *Waiting.* A page polls a server that hangs, refuses, restarts or reports the
  outcome of another run than the one waited for.

**What makes each component correct.** The cleaner never deletes what its own plan
protects, what has not been untracked for the grace window, or media it extracted,
and does get rid of orphans. The ledger never skips an archive that was not
extracted, never lets a revoked owner change a row, and never drops a protection
record early. A filesystem reclaim leaves a stacked copy whole or commits, nothing
it leaves behind is silent once a start has seen it, and the sweep never removes the
only file left. Regeneration is single-flight, never goes backwards and never
wedges. A request deletes what was chosen and never the keeper. A cached digest is
never served for other bytes. A report is whole or not made, and reading it through
the memo is like reading the file. A page that waits comes to rest, and shows what
was waited for. `PROJECT.json` lists the hazards behind these, each at its line,
with the property that covers it.

## 2. Modules and how they correspond to the code

Each component is a module whose state is VARIABLES and whose actions are the
steps between which another process, a crash or a failure can come. The MC
module of a component only gives constants their values. A definition named
"Mutation of X" is a plausible bug of the code; it is used to confirm that the
runs notice it and is no part of the specification. `PROJECT.json` maps every
definition to its lines.

    FencedLease  <=  ExtractionLedger              CleanerCycle
    ReclaimStaging     ReclaimRequest     ContentHash
    ReportRescan -- RescanPage --+
    ReportRegister  <=  ReportViewer --+-- ReportService
    HttpClient -- QbittorrentClient --+
    HttpClient -- ReportGeneration  --+-- ServiceClients

`A <= B` says that B implements A, `A -- B` that B extends A. `ReportService` and
`ServiceClients` compose modules that share variables: the file on disk, the
status of a server and the processes that die; the tries of a request. The
others are composed with their neighbours through the part of them they depend
on: `CleanerCycle` contains the protection table the extraction pass writes,
`ExtractionLedger` contains the pass and the ledger together, `ReclaimRequest`
contains the report, its analysis and the *arrs, and its filesystem deletes are
those that `ReclaimStaging` takes apart.

### ExtractionLedger - `extractor.py`, `state.py:586-775`

`Runs` execute `extract_all` over the same archives and database. `row[a]` and
`outs[a]` are the rows of the two tables; `phase`, `now`, `seen`, `pos`, `tok`,
`got`, `since`, `fresh` are the locals of a pass. `StartRun` is the scan, which
stamps `now` once (`extractor.py:399`) and reads mtimes; `ClaimNew` is
`claim_extraction` when it grants the claim, with the size of a later `stat`;
`TestPass`, `ExtractEnds`, `FinalizeEnds` end the three archive tool calls, of
at most `ToolTimeout`; `Complete`/`CompleteFails` and `Release`/`ReleaseFails`
are the promotion and the roll-back guarded by the token; `EndRun` prunes.
`Rewrite` is a re-download, `Crash` a process death: the tables survive.
Archives are numbered in scan order; how names form a volume set is left out.
`FirstRows` are the tables an older release may leave: empty, or with promoted
rows that have a name but no size and no mtime (`LegacyRow`), which are matched
by path alone (`IdentityMatches`).

*FencedLease* is what the ledger promises to its runs, in five actions: a lease
per archive, granted under a token that was never granted before, whoever held
it; ended, with a yield or without, by its holder alone; lost by a holder that
finds out or dies. `FencesRuns` maps the claim's token to the lease and the
token and archive a run works on to what a holder holds.

### CleanerCycle - `service.py`, `planner.py`, `scanner.py`, `state.py:476-540`

`Procs` execute `run_once`: `Fetch`, `Plan`, `Extract` (one archive each),
`ReadProtected`, `Scan`, `Sync`, `Select`, `Delete`/`DeleteFails` (one path
each), `RemoveCandidates`, `RemoveDirs`, in the order of the code. `Crash` is a
death or an exception that `serve_forever` catches. `cand` and `outs` are
tables; everything else a process knows is forgotten at the end of a cycle.
`Extract` puts media in place under a result that names it, recorded or not, or
under a bare `FAILED` that names nothing (`extractor.py:427-429`). `there`,
`made` and `kept` are history. The grace, age and protection windows may be 0.
The environment writes, moves in (old mtime), replaces and removes files, adds
and removes torrents, creates directories, and one-shot `extract` writes and
records media. Times are *ages*, saturated at the threshold they are compared
with, so time is not bounded. `Tick` is disabled between scan and selection:
these take no time next to thresholds of half an hour and more.

### ReclaimStaging - `web_actions.py:709-1098, 1161-1367, 1554-1680`

One stacked copy of `N` parts, `orig[p]` and `stage[p]` the file at its path and
at its `*.uncc-reclaim` sibling, each file numbered so that a re-download is
told from the original. `Validate`, `Stage`, `StageFails`, `Purge`,
`PurgeFails`, `RollbackChecks`, `RollbackRenames`, `RollbackFails`,
`RollbackBlocked`, `Refuse`, `Report`, `WriteAudit` are the steps of a reclaim;
`Sweep...` and `Restore...` those of `reconcile_staging` at the next start,
in both modes of `WEB_ACTIONS_DRY_RUN`. Check and rename are separate steps, as
in the code. `evidence` and `noted` are what the sweep and the operator can find
in the audit trail; `unlogged` and `verdict` are history. The reclaim lock makes
the server sequential; other programs (`Recreate`, `HandRemove`) are not.
`Faults` names what else goes wrong in an instance: a sibling removed by hand,
a failed audit write, a failed lookup of the trail, a crash of the sweep or an
exception in it (`SweepAborts`, after which `cli.py:246-252` serves all the same).
What `Start` lists may be any part of the siblings: a root that is not mounted and
a directory that cannot be read are passed over (`web_actions.py:762-781`).
`StandDown` is a start that sweeps nothing, for want of a token or a path map.
`missed` is history: the siblings that the last start gave no row.

### ReportRescan - `web_rescan.py`, `cli.py` (`run_plex_duplicates`)

An actor is one request with the daemon thread it spawns, or one run of
`plex-duplicates`. `Trigger` tests and sets `_running`; `Spawned`/`SpawnFails`,
`Acquire`/`Skip`, `Generate`, `Publish`, `Fails`, `Unlock`, `Record` are `_run`.
A mount may refuse flock: the run then proceeds without it (`degraded`). `Crash`
ends a process, and the kernel drops its lock. `library` is what Plex serves and
`report` the version on disk.

### ReportViewer, ReportRegister - `web.py:163-195`

A visitor is a request that shows the report or acts on it. `Stat`, `Hit`,
`Read` and `Store` are the steps of `file_report_provider` between which the
threads of a server interleave: the key comes from `stat`, the value from a read
that may see a later file, and the pair replaces the memo without a lock. A read
or a parse that fails yields nothing, and is memoised like a report.
`Published` is `os.replace`; a published file is taken to have an mtime or a size
of its own. `Forgotten` is the end of a server. ReportRegister is what a visitor
may rely on: an answer is nothing, or a report that was on disk at some time
since the request began. `ServesRegister` says the memo implements it.

### RescanPage - `web.py:985-1098, 2031-2165, 2364-2472`, `web_rescan.py:231-241`

`watch[w]` is the state of the script in a browser page: waiting for its timer,
in a poll, on its way to the status page or to the report; with the count of
failed polls in a row. `Answered` reads the status of the server, `PollFails` is
a refusal, a broken connection or the abort at the deadline, `Arrives` the
status page that is rendered again, with or without a script. Unlock sessions
lapse and are renewed. Without `AbortController` a browser has no deadline for a
hanging poll; such browsers, and the page that refreshes itself without a
script, are left out.

### ReportService

Regenerations, waiting pages and visitors of the same servers and the same file.
`Publish` of a regeneration is `Published` of the viewer; `Dies` ends the
regenerations, requests and memo of a process at once. `since[w]`, a history
variable, is the edition on disk when the page was rendered. `around` names who
takes part in a behaviour, so that an instance need not explore everyone at once.

### HttpClient, QbittorrentClient - `http_client.py:186-233`, `qbittorrent.py:63-161`

HttpClient is one request: which results are tried again (GET and HEAD, after
`Transient` ones), how often, and which are final; a redirect to another host is
refused and is an error. `Unmapped` is what the client does not catch, a body cut
short or not UTF-8 (`http_client.py:207-217`): final at the first try, and no error
that a caller takes for the client's own. QbittorrentClient is a poll: `login` unless the flag
says it has been done, the request, and on a 403 one forced login and the request
once more. The service lets sessions lapse, bars the login and exempts clients,
at any time. `stage` is the request the poll is at.

### ReportGeneration - `plex.py:140-230`, `plex_report.py`, `arr.py:250-330`

`Resolve` chooses the sections, `Page` reads the next entries of the section in
hand and advances by what was returned, `Vanished` skips a section that answers
404 with all it listed, `PlexFails` ends the generation; `RadarrIndexed`,
`SeriesListed`, `EpisodesIndexed` and the skips are the indexes. The library
changes between any two steps, and a server may return fewer entries than asked,
with or without a total. Radarr and Sonarr are both configured; the workers for
the series answer in any order, one at a time. A 404 is taken at its word: the
section is gone. Answers without a list are taken for an empty one, as the code
does: `NoSections` and `HollowPage` for Plex (`plex.py:101-120`), an empty list of
series and the series in `Mute` for Sonarr (`arr.py:256-260`, `302-307`). `ArrEscapes` is
an unmapped error of an *arr, which ends the generation where a mapped one is a
warning. Changes of the library after the last page are left out: nothing reads it
any more.

### ServiceClients

The two clients over their common transport. They run in different processes, so
a behaviour follows one of them (`client`).

### ReclaimRequest - `web_actions.py:294-604, 1092-1616`, `dedupe.py`, `arr.py`, `plex_report.py`

A report (`Annotated`) is computed from the files and from what the *arrs track:
stacks, ranking, keeper, association and file id of every copy, as `dedupe.py`
and `arr.annotate` derive them. `Score` stands for resolution, bitrate and size
of a copy listed with some of its parts, and decides the ranking; of copies with
equal scores the one that Plex lists first (`Place`) is the keeper, as the sort
is stable. The operator's `page` is one such report, the
request acts on another. A group of `Protected` is refused; those in `Merged` have
two titles in one, which are associated with nothing (`arr.py:482-483`). A basename
that several files have is pinned by Sonarr to none and by Radarr to the last one
listed (`FileId`, `arr.py:179`). `Submit` takes targets by rating key and part id, and
compares the generations (`_generation_matches`). `Pass` covers every refusal of
`_reclaim_one`, `TakeFiles`/`TakeIds` the second validation, `DeleteFiles` and
`DeleteId` the two backends, `AnswerLost` a DELETE whose answer never comes,
`DeleteFails`, `Respond`, `Crash`. Files change, ids drift and rescans publish
between any two of them.

### ContentHash - `hasher.py`, `state.py:150-309`

`Passes` run `confirm_groups`. `Resolve` is the `lstat` of one part, `Hit`, `Miss`
and `LookupFails` are `HashCache.get`, `ReadBlock` reads one block, `CopyFails` is a
part that is gone, resized or unreadable (also after a hit), `Compare` is
`_compare_copies`, `Close` flushes the buffered digests and prunes, or loses them
all. `Aborts` is an exception in the pass: the buffer is flushed just the same
(`plex_report.py:208-210`), and the pass has no verdict. A digest is the `Blocks` it
was computed from, those of one part after the other, so sha256 is taken to be
injective; in `partial` mode it has the first and last block only. A change of a
file always shows in its ctime or inode: two writes within one tick of the kernel's
clock, with a `lstat` between them, are not told apart by the code and are left out.
Changes keep the mtime, the worst case.

## 3. Runs

Every passing run ends with the whole state space explored.

| run | question | properties | instance |
|---|---|---|---|
| LedgerTakeover | is the ledger claim-safe? | `TypeOK` `SkipIsSound` `YoungPassKeepsClaim` `RevokedOwnerHarmless` `OutputsOutliveReclaim` `FencesRuns` | service and one-shot, 1 archive, TTL 2, tool timeout 1, protection 2, clock to 4, 3 versions (two of one size), 3 claims; tables empty or of an older release |
| CleanerShared | do processes that share the candidates table keep their promises? | `TypeOK` `OwnPlanHonoured` `GraceHonoured` `FetchedTorrentsSafe` | 2 live processes, a file in a directory, a torrent that is that directory, a one-shot `extract` to the file, Grace and protection 2 |
| CleanerExtract | is extracted media kept, and do orphans go? | `ExtractedMediaKept` `OrphansGo` | a service that extracts, a file in a directory, a single-file torrent, `FairSpec` |
| StagingRecovery | does a reclaim that fails or dies leave the tree and the trail in order? | `TypeOK` `RefusedWhole` `NoSilentLeftover` `RemovalProven` | 2 parts, one of a long name, all faults, starts that see all, some or none of the siblings, 5 files |
| RescanShared | is regeneration single-flight, monotonic and never wedged, and do those who look at the report see what they should? | `TypeOK` `SingleFlight` `FlagIsTheThread` `ReportAdvances` `Reopens` `ServesRegister` `PageSettles` `SuccessShown` | two requests in one server, a cron run, two visitors and a waiting page, `ServiceFairSpec` |
| RequestSafety | does a reclaim delete what was chosen and nothing else? | `TypeOK` `GroupWhole` `KeeperSpared` `ChosenAlone` | a movie with a keeper, a stacked, an aliased and a tracked copy, an episode, a group of different content, a merged group; 1 change, 2 reports |
| HashCache | is a cached digest ever wrong? | `TypeOK` `CacheSound` `VerdictTrue` | 2 passes, both modes, a group of two files of three blocks, 1 change, a cap of one row |
| ClientFaults | do the clients survive what the services do, and does a report tell the truth about a library that changes? | `TypeOK` `ForbiddenMeansLapsedAgain` `LoginsCounted` `Recovers` `NoPartialReport` `MissedBound` `TwiceBound` `PinnedIsSole` `RequestsEnd` | 2 tries, 5 entries in 2 sections, pages of 2 from the position asked for, 2 edits, 3 series (one silent) with 5 files, `FairSpec` |
| LedgerSlowRun | refutes `LiveClaimHeld` | | 2 archives, TTL 4, tool timeout 1 |
| CleanerOneShot | refutes `ExtractedMediaKept` | | the service and a one-shot `extract` |
| StagingStale | refutes `SurvivorRestored` | | 2 parts, faults allowed |
| RequestShared | refutes `KeeperNeverDeleted` | | one file of two episodes |

**What they show, and why the bounds are enough.**

*LedgerTakeover.* `SkipIsSound` relates the promoted row to the archive now on
disk through three reads at different times: scan, stat and unar. Versions 1
and 2 have one size and version 3 another, so each part of the fingerprint
alone is tried. Legacy rows have no fingerprint that could be wrong or right:
`SkipIsSound` is about `Fingerprinted` rows, and the run shows that a legacy row does
no harm to the other promises. With a TTL of two tool timeouts and a clock of four, a claim is
reclaimed from a live owner that answers late, twice over, and three claims give
the late owner, its successor and a third. Two processes suffice for a
takeover; the theorems cover any number.

*CleanerShared, CleanerExtract.* `OwnPlanHonoured` needs two processes with
different plans, the older of which syncs last. It needs a grace window too: without
one a row that the other process inserts between a sync and a selection is eligible
at once (`CleanerNoGrace.cfg`, section 6). The torrent of CleanerShared is a
directory, which may be missing when the plan is built, be created, removed and
filled while the cycle runs: `FetchedTorrentsSafe` says that the only content of a
fetched torrent a cycle can delete is under a content directory that was not there
when it planned. That this happens is shown by `CleanerLateDir.cfg`. `GraceHonoured`
counts, in the history variable `kept`, the time since the last sync that found the
path tracked, across crashes and processes. Thresholds of one and two ticks let
every comparison fall on both sides, and saturation makes longer ones behave alike.
Paths do not interact but through a shared directory, so one path with its directory
shows what several would. `ExtractedMediaKept` is about the media that a result of
the pass names and the media that the table records. It holds with a service that
extracts; with a one-shot `extract` beside it, it does not (CleanerOneShot). Media
under a bare `FAILED` is in neither set and may go in the run that made it
(`CleanerUnreported.cfg`). `CleanerExtractShared.cfg` adds a dry-run `scan`, which
syncs but never deletes, and passes too.

*StagingRecovery.* Two parts are what it takes for one to be deleted and the other
to fail. Five files let both parts be re-created, one of them twice, which a reclaim
of a re-downloaded copy over an old leftover needs. `RefusedWhole` holds with every
fault. `NoSilentLeftover` holds with every fault but a failing audit write, for the
siblings the last start could see: one that its sweep passed over, or that a start
without a sweep left, has no row until a start that sees it (`StagingRefuted.cfg`
refutes `LeftoversNamed`, the claim without that exception). `RemovalProven` holds
as long as only renames, unlinks and the server fail, and StagingStale shows that
the condition is needed.

*RescanShared.* Three regenerations are two of one server, whose flag must
collapse them, and one of another process, which only flock keeps apart; one of
each kind may run on a mount without flock. Two changes of the library make
three versions, enough for an old report to overwrite a new one. `ReportAdvances`
is conditional on no run having bypassed the lock. `Scenes` are the three
regenerations among themselves, one with two visitors whose threads share the
memo, and one with a page; the theorems cover everyone at once. Two editions
let a file change between the stat and the read of one visitor while the other
fills the memo. A page that gives up after two failed polls instead of fifteen
has every transition of the counter: below the limit, at it, and reset.

*ClientFaults.* Two tries are the fewest in which a repetition can be told from
the last try; `LoginsCounted` would see a third login. Sections of three entries
and pages of two give full, short and empty pages, and two edits allow for a
removal and an insertion, or a change and the end of the section, in one scan. `MissedBound` and
`TwiceBound` say exactly how far a report may be off when the library moves under
the reader: by one entry per removal, or insertion, during the scan. The episode
files have a name that two series share, one that a series shares with the silent
one, and one with no id. `PinnedIsSole` is about the series that tell of their files;
`ClientMute.cfg` refutes it for all of them. `NoPartialReport` excepts the sections
that an answer without a list has ended (`hollow`): no error leaves part of a
section in a report. `RequestsEnd` assumes that Plex heeds the position it is asked
for (`Paged`), which real servers do; with one that does not and carries no total,
`ClientUnpaged.cfg` shows that a library is read for ever.

*RequestSafety.* The instance has every kind of copy `_reclaim_one` tells apart:
the keeper, a stacked copy with two part ids, the keeper's file listed a second
time, a tracked copy that shares a part id with an untracked one, an episode
whose basename occurs in another series, and the two kinds of group that are
protected: one of different content, whose copies are tracked, and two titles merged
into one, whose copies are associated with nothing. One change
beside one rescan makes a page stale in each way the code checks for. The
requests of a behaviour are not bounded. `KeeperSpared` and `GroupWhole` are about
groups in `Telling`: where two copies have files of one basename, neither is
stacked. Elsewhere a part with the basename of a keeper's file gets that file's
id, and the promise fails (`RequestStacked.cfg`, section 6).

*HashCache.* One change is enough to have a digest read before, after and in the
middle of it; the file's other content differs in the middle block only, which
`partial` does not read, or is too short. The passes start in either mode, so
rows of both modes meet, and are interchangeable (`SYMMETRY`). A cap of one row
makes every second digest evict another. `HashStacked.cfg` is the same check for
one pass over two groups, one of them with a stacked copy of another part
layout, and two changes; it passes too.

The runs check deadlock where the module always has a step; `RequestSafety`,
`HashCache` and `ClientFaults` turn that check off, since the operator, the
passes and the generation may stop.

## 4. Fairness

Three runs check liveness, and only they assume fairness.

*CleanerExtract* (`FairSpec` of CleanerCycle). Time passes, and every step of a
cycle that is possible again and again is taken some time (strong fairness).
Weak fairness would not do, for the model lets every cycle crash: `Crash`
disables the step for a while. The code's loop justifies it: `serve_forever`
catches what a cycle raises, sleeps and starts again, container managers restart
it, and a cycle that is never completed again is a broken installation. An
unlink that keeps being tried succeeds some time: one that never does (a
read-only mount) keeps its file, as it should. `OrphansGo` then says that a
settled orphan does not stay for ever, whatever the candidates table went
through. Crash-freedom is not assumed.

*RescanShared* (`ServiceFairSpec`). A thread with work to do goes on (weak fairness
of each regeneration's steps): HTTP timeouts bound the scan, and `flock` is taken
without waiting. Timers of the browser fire, and a poll ends at its deadline,
with an answer or without (weak fairness of each page's script): `poll` aborts
it with a timer of its own. Nobody is obliged to ask, and no poll to succeed.
`PageSettles` assumes, in the property, that from some time on no regeneration is
under way or the session has lapsed.

*ClientFaults* (`FairSpec` of ServiceClients). `serve_forever` polls again and
again, and a request that has been sent ends, since sockets time out (weak
fairness of the calls and of the steps of each client). That it ends well is not
assumed: `RequestsEnd` holds whatever the results of the requests are, with errors,
answers without a list, totals or none, as long as a page starts at the position
asked for (`Paged` of the run). The code has no other limit to the pages it reads:
`ClientUnpaged.cfg` refutes `RequestsEnd` for a server that answers every request with
the whole section and never says how many entries there are (`plex.py:184-198`).
`Recovers` states its condition, that from some time on nothing fails, in the property.

## 5. Proofs

The proofs are in `*Proofs.tla` and hold for every value of the constants that
satisfies the module's ASSUME: any number of processes, archives, paths, parts,
versions and thresholds. Type correctness is proved in each first. The
assumptions are named in the modules and say what an instance is: which constants
are functions of what, that there are finitely many copies, entries and sections,
that Plex lists an entry once in its own section, that a copy with fewer parts
scores no higher. TLC checks them on every run.

**ExtractionLedgerProofs.** `SkipTheorem` (`SkipIsSound`) rests on `SkipInv`. By
itself `SkipIsSound` says nothing of claims in flight, so it is strengthened by:
tokens on rows and in hand were granted, so that a fresh one takes the row from
every run (`TokensGranted`); a scan never saw an mtime later than the disk's
(`SeenIsPast`); what the tool read is no older than what the scan saw and no newer
than the disk (`GotIsCurrent`); the row a run owns carries its scan's mtime
(`OwnFingerprint`); so a promoted row's mtime is at most the version extracted,
which is at most the disk's (`PromotionIsPast`). When the row's mtime is that of the
disk, all three are equal. The property is about rows with a fingerprint; a legacy
row never had one. `RevokedOwnerTheorem` and `OutputsTheorem` follow from the same
invariant step by step. `YoungPassTheorem` needs `YoungInv`: in addition a claim's
time is its pass's `now` (`OwnClaimTime`), no two runs at work share a token
(`OwnToken`), and no pass started in the future (`Past`). `LeaseTheorem` is the
refinement of FencedLease: a run that works has a token, and only then
(`WorkHasToken`); with `SkipInv` each action maps to a grant, an end, a loss or an
expiry, or leaves all that the abstract specification sees as it is (`Unnoticed`).

**CleanerCycleProofs.** `OwnPlanTheorem`: what is found, selected and deleted is
outside the plan only because of the phase a process is in; `PlanInv` states it
for each (`ScannedUnprotected`, `SelectedUnprotected`, `OnlyDeleting`), and
`ProtectedRowsYoung` is the part that a shared table needs: while a process is
about to select, a path its plan protects has no row, or one that another
process inserted after its sync and that is of age zero, for no time passes
between the two. That such a row is not eligible is the theorem's hypothesis
`Graced`: the grace window is longer than 0, or there is one process. Both halves are
needed, and `config.py:310` accepts 0: `CleanerNoGrace.cfg` is the counterexample for
two processes. `GraceTheorem` needs neither: a
row is never older than the time since the last sync that did not list its path
(`Young`). `FetchedTheorem` is about torrents of any shape: a plan covers the
single files it was built for and the directories that were there (`PlanCovers`), and
keeps covering them whatever happens to the tree, so what a cycle deletes of a fetched
torrent is below a directory that was missing when it planned. `ExtractedTheorem`
assumes `Graced` and `SoleExtractor`: one process extracts,
no one-shot command does, and all others are dry runs, which insert candidates but
delete nothing (`DryRunsIdle`). Then a process past its extraction pass has in its
plan what the results of the pass name, recorded or not (`FreshPlanned`), and every output
whose window lasts (`OutputsPlanned`): nobody else records one meanwhile. Without
the assumption CleanerOneShot is a counterexample. Media that a bare `FAILED` leaves
in place is not what a result names, and the theorem does not cover it
(`CleanerUnreported.cfg`).

**ReclaimStagingProofs.** `WholeTheorem`: `TakenWhole` locates every part of the
copy in hand, by phase and position. `LeftoverTheorem`: a sibling is named by a
row, or about to be, or is one that the last start gave no row (`NotedOrPending`); so
whatever the server's own reclaims leave is named. `RemovalTheorem`: `Removal` adds that a
file is at one path only (`OnePlace`), that buffered rows tell the truth
(`RowsSay`), and that evidence for a part is about the sibling now there or is
being withdrawn (`EvidenceHolds`), which is what a hand-removed sibling breaks.

**ReportServiceProofs.** It has the proofs of the three modules.
`SingleFlightTheorem`: a run that is regenerating and not degraded is the holder of
the lock (`HolderHasLock`). `ReportTheorem`: while nobody bypassed the lock, a
report about to be published is no older than the one on disk (`NextReport`).
`FlagTheorem`: each set flag has one thread and each thread its flag (`FlagInv`).

`RegisterTheorem` is the refinement of ReportRegister:
what is in the memo, and what a request has read, was on disk when its key was or
later (`MemoIsPast`, `VisitIsPast`). A read may store an old key with a newer
report, never the other way round: that is why the stat comes before the read.

`ServiceParts` shows that a behaviour of the composition is one of each part, so
what is proved of them holds in it (`ServiceSingleFlight`, `ServiceReportAdvances`,
`ServiceServesRegister`). `ServiceSuccessShown` is about all of them together. Its
strengthening says, for each page, that a page which was rendered when a
regeneration had not yet published cannot read "succeeded" unless something has been
published since. Either the edition is a later one by now (`Later`), or (`NotYet`)
no success waits to be recorded in that server, and its last outcome is no success
or it still has a run that will record another. It holds while the page waits
(`WaitsInTime`), when it leaves for the report (`LandsInTime`) and while it reads
the report (`LooksInTime`), where the memo's promise takes over.

**ReclaimRequestProofs.** The type invariant needs that a report that is built
has the type of a report, so that its keeper is one (`HighestRanked` of
Induction). `IInv` adds what a request knows: the two reports were `Built` and the
request acts on the one of the page (`Pages`); a copy in hand may be deleted and
was asked for, and an id in hand that has not drifted points at a file with the
basename of one of its parts (`Hand`). From it every file that a reclaim removes is
`Meant`: of the copy in hand, or of the basename of a part of it and tracked. That is
`OnlyChosenGoes`, and with names that tell copies apart it is `KeeperIsSpared`:
a file of the keeper with that basename would make the tracked file the keeper's.
`GroupStaysWhole` is not about one step, so it needs more (`Kept`): in a group that
no other program changed every file is the one first seen or gone, and a report
lists all that are there, perhaps some that are gone (`Settled`); an id that drifted
to one counts as such a change (`Drifted`); and the copy that is best while all are
whole stays whole (`Standing`). A copy that has lost parts scores no higher, so
every report, also a stale one, has that copy for the keeper.

**ContentHashProofs.** `HashInv` has three parts beside the types. A digest of the
cache, or of a buffer, that identifies the files as they are is their digest
(`Fits`): `CacheIsSound`. It is inductive only with what a pass has in hand
(`Sound`): the identities it has taken are no later than now, so that a change,
whose stamp is new, makes every older identity one of the past; and the blocks
read so far are those of the files, as far as it has come (`Upto`), if they are
still as they were identified. And for a pass during which nothing changed
(`Honest`) each result is that of a copy it has done, and each copy done has its
result: `VerdictIsTrue` follows, since results that agree or differ then do so as
the files do. The digest of a stacked copy is a recursive function of its parts;
that it exists, and what it is, are lemmas (`JoinExists`).

**ServiceClientsProofs.** `ForbiddenTheorem` and `LoginsTheorem`: the second
login comes after one at most, and the repeated request finds the client admitted
unless access was lost again (`Relogins`), for any number of tries. `PinnedTheorem`:
the index is that of the series fetched so far, and in a finished report all of
it or nothing (`IndexInv`), for any number of series and files; the series in `Mute`
add nothing to it and are outside what it says.

The scan of a library has a theorem for each of the three ways in which a report
could lie, for libraries, pages and requests of any size. `ReportIsWhole` rests on
`SectionsInv`: no section is scanned twice, none is forgotten, and what is counted is
of sections read to their end, of those ended by an answer without a list (`hollow`),
or of the one in hand. `ChosenLists` is the lemma that
the sections chosen are those asked for, once each. `MissedIsBounded` rests on
`CutInv`: the entries that have stayed, stand before the position and have not been
listed are no more than the removals. A removal moves one entry at most back over
the position, an insertion none (`RemoveMoves`, `InsertMoves`), and a page leaves none
behind (`Unlisted`). `TwiceIsBounded` rests on `TwiceInv`, which counts before the
damage is done: an entry that has been listed and stands beyond the position has its
mark already. An insertion adds one mark, a removal none, and a page turns such
marks into repetitions one for one (`PageMarks`, an injection of the marks
afterwards into those before). It assumes `Paged`, a server that heeds the position
it is asked for; with one that does not it is false.

**Induction.** The library's induction theorems take a predicate as a parameter,
which the provers cannot instantiate. They are restated for sets here: a set of
naturals with a zero and with successors is Nat (`NaturalsBySteps`), a function may
be defined step by step (`StepByStep`), a finite set has its highest member under a
ranking (`HighestRanked`). What the recursive functions of ContentHash and
ReportGeneration compute is proved from these.

**Model-checked only.** The liveness properties (`OrphansGo`, `Reopens`,
`PageSettles`, `Recovers`, `RequestsEnd`), since the prover has neither fairness nor
ENABLED. `OwnPlanTheorem` and `FetchedTheorem` (`Graced`), `ExtractedTheorem` (`Graced`
and `SoleExtractor`) and `TwiceIsBounded` (`Paged`) have hypotheses of their own, for
the reasons given.

## 6. Where the code and its documentation disagree

Four runs are counterexamples to what the documentation or a comment says; they
are quoted in `PROJECT.json` under "findings".

| run | what the code does |
|---|---|
| LedgerSlowRun | A claim ages from the start of the pass (`extractor.py:399`), so with several archives a live extraction is taken for a crash although the TTL is far above the tool timeout (`state.py:49-50`). The ledger stays consistent; the archive is extracted twice at once. |
| CleanerOneShot | The protected set is read once per cycle (`service.py:98-100`): media a one-shot `extract` records later in the cycle can be deleted by it, though `docs/architecture.md:292-294` excludes any run. |
| StagingStale | A sibling removed by hand leaves its row as evidence (`web_actions.py:890`); a later crash at the same path has its only copy removed by the sweep (`docs/architecture.md:234-236`). |
| RequestShared | The keeper check is per group (`web_actions.py:332, 1138`): a file with two episodes can be the keeper of one and be reclaimed for the other (`README.md:431`). |

Further ones have a configuration that TLC refutes when it is run. `CleanerRefuted.cfg`
and `StagingRefuted.cfg` list several properties, to be checked one at a time.

| configuration | property | what the code does |
|---|---|---|
| LedgerSurface | `ProducedIsSurfaced` | When `complete` and `release` both fail, the handler records a bare failure (`extractor.py:427-429`) and media on disk is surfaced to nobody, against `extractor.py:508-512`. |
| CleanerRefuted | `CurrentTorrentsSafe` | A torrent added after the fetch protects nothing in that cycle (`service.py:77, 256`), against "content that still belongs to any torrent present in qBittorrent stays protected" (`README.md:27`). |
| CleanerLateDir | `FetchedTorrentsKept` | A content path that becomes a directory after planning is tracked as a file (`planner.py:81-84`), against `README.md:27`. |
| CleanerUnreported | `RunMediaKept` | After the bare failure of LedgerSurface, the media is in no protected set and can be deleted by the cycle that extracted it, if it replaced an old orphan (`extractor.py:427-429`; `docs/architecture.md:290-292`). |
| CleanerNoGrace | `OwnPlanHonoured` | With `ORPHAN_GRACE_SECONDS=0` (`config.py:310`) a row that another process syncs between this one's sync and selection is deleted at once, although its plan protects it (`state.py:476`). |
| CleanerRefuted | `FileGraceHonoured` | `first_seen` belongs to the path: a file replaced in place has the age of its predecessor (`state.py:484-487`; `docs/architecture.md:29-33`). |
| CleanerRefuted | `MinAgeHonoured` | The age is that of the scan: a file rewritten afterwards is deleted young (`service.py:256`; `docs/architecture.md:33`). |
| StagingRefuted | `OrphanKept` | A staged copy "left for manual restore" because its path was taken is removed by the next sweep, which finds both (`web_actions.py:811-814`, `1312-1321`, `1362`). |
| StagingRefuted | `LeftoversNamed` | A sibling under a root that is not mounted, in a directory that cannot be read, or at a start without a token is left without a row (`web_actions.py:739, 762-781`), and so is every one when the sweep raises and the server goes on (`cli.py:246-252`). |
| StagingRefuted | `DeletesAudited` | A crash between the deletes of a target and its audit write leaves deletes without a row (`web_actions.py:1614, 1623`; `docs/architecture.md:214-216`). |
| StagingRefuted | `NoClobber` | The check that a path is free and the rename to it are two steps (`web_actions.py:1312-1325`, `997-1003`). |
| RequestLastCopy | `LastCopyKept` | The target is revalidated, the keeper is not (`web_actions.py:1161`): when the keeper has gone since the report, its last sibling is deleted ("never the last copy", `web_actions.py:639`, `README.md:559-562`). |
| RequestStacked | `KeeperNeverDeleted` | The second part of a stacked copy has the basename of the keeper's file; another part pins the copy as tracked, so the part takes the keeper's file id (`arr.py:369-435`), and reclaiming the copy deletes the keeper of its own group (`README.md:431`). The path check compares paths, not basenames (`web_actions.py:1138`). |
| RequestTwin | `RightFile` | A basename that a foreign series alone tracks is pinned to it (`arr.py:444-450`), and the DELETE by id removes that file. |
| ClientMute | `PinnedIsOnly` | A series without an id, or one whose answer is null or an object, contributes no files and no warning (`arr.py:256-260`, `302-307`): a basename that it shares with another series is pinned to the file of that one. |
| ClientUnpaged | `RequestsEnd` | A Plex server that ignores the position it is asked for, and sends no total, is read for ever (`plex.py:184-198`). |
| ViewerUnread | `ReadRecovers` | A report that could not be read once is memoised as no report, and stays so until the next publication although the file can be read again (`web.py:191-193`). |

Most of those of the cleaner, the staging and the requests need a second writer in a
window of milliseconds, or a path that had been an orphan for the whole grace
window. `state.py:158` also says that the hash cache compares size and mtime; the
hasher gives it ctime and inode as well, without which `CacheSound` would not hold.

`SuccessShown` excepts a page that is rendered between the setting of the flag and
a spawn that then fails: no outcome is recorded (`web_rescan.py:221-228`), so its
next poll takes an earlier success for that of its own.

## 7. What is not modelled

- Configuration and parsing: of the environment (`config.py`), of Plex and *arr
  answers, of volume names, of HTTP headers and cookies. Their results are the
  CONSTANTS of the modules.
- How the web server renders pages and JSON (most of `web.py`), the text layout of
  the report, totals, log messages, exit codes.
- Who may ask: the action token, how a session is signed, the checks of Host and
  Origin. That a session lapses and is renewed is modelled, as far as a waiting
  page depends on it.
- Which answers of the *arrs lack what, entry by entry. An answer without a list is
  modelled for Plex and for Sonarr (section 2); one of Radarr's is an empty index,
  which associates nothing, like a Radarr that tracks nothing.
- Delays: of retries, of back-off, of the poll; and TLS.
- Rows that nothing reads but the history page (`record_runs`, the cleaner's own
  `actions`).
- Symbolic links, path normalisation and case, directories below one level.
- Scripts, the Docker image, CI.

Assumptions about the surroundings: a published report has an mtime or a size of
its own; a change of a media file shows in its ctime or inode; sha256 is
injective; a section that answers 404 is gone; SQLite transactions are atomic and
the kernel drops the flock of a process that ends.

## 8. Plan

Modules were written in the order of what a mistake costs: the two components
that delete on their own (ExtractionLedger feeds CleanerCycle), the two-phase
delete of the web server (ReclaimStaging), the report it acts on (ReportRescan),
the request (ReclaimRequest), the evidence in the report (ContentHash); then those
who wait for the report and read it (RescanPage, ReportViewer, ReportService), and
the clients it is made with (HttpClient, QbittorrentClient, ReportGeneration). What
comes next:

1. An atomic "whole or gone" reclaim that ReclaimStaging implements while nothing
   but failures and crashes happens.
2. *WebGate*: the action token and the sessions it signs across restarts,
   `web_actions.py:516-528, 641-707`. Property: no reclaim starts on a session
   that another token signed.
3. *DuplicateRank*: ranking and classes as operators, checked against a reference
   definition over bounded inputs.
4. *History*: the reader of the trail, `state.py:79-147`.

## 9. Running it

    tlc -workers 2 -config LedgerTakeover.cfg MCExtractionLedger.tla
    tlapm ExtractionLedgerProofs.tla

`Ledger*.cfg` go with `MCExtractionLedger`, `Cleaner*.cfg` with
`MCCleanerCycle`, `Staging*.cfg` with `MCReclaimStaging`, `Rescan*.cfg` and
`Viewer*.cfg` with `MCReportService`, `Request*.cfg` with `MCReclaimRequest`,
`Hash*.cfg` with `MCContentHash`, `Client*.cfg` with `MCServiceClients`. The
largest run takes about two and a half minutes.
