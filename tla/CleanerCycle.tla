----------------------------- MODULE CleanerCycle -----------------------------
(***************************************************************************)
(* The orphan cleaner: CleanerService.run_once over the protection plan    *)
(* (planner.py), the scan (scanner.py) and the candidate tables of the     *)
(* SQLite store (state.py).                                                *)
(*                                                                         *)
(* Processes are the polling service and one-shot `scan` runs sharing the  *)
(* database.  Around them files are written, moved, replaced and deleted,  *)
(* torrents are added and removed, and processes die.  Times are ages,     *)
(* saturated at the threshold they are compared with, so that time need    *)
(* not be bounded.                                                         *)
(***************************************************************************)
EXTENDS Integers, FiniteSets

CONSTANTS
    Procs,           \* processes that execute run_once
    DryRuns,         \* those started with DRY_RUN=true
    Paths,           \* file paths under the watch roots
    Media,           \* paths that extraction passes of run_once may extract to
    Dirs,            \* directories below the watch root
    Root,            \* the watch root: never removed, never a torrent's content
    DirOf,           \* directory of each path
    Torrents,        \* torrents qBittorrent may hold
    ContentOf,       \* content_path of each torrent: one path or one directory
    ProtectParents,  \* PROTECT_SINGLE_FILE_PARENT_DIRS
    DeleteEmptyDirs, \* DELETE_EMPTY_DIRS
    Grace,           \* ORPHAN_GRACE_SECONDS    (config.py takes any integer for these
    MinAge,          \* MIN_FILE_AGE_SECONDS     three; one below 0 behaves like 0)
    ProtectSeconds,  \* EXTRACT_PROTECT_SECONDS
    OneShots         \* paths that one-shot `extract` commands may extract to

ASSUME CleanerAssumption ==
    /\ DryRuns \subseteq Procs /\ Media \subseteq Paths /\ OneShots \subseteq Paths
    /\ Root \notin Dirs /\ Paths \cap (Dirs \cup {Root}) = {}
    /\ DirOf \in [Paths -> Dirs \cup {Root}]
    /\ ContentOf \in [Torrents -> Paths \cup Dirs]
    /\ ProtectParents \in BOOLEAN /\ DeleteEmptyDirs \in BOOLEAN
    /\ Grace \in Nat /\ MinAge \in Nat /\ ProtectSeconds \in Nat

VARIABLES
    file,     \* file[x]: the file at x: age of its mtime, time since it came there
    dirs,     \* directories that exist
    torrents, \* torrents in qBittorrent
    cand,     \* table candidates: age of first_seen, age of the recorded mtime
    outs,     \* table extraction_outputs: age of created_at, or None
    writing,  \* media a one-shot `extract` has written and not recorded yet
    phase,    \* where each process stands in run_once
    fetched,  \* the torrents it fetched
    plan,     \* its protection plan: tracked files and protected directories
    there,    \* history: the directories that existed when it planned
    fresh,    \* media the results of its own extraction pass name as outputs
    made,     \* history: media that pass has put in place
    found,    \* its orphan candidates, with the mtime scanned
    elig,     \* eligible candidates it has still to delete
    gone,     \* those it has deleted or found missing
    kept      \* history: time since the last sync that did not list the path

fsVars == <<file, dirs>>
dbVars == <<cand, outs>>
procVars == <<phase, fetched, plan, there, fresh, made, found, elig, gone>>
vars == <<fsVars, torrents, dbVars, writing, procVars, kept>>

None == -1
NoFile == [mtime |-> None, here |-> None]
NoRow == [first |-> None, mtime |-> None]

Ages(limit) == 0..limit
Present(x) == file[x] # NoFile
Older(age, limit) == IF age = None \/ age = limit THEN age ELSE age + 1

\* A plan tracks the exact file or protects a directory above it.
Protects(p, x) == x \in p \/ DirOf[x] \in p

\* Mutation of ProtectionPlan: every content path is taken for a file.
ProtectionPlanOfFiles(ts) ==
    LET singles == {ContentOf[t] : t \in ts} \cap Paths
    IN  singles \cup (IF ProtectParents THEN {DirOf[x] : x \in singles} \cap Dirs ELSE {})

\* build_protection_plan: a content path that is an existing directory is
\* protected as a unit; any other is tracked as one file, with its own directory
\* when that is not the watch root.  A content directory that does not exist
\* (yet) is taken for a file, which protects nothing under it.
ProtectionPlan(ts) ==
    LET contents == {ContentOf[t] : t \in ts}
        singles == contents \cap Paths
        parents == IF ProtectParents THEN {DirOf[x] : x \in singles} ELSE {}
    IN  singles \cup (parents \cap Dirs) \cup (contents \cap dirs)

Covers(t, x) == ContentOf[t] = x \/ ContentOf[t] = DirOf[x]

Init ==
    /\ file = [x \in Paths |-> NoFile]
    /\ dirs = {}
    /\ torrents = {}
    /\ cand = [x \in Paths |-> NoRow]
    /\ outs = [x \in Paths |-> None]
    /\ writing = {}
    /\ phase = [q \in Procs |-> "idle"]
    /\ fetched = [q \in Procs |-> {}]
    /\ plan = [q \in Procs |-> {}]
    /\ there = [q \in Procs |-> {}]
    /\ fresh = [q \in Procs |-> {}]
    /\ made = [q \in Procs |-> {}]
    /\ found = [q \in Procs |-> [x \in Paths |-> None]]
    /\ elig = [q \in Procs |-> {}]
    /\ gone = [q \in Procs |-> {}]
    /\ kept = [x \in Paths |-> 0]

-----------------------------------------------------------------------------
(* The environment.                                                        *)

\* A file appears at x, or replaces the one there: written now, or moved in or
\* extracted with its old mtime.
Put(x, mtime) ==
    /\ file' = [file EXCEPT ![x] = [mtime |-> mtime, here |-> 0]]
    /\ dirs' = dirs \cup ({DirOf[x]} \cap Dirs)

Write(x) ==
    /\ Put(x, 0)
    /\ UNCHANGED <<torrents, dbVars, writing, procVars, kept>>

MoveIn(x) ==
    /\ Put(x, MinAge)
    /\ UNCHANGED <<torrents, dbVars, writing, procVars, kept>>

Disappear(x) ==
    /\ Present(x)
    /\ file' = [file EXCEPT ![x] = NoFile]
    /\ UNCHANGED <<dirs, torrents, dbVars, writing, procVars, kept>>

\* An empty directory below the watch root comes or goes.
MakeDir(d) ==
    /\ d \notin dirs
    /\ dirs' = dirs \cup {d}
    /\ UNCHANGED <<file, torrents, dbVars, writing, procVars, kept>>

Empty(d) == \A x \in Paths : DirOf[x] = d => ~Present(x)

DropDir(d) ==
    /\ d \in dirs /\ Empty(d)
    /\ dirs' = dirs \ {d}
    /\ UNCHANGED <<file, torrents, dbVars, writing, procVars, kept>>

AddTorrent(t) ==
    /\ t \notin torrents
    /\ torrents' = torrents \cup {t}
    /\ UNCHANGED <<fsVars, dbVars, writing, procVars, kept>>

RemoveTorrent(t) ==
    /\ t \in torrents
    /\ torrents' = torrents \ {t}
    /\ UNCHANGED <<fsVars, dbVars, writing, procVars, kept>>

\* A one-shot `extract` writes media, and records it when unar has finished.
OneShotWrites(x) ==
    /\ x \notin writing
    /\ writing' = writing \cup {x}
    /\ \E mtime \in {0, MinAge} : Put(x, mtime)
    /\ UNCHANGED <<torrents, dbVars, procVars, kept>>

OneShotRecords(x) ==
    /\ x \in writing
    /\ writing' = writing \ {x}
    /\ outs' = [outs EXCEPT ![x] = 0]
    /\ UNCHANGED <<fsVars, torrents, cand, procVars, kept>>

\* Time passes between cycles, during the extraction pass and between deletions.
\* The scan, the sync and the selection take no time next to the thresholds.
Tick ==
    /\ \A q \in Procs : phase[q] \in {"idle", "extract", "delete"}
    /\ file' = [x \in Paths |-> [mtime |-> Older(file[x].mtime, MinAge),
                                 here |-> Older(file[x].here, Grace)]]
    /\ cand' = [x \in Paths |-> [first |-> Older(cand[x].first, Grace),
                                 mtime |-> Older(cand[x].mtime, MinAge)]]
    /\ outs' = [x \in Paths |-> Older(outs[x], ProtectSeconds)]
    /\ kept' = [x \in Paths |-> Older(kept[x], Grace)]
    /\ UNCHANGED <<dirs, torrents, writing, procVars>>

-----------------------------------------------------------------------------
(* One cycle of a process.                                                 *)

\* Nothing of a cycle outlives it in memory.
Forget(q) ==
    /\ phase' = [phase EXCEPT ![q] = "idle"]
    /\ fetched' = [fetched EXCEPT ![q] = {}]
    /\ plan' = [plan EXCEPT ![q] = {}]
    /\ there' = [there EXCEPT ![q] = {}]
    /\ fresh' = [fresh EXCEPT ![q] = {}]
    /\ made' = [made EXCEPT ![q] = {}]
    /\ found' = [found EXCEPT ![q] = [x \in Paths |-> None]]
    /\ elig' = [elig EXCEPT ![q] = {}]
    /\ gone' = [gone EXCEPT ![q] = {}]

\* The process dies, or the cycle raises and serve_forever catches it.
Crash(q) ==
    /\ phase[q] # "idle"
    /\ Forget(q)
    /\ UNCHANGED <<fsVars, torrents, dbVars, writing, kept>>

\* client.fetch_torrents: a snapshot of qBittorrent.
Fetch(q) ==
    /\ phase[q] = "idle"
    /\ fetched' = [fetched EXCEPT ![q] = torrents]
    /\ phase' = [phase EXCEPT ![q] = "plan"]
    /\ UNCHANGED <<fsVars, torrents, dbVars, writing, plan, there, fresh, made, found, elig, gone, kept>>

Plan(q) ==
    /\ phase[q] = "plan"
    /\ plan' = [plan EXCEPT ![q] = ProtectionPlan(fetched[q])]
    /\ there' = [there EXCEPT ![q] = dirs]
    /\ phase' = [phase EXCEPT ![q] = "extract"]
    /\ UNCHANGED <<fsVars, torrents, dbVars, writing, fetched, fresh, made, found, elig, gone, kept>>

\* One archive of the extraction pass puts media in place.  Its result names the
\* media, recorded in the ledger or not; or it is a bare FAILED that names none:
\* the walk for outputs raised, or the ledger write and the release of the claim.
Extract(q, x) ==
    /\ phase[q] = "extract" /\ q \notin DryRuns /\ x \notin made[q]
    /\ \E mtime \in {0, MinAge} : Put(x, mtime)
    /\ made' = [made EXCEPT ![q] = @ \cup {x}]
    /\ \/ /\ fresh' = [fresh EXCEPT ![q] = @ \cup {x}]
          /\ \E age \in {0, outs[x]} : outs' = [outs EXCEPT ![x] = age]
       \/ UNCHANGED <<fresh, outs>>
    /\ UNCHANGED <<torrents, cand, writing, phase, fetched, plan, there, found, elig, gone, kept>>

\* Mutation of ReadProtected: media of this very pass is not added to the plan.
ReadProtectedRecorded(q) ==
    /\ phase[q] = "extract"
    /\ LET live == {x \in Paths : outs[x] # None /\ outs[x] < ProtectSeconds}
       IN  /\ plan' = [plan EXCEPT ![q] = @ \cup live]
           /\ outs' = IF q \in DryRuns THEN outs
                      ELSE [x \in Paths |-> IF x \in live THEN outs[x] ELSE None]
    /\ phase' = [phase EXCEPT ![q] = "scan"]
    /\ UNCHANGED <<fsVars, torrents, cand, writing, fetched, there, fresh, made, found, elig, gone, kept>>

\* The pass ends: expired outputs are pruned, the others join the plan.
ReadProtected(q) ==
    /\ phase[q] = "extract"
    /\ LET live == {x \in Paths : outs[x] # None /\ outs[x] < ProtectSeconds}
       IN  /\ plan' = [plan EXCEPT ![q] = @ \cup live \cup fresh[q]]
           /\ outs' = IF q \in DryRuns THEN outs
                      ELSE [x \in Paths |-> IF x \in live THEN outs[x] ELSE None]
    /\ phase' = [phase EXCEPT ![q] = "scan"]
    /\ UNCHANGED <<fsVars, torrents, cand, writing, fetched, there, fresh, made, found, elig, gone, kept>>

\* scan_filesystem and find_orphan_candidates.
Scan(q) ==
    /\ phase[q] = "scan"
    /\ found' = [found EXCEPT ![q] =
                    [x \in Paths |-> IF Protects(plan[q], x) THEN None ELSE file[x].mtime]]
    /\ phase' = [phase EXCEPT ![q] = "sync"]
    /\ UNCHANGED <<fsVars, torrents, dbVars, writing, fetched, plan, there, fresh, made, elig, gone, kept>>

\* Mutation of Sync: a new row is inserted without its first_seen.
SyncUnstamped(q) ==
    /\ phase[q] = "sync"
    /\ cand' = [x \in Paths |-> IF found[q][x] = None THEN NoRow
                               ELSE [first |-> cand[x].first, mtime |-> found[q][x]]]
    /\ kept' = [x \in Paths |-> IF found[q][x] = None THEN 0 ELSE kept[x]]
    /\ phase' = [phase EXCEPT ![q] = "select"]
    /\ found' = [found EXCEPT ![q] = [x \in Paths |-> None]]
    /\ UNCHANGED <<fsVars, torrents, outs, writing, fetched, plan, there, fresh, made, elig, gone>>

\* Mutation of Sync: rows of paths that are no longer orphans are kept.
SyncUpserts(q) ==
    /\ phase[q] = "sync"
    /\ cand' = [x \in Paths |->
                  IF found[q][x] = None THEN cand[x]
                  ELSE [first |-> IF cand[x] = NoRow THEN 0 ELSE cand[x].first,
                        mtime |-> found[q][x]]]
    /\ kept' = [x \in Paths |-> IF found[q][x] = None THEN 0 ELSE kept[x]]
    /\ phase' = [phase EXCEPT ![q] = "select"]
    /\ found' = [found EXCEPT ![q] = [x \in Paths |-> None]]
    /\ UNCHANGED <<fsVars, torrents, outs, writing, fetched, plan, there, fresh, made, elig, gone>>

\* Mutation of Sync: first_seen is rewritten on every sync.
SyncRestamps(q) ==
    /\ phase[q] = "sync"
    /\ cand' = [x \in Paths |-> IF found[q][x] = None THEN NoRow
                               ELSE [first |-> 0, mtime |-> found[q][x]]]
    /\ kept' = [x \in Paths |-> IF found[q][x] = None THEN 0 ELSE kept[x]]
    /\ phase' = [phase EXCEPT ![q] = "select"]
    /\ found' = [found EXCEPT ![q] = [x \in Paths |-> None]]
    /\ UNCHANGED <<fsVars, torrents, outs, writing, fetched, plan, there, fresh, made, elig, gone>>

\* sync_candidates: the table becomes the orphan set; known paths keep first_seen.
\* What the scan found is not read again.
Sync(q) ==
    /\ phase[q] = "sync"
    /\ cand' = [x \in Paths |->
                  IF found[q][x] = None THEN NoRow
                  ELSE [first |-> IF cand[x] = NoRow THEN 0 ELSE cand[x].first,
                        mtime |-> found[q][x]]]
    /\ kept' = [x \in Paths |-> IF found[q][x] = None THEN 0 ELSE kept[x]]
    /\ phase' = [phase EXCEPT ![q] = "select"]
    /\ found' = [found EXCEPT ![q] = [x \in Paths |-> None]]
    /\ UNCHANGED <<fsVars, torrents, outs, writing, fetched, plan, there, fresh, made, elig, gone>>

\* Mutation of Eligible: a candidate is taken one tick too early.
EligibleEarly == {x \in Paths : cand[x].first >= Grace - 1 /\ cand[x].mtime = MinAge}

Eligible == {x \in Paths : cand[x].first = Grace /\ cand[x].mtime = MinAge}

\* get_eligible_candidates; a dry run only reports them.
Select(q) ==
    /\ phase[q] = "select"
    /\ IF q \in DryRuns THEN Forget(q)
       ELSE /\ elig' = [elig EXCEPT ![q] = Eligible]
            /\ phase' = [phase EXCEPT ![q] = "delete"]
            /\ UNCHANGED <<fetched, plan, there, fresh, made, found, gone>>
    /\ UNCHANGED <<fsVars, torrents, dbVars, writing, kept>>

\* _delete_candidate: unlinked, or already missing.
Delete(q, x) ==
    /\ phase[q] = "delete" /\ x \in elig[q]
    /\ file' = [file EXCEPT ![x] = NoFile]
    /\ elig' = [elig EXCEPT ![q] = @ \ {x}]
    /\ gone' = [gone EXCEPT ![q] = @ \cup {x}]
    /\ UNCHANGED <<dirs, torrents, dbVars, writing, phase, fetched, plan, there, fresh, made, found, kept>>

\* unlink fails: the file and its row stay for the next cycle.
DeleteFails(q, x) ==
    /\ phase[q] = "delete" /\ x \in elig[q] /\ Present(x)
    /\ elig' = [elig EXCEPT ![q] = @ \ {x}]
    /\ UNCHANGED <<fsVars, torrents, dbVars, writing, phase, fetched, plan, there, fresh, made, found,
                   gone, kept>>

\* remove_candidates drops the rows of what is gone.
RemoveCandidates(q) ==
    /\ phase[q] = "delete" /\ elig[q] = {}
    /\ cand' = [x \in Paths |-> IF x \in gone[q] THEN NoRow ELSE cand[x]]
    /\ phase' = [phase EXCEPT ![q] = "rmdirs"]
    /\ UNCHANGED <<fsVars, torrents, outs, writing, fetched, plan, there, fresh, made, found, elig, gone, kept>>

\* _remove_empty_dirs: the directories of what is gone, unless the plan protects
\* them; rmdir refuses one that is not empty.  The cycle is over.
RemoveDirs(q) ==
    /\ phase[q] = "rmdirs"
    /\ dirs' = IF DeleteEmptyDirs
               THEN {d \in dirs : ~Empty(d) \/ d \in plan[q] \/ \A x \in gone[q] : DirOf[x] # d}
               ELSE dirs
    /\ Forget(q)
    /\ UNCHANGED <<file, torrents, dbVars, writing, kept>>

Cycle(q) ==
    \/ Fetch(q) \/ Plan(q) \/ ReadProtected(q) \/ Scan(q) \/ Sync(q) \/ Select(q)
    \/ RemoveCandidates(q) \/ RemoveDirs(q)
    \/ \E x \in Media : Extract(q, x)
    \/ \E x \in Paths : Delete(q, x) \/ DeleteFails(q, x)

Environment ==
    \/ Tick
    \/ \E x \in Paths : Write(x) \/ MoveIn(x) \/ Disappear(x)
    \/ \E d \in Dirs : MakeDir(d) \/ DropDir(d)
    \/ \E t \in Torrents : AddTorrent(t) \/ RemoveTorrent(t)
    \/ \E x \in OneShots : OneShotWrites(x) \/ OneShotRecords(x)

Next == Environment \/ \E q \in Procs : Crash(q) \/ Cycle(q)

Spec == Init /\ [][Next]_vars

\* The scheduling the service's loop gives: time passes, and every step of a
\* cycle is taken again and again, however often cycles fail or the process is
\* restarted in between; an unlink that keeps being tried succeeds some time.
Fairness ==
    /\ SF_vars(Tick)
    /\ \A q \in Procs :
         /\ SF_vars(Fetch(q)) /\ SF_vars(Plan(q)) /\ SF_vars(ReadProtected(q))
         /\ SF_vars(Scan(q)) /\ SF_vars(Sync(q)) /\ SF_vars(Select(q))
         /\ SF_vars(RemoveCandidates(q)) /\ SF_vars(RemoveDirs(q))
         /\ \A x \in Paths : SF_vars(Delete(q, x))

FairSpec == Spec /\ Fairness

-----------------------------------------------------------------------------
(* What the cleaner promises.                                              *)

Phases == {"idle", "plan", "extract", "scan", "sync", "select", "delete", "rmdirs"}
Age(limit) == Ages(limit) \cup {None}

\* Every variable has its type, and every row a first_seen and a mtime.
TypeOK ==
    /\ file \in [Paths -> [mtime : Age(MinAge), here : Age(Grace)]]
    /\ dirs \subseteq Dirs /\ torrents \subseteq Torrents /\ writing \subseteq OneShots
    /\ cand \in [Paths -> [first : Age(Grace), mtime : Age(MinAge)]]
    /\ outs \in [Paths -> Age(ProtectSeconds)]
    /\ phase \in [Procs -> Phases]
    /\ fetched \in [Procs -> SUBSET Torrents]
    /\ plan \in [Procs -> SUBSET (Paths \cup Dirs)]
    /\ there \in [Procs -> SUBSET Dirs]
    /\ fresh \in [Procs -> SUBSET Paths]
    /\ made \in [Procs -> SUBSET Paths]
    /\ found \in [Procs -> [Paths -> Age(MinAge)]]
    /\ elig \in [Procs -> SUBSET Paths]
    /\ gone \in [Procs -> SUBSET Paths]
    /\ kept \in [Paths -> Ages(Grace)]
    /\ \A x \in Paths : /\ file[x].mtime = None <=> file[x].here = None
                        /\ cand[x].mtime = None <=> cand[x].first = None

\* Process q unlinks the file at x in this step.
Unlinks(q, x) == Present(x) /\ x \in gone'[q] \ gone[q]

\* No process deletes what its own plan protects, though the candidates it reads
\* are shared with processes whose plans are older or newer than its own.  A grace
\* window is what prevents it: without one (Grace = 0) a row that another process
\* inserts between this one's sync and its selection is eligible at once.
OwnPlanHonoured ==
    [][\A q \in Procs, x \in Paths : Unlinks(q, x) => ~Protects(plan[q], x)]_vars

\* A path becomes eligible only when every sync of the last Grace seconds, by
\* any process and across crashes, found it untracked.
GraceHonoured ==
    [][\A q \in Procs, x \in Paths : x \in elig'[q] \ elig[q] => kept[x] = Grace]_vars

\* A cycle deletes content of a torrent it fetched only below a content directory
\* that was missing when it planned: never the content of a single-file torrent,
\* nor what is in a directory that was there then, though it be removed, created
\* again and filled while the cycle runs.
FetchedTorrentsSafe ==
    [][\A q \in Procs, x \in Paths : \A t \in fetched[q] :
          Unlinks(q, x) /\ Covers(t, x) => ContentOf[t] \in Dirs \ there[q]]_vars

\* Content of a torrent that was in qBittorrent when the cycle began, and still
\* is, is not deleted by that cycle.
FetchedTorrentsKept ==
    [][\A q \in Procs, x \in Paths, t \in Torrents :
          Unlinks(q, x) /\ t \in fetched[q] \cap torrents => ~Covers(t, x)]_vars

\* Content of any torrent present in qBittorrent stays protected.
CurrentTorrentsSafe ==
    [][\A q \in Procs, x \in Paths, t \in torrents : Unlinks(q, x) => ~Covers(t, x)]_vars

\* Extracted media that a result of the run names is not deleted in that run,
\* recorded or not; nor is recorded media, in any run, while its protection window
\* lasts.  Media that a bare FAILED leaves in place is in neither set.
ExtractedMediaKept ==
    [][\A q \in Procs, x \in Paths :
          Unlinks(q, x) => x \notin fresh[q] /\ outs[x] \in {None, ProtectSeconds}]_vars

\* Freshly extracted media is never deleted in the run that created it, whatever
\* its result says.
RunMediaKept == [][\A q \in Procs, x \in Paths : Unlinks(q, x) => x \notin made[q]]_vars

\* A file becomes eligible only after it has itself been there, untracked, for
\* the grace window: not the first time it appears orphaned.
FileGraceHonoured ==
    [][\A q \in Procs, x \in Paths :
          Present(x) /\ x \in elig'[q] \ elig[q] => file[x].here = Grace]_vars

\* A deleted file is older than MIN_FILE_AGE_SECONDS when it is deleted.
MinAgeHonoured ==
    [][\A q \in Procs, x \in Paths : Unlinks(q, x) => file[x].mtime = MinAge]_vars

\* A file that nothing tracks, protects or rewrites does not stay for ever.
SettledOrphan(x) ==
    /\ file[x] = [mtime |-> MinAge, here |-> Grace]
    /\ ~Protects(ProtectionPlan(torrents), x)
    /\ outs[x] \in {None, ProtectSeconds}
OrphansGo == \A x \in Paths : []<>~SettledOrphan(x)

=============================================================================
