---------------------------- MODULE ReportRescan ----------------------------
(***************************************************************************)
(* Regeneration of the duplicate report: ReportRescanService.trigger /     *)
(* _run in a web server, and the `plex-duplicates` command, each of them   *)
(* generating and publishing the report under report_generation_lock.      *)
(*                                                                         *)
(* An actor is one request for a regeneration together with the daemon     *)
(* thread it spawns, or one run of the command (a process of its own).     *)
(* The in-memory flag collapses the requests of one server; the advisory   *)
(* flock serialises processes, and the kernel drops it when one dies.      *)
(***************************************************************************)
EXTENDS Integers, FiniteSets

CONSTANTS
    Actors,     \* regenerations that may be asked for, again and again
    Hosts,      \* processes
    Servers,    \* those that are web servers with a ReportRescanService
    HostOf,     \* the process an actor belongs to
    Degradable, \* actors whose mount may reject flock: they then proceed unlocked
    MaxLibrary  \* bound: versions of the media library

ASSUME RescanAssumption ==
    /\ Servers \subseteq Hosts /\ HostOf \in [Actors -> Hosts]
    /\ Degradable \subseteq Actors /\ MaxLibrary \in Nat

VARIABLES
    library,  \* version of what Plex serves
    report,   \* version the report on disk was generated from
    locked,   \* actors that hold the flock on the sidecar file
    running,  \* servers whose _running flag is set
    last,     \* last[h]: _last_status of a server
    phase,    \* where each actor stands
    read,     \* library version of the report an actor has generated
    outcome,  \* what its _run will record
    degraded, \* actors whose present run proceeds without the flock
    bypassed  \* history: some run has proceeded without the flock

vars == <<library, report, locked, running, last, phase, read, outcome, degraded, bypassed>>

\* Mutation of Web: the command goes through the service as well.
WebAlways(a) == a \in Actors

Web(a) == HostOf[a] \in Servers

Init ==
    /\ library = 0 /\ report = 0
    /\ locked = {} /\ running = {}
    /\ last = [h \in Hosts |-> "none"]
    /\ phase = [a \in Actors |-> "idle"]
    /\ read = [a \in Actors |-> 0]
    /\ outcome = [a \in Actors |-> "none"]
    /\ degraded = {} /\ bypassed = FALSE

LibraryChanges ==
    /\ library < MaxLibrary
    /\ library' = library + 1
    /\ UNCHANGED <<report, locked, running, last, phase, read, outcome, degraded, bypassed>>

Enter(a, p) == phase' = [phase EXCEPT ![a] = p]

\* An actor that is through keeps nothing.
Exit(a) ==
    /\ Enter(a, "idle")
    /\ read' = [read EXCEPT ![a] = 0]
    /\ outcome' = [outcome EXCEPT ![a] = "none"]

\* Mutation of Trigger: the flag is set and not tested.
TriggerUntested(a) ==
    /\ phase[a] = "idle" /\ Web(a)
    /\ running' = running \cup {HostOf[a]}
    /\ Enter(a, "spawn")
    /\ UNCHANGED <<library, report, locked, last, read, outcome, degraded, bypassed>>

\* trigger, when no regeneration runs in this server; otherwise the request is
\* answered already-running and nothing changes.
Trigger(a) ==
    /\ phase[a] = "idle" /\ Web(a)
    /\ HostOf[a] \notin running
    /\ running' = running \cup {HostOf[a]}
    /\ Enter(a, "spawn")
    /\ UNCHANGED <<library, report, locked, last, read, outcome, degraded, bypassed>>

Spawned(a) ==
    /\ phase[a] = "spawn"
    /\ Enter(a, "lock")
    /\ UNCHANGED <<library, report, locked, running, last, read, outcome, degraded, bypassed>>

\* No thread: the flag is reset and the request fails.
SpawnFails(a) ==
    /\ phase[a] = "spawn"
    /\ running' = running \ {HostOf[a]}
    /\ Enter(a, "idle")
    /\ UNCHANGED <<library, report, locked, last, read, outcome, degraded, bypassed>>

\* The plex-duplicates command starts.
Command(a) ==
    /\ phase[a] = "idle" /\ ~Web(a)
    /\ Enter(a, "lock")
    /\ UNCHANGED <<library, report, locked, running, last, read, outcome, degraded, bypassed>>

\* Mutation of Acquire: a flock held by another is treated like one that fails.
AcquireRegardless(a) ==
    /\ phase[a] = "lock"
    /\ IF locked = {} THEN locked' = {a} ELSE UNCHANGED locked
    /\ Enter(a, "generate")
    /\ UNCHANGED <<library, report, running, last, read, outcome, degraded, bypassed>>

\* The flock is free, or it cannot be had and the run proceeds without it.
Acquire(a) ==
    /\ phase[a] = "lock"
    /\ \/ /\ a \in Degradable
          /\ degraded' = degraded \cup {a} /\ bypassed' = TRUE
          /\ UNCHANGED locked
       \/ locked = {} /\ locked' = {a} /\ UNCHANGED <<degraded, bypassed>>
    /\ Enter(a, "generate")
    /\ UNCHANGED <<library, report, running, last, read, outcome>>

\* After the lock's `with` block: a server's thread records the outcome; the
\* command exits.
After(a, result) ==
    IF Web(a)
    THEN /\ Enter(a, "record")
         /\ outcome' = [outcome EXCEPT ![a] = result]
         /\ UNCHANGED read
    ELSE Exit(a)

\* Another actor holds the flock: skip, never wait.
Skip(a) ==
    /\ phase[a] = "lock" /\ locked # {}
    /\ After(a, "skipped")
    /\ UNCHANGED <<library, report, locked, running, last, degraded, bypassed>>

\* Mutation of Generate: the lock covers the scan and not the write.
GenerateThenUnlock(a) ==
    /\ phase[a] = "generate"
    /\ read' = [read EXCEPT ![a] = library]
    /\ locked' = locked \ {a}
    /\ Enter(a, "publish")
    /\ UNCHANGED <<library, report, running, last, outcome, degraded, bypassed>>

\* The scan ends and the report is stamped generated_at.
Generate(a) ==
    /\ phase[a] = "generate"
    /\ read' = [read EXCEPT ![a] = library]
    /\ Enter(a, "publish")
    /\ UNCHANGED <<library, report, locked, running, last, outcome, degraded, bypassed>>

\* write_report: os.replace publishes the whole report.
Publish(a) ==
    /\ phase[a] = "publish"
    /\ report' = read[a]
    /\ outcome' = [outcome EXCEPT ![a] = "succeeded"]
    /\ Enter(a, "unlock")
    /\ UNCHANGED <<library, locked, running, last, read, degraded, bypassed>>

\* Mutation of Fails: an exception ends the thread before it resets the flag.
FailsUnrecorded(a) ==
    /\ phase[a] \in {"generate", "publish"}
    /\ locked' = locked \ {a}
    /\ degraded' = degraded \ {a}
    /\ Exit(a)
    /\ UNCHANGED <<library, report, running, last, bypassed>>

\* The scan or the write raises; the report on disk stays.
Fails(a) ==
    /\ phase[a] \in {"generate", "publish"}
    /\ outcome' = [outcome EXCEPT ![a] = "failed"]
    /\ Enter(a, "unlock")
    /\ UNCHANGED <<library, report, locked, running, last, read, degraded, bypassed>>

Unlock(a) ==
    /\ phase[a] = "unlock"
    /\ locked' = locked \ {a}
    /\ degraded' = degraded \ {a}
    /\ After(a, outcome[a])
    /\ UNCHANGED <<library, report, running, last, bypassed>>

\* Mutation of Record: only a success is worth recording.
RecordSuccessOnly(a) ==
    /\ phase[a] = "record"
    /\ running' = running \ {HostOf[a]}
    /\ last' = [last EXCEPT ![HostOf[a]] = IF outcome[a] = "succeeded" THEN outcome[a] ELSE @]
    /\ Exit(a)
    /\ UNCHANGED <<library, report, locked, degraded, bypassed>>

\* The thread's finally block.
Record(a) ==
    /\ phase[a] = "record"
    /\ running' = running \ {HostOf[a]}
    /\ last' = [last EXCEPT ![HostOf[a]] = outcome[a]]
    /\ Exit(a)
    /\ UNCHANGED <<library, report, locked, degraded, bypassed>>

\* A process dies with its threads, its memory and its flock.
Crash(h) ==
    /\ \E a \in Actors : HostOf[a] = h /\ phase[a] # "idle"
    /\ phase' = [a \in Actors |-> IF HostOf[a] = h THEN "idle" ELSE phase[a]]
    /\ read' = [a \in Actors |-> IF HostOf[a] = h THEN 0 ELSE read[a]]
    /\ outcome' = [a \in Actors |-> IF HostOf[a] = h THEN "none" ELSE outcome[a]]
    /\ locked' = {a \in locked : HostOf[a] # h}
    /\ degraded' = {a \in degraded : HostOf[a] # h}
    /\ running' = running \ {h}
    /\ last' = [last EXCEPT ![h] = "none"]
    /\ UNCHANGED <<library, report, bypassed>>

\* What a run does apart from publishing.
Work(a) ==
    \/ Spawned(a) \/ SpawnFails(a) \/ Acquire(a) \/ Skip(a) \/ Generate(a)
    \/ Fails(a) \/ Unlock(a) \/ Record(a)

Step(a) == Work(a) \/ Publish(a)

Next ==
    \/ LibraryChanges
    \/ \E a \in Actors : Trigger(a) \/ Command(a) \/ Step(a)
    \/ \E h \in Hosts : Crash(h)

Spec == Init /\ [][Next]_vars

\* A thread that has work to do goes on: HTTP timeouts end the scan.  Nothing
\* obliges anyone to ask for a regeneration.
FairSpec == Spec /\ \A a \in Actors : WF_vars(Step(a))

-----------------------------------------------------------------------------
(* What regeneration promises.                                             *)

Holding == {"generate", "publish", "unlock"}
Phases == {"idle", "spawn", "lock", "record"} \cup Holding
Outcomes == {"none", "succeeded", "failed", "skipped"}

\* Every variable has its type.
TypeOK ==
    /\ library \in 0..MaxLibrary /\ report \in 0..MaxLibrary
    /\ locked \subseteq Actors /\ running \subseteq Servers
    /\ last \in [Hosts -> Outcomes]
    /\ phase \in [Actors -> Phases]
    /\ read \in [Actors -> 0..MaxLibrary]
    /\ outcome \in [Actors -> Outcomes]
    /\ degraded \subseteq Degradable /\ bypassed \in BOOLEAN

\* Single-flight across processes: two runs that could use the flock never fan
\* out to Plex at once, though its holders die and others proceed without it.
SingleFlight ==
    \A a, b \in Actors \ degraded : phase[a] \in Holding /\ phase[b] \in Holding => a = b

\* Single-flight in a server, with or without flock, and no wedged flag: the
\* flag is set exactly while one thread of the server is at work.
AtWork(h) == {a \in Actors : HostOf[a] = h /\ phase[a] # "idle"}
FlagIsTheThread == \A h \in Servers : Cardinality(AtWork(h)) = IF h \in running THEN 1 ELSE 0

\* The report on disk never goes back to an older state of the library, unless a
\* regeneration had to proceed without the flock.
ReportAdvances == [][~bypassed => report' >= report]_vars

\* A server whose regeneration is running can be asked again some time.
Reopens == \A h \in Servers : h \in running ~> h \notin running

=============================================================================
