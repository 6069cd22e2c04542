------------------------- MODULE ReportServiceProofs -------------------------
(***************************************************************************)
(* Proofs about the report, in three parts.                                *)
(*                                                                         *)
(* Regenerations (ReportRescan): at most one that can use the flock is     *)
(* under way, a server's flag is set exactly while one thread of it is at  *)
(* work, and the published report never goes back.                         *)
(*                                                                         *)
(* Viewers (ReportViewer): for every number of servers, requests and       *)
(* publications, the memo that threads share without a lock cannot be told *)
(* from a register that is read directly.                                  *)
(*                                                                         *)
(* The service in which they meet (ReportService): each of its steps is,   *)
(* for each part, a step of that part or none of it, so that the theorems  *)
(* of the parts carry over, whatever the scenes are; and the page.         *)
(***************************************************************************)
EXTENDS ReportService, FiniteSetTheorems, TLAPS

-----------------------------------------------------------------------------
(* Regenerations.                                                          *)

\* What every kind of step leaves of the types of one actor.
LEMMA EnterTypes ==
    ASSUME TypeOK, NEW a \in Actors, NEW p \in Phases, Enter(a, p)
    PROVE  phase' \in [Actors -> Phases] /\ phase'[a] = p
           /\ \A b \in Actors \ {a} : phase'[b] = phase[b]
BY DEF TypeOK, Enter

LEMMA ExitTypes ==
    ASSUME TypeOK, NEW a \in Actors, Exit(a)
    PROVE  /\ phase' \in [Actors -> Phases] /\ phase'[a] = "idle"
           /\ \A b \in Actors \ {a} : phase'[b] = phase[b] /\ read'[b] = read[b]
           /\ read' \in [Actors -> 0..MaxLibrary] /\ read'[a] = 0
           /\ outcome' \in [Actors -> Outcomes]
BY RescanAssumption DEF TypeOK, Exit, Enter, Phases, Outcomes

LEMMA AfterTypes ==
    ASSUME TypeOK, NEW a \in Actors, NEW result \in Outcomes, After(a, result)
    PROVE  /\ phase' \in [Actors -> Phases] /\ phase'[a] = IF Web(a) THEN "record" ELSE "idle"
           /\ \A b \in Actors \ {a} : phase'[b] = phase[b] /\ read'[b] = read[b]
           /\ read' \in [Actors -> 0..MaxLibrary] /\ read'[a] \in {read[a], 0}
           /\ outcome' \in [Actors -> Outcomes]
<1>1. CASE Web(a)
  BY <1>1 DEF After, Enter, TypeOK, Phases, Outcomes
<1>2. CASE ~Web(a)
  BY <1>2, ExitTypes DEF After
<1> QED
  BY <1>1, <1>2

\* Every step keeps the types.
LEMMA TypeStep == TypeOK /\ [Next]_vars => TypeOK'
<1> SUFFICES ASSUME TypeOK, [Next]_vars PROVE TypeOK'
  OBVIOUS
<1>0. MaxLibrary \in Nat /\ HostOf \in [Actors -> Hosts]
  BY RescanAssumption
<1>1. CASE UNCHANGED vars
  BY <1>1 DEF vars, TypeOK
<1>2. CASE LibraryChanges
  BY <1>2, <1>0 DEF LibraryChanges, TypeOK
<1>3. ASSUME NEW a \in Actors, Trigger(a) \/ Spawned(a) \/ SpawnFails(a) \/ Command(a) PROVE TypeOK'
  BY <1>3, <1>0 DEF Trigger, Spawned, SpawnFails, Command, Enter, Web, TypeOK, Phases
<1>4. ASSUME NEW a \in Actors, Acquire(a) PROVE TypeOK'
  BY <1>4 DEF Acquire, Enter, TypeOK, Phases, Holding
<1>5. ASSUME NEW a \in Actors, Skip(a) PROVE TypeOK'
  <2>1. After(a, "skipped") /\ "skipped" \in Outcomes
    BY <1>5 DEF Skip, Outcomes
  <2> QED
    BY <1>5, <2>1, AfterTypes DEF Skip, TypeOK
<1>6. ASSUME NEW a \in Actors, Generate(a) \/ Publish(a) \/ Fails(a) PROVE TypeOK'
  BY <1>6, <1>0 DEF Generate, Publish, Fails, Enter, TypeOK, Phases, Holding, Outcomes
<1>7. ASSUME NEW a \in Actors, Unlock(a) PROVE TypeOK'
  <2>1. After(a, outcome[a]) /\ outcome[a] \in Outcomes
    BY <1>7 DEF Unlock, TypeOK
  <2> QED
    BY <1>7, <2>1, AfterTypes DEF Unlock, TypeOK
<1>8. ASSUME NEW a \in Actors, Record(a) PROVE TypeOK'
  <2>1. last' \in [Hosts -> Outcomes]
    BY <1>8, <1>0 DEF Record, TypeOK
  <2> QED
    BY <1>8, <2>1, ExitTypes DEF Record, TypeOK
<1>9. ASSUME NEW h \in Hosts, Crash(h) PROVE TypeOK'
  <2>1. phase' \in [Actors -> Phases] /\ read' \in [Actors -> 0..MaxLibrary]
        /\ outcome' \in [Actors -> Outcomes]
    BY <1>9, <1>0 DEF Crash, TypeOK, Phases, Outcomes
  <2>2. last' \in [Hosts -> Outcomes]
    BY <1>9 DEF Crash, TypeOK, Outcomes
  <2> QED
    BY <1>9, <2>1, <2>2 DEF Crash, TypeOK
<1> QED
  BY <1>1, <1>2, <1>3, <1>4, <1>5, <1>6, <1>7, <1>8, <1>9 DEF Next, Step, Work

\* The initial state has them.
LEMMA TypeInit == Init => TypeOK
<1> SUFFICES ASSUME Init PROVE TypeOK
  OBVIOUS
<1>1. library \in 0..MaxLibrary /\ report \in 0..MaxLibrary /\ read \in [Actors -> 0..MaxLibrary]
  BY RescanAssumption DEF Init
<1>2. /\ last \in [Hosts -> Outcomes] /\ phase \in [Actors -> Phases]
      /\ outcome \in [Actors -> Outcomes]
  BY DEF Init, Phases, Outcomes
<1>3. locked \subseteq Actors /\ running \subseteq Servers /\ degraded \subseteq Degradable
  BY DEF Init
<1>4. bypassed \in BOOLEAN
  BY DEF Init
<1> QED
  BY <1>1, <1>2, <1>3, <1>4 DEF TypeOK

\* Every variable keeps its type, for every set of actors and processes.
THEOREM TypeCorrect == Spec => []TypeOK
BY TypeInit, TypeStep, PTL DEF Spec

-----------------------------------------------------------------------------
(* Single-flight across processes.                                         *)

\* The strengthening: a run that holds the flock is the only one to hold it, and
\* a run between the lock and the unlock that does not hold it is degraded.
HolderHasLock == \A a \in Actors : phase[a] \in Holding /\ a \notin degraded => locked = {a}
FlightInv == TypeOK /\ HolderHasLock

\* Every step preserves it: the flock is taken only when it is free, and given
\* up only by its holder or with the holder's process.
LEMMA FlightStep == FlightInv /\ [Next]_vars => FlightInv'
<1> SUFFICES ASSUME FlightInv, [Next]_vars PROVE HolderHasLock'
  BY TypeStep DEF FlightInv
<1> USE DEF FlightInv
<1>1. CASE UNCHANGED vars
  BY <1>1 DEF vars, HolderHasLock
<1>2. CASE LibraryChanges
  BY <1>2 DEF LibraryChanges, HolderHasLock
<1>3. ASSUME NEW a \in Actors, Trigger(a) \/ Spawned(a) \/ SpawnFails(a) \/ Command(a)
      PROVE  HolderHasLock'
  BY <1>3 DEF Trigger, Spawned, SpawnFails, Command, Enter, TypeOK, HolderHasLock, Holding
<1>4. ASSUME NEW a \in Actors, Acquire(a) PROVE HolderHasLock'
  BY <1>4 DEF Acquire, Enter, TypeOK, HolderHasLock
<1>5. ASSUME NEW a \in Actors, Skip(a) PROVE HolderHasLock'
  <2>1. After(a, "skipped") /\ "skipped" \in Outcomes
    BY <1>5 DEF Skip, Outcomes
  <2> QED
    BY <1>5, <2>1, AfterTypes DEF Skip, HolderHasLock, Holding
<1>6. ASSUME NEW a \in Actors, Generate(a) \/ Publish(a) \/ Fails(a) PROVE HolderHasLock'
  BY <1>6 DEF Generate, Publish, Fails, Enter, TypeOK, HolderHasLock, Holding
<1>7. ASSUME NEW a \in Actors, Unlock(a) PROVE HolderHasLock'
  <2>1. After(a, outcome[a]) /\ outcome[a] \in Outcomes
    BY <1>7 DEF Unlock, TypeOK
  <2> QED
    BY <1>7, <2>1, AfterTypes DEF Unlock, HolderHasLock, Holding
<1>8. ASSUME NEW a \in Actors, Record(a) PROVE HolderHasLock'
  BY <1>8, ExitTypes DEF Record, HolderHasLock, Holding
<1>9. ASSUME NEW h \in Hosts, Crash(h) PROVE HolderHasLock'
  BY <1>9 DEF Crash, HolderHasLock, Holding
<1> QED
  BY <1>1, <1>2, <1>3, <1>4, <1>5, <1>6, <1>7, <1>8, <1>9 DEF Next, Step, Work

LEMMA FlightInductive == Spec => []FlightInv
<1>1. Init => FlightInv
  BY TypeInit DEF Init, FlightInv, HolderHasLock, Holding
<1> QED
  BY <1>1, FlightStep, PTL DEF Spec

\* However many servers and scheduled runs there are, and whichever of them die,
\* at most one run that can use the flock is regenerating.
THEOREM SingleFlightTheorem == Spec => []SingleFlight
<1>1. FlightInv => SingleFlight
  BY DEF FlightInv, HolderHasLock, SingleFlight
<1> QED
  BY <1>1, FlightInductive, PTL

-----------------------------------------------------------------------------
(* The published report.                                                   *)

\* The strengthening: while no run has bypassed the flock, a report about to be
\* published is not older than the one on disk.
Unbypassed == ~bypassed => degraded = {}
ReportIsPast == report <= library /\ \A a \in Actors : read[a] <= library
NextReport == \A a \in Actors : ~bypassed /\ phase[a] = "publish" => report <= read[a]
AdvanceInv == FlightInv /\ Unbypassed /\ ReportIsPast /\ NextReport

\* A step that publishes nothing and generates nothing preserves it.
LEMMA AdvanceUnmoved ==
    ASSUME AdvanceInv, report' = report, library' \in Nat, library' >= library,
           ~bypassed' => ~bypassed /\ degraded' \subseteq degraded,
           \A a \in Actors : /\ read'[a] \in {read[a], 0}
                             /\ phase'[a] = "publish" => phase[a] = "publish" /\ read'[a] = read[a]
    PROVE  (Unbypassed /\ ReportIsPast /\ NextReport)'
<1>0. library \in Nat /\ report \in Nat /\ \A a \in Actors : read[a] \in Nat
  BY RescanAssumption DEF AdvanceInv, FlightInv, TypeOK
<1>1. Unbypassed'
  BY DEF AdvanceInv, Unbypassed
<1>2. ReportIsPast'
  BY <1>0 DEF AdvanceInv, ReportIsPast
<1>3. NextReport'
  BY DEF AdvanceInv, NextReport
<1> QED
  BY <1>1, <1>2, <1>3

LEMMA AdvanceStep == AdvanceInv /\ [Next]_vars => AdvanceInv'
<1> SUFFICES ASSUME AdvanceInv, [Next]_vars PROVE (Unbypassed /\ ReportIsPast /\ NextReport)'
  BY FlightStep DEF AdvanceInv
<1> DEFINE Goal == (Unbypassed /\ ReportIsPast /\ NextReport)'
<1>0. /\ TypeOK /\ MaxLibrary \in Nat /\ library \in Nat /\ report \in Nat
      /\ \A a \in Actors : read[a] \in Nat
  BY RescanAssumption DEF AdvanceInv, FlightInv, TypeOK
<1>1. CASE UNCHANGED vars
  BY <1>0, <1>1, AdvanceUnmoved DEF vars
<1>2. CASE LibraryChanges
  BY <1>0, <1>2, AdvanceUnmoved DEF LibraryChanges
<1>3. ASSUME NEW a \in Actors, Trigger(a) \/ Spawned(a) \/ SpawnFails(a) \/ Command(a)
      PROVE  Goal
  BY <1>0, <1>3, AdvanceUnmoved DEF Trigger, Spawned, SpawnFails, Command, Enter, TypeOK
<1>4. ASSUME NEW a \in Actors, Acquire(a) PROVE Goal
  BY <1>0, <1>4, AdvanceUnmoved DEF Acquire, Enter, TypeOK
<1>5. ASSUME NEW a \in Actors, Skip(a) PROVE Goal
  <2>1. After(a, "skipped") /\ "skipped" \in Outcomes
    BY <1>5 DEF Skip, Outcomes
  <2> QED
    BY <1>0, <1>5, <2>1, AfterTypes, AdvanceUnmoved DEF Skip
<1>6. ASSUME NEW a \in Actors, Generate(a) PROVE Goal
  <2>1. /\ UNCHANGED <<library, report, degraded, bypassed>>
        /\ read'[a] = library /\ \A b \in Actors \ {a} : read'[b] = read[b] /\ phase'[b] = phase[b]
    BY <1>0, <1>6 DEF Generate, Enter, TypeOK
  <2> QED
    BY <1>0, <2>1 DEF AdvanceInv, Unbypassed, ReportIsPast, NextReport
<1>7. ASSUME NEW a \in Actors, Publish(a) PROVE Goal
  \* Under the flock no other run is about to publish.
  <2>1. /\ UNCHANGED <<library, read, degraded, bypassed>> /\ report' = read[a]
        /\ phase[a] = "publish" /\ phase'[a] = "unlock"
        /\ \A b \in Actors \ {a} : phase'[b] = phase[b]
    BY <1>0, <1>7 DEF Publish, Enter, TypeOK
  <2>2. ~bypassed => \A b \in Actors \ {a} : phase[b] # "publish"
    BY <2>1 DEF AdvanceInv, FlightInv, HolderHasLock, Unbypassed, Holding
  <2> QED
    BY <1>0, <2>1, <2>2 DEF AdvanceInv, Unbypassed, ReportIsPast, NextReport
<1>8. ASSUME NEW a \in Actors, Fails(a) PROVE Goal
  BY <1>0, <1>8, AdvanceUnmoved DEF Fails, Enter, TypeOK
<1>9. ASSUME NEW a \in Actors, Unlock(a) PROVE Goal
  <2>1. After(a, outcome[a]) /\ outcome[a] \in Outcomes
    BY <1>0, <1>9 DEF Unlock, TypeOK
  <2> QED
    BY <1>0, <1>9, <2>1, AfterTypes, AdvanceUnmoved DEF Unlock
<1>10. ASSUME NEW a \in Actors, Record(a) PROVE Goal
  BY <1>0, <1>10, ExitTypes, AdvanceUnmoved DEF Record
<1>11. ASSUME NEW h \in Hosts, Crash(h) PROVE Goal
  BY <1>0, <1>11, AdvanceUnmoved DEF Crash
<1> QED
  BY <1>1, <1>2, <1>3, <1>4, <1>5, <1>6, <1>7, <1>8, <1>9, <1>10, <1>11 DEF Next, Step, Work

\* As long as no run had to do without the flock, no step replaces the report by
\* one of an older library.
THEOREM ReportTheorem == Spec => ReportAdvances
<1>1. Init => AdvanceInv
  BY TypeInit DEF Init, AdvanceInv, FlightInv, HolderHasLock, Holding, Unbypassed, ReportIsPast, NextReport
<1>2. AdvanceInv /\ [Next]_vars => [~bypassed => report' >= report]_vars
  <2> SUFFICES ASSUME AdvanceInv, Next, ~bypassed PROVE report' >= report
    OBVIOUS
  <2>1. report \in Nat
    BY DEF AdvanceInv, FlightInv, TypeOK
  <2>2. ASSUME NEW a \in Actors, Publish(a) PROVE report' >= report
    <3>1. read[a] \in Nat
      BY DEF AdvanceInv, FlightInv, TypeOK
    <3> QED
      BY <2>1, <2>2, <3>1 DEF Publish, AdvanceInv, NextReport
  <2>3. report' = report \/ \E a \in Actors : Publish(a)
    BY DEF Next, Step, Work, LibraryChanges, Trigger, Command, Spawned, SpawnFails, Acquire, Skip, Generate,
      Fails, Unlock, Record, Crash
  <2> QED
    BY <2>1, <2>2, <2>3
<1> QED
  BY <1>1, <1>2, AdvanceStep, PTL DEF Spec, ReportAdvances

-----------------------------------------------------------------------------
(* The flag of a server.                                                   *)

\* The strengthening: in a server the flag is set when a thread is at work, no
\* two threads are, a set flag has its thread, and only a server's thread is
\* spawned or records an outcome.
Working(a) == phase[a] # "idle"
FlagWhenWorking == \A a \in Actors : Web(a) /\ Working(a) => HostOf[a] \in running
OneThread ==
    \A a, b \in Actors : Web(a) /\ HostOf[a] = HostOf[b] /\ Working(a) /\ Working(b) => a = b
ThreadOfFlag == \A h \in running : \E a \in Actors : HostOf[a] = h /\ Working(a)
Roles == \A a \in Actors : phase[a] \in {"spawn", "record"} => Web(a)
FlagParts == FlagWhenWorking /\ OneThread /\ ThreadOfFlag /\ Roles
FlagInv == TypeOK /\ FlagParts

\* A step of one actor that neither starts nor ends its work, and leaves the flags.
LEMMA FlagUnmoved ==
    ASSUME FlagInv, running' = running, Roles',
           \A a \in Actors : phase'[a] = "idle" <=> phase[a] = "idle"
    PROVE  FlagParts'
BY DEF FlagInv, FlagParts, FlagWhenWorking, OneThread, ThreadOfFlag, Working, Web

\* An actor that stops working takes its server's flag with it.
LEMMA FlagStops ==
    ASSUME FlagInv, NEW a \in Actors, Working(a), phase'[a] = "idle",
           running' = running \ {HostOf[a]}, \A b \in Actors \ {a} : phase'[b] = phase[b]
    PROVE  FlagParts'
<1> USE DEF FlagInv, FlagParts, Working
<1>1. FlagWhenWorking' /\ OneThread'
  BY DEF FlagWhenWorking, OneThread, Web
<1>2. ThreadOfFlag'
  BY DEF ThreadOfFlag
<1>3. Roles'
  BY DEF Roles, Web
<1> QED
  BY <1>1, <1>2, <1>3

\* The command is over: no flag is concerned.
LEMMA FlagCommandStops ==
    ASSUME FlagInv, NEW a \in Actors, ~Web(a), phase'[a] = "idle",
           running' = running, \A b \in Actors \ {a} : phase'[b] = phase[b]
    PROVE  FlagParts'
<1> USE DEF FlagInv, FlagParts, Working
<1>1. FlagWhenWorking' /\ OneThread' /\ Roles'
  BY DEF FlagWhenWorking, OneThread, Roles, Web
<1>2. ThreadOfFlag'
  BY DEF ThreadOfFlag, TypeOK, Web
<1> QED
  BY <1>1, <1>2

\* Every step preserves the strengthening.
LEMMA FlagStep == FlagInv /\ [Next]_vars => FlagInv'
<1> SUFFICES ASSUME FlagInv, [Next]_vars PROVE FlagParts'
  BY TypeStep DEF FlagInv
<1>0. TypeOK /\ FlagParts /\ HostOf \in [Actors -> Hosts]
  BY RescanAssumption DEF FlagInv
<1>1. CASE UNCHANGED vars
  BY <1>0, <1>1, FlagUnmoved DEF vars, FlagParts, Roles, Web
<1>2. CASE LibraryChanges
  BY <1>0, <1>2, FlagUnmoved DEF LibraryChanges, FlagParts, Roles, Web
<1>3. ASSUME NEW a \in Actors, Trigger(a) PROVE FlagParts'
  <2>1. /\ phase[a] = "idle" /\ phase'[a] = "spawn" /\ Web(a) /\ HostOf[a] \notin running
        /\ running' = running \cup {HostOf[a]} /\ \A b \in Actors \ {a} : phase'[b] = phase[b]
    BY <1>0, <1>3 DEF Trigger, Enter, TypeOK
  <2> QED
    BY <1>0, <2>1 DEF FlagParts, FlagWhenWorking, OneThread, ThreadOfFlag, Roles, Working, Web
<1>4. ASSUME NEW a \in Actors, Command(a) PROVE FlagParts'
  <2>1. /\ phase[a] = "idle" /\ phase'[a] = "lock" /\ ~Web(a) /\ running' = running
        /\ \A b \in Actors \ {a} : phase'[b] = phase[b]
    BY <1>0, <1>4 DEF Command, Enter, TypeOK
  <2> QED
    BY <1>0, <2>1 DEF FlagParts, FlagWhenWorking, OneThread, ThreadOfFlag, Roles, Working, Web
<1>5. ASSUME NEW a \in Actors, SpawnFails(a) PROVE FlagParts'
  BY <1>0, <1>5, FlagStops DEF SpawnFails, Enter, TypeOK, Working
<1>6. ASSUME NEW a \in Actors, Spawned(a) \/ Acquire(a) \/ Generate(a) \/ Publish(a) \/ Fails(a)
      PROVE  FlagParts'
  <2>1. /\ running' = running /\ phase[a] # "idle" /\ phase'[a] \notin {"idle", "spawn", "record"}
        /\ \A b \in Actors \ {a} : phase'[b] = phase[b]
    BY <1>0, <1>6 DEF Spawned, Acquire, Generate, Publish, Fails, Enter, TypeOK
  <2>2. Roles'
    BY <1>0, <2>1 DEF FlagParts, Roles, Web
  <2> QED
    BY <2>1, <2>2, FlagUnmoved
<1>7. ASSUME NEW a \in Actors, Skip(a) \/ Unlock(a) PROVE FlagParts'
  <2>1. \E result \in Outcomes : After(a, result)
    BY <1>0, <1>7 DEF Skip, Unlock, TypeOK, Outcomes
  <2>2. /\ running' = running /\ phase[a] # "idle" /\ phase'[a] = IF Web(a) THEN "record" ELSE "idle"
        /\ \A b \in Actors \ {a} : phase'[b] = phase[b]
    BY <1>0, <1>7, <2>1, AfterTypes DEF Skip, Unlock
  <2>3. CASE Web(a)
    <3>1. Roles'
      BY <1>0, <2>2, <2>3 DEF FlagParts, Roles, Web
    <3> QED
      BY <2>2, <2>3, <3>1, FlagUnmoved
  <2>4. CASE ~Web(a)
    BY <2>2, <2>4, FlagCommandStops
  <2> QED
    BY <2>3, <2>4
<1>8. ASSUME NEW a \in Actors, Record(a) PROVE FlagParts'
  BY <1>0, <1>8, ExitTypes, FlagStops DEF Record, Working
<1>9. ASSUME NEW h \in Hosts, Crash(h) PROVE FlagParts'
  <2>1. /\ running' = running \ {h}
        /\ \A a \in Actors : phase'[a] = IF HostOf[a] = h THEN "idle" ELSE phase[a]
    BY <1>0, <1>9 DEF Crash
  <2> QED
    BY <1>0, <2>1 DEF FlagParts, FlagWhenWorking, OneThread, ThreadOfFlag, Roles, Working, Web
<1> QED
  BY <1>1, <1>2, <1>3, <1>4, <1>5, <1>6, <1>7, <1>8, <1>9 DEF Next, Step, Work

\* The strengthening holds in every reachable state.
LEMMA FlagInductive == Spec => []FlagInv
<1>1. Init => FlagInv
  BY TypeInit DEF Init, FlagInv, FlagParts, FlagWhenWorking, OneThread, ThreadOfFlag, Roles, Working
<1> QED
  BY <1>1, FlagStep, PTL DEF Spec

\* A set flag has exactly one thread behind it, and a clear one none: no failed
\* spawn, skip, exception or crash wedges a server.
THEOREM FlagTheorem == Spec => []FlagIsTheThread
<1>1. FlagInv => FlagIsTheThread
  <2> SUFFICES ASSUME FlagInv, NEW h \in Servers
               PROVE  Cardinality(AtWork(h)) = IF h \in running THEN 1 ELSE 0
    BY DEF FlagIsTheThread
  <2> USE DEF FlagInv, FlagParts
  <2>1. CASE h \in running
    <3>1. PICK a \in Actors : HostOf[a] = h /\ Working(a)
      BY <2>1 DEF ThreadOfFlag
    <3>2. AtWork(h) = {a}
      BY <3>1 DEF OneThread, AtWork, Working, Web
    <3> QED
      BY <2>1, <3>2, FS_Singleton
  <2>2. CASE h \notin running
    <3>1. AtWork(h) = {}
      BY <2>2 DEF FlagWhenWorking, AtWork, Working, Web
    <3> QED
      BY <2>2, <3>1, FS_EmptySet
  <2> QED
    BY <2>1, <2>2
<1> QED
  BY <1>1, FlagInductive, PTL

-----------------------------------------------------------------------------
(* Viewers.                                                                *)

\* What was in the file at some time from edition k on, or nothing.
SinceKey(k) == {Nothing} \cup k..edition

\* The strengthening: an entry of the memo holds what was in the file when its
\* key was, or later, and so does what a request has read.
MemoIsPast == \A s \in Sites : memo[s].value \in SinceKey(memo[s].key)
VisitIsPast ==
    \A v \in Visitors :
        /\ visit[v].at = "away" => visit[v].key = Nothing
        /\ visit[v].at # "away" => visit[v].key \in 1..edition /\ visit[v].value \in SinceKey(visit[v].key)
ViewerInv == ViewerTypeOK /\ MemoIsPast /\ VisitIsPast

\* The fields of entries and requests are numbers up to the bound.
LEMMA Fields ==
    ASSUME ViewerTypeOK
    PROVE  /\ edition \in Nat /\ MaxEditions \in Nat
           /\ \A s \in Sites : memo[s].key \in Editions /\ memo[s].value \in Editions
           /\ \A v \in Visitors : /\ visit[v].key \in Editions /\ visit[v].value \in Editions
                                  /\ visit[v].at \in {"away", "stat", "read"}
                                  /\ SiteOf[v] \in Sites
BY ViewerAssumption DEF ViewerTypeOK, Editions

LEMMA ViewerInitial == ViewerInit => ViewerInv
BY ViewerAssumption DEF ViewerInit, ViewerInv, ViewerTypeOK, MemoIsPast, VisitIsPast, SinceKey,
   NoEntry, Away, Nothing, Editions

\* A request moves on: the others stay as they are.
LEMMA Moves ==
    ASSUME ViewerInv, NEW v \in Visitors, NEW at \in {"away", "stat", "read"},
           NEW key \in Editions, NEW value \in Editions,
           Goes(v, [at |-> at, key |-> key, value |-> value]), edition' = edition,
           at = "away" => key = Nothing,
           at # "away" => key \in 1..edition /\ value \in SinceKey(key)
    PROVE  /\ visit' \in [Visitors -> [at : {"away", "stat", "read"}, key : Editions, value : Editions]]
           /\ VisitIsPast'
<1>1. [at |-> at, key |-> key, value |-> value]
        \in [at : {"away", "stat", "read"}, key : Editions, value : Editions]
  OBVIOUS
<1>2. visit' \in [Visitors -> [at : {"away", "stat", "read"}, key : Editions, value : Editions]]
  BY <1>1 DEF ViewerInv, ViewerTypeOK, Goes
<1>3. /\ visit'[v] = [at |-> at, key |-> key, value |-> value]
      /\ \A w \in Visitors \ {v} : visit'[w] = visit[w]
  BY DEF ViewerInv, ViewerTypeOK, Goes
<1>4. VisitIsPast'
  BY <1>3 DEF ViewerInv, VisitIsPast, SinceKey
<1> QED
  BY <1>2, <1>4

\* Every step preserves the strengthening.
LEMMA ViewerStep == ViewerInv /\ [ViewerNext]_viewerVars => ViewerInv'
<1> SUFFICES ASSUME ViewerInv, [ViewerNext]_viewerVars PROVE ViewerInv'
  OBVIOUS
<1> DEFINE Requests == [Visitors -> [at : {"away", "stat", "read"}, key : Editions, value : Editions]]
<1>0. /\ ViewerTypeOK /\ edition \in Nat /\ MaxEditions \in Nat
      /\ edition \in Editions /\ Nothing \in Editions
  BY Fields DEF ViewerInv, ViewerTypeOK, Nothing, Editions
<1>1. CASE UNCHANGED viewerVars
  BY <1>1 DEF viewerVars, ViewerInv, ViewerTypeOK, MemoIsPast, VisitIsPast, SinceKey
<1>2. CASE Published
  <2>1. edition' = edition + 1 /\ edition' \in Editions /\ UNCHANGED <<memo, visit>>
    BY <1>0, <1>2 DEF Published, Editions
  <2>2. MemoIsPast'
    BY <1>0, <2>1, Fields DEF ViewerInv, MemoIsPast, SinceKey, Editions
  <2>3. VisitIsPast'
    BY <1>0, <2>1, Fields DEF ViewerInv, VisitIsPast, SinceKey, Editions
  <2> QED
    BY <2>1, <2>2, <2>3 DEF ViewerInv, ViewerTypeOK
<1>3. ASSUME NEW v \in Visitors, Stat(v) PROVE ViewerInv'
  <2>1. visit' \in Requests /\ VisitIsPast'
    <3>1. edition \in 1..edition /\ Nothing \in SinceKey(edition)
      BY <1>0, <1>3 DEF Stat, Nothing, SinceKey
    <3> QED
      BY <1>0, <1>3, <3>1, Moves DEF Stat
  <2> QED
    BY <1>3, <2>1 DEF Stat, ViewerInv, ViewerTypeOK, MemoIsPast, SinceKey
<1>4. ASSUME NEW v \in Visitors, Hit(v) PROVE ViewerInv'
  <2>1. Entry(v).value \in Editions
    BY <1>0, Fields DEF Entry
  <2>2. visit' \in Requests /\ VisitIsPast'
    BY <1>0, <1>4, <2>1, Moves DEF Hit, Answers
  <2> QED
    BY <1>4, <2>2 DEF Hit, ViewerInv, ViewerTypeOK, MemoIsPast, SinceKey
<1>5. ASSUME NEW v \in Visitors, Read(v) PROVE ViewerInv'
  <2>2. PICK value \in {edition, Nothing} : Goes(v, [at |-> "read", key |-> visit[v].key, value |-> value])
    BY <1>5 DEF Read
  <2>3. visit[v].key \in 1..edition /\ value \in SinceKey(visit[v].key)
    BY <1>0, <1>5 DEF Read, ViewerInv, VisitIsPast, SinceKey
  <2>4. visit' \in Requests /\ VisitIsPast'
    <3>1. visit[v].key \in Editions /\ value \in Editions /\ edition' = edition
      BY <1>0, <1>5, Fields DEF Read
    <3> QED
      BY <2>2, <2>3, <3>1, Moves
  <2> QED
    BY <1>5, <2>4 DEF Read, ViewerInv, ViewerTypeOK, MemoIsPast, SinceKey
<1>6. ASSUME NEW v \in Visitors, Store(v) PROVE ViewerInv'
  <2>1. visit[v].key \in Editions /\ visit[v].value \in Editions /\ SiteOf[v] \in Sites
    BY <1>0, Fields
  <2>2. visit' \in Requests /\ VisitIsPast'
    BY <1>0, <1>6, <2>1, Moves DEF Store, Answers
  <2>3. /\ memo'[SiteOf[v]] = [key |-> visit[v].key, value |-> visit[v].value]
        /\ \A s \in Sites \ {SiteOf[v]} : memo'[s] = memo[s]
        /\ memo' \in [Sites -> [key : Editions, value : Editions]]
    BY <1>0, <1>6, <2>1 DEF Store, ViewerTypeOK
  <2>4. visit[v].value \in SinceKey(visit[v].key)
    BY <1>6 DEF Store, ViewerInv, VisitIsPast
  <2>5. MemoIsPast'
    BY <1>6, <2>3, <2>4 DEF Store, ViewerInv, MemoIsPast, SinceKey
  <2> QED
    BY <1>6, <2>2, <2>3, <2>5 DEF Store, ViewerInv, ViewerTypeOK
<1>7. ASSUME NEW s \in Sites, Forgotten(s) PROVE ViewerInv'
  <2>1. \A t \in Sites : memo'[t] = NoEntry \/ memo'[t] = memo[t]
    BY <1>0, <1>7 DEF Forgotten, ViewerTypeOK
  <2>2. \A v \in Visitors : visit'[v] = Away \/ visit'[v] = visit[v]
    BY <1>7 DEF Forgotten
  <2>3. /\ memo' \in [Sites -> [key : Editions, value : Editions]] /\ visit' \in Requests
        /\ edition' = edition
    <3>1. NoEntry \in [key : Editions, value : Editions]
          /\ Away \in [at : {"away", "stat", "read"}, key : Editions, value : Editions]
      BY <1>0 DEF NoEntry, Away
    <3> QED
      BY <1>0, <1>7, <3>1 DEF Forgotten, ViewerTypeOK
  <2>4. MemoIsPast'
    BY <2>1, <2>3 DEF ViewerInv, MemoIsPast, SinceKey, NoEntry
  <2>5. VisitIsPast'
    BY <2>2, <2>3 DEF ViewerInv, VisitIsPast, SinceKey, Away
  <2> QED
    BY <1>0, <2>3, <2>4, <2>5 DEF ViewerInv, ViewerTypeOK
<1> QED
  BY <1>1, <1>2, <1>3, <1>4, <1>5, <1>6, <1>7 DEF ViewerNext, Visiting

\* The strengthening holds in every reachable state.
LEMMA ViewerInductive == ViewerSpec => []ViewerInv
BY ViewerInitial, ViewerStep, PTL DEF ViewerSpec

\* The types of the file, the memo and the requests.
THEOREM ViewerTypeCorrect == ViewerSpec => []ViewerTypeOK
<1>1. ViewerInv => ViewerTypeOK
  BY DEF ViewerInv
<1> QED
  BY <1>1, ViewerInductive, PTL

-----------------------------------------------------------------------------
(* The refinement.                                                         *)

asked == [v \in Visitors |-> visit[v].key]
shown == [v \in Visitors |-> IF visit[v].at = "away" THEN visit[v].value ELSE Nothing]

\* A request that is answered with what was in the file since it began.
LEMMA AnswerStep ==
    ASSUME ViewerInv, NEW v \in Visitors, NEW value \in SinceKey(visit[v].key),
           visit[v].at # "away", Answers(v, value), edition' = edition
    PROVE  Register!Answer(v)
<1>1. visit[v].key # 0
  BY Fields DEF ViewerInv, VisitIsPast
<1>2. visit'[v] = [at |-> "away", key |-> Nothing, value |-> value]
      /\ \A w \in Visitors \ {v} : visit'[w] = visit[w]
  BY DEF ViewerInv, ViewerTypeOK, Answers, Goes
<1>3. asked' = [asked EXCEPT ![v] = 0]
  <2>1. visit'[v].key = 0 /\ \A w \in Visitors \ {v} : visit'[w].key = visit[w].key
    BY <1>2 DEF Nothing
  <2> QED
    BY <2>1 DEF asked
<1>4. shown' = [shown EXCEPT ![v] = value]
  <2> DEFINE Shown(r) == IF r.at = "away" THEN r.value ELSE Nothing
  <2>1. Shown(visit'[v]) = value /\ \A w \in Visitors \ {v} : Shown(visit'[w]) = Shown(visit[w])
    BY <1>2
  <2>2. shown = [w \in Visitors |-> Shown(visit[w])] /\ shown' = [w \in Visitors |-> Shown(visit'[w])]
    BY DEF shown
  <2> HIDE DEF Shown
  <2> QED
    BY <2>1, <2>2
<1>5. value \in {0} \cup asked[v]..edition
  BY DEF SinceKey, Nothing, asked
<1> QED
  BY <1>1, <1>3, <1>4, <1>5 DEF Register!Answer, asked, shown

\* Every step of a viewer is a step of the register, or none that it sees.
LEMMA RegisterStep ==
    ViewerInv /\ [ViewerNext]_viewerVars => [Register!RegisterNext]_(Register!registerVars)
<1> SUFFICES ASSUME ViewerInv, [ViewerNext]_viewerVars
             PROVE  Register!RegisterNext \/ UNCHANGED <<edition, asked, shown>>
  BY DEF Register!registerVars, asked, shown
<1>1. CASE UNCHANGED viewerVars
  BY <1>1 DEF viewerVars, asked, shown
<1>2. CASE Published
  <2>1. Register!Write
    BY <1>2 DEF Published, Register!Write
  <2> QED
    BY <2>1 DEF Register!RegisterNext
<1>3. ASSUME NEW v \in Visitors, Stat(v) PROVE Register!RegisterNext
  <2>1. /\ visit'[v] = [at |-> "stat", key |-> edition, value |-> Nothing]
        /\ \A w \in Visitors \ {v} : visit'[w] = visit[w]
    BY <1>3 DEF ViewerInv, ViewerTypeOK, Stat, Goes
  <2>2. asked[v] = 0 /\ edition # 0
    BY <1>3 DEF Stat, ViewerInv, VisitIsPast, asked, Nothing
  <2>3. asked' = [asked EXCEPT ![v] = edition] /\ shown' = [shown EXCEPT ![v] = 0]
    <3> DEFINE Shown(r) == IF r.at = "away" THEN r.value ELSE Nothing
    <3>1. /\ visit'[v].key = edition /\ Shown(visit'[v]) = 0
          /\ \A w \in Visitors \ {v} :
                visit'[w].key = visit[w].key /\ Shown(visit'[w]) = Shown(visit[w])
      BY <2>1 DEF Nothing
    <3>2. asked' = [asked EXCEPT ![v] = edition]
      BY <3>1 DEF asked
    <3>3. shown = [w \in Visitors |-> Shown(visit[w])] /\ shown' = [w \in Visitors |-> Shown(visit'[w])]
      BY DEF shown
    <3> HIDE DEF Shown
    <3>4. shown' = [shown EXCEPT ![v] = 0]
      BY <3>1, <3>3
    <3> QED
      BY <3>2, <3>4
  <2>4. Register!Ask(v)
    BY <1>3, <2>2, <2>3 DEF Stat, Register!Ask, asked, shown
  <2> QED
    BY <2>4 DEF Register!RegisterNext
<1>4. ASSUME NEW v \in Visitors, Hit(v) PROVE Register!RegisterNext
  <2>1. Entry(v).value \in SinceKey(visit[v].key)
    BY <1>4, Fields DEF Hit, ViewerInv, MemoIsPast, Entry
  <2>2. Register!Answer(v)
    BY <1>4, <2>1, AnswerStep DEF Hit
  <2> QED
    BY <2>2 DEF Register!RegisterNext
<1>5. ASSUME NEW v \in Visitors, Read(v) PROVE UNCHANGED <<edition, asked, shown>>
  <2>1. PICK value \in {edition, Nothing} : Goes(v, [at |-> "read", key |-> visit[v].key, value |-> value])
    BY <1>5 DEF Read
  <2>2. /\ visit'[v] = [at |-> "read", key |-> visit[v].key, value |-> value]
        /\ \A w \in Visitors \ {v} : visit'[w] = visit[w]
    BY <2>1 DEF ViewerInv, ViewerTypeOK, Goes
  <2>3. visit[v].at = "stat" /\ edition' = edition
    BY <1>5 DEF Read
  <2> QED
    BY <2>2, <2>3 DEF asked, shown
<1>6. ASSUME NEW v \in Visitors, Store(v) PROVE Register!RegisterNext
  <2>1. visit[v].value \in SinceKey(visit[v].key)
    BY <1>6 DEF Store, ViewerInv, VisitIsPast
  <2>2. Register!Answer(v)
    BY <1>6, <2>1, AnswerStep DEF Store
  <2> QED
    BY <2>2 DEF Register!RegisterNext
<1>7. ASSUME NEW s \in Sites, Forgotten(s) PROVE Register!RegisterNext
  <2> DEFINE R == {v \in Visitors : SiteOf[v] = s}
  <2>1. asked' = [v \in Visitors |-> IF v \in R THEN 0 ELSE asked[v]]
    BY <1>7 DEF Forgotten, Away, asked, Nothing
  <2>2. shown' = [v \in Visitors |-> IF v \in R THEN 0 ELSE shown[v]]
    BY <1>7 DEF Forgotten, Away, shown, Nothing
  <2>3. Register!Leave
    BY <1>7, <2>1, <2>2 DEF Forgotten, Register!Leave, asked, shown
  <2> QED
    BY <2>3 DEF Register!RegisterNext
<1> QED
  BY <1>1, <1>2, <1>3, <1>4, <1>5, <1>6, <1>7 DEF ViewerNext, Visiting

\* The memo cannot be noticed: every behaviour of the viewers is one of the
\* register, whatever is published and whoever else reads in between.
THEOREM RegisterTheorem == ViewerSpec => ServesRegister
<1>1. ViewerInit => Register!RegisterInit
  BY DEF ViewerInit, Register!RegisterInit, Away, Nothing
<1> QED
  BY <1>1, RegisterStep, ViewerInductive, PTL DEF ViewerSpec, ServesRegister, Register!RegisterSpec

-----------------------------------------------------------------------------
(* The service.                                                            *)

\* Every step of the service is one of the regenerations, or none of them.
LEMMA ServiceRegenerates == [ServiceNext]_serviceVars => [Next]_vars
<1> SUFFICES ASSUME [ServiceNext]_serviceVars PROVE [Next]_vars
  OBVIOUS
<1>1. CASE UNCHANGED serviceVars
  BY <1>1 DEF serviceVars, vars
<1>2. CASE LibraryChanges
  BY <1>2 DEF Next
<1>3. ASSUME NEW a \in Actors, Regenerates(a) PROVE [Next]_vars
  BY <1>3 DEF Regenerates, Next, Step
<1>4. ASSUME NEW w \in Watchers, Waits(w) PROVE UNCHANGED vars
  BY <1>4 DEF Waits
<1>5. ASSUME NEW v \in Visitors, Asks(v) PROVE UNCHANGED vars
  BY <1>5 DEF Asks
<1>6. ASSUME NEW h \in Hosts, Dies(h) PROVE [Next]_vars
  BY <1>6 DEF Dies, Next
<1> QED
  BY <1>1, <1>2, <1>3, <1>4, <1>5, <1>6 DEF ServiceNext

\* Every step of the service is one of the viewers, or none of them.
LEMMA ServiceVisits == [ServiceNext]_serviceVars => [ViewerNext]_viewerVars
<1> SUFFICES ASSUME [ServiceNext]_serviceVars PROVE [ViewerNext]_viewerVars
  OBVIOUS
<1>1. CASE UNCHANGED serviceVars
  BY <1>1 DEF serviceVars, viewerVars
<1>2. CASE UNCHANGED viewerVars
  BY <1>2
<1>3. ASSUME NEW a \in Actors, Regenerates(a) PROVE [ViewerNext]_viewerVars
  BY <1>3 DEF Regenerates, ViewerNext
<1>4. ASSUME NEW w \in Watchers, Waits(w) PROVE UNCHANGED viewerVars
  BY <1>4 DEF Waits
<1>5. ASSUME NEW v \in Visitors, Asks(v) PROVE [ViewerNext]_viewerVars
  BY <1>5 DEF Asks, ViewerNext
<1>6. ASSUME NEW h \in Hosts, Dies(h) PROVE [ViewerNext]_viewerVars
  BY <1>6, SceneAssumption DEF Dies, ViewerNext
<1> QED
  BY <1>1, <1>2, <1>3, <1>4, <1>5, <1>6 DEF ServiceNext

\* The service implements both of its parts.
LEMMA ServiceParts == ServiceSpec => Spec /\ ViewerSpec
<1>1. ServiceInit => Init /\ ViewerInit
  BY DEF ServiceInit
<1> QED
  BY <1>1, ServiceRegenerates, ServiceVisits, PTL DEF ServiceSpec, Spec, ViewerSpec

\* The service keeps the promises of the regenerations: one run at a time uses
\* the flock, and the flag of a server says whether it has one.
THEOREM ServiceSingleFlight == ServiceSpec => [](SingleFlight /\ FlagIsTheThread)
BY ServiceParts, SingleFlightTheorem, FlagTheorem, PTL

\* Nor does the report that visitors read go back to an older library, unless a
\* run had to do without the flock.
THEOREM ServiceReportAdvances == ServiceSpec => ReportAdvances
BY ServiceParts, ReportTheorem, PTL

\* What visitors are shown is what a register would have shown them, also when
\* servers die and several processes publish.
THEOREM ServiceServesRegister == ServiceSpec => ServesRegister
BY ServiceParts, RegisterTheorem, PTL

-----------------------------------------------------------------------------
(* What a page is sent to was published after the page was rendered.        *)

\* Server h has nothing to show yet for the run it has, or last had: no run that
\* is through with publishing is about to record a success, and the success on
\* record, if any, is not what the next one to come to rest will leave there.
NotYet(h) ==
    /\ \A a \in Actors : HostOf[a] = h /\ phase[a] \in {"unlock", "record"} => outcome[a] # "succeeded"
    /\ \/ last[h] # "succeeded"
       \/ \E a \in Actors : HostOf[a] = h /\ phase[a] \notin {"idle", "spawn"}

\* A later report than at the time the page was rendered, if that is its concern.
Later(w, e) == since[w] = 0 \/ since[w] < e

\* The strengthening of SuccessShown.
PageTypes ==
    /\ watch \in [Watchers -> [at : {"off", "wait", "fetch", "status", "report"}, fails : Nat]]
    /\ since \in [Watchers -> Nat]
    /\ \A w \in Watchers : since[w] <= edition
WaitsInTime ==
    \A w \in Watchers : watch[w].at \in {"wait", "fetch"} => Later(w, edition) \/ NotYet(HomeOf[w])
LandsInTime == \A w \in Watchers : watch[w].at = "report" => Later(w, edition)
LooksInTime ==
    \A w \in Watchers :
        /\ watch[w].at \in {"wait", "fetch", "status"} => visit[w].at = "away"
        /\ watch[w].at = "report" /\ visit[w].at # "away" => Later(w, visit[w].key)
PageParts == PageTypes /\ WaitsInTime /\ LandsInTime /\ LooksInTime
ServiceInv == FlagInv /\ ViewerInv /\ PageParts

\* Nothing but a publication ends NotYet.
LEMMA NotYetStays ==
    ASSUME FlagInv, NEW h \in Servers, NotYet(h), [Next]_vars,
           \A a \in Actors : ~Publish(a)
    PROVE  NotYet(h)'
<1>0. /\ TypeOK /\ HostOf \in [Actors -> Hosts] /\ h \in Hosts
      /\ Roles
  BY RescanAssumption DEF FlagInv, FlagParts
<1>1. CASE UNCHANGED <<phase, outcome, last>>
  BY <1>1 DEF NotYet
<1>2. ASSUME NEW a \in Actors, Trigger(a) \/ Command(a) \/ Spawned(a) \/ Acquire(a) \/ Generate(a)
      PROVE  NotYet(h)'
  <2>1. /\ UNCHANGED <<outcome, last>> /\ phase[a] \notin {"unlock", "record"}
        /\ \A b \in Actors \ {a} : phase'[b] = phase[b]
        /\ phase'[a] \notin {"unlock", "record"}
        /\ phase[a] \in {"idle", "spawn"} \/ phase'[a] \notin {"idle", "spawn"}
    BY <1>0, <1>2 DEF Trigger, Command, Spawned, Acquire, Generate, Enter, TypeOK
  <2> QED
    BY <2>1 DEF NotYet
<1>3. ASSUME NEW a \in Actors, SpawnFails(a) PROVE NotYet(h)'
  <2>1. /\ UNCHANGED <<outcome, last>> /\ phase[a] = "spawn" /\ phase'[a] = "idle"
        /\ \A b \in Actors \ {a} : phase'[b] = phase[b]
    BY <1>0, <1>3 DEF SpawnFails, Enter, TypeOK
  <2> QED
    BY <2>1 DEF NotYet
<1>4. ASSUME NEW a \in Actors, Fails(a) PROVE NotYet(h)'
  <2>1. /\ UNCHANGED last /\ phase'[a] = "unlock" /\ outcome'[a] = "failed"
        /\ \A b \in Actors \ {a} : phase'[b] = phase[b] /\ outcome'[b] = outcome[b]
    BY <1>0, <1>4 DEF Fails, Enter, TypeOK
  <2> QED
    BY <2>1 DEF NotYet
<1>5. ASSUME NEW a \in Actors, Skip(a) \/ Unlock(a) PROVE NotYet(h)'
  <2>1. PICK result \in Outcomes :
          /\ After(a, result) /\ UNCHANGED last
          /\ HostOf[a] = h => result # "succeeded"
    <3>1. CASE Skip(a)
      BY <3>1 DEF Skip, Outcomes
    <3>2. CASE Unlock(a)
      BY <1>0, <3>2 DEF Unlock, TypeOK, NotYet
    <3> QED
      BY <1>5, <3>1, <3>2
  <2>2. \A b \in Actors \ {a} : phase'[b] = phase[b] /\ outcome'[b] = outcome[b]
    BY <1>0, <2>1 DEF After, Exit, Enter, TypeOK
  <2>3. HostOf[a] = h => phase'[a] = "record" /\ outcome'[a] = result
    BY <1>0, <2>1 DEF After, Enter, Web, TypeOK
  <2> QED
    BY <2>1, <2>2, <2>3 DEF NotYet
<1>6. ASSUME NEW a \in Actors, Record(a) PROVE NotYet(h)'
  <2>1. /\ phase'[a] = "idle" /\ phase[a] = "record"
        /\ \A b \in Actors \ {a} : phase'[b] = phase[b] /\ outcome'[b] = outcome[b]
    BY <1>0, <1>6 DEF Record, Exit, Enter, TypeOK
  <2>2. last'[h] = IF HostOf[a] = h THEN outcome[a] ELSE last[h]
    BY <1>0, <1>6 DEF Record, TypeOK
  <2> QED
    BY <2>1, <2>2 DEF NotYet
<1>7. ASSUME NEW g \in Hosts, Crash(g) PROVE NotYet(h)'
  <2>1. /\ \A a \in Actors : HostOf[a] = g => phase'[a] = "idle"
        /\ \A a \in Actors : HostOf[a] # g => phase'[a] = phase[a] /\ outcome'[a] = outcome[a]
        /\ last'[h] = IF g = h THEN "none" ELSE last[h]
    BY <1>0, <1>7 DEF Crash, TypeOK
  <2> QED
    BY <2>1 DEF NotYet
<1> QED
  BY <1>1, <1>2, <1>3, <1>4, <1>5, <1>6, <1>7 DEF Next, Step, Work, LibraryChanges, vars

\* A page rendered while a run can still publish waits for that run.
LEMMA RenderedInTime ==
    ASSUME FlagInv, NEW h \in Servers, Unpublished(h) PROVE NotYet(h)
<1>1. PICK a \in Actors : HostOf[a] = h /\ phase[a] \in {"lock", "generate", "publish"}
  BY DEF Unpublished, AtWork
<1>2. \A b \in Actors : HostOf[b] = h /\ phase[b] # "idle" => b = a
  BY <1>1 DEF FlagInv, FlagParts, OneThread, Working, Web
<1> QED
  BY <1>1, <1>2 DEF NotYet

\* A server that is at rest has recorded no success that would be too early.
LEMMA AnsweredInTime ==
    ASSUME FlagInv, NEW h \in Servers, h \notin running, NotYet(h) PROVE last[h] # "succeeded"
BY DEF FlagInv, FlagParts, FlagWhenWorking, Working, Web, NotYet

\* A step of the runs: the pages stand still.
LEMMA PagesStand ==
    ASSUME ServiceInv, [Next]_vars, UNCHANGED <<watch, since>>,
           \/ edition' = edition + 1
           \/ edition' = edition /\ \A a \in Actors : ~Publish(a),
           \A v \in Visitors : visit'[v] = visit[v] \/ visit'[v].at = "away"
    PROVE  PageParts'
<1> USE DEF ServiceInv, PageParts
<1>0. /\ edition \in Nat /\ edition' \in Nat /\ edition <= edition'
      /\ \A w \in Watchers : since[w] \in Nat /\ w \in Visitors /\ HomeOf[w] \in Servers
  BY Fields, SceneAssumption, PageAssumption DEF ViewerInv, PageTypes
<1>1. PageTypes'
  BY <1>0 DEF PageTypes
<1>2. \A w \in Watchers : Later(w, edition) => Later(w, edition)'
  BY <1>0 DEF Later
<1>3. WaitsInTime'
  <2> SUFFICES ASSUME NEW w \in Watchers, watch[w].at \in {"wait", "fetch"}
               PROVE  Later(w, edition)' \/ NotYet(HomeOf[w])'
    BY DEF WaitsInTime
  <2>1. Later(w, edition) \/ NotYet(HomeOf[w])
    BY DEF WaitsInTime
  <2>2. CASE Later(w, edition)
    BY <1>2, <2>2
  <2>3. CASE NotYet(HomeOf[w]) /\ edition' = edition + 1
    BY <1>0, <2>3 DEF Later, PageTypes
  <2>4. CASE NotYet(HomeOf[w]) /\ \A a \in Actors : ~Publish(a)
    <3>1. PICK h \in Servers : h = HomeOf[w]
      BY <1>0
    <3>2. NotYet(h)'
      BY <2>4, <3>1, NotYetStays
    <3> QED
      BY <3>1, <3>2
  <2> QED
    BY <2>1, <2>2, <2>3, <2>4
<1>4. LandsInTime'
  BY <1>2 DEF LandsInTime
<1>5. LooksInTime'
  <2> SUFFICES ASSUME NEW w \in Watchers
               PROVE  /\ watch[w].at \in {"wait", "fetch", "status"} => visit'[w].at = "away"
                      /\ watch[w].at = "report" /\ visit'[w].at # "away" =>
                            since[w] = 0 \/ since[w] < visit'[w].key
    BY DEF LooksInTime, Later
  <2>1. visit'[w] = visit[w] \/ visit'[w].at = "away"
    BY <1>0
  <2> QED
    BY <2>1 DEF LooksInTime, Later
<1> QED
  BY <1>1, <1>3, <1>4, <1>5

\* A step of one page: nothing else moves.
LEMMA PageMoves ==
    ASSUME ServiceInv, NEW w \in Watchers, NEW at \in {"off", "wait", "fetch", "status", "report"},
           NEW fails \in Nat, UNCHANGED <<vars, viewerVars>>, Turns(w, at, fails),
           since' = since \/ since' = [since EXCEPT ![w] = IF Unpublished(HomeOf[w]) THEN edition ELSE 0],
           at \in {"wait", "fetch"} => (Later(w, edition) \/ NotYet(HomeOf[w]))',
           at = "report" => Later(w, edition)',
           at # "off" => visit[w].at = "away"
    PROVE  PageParts'
<1> USE DEF ServiceInv, PageParts, vars, viewerVars
<1>0. edition \in Nat /\ edition' = edition
  BY Fields DEF ViewerInv
<1>1. /\ watch'[w] = [at |-> at, fails |-> fails]
      /\ \A x \in Watchers \ {w} : watch'[x] = watch[x] /\ since'[x] = since[x]
      /\ watch' \in [Watchers -> [at : {"off", "wait", "fetch", "status", "report"}, fails : Nat]]
  BY DEF Turns, PageTypes
<1>2. since' \in [Watchers -> Nat] /\ since'[w] \in {since[w], edition, 0}
  BY <1>0 DEF PageTypes
<1>3. PageTypes'
  BY <1>0, <1>1, <1>2 DEF PageTypes
<1>4. \A x \in Watchers \ {w} : /\ Later(x, edition)' <=> Later(x, edition)
                                /\ NotYet(HomeOf[x])' <=> NotYet(HomeOf[x])
  BY <1>0, <1>1 DEF Later, NotYet
<1>5. WaitsInTime'
  BY <1>1, <1>4 DEF WaitsInTime
<1>6. LandsInTime'
  BY <1>1, <1>4 DEF LandsInTime
<1>7. LooksInTime'
  <2> SUFFICES ASSUME NEW x \in Watchers
               PROVE  /\ watch'[x].at \in {"wait", "fetch", "status"} => visit[x].at = "away"
                      /\ watch'[x].at = "report" /\ visit[x].at # "away" =>
                            since'[x] = 0 \/ since'[x] < visit[x].key
    BY DEF LooksInTime, Later
  <2> QED
    BY <1>1 DEF LooksInTime, Later
<1> QED
  BY <1>3, <1>5, <1>6, <1>7

\* A page keeps its promise when its script acts or its user does.
LEMMA WaitsStep ==
    ASSUME ServiceInv, NEW w \in Watchers, Waits(w) PROVE PageParts'
<1> DEFINE Anew == since' = [since EXCEPT ![w] = IF Unpublished(HomeOf[w]) THEN edition ELSE 0]
<1> USE DEF ServiceInv
<1>0. /\ UNCHANGED <<vars, viewerVars>> /\ HomeOf[w] \in Servers
      /\ watch[w].fails \in Nat /\ watch[w] \in [at : {"off", "wait", "fetch", "status", "report"}, fails : Nat]
      /\ edition' = edition /\ edition \in Nat
  BY PageAssumption, Fields DEF Waits, PageParts, PageTypes, ViewerInv, viewerVars
<1>1. watch[w].at \notin {"off", "status"} => since' = since
  BY DEF Waits
<1>2. since' = since => (Later(w, edition)' <=> Later(w, edition))
  BY <1>0 DEF Later
<1>3. NotYet(HomeOf[w])' <=> NotYet(HomeOf[w])
  BY <1>0 DEF NotYet, vars
<1>4. watch[w].at \in {"wait", "fetch"} => Later(w, edition) \/ NotYet(HomeOf[w])
  BY DEF PageParts, WaitsInTime
<1>5. watch[w].at \in {"wait", "fetch", "status"} => visit[w].at = "away"
  BY DEF PageParts, LooksInTime
<1>6. CASE Polls(w)
  <2>1. Turns(w, "fetch", watch[w].fails) /\ watch[w].at = "wait" /\ since' = since
    BY <1>1, <1>6 DEF Polls
  <2> QED
    BY <1>0, <1>2, <1>3, <1>4, <1>5, <2>1, PageMoves
<1>7. CASE Answered(w)
  <2>1. watch[w].at = "fetch" /\ since' = since
    BY <1>1, <1>7 DEF Answered
  <2>2. CASE Busy(w)
    <3>1. Turns(w, "wait", 0)
      BY <1>7, <2>2 DEF Answered
    <3> QED
      BY <1>0, <1>2, <1>3, <1>4, <1>5, <2>1, <3>1, PageMoves
  <2>3. CASE ~Busy(w) /\ last[HomeOf[w]] = "succeeded"
    <3>1. Turns(w, "report", 0)
      BY <1>7, <2>3 DEF Answered
    <3>2. PICK h \in Servers : h = HomeOf[w]
      BY <1>0
    <3>3. ~NotYet(h)
      BY <2>3, <3>2, AnsweredInTime DEF Busy
    <3>4. Later(w, edition)
      BY <1>4, <2>1, <3>2, <3>3
    <3> QED
      BY <1>0, <1>2, <1>5, <2>1, <3>1, <3>4, PageMoves
  <2>4. CASE ~Busy(w) /\ last[HomeOf[w]] # "succeeded"
    <3>1. Turns(w, "status", 0)
      BY <1>7, <2>4 DEF Answered
    <3> QED
      BY <1>0, <1>5, <2>1, <3>1, PageMoves
  <2> QED
    BY <2>2, <2>3, <2>4
<1>8. CASE PollFails(w)
  <2>1. watch[w].at = "fetch" /\ since' = since
    BY <1>1, <1>8 DEF PollFails
  <2>2. CASE Turns(w, "wait", watch[w].fails + 1)
    <3>1. watch[w].fails + 1 \in Nat
      BY <1>0
    <3> QED
      BY <1>0, <1>2, <1>3, <1>4, <1>5, <2>1, <2>2, <3>1, PageMoves
  <2>3. CASE Turns(w, "status", 0)
    BY <1>0, <1>5, <2>1, <2>3, PageMoves
  <2> QED
    BY <1>8, <2>2, <2>3 DEF PollFails
<1>9. CASE Rendered(w) /\ watch[w].at \in {"off", "status"} /\ (Watches(w) \/ Arrives(w))
  <2>1. Turns(w, "wait", 0) /\ Anew
    BY <1>9 DEF Rendered, Waits, Nothing
  <2>2. visit[w].at = "away"
    BY <1>5, <1>9 DEF Waits
  <2>3. PICK h \in Servers : h = HomeOf[w]
    BY <1>0
  <2>4. Unpublished(h) => NotYet(h)
    BY <2>3, RenderedInTime
  <2>5. ~Unpublished(h) => since'[w] = 0
    BY <2>1, <2>3 DEF PageParts, PageTypes
  <2>6. (Later(w, edition) \/ NotYet(HomeOf[w]))'
    BY <1>3, <2>3, <2>4, <2>5 DEF Later
  <2> QED
    BY <1>0, <2>1, <2>2, <2>6, PageMoves
<1>10. CASE Turns(w, "off", 0)
  <2>1. watch'[w] = [at |-> "off", fails |-> 0]
    BY <1>10 DEF Turns, PageParts, PageTypes
  <2>2. ~Rendered(w)
    BY <2>1 DEF Rendered, Turns, PageParts, PageTypes
  <2>3. since' = since
    BY <2>2 DEF Waits
  <2> QED
    BY <1>0, <1>10, <2>3, PageMoves
<1>11. CASE SessionLapses(w) \/ Unlocks(w)
  <2>1. watch' = watch
    BY <1>11 DEF SessionLapses, Unlocks
  <2>2. ~(Rendered(w) /\ watch[w].at \in {"off", "status"})
    <3>1. Rendered(w) => watch'[w] = [at |-> "wait", fails |-> 0]
      BY DEF Rendered, Turns, PageParts, PageTypes
    <3> QED
      BY <2>1, <3>1
  <2>3. since' = since
    BY <2>2 DEF Waits
  <2> QED
    BY <1>0, <2>1, <2>3 DEF PageParts, PageTypes, WaitsInTime, LandsInTime, LooksInTime, Later, NotYet,
       vars, viewerVars
<1> QED
  BY <1>6, <1>7, <1>8, <1>9, <1>10, <1>11 DEF Waits, PageStep, Script, Watches, Arrives, Closes

\* A visit does not begin before its page has landed, and with the file of then.
LEMMA AsksStep ==
    ASSUME ServiceInv, NEW v \in Visitors, Asks(v) PROVE PageParts'
<1> USE DEF ServiceInv
<1>0. /\ UNCHANGED <<vars, since, edition>> /\ edition \in Nat
      /\ \A w \in Watchers : since[w] \in Nat
  BY Fields DEF Asks, Visiting, Stat, Hit, Read, Store, ViewerInv, PageParts, PageTypes
<1>1. \A w \in Visitors \ {v} : visit'[w] = visit[w]
  BY DEF Asks, Visiting, Stat, Hit, Read, Store, Answers, Goes, ViewerInv, ViewerTypeOK
<1>2. \/ visit'[v].at = "away"
      \/ visit[v].at = "away" /\ visit'[v].key = edition
      \/ visit[v].at # "away" /\ visit'[v].key = visit[v].key
  BY DEF Asks, Visiting, Stat, Hit, Read, Store, Answers, Goes, ViewerInv, ViewerTypeOK
<1>3. \/ UNCHANGED watch
      \/ v \in Watchers /\ Turns(v, "off", 0)
  BY DEF Asks, Landing
<1>4. /\ watch' \in [Watchers -> [at : {"off", "wait", "fetch", "status", "report"}, fails : Nat]]
      /\ \A w \in Watchers : watch'[w] = watch[w] \/ watch'[w].at = "off"
  BY <1>3 DEF Turns, PageParts, PageTypes
<1>5. PageTypes'
  BY <1>0, <1>4 DEF PageParts, PageTypes
<1>6. WaitsInTime' /\ LandsInTime'
  BY <1>0, <1>4 DEF PageParts, WaitsInTime, LandsInTime, Later, NotYet, vars
<1>7. LooksInTime'
  <2> SUFFICES ASSUME NEW w \in Watchers, watch'[w].at # "off"
               PROVE  /\ watch[w].at \in {"wait", "fetch", "status"} => visit'[w].at = "away"
                      /\ watch[w].at = "report" /\ visit'[w].at # "away" =>
                            since[w] = 0 \/ since[w] < visit'[w].key
    BY <1>0, <1>4 DEF LooksInTime, Later
  <2>0. w \in Visitors
    BY SceneAssumption
  <2>1. CASE w # v
    BY <1>1, <2>0, <2>1 DEF PageParts, LooksInTime, Later
  <2>2. CASE w = v
    <3>1. watch[w].at = "report" \/ visit[w].at # "away"
      BY <2>2 DEF Asks, Landing
    <3>2. CASE watch[w].at = "report"
      BY <1>0, <1>2, <2>2, <3>2 DEF PageParts, LooksInTime, LandsInTime, Later
    <3>3. CASE visit[w].at # "away"
      BY <1>2, <2>2, <3>3 DEF PageParts, LooksInTime, Later
    <3> QED
      BY <3>1, <3>2, <3>3
  <2> QED
    BY <2>1, <2>2
<1> QED
  BY <1>5, <1>6, <1>7 DEF PageParts

\* Every step of the service preserves the strengthening.
LEMMA ServiceStep ==
    ASSUME ServiceInv, FlagInv', ViewerInv', [ServiceNext]_serviceVars PROVE ServiceInv'
<1> SUFFICES PageParts'
  BY DEF ServiceInv
<1>0. [Next]_vars
  BY ServiceRegenerates
<1>1. CASE UNCHANGED serviceVars
  BY <1>1 DEF serviceVars, vars, viewerVars, pageVars, ServiceInv, PageParts, PageTypes, WaitsInTime,
     LandsInTime, LooksInTime, Later, NotYet
<1>2. CASE LibraryChanges /\ UNCHANGED <<viewerVars, pageVars, since>>
  <2>1. \A a \in Actors : ~Publish(a)
    BY <1>2 DEF LibraryChanges, Publish, Enter, ServiceInv, FlagInv, TypeOK
  <2> QED
    BY <1>0, <1>2, <2>1, PagesStand DEF viewerVars, pageVars
<1>3. ASSUME NEW a \in Actors, Regenerates(a) PROVE PageParts'
  <2>1. UNCHANGED <<watch, since>>
    BY <1>3 DEF Regenerates, pageVars
  <2>2. CASE Published
    BY <1>0, <2>1, <2>2, PagesStand DEF Published
  <2>3. CASE (Work(a) \/ Trigger(a) \/ Command(a)) /\ UNCHANGED viewerVars
    <3>1. phase[a] = "publish" => phase'[a] = "unlock" /\ outcome'[a] = "failed"
      BY <2>3 DEF Work, Trigger, Command, Spawned, SpawnFails, Acquire, Skip, Generate, Fails, Unlock,
         Record, Enter, ServiceInv, FlagInv, TypeOK
    <3>2. \A b \in Actors \ {a} : phase'[b] = phase[b]
      BY <2>3 DEF Work, Trigger, Command, Spawned, SpawnFails, Acquire, Skip, Generate, Fails, Unlock,
         Record, After, Exit, Enter, ServiceInv, FlagInv, TypeOK
    <3>3. \A b \in Actors : ~Publish(b)
      BY <3>1, <3>2 DEF Publish, Enter, ServiceInv, FlagInv, TypeOK
    <3> QED
      BY <1>0, <2>1, <2>3, <3>3, PagesStand DEF viewerVars
  <2> QED
    BY <1>3, <2>2, <2>3 DEF Regenerates
<1>4. ASSUME NEW w \in Watchers, Waits(w) PROVE PageParts'
  BY <1>4, WaitsStep
<1>5. ASSUME NEW v \in Visitors, Asks(v) PROVE PageParts'
  BY <1>5, AsksStep
<1>6. ASSUME NEW h \in Hosts, Dies(h) PROVE PageParts'
  <2>1. UNCHANGED <<watch, since>> /\ edition' = edition
    BY <1>6 DEF Dies, pageVars, Forgotten, viewerVars
  <2>2. \A v \in Visitors : visit'[v] = visit[v] \/ visit'[v].at = "away"
    BY <1>6 DEF Dies, Forgotten, viewerVars, Away
  <2>3. \A a \in Actors : ~Publish(a)
    BY <1>6 DEF Dies, Crash, Publish, Enter, vars, ServiceInv, FlagInv, TypeOK
  <2> QED
    BY <1>0, <2>1, <2>2, <2>3, PagesStand
<1> QED
  BY <1>1, <1>2, <1>3, <1>4, <1>5, <1>6 DEF ServiceNext

\* The strengthening holds in every reachable state.
LEMMA ServiceInductive == ServiceSpec => []ServiceInv
<1>1. ServiceInit /\ FlagInv /\ ViewerInv => ServiceInv
  BY DEF ServiceInit, PageInit, ViewerInit, ServiceInv, PageParts, PageTypes, WaitsInTime, LandsInTime,
     LooksInTime, Later, Off, Nothing
<1>2. ServiceInv /\ FlagInv' /\ ViewerInv' /\ [ServiceNext]_serviceVars => ServiceInv'
  BY ServiceStep
<1> QED
  BY <1>1, <1>2, ServiceParts, FlagInductive, ViewerInductive, PTL DEF ServiceSpec

\* Whoever is sent to the report because a regeneration succeeded sees one that
\* was published after the page that waited was rendered, whatever fails, is
\* skipped, dies or is run by others meanwhile, for every number of them.
THEOREM ServiceSuccessShown == ServiceSpec => SuccessShown
<1> DEFINE A == \A w \in Watchers :
        Landing(w) /\ visit[w].at # "away" /\ visit'[w].at = "away" /\ ~Landing(w)' =>
            visit'[w].value \in {Nothing} \cup since[w] + 1..edition
<1>1. ServiceInv /\ [ServiceNext]_serviceVars => [A]_serviceVars
  <2> SUFFICES ASSUME ServiceInv, ServiceNext, NEW w \in Watchers, Landing(w), visit[w].at # "away",
                      visit'[w].at = "away", ~Landing(w)'
               PROVE  visit'[w].value \in {Nothing} \cup since[w] + 1..edition
    OBVIOUS
  <2> USE DEF ServiceInv
  <2>0. /\ w \in Visitors /\ edition \in Nat /\ since[w] \in Nat /\ visit[w].key \in 1..edition
        /\ watch[w].at = "report"
    BY Fields, SceneAssumption DEF ViewerInv, VisitIsPast, PageParts, PageTypes, Landing
  <2>1. since[w] < visit[w].key
    BY <2>0 DEF PageParts, LooksInTime, Later
  <2>2. visit[w].value \in SinceKey(visit[w].key)
    BY <2>0 DEF ViewerInv, VisitIsPast
  <2>3. watch' # watch
    BY <2>0 DEF Landing
  <2>4. visit' # visit
    BY <2>0
  <2>5. PICK v \in Visitors : Asks(v)
    BY <2>3, <2>4 DEF ServiceNext, Regenerates, Waits, Dies, pageVars, viewerVars
  <2>6. v = w
    BY <2>0, <2>5 DEF Asks, Visiting, Stat, Hit, Read, Store, Answers, Goes, ViewerInv, ViewerTypeOK
  <2>7. CASE Hit(w)
    <3>1. visit'[w].value = Entry(w).value
      BY <2>0, <2>7 DEF Hit, Answers, Goes, ViewerInv, ViewerTypeOK
    <3>2. Entry(w).value \in SinceKey(visit[w].key)
      BY <2>0, <2>7, Fields DEF Hit, ViewerInv, MemoIsPast, Entry
    <3> QED
      BY <2>0, <2>1, <3>1, <3>2 DEF SinceKey
  <2>8. CASE Store(w)
    <3>1. visit'[w].value = visit[w].value
      BY <2>0, <2>8 DEF Store, Answers, Goes, ViewerInv, ViewerTypeOK
    <3> QED
      BY <2>0, <2>1, <2>2, <3>1 DEF SinceKey
  <2>9. CASE Stat(w) \/ Read(w)
    BY <2>0, <2>9 DEF Stat, Read, Goes, ViewerInv, ViewerTypeOK
  <2> QED
    BY <2>5, <2>6, <2>7, <2>8, <2>9 DEF Asks, Visiting
<1> QED
  BY <1>1, ServiceInductive, PTL DEF ServiceSpec, SuccessShown

=============================================================================
