-------------------------- MODULE CleanerCycleProofs --------------------------
(***************************************************************************)
(* What CleanerCycle guarantees for any number of processes, paths,        *)
(* torrents and directories, and any thresholds.                           *)
(***************************************************************************)
EXTENDS CleanerCycle, TLAPS

\* The thresholds are numbers.
LEMMA Thresholds == Grace \in Nat /\ MinAge \in Nat /\ ProtectSeconds \in Nat
BY CleanerAssumption

-----------------------------------------------------------------------------
(* Types.                                                                  *)

\* The types of the file system, of the tables and of the processes.
FileTypes ==
    /\ file \in [Paths -> [mtime : Age(MinAge), here : Age(Grace)]]
    /\ \A x \in Paths : file[x].mtime = None <=> file[x].here = None
CandTypes ==
    /\ cand \in [Paths -> [first : Age(Grace), mtime : Age(MinAge)]]
    /\ \A x \in Paths : cand[x].mtime = None <=> cand[x].first = None
ProcTypes ==
    /\ phase \in [Procs -> Phases]
    /\ fetched \in [Procs -> SUBSET Torrents]
    /\ plan \in [Procs -> SUBSET (Paths \cup Dirs)]
    /\ there \in [Procs -> SUBSET Dirs]
    /\ fresh \in [Procs -> SUBSET Paths]
    /\ made \in [Procs -> SUBSET Paths]
    /\ found \in [Procs -> [Paths -> Age(MinAge)]]
    /\ elig \in [Procs -> SUBSET Paths]
    /\ gone \in [Procs -> SUBSET Paths]

\* The initial state is well typed.
LEMMA TypeInit == Init => TypeOK
<1> SUFFICES ASSUME Init PROVE TypeOK
  OBVIOUS
<1>1. FileTypes /\ CandTypes
  BY DEF Init, FileTypes, CandTypes, NoFile, NoRow, None, Age
<1>2. ProcTypes
  BY DEF Init, ProcTypes, Phases, Age, None
<1>3. outs \in [Paths -> Age(ProtectSeconds)] /\ kept \in [Paths -> Ages(Grace)]
  BY Thresholds DEF Init, Age, Ages, None
<1> QED
  BY <1>1, <1>2, <1>3 DEF Init, TypeOK, FileTypes, CandTypes, ProcTypes

\* An age that grows stays within its limit.
LEMMA OlderType ==
    ASSUME NEW limit \in Nat, NEW age \in Age(limit)
    PROVE  /\ Older(age, limit) \in Age(limit)
           /\ Older(age, limit) = None <=> age = None
           /\ age \in Ages(limit) => Older(age, limit) \in Ages(limit) /\ Older(age, limit) >= age
BY DEF Older, Age, Ages, None

\* Putting a file down keeps the types.
LEMMA PutTypes ==
    ASSUME TypeOK, NEW x \in Paths, NEW m \in {0, MinAge}, Put(x, m)
    PROVE  FileTypes' /\ dirs' \subseteq Dirs
<1>1. [mtime |-> m, here |-> 0] \in [mtime : Ages(MinAge), here : Ages(Grace)]
  BY Thresholds DEF Ages
<1>2. None \notin Ages(MinAge) /\ None \notin Ages(Grace)
  BY Thresholds DEF Ages, None
<1> QED
  BY <1>1, <1>2 DEF TypeOK, Put, FileTypes, Age

\* Forgetting the cycle, at its end or in a crash, keeps the types.
LEMMA ForgetTypes ==
    ASSUME TypeOK, NEW q \in Procs, Forget(q)
    PROVE  ProcTypes'
<1>1. [x \in Paths |-> None] \in [Paths -> Age(MinAge)]
  BY DEF Age
<1> QED
  BY <1>1 DEF TypeOK, Forget, ProcTypes, Phases

\* Every step of the environment or of a process keeps the types.
LEMMA TypeStep == TypeOK /\ [Next]_vars => TypeOK'
<1> SUFFICES ASSUME TypeOK, [Next]_vars PROVE TypeOK'
  OBVIOUS
<1> USE DEF fsVars, dbVars, procVars
<1>1. CASE UNCHANGED vars
  BY <1>1 DEF vars, TypeOK
<1>2. CASE Tick
  <2>1. FileTypes'
    <3>1. \A x \in Paths : /\ Older(file[x].mtime, MinAge) \in Age(MinAge)
                           /\ Older(file[x].here, Grace) \in Age(Grace)
                           /\ Older(file[x].mtime, MinAge) = None <=> Older(file[x].here, Grace) = None
      <4> TAKE x \in Paths
      <4>1. file[x].mtime \in Age(MinAge) /\ file[x].here \in Age(Grace)
        BY DEF TypeOK
      <4> QED
        BY <4>1, OlderType, Thresholds DEF TypeOK
    <3> QED
      BY <1>2, <3>1 DEF Tick, FileTypes
  <2>2. CandTypes'
    <3>1. \A x \in Paths : /\ Older(cand[x].mtime, MinAge) \in Age(MinAge)
                           /\ Older(cand[x].first, Grace) \in Age(Grace)
                           /\ Older(cand[x].mtime, MinAge) = None <=> Older(cand[x].first, Grace) = None
      <4> TAKE x \in Paths
      <4>1. cand[x].mtime \in Age(MinAge) /\ cand[x].first \in Age(Grace)
        BY DEF TypeOK
      <4> QED
        BY <4>1, OlderType, Thresholds DEF TypeOK
    <3> QED
      BY <1>2, <3>1 DEF Tick, CandTypes
  <2>3. (outs \in [Paths -> Age(ProtectSeconds)])'
    <3>1. \A x \in Paths : Older(outs[x], ProtectSeconds) \in Age(ProtectSeconds)
      BY OlderType, Thresholds DEF TypeOK
    <3> QED
      BY <1>2, <3>1 DEF Tick
  <2>4. (kept \in [Paths -> Ages(Grace)])'
    <3>1. \A x \in Paths : Older(kept[x], Grace) \in Ages(Grace)
      BY OlderType, Thresholds DEF TypeOK, Age
    <3> QED
      BY <1>2, <3>1 DEF Tick
  <2> QED
    BY <1>2, <2>1, <2>2, <2>3, <2>4 DEF Tick, TypeOK, FileTypes, CandTypes
<1>3. ASSUME NEW x \in Paths, Write(x) \/ MoveIn(x) PROVE TypeOK'
  BY <1>3, PutTypes DEF Write, MoveIn, TypeOK, FileTypes
<1>4. ASSUME NEW x \in Paths, Disappear(x) PROVE TypeOK'
  <2>1. FileTypes'
    BY <1>4 DEF Disappear, TypeOK, FileTypes, NoFile, Age, None
  <2> QED
    BY <1>4, <2>1 DEF Disappear, TypeOK, FileTypes
<1>5. ASSUME NEW d \in Dirs, MakeDir(d) \/ DropDir(d) PROVE TypeOK'
  BY <1>5 DEF MakeDir, DropDir, TypeOK
<1>6. ASSUME NEW t \in Torrents, AddTorrent(t) \/ RemoveTorrent(t) PROVE TypeOK'
  BY <1>6 DEF AddTorrent, RemoveTorrent, TypeOK
<1>7. ASSUME NEW x \in OneShots, OneShotWrites(x) PROVE TypeOK'
  <2>1. x \in Paths
    BY CleanerAssumption
  <2> QED
    BY <1>7, <2>1, PutTypes DEF OneShotWrites, TypeOK, FileTypes
<1>8. ASSUME NEW x \in OneShots, OneShotRecords(x) PROVE TypeOK'
  <2>1. 0 \in Age(ProtectSeconds)
    BY Thresholds DEF Age, Ages
  <2> QED
    BY <1>8, <2>1 DEF OneShotRecords, TypeOK
<1>9. ASSUME NEW q \in Procs, Crash(q) PROVE TypeOK'
  BY <1>9, ForgetTypes DEF Crash, TypeOK, ProcTypes
<1>10. ASSUME NEW q \in Procs, Fetch(q) PROVE TypeOK'
  BY <1>10 DEF Fetch, TypeOK, Phases
<1>11. ASSUME NEW q \in Procs, Plan(q) PROVE TypeOK'
  <2>1. ProtectionPlan(fetched[q]) \subseteq Paths \cup Dirs
    BY CleanerAssumption DEF ProtectionPlan, TypeOK
  <2>2. (there \in [Procs -> SUBSET Dirs])'
    BY <1>11 DEF Plan, TypeOK
  <2> QED
    BY <1>11, <2>1, <2>2 DEF Plan, TypeOK, Phases
<1>12. ASSUME NEW q \in Procs, NEW x \in Media, Extract(q, x) PROVE TypeOK'
  <2>1. x \in Paths
    BY CleanerAssumption
  <2>2. FileTypes' /\ dirs' \subseteq Dirs
    BY <1>12, <2>1, PutTypes DEF Extract
  <2>3. {0, outs[x]} \subseteq Age(ProtectSeconds)
    BY <2>1, Thresholds DEF TypeOK, Age, Ages
  <2>4. (outs \in [Paths -> Age(ProtectSeconds)])' /\ (fresh \in [Procs -> SUBSET Paths])'
    <3>1. CASE UNCHANGED <<fresh, outs>>
      BY <3>1 DEF TypeOK
    <3>2. ASSUME NEW age \in {0, outs[x]}, outs' = [outs EXCEPT ![x] = age],
                 fresh' = [fresh EXCEPT ![q] = @ \cup {x}]
          PROVE  (outs \in [Paths -> Age(ProtectSeconds)])' /\ (fresh \in [Procs -> SUBSET Paths])'
      BY <2>1, <2>3, <3>2 DEF TypeOK
    <3> QED
      BY <1>12, <3>1, <3>2 DEF Extract
  <2>5. (made \in [Procs -> SUBSET Paths])'
    BY <1>12, <2>1 DEF Extract, TypeOK
  <2> QED
    BY <1>12, <2>2, <2>4, <2>5 DEF Extract, TypeOK, FileTypes
<1>13. ASSUME NEW q \in Procs, ReadProtected(q) PROVE TypeOK'
  <2>1. (outs \in [Paths -> Age(ProtectSeconds)])'
    BY <1>13 DEF ReadProtected, TypeOK, Age
  <2>2. (plan \in [Procs -> SUBSET (Paths \cup Dirs)])' /\ (phase \in [Procs -> Phases])'
    BY <1>13 DEF ReadProtected, TypeOK, Phases
  <2> QED
    BY <1>13, <2>1, <2>2 DEF ReadProtected, TypeOK
<1>14. ASSUME NEW q \in Procs, Scan(q) PROVE TypeOK'
  <2>1. [x \in Paths |-> IF Protects(plan[q], x) THEN None ELSE file[x].mtime] \in [Paths -> Age(MinAge)]
    BY DEF TypeOK, Age
  <2> QED
    BY <1>14, <2>1 DEF Scan, TypeOK, Phases
<1>15. ASSUME NEW q \in Procs, Sync(q) PROVE TypeOK'
  <2>1. CandTypes'
    <3>1. \A x \in Paths : /\ found[q][x] \in Age(MinAge) /\ cand[x].first \in Age(Grace)
                           /\ cand[x] # NoRow => cand[x].first # None
      BY DEF TypeOK, NoRow
    <3>2. 0 \in Age(Grace) /\ None \in Age(Grace) /\ None \in Age(MinAge) /\ 0 # None
      BY Thresholds DEF Age, Ages, None
    <3> QED
      BY <1>15, <3>1, <3>2 DEF Sync, CandTypes, NoRow
  <2>2. (kept \in [Paths -> Ages(Grace)])'
    BY <1>15, Thresholds DEF Sync, TypeOK, Ages
  <2>3. (found \in [Procs -> [Paths -> Age(MinAge)]])'
    BY <1>15 DEF Sync, TypeOK, Age
  <2> QED
    BY <1>15, <2>1, <2>2, <2>3 DEF Sync, TypeOK, CandTypes, Phases
<1>16. ASSUME NEW q \in Procs, Select(q) PROVE TypeOK'
  <2>1. CASE q \in DryRuns
    BY <1>16, <2>1, ForgetTypes DEF Select, TypeOK, ProcTypes
  <2>2. CASE q \notin DryRuns
    <3>1. Eligible \subseteq Paths
      BY DEF Eligible
    <3>2. (elig \in [Procs -> SUBSET Paths])' /\ (phase \in [Procs -> Phases])'
      <4>1. /\ elig' = [elig EXCEPT ![q] = Eligible]
            /\ phase' = [phase EXCEPT ![q] = "delete"]
        BY <1>16, <2>2 DEF Select
      <4>2. (elig \in [Procs -> SUBSET Paths])'
        BY <4>1, <3>1 DEF TypeOK
      <4>3. (phase \in [Procs -> Phases])'
        BY <4>1 DEF TypeOK, Phases
      <4> QED
        BY <4>2, <4>3
    <3>3. UNCHANGED <<file, dirs, torrents, cand, outs, writing, kept, fetched, plan, there, fresh, made, found, gone>>
      BY <1>16, <2>2 DEF Select
    <3> QED
      BY <3>2, <3>3 DEF TypeOK
  <2> QED
    BY <2>1, <2>2
<1>17. ASSUME NEW q \in Procs, NEW x \in Paths, Delete(q, x) PROVE TypeOK'
  <2>1. FileTypes'
    BY <1>17 DEF Delete, TypeOK, FileTypes, NoFile, Age, None
  <2> QED
    BY <1>17, <2>1 DEF Delete, TypeOK, FileTypes
<1>20. ASSUME NEW q \in Procs, NEW x \in Paths, DeleteFails(q, x) PROVE TypeOK'
  BY <1>20 DEF DeleteFails, TypeOK
<1>18. ASSUME NEW q \in Procs, RemoveCandidates(q) PROVE TypeOK'
  <2>1. CandTypes'
    BY <1>18 DEF RemoveCandidates, TypeOK, CandTypes, NoRow, Age, None
  <2> QED
    BY <1>18, <2>1 DEF RemoveCandidates, TypeOK, CandTypes, Phases
<1>19. ASSUME NEW q \in Procs, RemoveDirs(q) PROVE TypeOK'
  BY <1>19, ForgetTypes DEF RemoveDirs, TypeOK, ProcTypes
<1> QED
  BY <1>1, <1>2, <1>3, <1>4, <1>5, <1>6, <1>7, <1>8, <1>9, <1>10, <1>11, <1>12,
     <1>13, <1>14, <1>15, <1>16, <1>17, <1>18, <1>19, <1>20 DEF Next, Environment, Cycle

\* Every reachable state of the cleaner is well typed.
THEOREM TypeCorrect == Spec => []TypeOK
BY TypeInit, TypeStep, PTL DEF Spec

-----------------------------------------------------------------------------
(* A process honours its own plan.                                         *)

\* There is a grace window, or one process only.  Without either a process would
\* delete what another one's sync has just taken for an orphan.
Graced == Grace > 0 \/ \A p, q \in Procs : p = q

\* Between its sync and its selection, what a process's plan protects has no
\* row, or a row another process has just inserted; hence nothing it has
\* selected is protected by its plan.
ProtectedRowsYoung ==
    \A q \in Procs, x \in Paths :
        phase[q] = "select" /\ Protects(plan[q], x) =>
            cand[x].first = None \/ (cand[x].first = 0 /\ Grace > 0)
SelectedUnprotected == \A q \in Procs, x \in Paths : x \in elig[q] => ~Protects(plan[q], x)
ScannedUnprotected ==
    \A q \in Procs, x \in Paths :
        phase[q] = "sync" /\ Protects(plan[q], x) => found[q][x] = None
OnlyDeleting == \A q \in Procs : phase[q] # "delete" => elig[q] = {}

PlanInv ==
    TypeOK /\ ProtectedRowsYoung /\ SelectedUnprotected /\ ScannedUnprotected /\ OnlyDeleting

\* Every step preserves the strengthening of OwnPlanHonoured.
LEMMA PlanStep ==
    ASSUME Graced, PlanInv, TypeOK', [Next]_vars PROVE PlanInv'
<1> DEFINE Parts == ProtectedRowsYoung /\ SelectedUnprotected /\ ScannedUnprotected /\ OnlyDeleting
<1> SUFFICES Parts'
  BY DEF PlanInv
<1> USE DEF fsVars, dbVars, procVars, PlanInv, ProtectedRowsYoung, SelectedUnprotected,
            ScannedUnprotected, OnlyDeleting, Protects
<1>1. CASE UNCHANGED vars
  BY <1>1 DEF vars, TypeOK
<1>2. CASE Tick
  BY <1>2 DEF Tick, TypeOK
<1>3. ASSUME NEW x \in Paths, Write(x) \/ MoveIn(x) \/ Disappear(x) PROVE Parts'
  BY <1>3 DEF Write, MoveIn, Disappear, TypeOK
<1>4. ASSUME NEW d \in Dirs, MakeDir(d) \/ DropDir(d) PROVE Parts'
  BY <1>4 DEF MakeDir, DropDir, TypeOK
<1>5. ASSUME NEW t \in Torrents, AddTorrent(t) \/ RemoveTorrent(t) PROVE Parts'
  BY <1>5 DEF AddTorrent, RemoveTorrent, TypeOK
<1>6. ASSUME NEW x \in OneShots, OneShotWrites(x) \/ OneShotRecords(x) PROVE Parts'
  BY <1>6 DEF OneShotWrites, OneShotRecords, TypeOK
<1>7. ASSUME NEW q \in Procs, Crash(q) PROVE Parts'
  BY <1>7 DEF Crash, Forget, TypeOK
<1>8. ASSUME NEW q \in Procs, Fetch(q) PROVE Parts'
  BY <1>8 DEF Fetch, TypeOK
<1>9. ASSUME NEW q \in Procs, Plan(q) PROVE Parts'
  BY <1>9 DEF Plan, TypeOK
<1>10. ASSUME NEW q \in Procs, NEW x \in Media, Extract(q, x) PROVE Parts'
  BY <1>10 DEF Extract, TypeOK
<1>11. ASSUME NEW q \in Procs, ReadProtected(q) PROVE Parts'
  BY <1>11 DEF ReadProtected, TypeOK
<1>12. ASSUME NEW q \in Procs, Scan(q) PROVE Parts'
  BY <1>12 DEF Scan, TypeOK
<1>13. ASSUME NEW q \in Procs, Sync(q) PROVE Parts'
  <2>1. ProtectedRowsYoung'
    <3>1. ASSUME NEW p \in Procs, NEW x \in Paths, phase'[p] = "select", Protects(plan'[p], x)
          PROVE  cand'[x].first = None \/ (cand'[x].first = 0 /\ Grace > 0)
      <4>1. CASE p = q
        <5>1. found[q][x] = None
          BY <1>13, <3>1, <4>1 DEF Sync
        <5> QED
          BY <1>13, <5>1 DEF Sync, NoRow
      <4>2. CASE p # q
        <5>1. Grace > 0 /\ cand[x].first \in {None, 0}
          BY <1>13, <3>1, <4>2 DEF Sync, TypeOK, Graced
        <5> QED
          BY <1>13, <5>1 DEF Sync, NoRow
      <4> QED
        BY <4>1, <4>2
    <3> QED
      BY <3>1
  <2> QED
    BY <1>13, <2>1 DEF Sync, TypeOK
<1>14. ASSUME NEW q \in Procs, Select(q) PROVE Parts'
  <2>1. cand' = cand /\ phase[q] = "select"
    BY <1>14 DEF Select
  <2>2. \A p \in Procs \ {q} : /\ phase'[p] = phase[p] /\ plan'[p] = plan[p]
                               /\ found'[p] = found[p] /\ elig'[p] = elig[p]
    BY <1>14 DEF Select, Forget, TypeOK
  <2>3. CASE q \in DryRuns
    <3>1. phase'[q] = "idle" /\ elig'[q] = {}
      BY <1>14, <2>3 DEF Select, Forget, TypeOK
    <3> QED
      BY <2>1, <2>2, <3>1
  <2>4. CASE q \notin DryRuns
    <3>1. \A x \in Eligible : x \in Paths /\ ~Protects(plan[q], x)
      BY <2>1, Thresholds DEF Eligible, None
    <3>2. phase'[q] = "delete" /\ elig'[q] = Eligible /\ plan'[q] = plan[q]
      BY <1>14, <2>4 DEF Select, TypeOK
    <3> QED
      BY <2>1, <2>2, <3>1, <3>2
  <2> QED
    BY <2>3, <2>4
<1>15. ASSUME NEW q \in Procs, NEW x \in Paths, Delete(q, x) PROVE Parts'
  BY <1>15 DEF Delete, TypeOK
<1>16. ASSUME NEW q \in Procs, NEW x \in Paths, DeleteFails(q, x) PROVE Parts'
  BY <1>16 DEF DeleteFails, TypeOK
<1>17. ASSUME NEW q \in Procs, RemoveCandidates(q) PROVE Parts'
  <2>1. \A x \in Paths : cand'[x] = cand[x] \/ cand'[x].first = None
    BY <1>17 DEF RemoveCandidates, NoRow
  <2> QED
    BY <1>17, <2>1 DEF RemoveCandidates, TypeOK
<1>18. ASSUME NEW q \in Procs, RemoveDirs(q) PROVE Parts'
  BY <1>18 DEF RemoveDirs, Forget, TypeOK
<1> QED
  BY <1>1, <1>2, <1>3, <1>4, <1>5, <1>6, <1>7, <1>8, <1>9, <1>10, <1>11, <1>12, <1>13, <1>14, <1>15, <1>16, <1>17, <1>18 DEF Next, Environment, Cycle
\* The strengthening holds in every reachable state.
LEMMA PlanInductive == ASSUME Graced PROVE Spec => []PlanInv
<1>1. Init => PlanInv
  BY TypeInit DEF Init, PlanInv, ProtectedRowsYoung, SelectedUnprotected, ScannedUnprotected, OnlyDeleting
<1>2. PlanInv /\ [Next]_vars => PlanInv'
  BY PlanStep, TypeStep DEF PlanInv
<1> QED
  BY <1>1, <1>2, PTL DEF Spec

\* Only _delete_candidate unlinks a file on behalf of a process.
LEMMA OnlyDeleteUnlinks ==
    ASSUME TypeOK, Next, NEW q \in Procs, NEW x \in Paths, Unlinks(q, x)
    PROVE  Delete(q, x)
<1>1. \/ gone' = gone
      \/ \E p \in Procs : gone' = [gone EXCEPT ![p] = {}]
      \/ \E p \in Procs, y \in Paths : Delete(p, y)
  BY DEF Next, Environment, Cycle, Tick, Write, MoveIn, Disappear, MakeDir, DropDir, AddTorrent,
    RemoveTorrent, OneShotWrites, OneShotRecords, Crash, Forget, Fetch, Plan, Extract, ReadProtected,
    Scan, Sync, Select, DeleteFails, RemoveCandidates, RemoveDirs, procVars
<1>2. PICK p \in Procs, y \in Paths : Delete(p, y)
  BY <1>1 DEF Unlinks, TypeOK
<1>3. p = q /\ y = x
  BY <1>2 DEF Delete, Unlinks, TypeOK
<1> QED
  BY <1>2, <1>3

\* Any number of processes share the candidate table, and still none of them
\* deletes a file that its own plan protects, as long as there is a grace window;
\* without one, as long as there is one process.
THEOREM OwnPlanTheorem == ASSUME Graced PROVE Spec => OwnPlanHonoured
<1> DEFINE A == \A q \in Procs, x \in Paths : Unlinks(q, x) => ~Protects(plan[q], x)
<1>1. PlanInv /\ [Next]_vars => [A]_vars
  <2> SUFFICES ASSUME PlanInv, Next, NEW q \in Procs, NEW x \in Paths, Unlinks(q, x)
               PROVE  ~Protects(plan[q], x)
    OBVIOUS
  <2>1. Delete(q, x)
    BY OnlyDeleteUnlinks DEF PlanInv
  <2> QED
    BY <2>1 DEF Delete, PlanInv, SelectedUnprotected
<1>2. Spec => []PlanInv
  BY PlanInductive
<1> QED
  BY <1>1, <1>2, PTL DEF Spec, OwnPlanHonoured

-----------------------------------------------------------------------------
(* The grace window.                                                       *)

\* A row is no older than the time since a sync last left its path out.
Young == \A x \in Paths : cand[x].first <= kept[x]

\* Every step preserves it.
LEMMA GraceStep ==
    ASSUME TypeOK, Young, [Next]_vars PROVE Young'
<1> USE DEF fsVars, dbVars, procVars, Young
<1>1. CASE UNCHANGED vars
  BY <1>1 DEF vars, TypeOK
<1>2. CASE Tick
  <2> SUFFICES ASSUME NEW x \in Paths PROVE cand'[x].first <= kept'[x]
    OBVIOUS
  <2>1. kept[x] \in 0..Grace /\ cand[x].first \in -1..Grace /\ cand[x].first <= kept[x]
    BY Thresholds DEF TypeOK, Age, Ages, None
  <2>2. Older(cand[x].first, Grace) <= Older(kept[x], Grace)
    BY <2>1, Thresholds DEF Older, None
  <2> QED
    BY <1>2, <2>2 DEF Tick
<1>3. ASSUME NEW x \in Paths, Write(x) \/ MoveIn(x) \/ Disappear(x) PROVE Young'
  BY <1>3 DEF Write, MoveIn, Disappear, TypeOK
<1>4. ASSUME NEW d \in Dirs, MakeDir(d) \/ DropDir(d) PROVE Young'
  BY <1>4 DEF MakeDir, DropDir, TypeOK
<1>5. ASSUME NEW t \in Torrents, AddTorrent(t) \/ RemoveTorrent(t) PROVE Young'
  BY <1>5 DEF AddTorrent, RemoveTorrent, TypeOK
<1>6. ASSUME NEW x \in OneShots, OneShotWrites(x) \/ OneShotRecords(x) PROVE Young'
  BY <1>6 DEF OneShotWrites, OneShotRecords, TypeOK
<1>7. ASSUME NEW q \in Procs, Crash(q) PROVE Young'
  BY <1>7 DEF Crash, Forget, TypeOK
<1>8. ASSUME NEW q \in Procs, Fetch(q) PROVE Young'
  BY <1>8 DEF Fetch, TypeOK
<1>9. ASSUME NEW q \in Procs, Plan(q) PROVE Young'
  BY <1>9 DEF Plan, TypeOK
<1>10. ASSUME NEW q \in Procs, NEW x \in Media, Extract(q, x) PROVE Young'
  BY <1>10 DEF Extract, TypeOK
<1>11. ASSUME NEW q \in Procs, ReadProtected(q) PROVE Young'
  BY <1>11 DEF ReadProtected, TypeOK
<1>12. ASSUME NEW q \in Procs, Scan(q) PROVE Young'
  BY <1>12 DEF Scan, TypeOK
<1>13. ASSUME NEW q \in Procs, Sync(q) PROVE Young'
  <2> SUFFICES ASSUME NEW x \in Paths PROVE cand'[x].first <= kept'[x]
    OBVIOUS
  <2>1. kept[x] \in Nat /\ cand[x].first <= kept[x]
    BY DEF TypeOK, Ages
  <2>2. CASE found[q][x] = None
    BY <1>13, <2>2 DEF Sync, NoRow, None
  <2>3. CASE found[q][x] # None
    BY <1>13, <2>1, <2>3 DEF Sync
  <2> QED
    BY <2>2, <2>3
<1>14. ASSUME NEW q \in Procs, Select(q) PROVE Young'
  BY <1>14 DEF Select, Forget, Eligible, TypeOK
<1>15. ASSUME NEW q \in Procs, NEW x \in Paths, Delete(q, x) PROVE Young'
  BY <1>15 DEF Delete, TypeOK
<1>16. ASSUME NEW q \in Procs, NEW x \in Paths, DeleteFails(q, x) PROVE Young'
  BY <1>16 DEF DeleteFails, TypeOK
<1>17. ASSUME NEW q \in Procs, RemoveCandidates(q) PROVE Young'
  <2>1. \A x \in Paths : kept[x] \in Nat /\ cand[x].first <= kept[x]
    BY DEF TypeOK, Ages
  <2>2. \A x \in Paths : cand'[x] = cand[x] \/ cand'[x].first = -1
    BY <1>17 DEF RemoveCandidates, NoRow, None
  <2> QED
    BY <1>17, <2>1, <2>2 DEF RemoveCandidates
<1>18. ASSUME NEW q \in Procs, RemoveDirs(q) PROVE Young'
  BY <1>18 DEF RemoveDirs, Forget, TypeOK
<1> QED
  BY <1>1, <1>2, <1>3, <1>4, <1>5, <1>6, <1>7, <1>8, <1>9, <1>10, <1>11, <1>12, <1>13, <1>14, <1>15, <1>16, <1>17, <1>18 DEF Next, Environment, Cycle

\* A path becomes eligible only if every sync of the grace window, whichever
\* process made it and whatever crashed in between, found it untracked.
THEOREM GraceTheorem == Spec => GraceHonoured
<1> DEFINE A == \A q \in Procs, x \in Paths : x \in elig'[q] \ elig[q] => kept[x] = Grace
<1>1. Init => Young
  BY DEF Init, Young, NoRow, None
<1>2. TypeOK /\ Young /\ [Next]_vars => Young'
  BY GraceStep
<1>3. TypeOK /\ Young /\ [Next]_vars => [A]_vars
  <2> SUFFICES ASSUME TypeOK, Young, Next, NEW q \in Procs, NEW x \in Paths, x \in elig'[q] \ elig[q]
               PROVE  kept[x] = Grace
    OBVIOUS
  <2>1. x \in Eligible
    <3>1. \/ elig' = elig
          \/ \E p \in Procs : elig' = [elig EXCEPT ![p] = {}]
          \/ \E p \in Procs, y \in Paths : elig' = [elig EXCEPT ![p] = @ \ {y}]
          \/ \E p \in Procs : elig' = [elig EXCEPT ![p] = Eligible]
      BY DEF Next, Environment, Cycle, Tick, Write, MoveIn, Disappear, MakeDir, DropDir, AddTorrent,
        RemoveTorrent, OneShotWrites, OneShotRecords, Crash, Forget, Fetch, Plan, Extract,
        ReadProtected, Scan, Sync, Select, Delete, DeleteFails, RemoveCandidates, RemoveDirs, procVars
    <3>2. ASSUME NEW p \in Procs, NEW S, elig' = [elig EXCEPT ![p] = S] PROVE p = q /\ x \in S
      BY <3>2 DEF TypeOK
    <3> QED
      BY <3>1, <3>2
  <2>2. cand[x].first = Grace /\ kept[x] \in 0..Grace
    BY <2>1 DEF Eligible, TypeOK, Ages
  <2> QED
    BY <2>2, Thresholds DEF Young
<1> QED
  BY <1>1, <1>2, <1>3, TypeCorrect, PTL DEF Spec, GraceHonoured

-----------------------------------------------------------------------------
(* Torrents the cycle has fetched.                                         *)

\* Past planning, the plan protects the content of every torrent fetched, unless
\* that is a directory that was missing when it planned.
PlanCovers ==
    \A q \in Procs : phase[q] \notin {"idle", "plan"} =>
        \A t \in fetched[q] : ContentOf[t] \in plan[q] \cup (Dirs \ there[q])

\* Every step preserves it.
LEMMA CoverStep ==
    ASSUME TypeOK, PlanCovers, [Next]_vars PROVE PlanCovers'
<1> USE DEF fsVars, dbVars, procVars, PlanCovers
<1>1. CASE UNCHANGED vars
  BY <1>1 DEF vars, TypeOK
<1>2. CASE Tick
  BY <1>2 DEF Tick, TypeOK
<1>3. ASSUME NEW x \in Paths, Write(x) \/ MoveIn(x) \/ Disappear(x) PROVE PlanCovers'
  BY <1>3 DEF Write, MoveIn, Disappear, TypeOK
<1>4. ASSUME NEW d \in Dirs, MakeDir(d) \/ DropDir(d) PROVE PlanCovers'
  BY <1>4 DEF MakeDir, DropDir, TypeOK
<1>5. ASSUME NEW t \in Torrents, AddTorrent(t) \/ RemoveTorrent(t) PROVE PlanCovers'
  BY <1>5 DEF AddTorrent, RemoveTorrent, TypeOK
<1>6. ASSUME NEW x \in OneShots, OneShotWrites(x) \/ OneShotRecords(x) PROVE PlanCovers'
  BY <1>6 DEF OneShotWrites, OneShotRecords, TypeOK
<1>7. ASSUME NEW q \in Procs, Crash(q) PROVE PlanCovers'
  BY <1>7 DEF Crash, Forget, TypeOK
<1>8. ASSUME NEW q \in Procs, Fetch(q) PROVE PlanCovers'
  BY <1>8 DEF Fetch, TypeOK
<1>9. ASSUME NEW q \in Procs, Plan(q) PROVE PlanCovers'
  <2>1. \A t \in fetched[q] : ContentOf[t] \in ProtectionPlan(fetched[q]) \cup (Dirs \ dirs)
    BY CleanerAssumption DEF ProtectionPlan, TypeOK
  <2> QED
    BY <1>9, <2>1 DEF Plan, TypeOK
<1>10. ASSUME NEW q \in Procs, NEW x \in Media, Extract(q, x) PROVE PlanCovers'
  BY <1>10 DEF Extract, TypeOK
<1>11. ASSUME NEW q \in Procs, ReadProtected(q) PROVE PlanCovers'
  BY <1>11 DEF ReadProtected, TypeOK
<1>12. ASSUME NEW q \in Procs, Scan(q) PROVE PlanCovers'
  BY <1>12 DEF Scan, TypeOK
<1>13. ASSUME NEW q \in Procs, Sync(q) PROVE PlanCovers'
  BY <1>13 DEF Sync, TypeOK
<1>14. ASSUME NEW q \in Procs, Select(q) PROVE PlanCovers'
  <2>1. CASE q \in DryRuns
    BY <1>14, <2>1 DEF Select, Forget, TypeOK
  <2>2. CASE q \notin DryRuns
    <3>1. UNCHANGED <<fetched, plan, there>> /\ phase[q] = "select"
      BY <1>14, <2>2 DEF Select
    <3>2. phase' = [phase EXCEPT ![q] = "delete"]
      BY <1>14, <2>2 DEF Select
    <3> QED
      BY <3>1, <3>2 DEF TypeOK
  <2> QED
    BY <2>1, <2>2
<1>15. ASSUME NEW q \in Procs, NEW x \in Paths, Delete(q, x) PROVE PlanCovers'
  BY <1>15 DEF Delete, TypeOK
<1>16. ASSUME NEW q \in Procs, NEW x \in Paths, DeleteFails(q, x) PROVE PlanCovers'
  BY <1>16 DEF DeleteFails, TypeOK
<1>17. ASSUME NEW q \in Procs, RemoveCandidates(q) PROVE PlanCovers'
  BY <1>17 DEF RemoveCandidates, TypeOK
<1>18. ASSUME NEW q \in Procs, RemoveDirs(q) PROVE PlanCovers'
  BY <1>18 DEF RemoveDirs, Forget, TypeOK
<1> QED
  BY <1>1, <1>2, <1>3, <1>4, <1>5, <1>6, <1>7, <1>8, <1>9, <1>10, <1>11, <1>12, <1>13, <1>14, <1>15, <1>16, <1>17, <1>18 DEF Next, Environment, Cycle

\* What a cycle deletes of a torrent it fetched lies below a content directory
\* that was missing when it planned, whatever is written, moved, removed or
\* created again while it runs.
THEOREM FetchedTheorem == ASSUME Graced PROVE Spec => FetchedTorrentsSafe
<1> DEFINE A == \A q \in Procs, x \in Paths : \A t \in fetched[q] :
          Unlinks(q, x) /\ Covers(t, x) => ContentOf[t] \in Dirs \ there[q]
<1>1. Init => PlanCovers
  BY DEF Init, PlanCovers
<1>2. TypeOK /\ PlanCovers /\ [Next]_vars => PlanCovers'
  BY CoverStep
<1>3. PlanInv /\ PlanCovers /\ [Next]_vars => [A]_vars
  <2> SUFFICES ASSUME PlanInv, PlanCovers, Next, NEW q \in Procs, NEW x \in Paths, NEW t \in fetched[q],
                      Unlinks(q, x), Covers(t, x)
               PROVE  ContentOf[t] \in Dirs \ there[q]
    BY DEF PlanInv, TypeOK
  <2>1. Delete(q, x)
    BY OnlyDeleteUnlinks DEF PlanInv
  <2>2. ~Protects(plan[q], x) /\ ContentOf[t] \in plan[q] \cup (Dirs \ there[q])
    BY <2>1 DEF Delete, PlanInv, SelectedUnprotected, PlanCovers
  <2> QED
    BY <2>2 DEF Covers, Protects
<1>4. Spec => []PlanInv
  BY PlanInductive
<1> QED
  BY <1>1, <1>2, <1>3, <1>4, TypeCorrect, PTL DEF Spec, FetchedTorrentsSafe

-----------------------------------------------------------------------------
(* Extracted media.                                                        *)

\* One process extracts, and no one-shot command: the others are dry runs.  An
\* output recorded by anybody else after a plan was read is in that plan too late.
SoleExtractor == OneShots = {} /\ \A p, q \in Procs \ DryRuns : p = q

\* Past its extraction pass, a process's plan tracks all the pass produced and,
\* if the process deletes at all, every output whose window lasts.
Past(q) == phase[q] \notin {"idle", "plan", "extract"}
FreshPlanned == \A q \in Procs : Past(q) => fresh[q] \subseteq plan[q]
OutputsPlanned ==
    \A q \in Procs \ DryRuns, x \in Paths :
        Past(q) /\ outs[x] \notin {None, ProtectSeconds} => x \in plan[q]
DryRunsIdle == \A q \in DryRuns : elig[q] = {}
KeepInv == FreshPlanned /\ OutputsPlanned /\ DryRunsIdle

\* Every step preserves it.
LEMMA KeepStep ==
    ASSUME SoleExtractor, TypeOK, KeepInv, [Next]_vars PROVE KeepInv'
<1> USE DEF fsVars, dbVars, procVars, KeepInv, FreshPlanned, OutputsPlanned, DryRunsIdle, Past
<1>0. DryRuns \subseteq Procs
  BY CleanerAssumption
<1>1. CASE UNCHANGED vars
  BY <1>1 DEF vars, TypeOK
<1>2. CASE Tick
  <2>1. \A x \in Paths : outs'[x] \notin {None, ProtectSeconds} => outs[x] \notin {None, ProtectSeconds}
    BY <1>2 DEF Tick, Older
  <2> QED
    BY <1>2, <2>1 DEF Tick, TypeOK
<1>3. ASSUME NEW x \in Paths, Write(x) \/ MoveIn(x) \/ Disappear(x) PROVE KeepInv'
  BY <1>3 DEF Write, MoveIn, Disappear, TypeOK
<1>4. ASSUME NEW d \in Dirs, MakeDir(d) \/ DropDir(d) PROVE KeepInv'
  BY <1>4 DEF MakeDir, DropDir, TypeOK
<1>5. ASSUME NEW t \in Torrents, AddTorrent(t) \/ RemoveTorrent(t) PROVE KeepInv'
  BY <1>5 DEF AddTorrent, RemoveTorrent, TypeOK
<1>6. ASSUME NEW x \in OneShots, OneShotWrites(x) \/ OneShotRecords(x) PROVE KeepInv'
  BY <1>6 DEF SoleExtractor
<1>7. ASSUME NEW q \in Procs, Crash(q) PROVE KeepInv'
  BY <1>0, <1>7 DEF Crash, Forget, TypeOK
<1>8. ASSUME NEW q \in Procs, Fetch(q) PROVE KeepInv'
  BY <1>8 DEF Fetch, TypeOK
<1>9. ASSUME NEW q \in Procs, Plan(q) PROVE KeepInv'
  BY <1>9 DEF Plan, TypeOK
<1>10. ASSUME NEW q \in Procs, NEW x \in Media, Extract(q, x) PROVE KeepInv'
  <2>1. \A p \in Procs : Past(p) => p # q /\ fresh'[p] = fresh[p]
    BY <1>10 DEF Extract, TypeOK
  <2>2. \A p \in Procs \ DryRuns : ~Past(p)
    BY <1>10, <2>1 DEF Extract, SoleExtractor
  <2> QED
    BY <1>10, <2>1, <2>2 DEF Extract
<1>11. ASSUME NEW q \in Procs, ReadProtected(q) PROVE KeepInv'
  <2> DEFINE live == {x \in Paths : outs[x] # None /\ outs[x] < ProtectSeconds}
  <2>1. /\ plan'[q] = plan[q] \cup live \cup fresh[q] /\ phase'[q] = "scan"
        /\ \A p \in Procs \ {q} : plan'[p] = plan[p] /\ phase'[p] = phase[p]
        /\ UNCHANGED <<fresh, elig>>
    BY <1>11 DEF ReadProtected, TypeOK
  <2>2. FreshPlanned' /\ DryRunsIdle'
    BY <2>1
  <2>3. CASE q \in DryRuns
    <3>1. outs' = outs
      BY <1>11, <2>3 DEF ReadProtected
    <3> QED
      BY <2>1, <2>2, <2>3, <3>1
  <2>4. CASE q \notin DryRuns
    <3>1. outs' = [x \in Paths |-> IF x \in live THEN outs[x] ELSE None]
      BY <1>11, <2>4 DEF ReadProtected
    <3>2. \A x \in Paths : outs'[x] # None => x \in plan'[q]
      BY <2>1, <3>1
    <3>3. OutputsPlanned'
      BY <2>4, <3>2 DEF SoleExtractor
    <3> QED
      BY <2>2, <3>3
  <2> QED
    BY <2>3, <2>4
<1>12. ASSUME NEW q \in Procs, Scan(q) PROVE KeepInv'
  BY <1>12 DEF Scan, TypeOK
<1>13. ASSUME NEW q \in Procs, Sync(q) PROVE KeepInv'
  BY <1>13 DEF Sync, TypeOK
<1>14. ASSUME NEW q \in Procs, Select(q) PROVE KeepInv'
  <2>1. UNCHANGED outs /\ \A p \in Procs \ {q} : /\ phase'[p] = phase[p] /\ plan'[p] = plan[p]
                                                /\ fresh'[p] = fresh[p] /\ elig'[p] = elig[p]
    BY <1>14 DEF Select, Forget, TypeOK
  <2>2. CASE q \in DryRuns
    <3>1. phase'[q] = "idle" /\ elig'[q] = {}
      BY <1>14, <2>2 DEF Select, Forget, TypeOK
    <3> QED
      BY <1>0, <2>1, <3>1
  <2>3. CASE q \notin DryRuns
    <3>1. UNCHANGED <<plan, fresh>> /\ phase[q] = "select"
      BY <1>14, <2>3 DEF Select
    <3> QED
      BY <1>0, <2>1, <2>3, <3>1
  <2> QED
    BY <2>2, <2>3
<1>15. ASSUME NEW q \in Procs, NEW x \in Paths, Delete(q, x) PROVE KeepInv'
  BY <1>0, <1>15 DEF Delete, TypeOK
<1>16. ASSUME NEW q \in Procs, NEW x \in Paths, DeleteFails(q, x) PROVE KeepInv'
  BY <1>0, <1>16 DEF DeleteFails, TypeOK
<1>17. ASSUME NEW q \in Procs, RemoveCandidates(q) PROVE KeepInv'
  BY <1>17 DEF RemoveCandidates, TypeOK
<1>18. ASSUME NEW q \in Procs, RemoveDirs(q) PROVE KeepInv'
  BY <1>0, <1>18 DEF RemoveDirs, Forget, TypeOK
<1> QED
  BY <1>1, <1>2, <1>3, <1>4, <1>5, <1>6, <1>7, <1>8, <1>9, <1>10, <1>11, <1>12, <1>13, <1>14, <1>15, <1>16, <1>17, <1>18 DEF Next, Environment, Cycle

\* When one process extracts, no cycle deletes media that a result of its own pass
\* names or whose protection window lasts, whether the ledger recorded it or not
\* and however many dry runs share the tables.
THEOREM ExtractedTheorem == ASSUME SoleExtractor, Graced PROVE Spec => ExtractedMediaKept
<1> DEFINE A == \A q \in Procs, x \in Paths :
          Unlinks(q, x) => x \notin fresh[q] /\ outs[x] \in {None, ProtectSeconds}
<1>1. Init => KeepInv
  BY CleanerAssumption DEF Init, KeepInv, FreshPlanned, OutputsPlanned, DryRunsIdle, Past
<1>2. TypeOK /\ KeepInv /\ [Next]_vars => KeepInv'
  BY KeepStep
<1>3. PlanInv /\ KeepInv /\ [Next]_vars => [A]_vars
  <2> SUFFICES ASSUME PlanInv, KeepInv, Next, NEW q \in Procs, NEW x \in Paths, Unlinks(q, x)
               PROVE  x \notin fresh[q] /\ outs[x] \in {None, ProtectSeconds}
    OBVIOUS
  <2>1. Delete(q, x)
    BY OnlyDeleteUnlinks DEF PlanInv
  <2>2. x \notin plan[q] /\ q \notin DryRuns /\ Past(q)
    BY <2>1 DEF Delete, PlanInv, SelectedUnprotected, Protects, KeepInv, DryRunsIdle, Past
  <2> QED
    BY <2>2 DEF KeepInv, FreshPlanned, OutputsPlanned
<1>4. Spec => []PlanInv
  BY PlanInductive
<1> QED
  BY <1>1, <1>2, <1>3, <1>4, TypeCorrect, PTL DEF Spec, ExtractedMediaKept

=============================================================================
