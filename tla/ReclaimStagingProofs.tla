------------------------ MODULE ReclaimStagingProofs ------------------------
(***************************************************************************)
(* Proofs about ReclaimStaging: a refused reclaim leaves the copy whole,   *)
(* no staged file is silent while audit writes succeed, and the sweep      *)
(* removes no sole survivor while nothing but failures and crashes of the  *)
(* server happens.                                                         *)
(***************************************************************************)
EXTENDS ReclaimStaging, TLAPS

LEMMA Bounds == /\ N \in Nat /\ N >= 1 /\ MaxFile \in Nat /\ MaxFile >= N
                /\ LongNames \subseteq Parts
BY StagingAssumption

Verdicts == {"none", "taken", "refused", "committed"}
TreeTypes == /\ orig \in [Parts -> 0..MaxFile] /\ stage \in [Parts -> 0..MaxFile]
             /\ made \in 0..MaxFile
TrailTypes == /\ evidence \subseteq Parts /\ noted \subseteq Parts /\ missed \subseteq Parts
              /\ unlogged \subseteq Parts
              /\ verdict \in [Files -> Verdicts] /\ faults \subseteq Faults
WhereTypes == /\ phase \in {"down", "idle", "inert"} \cup SweepPhases \cup ReclaimPhases
              /\ pos \in 0..N /\ (phase # "rollback" => pos # 0)
RowTypes == dry \in BOOLEAN /\ todo \subseteq Parts /\ buf \subseteq Kinds \X Parts

LEMMA TypeParts == TypeOK <=> TreeTypes /\ TrailTypes /\ WhereTypes /\ RowTypes
BY DEF TypeOK, TreeTypes, TrailTypes, WhereTypes, RowTypes, Verdicts

\* The initial state has its types.
LEMMA TypeInit == Init => TypeOK
<1> SUFFICES ASSUME Init PROVE TypeOK
  OBVIOUS
<1>1. TreeTypes
  BY Bounds DEF Init, TreeTypes, Parts
<1>2. TrailTypes
  BY DEF Init, TrailTypes, Verdicts
<1>3. WhereTypes
  BY Bounds DEF Init, WhereTypes
<1>4. RowTypes
  BY DEF Init, RowTypes
<1> QED
  BY <1>1, <1>2, <1>3, <1>4, TypeParts

\* A part is in hand in every phase that reads pos, except at the end of a rollback.
LEMMA InHand == TypeOK /\ (phase # "rollback" \/ pos > 0) => pos \in Parts
BY Bounds DEF TypeOK, Parts

LEMMA TreeStep == TypeOK /\ Next => TreeTypes'
<1> SUFFICES ASSUME TypeOK, Next PROVE TreeTypes'
  OBVIOUS
<1> USE DEF TreeTypes, TypeOK
<1>1. ASSUME NEW p \in Parts, Recreate(p) PROVE TreeTypes'
  <2>1. made + 1 \in 0..MaxFile
    BY <1>1, Bounds DEF Recreate
  <2> QED
    BY <1>1, <2>1 DEF Recreate
<1>2. ASSUME NEW p \in Parts, HandRemove(p) \/ SweepRemoves(p) PROVE TreeTypes'
  BY <1>2, Bounds DEF HandRemove, SweepRemoves
<1>3. CASE Stage
  <2>1. pos \in Parts
    BY <1>3, InHand DEF Stage
  <2> QED
    BY <1>3, <2>1, Bounds DEF Stage
<1>4. CASE Purge
  <2>1. pos \in Parts /\ stage' = [stage EXCEPT ![pos] = 0] /\ orig' = orig /\ made' = made
    BY <1>4, InHand DEF Purge
  <2> QED
    BY <2>1, Bounds
<1>5. CASE RollbackRenames \/ SweepRestores
  <2>1. pos \in Parts /\ Rename(pos) /\ made' = made
    BY <1>5, InHand DEF RollbackRenames, SweepRestores
  <2> QED
    BY <2>1, Bounds DEF Rename
<1>6. UNCHANGED tree => TreeTypes'
  BY DEF tree
<1> QED
  BY <1>1, <1>2, <1>3, <1>4, <1>5, <1>6 DEF Next, Reclaim, Sweep, Crash, Start, StandDown, SweepAborts,
    Validate, StageFails, PurgeFails, RollbackBlocked, RollbackChecks, RollbackFails, Refuse, Report,
    WriteAudit, SweepSkips, SweepWouldRemove, SweepChecks, RestoreFails, Serve

LEMMA TrailStep == TypeOK /\ Next => TrailTypes'
<1> SUFFICES ASSUME TypeOK, Next PROVE TrailTypes'
  OBVIOUS
<1>0. TrailTypes
  BY TypeParts
<1> USE DEF TrailTypes
<1>1. ASSUME NEW p \in Parts, HandRemove(p) \/ SweepChecks(p) \/ SweepRemoves(p) PROVE TrailTypes'
  BY <1>0, <1>1 DEF HandRemove, SweepChecks, SweepRemoves, GoesWrong
<1>2. CASE Crash \/ StandDown \/ \E d \in BOOLEAN : Start(d)
  BY <1>0, <1>2 DEF Crash, GoesWrong, StandDown, Start, Siblings
<1>8. CASE SweepAborts
  BY <1>0, <1>8 DEF SweepAborts, GoesWrong, Of, TypeOK
<1>3. CASE Validate
  BY <1>0, <1>3 DEF Validate, Verdicts
<1>4. CASE Purge
  <2>1. pos \in Parts
    BY <1>4, InHand DEF Purge
  <2> QED
    BY <1>0, <1>4, <2>1 DEF Purge, Verdicts
<1>5. CASE RollbackRenames \/ SweepRestores
  BY <1>0, <1>5 DEF RollbackRenames, SweepRestores, Rename
<1>6. CASE Refuse \/ Report \/ Serve
  <2>1. WriteAudit
    BY <1>6 DEF Refuse, Report, Serve
  <2>2. verdict' \in [Files -> Verdicts]
    BY <1>0, <1>6 DEF Refuse, Report, Serve, Verdicts
  <2>3. Of("leftover") \subseteq Parts /\ Of("orphan") \subseteq Parts /\ Of("skipped") \subseteq Parts
    BY DEF Of
  <2> QED
    BY <1>0, <2>1, <2>2, <2>3 DEF WriteAudit, Flush, GoesWrong
<1>7. UNCHANGED trail => TrailTypes'
  BY <1>0 DEF trail
<1> QED
  BY <1>1, <1>2, <1>3, <1>4, <1>5, <1>6, <1>7, <1>8 DEF Next, Reclaim, Sweep, Recreate, Stage, StageFails,
    PurgeFails, RollbackBlocked, RollbackChecks, RollbackFails, SweepSkips, SweepWouldRemove, RestoreFails,
    trail

LEMMA WhereStep == TypeOK /\ Next => WhereTypes'
<1> SUFFICES ASSUME TypeOK, Next PROVE WhereTypes'
  OBVIOUS
<1> USE Bounds DEF WhereTypes, ReclaimPhases, SweepPhases
<1>0. pos \in 0..N /\ (phase # "rollback" => pos # 0) /\ WhereTypes
  BY TypeParts
<1>1. CASE Stage
  BY <1>0, <1>1 DEF Stage
<1>2. CASE StageFails \/ Purge \/ PurgeFails
  BY <1>0, <1>2 DEF StageFails, Purge, PurgeFails, RollBackFrom
<1>3. CASE RollbackBlocked \/ RollbackRenames \/ RollbackFails
  <2>1. phase' = "rollback" /\ pos' = pos - 1 /\ pos > 0
    BY <1>0, <1>3 DEF RollbackBlocked, RollbackRenames, RollbackFails, RolledBack
  <2> QED
    BY <1>0, <2>1
<1>4. CASE RollbackChecks
  BY <1>0, <1>4 DEF RollbackChecks
<1>5. CASE Crash \/ Validate \/ Refuse \/ Report \/ Serve
  BY <1>0, <1>5 DEF Crash, Validate, Refuse, Report, Serve, WriteAudit
<1>6. CASE StandDown \/ SweepAborts \/ \E d \in BOOLEAN : Start(d)
  BY <1>0, <1>6 DEF Start, StandDown, SweepAborts
<1>7. ASSUME NEW p \in Parts, Recreate(p) \/ HandRemove(p) PROVE WhereTypes'
  BY <1>0, <1>7 DEF Recreate, HandRemove, proc
<1>8. ASSUME NEW p \in Parts, SweepSkips(p) \/ SweepRemoves(p) \/ SweepWouldRemove(p) \/ SweepChecks(p)
      PROVE  WhereTypes'
  BY <1>0, <1>8 DEF SweepSkips, SweepRemoves, SweepWouldRemove, SweepChecks, Reconciled, Parts
<1>9. CASE SweepRestores \/ RestoreFails
  BY <1>0, <1>9 DEF SweepRestores, RestoreFails, Reconciled
<1> QED
  BY <1>1, <1>2, <1>3, <1>4, <1>5, <1>6, <1>7, <1>8, <1>9 DEF Next, Reclaim, Sweep

LEMMA RowStep == TypeOK /\ Next => RowTypes'
<1> SUFFICES ASSUME TypeOK, Next PROVE RowTypes'
  OBVIOUS
<1>0. RowTypes
  BY TypeParts
<1> USE DEF RowTypes
<1>1. dry' \in BOOLEAN
  BY <1>0 DEF Next, Reclaim, Sweep, Crash, Start, StandDown, SweepAborts, Recreate, HandRemove, Validate,
    Stage, StageFails, Purge, PurgeFails, RollbackBlocked, RollbackChecks, RollbackRenames, RollbackFails,
    Refuse, Report, WriteAudit, SweepSkips, SweepRemoves, SweepWouldRemove, SweepChecks, SweepRestores,
    RestoreFails, Serve, proc
<1>2. todo' \subseteq Parts
  BY <1>0 DEF Next, Reclaim, Sweep, Crash, Start, StandDown, SweepAborts, Recreate, HandRemove, Validate,
    Stage, StageFails, Purge, PurgeFails, RollbackBlocked, RollbackChecks, RollbackRenames, RollbackFails,
    Refuse, Report, WriteAudit, SweepSkips, SweepRemoves, SweepWouldRemove, SweepChecks, SweepRestores,
    RestoreFails, Serve, proc, Reconciled, Siblings
<1>3. buf' \subseteq Kinds \X Parts
  <2>1. \A k \in Kinds, p \in Parts : buf \cup {<<k, p>>} \subseteq Kinds \X Parts
    BY <1>0
  <2>2. CASE Purge \/ RollbackBlocked \/ RollbackRenames \/ RollbackFails \/ RestoreFails
    <3>1. pos \in Parts
      BY <2>2, InHand DEF Purge, RollbackBlocked, RollbackRenames, RollbackFails, RestoreFails
    <3> QED
      BY <1>0, <2>1, <2>2, <3>1 DEF Purge, RollbackBlocked, RollbackRenames, RollbackFails, RolledBack,
        RestoreFails, Reconciled, Kinds
  <2>3. CASE PurgeFails
    <3>1. {<<"leftover", p>> : p \in pos..N} \subseteq Kinds \X Parts
      BY <2>3, InHand, Bounds DEF PurgeFails, Parts, Kinds
    <3> QED
      BY <1>0, <2>3, <3>1 DEF PurgeFails
  <2>4. ASSUME NEW p \in Parts, SweepSkips(p) \/ SweepRemoves(p) \/ SweepWouldRemove(p)
        PROVE  buf' \subseteq Kinds \X Parts
    BY <2>1, <2>4 DEF SweepSkips, SweepRemoves, SweepWouldRemove, Reconciled, Kinds
  <2>5. buf' = {} \/ buf' = buf => buf' \subseteq Kinds \X Parts
    BY <1>0
  <2> QED
    BY <2>2, <2>3, <2>4, <2>5 DEF Next, Reclaim, Sweep, Crash, Start, StandDown, SweepAborts, Recreate,
      HandRemove, Validate, Stage, StageFails, RollbackChecks, Refuse, Report, WriteAudit, SweepChecks,
      SweepRestores, Reconciled, Serve, proc
<1> QED
  BY <1>1, <1>2, <1>3

LEMMA TypeStep == TypeOK /\ [Next]_vars => TypeOK'
<1> SUFFICES ASSUME TypeOK, [Next]_vars PROVE TypeOK'
  OBVIOUS
<1>1. CASE Next
  BY <1>1, TreeStep, TrailStep, WhereStep, RowStep
  DEF TypeOK, TreeTypes, TrailTypes, WhereTypes, RowTypes, Verdicts
<1>2. CASE UNCHANGED vars
  BY <1>2 DEF vars, tree, trail, proc, TypeOK
<1> QED
  BY <1>1, <1>2

\* Every variable keeps its type, for every number of parts and files.
THEOREM TypeCorrect == Spec => []TypeOK
BY TypeInit, TypeStep, PTL DEF Spec

-----------------------------------------------------------------------------
(* The strengthenings.                                                     *)

\* The files a running reclaim has taken: at their paths until they are staged,
\* at their siblings until they are deleted or restored.
Taken(f) == f # 0 /\ verdict[f] = "taken"
TakenWhole ==
    /\ phase = "stage" => \A p \in Parts : Taken(IF p < pos THEN stage[p] ELSE orig[p])
    /\ phase = "purge" /\ pos = 1 => \A p \in Parts : Taken(stage[p])
    /\ phase \in {"rollback", "renameback"} =>
         \A p \in Parts : IF p <= pos THEN Taken(stage[p]) ELSE Holds(p)

\* Parts whose sibling the process still has in hand, and will report.
Pending(p) ==
    \/ phase = "stage" /\ p < pos
    \/ phase = "purge" /\ p >= pos
    \/ phase \in {"rollback", "renameback"} /\ (p <= pos \/ <<"orphan", p>> \in buf)
    \/ phase = "flush" /\ <<"leftover", p>> \in buf
    \/ phase \in SweepPhases /\ (p \in todo \/ <<"skipped", p>> \in buf)
    \/ phase = "down"
NotedOrPending ==
    "audit" \notin faults => \A p \in Parts : stage[p] # 0 => p \in noted \cup missed \/ Pending(p)

\* A media file is in one place.
OnePlace ==
    /\ \A p \in Parts : orig[p] <= made /\ stage[p] <= made
    /\ \A p, q \in Parts : p # q /\ orig[p] # 0 => orig[p] # orig[q]
    /\ \A p, q \in Parts : p # q /\ stage[p] # 0 => stage[p] # stage[q]
    /\ \A p, q \in Parts : orig[p] # 0 => orig[p] # stage[q]

\* What the buffered rows say is so.
Committed(p) == stage[p] # 0 /\ verdict[stage[p]] = "committed"
RowsSay ==
    /\ phase = "purge" => \A p \in pos..N : stage[p] # 0 /\ (pos > 1 => Committed(p))
    /\ \A p \in Parts : /\ <<"leftover", p>> \in buf => phase = "flush" /\ Committed(p)
                        /\ <<"removed", p>> \in buf => phase \in SweepPhases /\ p \notin todo

\* Evidence is about the file at the sibling, until the sweep has removed it.
EvidenceHolds ==
    faults = {} =>
        /\ \A p \in evidence : Committed(p) \/ <<"removed", p>> \in buf
        /\ phase \in {"stage", "rollback", "renameback"} =>
             \A p \in Parts : p < pos \/ (p = pos /\ phase # "stage") => p \notin evidence
        /\ phase = "purge" => \A p \in pos..N : p \notin evidence
        /\ phase = "restore" => pos \notin evidence
-----------------------------------------------------------------------------
(* Whole or refused.                                                       *)

\* Every step keeps the taken files where they are accounted for.
LEMMA WholeStep == TypeOK /\ TakenWhole /\ [Next]_vars => TakenWhole'
<1> SUFFICES ASSUME TypeOK, TakenWhole, [Next]_vars PROVE TakenWhole'
  OBVIOUS
<1> USE DEF TakenWhole, Taken, Holds
<1>0. /\ N \in Nat /\ N >= 1 /\ pos \in 0..N /\ (phase # "rollback" => pos # 0)
      /\ \A p \in Parts : p \in Int /\ p >= 1 /\ p <= N
      /\ orig \in [Parts -> 0..MaxFile] /\ stage \in [Parts -> 0..MaxFile] /\ MaxFile \in Nat
  BY Bounds DEF TypeOK, Parts
<1>1. CASE UNCHANGED vars
  BY <1>1 DEF vars, tree, trail, proc
<1>2. CASE phase' \notin {"stage", "purge", "rollback", "renameback"}
  BY <1>2
<1>3. ASSUME NEW p \in Parts, Recreate(p) PROVE TakenWhole'
  <2>1. /\ UNCHANGED <<stage, verdict, phase, pos>> /\ orig[p] = 0
        /\ \A q \in Parts : q # p => orig'[q] = orig[q]
    BY <1>0, <1>3 DEF Recreate, trail, proc
  <2> QED
    BY <1>0, <2>1
<1>4. CASE Validate
  <2>1. /\ UNCHANGED <<orig, stage>> /\ phase' = "stage" /\ pos' = 1
        /\ \A p \in Parts : orig[p] # 0 /\ verdict'[orig[p]] = "taken"
    BY <1>0, <1>4 DEF Validate, tree, Files
  <2> QED
    BY <1>0, <2>1
<1>5. CASE Stage
  <2>1. /\ pos \in Parts /\ phase = "stage" /\ verdict' = verdict
        /\ stage' = [stage EXCEPT ![pos] = orig[pos]] /\ orig' = [orig EXCEPT ![pos] = 0]
        /\ \/ pos < N /\ phase' = "stage" /\ pos' = pos + 1
           \/ pos = N /\ phase' = "purge" /\ pos' = 1
    BY <1>0, <1>5, InHand DEF Stage, trail
  <2>2. \A p \in Parts : p <= pos => Taken(stage'[p])
    BY <1>0, <2>1
  <2>3. \A p \in Parts : p > pos => Taken(orig'[p])
    BY <1>0, <2>1
  <2> QED
    BY <1>0, <2>1, <2>2, <2>3
<1>6. CASE StageFails
  <2>1. /\ pos \in Parts /\ phase = "stage" /\ UNCHANGED <<orig, stage, verdict>>
        /\ phase' = "rollback" /\ pos' = pos - 1
    BY <1>0, <1>6, InHand DEF StageFails, RollBackFrom, tree, trail
  <2> QED
    BY <1>0, <2>1
<1>7. CASE Purge
  BY <1>0, <1>7 DEF Purge
<1>8. CASE PurgeFails
  <2>1. /\ UNCHANGED <<orig, stage, verdict>> /\ phase = "purge"
        /\ \/ pos = 1 /\ phase' = "rollback" /\ pos' = N
           \/ phase' = "flush"
    BY <1>0, <1>8 DEF PurgeFails, RollBackFrom, tree, trail
  <2> QED
    BY <1>0, <2>1 DEF Parts
<1>9. CASE RollbackBlocked \/ RollbackFails
  <2>1. /\ UNCHANGED <<orig, stage, verdict>> /\ phase \in {"rollback", "renameback"} /\ pos > 0
        /\ phase' = "rollback" /\ pos' = pos - 1
    BY <1>0, <1>9 DEF RollbackBlocked, RollbackFails, RolledBack, tree, trail
  <2> QED
    BY <1>0, <2>1
<1>10. CASE RollbackChecks
  BY <1>0, <1>10 DEF RollbackChecks, tree, trail
<1>11. CASE RollbackRenames
  <2>1. /\ pos \in Parts /\ phase = "renameback" /\ verdict' = verdict
        /\ orig' = [orig EXCEPT ![pos] = stage[pos]] /\ stage' = [stage EXCEPT ![pos] = 0]
        /\ phase' = "rollback" /\ pos' = pos - 1
    BY <1>0, <1>11, InHand DEF RollbackRenames, Rename, RolledBack
  <2> QED
    BY <1>0, <2>1
<1>12. ASSUME NEW p \in Parts, HandRemove(p) PROVE TakenWhole'
  BY <1>12 DEF HandRemove, proc
<1> QED
  BY <1>1, <1>2, <1>3, <1>4, <1>5, <1>6, <1>7, <1>8, <1>9, <1>10, <1>11, <1>12 DEF Next, Reclaim, Sweep,
    Crash, Start, StandDown, SweepAborts, Refuse, Report, WriteAudit, SweepSkips, SweepRemoves,
    SweepWouldRemove, SweepChecks, SweepRestores, RestoreFails, Reconciled, Serve

\* Whatever renames and unlinks fail and whatever appears at the paths meanwhile,
\* a reclaim that is about to report that it deleted nothing has lost no part.
THEOREM WholeTheorem == Spec => []RefusedWhole
<1>1. Init => TakenWhole
  BY DEF Init, TakenWhole
<1>2. TypeOK /\ TakenWhole => RefusedWhole
  BY Bounds DEF TypeOK, TakenWhole, RefusedWhole, Parts
<1> QED
  BY <1>1, <1>2, WholeStep, TypeCorrect, PTL DEF Spec

-----------------------------------------------------------------------------
(* No silent leftover.                                                     *)

\* Every step keeps a staged file noted, missed by the sweep, or in the hands of a
\* process that will note it, as long as no audit write has failed.
LEMMA NoteStep == TypeOK /\ NotedOrPending /\ [Next]_vars => NotedOrPending'
<1> SUFFICES ASSUME TypeOK, NotedOrPending, [Next]_vars, "audit" \notin faults',
                    NEW p \in Parts, stage'[p] # 0
             PROVE  p \in (noted \cup missed)' \/ Pending(p)'
  BY DEF NotedOrPending
<1> USE DEF SweepPhases
<1>0. /\ N \in Nat /\ N >= 1 /\ pos \in 0..N /\ p \in Int /\ p <= N /\ p >= 1
      /\ (phase # "rollback" => pos # 0) /\ stage \in [Parts -> 0..MaxFile]
  BY Bounds DEF TypeOK, Parts
<1>a. "audit" \notin faults => (stage[p] # 0 => p \in noted \cup missed \/ Pending(p))
  BY DEF NotedOrPending
<1>1. CASE UNCHANGED vars
  BY <1>a, <1>1 DEF vars, tree, trail, proc, Pending
<1>2. ASSUME NEW q \in Parts, Recreate(q) \/ HandRemove(q) PROVE p \in (noted \cup missed)' \/ Pending(p)'
  BY <1>0, <1>a, <1>2 DEF Recreate, HandRemove, GoesWrong, trail, proc, Pending
<1>3. CASE Crash \/ StandDown \/ \E d \in BOOLEAN : Start(d)
  BY <1>0, <1>3 DEF Crash, Start, StandDown, Siblings, tree, Pending
<1>16. CASE SweepAborts
  <2>1. /\ phase \in SweepPhases /\ UNCHANGED <<stage, noted>>
        /\ missed' = missed \cup todo \cup Of("skipped")
    BY <1>16 DEF SweepAborts, tree
  <2>2. "audit" \notin faults
    BY <1>16 DEF SweepAborts, GoesWrong
  <2> QED
    BY <1>a, <2>1, <2>2 DEF Pending, Of
<1>4. CASE Validate
  BY <1>a, <1>4 DEF Validate, tree, Pending
<1>5. CASE Stage
  <2>1. /\ phase = "stage" /\ UNCHANGED <<noted, missed, faults>>
        /\ p # pos => stage'[p] = stage[p]
        /\ \/ pos < N /\ phase' = "stage" /\ pos' = pos + 1
           \/ pos = N /\ phase' = "purge" /\ pos' = 1
    BY <1>0, <1>5 DEF Stage, trail
  <2> QED
    BY <1>0, <1>a, <2>1 DEF Pending
<1>6. CASE StageFails
  <2>1. /\ phase = "stage" /\ UNCHANGED <<stage, noted, missed, faults>>
        /\ phase' = "rollback" /\ pos' = pos - 1
    BY <1>0, <1>6 DEF StageFails, RollBackFrom, tree, trail
  <2> QED
    BY <1>0, <1>a, <2>1 DEF Pending
<1>7. CASE Purge
  <2>1. /\ phase = "purge" /\ UNCHANGED <<noted, missed, faults>> /\ stage' = [stage EXCEPT ![pos] = 0]
        /\ \/ pos < N /\ phase' = "purge" /\ pos' = pos + 1
           \/ pos = N /\ phase' = "flush"
    BY <1>0, <1>7 DEF Purge
  <2> QED
    BY <1>0, <1>a, <2>1 DEF Pending
<1>8. CASE PurgeFails
  <2>1. /\ phase = "purge" /\ UNCHANGED <<stage, noted, missed, faults>>
        /\ \/ phase' = "rollback" /\ pos' = N
           \/ phase' = "flush" /\ \A q \in pos..N : <<"leftover", q>> \in buf'
    BY <1>0, <1>8 DEF PurgeFails, RollBackFrom, tree, trail
  <2> QED
    BY <1>0, <1>a, <2>1 DEF Pending
<1>9. CASE RollbackBlocked \/ RollbackFails
  <2>1. /\ phase \in {"rollback", "renameback"} /\ pos > 0 /\ UNCHANGED <<stage, noted, missed, faults>>
        /\ phase' = "rollback" /\ pos' = pos - 1 /\ buf' = buf \cup {<<"orphan", pos>>}
    BY <1>0, <1>9 DEF RollbackBlocked, RollbackFails, RolledBack, tree, trail
  <2> QED
    BY <1>0, <1>a, <2>1 DEF Pending
<1>10. CASE RollbackChecks
  BY <1>0, <1>a, <1>10 DEF RollbackChecks, tree, trail, Pending
<1>11. CASE RollbackRenames
  <2>1. /\ phase = "renameback" /\ pos \in Parts /\ UNCHANGED <<buf, missed, faults>> /\ noted' = noted \ {pos}
        /\ stage' = [stage EXCEPT ![pos] = 0] /\ phase' = "rollback" /\ pos' = pos - 1
    BY <1>0, <1>11, InHand DEF RollbackRenames, RolledBack, Rename
  <2> QED
    BY <1>0, <1>a, <2>1 DEF Pending
<1>12. CASE Refuse \/ Report \/ Serve
  <2>1. /\ WriteAudit /\ UNCHANGED <<stage, missed>> /\ phase' = "idle"
        /\ \/ phase = "rollback" /\ pos = 0
           \/ phase = "flush"
           \/ phase = "sweep" /\ todo = {}
    BY <1>12 DEF Refuse, Report, Serve, WriteAudit, tree
  <2>2. Flush /\ faults' = faults
    BY <2>1 DEF WriteAudit, GoesWrong
  <2> QED
    BY <1>0, <1>a, <2>1, <2>2 DEF Flush, Of, Pending
<1>13. ASSUME NEW q \in Parts, SweepSkips(q) \/ SweepRemoves(q) \/ SweepWouldRemove(q)
       PROVE  p \in (noted \cup missed)' \/ Pending(p)'
  <2>1. /\ phase = "sweep" /\ phase' = "sweep" /\ UNCHANGED <<missed, faults>> /\ todo' = todo \ {q} /\ buf \subseteq buf'
        /\ \/ UNCHANGED <<stage, noted>> /\ <<"skipped", q>> \in buf'
           \/ stage' = [stage EXCEPT ![q] = 0] /\ noted' = noted \ {q}
    BY <1>13 DEF SweepSkips, SweepRemoves, SweepWouldRemove, ToRemove, Reconciled, tree, trail
  <2> QED
    BY <1>0, <1>a, <2>1 DEF Pending
<1>14. ASSUME NEW q \in Parts, SweepChecks(q) PROVE p \in (noted \cup missed)' \/ Pending(p)'
  BY <1>0, <1>a, <1>14 DEF SweepChecks, GoesWrong, tree, Pending
<1>15. CASE SweepRestores \/ RestoreFails
  <2>1. /\ phase = "restore" /\ phase' = "sweep" /\ pos \in Parts /\ UNCHANGED <<missed, faults>>
        /\ todo' = todo \ {pos} /\ buf \subseteq buf'
        /\ \/ UNCHANGED <<stage, noted>> /\ <<"skipped", pos>> \in buf'
           \/ stage' = [stage EXCEPT ![pos] = 0] /\ noted' = noted \ {pos}
    BY <1>15, InHand DEF SweepRestores, RestoreFails, Rename, Reconciled, tree, trail
  <2> QED
    BY <1>0, <1>a, <2>1 DEF Pending
<1> QED
  BY <1>1, <1>2, <1>3, <1>4, <1>5, <1>6, <1>7, <1>8, <1>9, <1>10, <1>11, <1>12, <1>13, <1>14, <1>15, <1>16
  DEF Next, Reclaim, Sweep

\* Across failing renames and unlinks, crashes of the server and of its sweep, no
\* staged file is left that no audit row names, except one that the sweep of the
\* running server did not see, or of which it lost the row by raising.
THEOREM LeftoverTheorem == Spec => []NoSilentLeftover
<1>1. Init => NotedOrPending
  BY DEF Init, NotedOrPending
<1>2. NotedOrPending => NoSilentLeftover
  BY DEF NotedOrPending, NoSilentLeftover, Pending, SweepPhases
<1> QED
  BY <1>1, <1>2, NoteStep, TypeCorrect, PTL DEF Spec


-----------------------------------------------------------------------------
(* Nothing is removed without evidence.                                    *)

Removal == TypeOK /\ TakenWhole /\ OnePlace /\ RowsSay /\ EvidenceHolds

\* No step makes a file be in two places: a new one has a number of its own, and
\* a rename empties the place it takes the file from.
LEMMA OnePlaceStep == TypeOK /\ OnePlace /\ [Next]_vars => OnePlace'
<1> SUFFICES ASSUME TypeOK, OnePlace, [Next]_vars PROVE OnePlace'
  OBVIOUS
<1>0. /\ orig \in [Parts -> 0..MaxFile] /\ stage \in [Parts -> 0..MaxFile]
      /\ made \in Nat /\ MaxFile \in Nat
  BY Bounds DEF TypeOK
<1> USE DEF OnePlace
<1>1. ASSUME NEW p \in Parts, Recreate(p) PROVE OnePlace'
  <2>1. /\ orig' = [orig EXCEPT ![p] = made + 1] /\ made' = made + 1 /\ stage' = stage
    BY <1>1 DEF Recreate
  <2> QED
    BY <1>0, <2>1
<1>2. ASSUME NEW p \in Parts, HandRemove(p) \/ SweepRemoves(p) PROVE OnePlace'
  <2>1. stage' = [stage EXCEPT ![p] = 0] /\ UNCHANGED <<orig, made>>
    BY <1>2 DEF HandRemove, SweepRemoves
  <2> QED
    BY <1>0, <2>1
<1>3. CASE Stage
  <2>1. /\ pos \in Parts /\ made' = made
        /\ stage' = [stage EXCEPT ![pos] = orig[pos]] /\ orig' = [orig EXCEPT ![pos] = 0]
    BY <1>3, InHand DEF Stage
  <2> QED
    BY <1>0, <2>1
<1>4. CASE Purge
  <2>1. pos \in Parts /\ stage' = [stage EXCEPT ![pos] = 0] /\ UNCHANGED <<orig, made>>
    BY <1>4, InHand DEF Purge
  <2> QED
    BY <1>0, <2>1
<1>5. CASE RollbackRenames \/ SweepRestores
  <2>1. /\ pos \in Parts /\ made' = made
        /\ orig' = [orig EXCEPT ![pos] = stage[pos]] /\ stage' = [stage EXCEPT ![pos] = 0]
    BY <1>5, InHand DEF RollbackRenames, SweepRestores, Rename
  <2> QED
    BY <1>0, <2>1
<1>6. UNCHANGED tree => OnePlace'
  BY DEF tree
<1> QED
  BY <1>1, <1>2, <1>3, <1>4, <1>5, <1>6 DEF Next, Reclaim, Sweep, Crash, Start, StandDown, SweepAborts,
    Validate, StageFails, PurgeFails, RollbackBlocked, RollbackChecks, RollbackFails, Refuse, Report,
    WriteAudit, SweepSkips, SweepWouldRemove, SweepChecks, RestoreFails, Serve, vars

\* A file whose reclaim has begun to delete stays known as such while it is staged.
LEMMA CommittedStays ==
    ASSUME TypeOK, OnePlace, [Next]_vars, NEW p \in Parts, Committed(p), stage'[p] = stage[p]
    PROVE  Committed(p)'
<1>0. stage[p] \in Files /\ verdict[stage[p]] = "committed" /\ stage'[p] # 0
  BY Bounds DEF TypeOK, Committed, Files
<1>1. CASE Validate
  <2>1. \A q \in Parts : orig[q] # stage[p]
    BY <1>0 DEF OnePlace, Committed
  <2> QED
    BY <1>0, <1>1, <2>1 DEF Validate, Committed
<1>2. CASE Purge \/ Refuse
  <2>1. verdict'[stage[p]] = "committed"
    <3>1. CASE Purge
      BY <1>0, <3>1 DEF Purge
    <3>2. CASE Refuse
      BY <1>0, <3>2 DEF Refuse
    <3> QED BY <1>2, <3>1, <3>2
  <2> QED
    BY <1>0, <2>1 DEF Committed
<1>3. verdict' = verdict => Committed(p)'
  BY <1>0 DEF Committed
<1> QED
  BY <1>1, <1>2, <1>3 DEF Next, Reclaim, Sweep, Crash, Start, StandDown, SweepAborts, Recreate,
    HandRemove, Stage, StageFails, PurgeFails, RollbackBlocked, RollbackChecks, RollbackRenames,
    RollbackFails, Report, SweepSkips, SweepRemoves, SweepWouldRemove, SweepChecks, SweepRestores,
    RestoreFails, Serve, vars, trail

\* While files are purged, what is left of the copy is staged, and committed once
\* the first is deleted; so are the leftovers the reclaim will report; and a
\* sibling the sweep has removed is not one it still has to reconcile.
LEMMA RowsStep == Removal /\ [Next]_vars => RowsSay'
<1> SUFFICES ASSUME Removal, [Next]_vars PROVE RowsSay'
  OBVIOUS
<1> USE DEF SweepPhases
<1>0. /\ TypeOK /\ TakenWhole /\ OnePlace /\ N \in Nat /\ pos \in 0..N /\ (phase # "rollback" => pos # 0)
      /\ orig \in [Parts -> 0..MaxFile] /\ stage \in [Parts -> 0..MaxFile]
      /\ verdict \in [Files -> Verdicts]
      /\ \A p \in Parts : p \in Int /\ p >= 1 /\ p <= N
  <2>1. TypeOK /\ TakenWhole /\ OnePlace
    BY DEF Removal
  <2>2. /\ pos \in 0..N /\ (phase # "rollback" => pos # 0)
        /\ orig \in [Parts -> 0..MaxFile] /\ stage \in [Parts -> 0..MaxFile]
        /\ verdict \in [Files -> Verdicts]
    BY <2>1 DEF TypeOK, Verdicts
  <2>3. N \in Nat /\ \A p \in Parts : p \in Int /\ p >= 1 /\ p <= N
    BY Bounds DEF Parts
  <2> QED
    BY <2>1, <2>2, <2>3
<1>a. /\ phase = "purge" => \A p \in Parts : p >= pos => stage[p] # 0 /\ (pos > 1 => Committed(p))
      /\ \A p \in Parts : /\ <<"leftover", p>> \in buf => phase = "flush" /\ Committed(p)
                          /\ <<"removed", p>> \in buf => phase \in SweepPhases /\ p \notin todo
  BY <1>0 DEF Removal, RowsSay, Parts
<1>1. ASSUME phase' = "purge", NEW p \in Parts, p >= pos' PROVE stage'[p] # 0 /\ (pos' > 1 => Committed(p)')
  <2>1. CASE Stage
    <3>1. /\ pos = N /\ pos' = 1 /\ phase = "stage" /\ stage' = [stage EXCEPT ![pos] = orig[pos]]
      BY <1>0, <1>1, <2>1 DEF Stage
    <3>2. (p < pos => stage[p] # 0) /\ orig[pos] # 0
      BY <1>0, <3>1, InHand DEF TakenWhole, Taken
    <3> QED
      BY <1>0, <3>1, <3>2
  <2>2. CASE Purge
    <3>1. /\ phase = "purge" /\ pos \in Parts /\ pos' = pos + 1 /\ stage' = [stage EXCEPT ![pos] = 0]
          /\ verdict' = [f \in Files |-> IF \E q \in Parts : stage[q] = f THEN "committed" ELSE verdict[f]]
      BY <1>0, <1>1, <2>2, InHand DEF Purge
    <3>2. stage[p] # 0 /\ stage'[p] = stage[p] /\ stage[p] \in Files
      BY <1>0, <1>a, <1>1, <3>1, Bounds DEF Files
    <3> QED
      BY <3>1, <3>2 DEF Committed
  <2>3. CASE phase = "purge" /\ UNCHANGED <<stage, verdict, pos>>
    BY <1>a, <1>1, <2>3 DEF Committed
  <2> QED
    BY <1>1, <2>1, <2>2, <2>3 DEF Next, Reclaim, Sweep, Crash, Start, StandDown, SweepAborts, Validate,
      Recreate, HandRemove, StageFails, RollBackFrom, PurgeFails, RollbackBlocked, RollbackChecks,
      RollbackRenames, RollbackFails, RolledBack, Refuse, Report, WriteAudit, SweepSkips, SweepRemoves,
      SweepWouldRemove, SweepChecks, SweepRestores, RestoreFails, Reconciled, Serve, vars, tree, trail,
      proc
<1>2. ASSUME NEW p \in Parts, <<"leftover", p>> \in buf' PROVE phase' = "flush" /\ Committed(p)'
  <2>1. CASE PurgeFails
    <3>1. phase = "purge" /\ UNCHANGED <<stage, verdict>> /\ <<"leftover", p>> \notin buf
      BY <1>a, <2>1 DEF PurgeFails, tree, trail
    <3>2. /\ pos # 1 /\ phase' = "flush"
          /\ <<"leftover", p>> \in {<<"leftover", q>> : q \in pos..N}
      BY <1>2, <2>1, <3>1 DEF PurgeFails
    <3>3. pos > 1 /\ p >= pos
      BY <1>0, <3>1, <3>2
    <3> QED
      BY <1>a, <3>1, <3>2, <3>3 DEF Committed
  <2>2. CASE ~PurgeFails
    <3>1. <<"leftover", p>> \in buf
      BY <1>2, <2>2 DEF Next, Reclaim, Sweep, Crash, Start, StandDown, SweepAborts, Validate, Recreate,
        HandRemove, Stage, StageFails, Purge, RollbackBlocked, RollbackChecks, RollbackRenames,
        RollbackFails, RolledBack, Refuse, Report, WriteAudit, SweepSkips, SweepRemoves, SweepWouldRemove,
        SweepChecks, SweepRestores, RestoreFails, Reconciled, Serve, vars, proc
    <3>2. phase = "flush" /\ Committed(p)
      BY <1>a, <3>1
    <3>3. phase' = "flush" /\ stage' = stage
      BY <1>2, <2>2, <3>2 DEF Next, Reclaim, Sweep, Crash, Start, StandDown, SweepAborts, Validate,
        Recreate, HandRemove, Stage, StageFails, Purge, RollbackBlocked, RollbackChecks, RollbackRenames,
        RollbackFails, Refuse, Report, WriteAudit, SweepSkips, SweepRemoves, SweepWouldRemove,
        SweepChecks, SweepRestores, RestoreFails, ToRemove, Serve, vars, tree, proc
    <3> QED
      BY <1>0, <3>2, <3>3, CommittedStays
  <2> QED
    BY <2>1, <2>2
<1>3. ASSUME NEW p \in Parts, <<"removed", p>> \in buf' PROVE phase' \in SweepPhases /\ p \notin todo'
  <2>1. CASE <<"removed", p>> \in buf
    <3>1. phase \in SweepPhases /\ p \notin todo
      BY <1>a, <2>1
    <3> QED
      BY <1>3, <3>1 DEF Next, Reclaim, Sweep, Crash, Start, StandDown, SweepAborts, Validate, Recreate,
        HandRemove, Stage, StageFails, Purge, PurgeFails, RollbackBlocked, RollbackChecks,
        RollbackRenames, RollbackFails, Refuse, Report, WriteAudit, SweepSkips, SweepRemoves,
        SweepWouldRemove, ToRemove, SweepChecks, SweepRestores, RestoreFails, Reconciled, Serve, vars,
        proc
  <2>2. CASE <<"removed", p>> \notin buf
    <3>1. SweepRemoves(p)
      BY <1>3, <2>2 DEF Next, Reclaim, Sweep, Crash, Start, StandDown, SweepAborts, Validate, Recreate,
        HandRemove, Stage, StageFails, Purge, PurgeFails, RollbackBlocked, RollbackChecks,
        RollbackRenames, RollbackFails, RolledBack, Refuse, Report, WriteAudit, SweepSkips, SweepRemoves,
        SweepWouldRemove, SweepChecks, SweepRestores, RestoreFails, Reconciled, Serve, vars, proc
    <3> QED
      BY <3>1 DEF SweepRemoves, Reconciled
  <2> QED
    BY <2>1, <2>2
<1>4. phase' = "purge" => pos' \in 1..N
  BY <1>0, TypeStep DEF TypeOK
<1>5. phase' = "purge" => \A p \in pos'..N : stage'[p] # 0 /\ (pos' > 1 => Committed(p)')
  BY <1>0, <1>1, <1>4 DEF Parts
<1> QED
  BY <1>2, <1>3, <1>5 DEF RowsSay

\* Until something goes wrong that is no failing rename or unlink and no crash of
\* the server, evidence is about the file at the sibling, and a part in the hands
\* of a reclaim has none.
LEMMA EvidenceStep == Removal /\ [Next]_vars => EvidenceHolds'
<1> SUFFICES ASSUME Removal, [Next]_vars, faults' = {} PROVE EvidenceHolds'
  BY DEF EvidenceHolds
<1> USE DEF SweepPhases
<1>z. TypeOK /\ OnePlace
  BY DEF Removal
<1>0. /\ TypeOK /\ OnePlace /\ N \in Nat /\ N >= 1 /\ pos \in 0..N /\ (phase # "rollback" => pos # 0)
      /\ \A p \in Parts : p \in Int /\ p >= 1 /\ p <= N
      /\ stage \in [Parts -> 0..MaxFile] /\ evidence \subseteq Parts
  <2>1. \A p \in Parts : p \in Int /\ p >= 1 /\ p <= N
    BY Bounds DEF Parts
  <2> QED
    BY <1>z, <2>1, Bounds DEF TypeOK
<1>a. faults = {}
  BY DEF Next, Reclaim, Sweep, Crash, Start, StandDown, SweepAborts, Validate, Recreate, HandRemove,
    Stage, StageFails, Purge, PurgeFails, RollbackBlocked, RollbackChecks, RollbackRenames, RollbackFails,
    Refuse, Report, WriteAudit, SweepSkips, SweepRemoves, SweepWouldRemove, SweepChecks, SweepRestores,
    RestoreFails, Serve, GoesWrong, vars, trail
<1>b. /\ \A p \in evidence : Committed(p) \/ <<"removed", p>> \in buf
      /\ phase \in {"stage", "rollback", "renameback"} =>
             \A p \in Parts : p < pos \/ (p = pos /\ phase # "stage") => p \notin evidence
      /\ phase = "purge" => \A p \in Parts : p >= pos => p \notin evidence
      /\ phase = "restore" => pos \notin evidence
  BY <1>0, <1>a DEF Removal, EvidenceHolds, Parts
<1>c. \A p \in Parts : /\ <<"leftover", p>> \in buf => phase = "flush" /\ Committed(p)
                       /\ <<"removed", p>> \in buf => phase \in SweepPhases /\ p \notin todo
  BY DEF Removal, RowsSay
<1>1. ASSUME NEW p \in evidence' PROVE Committed(p)' \/ <<"removed", p>> \in buf'
  <2>1. CASE Refuse \/ Report \/ Serve
    <3>0. p \in Parts
      BY <1>1, <1>z, TypeStep DEF TypeOK
    <3>1. stage' = stage /\ Flush
      BY <2>1 DEF Refuse, Report, Serve, WriteAudit, GoesWrong, tree
    <3>2. Committed(p)
      BY <1>0, <1>b, <1>c, <3>1 DEF Flush, Of
    <3> QED
      BY <1>z, <3>0, <3>1, <3>2, CommittedStays
  <2>2. CASE evidence' = evidence /\ ~(Refuse \/ Report \/ Serve)
    <3>1. p \in evidence /\ p \in Parts
      BY <1>0, <2>2
    <3>2. ASSUME Committed(p), stage'[p] = stage[p] PROVE Committed(p)'
      BY <1>0, <3>1, <3>2, CommittedStays
    <3>3. CASE <<"removed", p>> \in buf
      <4>1. phase \in SweepPhases
        BY <1>c, <3>1, <3>3
      <4> QED
        BY <2>2, <3>3, <4>1, <1>a DEF Next, Reclaim, Sweep, Crash, Start, StandDown, SweepAborts,
          Validate, Recreate, HandRemove, Stage, StageFails, Purge, PurgeFails, RollbackBlocked,
          RollbackChecks, RollbackRenames, RollbackFails, GoesWrong, SweepSkips, SweepRemoves,
          SweepWouldRemove, SweepChecks, SweepRestores, RestoreFails, Reconciled, vars, trail, proc
    <3>4. CASE Committed(p)
      <4>0. stage[p] # 0
        BY <3>4 DEF Committed
      <4>1. stage'[p] = stage[p] \/ <<"removed", p>> \in buf'
        <5>1. ASSUME NEW q \in Parts, HandRemove(q) PROVE FALSE
          BY <5>1, <1>a DEF HandRemove, GoesWrong
        <5>2. ASSUME NEW q \in Parts, SweepRemoves(q) PROVE stage'[p] = stage[p] \/ <<"removed", p>> \in buf'
          BY <1>0, <3>1, <5>2 DEF SweepRemoves, Reconciled
        <5>3. CASE Stage
          <6>1. pos # p /\ stage' = [stage EXCEPT ![pos] = orig[pos]]
            BY <4>0, <5>3 DEF Stage
          <6> QED
            BY <1>0, <3>1, <6>1
        <5>4. CASE Purge
          <6>1. pos # p /\ stage' = [stage EXCEPT ![pos] = 0]
            BY <1>0, <1>b, <3>1, <5>4 DEF Purge
          <6> QED
            BY <1>0, <3>1, <6>1
        <5>5. CASE RollbackRenames \/ SweepRestores
          <6>1. pos # p /\ stage' = [stage EXCEPT ![pos] = 0]
            BY <1>0, <1>b, <3>1, <5>5 DEF RollbackRenames, SweepRestores, Rename
          <6> QED
            BY <1>0, <3>1, <6>1
        <5>6. stage' = stage => stage'[p] = stage[p]
          OBVIOUS
        <5> QED
          BY <5>1, <5>2, <5>3, <5>4, <5>5, <5>6 DEF Next, Reclaim, Sweep, Crash, Start, StandDown,
            SweepAborts, Validate, Recreate, StageFails, PurgeFails, RollbackBlocked, RollbackChecks,
            RollbackFails, Refuse, Report, WriteAudit, SweepSkips, SweepWouldRemove, SweepChecks,
            RestoreFails, Serve, vars, tree
      <4> QED
        BY <3>2, <3>4, <4>1
    <3> QED
      BY <1>b, <3>1, <3>3, <3>4
  <2> QED
    BY <2>1, <2>2 DEF Next, Reclaim, Sweep, Crash, Start, StandDown, SweepAborts, Validate, Recreate,
      HandRemove, Stage, StageFails, Purge, PurgeFails, RollbackBlocked, RollbackChecks, RollbackRenames,
      RollbackFails, Rename, SweepSkips, SweepRemoves, SweepWouldRemove, SweepChecks, SweepRestores,
      RestoreFails, vars, trail
<1>2. ASSUME phase' \in {"stage", "rollback", "renameback"}, NEW p \in Parts,
             p < pos' \/ (p = pos' /\ phase' # "stage")
      PROVE  p \notin evidence'
  <2>1. evidence' = evidence
    BY <1>2 DEF Next, Reclaim, Sweep, Crash, Start, StandDown, SweepAborts, Validate, Recreate,
      HandRemove, Stage, StageFails, Purge, PurgeFails, RollbackBlocked, RollbackChecks, RollbackRenames,
      RollbackFails, Rename, Refuse, Report, WriteAudit, SweepSkips, SweepRemoves, SweepWouldRemove,
      SweepChecks, SweepRestores, RestoreFails, Serve, Reconciled, vars, trail
  <2>2. CASE Stage
    <3>1. phase = "stage" /\ stage[pos] = 0 /\ phase' = "stage" /\ pos' = pos + 1
      BY <1>2, <2>2 DEF Stage
    <3>2. pos \notin evidence
      BY <1>0, <1>b, <1>c, <3>1 DEF Committed
    <3> QED
      BY <1>0, <1>b, <1>2, <2>1, <3>1, <3>2
  <2>3. CASE Validate
    BY <1>0, <1>2, <2>3 DEF Validate
  <2>4. CASE StageFails \/ PurgeFails
    BY <1>0, <1>b, <1>2, <2>1, <2>4 DEF StageFails, PurgeFails, RollBackFrom
  <2>5. CASE RollbackBlocked \/ RollbackRenames \/ RollbackFails
    <3>1. phase \in {"rollback", "renameback"} /\ phase' = "rollback" /\ pos' = pos - 1
      BY <2>5 DEF RollbackBlocked, RollbackRenames, RollbackFails, RolledBack
    <3> QED
      BY <1>0, <1>b, <1>2, <2>1, <3>1
  <2>6. CASE RollbackChecks
    BY <1>0, <1>b, <1>2, <2>1, <2>6 DEF RollbackChecks
  <2>7. UNCHANGED <<phase, pos>> => p \notin evidence'
    BY <1>b, <1>2, <2>1
  <2> QED
    BY <1>2, <2>2, <2>3, <2>4, <2>5, <2>6, <2>7 DEF Next, Reclaim, Sweep, Crash, Start, StandDown,
      SweepAborts, Recreate, HandRemove, Purge, Refuse, Report, WriteAudit, SweepSkips, SweepRemoves,
      SweepWouldRemove, SweepChecks, SweepRestores, RestoreFails, Serve, Reconciled, vars, proc
<1>3. ASSUME phase' = "purge", NEW p \in Parts, p >= pos' PROVE p \notin evidence'
  <2>1. evidence' = evidence
    BY <1>3 DEF Next, Reclaim, Sweep, Crash, Start, StandDown, SweepAborts, Validate, Recreate,
      HandRemove, Stage, StageFails, Purge, PurgeFails, RollbackBlocked, RollbackChecks, RollbackRenames,
      RollbackFails, Rename, Refuse, Report, WriteAudit, SweepSkips, SweepRemoves, SweepWouldRemove,
      SweepChecks, SweepRestores, RestoreFails, Serve, Reconciled, vars, trail
  <2>2. CASE Stage
    <3>1. phase = "stage" /\ stage[pos] = 0 /\ pos = N
      BY <1>0, <1>3, <2>2 DEF Stage
    <3>2. pos \notin evidence
      BY <1>0, <1>b, <1>c, <3>1 DEF Committed
    <3> QED
      BY <1>0, <1>b, <2>1, <3>1, <3>2
  <2>3. CASE Purge
    BY <1>0, <1>b, <1>3, <2>1, <2>3 DEF Purge
  <2>4. UNCHANGED <<phase, pos>> => p \notin evidence'
    BY <1>b, <1>3, <2>1
  <2> QED
    BY <1>3, <2>2, <2>3, <2>4 DEF Next, Reclaim, Sweep, Crash, Start, StandDown, SweepAborts, Validate,
      Recreate, HandRemove, StageFails, RollBackFrom, PurgeFails, RollbackBlocked, RollbackChecks,
      RollbackRenames, RollbackFails, RolledBack, Refuse, Report, WriteAudit, SweepSkips, SweepRemoves,
      SweepWouldRemove, SweepChecks, SweepRestores, RestoreFails, Reconciled, Serve, vars, proc
<1>4. ASSUME phase' = "restore" PROVE pos' \notin evidence'
  <2>1. CASE \E p \in Parts : SweepChecks(p)
    BY <2>1, <1>a DEF SweepChecks, GoesWrong
  <2>2. CASE UNCHANGED <<phase, pos, evidence>>
    BY <1>b, <1>4, <2>2
  <2> QED
    BY <1>4, <2>1, <2>2 DEF Next, Reclaim, Sweep, Crash, Start, StandDown, SweepAborts, Validate,
      Recreate, HandRemove, Stage, StageFails, Purge, PurgeFails, RollBackFrom, RollbackBlocked,
      RollbackChecks, RollbackRenames, RollbackFails, RolledBack, Refuse, Report, WriteAudit, SweepSkips,
      SweepRemoves, SweepWouldRemove, SweepRestores, RestoreFails, Reconciled, Serve, vars, trail, proc
<1>5. \A i, p : i \in 0..N /\ p \in i..N /\ i # 0 => p \in Parts
  BY <1>0 DEF Parts
<1>6. TypeOK'
  BY <1>0, TypeStep
<1>7. phase' = "purge" => \A p \in pos'..N : p \notin evidence'
  BY <1>3, <1>5, <1>6 DEF TypeOK, Parts
<1> QED
  BY <1>1, <1>2, <1>4, <1>7 DEF EvidenceHolds

\* Nothing the sweep removes is a sole survivor, while nothing but failing renames
\* and unlinks, re-downloads and crashes of the server has happened.
THEOREM RemovalTheorem == Spec => RemovalProven
<1>1. ASSUME Init PROVE Removal
  <2>1. TypeOK /\ TakenWhole
    BY <1>1, TypeInit DEF Init, TakenWhole
  <2>2. OnePlace
    BY <1>1, Bounds DEF Init, OnePlace, Parts
  <2>3. RowsSay /\ EvidenceHolds
    BY <1>1 DEF Init, RowsSay, EvidenceHolds
  <2> QED
    BY <2>1, <2>2, <2>3 DEF Removal
<1>2. Removal /\ [Next]_vars => Removal'
  BY TypeStep, WholeStep, OnePlaceStep, RowsStep, EvidenceStep DEF Removal
<1>3. ASSUME Removal, [Next]_vars PROVE [faults = {} => \A p \in Parts : ~SoleSurvivor(p)]_vars
  <2> SUFFICES ASSUME faults = {}, NEW p \in Parts, SoleSurvivor(p) PROVE FALSE
    OBVIOUS
  <2>0. /\ p \in todo /\ p \notin todo' /\ stage[p] # 0 /\ stage'[p] = 0 /\ orig'[p] # stage[p]
        /\ orig[p] = 0 /\ ~Committed(p)
    BY DEF SoleSurvivor, Swept, Committed
  <2>1. ASSUME NEW q \in Parts, SweepRemoves(q) PROVE FALSE
    <3>1. p \in evidence
      BY <2>0, <2>1 DEF SweepRemoves, ToRemove, Reconciled
    <3>2. Committed(p) \/ <<"removed", p>> \in buf
      BY <1>3, <3>1 DEF Removal, EvidenceHolds
    <3>3. <<"removed", p>> \notin buf
      BY <1>3, <2>0 DEF Removal, RowsSay
    <3> QED
      BY <2>0, <3>2, <3>3
  <2>2. CASE SweepRestores
    <3>1. pos = p /\ orig' = [orig EXCEPT ![pos] = stage[pos]]
      BY <2>0, <2>2 DEF SweepRestores, Rename, Reconciled
    <3>2. orig \in [Parts -> 0..MaxFile]
      BY <1>3 DEF Removal, TypeOK
    <3> QED
      BY <2>0, <3>1, <3>2
  <2>3. todo' # todo /\ stage' # stage
    BY <2>0
  <2> QED
    BY <1>3, <2>0, <2>1, <2>2, <2>3 DEF Next, Reclaim, Sweep, Crash, Start, StandDown, SweepAborts,
      Validate, Recreate, HandRemove, Stage, StageFails, Purge, PurgeFails, RollbackBlocked,
      RollbackChecks, RollbackRenames, RollbackFails, Refuse, Report, WriteAudit, SweepSkips,
      SweepRemoves, SweepWouldRemove, SweepChecks, RestoreFails, Reconciled, Serve, vars, tree, proc
<1> QED
  BY <1>1, <1>2, <1>3, PTL DEF Spec, RemovalProven

=============================================================================
