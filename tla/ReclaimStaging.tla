--------------------------- MODULE ReclaimStaging ---------------------------
(***************************************************************************)
(* The two-phase filesystem reclaim of one stacked duplicate copy and the  *)
(* startup sweep that repairs what it leaves behind:                       *)
(* ReclaimService._reclaim_filesystem / _stage_for_delete /                *)
(* _execute_deletes / _rollback_staged and reconcile_staging.              *)
(*                                                                         *)
(* Part p of the copy has one media path and one `*.uncc-reclaim` sibling. *)
(* The web process stages every part (rename), purges every part (unlink), *)
(* and persists the audit rows of the whole target in one write.  It may   *)
(* die between any two of these; the media tree and the `actions` table    *)
(* survive, and the next start sweeps before it serves.  The reclaim lock  *)
(* and the sweep's place before serving make the process sequential; other *)
(* programs (a re-download, an *arr import, the operator) are not.         *)
(***************************************************************************)
EXTENDS Integers

CONSTANTS
    N,          \* parts of the copy
    LongNames,  \* parts whose sibling's name may be truncated to NAME_MAX
    Faults,     \* what may go wrong beyond a failing rename or unlink and a crash
    MaxFile     \* bound: media files that ever exist at these paths

Parts == 1..N
Files == 1..MaxFile
\* hand: the operator deletes a sibling.  audit: an audit write fails.
\* lookup: the audit lookup fails.  sweep: the process dies during its sweep, or
\* the sweep raises.
AllFaults == {"hand", "audit", "lookup", "sweep"}

ASSUME StagingAssumption ==
    /\ N \in Nat \ {0} /\ MaxFile \in Nat /\ MaxFile >= N
    /\ LongNames \subseteq Parts /\ Faults \subseteq AllFaults

VARIABLES
    orig,     \* orig[p]: media file at the path of part p, or 0
    stage,    \* stage[p]: media file at its staging sibling, or 0
    made,     \* media files created so far; each has a number of its own
    evidence, \* parts with a committed-leftover row newer than any `removed` row
    noted,    \* parts whose present sibling is named by an audit row
    missed,   \* history: siblings that the sweep of this start gave no row
    unlogged, \* history: parts with a delete that no audit row records yet
    verdict,  \* history: how far the last reclaim that took a file got with it
    faults,   \* history: what has gone wrong so far
    phase,    \* where the web process stands
    dry,      \* WEB_ACTIONS_DRY_RUN of the running process
    pos,      \* part in hand
    todo,     \* siblings the sweep has found and not reconciled
    buf       \* audit rows not written yet: <<kind, part>>

tree == <<orig, stage, made>>
trail == <<evidence, noted, missed, unlogged, verdict, faults>>
proc == <<phase, dry, pos, todo, buf>>
vars == <<tree, trail, proc>>

Kinds == {"deleted", "leftover", "orphan", "removed", "skipped"}

Init ==
    /\ orig = [p \in Parts |-> p]
    /\ stage = [p \in Parts |-> 0]
    /\ made = N
    /\ evidence = {} /\ noted = {} /\ missed = {} /\ unlogged = {}
    /\ verdict = [f \in Files |-> "none"] /\ faults = {}
    /\ phase = "down" /\ dry = FALSE /\ pos = 1 /\ todo = {} /\ buf = {}

-----------------------------------------------------------------------------
(* Other programs, and the life of the process.                            *)

\* A new media file appears at a path that has none.
Recreate(p) ==
    /\ orig[p] = 0 /\ made < MaxFile
    /\ orig' = [orig EXCEPT ![p] = made + 1]
    /\ made' = made + 1
    /\ UNCHANGED <<stage, trail, proc>>

GoesWrong(fault) == fault \in Faults /\ faults' = faults \cup {fault}

\* The operator follows "remove it by hand and retry".
HandRemove(p) ==
    /\ GoesWrong("hand") /\ phase \in {"idle", "inert", "down"} /\ stage[p] # 0
    /\ stage' = [stage EXCEPT ![p] = 0]
    /\ noted' = noted \ {p} /\ missed' = missed \ {p}
    /\ UNCHANGED <<orig, made, evidence, unlogged, verdict, proc>>

SweepPhases == {"sweep", "restore"}

Crash ==
    /\ phase # "down"
    /\ IF phase \in SweepPhases THEN GoesWrong("sweep") ELSE UNCHANGED faults
    /\ phase' = "down" /\ dry' = FALSE /\ pos' = 1 /\ todo' = {} /\ buf' = {}
    /\ UNCHANGED <<tree, evidence, noted, missed, unlogged, verdict>>

Siblings == {p \in Parts : stage[p] # 0}

\* The web process starts with actions on and lists the siblings to reconcile:
\* those under the media roots that are mounted, in directories it can read.
Start(d) ==
    /\ phase = "down"
    /\ phase' = "sweep" /\ dry' = d
    /\ \E seen \in SUBSET Siblings : todo' = seen /\ missed' = Siblings \ seen
    /\ UNCHANGED <<tree, evidence, noted, unlogged, verdict, faults, pos, buf>>

\* It starts without a token, without the action layer or without a path map:
\* it sweeps nothing, and will reclaim nothing.
StandDown ==
    /\ phase = "down"
    /\ phase' = "inert"
    /\ missed' = Siblings
    /\ UNCHANGED <<tree, evidence, noted, unlogged, verdict, faults, dry, pos, todo, buf>>

-----------------------------------------------------------------------------
(* One reclaim.                                                            *)

\* Every part is prevalidated: present, regular, of the size reported (> 0).
Validate ==
    /\ phase = "idle" /\ ~dry
    /\ \A p \in Parts : orig[p] # 0
    /\ phase' = "stage" /\ pos' = 1
    /\ verdict' = [f \in Files |-> IF \E p \in Parts : orig[p] = f THEN "taken"
                                   ELSE IF verdict[f] = "taken" THEN "none" ELSE verdict[f]]
    /\ UNCHANGED <<tree, evidence, noted, missed, unlogged, faults, dry, todo, buf>>

\* Mutation of Stage: the purge begins one part late.
StagePastEnd ==
    /\ phase = "stage" /\ stage[pos] = 0
    /\ stage' = [stage EXCEPT ![pos] = orig[pos]]
    /\ orig' = [orig EXCEPT ![pos] = 0]
    /\ IF pos <= N THEN phase' = "stage" /\ pos' = pos + 1
                   ELSE phase' = "purge" /\ pos' = 1
    /\ UNCHANGED <<made, trail, dry, todo, buf>>

\* The part is renamed aside; after the last one the purge begins.
Stage ==
    /\ phase = "stage" /\ stage[pos] = 0
    /\ stage' = [stage EXCEPT ![pos] = orig[pos]]
    /\ orig' = [orig EXCEPT ![pos] = 0]
    /\ IF pos < N THEN phase' = "stage" /\ pos' = pos + 1
                  ELSE phase' = "purge" /\ pos' = 1
    /\ UNCHANGED <<made, trail, dry, todo, buf>>

\* Roll back the parts up to `last`, in reverse.
RollBackFrom(last) == phase' = "rollback" /\ pos' = last

\* A sibling is already there, or the rename fails.
StageFails ==
    /\ phase = "stage"
    /\ RollBackFrom(pos - 1)
    /\ UNCHANGED <<tree, trail, dry, todo, buf>>

\* The unlink of the part succeeds.  The first one commits the reclaim.
Purge ==
    /\ phase = "purge"
    /\ stage' = [stage EXCEPT ![pos] = 0]
    /\ unlogged' = unlogged \cup {pos}
    /\ buf' = buf \cup {<<"deleted", pos>>}
    /\ verdict' = [f \in Files |-> IF \E p \in Parts : stage[p] = f THEN "committed" ELSE verdict[f]]
    /\ IF pos < N THEN phase' = "purge" /\ pos' = pos + 1
                  ELSE phase' = "flush" /\ pos' = pos
    /\ UNCHANGED <<orig, made, evidence, noted, missed, faults, dry, todo>>

\* Mutation of PurgeFails: rolled back although a part is already deleted.
PurgeFailsUndone ==
    /\ phase = "purge"
    /\ RollBackFrom(N)
    /\ UNCHANGED <<tree, trail, dry, todo, buf>>

\* Mutation of PurgeFails: only the parts behind the failed one are reported.
PurgeFailsUnreported ==
    /\ phase = "purge"
    /\ IF pos = 1
       THEN RollBackFrom(N) /\ UNCHANGED buf
       ELSE /\ buf' = buf \cup {<<"leftover", p>> : p \in pos + 1..N}
            /\ phase' = "flush" /\ UNCHANGED pos
    /\ UNCHANGED <<tree, trail, dry, todo>>

\* The unlink fails.  Nothing deleted yet: roll everything back.  Otherwise the
\* part in hand and those behind it stay staged, as committed leftovers.
PurgeFails ==
    /\ phase = "purge"
    /\ IF pos = 1
       THEN RollBackFrom(N) /\ UNCHANGED buf
       ELSE /\ buf' = buf \cup {<<"leftover", p>> : p \in pos..N}
            /\ phase' = "flush" /\ UNCHANGED pos
    /\ UNCHANGED <<tree, trail, dry, todo>>

\* The part in hand is restored or left as an orphan: on to the one before it.
RolledBack(orphan) ==
    /\ phase' = "rollback" /\ pos' = pos - 1
    /\ buf' = IF orphan THEN buf \cup {<<"orphan", pos>>} ELSE buf

\* The original path has reappeared: the staged copy is left as an orphan.
RollbackBlocked ==
    /\ phase = "rollback" /\ pos > 0 /\ orig[pos] # 0
    /\ RolledBack(TRUE)
    /\ UNCHANGED <<tree, trail, dry, todo>>

\* The original path is free: the rename back is next.
RollbackChecks ==
    /\ phase = "rollback" /\ pos > 0 /\ orig[pos] = 0
    /\ phase' = "renameback"
    /\ UNCHANGED <<tree, trail, dry, pos, todo, buf>>

\* os.rename replaces whatever is at the path by now.
Rename(p) ==
    /\ orig' = [orig EXCEPT ![p] = stage[p]]
    /\ stage' = [stage EXCEPT ![p] = 0]
    /\ noted' = noted \ {p}

RollbackRenames ==
    /\ phase = "renameback"
    /\ Rename(pos)
    /\ RolledBack(FALSE)
    /\ UNCHANGED <<made, evidence, missed, unlogged, verdict, faults, dry, todo>>

RollbackFails ==
    /\ phase = "renameback"
    /\ RolledBack(TRUE)
    /\ UNCHANGED <<tree, trail, dry, todo>>

Of(kind) == {p \in Parts : <<kind, p>> \in buf}

\* Mutation of Flush: a removal does not consume the evidence it acted on.
FlushKeepsEvidence ==
    /\ evidence' = evidence \cup Of("leftover")
    /\ noted' = noted \cup Of("leftover") \cup Of("orphan") \cup Of("skipped")
    /\ unlogged' = unlogged \ (Of("deleted") \cup Of("removed"))

\* _flush_audit: the buffered rows are written in one transaction.
Flush ==
    /\ evidence' = (evidence \ Of("removed")) \cup Of("leftover")
    /\ noted' = noted \cup Of("leftover") \cup Of("orphan") \cup Of("skipped")
    /\ unlogged' = unlogged \ (Of("deleted") \cup Of("removed"))

\* An audit write that fails is logged and swallowed.
WriteAudit ==
    /\ \/ Flush /\ UNCHANGED faults
       \/ GoesWrong("audit") /\ UNCHANGED <<evidence, noted, unlogged>>
    /\ buf' = {} /\ todo' = {} /\ pos' = 1
    /\ phase' = "idle"
    /\ UNCHANGED <<tree, missed, dry>>

\* The reclaim reports that it deleted nothing.
Refuse ==
    /\ phase = "rollback" /\ pos = 0
    /\ WriteAudit
    /\ verdict' = [f \in Files |-> IF verdict[f] = "taken" THEN "refused" ELSE verdict[f]]

\* The reclaim reports what it deleted, whole or partial.
Report ==
    /\ phase = "flush"
    /\ WriteAudit
    /\ UNCHANGED verdict

-----------------------------------------------------------------------------
(* The startup sweep; the siblings come in any order.                      *)

Reconciled(p, rows) ==
    /\ todo' = todo \ {p}
    /\ buf' = buf \cup rows
    /\ phase' = "sweep" /\ pos' = 1

\* Left in place: a truncated name, or an OSError on the way.
SweepSkips(p) ==
    /\ phase = "sweep" /\ p \in todo
    /\ Reconciled(p, {<<"skipped", p>>})
    /\ UNCHANGED <<tree, trail, dry>>

\* The sibling is to be removed: the original is present, or it is missing and
\* the trail proves that the reclaim committed.
ToRemove(p) ==
    /\ phase = "sweep" /\ p \in todo /\ p \notin LongNames
    /\ orig[p] # 0 \/ p \in evidence

SweepRemoves(p) ==
    /\ ToRemove(p) /\ ~dry
    /\ stage' = [stage EXCEPT ![p] = 0]
    /\ noted' = noted \ {p}
    /\ unlogged' = unlogged \cup {p}
    /\ Reconciled(p, {<<"removed", p>>})
    /\ UNCHANGED <<orig, made, evidence, missed, verdict, faults, dry>>

\* A dry run only says what it would remove.
SweepWouldRemove(p) ==
    /\ ToRemove(p) /\ dry
    /\ Reconciled(p, {<<"skipped", p>>})
    /\ UNCHANGED <<tree, trail, dry>>

\* Original missing and no evidence, or none that the lookup finds.
SweepChecks(p) ==
    /\ phase = "sweep" /\ p \in todo /\ p \notin LongNames
    /\ orig[p] = 0
    /\ IF p \in evidence THEN GoesWrong("lookup") ELSE UNCHANGED faults
    /\ phase' = "restore" /\ pos' = p
    /\ UNCHANGED <<tree, evidence, noted, missed, unlogged, verdict, dry, todo, buf>>

SweepRestores ==
    /\ phase = "restore"
    /\ Rename(pos)
    /\ Reconciled(pos, {})
    /\ UNCHANGED <<made, evidence, missed, unlogged, verdict, faults, dry>>

RestoreFails ==
    /\ phase = "restore"
    /\ Reconciled(pos, {<<"skipped", pos>>})
    /\ UNCHANGED <<tree, trail, dry>>

\* The sweep's rows are written, and the server serves.
Serve ==
    /\ phase = "sweep" /\ todo = {}
    /\ WriteAudit
    /\ UNCHANGED verdict

\* The sweep raises: the rows of what it has done are lost with it, and the
\* server serves all the same.
SweepAborts ==
    /\ phase \in SweepPhases /\ GoesWrong("sweep")
    /\ missed' = missed \cup todo \cup Of("skipped")
    /\ phase' = "idle" /\ pos' = 1 /\ todo' = {} /\ buf' = {}
    /\ UNCHANGED <<tree, evidence, noted, unlogged, verdict, dry>>

Reclaim ==
    \/ Validate \/ Stage \/ StageFails \/ Purge \/ PurgeFails
    \/ RollbackBlocked \/ RollbackChecks \/ RollbackRenames \/ RollbackFails
    \/ Refuse \/ Report

Sweep ==
    \/ \E d \in BOOLEAN : Start(d)
    \/ \E p \in Parts : SweepSkips(p) \/ SweepRemoves(p) \/ SweepWouldRemove(p) \/ SweepChecks(p)
    \/ SweepRestores \/ RestoreFails \/ SweepAborts \/ Serve \/ StandDown

Next ==
    \/ Reclaim \/ Sweep \/ Crash
    \/ \E p \in Parts : Recreate(p) \/ HandRemove(p)

Spec == Init /\ [][Next]_vars

-----------------------------------------------------------------------------
(* What the reclaim and the sweep promise.                                 *)

ReclaimPhases == {"stage", "purge", "rollback", "renameback", "flush"}

\* Every variable has its type; a part is in hand except when a rollback is over.
TypeOK ==
    /\ orig \in [Parts -> 0..MaxFile] /\ stage \in [Parts -> 0..MaxFile]
    /\ made \in 0..MaxFile
    /\ evidence \subseteq Parts /\ noted \subseteq Parts
    /\ missed \subseteq Parts /\ unlogged \subseteq Parts
    /\ verdict \in [Files -> {"none", "taken", "refused", "committed"}]
    /\ faults \subseteq Faults
    /\ phase \in {"down", "idle", "inert"} \cup SweepPhases \cup ReclaimPhases
    /\ dry \in BOOLEAN
    /\ pos \in 0..N /\ (phase # "rollback" => pos # 0)
    /\ todo \subseteq Parts
    /\ buf \subseteq Kinds \X Parts

\* Whole or refused: when a reclaim is about to report that it deleted nothing,
\* no delete of this reclaim has been done and each part of the copy is at its
\* path or at its sibling, whichever rename or unlink failed and whatever
\* appeared at the original paths meanwhile.
Holds(p) == \E f \in {orig[p], stage[p]} : f # 0 /\ verdict[f] = "taken"
RefusedWhole == phase = "rollback" /\ pos = 0 => \A p \in Parts : Holds(p)

\* No leftover is silent: while the server serves, every staging sibling in the
\* tree is named by an audit row, whatever crashed, unless an audit write failed
\* or the sweep of this start never saw it, or raised before its rows were
\* written.  The siblings that this server's own reclaims leave have no such excuse.
NoSilentLeftover ==
    phase \in {"idle", "inert"} /\ "audit" \notin faults =>
        \A p \in Parts : stage[p] # 0 => p \in noted \cup missed

\* While the server serves, every staging sibling in the tree is named by an
\* audit row.
LeftoversNamed == phase \in {"idle", "inert"} => \A p \in Parts : stage[p] # 0 => p \in noted

\* While the server serves, every delete it did is in the trail.
DeletesAudited == phase = "idle" => unlogged = {}

\* The sweep unlinks the sibling of p in this step.
Swept(p) == p \in todo \ todo' /\ stage[p] # 0 /\ stage'[p] = 0 /\ orig'[p] # stage[p]

\* Fail-closed toward restore: a sibling whose original is missing is removed
\* only when a reclaim that took this very file had begun to delete.  So it is
\* across failing renames and unlinks, re-downloads and crashes of the server ...
SoleSurvivor(p) == Swept(p) /\ orig[p] = 0 /\ verdict[stage[p]] # "committed"
RemovalProven == [][faults = {} => \A p \in Parts : ~SoleSurvivor(p)]_vars

\* ... and so the documentation has it with no condition: a sibling left by a
\* reclaim that deleted nothing is always restored, never removed.
SurvivorRestored == [][\A p \in Parts : ~SoleSurvivor(p)]_vars

\* A file that its reclaim reported as left staged, nothing deleted, for manual
\* restore is not removed by the sweep.
OrphanKept == [][\A p \in Parts : Swept(p) => verdict[stage[p]] # "refused"]_vars

\* No rename replaces a media file: one present leaves its path only by staging.
NoClobber ==
    [][\A p \in Parts : orig[p] # 0 /\ orig'[p] # orig[p] => stage'[p] = orig[p]]_vars

=============================================================================
