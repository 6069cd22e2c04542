----------------------- MODULE ExtractionLedgerProofs -----------------------
(***************************************************************************)
(* What ExtractionLedger guarantees for every number of runs and archives, *)
(* every timeout and every bound.                                          *)
(***************************************************************************)
EXTENDS ExtractionLedger, TLAPS

\* The bounds are numbers and there is a first version of every archive.
LEMMA Bounds == /\ NumArchives \in Nat /\ MaxVersion \in Nat /\ MaxVersion >= 1
                /\ MaxClaims \in Nat /\ 1 \in Versions
BY LedgerAssumption DEF Versions

-----------------------------------------------------------------------------
(* Types.                                                                  *)

\* The types of the variables a pass keeps in memory while it is at work.
PassTypes ==
    /\ phase \in [Runs -> {"idle", "next"} \cup WorkPhases]
    /\ pos \in [Runs -> 1..NumArchives + 1]
    /\ tok \in [Runs -> 0..MaxClaims]
    /\ got \in [Runs -> 0..MaxVersion]
    /\ since \in [Runs -> Nat]
    /\ \A r \in Runs : phase[r] \in WorkPhases => pos[r] <= NumArchives

\* The initial state is well typed.
LEMMA TypeInit == Init => TypeOK
<1> SUFFICES ASSUME Init PROVE TypeOK
  OBVIOUS
<1>1. row \in [Archives -> Rows] /\ outs \in [Archives -> [version : 0..MaxVersion, at : Nat]]
  <2>1. FirstRows \subseteq Rows
    BY Bounds DEF FirstRows, LegacyRow, NoRow, Rows
  <2> QED
    BY <2>1, Bounds DEF Init, NoOutput
<1>2. PassTypes
  BY Bounds DEF Init, PassTypes, WorkPhases, ToolPhases
<1>3. clock \in Nat /\ tokens \in 0..MaxClaims /\ now \in [Runs -> Nat]
  BY Bounds DEF Init
<1>4. disk \in [Archives -> Versions] /\ seen \in [Runs -> [Archives -> Versions]]
  BY Bounds DEF Init
<1>5. /\ fresh \in [Runs -> SUBSET Media] /\ produced \in [Runs -> SUBSET Media]
      /\ exver \in [Archives -> 0..MaxVersion]
  BY Bounds DEF Init
<1> QED
  BY <1>1, <1>2, <1>3, <1>4, <1>5 DEF TypeOK, PassTypes

\* A run at work has an archive in hand.
LEMMA InHand ==
    ASSUME TypeOK, NEW r \in Runs, phase[r] \in WorkPhases \/ HasNext(r)
    PROVE  pos[r] \in Archives /\ disk[pos[r]] \in Versions /\ row[pos[r]] \in Rows
<1>1. pos[r] \in Archives
  BY Bounds DEF TypeOK, HasNext, Archives
<1> QED
  BY <1>1 DEF TypeOK

\* Going on to the next archive keeps the types of the pass.
LEMMA AdvanceTypes ==
    ASSUME TypeOK, NEW r \in Runs, phase[r] \in WorkPhases \/ HasNext(r), Advance(r)
    PROVE  PassTypes'
<1>1. pos[r] \in 1..NumArchives
  BY InHand DEF Archives
<1> QED
  BY <1>1, Bounds DEF TypeOK, PassTypes, Advance, WorkPhases, ToolPhases

\* Forgetting the pass, at its end or in a crash, keeps the types.
LEMMA ForgetTypes ==
    ASSUME TypeOK, NEW r \in Runs, Forget(r)
    PROVE  /\ PassTypes'
           /\ (now \in [Runs -> Nat])' /\ (seen \in [Runs -> [Archives -> Versions]])'
           /\ (fresh \in [Runs -> SUBSET Media])' /\ (produced \in [Runs -> SUBSET Media])'
<1>1. PassTypes'
  BY Bounds DEF TypeOK, PassTypes, Forget, WorkPhases, ToolPhases
<1>2. [a \in Archives |-> 1] \in [Archives -> Versions]
  BY Bounds
<1> QED
  BY <1>1, <1>2 DEF TypeOK, Forget

\* Every step of the environment or of a run keeps the types: the tables hold
\* well-formed rows, and a run at work has an archive in hand.
LEMMA TypeStep == TypeOK /\ [Next]_vars => TypeOK'
<1> SUFFICES ASSUME TypeOK, [Next]_vars PROVE TypeOK'
  OBVIOUS
<1> USE DEF dbVars, runVars
<1>1. CASE UNCHANGED vars
  BY <1>1 DEF vars, TypeOK
<1>2. CASE Tick
  BY <1>2 DEF Tick, TypeOK
<1>3. ASSUME NEW a \in Archives, Rewrite(a) PROVE TypeOK'
  BY <1>3, Bounds DEF Rewrite, TypeOK, Versions
<1>4. ASSUME NEW r \in Runs, Crash(r) PROVE TypeOK'
  BY <1>4, ForgetTypes DEF Crash, TypeOK, PassTypes
<1>5. ASSUME NEW r \in Runs, StartRun(r) PROVE TypeOK'
  BY <1>5 DEF StartRun, TypeOK, WorkPhases, ToolPhases
<1>6. ASSUME NEW r \in Runs, Skip(r) PROVE TypeOK'
  BY <1>6, AdvanceTypes DEF Skip, TypeOK, PassTypes
<1>7. ASSUME NEW r \in Runs, ClaimNew(r) PROVE TypeOK'
  <2>1. pos[r] \in Archives /\ disk[pos[r]] \in Versions
    BY <1>7, InHand DEF ClaimNew
  <2>2. SizeOf[disk[pos[r]]] \in Nat /\ seen[r][pos[r]] \in 0..MaxVersion
    <3>1. seen[r] \in [Archives -> Versions]
      BY DEF TypeOK
    <3> QED
      BY <2>1, <3>1, LedgerAssumption DEF Versions
  <2>3. tokens + 1 \in 0..MaxClaims /\ now[r] \in Nat
    BY <1>7, Bounds DEF ClaimNew, TypeOK
  <2>4. (row \in [Archives -> Rows])'
    BY <1>7, <2>1, <2>2, <2>3 DEF ClaimNew, TypeOK, Rows
  <2>5. PassTypes'
    BY <1>7, <2>1, <2>3 DEF ClaimNew, TypeOK, PassTypes, WorkPhases, ToolPhases, Archives
  <2> QED
    BY <1>7, <2>3, <2>4, <2>5 DEF ClaimNew, TypeOK, PassTypes
<1>8. ASSUME NEW r \in Runs, ClaimRefused(r) PROVE TypeOK'
  BY <1>8, AdvanceTypes DEF ClaimRefused, TypeOK, PassTypes
<1>9. ASSUME NEW r \in Runs, TestPass(r) PROVE TypeOK'
  <2>1. disk[pos[r]] \in 0..MaxVersion
    BY <1>9, InHand DEF TestPass, WorkPhases, ToolPhases, Versions
  <2>2. PassTypes'
    BY <1>9, <2>1 DEF TestPass, TypeOK, PassTypes, WorkPhases, ToolPhases
  <2> QED
    BY <1>9, <2>2 DEF TestPass, TypeOK, PassTypes
<1>10. ASSUME NEW r \in Runs, ToolFails(r) PROVE TypeOK'
  <2>1. PassTypes'
    BY <1>10 DEF ToolFails, TypeOK, PassTypes, WorkPhases, ToolPhases
  <2> QED
    BY <1>10, <2>1 DEF ToolFails, TypeOK, PassTypes
<1>11. ASSUME NEW r \in Runs, ExtractEnds(r) PROVE TypeOK'
  <2>1. disk[pos[r]] \in 0..MaxVersion /\ got[r] \in 0..MaxVersion
    BY <1>11, InHand DEF ExtractEnds, TypeOK, WorkPhases, ToolPhases, Versions
  <2>2. PICK v \in got[r]..disk[pos[r]] : got' = [got EXCEPT ![r] = v]
    BY <1>11 DEF ExtractEnds
  <2>3. v \in 0..MaxVersion
    BY <2>1, <2>2, Bounds
  <2>4. PassTypes'
    BY <1>11, <2>2, <2>3 DEF ExtractEnds, TypeOK, PassTypes, WorkPhases, ToolPhases
  <2> QED
    BY <1>11, <2>4 DEF ExtractEnds, TypeOK, PassTypes
<1>12. ASSUME NEW r \in Runs, FinalizeEnds(r) PROVE TypeOK'
  <2>1. <<pos[r], got[r]>> \in Media
    BY <1>12, InHand DEF FinalizeEnds, TypeOK, WorkPhases, ToolPhases, Media
  <2>2. PassTypes'
    BY <1>12 DEF FinalizeEnds, TypeOK, PassTypes, WorkPhases, ToolPhases
  <2> QED
    BY <1>12, <2>1, <2>2 DEF FinalizeEnds, TypeOK, PassTypes
<1>13. ASSUME NEW r \in Runs, Complete(r) PROVE TypeOK'
  <2>1. pos[r] \in Archives /\ row[pos[r]] \in Rows /\ got[r] \in 0..MaxVersion
    BY <1>13, InHand DEF Complete, TypeOK, WorkPhases
  <2>2. PassTypes'
    BY <1>13, AdvanceTypes DEF Complete, WorkPhases
  <2>3. [row[pos[r]] EXCEPT !.status = "extracted"] \in Rows
    BY <2>1 DEF Rows
  <2>4. (row \in [Archives -> Rows])'
    BY <1>13, <2>1, <2>3 DEF Complete, TypeOK
  <2>5. /\ (outs \in [Archives -> [version : 0..MaxVersion, at : Nat]])'
        /\ (exver \in [Archives -> 0..MaxVersion])'
    <3>1. [version |-> got[r], at |-> clock] \in [version : 0..MaxVersion, at : Nat]
      BY <2>1 DEF TypeOK
    <3> QED
      BY <1>13, <2>1, <3>1 DEF Complete, TypeOK
  <2>6. (fresh \in [Runs -> SUBSET Media])'
    BY <1>13, <2>1 DEF Complete, TypeOK, Media
  <2> QED
    BY <1>13, <2>2, <2>4, <2>5, <2>6 DEF Complete, TypeOK, PassTypes
<1>14. ASSUME NEW r \in Runs, CompleteFails(r) PROVE TypeOK'
  <2>1. PassTypes'
    BY <1>14 DEF CompleteFails, TypeOK, PassTypes, WorkPhases, ToolPhases
  <2> QED
    BY <1>14, <2>1 DEF CompleteFails, TypeOK, PassTypes
<1>15. ASSUME NEW r \in Runs, Release(r) PROVE TypeOK'
  <2>1. pos[r] \in Archives /\ <<pos[r], got[r]>> \in Media
    BY <1>15, InHand DEF Release, TypeOK, WorkPhases, Media
  <2>2. PassTypes'
    BY <1>15, AdvanceTypes DEF Release, WorkPhases
  <2>3. NoRow \in Rows
    BY Bounds DEF NoRow, Rows
  <2>4. (row \in [Archives -> Rows])' /\ (fresh \in [Runs -> SUBSET Media])'
    BY <1>15, <2>1, <2>3 DEF Release, TypeOK
  <2> QED
    BY <1>15, <2>2, <2>4 DEF Release, TypeOK, PassTypes
<1>16. ASSUME NEW r \in Runs, ReleaseFails(r) PROVE TypeOK'
  <2>1. PassTypes'
    BY <1>16, AdvanceTypes DEF ReleaseFails, WorkPhases
  <2> QED
    BY <1>16, <2>1 DEF ReleaseFails, TypeOK, PassTypes
<1>17. ASSUME NEW r \in Runs, EndRun(r) PROVE TypeOK'
  <2>1. (outs \in [Archives -> [version : 0..MaxVersion, at : Nat]])'
    BY <1>17, Bounds DEF EndRun, TypeOK, NoOutput
  <2> QED
    BY <1>17, <2>1, ForgetTypes DEF EndRun, TypeOK, PassTypes
<1> QED
  BY <1>1, <1>2, <1>3, <1>4, <1>5, <1>6, <1>7, <1>8, <1>9, <1>10, <1>11, <1>12,
     <1>13, <1>14, <1>15, <1>16, <1>17 DEF Next, RunStep

\* Every reachable state of the ledger and its runs is well typed.
THEOREM TypeCorrect == Spec => []TypeOK
BY TypeInit, TypeStep, PTL DEF Spec

-----------------------------------------------------------------------------
(* Skipping is sound.                                                      *)

\* The strengthening that makes SkipIsSound inductive.  Tokens in use are at
\* most the last one granted, so a fresh token takes a row from every run; what
\* the tool reads is no older than what the scan fingerprinted; and the row a
\* run owns carries its scan's fingerprint, so promoting it records a mtime no
\* newer than the version extracted.
TokensGranted ==
    /\ \A r \in Runs : tok[r] <= tokens
    /\ \A a \in Archives : row[a].token <= tokens
SeenIsPast == \A r \in Runs : \A a \in Archives : seen[r][a] <= disk[a]
GotIsCurrent ==
    \A r \in Runs : phase[r] \in {"extract", "finalize", "complete"} =>
        seen[r][pos[r]] <= got[r] /\ got[r] <= disk[pos[r]]
OwnFingerprint ==
    \A r \in Runs : phase[r] \in WorkPhases /\ OwnsRow(r) =>
        row[pos[r]].mtime = seen[r][pos[r]]
PromotionIsPast ==
    \A a \in Archives : Extracted(a) => row[a].mtime <= exver[a] /\ exver[a] <= disk[a]

SkipInv ==
    TypeOK /\ TokensGranted /\ SeenIsPast /\ GotIsCurrent /\ OwnFingerprint /\ PromotionIsPast

\* Promoting a claim changes nothing of the row but its status.
LEMMA PromoteFields ==
    ASSUME TypeOK, NEW r \in Runs, Complete(r), NEW b \in Archives
    PROVE  /\ row'[b].token = row[b].token /\ row'[b].mtime = row[b].mtime
           /\ row'[b].status = "claimed" => row[b].status = "claimed"
<1>1. row[b] \in Rows
  BY DEF TypeOK
<1>2. row'[b] = row[b] \/ row'[b] = [row[b] EXCEPT !.status = "extracted"]
  <2>1. CASE OwnsRow(r) /\ b = pos[r]
    BY <2>1 DEF Complete, TypeOK
  <2>2. CASE OwnsRow(r) /\ b # pos[r]
    BY <2>2 DEF Complete, TypeOK
  <2>3. CASE ~OwnsRow(r)
    BY <2>3 DEF Complete
  <2> QED
    BY <2>1, <2>2, <2>3
<1> QED
  BY <1>1, <1>2 DEF Rows

\* The values the invariants compare are numbers.
LEMMA Numbers ==
    ASSUME TypeOK
    PROVE  /\ tokens \in Nat
           /\ \A r \in Runs : tok[r] \in Nat /\ got[r] \in Nat
           /\ \A a \in Archives : /\ row[a].token \in Nat /\ row[a].mtime \in Nat
                                  /\ disk[a] \in Nat /\ exver[a] \in Nat
           /\ \A r \in Runs : \A a \in Archives : seen[r][a] \in Nat
<1>1. \A a \in Archives : row[a] \in Rows /\ disk[a] \in Versions /\ exver[a] \in 0..MaxVersion
  BY DEF TypeOK
<1>2. \A r \in Runs : \A a \in Archives : seen[r][a] \in Versions
  BY DEF TypeOK
<1> QED
  BY <1>1, <1>2, Bounds DEF TypeOK, Rows, Versions

\* A rewrite gives an archive a later version.
LEMMA RewriteGrows ==
    ASSUME TypeOK, NEW a \in Archives, Rewrite(a), NEW b \in Archives
    PROVE  disk[b] <= disk'[b] /\ disk'[b] \in Nat
BY Numbers DEF Rewrite, TypeOK

\* Every step preserves the strengthening of SkipIsSound.
LEMMA SkipStep ==
    ASSUME SkipInv, TypeOK', [Next]_vars PROVE SkipInv'
<1> DEFINE Parts == TokensGranted /\ SeenIsPast /\ GotIsCurrent /\ OwnFingerprint /\ PromotionIsPast
<1> SUFFICES Parts'
  BY DEF SkipInv
<1> USE DEF SkipInv, dbVars, runVars, Versions, Archives
<1>0. NumArchives \in Nat /\ MaxVersion \in Nat /\ MaxClaims \in Nat
  BY Bounds
<1>1. CASE UNCHANGED vars
  BY <1>1 DEF vars, TokensGranted, SeenIsPast, GotIsCurrent, OwnFingerprint, PromotionIsPast,
    Extracted, OwnsRow, Claimed
<1>2. CASE Tick
  BY <1>2, <1>0 DEF Tick, TokensGranted, SeenIsPast, GotIsCurrent, OwnFingerprint,
    PromotionIsPast, TypeOK, OwnsRow, Claimed, Extracted, WorkPhases, ToolPhases
<1>3. ASSUME NEW a \in Archives, Rewrite(a) PROVE Parts'
  <2>1. TokensGranted'
    BY <1>3, <1>0 DEF Rewrite, TokensGranted, TypeOK
  <2>2. SeenIsPast'
    <3>1. \A b \in Archives : disk[b] <= disk'[b] /\ disk'[b] \in Nat
      BY <1>3, RewriteGrows, Zenon
    <3> QED
      BY <1>3, <3>1, Numbers DEF Rewrite, SeenIsPast
  <2>3. GotIsCurrent'
    <3>1. \A b \in Archives : disk[b] <= disk'[b] /\ disk'[b] \in Nat
      BY <1>3, RewriteGrows, Zenon
    <3>2. \A q \in Runs : phase[q] \in WorkPhases => pos[q] \in Archives
      BY InHand
    <3> QED
      BY <1>3, <3>1, <3>2, Numbers DEF Rewrite, GotIsCurrent, WorkPhases, ToolPhases
  <2>4. OwnFingerprint'
    BY <1>3, <1>0 DEF Rewrite, OwnFingerprint, TypeOK, OwnsRow, Claimed, WorkPhases, ToolPhases
  <2>5. PromotionIsPast'
    <3>1. \A b \in Archives : disk[b] <= disk'[b] /\ disk'[b] \in Nat
      BY <1>3, RewriteGrows, Zenon
    <3> QED
      BY <1>3, <3>1, Numbers DEF Rewrite, PromotionIsPast, Extracted
  <2> QED
    BY <2>1, <2>2, <2>3, <2>4, <2>5
<1>4. ASSUME NEW r \in Runs, Crash(r) PROVE Parts'
  <2>1. TokensGranted'
    BY <1>4, <1>0 DEF Crash, Forget, TokensGranted, TypeOK
  <2>2. SeenIsPast'
    BY <1>4, <1>0 DEF Crash, Forget, SeenIsPast, TypeOK
  <2>3. GotIsCurrent'
    BY <1>4, <1>0 DEF Crash, Forget, GotIsCurrent, TypeOK, WorkPhases, ToolPhases
  <2>4. OwnFingerprint'
    BY <1>4, <1>0 DEF Crash, Forget, OwnFingerprint, TypeOK, OwnsRow, Claimed, WorkPhases, ToolPhases
  <2>5. PromotionIsPast'
    BY <1>4, <1>0 DEF Crash, Forget, PromotionIsPast, TypeOK, Extracted
  <2> QED
    BY <2>1, <2>2, <2>3, <2>4, <2>5
<1>5. ASSUME NEW r \in Runs, StartRun(r) PROVE Parts'
  <2>1. TokensGranted'
    BY <1>5, <1>0 DEF StartRun, TokensGranted, TypeOK
  <2>2. SeenIsPast'
    <3>1. \A q \in Runs, b \in Archives : seen'[q][b] = disk[b] \/ seen'[q][b] = seen[q][b]
      BY <1>5 DEF StartRun, TypeOK
    <3>2. disk' = disk /\ \A b \in Archives : disk[b] \in Nat
      BY <1>5, Numbers DEF StartRun
    <3> QED
      BY <3>1, <3>2 DEF SeenIsPast
  <2>3. GotIsCurrent'
    BY <1>5, <1>0 DEF StartRun, GotIsCurrent, TypeOK, WorkPhases, ToolPhases
  <2>4. OwnFingerprint'
    BY <1>5, <1>0 DEF StartRun, OwnFingerprint, TypeOK, OwnsRow, Claimed, WorkPhases, ToolPhases
  <2>5. PromotionIsPast'
    BY <1>5, <1>0 DEF StartRun, PromotionIsPast, TypeOK, Extracted
  <2> QED
    BY <2>1, <2>2, <2>3, <2>4, <2>5
<1>6. ASSUME NEW r \in Runs, Skip(r) PROVE Parts'
  <2>1. TokensGranted'
    BY <1>6, <1>0 DEF Skip, Advance, TokensGranted, TypeOK
  <2>2. SeenIsPast'
    BY <1>6, <1>0 DEF Skip, Advance, SeenIsPast, TypeOK
  <2>3. GotIsCurrent'
    BY <1>6, <1>0 DEF Skip, Advance, GotIsCurrent, TypeOK, WorkPhases, ToolPhases
  <2>4. OwnFingerprint'
    BY <1>6, <1>0 DEF Skip, Advance, OwnFingerprint, TypeOK, OwnsRow, Claimed, WorkPhases, ToolPhases
  <2>5. PromotionIsPast'
    BY <1>6, <1>0 DEF Skip, Advance, PromotionIsPast, TypeOK, Extracted
  <2> QED
    BY <2>1, <2>2, <2>3, <2>4, <2>5
<1>7. ASSUME NEW r \in Runs, ClaimNew(r) PROVE Parts'
  <2>1. TokensGranted'
    <3>1. pos[r] \in Archives /\ tokens' = tokens + 1
      BY <1>7, InHand DEF ClaimNew
    <3>2. \A b \in Archives : row'[b].token = row[b].token \/ row'[b].token = tokens'
      BY <1>7, <3>1 DEF ClaimNew, TypeOK
    <3>3. \A q \in Runs : tok'[q] = tok[q] \/ tok'[q] = tokens'
      BY <1>7 DEF ClaimNew, TypeOK
    <3> QED
      BY <3>1, <3>2, <3>3, Numbers DEF TokensGranted
  <2>2. SeenIsPast'
    BY <1>7, <1>0 DEF ClaimNew, Claimable, HasNext, SeenIsPast, TypeOK
  <2>3. GotIsCurrent'
    BY <1>7, <1>0 DEF ClaimNew, Claimable, HasNext, GotIsCurrent, TypeOK, WorkPhases, ToolPhases
  <2>4. OwnFingerprint'
    <3>1. pos[r] \in Archives
      BY <1>7, InHand DEF ClaimNew
    <3>2. row'[pos[r]].mtime = seen[r][pos[r]] /\ row'[pos[r]].token = tokens + 1
      BY <1>7, <3>1 DEF ClaimNew, TypeOK
    <3>3. \A b \in Archives \ {pos[r]} : row'[b] = row[b]
      BY <1>7 DEF ClaimNew, TypeOK
    <3>4. \A q \in Runs \ {r} : /\ phase'[q] = phase[q] /\ tok'[q] = tok[q]
                                 /\ tok[q] # tokens + 1
      BY <1>7, Numbers DEF ClaimNew, TypeOK, TokensGranted
    <3>5. pos' = pos /\ seen' = seen
      BY <1>7 DEF ClaimNew
    <3>6. \A q \in Runs : phase[q] \in WorkPhases => pos[q] \in Archives
      BY InHand
    <3> QED
      BY <3>1, <3>2, <3>3, <3>4, <3>5, <3>6 DEF OwnFingerprint, OwnsRow, Claimed
  <2>5. PromotionIsPast'
    BY <1>7, <1>0 DEF ClaimNew, Claimable, HasNext, PromotionIsPast, TypeOK, Extracted
  <2> QED
    BY <2>1, <2>2, <2>3, <2>4, <2>5
<1>8. ASSUME NEW r \in Runs, ClaimRefused(r) PROVE Parts'
  <2>1. TokensGranted'
    BY <1>8, <1>0 DEF ClaimRefused, Advance, TokensGranted, TypeOK
  <2>2. SeenIsPast'
    BY <1>8, <1>0 DEF ClaimRefused, Advance, SeenIsPast, TypeOK
  <2>3. GotIsCurrent'
    BY <1>8, <1>0 DEF ClaimRefused, Advance, GotIsCurrent, TypeOK, WorkPhases, ToolPhases
  <2>4. OwnFingerprint'
    BY <1>8, <1>0 DEF ClaimRefused, Advance, OwnFingerprint, TypeOK, OwnsRow, Claimed, WorkPhases, ToolPhases
  <2>5. PromotionIsPast'
    BY <1>8, <1>0 DEF ClaimRefused, Advance, PromotionIsPast, TypeOK, Extracted
  <2> QED
    BY <2>1, <2>2, <2>3, <2>4, <2>5
<1>9. ASSUME NEW r \in Runs, TestPass(r) PROVE Parts'
  <2>1. TokensGranted'
    BY <1>9, <1>0 DEF TestPass, TokensGranted, TypeOK
  <2>2. SeenIsPast'
    BY <1>9, <1>0 DEF TestPass, SeenIsPast, TypeOK
  <2>3. GotIsCurrent'
    <3>1. pos[r] \in Archives
      BY <1>9, InHand DEF TestPass, WorkPhases, ToolPhases
    <3>2. got'[r] = disk[pos[r]] /\ seen[r][pos[r]] <= disk[pos[r]]
      BY <1>9, <3>1 DEF TestPass, SeenIsPast, TypeOK
    <3>3. \A q \in Runs \ {r} : phase'[q] = phase[q] /\ got'[q] = got[q]
      BY <1>9 DEF TestPass, TypeOK
    <3>4. UNCHANGED <<seen, pos, disk>>
      BY <1>9 DEF TestPass
    <3> QED
      BY <3>1, <3>2, <3>3, <3>4, Numbers DEF GotIsCurrent
  <2>4. OwnFingerprint'
    BY <1>9, <1>0 DEF TestPass, OwnFingerprint, TypeOK, OwnsRow, Claimed, WorkPhases, ToolPhases
  <2>5. PromotionIsPast'
    BY <1>9, <1>0 DEF TestPass, PromotionIsPast, TypeOK, Extracted
  <2> QED
    BY <2>1, <2>2, <2>3, <2>4, <2>5
<1>10. ASSUME NEW r \in Runs, ToolFails(r) PROVE Parts'
  BY <1>10, <1>0 DEF ToolFails, TokensGranted, SeenIsPast, GotIsCurrent, OwnFingerprint,
    PromotionIsPast, TypeOK, OwnsRow, Claimed, Extracted, WorkPhases, ToolPhases
<1>11. ASSUME NEW r \in Runs, ExtractEnds(r) PROVE Parts'
  <2>1. TokensGranted'
    BY <1>11, <1>0 DEF ExtractEnds, TokensGranted, TypeOK
  <2>2. SeenIsPast'
    BY <1>11, <1>0 DEF ExtractEnds, SeenIsPast, TypeOK
  <2>3. GotIsCurrent'
    <3>1. pos[r] \in Archives
      BY <1>11, InHand DEF ExtractEnds, WorkPhases, ToolPhases
    <3>2. got[r] <= got'[r] /\ got'[r] <= disk[pos[r]] /\ got'[r] \in Int
      BY <1>11, <3>1, Numbers DEF ExtractEnds, TypeOK
    <3>3. seen[r][pos[r]] <= got'[r]
      BY <1>11, <3>1, <3>2, Numbers DEF ExtractEnds, GotIsCurrent
    <3>4. \A q \in Runs \ {r} : phase'[q] = phase[q] /\ got'[q] = got[q]
      BY <1>11 DEF ExtractEnds, TypeOK
    <3>5. UNCHANGED <<seen, pos, disk>>
      BY <1>11 DEF ExtractEnds
    <3> QED
      BY <3>2, <3>3, <3>4, <3>5 DEF GotIsCurrent
  <2>4. OwnFingerprint'
    BY <1>11, <1>0 DEF ExtractEnds, OwnFingerprint, TypeOK, OwnsRow, Claimed, WorkPhases, ToolPhases
  <2>5. PromotionIsPast'
    BY <1>11, <1>0 DEF ExtractEnds, PromotionIsPast, TypeOK, Extracted
  <2> QED
    BY <2>1, <2>2, <2>3, <2>4, <2>5
<1>12. ASSUME NEW r \in Runs, FinalizeEnds(r) PROVE Parts'
  BY <1>12, <1>0 DEF FinalizeEnds, TokensGranted, SeenIsPast, GotIsCurrent, OwnFingerprint,
    PromotionIsPast, TypeOK, OwnsRow, Claimed, Extracted, WorkPhases, ToolPhases
<1>13. ASSUME NEW r \in Runs, Complete(r) PROVE Parts'
  <2>1. TokensGranted'
    <3>1. \A b \in Archives : row'[b].token = row[b].token
      BY PromoteFields, <1>13
    <3>2. \A q \in Runs : tok'[q] = tok[q] \/ tok'[q] = 0
      BY <1>13 DEF Complete, Advance, TypeOK
    <3> QED
      BY <1>13, <3>1, <3>2, Numbers DEF Complete, TokensGranted
  <2>2. SeenIsPast'
    BY <1>13, <1>0 DEF Complete, Advance, SeenIsPast, TypeOK
  <2>3. GotIsCurrent'
    BY <1>13, <1>0 DEF Complete, Advance, GotIsCurrent, TypeOK, WorkPhases, ToolPhases
  <2>4. OwnFingerprint'
    <3>1. \A b \in Archives : /\ row'[b].token = row[b].token /\ row'[b].mtime = row[b].mtime
                              /\ row'[b].status = "claimed" => row[b].status = "claimed"
      BY PromoteFields, <1>13
    <3>2. \A q \in Runs \ {r} : phase'[q] = phase[q] /\ tok'[q] = tok[q] /\ pos'[q] = pos[q]
      BY <1>13 DEF Complete, Advance, TypeOK
    <3>3. phase'[r] = "next" /\ seen' = seen
      BY <1>13 DEF Complete, Advance, TypeOK
    <3>4. \A q \in Runs : phase[q] \in WorkPhases => pos[q] \in Archives
      BY InHand
    <3>5. ASSUME NEW q \in Runs \ {r}, phase'[q] \in WorkPhases, OwnsRow(q)'
          PROVE  row'[pos'[q]].mtime = seen'[q][pos'[q]]
      <4>1. pos[q] \in Archives /\ phase[q] \in WorkPhases
        BY <3>2, <3>4, <3>5
      <4>2. pos'[q] = pos[q] /\ tok'[q] = tok[q]
        BY <3>2, <3>5
      <4>3. row'[pos[q]].status = "claimed" /\ row'[pos[q]].token = tok[q]
        BY <3>5, <4>2 DEF OwnsRow, Claimed
      <4>4. OwnsRow(q)
        BY <3>1, <4>1, <4>3 DEF OwnsRow, Claimed
      <4>5. row[pos[q]].mtime = seen[q][pos[q]]
        BY <4>1, <4>4 DEF OwnFingerprint
      <4> QED
        BY <3>1, <3>3, <4>1, <4>2, <4>5
    <3> QED
      BY <3>3, <3>5 DEF OwnFingerprint, WorkPhases, ToolPhases
  <2>5. PromotionIsPast'
    <3>1. pos[r] \in Archives /\ disk' = disk
      BY <1>13, InHand DEF Complete, WorkPhases
    <3>2. seen[r][pos[r]] <= got[r] /\ got[r] <= disk[pos[r]]
      BY <1>13 DEF Complete, GotIsCurrent
    <3>3. CASE OwnsRow(r)
      <4>1. row[pos[r]].mtime = seen[r][pos[r]]
        BY <1>13, <3>3 DEF Complete, OwnFingerprint, WorkPhases
      <4>2. row'[pos[r]].mtime = row[pos[r]].mtime /\ exver'[pos[r]] = got[r]
        BY <1>13, <3>1, <3>3, PromoteFields DEF Complete, TypeOK
      <4>3. \A b \in Archives \ {pos[r]} : row'[b] = row[b] /\ exver'[b] = exver[b]
        BY <1>13, <3>3 DEF Complete, TypeOK
      <4> QED
        BY <3>1, <3>2, <4>1, <4>2, <4>3 DEF PromotionIsPast, Extracted
    <3>4. CASE ~OwnsRow(r)
      BY <1>13, <3>4 DEF Complete, PromotionIsPast, Extracted
    <3> QED
      BY <3>3, <3>4
  <2> QED
    BY <2>1, <2>2, <2>3, <2>4, <2>5
<1>14. ASSUME NEW r \in Runs, CompleteFails(r) PROVE Parts'
  BY <1>14, <1>0 DEF CompleteFails, TokensGranted, SeenIsPast, GotIsCurrent, OwnFingerprint,
    PromotionIsPast, TypeOK, OwnsRow, Claimed, Extracted, WorkPhases, ToolPhases
<1>15. ASSUME NEW r \in Runs, Release(r) PROVE Parts'
  <2>1. TokensGranted'
    <3>1. \A b \in Archives : row'[b].token = row[b].token \/ row'[b].token = 0
      BY <1>15 DEF Release, NoRow, TypeOK
    <3>2. \A q \in Runs : tok'[q] = tok[q] \/ tok'[q] = 0
      BY <1>15 DEF Release, Advance, TypeOK
    <3> QED
      BY <1>15, <3>1, <3>2, Numbers DEF Release, TokensGranted
  <2>2. SeenIsPast'
    BY <1>15, <1>0 DEF Release, Advance, NoRow, SeenIsPast, TypeOK
  <2>3. GotIsCurrent'
    BY <1>15, <1>0 DEF Release, Advance, NoRow, GotIsCurrent, TypeOK, WorkPhases, ToolPhases
  <2>4. OwnFingerprint'
    <3>1. \A b \in Archives : row'[b] = row[b] \/ row'[b].status = "none"
      BY <1>15 DEF Release, NoRow, TypeOK
    <3>2. \A q \in Runs \ {r} : phase'[q] = phase[q] /\ tok'[q] = tok[q] /\ pos'[q] = pos[q]
      BY <1>15 DEF Release, Advance, TypeOK
    <3>3. phase'[r] = "next" /\ seen' = seen
      BY <1>15 DEF Release, Advance, TypeOK
    <3>4. \A q \in Runs : phase[q] \in WorkPhases => pos[q] \in Archives
      BY InHand
    <3> QED
      BY <3>1, <3>2, <3>3, <3>4 DEF OwnFingerprint, OwnsRow, Claimed, WorkPhases, ToolPhases
  <2>5. PromotionIsPast'
    BY <1>15, <1>0 DEF Release, Advance, NoRow, PromotionIsPast, TypeOK, Extracted
  <2> QED
    BY <2>1, <2>2, <2>3, <2>4, <2>5
<1>16. ASSUME NEW r \in Runs, ReleaseFails(r) PROVE Parts'
  <2>1. TokensGranted'
    BY <1>16, <1>0 DEF ReleaseFails, Advance, TokensGranted, TypeOK
  <2>2. SeenIsPast'
    BY <1>16, <1>0 DEF ReleaseFails, Advance, SeenIsPast, TypeOK
  <2>3. GotIsCurrent'
    BY <1>16, <1>0 DEF ReleaseFails, Advance, GotIsCurrent, TypeOK, WorkPhases, ToolPhases
  <2>4. OwnFingerprint'
    BY <1>16, <1>0 DEF ReleaseFails, Advance, OwnFingerprint, TypeOK, OwnsRow, Claimed, WorkPhases, ToolPhases
  <2>5. PromotionIsPast'
    BY <1>16, <1>0 DEF ReleaseFails, Advance, PromotionIsPast, TypeOK, Extracted
  <2> QED
    BY <2>1, <2>2, <2>3, <2>4, <2>5
<1>17. ASSUME NEW r \in Runs, EndRun(r) PROVE Parts'
  <2>1. TokensGranted'
    BY <1>17, <1>0 DEF EndRun, Forget, TokensGranted, TypeOK
  <2>2. SeenIsPast'
    <3>1. \A b \in Archives : 1 <= disk[b]
      <4>1. \A b \in Archives : disk[b] \in 1..MaxVersion
        BY DEF TypeOK
      <4> QED
        BY <4>1, <1>0
    <3>2. \A q \in Runs, b \in Archives : seen'[q][b] = seen[q][b] \/ seen'[q][b] = 1
      BY <1>17 DEF EndRun, Forget, TypeOK
    <3> QED
      BY <1>17, <3>1, <3>2 DEF EndRun, SeenIsPast
  <2>3. GotIsCurrent'
    BY <1>17, <1>0 DEF EndRun, Forget, GotIsCurrent, TypeOK, WorkPhases, ToolPhases
  <2>4. OwnFingerprint'
    BY <1>17, <1>0 DEF EndRun, Forget, OwnFingerprint, TypeOK, OwnsRow, Claimed, WorkPhases, ToolPhases
  <2>5. PromotionIsPast'
    BY <1>17, <1>0 DEF EndRun, Forget, PromotionIsPast, TypeOK, Extracted
  <2> QED
    BY <2>1, <2>2, <2>3, <2>4, <2>5
<1> QED
  BY <1>1, <1>2, <1>3, <1>4, <1>5, <1>6, <1>7, <1>8, <1>9, <1>10, <1>11, <1>12, <1>13, <1>14, <1>15, <1>16, <1>17 DEF Next, RunStep

\* The strengthening holds initially.
LEMMA SkipInit == Init => SkipInv
<1> SUFFICES ASSUME Init PROVE SkipInv
  OBVIOUS
<1>1. \A a \in Archives : row[a].token = 0 /\ row[a].mtime = 0
  BY DEF Init, FirstRows, LegacyRow, NoRow
<1> QED
  BY <1>1, TypeInit, Bounds DEF Init, SkipInv, TokensGranted, SeenIsPast, GotIsCurrent, OwnFingerprint,
    PromotionIsPast, WorkPhases, ToolPhases

\* The strengthening holds in every reachable state.
LEMMA SkipInductive == Spec => []SkipInv
<1>1. SkipInv /\ [Next]_vars => SkipInv'
  BY SkipStep, TypeStep DEF SkipInv
<1> QED
  BY SkipInit, <1>1, PTL DEF Spec

\* Whatever is rewritten between the scan, the stat, the claim and unar, an
\* archive that would be skipped as already extracted is the one extracted.
THEOREM SkipTheorem == Spec => []SkipIsSound
<1>1. SkipInv => SkipIsSound
  BY Numbers DEF SkipInv, SkipIsSound, PromotionIsPast, IdentityMatches, Fingerprinted
<1> QED
  BY <1>1, SkipInductive, PTL

-----------------------------------------------------------------------------
(* Revoked owners and recorded outputs.                                    *)

\* A claimed row changes only by the hand of the run whose token it carries, or
\* by a reclaim once it is ClaimTTL old: a revoked owner changes nothing.
THEOREM RevokedOwnerTheorem == Spec => RevokedOwnerHarmless
<1> DEFINE A == \A a \in Archives : Claimed(a) /\ row'[a] # row[a] =>
          \E r \in Runs :
             \/ /\ pos[r] = a /\ tok[r] = row[a].token
                /\ tok'[r] = 0 /\ row'[a].status # "claimed"
             \/ /\ tok'[r] = row'[a].token /\ tok'[r] # tok[r]
                /\ now[r] - row[a].at >= ClaimTTL
<1>1. SkipInv /\ [Next]_vars => [A]_vars
  <2> SUFFICES ASSUME SkipInv, Next, NEW a \in Archives, Claimed(a), row'[a] # row[a]
               PROVE  \E r \in Runs :
             \/ /\ pos[r] = a /\ tok[r] = row[a].token
                /\ tok'[r] = 0 /\ row'[a].status # "claimed"
             \/ /\ tok'[r] = row'[a].token /\ tok'[r] # tok[r]
                /\ now[r] - row[a].at >= ClaimTTL
    OBVIOUS
  <2> USE DEF SkipInv
  <2>1. ASSUME NEW r \in Runs, ClaimNew(r)
        PROVE  tok'[r] = row'[a].token /\ tok'[r] # tok[r] /\ now[r] - row[a].at >= ClaimTTL
    <3>1. pos[r] = a
      BY <2>1 DEF ClaimNew, TypeOK
    <3>2. row'[a].token = tokens + 1 /\ tok'[r] = tokens + 1
      BY <2>1, <3>1 DEF ClaimNew, TypeOK
    <3>3. tok[r] # tokens + 1
      BY Numbers DEF TokensGranted
    <3> QED
      BY <2>1, <3>1, <3>2, <3>3 DEF ClaimNew, Claimable, Claimed, Extracted
  <2>2. ASSUME NEW r \in Runs, Complete(r) \/ Release(r)
        PROVE  pos[r] = a /\ tok[r] = row[a].token /\ tok'[r] = 0 /\ row'[a].status # "claimed"
    <3>1. OwnsRow(r) /\ pos[r] = a
      BY <2>2 DEF Complete, Release, TypeOK
    <3>2. row[a] \in Rows
      BY DEF TypeOK
    <3> QED
      BY <2>2, <3>1, <3>2 DEF Complete, Release, Advance, OwnsRow, NoRow, TypeOK, Rows
  <2>3. \E r \in Runs : ClaimNew(r) \/ Complete(r) \/ Release(r)
    BY DEF Next, RunStep, Tick, Rewrite, Crash, StartRun, Skip, ClaimRefused, TestPass, ToolFails,
      ExtractEnds, FinalizeEnds, CompleteFails, ReleaseFails, EndRun, dbVars
  <2> QED
    BY <2>1, <2>2, <2>3
<1>2. Spec => []SkipInv
  BY SkipInductive, PTL
<1> QED
  BY <1>1, <1>2, PTL DEF Spec, RevokedOwnerHarmless

\* Recorded outputs go only when they have expired or when the archive that
\* replaces them has been extracted: claims, failures and crashes keep them.
THEOREM OutputsTheorem == Spec => OutputsOutliveReclaim
<1> DEFINE A == \A a \in Archives : outs'[a] # outs[a] =>
          \/ row[a].status = "claimed" /\ row'[a].status = "extracted"
          \/ outs'[a] = NoOutput /\ clock - outs[a].at >= ProtectSeconds
<1>1. TypeOK /\ [Next]_vars => [A]_vars
  <2> SUFFICES ASSUME TypeOK, Next, NEW a \in Archives, outs'[a] # outs[a]
               PROVE  \/ row[a].status = "claimed" /\ row'[a].status = "extracted"
                      \/ outs'[a] = NoOutput /\ clock - outs[a].at >= ProtectSeconds
    OBVIOUS
  <2>1. ASSUME NEW r \in Runs, Complete(r)
        PROVE  row[a].status = "claimed" /\ row'[a].status = "extracted"
    <3>1. OwnsRow(r) /\ pos[r] = a
      BY <2>1 DEF Complete, TypeOK
    <3>2. row[a] \in Rows
      BY DEF TypeOK
    <3> QED
      BY <2>1, <3>1, <3>2 DEF Complete, OwnsRow, Claimed, TypeOK, Rows
  <2>2. ASSUME NEW r \in Runs, EndRun(r)
        PROVE  outs'[a] = NoOutput /\ clock - outs[a].at >= ProtectSeconds
    BY <2>2 DEF EndRun
  <2>3. \E r \in Runs : Complete(r) \/ EndRun(r)
    BY DEF Next, RunStep, Tick, Rewrite, Crash, StartRun, Skip, ClaimNew, ClaimRefused, TestPass,
      ToolFails, ExtractEnds, FinalizeEnds, CompleteFails, Release, ReleaseFails, dbVars
  <2> QED
    BY <2>1, <2>2, <2>3
<1> QED
  BY <1>1, TypeCorrect, PTL DEF Spec, OutputsOutliveReclaim

-----------------------------------------------------------------------------
(* A young pass keeps its claim.                                           *)

\* The strengthening of YoungPassKeepsClaim: the row a run owns carries the start
\* of its pass, no pass starts in the future, and no two runs share a token.
Past == \A r \in Runs : now[r] <= clock
OwnClaimTime ==
    \A r \in Runs : phase[r] \in WorkPhases /\ OwnsRow(r) => row[pos[r]].at = now[r]
OwnToken ==
    \A r, s \in Runs : phase[r] \in WorkPhases /\ phase[s] \in WorkPhases /\ tok[r] = tok[s] => r = s
YoungParts == YoungPassKeepsClaim /\ Past /\ OwnClaimTime /\ OwnToken
YoungInv == SkipInv /\ YoungParts

\* A step that leaves the table and the runs at work as they are preserves it.
LEMMA YoungUnmoved ==
    ASSUME YoungParts, UNCHANGED <<clock, row>>, Past',
           \A r \in Runs : phase'[r] \in WorkPhases =>
              phase[r] \in WorkPhases /\ tok'[r] = tok[r] /\ pos'[r] = pos[r] /\ now'[r] = now[r]
    PROVE  YoungParts'
BY DEF YoungParts, YoungPassKeepsClaim, OwnClaimTime, OwnToken, OwnsRow, Claimed

\* A claim is granted over the row of a run at work only when that run's pass is
\* ClaimTTL old.
LEMMA YoungClaim ==
    ASSUME YoungInv, SkipInv', NEW r \in Runs, ClaimNew(r) PROVE YoungParts'
<1> DEFINE a == pos[r]
<1> USE DEF YoungInv, YoungParts
<1>1. /\ a \in Archives /\ phase[r] = "next"
      /\ UNCHANGED <<clock, now, pos>>
      /\ tok'[r] = tokens + 1 /\ row'[a].token = tokens + 1
      /\ row'[a].status = "claimed" /\ row'[a].at = now[r]
  BY InHand DEF ClaimNew, SkipInv, TypeOK, HasNext
<1>2. \A s \in Runs \ {r} : phase'[s] = phase[s] /\ tok'[s] = tok[s] /\ tok[s] # tokens + 1
  BY <1>1, Numbers DEF ClaimNew, SkipInv, TypeOK, TokensGranted
<1>3. \A b \in Archives \ {a} : row'[b] = row[b]
  BY <1>1 DEF ClaimNew, SkipInv, TypeOK
<1>4. \A s \in Runs : phase[s] \in WorkPhases => pos[s] \in Archives
  BY InHand DEF SkipInv
<1>5. YoungPassKeepsClaim'
  <2> SUFFICES ASSUME NEW s \in Runs, phase'[s] \in WorkPhases, clock - now[s] < ClaimTTL
               PROVE  OwnsRow(s)'
    BY <1>1 DEF YoungPassKeepsClaim
  <2>1. CASE s = r
    BY <2>1, <1>1 DEF OwnsRow, Claimed
  <2>2. CASE s # r /\ pos[s] # a
    BY <2>2, <1>1, <1>2, <1>3, <1>4 DEF YoungPassKeepsClaim, OwnsRow, Claimed
  <2>3. CASE s # r /\ pos[s] = a
    <3>1. phase[s] \in WorkPhases /\ OwnsRow(s) /\ row[a].at = now[s]
      BY <2>3, <1>2 DEF YoungPassKeepsClaim, OwnClaimTime
    <3>2. now[r] - now[s] >= ClaimTTL
      BY <3>1, <2>3 DEF ClaimNew, Claimable, OwnsRow, Claimed, Extracted
    <3>3. now[r] <= clock /\ now[r] \in Nat /\ now[s] \in Nat /\ clock \in Nat
      BY DEF Past, SkipInv, TypeOK
    <3> QED
      BY <3>2, <3>3, LedgerAssumption
  <2> QED
    BY <2>1, <2>2, <2>3
<1>6. Past'
  BY <1>1 DEF Past
<1>7. OwnClaimTime'
  <2> SUFFICES ASSUME NEW s \in Runs, phase'[s] \in WorkPhases, OwnsRow(s)'
               PROVE  row'[pos[s]].at = now[s]
    BY <1>1 DEF OwnClaimTime
  <2>1. CASE s = r
    BY <2>1, <1>1
  <2>2. CASE s # r /\ pos[s] # a
    BY <2>2, <1>1, <1>2, <1>3, <1>4 DEF OwnClaimTime, OwnsRow, Claimed
  <2>3. CASE s # r /\ pos[s] = a
    BY <2>3, <1>1, <1>2 DEF OwnsRow
  <2> QED
    BY <2>1, <2>2, <2>3
<1>8. OwnToken'
  BY <1>1, <1>2 DEF OwnToken
<1> QED
  BY <1>5, <1>6, <1>7, <1>8

\* A run that promotes or drops its row takes nothing from another one: no row
\* has two owners.
LEMMA YoungRelease ==
    ASSUME YoungInv, SkipInv', NEW r \in Runs, Complete(r) \/ Release(r) PROVE YoungParts'
<1> USE DEF YoungInv, YoungParts
<1>1. /\ UNCHANGED <<clock, now>>
      /\ phase[r] \in WorkPhases /\ phase'[r] = "next"
      /\ \A s \in Runs \ {r} : phase'[s] = phase[s] /\ tok'[s] = tok[s] /\ pos'[s] = pos[s]
  BY DEF Complete, Release, Advance, SkipInv, TypeOK, WorkPhases
<1>2. \A b \in Archives : row'[b] # row[b] => OwnsRow(r) /\ pos[r] = b
  BY DEF Complete, Release, SkipInv, TypeOK
<1>3. ASSUME NEW s \in Runs \ {r}, phase[s] \in WorkPhases, OwnsRow(s)
      PROVE  row'[pos[s]] = row[pos[s]]
  <2>1. pos[s] \in Archives
    BY <1>3, InHand DEF SkipInv
  <2> QED
    BY <2>1, <1>1, <1>2, <1>3 DEF OwnToken, OwnsRow
<1>4. ASSUME NEW s \in Runs, phase'[s] \in WorkPhases, OwnsRow(s)' PROVE OwnsRow(s)
  <2>1. s # r /\ pos[s] \in Archives
    BY <1>1, <1>4, InHand DEF SkipInv, WorkPhases, ToolPhases
  <2>2. row'[pos[s]] = row[pos[s]]
    <3>1. SUFFICES ASSUME row'[pos[s]] # row[pos[s]] PROVE FALSE
      OBVIOUS
    <3>2. OwnsRow(r) /\ pos[r] = pos[s] /\ row[pos[s]] \in Rows
      BY <3>1, <2>1, <1>2 DEF SkipInv, TypeOK
    <3>3. row'[pos[s]].status # "claimed"
      BY <3>2, <2>1 DEF Complete, Release, NoRow, SkipInv, TypeOK, Rows
    <3> QED
      BY <3>3, <1>1, <1>4, <2>1 DEF OwnsRow, Claimed
  <2> QED
    BY <2>1, <2>2, <1>1, <1>4 DEF OwnsRow, Claimed
<1>5. YoungPassKeepsClaim'
  BY <1>1, <1>3 DEF YoungPassKeepsClaim, OwnsRow, Claimed, WorkPhases, ToolPhases
<1>6. Past'
  BY <1>1 DEF Past
<1>7. OwnClaimTime'
  BY <1>1, <1>3, <1>4 DEF OwnClaimTime, WorkPhases, ToolPhases
<1>8. OwnToken'
  BY <1>1 DEF OwnToken, WorkPhases, ToolPhases
<1> QED
  BY <1>5, <1>6, <1>7, <1>8

\* Every step preserves the strengthening of YoungPassKeepsClaim.
LEMMA YoungStep ==
    ASSUME YoungInv, SkipInv', [Next]_vars PROVE YoungInv'
<1> SUFFICES YoungParts'
  BY DEF YoungInv
<1> USE DEF YoungInv, dbVars, runVars
<1>0. ClaimTTL \in Nat /\ clock \in Nat /\ clock' \in Nat /\ \A r \in Runs : now[r] \in Nat
  BY LedgerAssumption DEF SkipInv, TypeOK
<1>1. CASE UNCHANGED vars
  BY <1>1, YoungUnmoved DEF vars, YoungParts, Past
<1>2. CASE Tick
  BY <1>2, <1>0 DEF Tick, YoungParts, YoungPassKeepsClaim, Past, OwnClaimTime, OwnToken, OwnsRow, Claimed
<1>3. ASSUME NEW a \in Archives, Rewrite(a) PROVE YoungParts'
  BY <1>3, YoungUnmoved DEF Rewrite, YoungParts, Past
<1>4. ASSUME NEW r \in Runs, Crash(r) \/ StartRun(r) \/ EndRun(r) PROVE YoungParts'
  <2>0. UNCHANGED <<clock, row>> /\ \A s \in Runs : now'[s] \in {0, clock, now[s]}
    BY <1>4 DEF Crash, StartRun, EndRun, Forget, SkipInv, TypeOK
  <2>1. Past'
    BY <2>0, <1>0 DEF YoungParts, Past
  <2> QED
    BY <1>4, <2>0, <2>1, YoungUnmoved DEF Crash, StartRun, EndRun, Forget, WorkPhases, ToolPhases, SkipInv, TypeOK
<1>5. ASSUME NEW r \in Runs, Skip(r) \/ ClaimRefused(r) \/ ReleaseFails(r) PROVE YoungParts'
  <2>1. UNCHANGED <<clock, row>> /\ Past'
    BY <1>5 DEF Skip, ClaimRefused, ReleaseFails, YoungParts, Past
  <2> QED
    BY <1>5, <2>1, YoungUnmoved DEF Skip, ClaimRefused, ReleaseFails, Advance, WorkPhases, ToolPhases,
      SkipInv, TypeOK
<1>6. ASSUME NEW r \in Runs,
             TestPass(r) \/ ToolFails(r) \/ ExtractEnds(r) \/ FinalizeEnds(r) \/ CompleteFails(r)
      PROVE  YoungParts'
  <2>1. UNCHANGED <<clock, row, tok, pos, now>> /\ Past'
    BY <1>6 DEF TestPass, ToolFails, ExtractEnds, FinalizeEnds, CompleteFails, YoungParts, Past
  <2>2. \A s \in Runs : phase'[s] \in WorkPhases => phase[s] \in WorkPhases
    BY <1>6 DEF TestPass, ToolFails, ExtractEnds, FinalizeEnds, CompleteFails, WorkPhases, ToolPhases,
      SkipInv, TypeOK
  <2> QED
    BY <2>1, <2>2, YoungUnmoved
<1> QED
  BY <1>1, <1>2, <1>3, <1>4, <1>5, <1>6, YoungClaim, YoungRelease DEF Next, RunStep

\* Whatever the tools, the other runs and the crashes do, a pass younger than
\* ClaimTTL still owns the claim of the archive it works on.
THEOREM YoungPassTheorem == Spec => []YoungPassKeepsClaim
<1>1. Init => YoungInv
  BY SkipInit, LedgerAssumption DEF Init, YoungInv, YoungParts, YoungPassKeepsClaim, Past, OwnClaimTime,
    OwnToken, WorkPhases, ToolPhases
<1>2. YoungInv /\ SkipInv' /\ [Next]_vars => YoungInv'
  BY YoungStep
<1>3. YoungInv => YoungPassKeepsClaim
  BY DEF YoungInv, YoungParts
<1> QED
  BY <1>1, <1>2, <1>3, SkipInductive, PTL DEF Spec

-----------------------------------------------------------------------------
(* The ledger is a table of fenced leases.                                 *)

\* A run holds a token exactly while it works on an archive.
WorkHasToken == \A r \in Runs : phase[r] \in WorkPhases <=> tok[r] # 0

LEMMA WorkStep == TypeOK /\ WorkHasToken /\ [Next]_vars => WorkHasToken'
<1> SUFFICES ASSUME TypeOK, WorkHasToken, [Next]_vars PROVE WorkHasToken'
  OBVIOUS
<1> USE DEF dbVars, runVars, WorkHasToken, WorkPhases, ToolPhases
<1>1. CASE UNCHANGED <<phase, tok>>
  BY <1>1
<1>2. ASSUME NEW r \in Runs, Crash(r) \/ EndRun(r) PROVE WorkHasToken'
  BY <1>2 DEF Crash, EndRun, Forget, TypeOK
<1>3. ASSUME NEW r \in Runs, StartRun(r) PROVE WorkHasToken'
  BY <1>3 DEF StartRun, TypeOK
<1>4. ASSUME NEW r \in Runs, ClaimNew(r) PROVE WorkHasToken'
  <2>1. tokens + 1 # 0
    BY Bounds DEF TypeOK
  <2> QED
    BY <1>4, <2>1 DEF ClaimNew, HasNext, TypeOK
<1>5. ASSUME NEW r \in Runs,
             Skip(r) \/ ClaimRefused(r) \/ Complete(r) \/ Release(r) \/ ReleaseFails(r)
      PROVE  WorkHasToken'
  BY <1>5 DEF Skip, ClaimRefused, Complete, Release, ReleaseFails, Advance, TypeOK
<1>6. ASSUME NEW r \in Runs,
             TestPass(r) \/ ToolFails(r) \/ ExtractEnds(r) \/ FinalizeEnds(r) \/ CompleteFails(r)
      PROVE  WorkHasToken'
  BY <1>6 DEF TestPass, ToolFails, ExtractEnds, FinalizeEnds, CompleteFails, TypeOK
<1> QED
  BY <1>1, <1>2, <1>3, <1>4, <1>5, <1>6 DEF Next, RunStep, Tick, Rewrite, vars

LeaseOf(a) == IF Claimed(a) THEN row[a].token ELSE 0
HeldBy(r) == [token |-> tok[r], on |-> IF tok[r] = 0 THEN 0 ELSE pos[r]]
leases == [a \in Archives |-> LeaseOf(a)]
holds == [r \in Runs |-> HeldBy(r)]

\* The refinement mapping in these names.
LEMMA Mapped ==
    /\ leases = [a \in Archives |-> IF Claimed(a) THEN row[a].token ELSE 0]
    /\ holds = [r \in Runs |-> [token |-> tok[r], on |-> IF tok[r] = 0 THEN 0 ELSE pos[r]]]
    /\ leases' = [a \in Archives |-> IF Claimed(a)' THEN row'[a].token ELSE 0]
    /\ holds' = [r \in Runs |-> [token |-> tok'[r], on |-> IF tok'[r] = 0 THEN 0 ELSE pos'[r]]]
BY DEF leases, holds, LeaseOf, HeldBy

\* Whatever changes neither a row nor what a run holds goes unnoticed.
LEMMA Unnoticed ==
    ASSUME UNCHANGED <<tokens, row>>,
           \A r \in Runs : tok'[r] = tok[r] /\ (tok[r] # 0 => pos'[r] = pos[r])
    PROVE  UNCHANGED <<tokens, leases, holds>>
<1>1. \A a \in Archives : LeaseOf(a)' = LeaseOf(a)
  BY DEF LeaseOf, Claimed
<1>2. \A r \in Runs : HeldBy(r)' = HeldBy(r)
  BY DEF HeldBy
<1> QED
  BY <1>1, <1>2 DEF leases, holds

\* A run whose work on an archive ends is idle in the eyes of the table.
LEMMA Quits ==
    ASSUME TypeOK, WorkHasToken, NEW r \in Runs, phase[r] \in WorkPhases, tok'[r] = 0,
           \A s \in Runs \ {r} : tok'[s] = tok[s] /\ pos'[s] = pos[s]
    PROVE  Lease!Quit(r)
<1>1. tok[r] # 0 /\ HeldBy(r) # [token |-> 0, on |-> 0]
  BY DEF WorkHasToken, HeldBy
<1>2. HeldBy(r)' = [token |-> 0, on |-> 0] /\ \A s \in Runs \ {r} : HeldBy(s)' = HeldBy(s)
  BY DEF HeldBy
<1>3. holds' = [holds EXCEPT ![r] = [token |-> 0, on |-> 0]] /\ holds[r] # [token |-> 0, on |-> 0]
  BY <1>1, <1>2 DEF holds
<1> QED
  BY <1>3, Mapped DEF Lease!Quit, Lease!Idle

\* A claim is a grant under a fresh token, whoever the row belonged to.
LEMMA ClaimGrants ==
    ASSUME SkipInv, WorkHasToken, NEW r \in Runs, NEW a \in Archives, pos[r] = a, ClaimNew(r)
    PROVE  Lease!Grant(r, a)
<1> USE DEF SkipInv
<1>0. tok[r] = 0
  BY DEF ClaimNew, HasNext, WorkHasToken, WorkPhases, ToolPhases
<1>1. /\ row'[a].status = "claimed" /\ row'[a].token = tokens + 1
      /\ \A b \in Archives \ {a} : row'[b] = row[b]
  BY <1>0 DEF ClaimNew, TypeOK
<1>2. /\ tok'[r] = tokens + 1 /\ tokens' = tokens + 1 /\ UNCHANGED <<pos, outs>>
      /\ \A s \in Runs \ {r} : tok'[s] = tok[s]
  BY DEF ClaimNew, TypeOK
<1>3. tokens + 1 # 0
  BY Bounds DEF TypeOK
<1>4. LeaseOf(a)' = tokens + 1 /\ \A b \in Archives \ {a} : LeaseOf(b)' = LeaseOf(b)
  BY <1>1 DEF LeaseOf, Claimed
<1>5. leases' = [leases EXCEPT ![a] = tokens + 1]
  BY <1>4 DEF leases
<1>6. /\ HeldBy(r) = [token |-> 0, on |-> 0]
      /\ HeldBy(r)' = [token |-> tokens + 1, on |-> a]
      /\ \A s \in Runs \ {r} : HeldBy(s)' = HeldBy(s)
  BY <1>0, <1>2, <1>3 DEF HeldBy
<1>7. holds' = [holds EXCEPT ![r] = [token |-> tokens + 1, on |-> a]] /\ holds[r] = [token |-> 0, on |-> 0]
  BY <1>6 DEF holds
<1> QED
  BY <1>2, <1>5, <1>7, Mapped DEF Lease!Grant, Lease!Idle

\* The owner of the row promotes or drops it: the lease is up.  Anybody else
\* changes nothing and only finds out.
LEMMA OwnerEnds ==
    ASSUME SkipInv, WorkHasToken, NEW r \in Runs, NEW a \in Archives, pos[r] = a,
           Complete(r) \/ Release(r)
    PROVE  Lease!Ends(r, a) \/ Lease!Gone(r)
<1> USE DEF SkipInv
<1>0. phase[r] \in WorkPhases /\ tok[r] # 0
  BY DEF Complete, Release, WorkHasToken, WorkPhases, ToolPhases
<1>1. /\ tok'[r] = 0 /\ \A s \in Runs \ {r} : tok'[s] = tok[s] /\ pos'[s] = pos[s]
      /\ tokens' = tokens
  BY DEF Complete, Release, Advance, TypeOK
<1>2. Lease!Quit(r)
  BY <1>0, <1>1, Quits
<1>3. CASE ~OwnsRow(r)
  <2>1. UNCHANGED <<row, outs>>
    BY <1>3 DEF Complete, Release
  <2>2. leases' = leases
    BY <2>1 DEF leases, LeaseOf, Claimed
  <2> QED
    BY <1>1, <1>2, <2>1, <2>2, Mapped DEF Lease!Gone
<1>4. CASE OwnsRow(r)
  <2>1. row'[a].status # "claimed" /\ \A b \in Archives \ {a} : row'[b] = row[b]
    <3>1. row[a] \in Rows
      BY <1>0 DEF TypeOK
    <3> QED
      BY <1>0, <1>4, <3>1 DEF Complete, Release, NoRow, TypeOK, Rows
  <2>2. LeaseOf(a)' = 0 /\ LeaseOf(a) = tok[r] /\ \A b \in Archives \ {a} : LeaseOf(b)' = LeaseOf(b)
    BY <1>4, <2>1 DEF LeaseOf, Claimed, OwnsRow
  <2>3. leases' = [leases EXCEPT ![a] = 0] /\ leases[a] = tok[r]
    BY <1>0, <2>2 DEF leases
  <2>4. holds[r].token = tok[r] /\ holds[r].on = a
    BY <1>0 DEF holds, HeldBy
  <2>5. \/ UNCHANGED outs
        \/ outs'[a] \in [version : Versions, at : Nat] /\ outs' = [outs EXCEPT ![a] = outs'[a]]
    <3>1. CASE Release(r)
      BY <3>1 DEF Release
    <3>2. CASE Complete(r)
      <4>1. got[r] \in Versions
        <5>1. seen[r][a] \in Versions /\ disk[a] \in Versions /\ got[r] \in Nat
          BY <1>0, Numbers DEF TypeOK
        <5>2. seen[r][a] <= got[r] /\ got[r] <= disk[a]
          BY <3>2 DEF Complete, GotIsCurrent
        <5> QED
          BY <5>1, <5>2, Bounds DEF Versions
      <4>2. outs' = [outs EXCEPT ![a] = [version |-> got[r], at |-> clock]] /\ clock \in Nat
        BY <1>4, <3>2 DEF Complete, TypeOK
      <4>3. outs'[a] = [version |-> got[r], at |-> clock]
        BY <1>0, <4>2 DEF TypeOK
      <4>4. outs'[a] \in [version : Versions, at : Nat]
        BY <4>1, <4>2, <4>3
      <4>5. outs' = [outs EXCEPT ![a] = outs'[a]]
        BY <4>2, <4>3, Zenon
      <4> QED
        BY <4>4, <4>5
    <3> QED
      BY <3>1, <3>2
  <2> QED
    BY <1>1, <1>2, <2>3, <2>4, <2>5, Mapped DEF Lease!Ends
<1> QED
  BY <1>3, <1>4

\* Every step of the runs is a step of the leases, or none that they see.
LEMMA LeaseStep ==
    ASSUME SkipInv, WorkHasToken, WorkHasToken', [Next]_vars
    PROVE  Lease!LeaseNext \/ UNCHANGED <<tokens, leases, holds, outs>>
<1> USE DEF SkipInv, dbVars, runVars
<1>1. CASE UNCHANGED vars
  BY <1>1, Unnoticed DEF vars
<1>2. CASE Tick \/ \E a \in Archives : Rewrite(a)
  BY <1>2, Unnoticed DEF Tick, Rewrite
<1>3. ASSUME NEW r \in Runs, ClaimNew(r) PROVE Lease!LeaseNext
  <2>1. PICK a \in Archives : pos[r] = a
    BY <1>3, InHand DEF ClaimNew
  <2> QED
    BY <1>3, <2>1, ClaimGrants DEF Lease!LeaseNext
<1>4. ASSUME NEW r \in Runs, Complete(r) \/ Release(r) PROVE Lease!LeaseNext
  <2>1. PICK a \in Archives : pos[r] = a
    BY <1>4, InHand DEF Complete, Release, WorkPhases, ToolPhases
  <2> QED
    BY <1>4, <2>1, OwnerEnds DEF Lease!LeaseNext
<1>5. ASSUME NEW r \in Runs, ReleaseFails(r) PROVE Lease!LeaseNext
  <2>1. /\ phase[r] \in WorkPhases /\ tok'[r] = 0 /\ UNCHANGED <<tokens, row, outs>>
        /\ \A s \in Runs \ {r} : tok'[s] = tok[s] /\ pos'[s] = pos[s]
    BY <1>5 DEF ReleaseFails, Advance, TypeOK, WorkPhases, ToolPhases
  <2>2. Lease!Quit(r) /\ leases' = leases
    BY <2>1, Quits DEF leases, LeaseOf, Claimed
  <2> QED
    BY <2>1, <2>2, Mapped DEF Lease!Gone, Lease!LeaseNext
<1>6. ASSUME NEW r \in Runs, Crash(r)
      PROVE  Lease!LeaseNext \/ UNCHANGED <<tokens, leases, holds, outs>>
  <2>1. /\ tok'[r] = 0 /\ UNCHANGED <<tokens, row, outs>>
        /\ \A s \in Runs \ {r} : tok'[s] = tok[s] /\ pos'[s] = pos[s]
    BY <1>6 DEF Crash, Forget, TypeOK
  <2>2. CASE phase[r] \in WorkPhases
    <3>1. Lease!Quit(r) /\ leases' = leases
      BY <2>1, <2>2, Quits DEF leases, LeaseOf, Claimed
    <3> QED
      BY <2>1, <3>1, Mapped DEF Lease!Gone, Lease!LeaseNext
  <2>3. CASE phase[r] \notin WorkPhases
    BY <2>1, <2>3, Unnoticed DEF WorkHasToken
  <2> QED
    BY <2>2, <2>3
<1>7. ASSUME NEW r \in Runs, EndRun(r)
      PROVE  Lease!LeaseNext \/ UNCHANGED <<tokens, leases, holds, outs>>
  <2>1. /\ tok'[r] = 0 /\ tok[r] = 0 /\ UNCHANGED <<tokens, row>>
        /\ \A s \in Runs \ {r} : tok'[s] = tok[s] /\ pos'[s] = pos[s]
    BY <1>7 DEF EndRun, Forget, TypeOK, WorkHasToken, WorkPhases, ToolPhases
  <2>2. UNCHANGED <<tokens, leases, holds>>
    BY <2>1, Unnoticed
  <2>3. CASE r = Service
    <3> DEFINE X == {a \in Archives : clock - outs[a].at >= ProtectSeconds}
    <3>1. outs' = [a \in Archives |-> IF a \in X THEN NoOutput ELSE outs[a]]
      BY <1>7, <2>3 DEF EndRun
    <3> QED
      BY <2>2, <3>1, Mapped DEF Lease!Expire, Lease!LeaseNext
  <2>4. CASE r # Service
    BY <1>7, <2>2, <2>4 DEF EndRun
  <2> QED
    BY <2>3, <2>4
<1>8. ASSUME NEW r \in Runs, StartRun(r) \/ Skip(r) \/ ClaimRefused(r)
      PROVE  UNCHANGED <<tokens, leases, holds, outs>>
  <2>1. /\ UNCHANGED <<tokens, row, outs>> /\ tok[r] = 0
        /\ \A s \in Runs : tok'[s] = tok[s] /\ (s # r => pos'[s] = pos[s])
    BY <1>8 DEF StartRun, Skip, ClaimRefused, HasNext, Advance, TypeOK, WorkHasToken, WorkPhases, ToolPhases
  <2> QED
    BY <2>1, Unnoticed
<1>9. ASSUME NEW r \in Runs,
             TestPass(r) \/ ToolFails(r) \/ ExtractEnds(r) \/ FinalizeEnds(r) \/ CompleteFails(r)
      PROVE  UNCHANGED <<tokens, leases, holds, outs>>
  BY <1>9, Unnoticed DEF TestPass, ToolFails, ExtractEnds, FinalizeEnds, CompleteFails
<1> QED
  BY <1>1, <1>2, <1>3, <1>4, <1>5, <1>6, <1>7, <1>8, <1>9 DEF Next, RunStep

\* The ledger implements fenced leases: what comes of an archive is recorded by
\* the one run that holds its claim, under a token of its own, whatever crashes,
\* fails, runs late or is taken for dead.
THEOREM LeaseTheorem == Spec => FencesRuns
<1>1. Init => Lease!LeaseInit /\ WorkHasToken
  <2> SUFFICES ASSUME Init PROVE Lease!LeaseInit /\ WorkHasToken
    OBVIOUS
  <2>1. WorkHasToken
    BY DEF Init, WorkHasToken, WorkPhases, ToolPhases
  <2>2. leases = [a \in Archives |-> 0] /\ holds = [r \in Runs |-> [token |-> 0, on |-> 0]]
    <3>1. \A a \in Archives : row[a].token = 0
      BY DEF Init, FirstRows, LegacyRow, NoRow
    <3> QED
      BY <3>1 DEF Init, leases, holds, LeaseOf, HeldBy
  <2> QED
    BY <2>1, <2>2, Mapped DEF Init, Lease!LeaseInit, Lease!Idle
<1>2. SkipInv /\ WorkHasToken /\ [Next]_vars => WorkHasToken'
  BY WorkStep DEF SkipInv
<1>3. SkipInv /\ WorkHasToken /\ WorkHasToken' /\ [Next]_vars => [Lease!LeaseNext]_(Lease!leaseVars)
  BY LeaseStep, Mapped DEF Lease!leaseVars
<1> QED
  BY <1>1, <1>2, <1>3, SkipInductive, PTL DEF Spec, FencesRuns, Lease!LeaseSpec

=============================================================================
