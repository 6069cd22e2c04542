-------------------------- MODULE ExtractionLedger --------------------------
(***************************************************************************)
(* The RAR extraction pass and the SQLite ledger that makes it idempotent  *)
(* and claim-safe: Extractor.extract_all / _extract_one over               *)
(* StateStore.claim_extraction / complete_extraction / release_extraction. *)
(*                                                                         *)
(* Several processes run the pass over the same archives and the same      *)
(* database: the service, once per poll cycle, and any one-shot `extract`. *)
(* A process may die between two steps; the database survives it.  One     *)
(* unit of the clock is a fraction of the tool timeout: a call of the      *)
(* archive tool (integrity test, extraction, member listing) lasts at most *)
(* ToolTimeout units, and everything else a run does takes no time.        *)
(***************************************************************************)
EXTENDS Integers, FiniteSets

CONSTANTS
    Runs,           \* processes that execute extract_all
    Service,        \* the run folded into the cleaner: only it prunes outputs
    NumArchives,    \* archives under the watch roots, in sorted order
    SizeOf,         \* size of each version of an archive
    ClaimTTL,       \* CLAIM_TTL_SECONDS
    ToolTimeout,    \* UnarArchiveTool.timeout_seconds
    ProtectSeconds, \* EXTRACT_PROTECT_SECONDS
    MaxClock,       \* bound: last instant considered
    MaxVersion,     \* bound: rewrites of one archive
    MaxClaims       \* bound: claims granted in one behaviour

ASSUME LedgerAssumption ==
    /\ Service \in Runs
    /\ NumArchives \in Nat /\ MaxVersion \in Nat \ {0} /\ MaxClaims \in Nat
    /\ ClaimTTL \in Nat \ {0} /\ ToolTimeout \in Nat \ {0}
    /\ ProtectSeconds \in Nat /\ MaxClock \in Nat
    /\ SizeOf \in [1..MaxVersion -> Nat]

Archives == 1..NumArchives
Versions == 1..MaxVersion

VARIABLES
    clock,    \* wall clock
    disk,     \* disk[a]: version of archive a now on disk; its mtime
    row,      \* table extractions, one row per archive path
    outs,     \* table extraction_outputs: version recorded for a, and when
    tokens,   \* claims granted so far; the next token is fresh
    phase,    \* where each run stands in extract_all / _extract_one
    now,      \* extract_all's `now`, stamped once when the pass starts
    seen,     \* newest mtime of each set, as the pass's scan found it
    pos,      \* archive in hand, or the one the pass takes next
    tok,      \* claim token of the archive in hand
    got,      \* version the tool read for the archive in hand
    since,    \* when the run's current tool call started
    fresh,    \* outputs surfaced in the pass's results so far
    produced, \* history: outputs the pass has identified on disk so far
    exver     \* history: version behind the last promotion of each row

dbVars == <<row, outs, tokens>>
runVars == <<phase, now, seen, pos, tok, got, since, fresh, produced>>
vars == <<clock, disk, dbVars, runVars, exver>>

NoRow == [status |-> "none", at |-> 0, size |-> 0, mtime |-> 0, token |-> 0]
NoOutput == [version |-> 0, at |-> 0]

Claimed(a) == row[a].status = "claimed"
Extracted(a) == row[a].status = "extracted"

\* The pass has archives left: find_first_volumes returns a sorted list.
HasNext(r) == phase[r] = "next" /\ pos[r] <= NumArchives

\* What an older release left behind: size, mtime and token are NULL, here 0
\* (no version has mtime 0 and no run works under token 0).
LegacyRow(status) == [NoRow EXCEPT !.status = status]
FirstRows == {NoRow, LegacyRow("claimed"), LegacyRow("extracted")}

\* _identity_matches: the row fingerprints the archive the run is looking at; a
\* legacy row has no fingerprint and matches whatever is on its path.
Fingerprinted(a) == row[a].mtime # 0
IdentityMatches(a, size, mtime) ==
    Fingerprinted(a) => row[a].size = size /\ row[a].mtime = mtime

ToolPhases == {"test", "extract", "finalize"}
WorkPhases == ToolPhases \cup {"complete", "release", "keep"}

Init ==
    /\ clock = 0
    /\ disk = [a \in Archives |-> 1]
    /\ row \in [Archives -> FirstRows]
    /\ outs = [a \in Archives |-> NoOutput]
    /\ tokens = 0
    /\ phase = [r \in Runs |-> "idle"]
    /\ now = [r \in Runs |-> 0]
    /\ seen = [r \in Runs |-> [a \in Archives |-> 1]]
    /\ pos = [r \in Runs |-> 1]
    /\ tok = [r \in Runs |-> 0]
    /\ got = [r \in Runs |-> 0]
    /\ since = [r \in Runs |-> 0]
    /\ fresh = [r \in Runs |-> {}]
    /\ produced = [r \in Runs |-> {}]
    /\ exver = [a \in Archives |-> 0]

-----------------------------------------------------------------------------
(* The environment.                                                        *)

\* Time passes while every run is idle or inside a tool call that has not hit
\* its timeout.
Tick ==
    /\ clock < MaxClock
    /\ \A r \in Runs : \/ phase[r] = "idle"
                       \/ phase[r] \in ToolPhases /\ clock - since[r] < ToolTimeout
    /\ clock' = clock + 1
    /\ UNCHANGED <<disk, dbVars, runVars, exver>>

\* A different archive is written to the same path (a re-download).
Rewrite(a) ==
    /\ disk[a] < MaxVersion
    /\ disk' = [disk EXCEPT ![a] = @ + 1]
    /\ UNCHANGED <<clock, dbVars, runVars, exver>>

\* Nothing of the pass outlives it in memory.
Forget(r) ==
    /\ phase' = [phase EXCEPT ![r] = "idle"]
    /\ now' = [now EXCEPT ![r] = 0]
    /\ seen' = [seen EXCEPT ![r] = [a \in Archives |-> 1]]
    /\ pos' = [pos EXCEPT ![r] = 1]
    /\ tok' = [tok EXCEPT ![r] = 0]
    /\ got' = [got EXCEPT ![r] = 0]
    /\ since' = [since EXCEPT ![r] = 0]
    /\ fresh' = [fresh EXCEPT ![r] = {}]
    /\ produced' = [produced EXCEPT ![r] = {}]

\* The process dies: its memory is lost, the database is not.
Crash(r) ==
    /\ phase[r] # "idle"
    /\ Forget(r)
    /\ UNCHANGED <<clock, disk, dbVars, exver>>

-----------------------------------------------------------------------------
(* One pass of a run.                                                      *)

StartRun(r) ==
    /\ phase[r] = "idle"
    /\ phase' = [phase EXCEPT ![r] = "next"]
    /\ now' = [now EXCEPT ![r] = clock]
    /\ seen' = [seen EXCEPT ![r] = disk]
    /\ UNCHANGED <<clock, disk, dbVars, pos, tok, got, since, fresh, produced, exver>>

\* Mutation of Advance: every second archive of the list is passed over.
AdvanceByTwo(r) ==
    /\ phase' = [phase EXCEPT ![r] = "next"]
    /\ pos' = [pos EXCEPT ![r] = @ + 2]
    /\ tok' = [tok EXCEPT ![r] = 0]
    /\ got' = [got EXCEPT ![r] = 0]
    /\ since' = [since EXCEPT ![r] = 0]

\* The archive in hand is dealt with: on to the next one.
Advance(r) ==
    /\ phase' = [phase EXCEPT ![r] = "next"]
    /\ pos' = [pos EXCEPT ![r] = @ + 1]
    /\ tok' = [tok EXCEPT ![r] = 0]
    /\ got' = [got EXCEPT ![r] = 0]
    /\ since' = [since EXCEPT ![r] = 0]

\* Not extracted this cycle, no claim taken: the settle guard or an incomplete
\* torrent defers it, the archive cannot be stat'ed, or the claim's transaction
\* fails (database locked past the busy timeout).
Skip(r) ==
    /\ HasNext(r)
    /\ Advance(r)
    /\ UNCHANGED <<clock, disk, dbVars, now, seen, fresh, produced, exver>>

\* Mutation of Claimable: any existing claim is taken for a crashed one.
ClaimableAnyAge(r, a, size) == ~Extracted(a) \/ ~IdentityMatches(a, size, seen[r][a])

\* claim_extraction grants a claim when the path has no row, when the row
\* records a different archive, or when the claim on it is ClaimTTL old.
Claimable(r, a, size) ==
    \/ row[a].status = "none"
    \/ Extracted(a) /\ ~IdentityMatches(a, size, seen[r][a])
    \/ Claimed(a) /\ now[r] - row[a].at >= ClaimTTL

\* Mutation of ClaimNew: superseding an archive also drops its recorded outputs.
ClaimNewDropsOutputs(r) ==
    /\ HasNext(r)
    /\ tokens < MaxClaims
    /\ LET a == pos[r]
           size == SizeOf[disk[a]] IN
       /\ Claimable(r, a, size)
       /\ row' = [row EXCEPT ![a] = [status |-> "claimed", at |-> now[r], size |-> size,
                                     mtime |-> seen[r][a], token |-> tokens + 1]]
       /\ outs' = [outs EXCEPT ![a] = NoOutput]
    /\ tokens' = tokens + 1
    /\ tok' = [tok EXCEPT ![r] = tokens + 1]
    /\ phase' = [phase EXCEPT ![r] = "test"]
    /\ since' = [since EXCEPT ![r] = clock]
    /\ UNCHANGED <<clock, disk, now, seen, pos, got, fresh, produced, exver>>

\* CLAIM_NEW: the row is (re-)armed with a fresh token.  The recorded outputs
\* of a superseded archive are left alone.  claimed_at is the pass's `now`.
ClaimNew(r) ==
    /\ HasNext(r)
    /\ tokens < MaxClaims
    /\ LET a == pos[r]
           size == SizeOf[disk[a]] IN
       /\ Claimable(r, a, size)
       /\ row' = [row EXCEPT ![a] = [status |-> "claimed", at |-> now[r], size |-> size,
                                     mtime |-> seen[r][a], token |-> tokens + 1]]
    /\ tokens' = tokens + 1
    /\ tok' = [tok EXCEPT ![r] = tokens + 1]
    /\ phase' = [phase EXCEPT ![r] = "test"]
    /\ since' = [since EXCEPT ![r] = clock]
    /\ UNCHANGED <<clock, disk, outs, now, seen, pos, got, fresh, produced, exver>>

\* CLAIM_DONE or CLAIM_BUSY: skipped, nothing written.
ClaimRefused(r) ==
    /\ HasNext(r)
    /\ ~Claimable(r, pos[r], SizeOf[disk[pos[r]]])
    /\ Advance(r)
    /\ UNCHANGED <<clock, disk, dbVars, now, seen, fresh, produced, exver>>

\* lsar -test passes; the destination is snapshotted and unar starts.
TestPass(r) ==
    /\ phase[r] = "test"
    /\ phase' = [phase EXCEPT ![r] = "extract"]
    /\ got' = [got EXCEPT ![r] = disk[pos[r]]]
    /\ since' = [since EXCEPT ![r] = clock]
    /\ UNCHANGED <<clock, disk, dbVars, now, seen, pos, tok, fresh, produced, exver>>

\* The test, the extraction or the post-extraction walk fails: the claim is
\* to be released and the archive retried next cycle, with no outputs.
ToolFails(r) ==
    /\ phase[r] \in ToolPhases
    /\ phase' = [phase EXCEPT ![r] = "release"]
    /\ UNCHANGED <<clock, disk, dbVars, now, seen, pos, tok, got, since,
                   fresh, produced, exver>>

\* unar ends; an archive rewritten meanwhile may have been read at any version.
ExtractEnds(r) ==
    /\ phase[r] = "extract"
    /\ phase' = [phase EXCEPT ![r] = "finalize"]
    /\ \E v \in got[r]..disk[pos[r]] : got' = [got EXCEPT ![r] = v]
    /\ since' = [since EXCEPT ![r] = clock]
    /\ UNCHANGED <<clock, disk, dbVars, now, seen, pos, tok, fresh,
                   produced, exver>>

\* _finalize_output lists the members and walks the destination.
FinalizeEnds(r) ==
    /\ phase[r] = "finalize"
    /\ phase' = [phase EXCEPT ![r] = "complete"]
    /\ produced' = [produced EXCEPT ![r] = @ \cup {<<pos[r], got[r]>>}]
    /\ UNCHANGED <<clock, disk, dbVars, now, seen, pos, tok, got, since,
                   fresh, exver>>

\* Mutation of OwnsRow: the status is checked, the claim token is not.
OwnsAnyClaim(r) == Claimed(pos[r])

\* The caller's claim is still the one on the row.
OwnsRow(r) == Claimed(pos[r]) /\ row[pos[r]].token = tok[r]

\* Mutation of Complete: the row is promoted with the fingerprint of the archive
\* that is on disk when unar has finished.
CompleteRefingerprints(r) ==
    /\ phase[r] = "complete"
    /\ IF OwnsRow(r)
       THEN /\ row' = [row EXCEPT ![pos[r]].status = "extracted",
                                  ![pos[r]].size = SizeOf[disk[pos[r]]],
                                  ![pos[r]].mtime = disk[pos[r]]]
            /\ outs' = [outs EXCEPT ![pos[r]] = [version |-> got[r], at |-> clock]]
            /\ exver' = [exver EXCEPT ![pos[r]] = got[r]]
       ELSE UNCHANGED <<row, outs, exver>>
    /\ fresh' = [fresh EXCEPT ![r] = @ \cup {<<pos[r], got[r]>>}]
    /\ Advance(r)
    /\ UNCHANGED <<clock, disk, tokens, now, seen, produced>>

\* complete_extraction: promote our claim and replace the recorded outputs; a
\* no-op when the claim was taken over.  Either way the result carries outputs.
Complete(r) ==
    /\ phase[r] = "complete"
    /\ IF OwnsRow(r)
       THEN /\ row' = [row EXCEPT ![pos[r]].status = "extracted"]
            /\ outs' = [outs EXCEPT ![pos[r]] = [version |-> got[r], at |-> clock]]
            /\ exver' = [exver EXCEPT ![pos[r]] = got[r]]
       ELSE UNCHANGED <<row, outs, exver>>
    /\ fresh' = [fresh EXCEPT ![r] = @ \cup {<<pos[r], got[r]>>}]
    /\ Advance(r)
    /\ UNCHANGED <<clock, disk, tokens, now, seen, produced>>

\* complete raises (database locked): release the claim, keep the outputs.
CompleteFails(r) ==
    /\ phase[r] = "complete"
    /\ phase' = [phase EXCEPT ![r] = "keep"]
    /\ UNCHANGED <<clock, disk, dbVars, now, seen, pos, tok, got, since,
                   fresh, produced, exver>>

\* release_extraction: drop the row only while it is claimed under our token.
Release(r) ==
    /\ phase[r] \in {"release", "keep"}
    /\ row' = IF OwnsRow(r) THEN [row EXCEPT ![pos[r]] = NoRow] ELSE row
    /\ fresh' = [fresh EXCEPT ![r] = IF phase[r] = "keep" THEN @ \cup {<<pos[r], got[r]>>} ELSE @]
    /\ Advance(r)
    /\ UNCHANGED <<clock, disk, outs, tokens, now, seen, produced, exver>>

\* release raises: extract_all's handler records a bare FAILED result.
ReleaseFails(r) ==
    /\ phase[r] \in {"release", "keep"}
    /\ Advance(r)
    /\ UNCHANGED <<clock, disk, dbVars, now, seen, fresh, produced, exver>>

\* End of the pass; the service prunes expired outputs.
EndRun(r) ==
    /\ phase[r] = "next" /\ pos[r] > NumArchives
    /\ Forget(r)
    /\ outs' = IF r = Service
               THEN [a \in Archives |-> IF clock - outs[a].at >= ProtectSeconds
                                        THEN NoOutput ELSE outs[a]]
               ELSE outs
    /\ UNCHANGED <<clock, disk, row, tokens, exver>>

RunStep(r) ==
    \/ StartRun(r) \/ Skip(r) \/ ClaimNew(r) \/ ClaimRefused(r)
    \/ TestPass(r) \/ ToolFails(r) \/ ExtractEnds(r) \/ FinalizeEnds(r)
    \/ Complete(r) \/ CompleteFails(r) \/ Release(r) \/ ReleaseFails(r) \/ EndRun(r)

Next ==
    \/ Tick
    \/ \E a \in Archives : Rewrite(a)
    \/ \E r \in Runs : Crash(r) \/ RunStep(r)

Spec == Init /\ [][Next]_vars

-----------------------------------------------------------------------------
(* What the ledger promises.                                               *)

Rows == [status : {"none", "claimed", "extracted"}, at : Nat, size : Nat,
         mtime : 0..MaxVersion, token : 0..MaxClaims]
Media == Archives \X (0..MaxVersion)

\* Every variable has its type; only a run at work holds a token.
TypeOK ==
    /\ clock \in Nat
    /\ disk \in [Archives -> Versions]
    /\ row \in [Archives -> Rows]
    /\ outs \in [Archives -> [version : 0..MaxVersion, at : Nat]]
    /\ tokens \in 0..MaxClaims
    /\ phase \in [Runs -> {"idle", "next"} \cup WorkPhases]
    /\ now \in [Runs -> Nat]
    /\ seen \in [Runs -> [Archives -> Versions]]
    /\ pos \in [Runs -> 1..NumArchives + 1]
    /\ tok \in [Runs -> 0..MaxClaims]
    /\ got \in [Runs -> 0..MaxVersion]
    /\ since \in [Runs -> Nat]
    /\ fresh \in [Runs -> SUBSET Media]
    /\ produced \in [Runs -> SUBSET Media]
    /\ exver \in [Archives -> 0..MaxVersion]
    /\ \A r \in Runs : phase[r] \in WorkPhases => pos[r] <= NumArchives

\* CLAIM_DONE is sound: when the row would make a run skip the archive now on
\* disk as "already extracted", the last promotion did extract that archive,
\* whatever was rewritten between the scan, the stat, the claim and unar.  Legacy
\* rows are excepted: they are skipped by their path alone, for good.
SkipIsSound ==
    \A a \in Archives :
        Extracted(a) /\ Fingerprinted(a) /\ IdentityMatches(a, SizeOf[disk[a]], disk[a]) => exver[a] = disk[a]

\* A revoked owner is harmless: a claimed row is promoted or dropped only by
\* the run that holds its token, and re-armed only once it is ClaimTTL old.
RevokedOwnerHarmless ==
    [][\A a \in Archives : Claimed(a) /\ row'[a] # row[a] =>
          \E r \in Runs :
             \/ /\ pos[r] = a /\ tok[r] = row[a].token
                /\ tok'[r] = 0 /\ row'[a].status # "claimed"
             \/ /\ tok'[r] = row'[a].token /\ tok'[r] # tok[r]
                /\ now[r] - row[a].at >= ClaimTTL]_vars

\* Extracted media loses its protection record only when it expires or when the
\* replacement is safely on disk: a claim, a failure or a crash never drops it.
OutputsOutliveReclaim ==
    [][\A a \in Archives : outs'[a] # outs[a] =>
          \/ row[a].status = "claimed" /\ row'[a].status = "extracted"
          \/ outs'[a] = NoOutput /\ clock - outs[a].at >= ProtectSeconds]_vars

\* A pass keeps the claim of the archive in hand as long as the pass itself is
\* younger than ClaimTTL: claimed_at is the start of the pass, not of the claim.
YoungPassKeepsClaim ==
    \A r \in Runs : phase[r] \in WorkPhases /\ clock - now[r] < ClaimTTL => OwnsRow(r)

\* A live extraction keeps its claim: no run is ever mistaken for a crashed one
\* and reclaimed out from under itself (state.py's promise for a CLAIM_TTL that is
\* at least the tool's timeout).
LiveClaimHeld == \A r \in Runs : phase[r] \in WorkPhases => OwnsRow(r)

\* Media a pass has identified on disk is in the results it hands to the
\* cleaner, also when persisting it failed (extractor.py's promise).
ProducedIsSurfaced == \A r \in Runs : phase[r] = "next" => produced[r] \subseteq fresh[r]

\* The ledger is a table of fenced leases: whatever runs crash, fail, run late or
\* are taken for dead, each claim is worked off by one run under a token of its
\* own, and only that run, while the claim is its own, records what came of it.
Lease == INSTANCE FencedLease WITH
    Holders <- Runs,
    Resources <- Archives,
    Yields <- [version : Versions, at : Nat],
    Nothing <- NoOutput,
    granted <- tokens,
    lease <- [a \in Archives |-> IF Claimed(a) THEN row[a].token ELSE 0],
    held <- [r \in Runs |-> [token |-> tok[r], on |-> IF tok[r] = 0 THEN 0 ELSE pos[r]]],
    yield <- outs
FencesRuns == Lease!LeaseSpec

=============================================================================
