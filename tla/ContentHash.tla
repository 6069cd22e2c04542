---------------------------- MODULE ContentHash ----------------------------
(***************************************************************************)
(* The content-hash pass over the duplicate report and its persistent      *)
(* cache: hasher.confirm_groups / _confirm_one / _hash_copy over           *)
(* state.HashCache.                                                        *)
(*                                                                         *)
(* A pass compares the copies of a group by digest.  It reads the identity *)
(* of every part first and the bytes afterwards, block by block, unless    *)
(* the cache holds a digest for that identity.  Several passes may share   *)
(* the cache: the lock on regeneration is best effort.  Files are rewritten*)
(* and replaced under them, and a pass dies between any two steps.         *)
(*                                                                         *)
(* A block is one sample of partial mode, a digest the blocks it was       *)
(* computed from (sha256 is taken to be injective), and a change always    *)
(* shows in the ctime or the inode.  Every path is mapped and inside its   *)
(* root, and no part is empty.                                             *)
(***************************************************************************)
EXTENDS Integers, Sequences, FiniteSets

CONSTANTS
    Passes,     \* processes that generate reports
    Modes,      \* HASH_MODE, as the processes are configured from start to start
    NumGroups,  \* identical groups, and same-size buckets of upgrade groups
    Copies, Paths,
    CopiesOf,   \* CopiesOf[g]: its logical copies, best first
    PartsOf,    \* PartsOf[c]: the paths of a copy's parts, in order
    SizeOf,     \* SizeOf[p]: blocks of the file at p, as Plex reports it
    Blocks,     \* what a block may hold
    Contents,   \* Contents[p]: what may be at p, a sequence of blocks; <<>>: no file
    MaxRows,    \* cap on cache rows, 0 for none
    MaxChanges  \* bound: changes of files

Groups == 1..NumGroups
Keys == {PartsOf[c] : c \in Copies}

ASSUME HashAssumption ==
    /\ Modes \subseteq {"partial", "full"}
    /\ NumGroups \in Nat \ {0} /\ CopiesOf \in [Groups -> Seq(Copies) \ {<<>>}]
    /\ PartsOf \in [Copies -> Seq(Paths) \ {<<>>}]
    /\ SizeOf \in [Paths -> Nat \ {0}] /\ \A p \in Paths : Contents[p] \subseteq Seq(Blocks)
    /\ MaxRows \in Nat /\ MaxChanges \in Nat

VARIABLES
    disk,    \* disk[p]: the blocks at p, its ctime and inode (stamp)
    cache,   \* cache[k, m]: identity and digest stored for copy k in mode m
    pass,    \* where each pass stands, and what it has in hand
    said,    \* said[q][g]: the verdict of pass q on group g
    still,   \* history: passes during which no file has changed so far
    changes  \* changes of files so far; each makes a new stamp

vars == <<disk, cache, pass, said, still, changes>>

NoRow == [id |-> <<>>, digest |-> <<>>]
NoRows == [x \in Keys \X Modes |-> NoRow]
Idle == [phase |-> "idle", mode |-> "none", cached |-> TRUE, group |-> 1, copy |-> 1,
         id |-> <<>>, at |-> <<1, 1>>, bytes |-> <<>>, results |-> {}, puts |-> NoRows]
Unsaid == [g \in Groups |-> "none"]

Init ==
    /\ \E held \in [Paths -> UNION {Contents[p] : p \in Paths}] :
         /\ \A p \in Paths : held[p] \in Contents[p] /\ Len(held[p]) = SizeOf[p]
         /\ disk = [p \in Paths |-> [bytes |-> held[p], stamp |-> 0]]
    /\ cache = NoRows
    /\ pass = [q \in Passes |-> Idle]
    /\ said = [q \in Passes |-> Unsaid]
    /\ still = Passes
    /\ changes = 0

\* hash_regions: the blocks that are read of a file of the given size.
Regions(size, mode) ==
    IF mode = "full" \/ size <= 2 THEN [n \in 1..size |-> n] ELSE <<1, size>>

Topology(k) == [i \in DOMAIN k |-> SizeOf[k[i]]]

-----------------------------------------------------------------------------
(* Other programs.                                                         *)

\* The file at p is rewritten, replaced or removed, by a program that puts its mtime
\* back (cp -p, rsync -t): only the ctime and the inode tell.  One replaced while it
\* is open goes on being read as it was, as if it had been replaced after the read.
Change(p, blocks) ==
    /\ changes < MaxChanges
    /\ changes' = changes + 1
    /\ disk' = [disk EXCEPT ![p] = [bytes |-> blocks, stamp |-> changes + 1]]
    /\ still' = {q \in still : pass[q].phase = "idle"}
    /\ UNCHANGED <<cache, pass, said>>

-----------------------------------------------------------------------------
(* One pass.                                                               *)

\* The pass begins.  A cache that is off or fails to open is as one whose first
\* lookup fails.
Start(q) ==
    /\ pass[q].phase = "idle"
    /\ \E mode \in Modes : pass' = [pass EXCEPT ![q].phase = "stat", ![q].mode = mode]
    /\ UNCHANGED <<disk, cache, said, still, changes>>

\* The parts of the copy in hand.
Hand(r) == PartsOf[CopiesOf[r.group][r.copy]]

\* Mutation of Identity: size and mtime alone.
IdentityOfMtime(p) == <<Len(disk[p].bytes), 0>>

Identity(p) == <<Len(disk[p].bytes), disk[p].stamp>>

\* _resolve_part: the next part is there, and of the size that Plex reports.
Resolve(q) ==
    /\ pass[q].phase = "stat"
    /\ LET p == Hand(pass[q])[Len(pass[q].id) + 1]
       IN  /\ Len(disk[p].bytes) = SizeOf[p]
           /\ pass' = [pass EXCEPT ![q].id = Append(@, Identity(p)),
                                   ![q].phase = IF Len(pass[q].id) + 1 = Len(Hand(pass[q]))
                                                THEN "lookup" ELSE "stat"]
    /\ UNCHANGED <<disk, cache, said, still, changes>>

\* The result for the copy in hand, <<>> when it could not be hashed; on to the next.
With(r, digest) ==
    [r EXCEPT !.results = @ \cup {[topology |-> Topology(Hand(r)), digest |-> digest]},
              !.phase = IF r.copy = Len(CopiesOf[r.group]) THEN "compare" ELSE "stat",
              !.copy = IF r.copy = Len(CopiesOf[r.group]) THEN 1 ELSE @ + 1,
              !.id = <<>>, !.at = <<1, 1>>, !.bytes = <<>>]

\* A part is missing, of another size, or cannot be read: also after a hit,
\* which opens every part.
CopyFails(q) ==
    /\ pass[q].phase \in {"stat", "lookup", "read"}
    /\ pass' = [pass EXCEPT ![q] = With(@, <<>>)]
    /\ UNCHANGED <<disk, cache, said, still, changes>>

Slot(q) == <<Hand(pass[q]), pass[q].mode>>

\* Mutation of Cached: the mode is not part of the key.
CachedAnyMode(q) ==
    {cache[Hand(pass[q]), m].digest : m \in {n \in Modes : cache[Hand(pass[q]), n].id = pass[q].id}}

\* HashCache.get: the stored digest, when it is of the identity just read.
Cached(q) == IF cache[Slot(q)].id = pass[q].id THEN {cache[Slot(q)].digest} ELSE {}

Hit(q) ==
    /\ pass[q].phase = "lookup" /\ pass[q].cached
    /\ \E digest \in Cached(q) : pass' = [pass EXCEPT ![q] = With(@, digest)]
    /\ UNCHANGED <<disk, cache, said, still, changes>>

Miss(q) ==
    /\ pass[q].phase = "lookup"
    /\ pass[q].cached => Cached(q) = {}
    /\ pass' = [pass EXCEPT ![q].phase = "read"]
    /\ UNCHANGED <<disk, cache, said, still, changes>>

\* The lookup raises: no cache for the rest of the run.
LookupFails(q) ==
    /\ pass[q].phase = "lookup" /\ pass[q].cached
    /\ pass' = [pass EXCEPT ![q].phase = "read", ![q].cached = FALSE]
    /\ UNCHANGED <<disk, cache, said, still, changes>>

\* Mutation of Onward: one block too many of a part is asked for.
OnwardPastEnd(r) ==
    IF r.at[2] <= Len(Regions(SizeOf[Hand(r)[r.at[1]]], r.mode))
    THEN <<r.at[1], r.at[2] + 1>> ELSE <<r.at[1] + 1, 1>>

\* The block after this one: of the same part, or the first of the next part.
Onward(r) ==
    IF r.at[2] < Len(Regions(SizeOf[Hand(r)[r.at[1]]], r.mode))
    THEN <<r.at[1], r.at[2] + 1>> ELSE <<r.at[1] + 1, 1>>

\* The next block is read, unless the file has become too short for it.  With the
\* last one the digest is complete, and buffered for the cache.
ReadBlock(q) ==
    /\ pass[q].phase = "read"
    /\ LET r == pass[q]
           p == Hand(r)[r.at[1]]
           n == Regions(SizeOf[p], r.mode)[r.at[2]]
           next == Onward(r)
           bytes == Append(r.bytes, disk[p].bytes[n])
           row == [id |-> r.id, digest |-> bytes]
       IN  /\ n <= Len(disk[p].bytes)
           /\ pass' = [pass EXCEPT ![q] =
                IF next[1] <= Len(Hand(r)) THEN [r EXCEPT !.bytes = bytes, !.at = next]
                ELSE [With(r, bytes) EXCEPT !.puts = IF r.cached THEN [@ EXCEPT ![Slot(q)] = row] ELSE @]]
    /\ UNCHANGED <<disk, cache, said, still, changes>>

\* _compare_copies: what the results prove.
Verdict(results, mode) ==
    IF (\E r \in results : r.digest = <<>>) \/ Cardinality({r.topology : r \in results}) > 1
    THEN "unhashable"
    ELSE IF Cardinality({r.digest : r \in results}) > 1 THEN "different"
    ELSE IF mode = "full" THEN "confirmed" ELSE "sample-match"

\* Every copy of the group has its result.
Compare(q) ==
    /\ pass[q].phase = "compare"
    /\ said' = [said EXCEPT ![q][pass[q].group] = Verdict(pass[q].results, pass[q].mode)]
    /\ pass' = [pass EXCEPT ![q].results = {},
                            ![q].phase = IF pass[q].group = NumGroups THEN "close" ELSE "stat",
                            ![q].group = IF pass[q].group = NumGroups THEN 1 ELSE @ + 1]
    /\ UNCHANGED <<disk, cache, still, changes>>

Leave(q) ==
    /\ pass' = [pass EXCEPT ![q] = Idle]
    /\ said' = [said EXCEPT ![q] = Unsaid]
    /\ still' = still \cup {q}

Rows(c) == {x \in DOMAIN c : c[x] # NoRow}
Flushed(r) == [x \in DOMAIN cache |-> IF r.puts[x] # NoRow THEN r.puts[x] ELSE cache[x]]

\* HashCache.close: the buffered digests replace what is stored, and above the cap
\* the oldest rows go (any, here); or nothing is written, the flush having failed.
Flush(q) ==
    \/ /\ pass[q].cached /\ pass[q].puts # NoRows
       /\ LET new == Flushed(pass[q])
          IN  IF MaxRows = 0 \/ Cardinality(Rows(new)) <= MaxRows THEN cache' = new
              ELSE \E keep \in SUBSET Rows(new) :
                     /\ Cardinality(keep) = MaxRows
                     /\ cache' = [x \in DOMAIN new |-> IF x \in keep THEN new[x] ELSE NoRow]
    \/ UNCHANGED cache

Close(q) ==
    /\ pass[q].phase = "close"
    /\ Flush(q) /\ Leave(q)
    /\ UNCHANGED <<disk, changes>>

\* An exception ends the pass, and the report with it: what is buffered is stored
\* all the same (finally).
Aborts(q) ==
    /\ pass[q].phase \notin {"idle", "close"}
    /\ Flush(q) /\ Leave(q)
    /\ UNCHANGED <<disk, changes>>

Crash(q) ==
    /\ pass[q].phase # "idle"
    /\ Leave(q)
    /\ UNCHANGED <<disk, cache, changes>>

Step(q) ==
    \/ Start(q) \/ Resolve(q) \/ CopyFails(q) \/ Hit(q) \/ Miss(q) \/ LookupFails(q) \/ ReadBlock(q)
    \/ Compare(q) \/ Close(q) \/ Aborts(q) \/ Crash(q)

Next ==
    \/ \E p \in Paths : \E blocks \in Contents[p] : Change(p, blocks)
    \/ \E q \in Passes : Step(q)

Spec == Init /\ [][Next]_vars

-----------------------------------------------------------------------------
(* What the pass promises.                                                 *)

\* Joined(s)[i]: the first i of the sequences s, one after the other.
Joined(s) == LET upTo[i \in 0..Len(s)] == IF i = 0 THEN <<>> ELSE upTo[i - 1] \o s[i] IN upTo

\* The digest of what is on disk now.
Sampled(bytes, mode) == [n \in DOMAIN Regions(Len(bytes), mode) |-> bytes[Regions(Len(bytes), mode)[n]]]
Samples(k, mode) == [i \in DOMAIN k |-> Sampled(disk[k[i]].bytes, mode)]
DigestNow(k, mode) == Joined(Samples(k, mode))[Len(k)]
IdNow(k) == [i \in DOMAIN k |-> Identity(k[i])]

\* The cache never serves a wrong verdict: a digest, stored or still buffered, of
\* the files as they are now identified is the digest of what they now hold,
\* whatever was rewritten between the lstat, the read and the flush.
CacheSound ==
    \A x \in Keys \X Modes : \A row \in {cache[x]} \cup {pass[q].puts[x] : q \in Passes} :
        row.id = IdNow(x[1]) => row.digest = DigestNow(x[1], x[2])

Alike(g, mode) ==
    \A i, j \in DOMAIN CopiesOf[g] : DigestNow(PartsOf[CopiesOf[g][i]], mode) = DigestNow(PartsOf[CopiesOf[g][j]], mode)

\* A verdict of a pass during which no file changed is true: confirmed copies are
\* byte for byte the same, different ones are not, and sampled regions that agree
\* do agree.  So it is whatever earlier passes, of either mode, put in the cache
\* while files changed, failed or died.
VerdictTrue ==
    [][\A q \in still, g \in Groups : said'[q][g] # said[q][g] =>
          /\ said'[q][g] = "confirmed" => Alike(g, "full")
          /\ said'[q][g] = "sample-match" => Alike(g, "partial")
          /\ said'[q][g] = "different" => ~Alike(g, "full")]_vars

Statuses == {"confirmed", "sample-match", "different", "unhashable"}
Phases == {"idle", "stat", "lookup", "read", "compare", "close"}

Row == [id : Seq(Nat \X Nat), digest : Seq(Blocks)]
PassType == [phase : Phases, mode : Modes \cup {"none"}, cached : BOOLEAN, group : Groups, copy : Nat,
             id : Seq(Nat \X Nat), at : Nat \X Nat, bytes : Seq(Blocks),
             results : SUBSET [topology : Seq(Nat), digest : Seq(Blocks)],
             puts : [Keys \X Modes -> Row]]

\* Every variable has its type, and a pass reads within the parts in hand.
TypeOK ==
    /\ disk \in [Paths -> [bytes : Seq(Blocks), stamp : 0..changes]]
    /\ \A p \in Paths : disk[p].bytes \in Contents[p]
    /\ cache \in [Keys \X Modes -> Row] /\ pass \in [Passes -> PassType]
    /\ said \in [Passes -> [Groups -> Statuses \cup {"none"}]]
    /\ still \subseteq Passes /\ changes \in 0..MaxChanges
    /\ \A q \in Passes : LET r == pass[q] IN
         /\ r.copy \in DOMAIN CopiesOf[r.group]
         /\ r.phase = "read" => /\ r.at[1] \in DOMAIN Hand(r)
                                /\ r.at[2] \in DOMAIN Regions(SizeOf[Hand(r)[r.at[1]]], r.mode)
=============================================================================
