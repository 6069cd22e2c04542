-------------------------- MODULE ContentHashProofs --------------------------
(***************************************************************************)
(* Proofs about ContentHash: whatever is rewritten between the lstat, the  *)
(* read and the flush, no digest that the cache holds or is about to hold  *)
(* is wrong of the files as they are identified now, and a verdict of a    *)
(* pass during which no file changed is true.                              *)
(***************************************************************************)
EXTENDS ContentHash, Induction, SequenceTheorems

-----------------------------------------------------------------------------
(* Sequences, one after the other.                                         *)

\* f[i] is the first i of n sequences s, one after the other.
Joins(s, n, f) == f[0] = <<>> /\ \A i \in 1..n : f[i] = f[i - 1] \o s[i]

\* There is such a function, however many sequences there are.
LEMMA JoinExists ==
    ASSUME NEW B, NEW N \in Nat, NEW s, \A i \in 1..N : s[i] \in Seq(B)
    PROVE  \E f \in [0..N -> Seq(B)] : Joins(s, N, f)
<1> DEFINE F == [t \in (1..N) \X Seq(B) |-> t[2] \o s[t[1]]]
<1>1. F \in [(1..N) \X Seq(B) -> Seq(B)]
  BY ConcatProperties
<1>2. \A i \in 1..N : \A q \in Seq(B) : F[<<i, q>>] = q \o s[i]
  OBVIOUS
<1>3. <<>> \in Seq(B)
  OBVIOUS
<1> HIDE DEF F
<1>4. PICK f \in [0..N -> Seq(B)] : Steps(f, <<>>, N, F)
  BY <1>1, <1>3, StepByStep
<1>5. \A i \in 1..N : f[i - 1] \in Seq(B)
  OBVIOUS
<1>6. Joins(s, N, f)
  BY <1>2, <1>4, <1>5 DEF Joins, Steps
<1> QED BY <1>6

\* What Joined is.
LEMMA JoinedSteps ==
    ASSUME NEW B, NEW s \in Seq(Seq(B))
    PROVE  /\ Joined(s) \in [0..Len(s) -> Seq(B)]
           /\ Joined(s)[0] = <<>>
           /\ \A i \in 1..Len(s) : Joined(s)[i] = Joined(s)[i - 1] \o s[i]
<1> DEFINE N == Len(s)
<1>1. N \in Nat /\ \A i \in 1..N : s[i] \in Seq(B)
  OBVIOUS
<1>2. PICK f \in [0..N -> Seq(B)] : Joins(s, N, f)
  <2> HIDE DEF N
  <2> QED BY <1>1, JoinExists
<1>3. f = [i \in 0..N |-> IF i = 0 THEN <<>> ELSE f[i - 1] \o s[i]]
  <2>1. \A i \in 0..N : i # 0 => i \in 1..N
    BY <1>1
  <2> HIDE DEF N
  <2> QED BY <1>2, <2>1 DEF Joins
<1>4. Joined(s) = CHOOSE g : g = [i \in 0..N |-> IF i = 0 THEN <<>> ELSE g[i - 1] \o s[i]]
  BY DEF Joined
<1>5. Joined(s) = [i \in 0..N |-> IF i = 0 THEN <<>> ELSE Joined(s)[i - 1] \o s[i]]
  BY <1>3, <1>4, Zenon
<1> QED OBVIOUS

-----------------------------------------------------------------------------
(* The types.                                                              *)

\* Where a pass stands: the identities read so far are of the parts of the copy in
\* hand, in order and of the sizes that Plex reports; blocks are read after that, and
\* results are in hand only of a group that is being compared.
Stance(r) ==
    /\ r.phase # "idle" => r.mode \in Modes
    /\ r.phase = "stat" => Len(r.id) < Len(Hand(r))
    /\ r.phase \in {"lookup", "read"} => Len(r.id) = Len(Hand(r))
    /\ r.phase \notin {"stat", "lookup", "read"} => r.id = <<>> /\ r.copy = 1
    /\ r.phase # "read" => r.at = <<1, 1>> /\ r.bytes = <<>>
    /\ \A i \in DOMAIN r.id : r.id[i][1] = SizeOf[Hand(r)[i]]
    /\ IsFiniteSet(r.results)
    /\ r.phase \in {"idle", "close"} => r.results = {}

\* A pass has its type, reads within the parts in hand, and stands as above.
Good(r) ==
    /\ r \in PassType
    /\ r.copy \in DOMAIN CopiesOf[r.group]
    /\ r.phase = "read" => /\ r.at[1] \in DOMAIN Hand(r)
                           /\ r.at[2] \in DOMAIN Regions(SizeOf[Hand(r)[r.at[1]]], r.mode)
    /\ Stance(r)

World ==
    /\ disk \in [Paths -> [bytes : Seq(Blocks), stamp : 0..changes]]
    /\ \A p \in Paths : disk[p].bytes \in Contents[p]
    /\ cache \in [Keys \X Modes -> Row]
    /\ said \in [Passes -> [Groups -> Statuses \cup {"none"}]]
    /\ still \subseteq Passes /\ changes \in 0..MaxChanges

TInv == World /\ pass \in [Passes -> PassType] /\ \A q \in Passes : Good(pass[q])

(* What DigestNow and IdNow say, of the files d: the same at every moment. *)
Held(n) == [Paths -> [bytes : Seq(Blocks), stamp : 0..n]]
IdOf(d, k) == [i \in DOMAIN k |-> <<Len(d[k[i]].bytes), d[k[i]].stamp>>]
SamplesOf(d, k, mode) == [i \in DOMAIN k |-> Sampled(d[k[i]].bytes, mode)]
DigestOf(d, k, mode) == Joined(SamplesOf(d, k, mode))[Len(k)]

\* A row of the cache after n changes: what it identifies is no later, and when it
\* identifies the files as they are its digest is theirs.
Fits(d, n, x, row) ==
    /\ \A i \in DOMAIN row.id : row.id[i][2] <= n
    /\ row.id = IdOf(d, x[1]) => row.digest = DigestOf(d, x[1], x[2])

\* What has been read of the copy in hand, if its files are as they were identified.
Upto(d, r) ==
    LET s == SamplesOf(d, Hand(r), r.mode)
    IN  Joined(s)[r.at[1] - 1] \o SubSeq(s[r.at[1]], 1, r.at[2] - 1)

\* What a pass has in hand is no later than now, and right of the files that are as
\* they were when it identified them.
Sound(d, n, r) ==
    /\ \A i \in DOMAIN r.id : r.id[i][2] <= n
    /\ \A x \in Keys \X Modes : Fits(d, n, x, r.puts[x])
    /\ r.phase = "read" /\ r.id = IdOf(d, Hand(r)) => r.bytes = Upto(d, r)

\* The copies of the group in hand that have their result.
Count(r) ==
    CASE r.phase \in {"stat", "lookup", "read"} -> r.copy - 1
      [] r.phase = "compare" -> Len(CopiesOf[r.group])
      [] OTHER -> 0

\* e is the result of copy i of the group in hand, as the files d are.
Shown(d, r, i, e) ==
    LET k == PartsOf[CopiesOf[r.group][i]]
    IN  /\ e.topology = Topology(k)
        /\ \/ e.digest = <<>>
           \/ /\ e.digest = DigestOf(d, k, r.mode)
              /\ \A j \in DOMAIN k : Len(d[k[j]].bytes) = SizeOf[k[j]]

\* A pass during which no file has changed: all that it has in hand is of the files
\* as they are, and its results are those of the copies it has done.
Honest(d, r) ==
    /\ \A i \in DOMAIN r.id : r.id[i] = IdOf(d, Hand(r))[i]
    /\ \A i \in 1..Count(r) : \E e \in r.results : Shown(d, r, i, e)
    /\ \A e \in r.results : \E i \in 1..Count(r) : Shown(d, r, i, e)

HashInv ==
    /\ TInv
    /\ \A x \in Keys \X Modes : Fits(disk, changes, x, cache[x])
    /\ \A q \in Passes : Sound(disk, changes, pass[q])
    /\ \A q \in still : Honest(disk, pass[q])

\* Every copy has a part.
LEMMA PartsFacts ==
    ASSUME NEW c \in Copies
    PROVE  /\ PartsOf[c] \in Seq(Paths) /\ Len(PartsOf[c]) \in Nat \ {0} /\ PartsOf[c] \in Keys
           /\ DOMAIN PartsOf[c] = 1..Len(PartsOf[c])
           /\ \A i \in 1..Len(PartsOf[c]) : PartsOf[c][i] \in Paths
<1>1. PartsOf[c] \in Seq(Paths) /\ PartsOf[c] # <<>>
  BY HashAssumption
<1> QED BY <1>1 DEF Keys

\* Every group has a copy.
LEMMA GroupFacts ==
    ASSUME NEW g \in Groups
    PROVE  /\ Len(CopiesOf[g]) \in Nat \ {0} /\ DOMAIN CopiesOf[g] = 1..Len(CopiesOf[g])
           /\ \A i \in 1..Len(CopiesOf[g]) : CopiesOf[g][i] \in Copies
<1>1. CopiesOf[g] \in Seq(Copies) /\ CopiesOf[g] # <<>>
  BY HashAssumption
<1> QED BY <1>1

\* So a pass has parts in hand.
LEMMA HandFacts ==
    ASSUME NEW r, r.group \in Groups, r.copy \in DOMAIN CopiesOf[r.group]
    PROVE  /\ Hand(r) \in Seq(Paths) /\ Len(Hand(r)) \in Nat \ {0} /\ Hand(r) \in Keys
           /\ DOMAIN Hand(r) = 1..Len(Hand(r))
           /\ \A i \in 1..Len(Hand(r)) : Hand(r)[i] \in Paths /\ SizeOf[Hand(r)[i]] \in Nat \ {0}
<1>1. CopiesOf[r.group][r.copy] \in Copies
  BY GroupFacts
<1> QED BY <1>1, PartsFacts, HashAssumption DEF Hand

\* The blocks that are read of a file that is not empty: at least one, each within it.
LEMMA RegionsFacts ==
    ASSUME NEW size \in Nat, NEW mode
    PROVE  /\ Regions(size, mode) \in Seq(1..size)
           /\ size # 0 => Len(Regions(size, mode)) \in Nat \ {0}
           /\ DOMAIN Regions(size, mode) = 1..Len(Regions(size, mode))
           /\ \A n \in 1..Len(Regions(size, mode)) : Regions(size, mode)[n] \in 1..size
<1>1. CASE mode = "full" \/ size <= 2
  <2>1. Regions(size, mode) = [n \in 1..size |-> n]
    BY <1>1 DEF Regions
  <2> QED BY <2>1
<1>2. CASE ~(mode = "full" \/ size <= 2)
  <2>1. Regions(size, mode) = <<1, size>>
    BY <1>2 DEF Regions
  <2> QED BY <2>1, <1>2
<1> QED BY <1>1, <1>2

\* A pass with fields of their types put in place of others.
LEMMA PassRetyped ==
    ASSUME NEW r \in PassType, NEW results \in SUBSET [topology : Seq(Nat), digest : Seq(Blocks)],
           NEW phase \in Phases, NEW copy \in Nat, NEW id \in Seq(Nat \X Nat),
           NEW at \in Nat \X Nat, NEW bytes \in Seq(Blocks)
    PROVE  [r EXCEPT !.results = results, !.phase = phase, !.copy = copy,
                     !.id = id, !.at = at, !.bytes = bytes] \in PassType
BY DEF PassType

\* The pass goes on to the next copy, or to the comparison.
LEMMA WithFacts ==
    ASSUME NEW r \in PassType, NEW digest, NEW w, w = With(r, digest)
    PROVE  /\ w.group = r.group /\ w.mode = r.mode /\ w.cached = r.cached /\ w.puts = r.puts
           /\ w.id = <<>> /\ w.at = <<1, 1>> /\ w.bytes = <<>>
           /\ w.phase = IF r.copy = Len(CopiesOf[r.group]) THEN "compare" ELSE "stat"
           /\ w.copy = IF r.copy = Len(CopiesOf[r.group]) THEN 1 ELSE r.copy + 1
           /\ w.results = r.results \cup {[topology |-> Topology(Hand(r)), digest |-> digest]}
BY DEF With, PassType

LEMMA WithGood ==
    ASSUME NEW r, Good(r), r.phase \in {"stat", "lookup", "read"}, NEW digest \in Seq(Blocks)
    PROVE  Good(With(r, digest))
<1> DEFINE w == With(r, digest)
           last == r.copy = Len(CopiesOf[r.group])
<1>1. r \in PassType
  BY DEF Good
<1>2. /\ r.group \in Groups /\ r.copy \in 1..Len(CopiesOf[r.group]) /\ Len(CopiesOf[r.group]) \in Nat \ {0}
      /\ DOMAIN CopiesOf[r.group] = 1..Len(CopiesOf[r.group])
  BY GroupFacts DEF Good, PassType
<1>3. [topology |-> Topology(Hand(r)), digest |-> digest] \in [topology : Seq(Nat), digest : Seq(Blocks)]
  <2>1. Hand(r) \in Seq(Paths) /\ \A i \in DOMAIN Hand(r) : SizeOf[Hand(r)[i]] \in Nat
    BY <1>2, HandFacts
  <2>2. Topology(Hand(r)) \in Seq(Nat)
    <3>1. Len(Hand(r)) \in Nat /\ DOMAIN Hand(r) = 1..Len(Hand(r))
      BY <2>1
    <3>2. Topology(Hand(r)) \in [1..Len(Hand(r)) -> Nat]
      BY <2>1, <3>1 DEF Topology
    <3> QED BY <3>1, <3>2
  <2> QED BY <2>2
<1>4. /\ w.group = r.group /\ w.mode = r.mode /\ w.cached = r.cached /\ w.puts = r.puts
      /\ w.id = <<>> /\ w.at = <<1, 1>> /\ w.bytes = <<>>
      /\ w.phase = IF last THEN "compare" ELSE "stat"
      /\ w.copy = IF last THEN 1 ELSE r.copy + 1
      /\ w.results = r.results \cup {[topology |-> Topology(Hand(r)), digest |-> digest]}
  <2> HIDE DEF w
  <2> QED BY <1>1, WithFacts DEF w
<1>5. w \in PassType
  <2>1. <<>> \in Seq(Nat \X Nat) /\ <<>> \in Seq(Blocks) /\ <<1, 1>> \in Nat \X Nat
    OBVIOUS
  <2> DEFINE R == r.results \cup {[topology |-> Topology(Hand(r)), digest |-> digest]}
             C == IF last THEN 1 ELSE r.copy + 1
             P == IF last THEN "compare" ELSE "stat"
  <2>2. R \in SUBSET [topology : Seq(Nat), digest : Seq(Blocks)]
    BY <1>1, <1>3 DEF PassType
  <2>3. C \in Nat /\ P \in Phases
    BY <1>2 DEF Phases
  <2>4. w = [r EXCEPT !.results = R, !.phase = P, !.copy = C, !.id = <<>>, !.at = <<1, 1>>, !.bytes = <<>>]
    BY Zenon DEF With
  <2> HIDE DEF R, C, P, w
  <2>5. [r EXCEPT !.results = R, !.phase = P, !.copy = C, !.id = <<>>, !.at = <<1, 1>>, !.bytes = <<>>] \in PassType
    BY <1>1, <2>1, <2>2, <2>3, PassRetyped
  <2> QED BY <2>4, <2>5
<1>6. w.copy \in DOMAIN CopiesOf[w.group]
  BY <1>2, <1>4
<1>7. Len(Hand(w)) > 0
  BY <1>2, <1>4, <1>6, HandFacts
<1>8. w.phase # "read" /\ w.phase \notin {"idle", "read", "lookup"} /\ w.mode \in Modes
  BY <1>4 DEF Good, Stance
<1>9. Stance(w)
  <2>1. IsFiniteSet(w.results)
    <3>1. IsFiniteSet(r.results)
      BY DEF Good, Stance
    <3>2. IsFiniteSet(r.results \cup {[topology |-> Topology(Hand(r)), digest |-> digest]})
      BY <3>1, FS_AddElement
    <3> QED BY <1>4, <3>2
  <2>2. w.phase \notin {"stat", "lookup", "read"} => w.copy = 1
    BY <1>4
  <2>3. w.phase \notin {"idle", "close"}
    BY <1>4
  <2> HIDE DEF w
  <2> QED BY <1>4, <1>7, <1>8, <2>1, <2>2, <2>3 DEF Stance
<1>10. Good(w)
  <2> HIDE DEF w
  <2> QED BY <1>5, <1>6, <1>8, <1>9 DEF Good
<1> QED BY <1>10

-----------------------------------------------------------------------------
(* What the files hold.                                                    *)

LEMMA SampledFacts ==
    ASSUME NEW bytes \in Seq(Blocks), NEW mode
    PROVE  /\ Sampled(bytes, mode) \in Seq(Blocks)
           /\ Len(Sampled(bytes, mode)) = Len(Regions(Len(bytes), mode))
           /\ \A n \in 1..Len(Regions(Len(bytes), mode)) :
                Sampled(bytes, mode)[n] = bytes[Regions(Len(bytes), mode)[n]]
<1> DEFINE R == Regions(Len(bytes), mode)
<1>1. /\ Len(bytes) \in Nat /\ Len(R) \in Nat /\ DOMAIN R = 1..Len(R)
      /\ \A n \in 1..Len(R) : R[n] \in 1..Len(bytes)
  <2>1. Len(bytes) \in Nat
    OBVIOUS
  <2>2. R \in Seq(1..Len(bytes))
    BY <2>1, RegionsFacts
  <2>3. Len(R) \in Nat
    <3> HIDE DEF R
    <3> QED BY <2>2
  <2> QED BY <2>1, <2>3, RegionsFacts
<1>2. Sampled(bytes, mode) = [n \in 1..Len(R) |-> bytes[R[n]]]
  BY <1>1 DEF Sampled
<1> HIDE DEF R
<1>3. \A n \in 1..Len(R) : bytes[R[n]] \in Blocks
  BY <1>1
<1>4. Sampled(bytes, mode) \in [1..Len(R) -> Blocks]
  BY <1>2, <1>3
<1>5. Sampled(bytes, mode) \in Seq(Blocks) /\ Len(Sampled(bytes, mode)) = Len(R)
  BY <1>1, <1>4
<1> QED BY <1>2, <1>5 DEF R

\* The same of a file of a known size, for its sample j.
SampledAt(bytes, mode, size, j) ==
    /\ Sampled(bytes, mode) \in Seq(Blocks)
    /\ Len(Sampled(bytes, mode)) = Len(Regions(size, mode))
    /\ Sampled(bytes, mode)[j] = bytes[Regions(size, mode)[j]]

LEMMA SampledBlock ==
    ASSUME NEW bytes \in Seq(Blocks), NEW mode, NEW size, Len(bytes) = size,
           NEW j \in 1..Len(Regions(size, mode))
    PROVE  SampledAt(bytes, mode, size, j)
<1>1. j \in 1..Len(Regions(Len(bytes), mode))
  OBVIOUS
<1> QED BY <1>1, SampledFacts, Zenon DEF SampledAt

\* All of a file that is hashed in full.
LEMMA SampledFull ==
    ASSUME NEW bytes \in Seq(Blocks)
    PROVE  Sampled(bytes, "full") = bytes
<1>1. Regions(Len(bytes), "full") = [n \in 1..Len(bytes) |-> n]
  BY DEF Regions
<1> QED BY <1>1 DEF Sampled

LEMMA DigestFacts ==
    ASSUME NEW n \in Nat, NEW d \in Held(n), NEW k \in Keys, NEW mode
    PROVE  /\ Len(k) \in Nat \ {0} /\ DOMAIN k = 1..Len(k) /\ \A i \in 1..Len(k) : k[i] \in Paths
           /\ SamplesOf(d, k, mode) \in Seq(Seq(Blocks)) /\ Len(SamplesOf(d, k, mode)) = Len(k)
           /\ \A i \in 1..Len(k) : SamplesOf(d, k, mode)[i] = Sampled(d[k[i]].bytes, mode)
           /\ DigestOf(d, k, mode) \in Seq(Blocks)
<1>1. Len(k) \in Nat \ {0} /\ DOMAIN k = 1..Len(k) /\ \A i \in 1..Len(k) : k[i] \in Paths
  BY PartsFacts DEF Keys
<1>2. \A i \in 1..Len(k) : d[k[i]].bytes \in Seq(Blocks)
  BY <1>1 DEF Held
<1>3. \A i \in 1..Len(k) : Sampled(d[k[i]].bytes, mode) \in Seq(Blocks)
  BY <1>2, SampledFacts
<1>4. SamplesOf(d, k, mode) \in [1..Len(k) -> Seq(Blocks)]
  BY <1>1, <1>3 DEF SamplesOf
<1>5. SamplesOf(d, k, mode) \in Seq(Seq(Blocks)) /\ Len(SamplesOf(d, k, mode)) = Len(k)
  BY <1>1, <1>4
<1>6. Joined(SamplesOf(d, k, mode)) \in [0..Len(k) -> Seq(Blocks)]
  BY <1>5, JoinedSteps
<1> QED BY <1>1, <1>5, <1>6 DEF SamplesOf, DigestOf

\* The files after one change more.
Changed(d, n, p, blocks) == [d EXCEPT ![p] = [bytes |-> blocks, stamp |-> n + 1]]

\* A change of a file that is not among the parts shows in neither; one that is,
\* shows in the identity as later than all before.
LEMMA ChangeFacts ==
    ASSUME NEW n \in Nat, NEW d \in Held(n), NEW p \in Paths, NEW blocks,
           NEW k \in Keys,
           \A i \in DOMAIN IdOf(Changed(d, n, p, blocks), k) : IdOf(Changed(d, n, p, blocks), k)[i][2] <= n
    PROVE  /\ IdOf(Changed(d, n, p, blocks), k) = IdOf(d, k)
           /\ \A mode : /\ SamplesOf(Changed(d, n, p, blocks), k, mode) = SamplesOf(d, k, mode)
                        /\ DigestOf(Changed(d, n, p, blocks), k, mode) = DigestOf(d, k, mode)
<1> DEFINE e == Changed(d, n, p, blocks)
<1>1. \A i \in DOMAIN k : k[i] \in Paths
  BY PartsFacts DEF Keys
<1>2. \A i \in DOMAIN k : k[i] # p
  <2>1. SUFFICES ASSUME NEW i \in DOMAIN k, k[i] = p PROVE FALSE
    OBVIOUS
  <2>2. e[k[i]].stamp = n + 1
    BY <1>1, <2>1 DEF Held, Changed
  <2>3. i \in DOMAIN IdOf(e, k) /\ IdOf(e, k)[i][2] = n + 1
    BY <2>2 DEF IdOf
  <2>4. ~ (n + 1 <= n)
    OBVIOUS
  <2> QED BY <2>3, <2>4
<1>3. \A i \in DOMAIN k : e[k[i]] = d[k[i]]
  BY <1>1, <1>2 DEF Held, Changed
<1>4. IdOf(e, k) = IdOf(d, k) /\ \A mode : SamplesOf(e, k, mode) = SamplesOf(d, k, mode)
  BY <1>3 DEF IdOf, SamplesOf
<1> QED BY <1>4 DEF DigestOf

\* So what fitted still fits.
LEMMA ChangeFits ==
    ASSUME NEW n \in Nat, NEW d \in Held(n), NEW p \in Paths, NEW blocks \in Seq(Blocks),
           NEW x \in Keys \X Modes, NEW row \in Row, Fits(d, n, x, row)
    PROVE  Fits(Changed(d, n, p, blocks), n + 1, x, row)
<1> DEFINE e == Changed(d, n, p, blocks)
<1>1. x[1] \in Keys
  OBVIOUS
<1>2. \A i \in DOMAIN row.id : row.id[i][2] \in Nat /\ row.id[i][2] <= n
  BY DEF Fits, Row
<1>3. \A i \in DOMAIN row.id : row.id[i][2] <= n + 1
  BY <1>2
<1>4. ASSUME row.id = IdOf(e, x[1]) PROVE row.digest = DigestOf(e, x[1], x[2])
  <2>1. \A i \in DOMAIN IdOf(e, x[1]) : IdOf(e, x[1])[i][2] <= n
    BY <1>2, <1>4
  <2>2. IdOf(e, x[1]) = IdOf(d, x[1]) /\ DigestOf(e, x[1], x[2]) = DigestOf(d, x[1], x[2])
    BY <1>1, <2>1, ChangeFacts
  <2> QED BY <1>4, <2>2 DEF Fits
<1> QED BY <1>3, <1>4 DEF Fits

\* And what a pass had in hand of the files as they were is still right of them.
LEMMA ChangeSound ==
    ASSUME NEW n \in Nat, NEW d \in Held(n), NEW p \in Paths, NEW blocks \in Seq(Blocks),
           NEW r, Good(r), Sound(d, n, r)
    PROVE  Sound(Changed(d, n, p, blocks), n + 1, r)
<1> DEFINE e == Changed(d, n, p, blocks)
<1>1. r \in PassType
  BY DEF Good
<1>2. \A i \in DOMAIN r.id : r.id[i][2] \in Nat /\ r.id[i][2] <= n
  <2>1. r.id \in Seq(Nat \X Nat)
    BY <1>1 DEF PassType
  <2> QED BY <2>1 DEF Sound
<1>3. \A i \in DOMAIN r.id : r.id[i][2] <= n + 1
  BY <1>2
<1>4. \A x \in Keys \X Modes : Fits(e, n + 1, x, r.puts[x])
  <2>1. \A x \in Keys \X Modes : r.puts[x] \in Row /\ Fits(d, n, x, r.puts[x])
    BY <1>1 DEF PassType, Sound
  <2> QED BY <2>1, ChangeFits
<1>5. ASSUME r.phase = "read", r.id = IdOf(e, Hand(r)) PROVE r.bytes = Upto(e, r)
  <2>1. Hand(r) \in Keys
    BY <1>1, HandFacts DEF Good, PassType
  <2>2. \A i \in DOMAIN IdOf(e, Hand(r)) : IdOf(e, Hand(r))[i][2] <= n
    BY <1>2, <1>5
  <2>3. /\ IdOf(e, Hand(r)) = IdOf(d, Hand(r))
        /\ SamplesOf(e, Hand(r), r.mode) = SamplesOf(d, Hand(r), r.mode)
    BY <2>1, <2>2, ChangeFacts
  <2> QED BY <1>5, <2>3 DEF Sound, Upto
<1> QED BY <1>3, <1>4, <1>5 DEF Sound

-----------------------------------------------------------------------------
(* Reading.                                                                *)

\* However three sequences are grouped, they join to one.
Regroups(a, t, v) == (a \o t) \o v = a \o (t \o v)

LEMMA Grouped ==
    ASSUME NEW B, NEW a \in Seq(B), NEW t \in Seq(B), NEW v \in Seq(B)
    PROVE  Regroups(a, t, v)
BY ConcatAssociative, SMT DEF Regroups

\* One element more of a sequence, after another.
LEMMA FirstFacts ==
    ASSUME NEW B, NEW s \in Seq(B), NEW a \in Seq(B), NEW i \in 1..Len(s)
    PROVE  Append(a \o SubSeq(s, 1, i - 1), s[i]) = a \o SubSeq(s, 1, i)
<1> DEFINE t == SubSeq(s, 1, i - 1)
           u == SubSeq(s, 1, i)
           v == <<s[i]>>
<1>1. 1 \in 1..Len(s) /\ i \in 1..Len(s) /\ s[i] \in B /\ v \in Seq(B)
  BY ElementOfSeq
<1>2. t \in Seq(B)
  <2>1. \A j \in 1..(i - 1) : s[j] \in B
    BY ElementOfSeq
  <2> QED BY <2>1, SubSeqProperties
<1>3. u = t \o v
  BY <1>1, SubSeqRecursiveSecond
<1> HIDE DEF t, u
<1>4. a \o t \in Seq(B)
  BY <1>2, ConcatProperties
<1>5. Append(a \o t, s[i]) = (a \o t) \o v
  BY <1>1, <1>4, AppendIsConcat
<1> HIDE DEF v
<1>6. (a \o t) \o v = a \o (t \o v)
  <2>1. v \in Seq(B)
    BY <1>1
  <2>2. Regroups(a, t, v)
    BY <1>2, <2>1, Grouped, Zenon
  <2> QED BY <2>2, Zenon DEF Regroups
<1> QED BY <1>3, <1>5, <1>6 DEF t, u

\* The pass r reads block b of the file p, which is long enough.
AtBlock(n, d, r, p, b) ==
    /\ Good(r) /\ Sound(d, n, r) /\ r.phase = "read"
    /\ p = Hand(r)[r.at[1]] /\ b = Regions(SizeOf[p], r.mode)[r.at[2]] /\ b <= Len(d[p].bytes)

\* With that block, pass r has read the samples s up to and with sample at[2] of part at[1].
ReadOn(d, r, p, b, s) ==
    /\ s[r.at[1]] \in Seq(Blocks)
    /\ Len(s[r.at[1]]) = Len(Regions(SizeOf[p], r.mode))
    /\ Append(r.bytes, d[p].bytes[b]) = Joined(s)[r.at[1] - 1] \o SubSeq(s[r.at[1]], 1, r.at[2])
    /\ r.at[2] = Len(s[r.at[1]]) => Append(r.bytes, d[p].bytes[b]) = Joined(s)[r.at[1]]

\* An identity has the size of each part.
LEMMA IdSize ==
    ASSUME NEW d, NEW k, NEW i \in DOMAIN k
    PROVE  i \in DOMAIN IdOf(d, k) /\ IdOf(d, k)[i][1] = Len(d[k[i]].bytes)
BY DEF IdOf

\* The digest of the copy in hand, block by block.
LEMMA ReadFacts ==
    ASSUME NEW n \in Nat, NEW d \in Held(n), NEW r, NEW p, NEW b, AtBlock(n, d, r, p, b),
           r.id = IdOf(d, Hand(r))
    PROVE  ReadOn(d, r, p, b, SamplesOf(d, Hand(r), r.mode))
<1>0. /\ Good(r) /\ Sound(d, n, r) /\ r.phase = "read"
      /\ p = Hand(r)[r.at[1]] /\ b = Regions(SizeOf[p], r.mode)[r.at[2]]
  BY DEF AtBlock
<1> DEFINE k == Hand(r)
           i == r.at[1]
           j == r.at[2]
           s == SamplesOf(d, k, r.mode)
           J == Joined(s)
<1>1. r \in PassType /\ k \in Keys /\ i \in 1..Len(k) /\ Len(k) \in Nat
  BY <1>0, HandFacts DEF Good, PassType
<1>2. p \in Paths /\ SizeOf[p] \in Nat /\ j \in 1..Len(Regions(SizeOf[p], r.mode))
  <2>1. p \in Paths
    BY <1>0, <1>1, DigestFacts, Zenon
  <2>2. SizeOf[p] \in Nat
    BY <2>1, HashAssumption
  <2> QED BY <1>0, <2>1, <2>2, RegionsFacts DEF Good
<1>3. Len(d[p].bytes) = SizeOf[p] /\ d[p].bytes \in Seq(Blocks)
  <2>1. i \in DOMAIN r.id /\ r.id[i][1] = SizeOf[p]
    <3>1. i \in DOMAIN k
      BY <1>1, DigestFacts, Zenon
    <3>2. i \in DOMAIN IdOf(d, k)
      BY <3>1, IdSize, Zenon
    <3> QED BY <1>0, <3>2 DEF Good, Stance
  <2>2. r.id[i][1] = Len(d[p].bytes)
    <3>1. i \in DOMAIN k
      BY <1>1, DigestFacts, Zenon
    <3>2. r.id = IdOf(d, k) /\ k[i] = p
      BY <1>0, Zenon
    <3> HIDE DEF i, k
    <3>3. IdOf(d, k)[i][1] = Len(d[k[i]].bytes)
      BY <3>1, IdSize, Zenon
    <3> QED BY <3>2, <3>3, Zenon
  <2>3. d[p].bytes \in Seq(Blocks)
    BY <1>2 DEF Held
  <2> QED BY <2>1, <2>2, <2>3
<1>4. /\ s \in Seq(Seq(Blocks)) /\ Len(s) = Len(k) /\ s[i] = Sampled(d[p].bytes, r.mode)
  <2>1. s \in Seq(Seq(Blocks)) /\ Len(s) = Len(k)
    BY <1>1, DigestFacts
  <2>2. s[i] = Sampled(d[k[i]].bytes, r.mode)
    BY <1>1, DigestFacts
  <2>3. p = k[i]
    BY <1>0, Zenon
  <2> QED BY <2>1, <2>2, <2>3, Zenon
<1>5. /\ s[i] \in Seq(Blocks) /\ Len(s[i]) = Len(Regions(SizeOf[p], r.mode))
      /\ s[i][j] = d[p].bytes[b]
  <2> HIDE DEF i, j, k, s
  <2>1. SampledAt(d[p].bytes, r.mode, SizeOf[p], j)
    BY <1>2, <1>3, SampledBlock, Zenon
  <2>2. b = Regions(SizeOf[p], r.mode)[j]
    BY <1>0, Zenon DEF j
  <2> QED BY <1>4, <2>1, <2>2, Zenon DEF SampledAt
<1>6. J[i - 1] \in Seq(Blocks) /\ J[i] = J[i - 1] \o s[i]
  <2>1. J \in [0..Len(k) -> Seq(Blocks)] /\ \A m \in 1..Len(k) : J[m] = J[m - 1] \o s[m]
    <3> HIDE DEF s, k, i
    <3>1. /\ J \in [0..Len(s) -> Seq(Blocks)] /\ \A m \in 1..Len(s) : J[m] = J[m - 1] \o s[m]
      BY <1>4, JoinedSteps, Zenon
    <3> QED BY <1>4, <3>1, Zenon
  <2>2. i - 1 \in 0..Len(k)
    BY <1>1
  <2> HIDE DEF J, i, k
  <2> QED BY <1>1, <2>1, <2>2
<1>7. r.bytes = J[i - 1] \o SubSeq(s[i], 1, j - 1)
  BY <1>0, Zenon DEF Sound, Upto
<1>8. j \in 1..Len(s[i])
  BY <1>2, <1>5, Zenon
<1> HIDE DEF J, i, j, k
<1>9. Append(r.bytes, d[p].bytes[b]) = J[i - 1] \o SubSeq(s[i], 1, j)
  <2>1. \A m \in 1..Len(s[i]) : Append(J[i - 1] \o SubSeq(s[i], 1, m - 1), s[i][m]) = J[i - 1] \o SubSeq(s[i], 1, m)
    BY <1>5, <1>6, FirstFacts
  <2> QED BY <1>5, <1>7, <1>8, <2>1
<1>10. j = Len(s[i]) => J[i - 1] \o SubSeq(s[i], 1, j) = J[i]
  <2>1. SubSeq(s[i], 1, Len(s[i])) = s[i]
    BY <1>5, SubSeqFull
  <2> QED BY <1>6, <2>1
<1> QED BY <1>2, <1>5, <1>9, <1>10, Zenon DEF J, i, j, k, ReadOn

-----------------------------------------------------------------------------
(* One pass, step by step.                                                 *)

LEMMA WithSound ==
    ASSUME NEW n, NEW d, NEW r, Good(r), r.phase \in {"stat", "lookup", "read"}, Sound(d, n, r),
           NEW digest, NEW w, w = With(r, digest)
    PROVE  Sound(d, n, w)
<1>1. w.id = <<>> /\ w.puts = r.puts /\ w.phase # "read"
  <2>1. r \in PassType
    BY DEF Good
  <2>2. w.id = <<>> /\ w.puts = r.puts /\ w.phase = IF r.copy = Len(CopiesOf[r.group]) THEN "compare" ELSE "stat"
    BY <2>1, WithFacts
  <2> QED BY <2>2
<1> QED BY <1>1 DEF Sound

\* With a result of the copy in hand that is right of the files, the pass is still
\* an honest one.
LEMMA WithHonest ==
    ASSUME NEW d, NEW r, Good(r), r.phase \in {"stat", "lookup", "read"}, Honest(d, r),
           NEW digest, Shown(d, r, r.copy, [topology |-> Topology(Hand(r)), digest |-> digest]),
           NEW w, w = With(r, digest)
    PROVE  Honest(d, w)
<1> DEFINE e == [topology |-> Topology(Hand(r)), digest |-> digest]
           L == Len(CopiesOf[r.group])
<1>1. r \in PassType /\ r.copy \in 1..L /\ L \in Nat
  BY GroupFacts DEF Good, PassType
<1>2. /\ w.group = r.group /\ w.mode = r.mode /\ w.id = <<>>
      /\ w.phase = IF r.copy = L THEN "compare" ELSE "stat"
      /\ w.copy = IF r.copy = L THEN 1 ELSE r.copy + 1
      /\ w.results = r.results \cup {e}
  BY <1>1, WithFacts
<1>3. Count(r) = r.copy - 1 /\ Count(w) = r.copy
  <2>1. Count(r) = r.copy - 1
    BY DEF Count
  <2>2. Count(w) = r.copy
    <3>1. CASE r.copy = L
      <4>1. w.phase = "compare" /\ w.group = r.group
        BY <1>2, <3>1
      <4> QED BY <3>1, <4>1 DEF Count
    <3>2. CASE r.copy # L
      <4>1. w.phase = "stat" /\ w.copy = r.copy + 1
        BY <1>2, <3>2
      <4>2. (r.copy + 1) - 1 = r.copy
        BY <1>1
      <4> QED BY <4>1, <4>2 DEF Count
    <3> QED BY <3>1, <3>2
  <2> QED BY <2>1, <2>2
<1>4. \A i, f : Shown(d, w, i, f) <=> Shown(d, r, i, f)
  BY <1>2, Zenon DEF Shown
<1> HIDE DEF e
<1>5. ASSUME NEW i \in 1..Count(w) PROVE \E f \in w.results : Shown(d, w, i, f)
  <2>1. CASE i = r.copy
    BY <1>2, <1>4, <2>1 DEF e
  <2>2. CASE i # r.copy
    <3>1. i \in 1..Count(r)
      BY <1>1, <1>3, <2>2
    <3> QED BY <1>2, <1>4, <3>1 DEF Honest
  <2> QED BY <2>1, <2>2
<1>6. ASSUME NEW f \in w.results PROVE \E i \in 1..Count(w) : Shown(d, w, i, f)
  <2>1. CASE f = e
    <3>1. r.copy \in 1..Count(w)
      BY <1>1, <1>3
    <3> QED BY <1>4, <2>1, <3>1 DEF e
  <2>2. CASE f \in r.results
    <3>1. PICK i \in 1..Count(r) : Shown(d, r, i, f)
      BY <2>2 DEF Honest
    <3>2. i \in 1..Count(w)
      BY <1>1, <1>3, <3>1
    <3> QED BY <1>4, <3>1, <3>2
  <2> QED BY <1>2, <2>1, <2>2
<1>7. \A i \in DOMAIN w.id : w.id[i] = IdOf(d, Hand(w))[i]
  BY <1>2
<1> QED BY <1>5, <1>6, <1>7 DEF Honest

\* A result that could not be had is always right.
LEMMA ShownNone ==
    ASSUME NEW d, NEW r, r.copy \in DOMAIN CopiesOf[r.group]
    PROVE  Shown(d, r, r.copy, [topology |-> Topology(Hand(r)), digest |-> <<>>])
BY DEF Shown, Hand

\* An honest pass that has identified all of the copy in hand has identified it as it
\* is, of the sizes that Plex reports.
LEMMA IdKnown ==
    ASSUME NEW n \in Nat, NEW d \in Held(n), NEW r, Good(r), Honest(d, r), r.phase \in {"lookup", "read"}
    PROVE  /\ r.id = IdOf(d, Hand(r))
           /\ \A j \in DOMAIN Hand(r) : Len(d[Hand(r)[j]].bytes) = SizeOf[Hand(r)[j]]
<1> DEFINE k == Hand(r)
<1>1. r \in PassType /\ k \in Keys /\ DOMAIN k = 1..Len(k) /\ Len(k) \in Nat
  BY HandFacts DEF Good, PassType
<1>2. r.id \in Seq(Nat \X Nat) /\ Len(r.id) = Len(k)
  BY <1>1 DEF Good, Stance, PassType
<1>3. DOMAIN r.id = 1..Len(k)
  BY <1>2
<1>4. DOMAIN IdOf(d, k) = 1..Len(k)
  BY <1>1 DEF IdOf
<1>5. \A i \in 1..Len(k) : r.id[i] = IdOf(d, k)[i]
  BY <1>3 DEF Honest
<1>6. r.id = IdOf(d, k)
  <2>1. r.id = [i \in 1..Len(k) |-> r.id[i]]
    <3>1. r.id \in [1..Len(r.id) -> Nat \X Nat]
      BY <1>2, LenProperties
    <3> HIDE DEF k
    <3> QED BY <1>2, <3>1
  <2>2. IdOf(d, k) = [i \in 1..Len(k) |-> IdOf(d, k)[i]]
    BY <1>1 DEF IdOf
  <2> QED BY <1>5, <2>1, <2>2
<1>7. ASSUME NEW j \in DOMAIN k PROVE Len(d[k[j]].bytes) = SizeOf[k[j]]
  <2>1. IdOf(d, k)[j][1] = Len(d[k[j]].bytes)
    BY DEF IdOf
  <2>2. r.id[j][1] = SizeOf[k[j]]
    BY <1>1, <1>3 DEF Good, Stance
  <2> QED BY <1>6, <2>1, <2>2
<1> QED BY <1>6, <1>7

\* So the digest of the files as they are is a right result.
LEMMA ShownDigest ==
    ASSUME NEW n \in Nat, NEW d \in Held(n), NEW r, Good(r), Honest(d, r), r.phase \in {"lookup", "read"},
           NEW digest, digest = DigestOf(d, Hand(r), r.mode)
    PROVE  Shown(d, r, r.copy, [topology |-> Topology(Hand(r)), digest |-> digest])
<1>1. Hand(r) = PartsOf[CopiesOf[r.group][r.copy]]
  BY DEF Hand
<1>2. \A j \in DOMAIN Hand(r) : Len(d[Hand(r)[j]].bytes) = SizeOf[Hand(r)[j]]
  BY IdKnown
<1> QED BY <1>1, <1>2, Zenon DEF Shown

\* A step of a pass, from r to s: what was right of it is right.
Carries(d, n, r, s) == Good(s) /\ Sound(d, n, s) /\ (Honest(d, r) => Honest(d, s))

LEMMA StartCarries ==
    ASSUME NEW n \in Nat, NEW d \in Held(n), NEW r, Good(r), Sound(d, n, r), r.phase = "idle",
           NEW mode \in Modes, NEW s, s = [r EXCEPT !.phase = "stat", !.mode = mode]
    PROVE  Carries(d, n, r, s)
<1>1. r \in PassType /\ r.id = <<>> /\ r.copy = 1 /\ r.results = {} /\ r.at = <<1, 1>> /\ r.bytes = <<>>
  BY DEF Good, Stance
<1>2. s \in PassType
  BY <1>1 DEF PassType, Phases
<1>3. /\ s.phase = "stat" /\ s.mode = mode /\ s.id = <<>> /\ s.copy = 1 /\ s.results = {} /\ s.puts = r.puts
      /\ s.group = r.group /\ s.at = <<1, 1>> /\ s.bytes = <<>>
  BY <1>1 DEF PassType
<1>4. s.copy \in DOMAIN CopiesOf[s.group]
  BY <1>1, <1>3 DEF Good
<1>5. Len(Hand(s)) > 0 /\ Len(s.id) = 0
  <2>1. s.group \in Groups
    BY <1>2 DEF PassType
  <2>2. Len(Hand(s)) \in Nat \ {0}
    BY <1>4, <2>1, HandFacts
  <2> QED BY <1>3, <2>2
<1>6. Stance(s)
  <2>1. IsFiniteSet(s.results)
    BY <1>3, FS_EmptySet
  <2> QED BY <1>3, <1>5, <2>1 DEF Stance
<1>7. Good(s)
  BY <1>2, <1>3, <1>4, <1>6 DEF Good
<1>8. Sound(d, n, s)
  BY <1>3 DEF Sound
<1>9. Honest(d, s)
  <2>1. Count(s) = 0
    BY <1>3 DEF Count
  <2> QED BY <1>3, <2>1 DEF Honest
<1> QED BY <1>7, <1>8, <1>9 DEF Carries

LEMMA ResolveCarries ==
    ASSUME NEW n \in Nat, NEW d \in Held(n), NEW r, Good(r), Sound(d, n, r), r.phase = "stat",
           NEW p, p = Hand(r)[Len(r.id) + 1], Len(d[p].bytes) = SizeOf[p],
           NEW s, s = [r EXCEPT !.id = Append(r.id, <<Len(d[p].bytes), d[p].stamp>>),
                                !.phase = IF Len(r.id) + 1 = Len(Hand(r)) THEN "lookup" ELSE "stat"]
    PROVE  Carries(d, n, r, s)
<1> DEFINE k == Hand(r)
           i == Len(r.id) + 1
           x == <<Len(d[p].bytes), d[p].stamp>>
<1>1. r \in PassType /\ k \in Keys /\ DOMAIN k = 1..Len(k) /\ Len(k) \in Nat
  BY HandFacts DEF Good, PassType
<1>2. r.id \in Seq(Nat \X Nat) /\ Len(r.id) \in Nat /\ DOMAIN r.id = 1..Len(r.id) /\ i \in 1..Len(k)
  <2>1. r.id \in Seq(Nat \X Nat)
    BY <1>1, Zenon DEF PassType
  <2>2. Len(r.id) < Len(k)
    BY DEF Good, Stance
  <2>3. Len(r.id) \in Nat /\ DOMAIN r.id = 1..Len(r.id)
    BY <2>1, LenProperties
  <2> HIDE DEF k
  <2> QED BY <1>1, <2>1, <2>2, <2>3
<1>3. p \in Paths /\ x \in Nat \X Nat /\ x[1] = SizeOf[p] /\ x[2] <= n
  <2>1. p \in Paths
    BY <1>1, <1>2, DigestFacts, Zenon
  <2>2. d[p].bytes \in Seq(Blocks) /\ d[p].stamp \in 0..n
    BY <2>1 DEF Held
  <2>3. Len(d[p].bytes) \in Nat
    BY <2>2
  <2> QED BY <2>1, <2>2, <2>3
<1>4. x = IdOf(d, k)[i]
  BY <1>1, <1>2, Zenon DEF IdOf
<1>5. /\ Append(r.id, x) \in Seq(Nat \X Nat) /\ Len(Append(r.id, x)) = i
      /\ \A j \in 1..Len(r.id) : Append(r.id, x)[j] = r.id[j]
      /\ Append(r.id, x)[i] = x
  <2> HIDE DEF x
  <2> QED BY <1>2, <1>3, AppendProperties
<1>6. s \in PassType
  <2> DEFINE id == Append(r.id, x)
             phase == IF Len(r.id) + 1 = Len(Hand(r)) THEN "lookup" ELSE "stat"
  <2>1. phase \in Phases /\ id \in Seq(Nat \X Nat)
    BY <1>5 DEF Phases
  <2>2. s = [r EXCEPT !.id = id, !.phase = phase]
    OBVIOUS
  <2> HIDE DEF id, phase
  <2> QED BY <1>1, <2>1, <2>2, Zenon DEF PassType
<1>7. /\ s.id = Append(r.id, x) /\ s.phase = IF i = Len(k) THEN "lookup" ELSE "stat"
      /\ s.mode = r.mode /\ s.copy = r.copy /\ s.results = r.results /\ s.puts = r.puts
      /\ s.group = r.group /\ s.at = r.at /\ s.bytes = r.bytes
  BY <1>1, Zenon DEF PassType
<1>8. Hand(s) = k
  BY <1>7, Zenon DEF Hand
<1>9. \A j \in DOMAIN s.id : j \in 1..Len(r.id) \/ j = i
  BY <1>2, <1>5, <1>7, SMTT(30)
<1> HIDE DEF x, k
<1>10. \A j \in DOMAIN s.id : s.id[j][1] = SizeOf[k[j]]
  <2>1. \A j \in 1..Len(r.id) : r.id[j][1] = SizeOf[k[j]]
    BY <1>2 DEF Good, Stance, k
  <2> QED BY <1>3, <1>5, <1>7, <1>9, <2>1 DEF k
<1>11. Stance(s)
  <2>1. Len(s.id) = i /\ (s.phase = "lookup" => i = Len(k)) /\ (s.phase = "stat" => i < Len(k))
    <3>1. Len(s.id) = i
      BY <1>5, <1>7
    <3>2. i <= Len(k) /\ i \in Nat
      BY <1>1, <1>2
    <3> HIDE DEF i
    <3> QED BY <1>1, <1>7, <3>1, <3>2
  <2>2. s.phase \in {"lookup", "stat"}
    BY <1>7
  <2>3. s.mode \in Modes /\ s.at = <<1, 1>> /\ s.bytes = <<>> /\ IsFiniteSet(s.results)
    BY <1>7 DEF Good, Stance
  <2> HIDE DEF i
  <2>4. /\ s.phase = "stat" => Len(s.id) < Len(Hand(s))
        /\ s.phase \in {"lookup", "read"} => Len(s.id) = Len(Hand(s))
    BY <1>8, <2>1, <2>2
  <2>5. s.phase \in {"stat", "lookup", "read"} /\ s.phase \notin {"idle", "close"}
    BY <2>2
  <2>6. \A j \in DOMAIN s.id : s.id[j][1] = SizeOf[Hand(s)[j]]
    BY <1>8, <1>10, Zenon
  <2> QED BY <2>3, <2>4, <2>5, <2>6, Zenon DEF Stance
<1>12. Good(s)
  <2>1. s.phase # "read" /\ s.copy \in DOMAIN CopiesOf[s.group]
    BY <1>7 DEF Good
  <2> QED BY <1>6, <1>11, <2>1 DEF Good
<1>13. Sound(d, n, s)
  <2>1. \A j \in DOMAIN s.id : s.id[j][2] <= n
    <3>1. \A j \in 1..Len(r.id) : r.id[j][2] <= n
      BY <1>2 DEF Sound
    <3> QED BY <1>3, <1>5, <1>7, <1>9, <3>1
  <2>2. s.phase # "read"
    BY <1>7
  <2> QED BY <1>7, <2>1, <2>2 DEF Sound
<1>14. ASSUME Honest(d, r) PROVE Honest(d, s)
  <2>1. Count(s) = Count(r)
    <3>1. s.phase \in {"lookup", "stat"}
      BY <1>7
    <3> QED BY <1>7, <3>1 DEF Count
  <2>2. \A j, f : Shown(d, s, j, f) <=> Shown(d, r, j, f)
    BY <1>7 DEF Shown
  <2>3. \A j \in DOMAIN s.id : s.id[j] = IdOf(d, k)[j]
    <3>1. \A j \in 1..Len(r.id) : r.id[j] = IdOf(d, k)[j]
      BY <1>2, <1>14 DEF Honest, k
    <3> QED BY <1>4, <1>5, <1>7, <1>9, <3>1
  <2>4. \A j \in DOMAIN s.id : s.id[j] = IdOf(d, Hand(s))[j]
    BY <1>8, <2>3, Zenon
  <2>5. /\ \A j \in 1..Count(s) : \E e \in s.results : Shown(d, s, j, e)
        /\ \A e \in s.results : \E j \in 1..Count(s) : Shown(d, s, j, e)
    BY <1>7, <1>14, <2>1, <2>2, Zenon DEF Honest
  <2> QED BY <2>4, <2>5, Zenon DEF Honest
<1> QED BY <1>12, <1>13, <1>14 DEF Carries

\* The copy in hand has its result, right of the files if the pass is an honest one.
LEMMA ResultCarries ==
    ASSUME NEW n \in Nat, NEW d \in Held(n), NEW r, Good(r), Sound(d, n, r), r.phase \in {"stat", "lookup", "read"},
           NEW digest \in Seq(Blocks),
           Honest(d, r) => Shown(d, r, r.copy, [topology |-> Topology(Hand(r)), digest |-> digest]),
           NEW s, s = With(r, digest)
    PROVE  Carries(d, n, r, s)
<1>1. Good(s)
  BY WithGood
<1>2. Sound(d, n, s)
  BY WithSound
<1>3. Honest(d, r) => Honest(d, s)
  BY WithHonest
<1> QED BY <1>1, <1>2, <1>3 DEF Carries

LEMMA FailCarries ==
    ASSUME NEW n \in Nat, NEW d \in Held(n), NEW r, Good(r), Sound(d, n, r), r.phase \in {"stat", "lookup", "read"},
           NEW s, s = With(r, <<>>)
    PROVE  Carries(d, n, r, s)
<1>1. <<>> \in Seq(Blocks)
  OBVIOUS
<1>2. Shown(d, r, r.copy, [topology |-> Topology(Hand(r)), digest |-> <<>>])
  BY ShownNone DEF Good
<1> QED BY <1>1, <1>2, ResultCarries

\* A digest that the cache holds for the identity just read.
LEMMA HitCarries ==
    ASSUME NEW n \in Nat, NEW d \in Held(n), NEW r, Good(r), Sound(d, n, r), r.phase = "lookup",
           NEW row \in Row, Fits(d, n, <<Hand(r), r.mode>>, row), row.id = r.id,
           NEW s, s = With(r, row.digest)
    PROVE  Carries(d, n, r, s)
<1>1. row.digest \in Seq(Blocks)
  BY DEF Row
<1>2. ASSUME Honest(d, r) PROVE Shown(d, r, r.copy, [topology |-> Topology(Hand(r)), digest |-> row.digest])
  <2>1. r.id = IdOf(d, Hand(r))
    BY <1>2, IdKnown
  <2>2. row.digest = DigestOf(d, Hand(r), r.mode)
    BY <2>1 DEF Fits
  <2> HIDE <1>2
  <2> QED BY <1>2, <2>2, ShownDigest
<1> QED BY <1>1, <1>2, ResultCarries

\* Nothing in the cache: the first block is next.
LEMMA MissCarries ==
    ASSUME NEW n \in Nat, NEW d \in Held(n), NEW r, Good(r), Sound(d, n, r), r.phase = "lookup",
           NEW cached \in BOOLEAN, NEW s, s = [r EXCEPT !.phase = "read", !.cached = cached]
    PROVE  Carries(d, n, r, s)
<1> DEFINE k == Hand(r)
<1>1. r \in PassType /\ k \in Keys /\ DOMAIN k = 1..Len(k) /\ Len(k) \in Nat \ {0} /\ k[1] \in Paths
  BY HandFacts DEF Good, PassType
<1>2. s \in PassType
  BY <1>1 DEF PassType, Phases
<1>3. /\ s.phase = "read" /\ s.mode = r.mode /\ s.id = r.id /\ s.copy = r.copy /\ s.results = r.results
      /\ s.puts = r.puts /\ s.group = r.group /\ s.at = <<1, 1>> /\ s.bytes = <<>>
  BY <1>1 DEF PassType, Good, Stance
<1>4. Hand(s) = k
  BY <1>3 DEF Hand
<1>5. 1 \in DOMAIN k /\ 1 \in DOMAIN Regions(SizeOf[k[1]], r.mode)
  <2>1. SizeOf[k[1]] \in Nat \ {0}
    BY <1>1, HashAssumption
  <2>2. /\ Len(Regions(SizeOf[k[1]], r.mode)) \in Nat \ {0}
        /\ DOMAIN Regions(SizeOf[k[1]], r.mode) = 1..Len(Regions(SizeOf[k[1]], r.mode))
    BY <2>1, RegionsFacts
  <2> HIDE DEF k
  <2> QED BY <1>1, <2>2
<1>6. Stance(s)
  <2>1. s.mode \in Modes /\ Len(s.id) = Len(k) /\ IsFiniteSet(s.results) /\ \A i \in DOMAIN s.id : s.id[i][1] = SizeOf[k[i]]
    BY <1>3 DEF Good, Stance
  <2> QED BY <1>3, <1>4, <2>1 DEF Stance
<1>7. Good(s)
  <2>1. s.copy \in DOMAIN CopiesOf[s.group] /\ s.at[1] = 1 /\ s.at[2] = 1
    BY <1>3 DEF Good
  <2> HIDE DEF k
  <2> QED BY <1>2, <1>3, <1>4, <1>5, <1>6, <2>1 DEF Good
<1>8. Sound(d, n, s)
  <2> DEFINE t == SamplesOf(d, k, r.mode)
  <2>1. t \in Seq(Seq(Blocks)) /\ Len(t) = Len(k)
    BY <1>1, DigestFacts
  <2>2. Joined(t)[0] = <<>>
    BY <2>1, JoinedSteps
  <2>3. SubSeq(t[1], 1, 0) = <<>>
    BY SubSeqEmpty
  <2>4. Upto(d, s) = Joined(t)[1 - 1] \o SubSeq(t[1], 1, 1 - 1)
    BY <1>3, <1>4 DEF Upto
  <2>5. Upto(d, s) = <<>>
    <3>1. 1 - 1 = 0
      OBVIOUS
    <3>2. <<>> \o <<>> = <<>>
      OBVIOUS
    <3> HIDE DEF t
    <3> QED BY <2>2, <2>3, <2>4, <3>1, <3>2
  <2> QED BY <1>3, <2>5 DEF Sound
<1>9. ASSUME Honest(d, r) PROVE Honest(d, s)
  <2>1. Count(s) = Count(r)
    BY <1>3 DEF Count
  <2>2. \A j, f : Shown(d, s, j, f) <=> Shown(d, r, j, f)
    BY <1>3 DEF Shown
  <2> QED BY <1>3, <1>4, <1>9, <2>1, <2>2 DEF Honest
<1> QED BY <1>7, <1>8, <1>9 DEF Carries

NextBlock(d, r, p, b) == [r EXCEPT !.bytes = Append(r.bytes, d[p].bytes[b]), !.at = Onward(r)]

LEMMA BlockFacts ==
    ASSUME NEW n \in Nat, NEW d \in Held(n), NEW r, NEW p, NEW b, AtBlock(n, d, r, p, b),
           NEW k, k = Hand(r), NEW R, R = Regions(SizeOf[p], r.mode), NEW i, i = r.at[1], NEW j, j = r.at[2]
    PROVE  /\ r \in PassType /\ k \in Keys /\ DOMAIN k = 1..Len(k) /\ Len(k) \in Nat \ {0}
           /\ i \in 1..Len(k) /\ p \in Paths /\ SizeOf[p] \in Nat \ {0} /\ DOMAIN R = 1..Len(R)
           /\ Len(R) \in Nat /\ j \in 1..Len(R) /\ p = k[i]
           /\ Append(r.bytes, d[p].bytes[b]) \in Seq(Blocks)
           /\ Onward(r) = IF j < Len(R) THEN <<i, j + 1>> ELSE <<i + 1, 1>>
<1>1. Good(r) /\ r \in PassType
  BY DEF AtBlock, Good
<1>2. k \in Keys /\ DOMAIN k = 1..Len(k) /\ Len(k) \in Nat \ {0}
  <2>1. r.group \in Groups /\ r.copy \in DOMAIN CopiesOf[r.group]
    BY <1>1 DEF Good, PassType
  <2> QED BY <2>1, HandFacts
<1>3. i \in 1..Len(k) /\ p = k[i] /\ j \in DOMAIN R
  <2>1. r.at[1] \in DOMAIN Hand(r) /\ p = Hand(r)[r.at[1]]
    BY DEF AtBlock, Good
  <2>2. r.at[2] \in DOMAIN Regions(SizeOf[p], r.mode)
    BY DEF AtBlock, Good
  <2> QED BY <1>2, <2>1, <2>2
<1>4. p \in Paths /\ SizeOf[p] \in Nat \ {0}
  <2>1. k[i] \in Paths
    BY <1>2, <1>3, DigestFacts
  <2> QED BY <1>3, <2>1, HashAssumption
<1>5. /\ DOMAIN R = 1..Len(R) /\ Len(R) \in Nat
      /\ \A m \in 1..Len(R) : R[m] \in 1..SizeOf[p]
  BY <1>4, RegionsFacts, SMTT(20)
<1>6. b \in 1..SizeOf[p] /\ b <= Len(d[p].bytes)
  <2>1. b = R[j] /\ b <= Len(d[p].bytes)
    BY DEF AtBlock
  <2>2. j \in 1..Len(R)
    BY <1>3, <1>5, Zenon
  <2>3. R[j] \in 1..SizeOf[p]
    BY <1>5, <2>2, Zenon
  <2> QED BY <2>1, <2>3, Zenon
<1>7. Append(r.bytes, d[p].bytes[b]) \in Seq(Blocks)
  <2>1. d[p].bytes \in Seq(Blocks)
    BY <1>4 DEF Held
  <2>2. Len(d[p].bytes) \in Nat
    BY <2>1, LenProperties
  <2>3. b \in 1..Len(d[p].bytes)
    BY <1>4, <1>6, <2>2
  <2>4. d[p].bytes[b] \in Blocks
    BY <2>1, <2>3, ElementOfSeq
  <2>5. r.bytes \in Seq(Blocks)
    BY <1>1 DEF PassType
  <2> QED BY <2>4, <2>5, AppendProperties
<1>8. Onward(r) = IF j < Len(R) THEN <<i, j + 1>> ELSE <<i + 1, 1>>
  <2>1. p = Hand(r)[r.at[1]]
    BY DEF AtBlock
  <2> QED BY <2>1 DEF Onward
<1> QED BY <1>1, <1>2, <1>3, <1>4, <1>5, <1>7, <1>8, Zenon

\* A block that is not the last.
LEMMA BlockCarries ==
    ASSUME NEW n \in Nat, NEW d \in Held(n), NEW r, NEW p, NEW b, AtBlock(n, d, r, p, b),
           Onward(r)[1] <= Len(Hand(r)), NEW s, s = NextBlock(d, r, p, b)
    PROVE  Carries(d, n, r, s)
<1>a. PICK k, R, i, j, bytes, t :
        /\ k = Hand(r) /\ R = Regions(SizeOf[p], r.mode) /\ i = r.at[1] /\ j = r.at[2]
        /\ bytes = Append(r.bytes, d[p].bytes[b]) /\ t = SamplesOf(d, Hand(r), r.mode)
  OBVIOUS
<1>b. Good(r) /\ Sound(d, n, r) /\ r.phase = "read"
  BY DEF AtBlock
<1>c. /\ r \in PassType /\ k \in Keys /\ DOMAIN k = 1..Len(k) /\ Len(k) \in Nat \ {0}
      /\ i \in 1..Len(k) /\ p \in Paths /\ SizeOf[p] \in Nat \ {0} /\ DOMAIN R = 1..Len(R)
      /\ Len(R) \in Nat /\ j \in 1..Len(R) /\ p = k[i] /\ bytes \in Seq(Blocks)
      /\ Onward(r) = IF j < Len(R) THEN <<i, j + 1>> ELSE <<i + 1, 1>>
  BY <1>a, BlockFacts
<1>d. PICK at : at = Onward(r)
  OBVIOUS
<1>1. at \in Nat \X Nat /\ at[1] \in 1..Len(k) /\ at[2] \in DOMAIN Regions(SizeOf[k[at[1]]], r.mode)
  <2>1. CASE j < Len(R)
    <3>1. at = <<i, j + 1>>
      BY <1>c, <1>d, <2>1
    <3>2. j + 1 \in 1..Len(R) /\ i \in Nat /\ j + 1 \in Nat
      BY <1>c, <2>1
    <3>3. j + 1 \in DOMAIN Regions(SizeOf[k[i]], r.mode)
      BY <1>a, <1>c, <3>2, SMTT(20)
    <3> QED BY <1>c, <3>1, <3>2, <3>3
  <2>2. CASE ~(j < Len(R))
    <3>1. at = <<i + 1, 1>>
      BY <1>c, <1>d, <2>2
    <3>2. i + 1 \in 1..Len(k) /\ i + 1 \in Nat
      <4>1. i + 1 <= Len(k)
        BY <1>a, <1>d, <3>1
      <4> QED BY <1>c, <4>1
    <3>3. SizeOf[k[i + 1]] \in Nat \ {0}
      <4>1. k[i + 1] \in Paths
        BY <1>c, <3>2, DigestFacts
      <4> QED BY <4>1, HashAssumption
    <3>4. 1 \in DOMAIN Regions(SizeOf[k[i + 1]], r.mode)
      <4>1. PICK u : u = Regions(SizeOf[k[i + 1]], r.mode)
        OBVIOUS
      <4>2. Len(u) \in Nat \ {0} /\ DOMAIN u = 1..Len(u)
        BY <3>3, <4>1, RegionsFacts
      <4> QED BY <4>1, <4>2
    <3> QED BY <3>1, <3>2, <3>4
  <2> QED BY <2>1, <2>2
<1>2. s = [r EXCEPT !.bytes = bytes, !.at = at]
  BY <1>a, <1>d DEF NextBlock
<1>3. s \in PassType
  BY <1>c, <1>1, <1>2 DEF PassType
<1>4. /\ s.phase = "read" /\ s.mode = r.mode /\ s.id = r.id /\ s.copy = r.copy /\ s.results = r.results
      /\ s.puts = r.puts /\ s.group = r.group /\ s.at = at /\ s.bytes = bytes
  BY <1>b, <1>c, <1>2 DEF PassType
<1>5. Hand(s) = k
  BY <1>a, <1>4 DEF Hand
<1>6. Stance(s)
  <2>1. /\ s.mode \in Modes /\ Len(s.id) = Len(k) /\ IsFiniteSet(s.results)
        /\ \A m \in DOMAIN s.id : s.id[m][1] = SizeOf[k[m]]
    BY <1>a, <1>b, <1>4 DEF Good, Stance
  <2> QED BY <1>4, <1>5, <2>1 DEF Stance
<1>7. Good(s)
  <2>1. s.copy \in DOMAIN CopiesOf[s.group]
    BY <1>b, <1>4 DEF Good
  <2> QED BY <1>c, <1>1, <1>3, <1>4, <1>5, <1>6, <2>1 DEF Good
<1>8. ASSUME r.id = IdOf(d, k) PROVE bytes = Upto(d, s)
  <2>1. /\ t[i] \in Seq(Blocks) /\ Len(t[i]) = Len(R)
        /\ bytes = Joined(t)[i - 1] \o SubSeq(t[i], 1, j)
        /\ j = Len(t[i]) => bytes = Joined(t)[i]
    <3>1. r.id = IdOf(d, Hand(r))
      BY <1>8, <1>a
    <3>2. ReadOn(d, r, p, b, t)
      BY <1>a, <3>1, ReadFacts
    <3> QED BY <1>a, <3>2, Zenon DEF ReadOn
  <2>2. Upto(d, s) = Joined(t)[at[1] - 1] \o SubSeq(t[at[1]], 1, at[2] - 1)
    BY <1>a, <1>4, <1>5 DEF Upto
  <2>3. CASE j < Len(R)
    <3>1. at[1] = i /\ at[2] = j + 1
      BY <1>c, <1>d, <2>3
    <3>2. (j + 1) - 1 = j
      BY <1>c
    <3> QED BY <2>1, <2>2, <3>1, <3>2
  <2>4. CASE ~(j < Len(R))
    <3>1. at[1] = i + 1 /\ at[2] = 1
      BY <1>c, <1>d, <2>4
    <3>2. (i + 1) - 1 = i /\ 1 - 1 = 0 /\ j = Len(R)
      <4>1. i \in Int /\ j \in Int /\ Len(R) \in Int /\ j <= Len(R)
        BY <1>c
      <4> QED BY <2>4, <4>1
    <3>3. SubSeq(t[i + 1], 1, 0) = <<>>
      BY SubSeqEmpty
    <3>4. bytes \o <<>> = bytes
      BY <1>c, ConcatEmptySeq
    <3> QED BY <2>1, <2>2, <3>1, <3>2, <3>3, <3>4
  <2> QED BY <2>3, <2>4
<1>9. Sound(d, n, s)
  BY <1>b, <1>4, <1>5, <1>8 DEF Sound
<1>10. ASSUME Honest(d, r) PROVE Honest(d, s)
  <2>1. Count(s) = Count(r)
    BY <1>b, <1>4 DEF Count
  <2>2. \A m, f : Shown(d, s, m, f) <=> Shown(d, r, m, f)
    BY <1>4 DEF Shown
  <2> QED BY <1>a, <1>4, <1>5, <1>10, <2>1, <2>2 DEF Honest
<1> QED BY <1>7, <1>9, <1>10 DEF Carries

\* The rows that a pass holds for the cache are put in place of others that fit.
LEMMA PutsCarries ==
    ASSUME NEW n \in Nat, NEW d \in Held(n), NEW r, NEW w, Carries(d, n, r, w), w.phase # "read",
           NEW puts \in [Keys \X Modes -> Row], \A x \in Keys \X Modes : Fits(d, n, x, puts[x]),
           NEW s, s = [w EXCEPT !.puts = puts]
    PROVE  Carries(d, n, r, s)
<1>1. w \in PassType /\ Good(w) /\ Sound(d, n, w)
  BY DEF Carries, Good
<1>2. s \in PassType
  BY <1>1 DEF PassType
<1>3. /\ s.phase = w.phase /\ s.mode = w.mode /\ s.id = w.id /\ s.copy = w.copy /\ s.results = w.results
      /\ s.puts = puts /\ s.group = w.group /\ s.at = w.at /\ s.bytes = w.bytes
  BY <1>1 DEF PassType
<1>4. Hand(s) = Hand(w)
  BY <1>3 DEF Hand
<1>5. Stance(s)
  <2>1. Stance(w)
    BY <1>1 DEF Good
  <2> QED BY <1>3, <1>4, <2>1 DEF Stance
<1>6. Good(s)
  <2>1. w.copy \in DOMAIN CopiesOf[w.group]
    BY <1>1 DEF Good
  <2> QED BY <1>2, <1>3, <1>5, <2>1 DEF Good
<1>7. Sound(d, n, s)
  BY <1>1, <1>3 DEF Sound
<1>8. ASSUME Honest(d, r) PROVE Honest(d, s)
  <2>1. Honest(d, w)
    BY <1>8 DEF Carries
  <2>2. Count(s) = Count(w)
    BY <1>3 DEF Count
  <2>3. \A m, f : Shown(d, s, m, f) <=> Shown(d, w, m, f)
    BY <1>3 DEF Shown
  <2> QED BY <1>3, <1>4, <2>1, <2>2, <2>3 DEF Honest
<1> QED BY <1>6, <1>7, <1>8 DEF Carries

\* The last block: the digest is complete.
LEMMA LastCarries ==
    ASSUME NEW n \in Nat, NEW d \in Held(n), NEW r, NEW p, NEW b, AtBlock(n, d, r, p, b),
           ~ (Onward(r)[1] <= Len(Hand(r))),
           NEW bytes, bytes = Append(r.bytes, d[p].bytes[b]),
           NEW row, row = [id |-> r.id, digest |-> bytes],
           NEW w, w = With(r, bytes),
           NEW s, s = [w EXCEPT !.puts = IF r.cached THEN [@ EXCEPT ![<<Hand(r), r.mode>>] = row] ELSE @]
    PROVE  Carries(d, n, r, s)
<1>a. PICK k, R, i, j, t :
        /\ k = Hand(r) /\ R = Regions(SizeOf[p], r.mode) /\ i = r.at[1] /\ j = r.at[2]
        /\ t = SamplesOf(d, Hand(r), r.mode)
  OBVIOUS
<1>b. Good(r) /\ Sound(d, n, r) /\ r.phase = "read"
  BY Zenon DEF AtBlock
<1>c. /\ r \in PassType /\ k \in Keys /\ DOMAIN k = 1..Len(k) /\ Len(k) \in Nat \ {0}
      /\ i \in 1..Len(k) /\ p \in Paths /\ SizeOf[p] \in Nat \ {0} /\ DOMAIN R = 1..Len(R)
      /\ Len(R) \in Nat /\ j \in 1..Len(R) /\ p = k[i] /\ bytes \in Seq(Blocks)
      /\ Onward(r) = IF j < Len(R) THEN <<i, j + 1>> ELSE <<i + 1, 1>>
  BY <1>a, BlockFacts
<1>1. i = Len(k) /\ j = Len(R)
  <2>1. ~ (j < Len(R))
    <3>1. ASSUME j < Len(R) PROVE FALSE
      <4>1. Onward(r)[1] = i
        BY <1>c, <3>1
      <4>2. i <= Len(k)
        BY <1>c
      <4> QED BY <1>a, <4>1, <4>2
    <3> QED BY <3>1
  <2>2. ~ (i + 1 <= Len(k))
    <3>1. Onward(r)[1] = i + 1
      BY <1>c, <2>1
    <3> QED BY <1>a, <3>1
  <2>3. i \in Int /\ j \in Int /\ Len(R) \in Int /\ Len(k) \in Int /\ i <= Len(k) /\ j <= Len(R)
    BY <1>c
  <2> QED BY <2>1, <2>2, <2>3
<1>2. ASSUME r.id = IdOf(d, k) PROVE bytes = DigestOf(d, k, r.mode)
  <2>1. ReadOn(d, r, p, b, t)
    BY <1>2, <1>a, ReadFacts
  <2>2. bytes = Joined(t)[i]
    BY <1>1, <1>a, <2>1, Zenon DEF ReadOn
  <2> QED BY <1>1, <1>a, <2>2 DEF DigestOf
<1>3. Carries(d, n, r, w)
  <2>1. ASSUME Honest(d, r) PROVE Shown(d, r, r.copy, [topology |-> Topology(Hand(r)), digest |-> bytes])
    <3>1. bytes = DigestOf(d, Hand(r), r.mode)
      <4>1. r.id = IdOf(d, Hand(r))
        BY <1>b, <2>1, IdKnown
      <4> QED BY <1>2, <1>a, <4>1
    <3> QED BY <1>b, <2>1, <3>1, ShownDigest
  <2> QED BY <1>b, <1>c, <2>1, ResultCarries
<1>4. w.phase # "read" /\ w.puts = r.puts /\ w \in PassType
  <2>1. w.puts = r.puts /\ w.phase = IF r.copy = Len(CopiesOf[r.group]) THEN "compare" ELSE "stat"
    BY <1>c, WithFacts
  <2>2. w \in PassType
    BY <1>3, Zenon DEF Carries, Good
  <2> QED BY <2>1, <2>2
<1>d. PICK x, puts : /\ x = <<Hand(r), r.mode>>
                     /\ puts = IF r.cached THEN [r.puts EXCEPT ![<<Hand(r), r.mode>>] = row] ELSE r.puts
  OBVIOUS
<1>5. x \in Keys \X Modes /\ row \in Row /\ r.puts \in [Keys \X Modes -> Row]
  <2>1. r.mode \in Modes
    BY <1>b DEF Good, Stance
  <2>2. r.id \in Seq(Nat \X Nat) /\ r.puts \in [Keys \X Modes -> Row]
    BY <1>c DEF PassType
  <2> QED BY <1>a, <1>c, <1>d, <2>1, <2>2, Zenon DEF Row
<1>6. puts \in [Keys \X Modes -> Row]
  BY <1>5, <1>d
<1>7. Fits(d, n, x, row)
  <2>1. x[1] = k /\ x[2] = r.mode
    BY <1>a, <1>d
  <2>2. row.id = r.id /\ row.digest = bytes
    OBVIOUS
  <2>3. \A m \in DOMAIN r.id : r.id[m][2] <= n
    BY <1>b DEF Sound
  <2> QED BY <1>2, <2>1, <2>2, <2>3 DEF Fits
<1>8. \A y \in Keys \X Modes : Fits(d, n, y, puts[y])
  <2>1. \A y \in Keys \X Modes : puts[y] = r.puts[y] \/ (y = x /\ puts[y] = row)
    BY <1>5, <1>d
  <2>2. \A y \in Keys \X Modes : Fits(d, n, y, r.puts[y])
    BY <1>b DEF Sound
  <2> QED BY <1>7, <2>1, <2>2
<1>9. s = [w EXCEPT !.puts = puts]
  <2>1. s = [w EXCEPT !.puts = IF r.cached THEN [w.puts EXCEPT ![<<Hand(r), r.mode>>] = row] ELSE w.puts]
    BY <1>4 DEF PassType
  <2> QED BY <1>4, <1>d, <2>1
<1> QED BY <1>3, <1>4, <1>6, <1>8, <1>9, PutsCarries, Zenon

\* The comparison is made: on to the next group, or to the end.
LEMMA CompareCarries ==
    ASSUME NEW n \in Nat, NEW d \in Held(n), NEW r, Good(r), Sound(d, n, r), r.phase = "compare",
           NEW s, s = [r EXCEPT !.results = {},
                                !.phase = IF r.group = NumGroups THEN "close" ELSE "stat",
                                !.group = IF r.group = NumGroups THEN 1 ELSE r.group + 1]
    PROVE  Carries(d, n, r, s)
<1>a. PICK phase, group : /\ phase = IF r.group = NumGroups THEN "close" ELSE "stat"
                          /\ group = IF r.group = NumGroups THEN 1 ELSE r.group + 1
  OBVIOUS
<1>1. r \in PassType /\ r.group \in Groups /\ r.id = <<>> /\ r.copy = 1 /\ r.at = <<1, 1>> /\ r.bytes = <<>>
  <2>1. r \in PassType /\ Stance(r)
    BY DEF Good
  <2> QED BY <2>1 DEF Stance, PassType
<1>2. group \in Groups /\ phase \in {"close", "stat"} /\ phase \in Phases
  <2>1. NumGroups \in Nat \ {0}
    BY HashAssumption
  <2> QED BY <1>1, <1>a, <2>1 DEF Groups, Phases
<1>3. s = [r EXCEPT !.results = {}, !.phase = phase, !.group = group]
  BY <1>a
<1>4. s \in PassType
  BY <1>1, <1>2, <1>3 DEF PassType
<1>5. /\ s.phase = phase /\ s.mode = r.mode /\ s.id = <<>> /\ s.copy = 1 /\ s.results = {}
      /\ s.puts = r.puts /\ s.group = group /\ s.at = <<1, 1>> /\ s.bytes = <<>>
  BY <1>1, <1>3 DEF PassType
<1>6. 1 \in DOMAIN CopiesOf[group]
  BY <1>2, GroupFacts
<1>7. Len(Hand(s)) \in Nat \ {0}
  BY <1>2, <1>5, <1>6, HandFacts
<1>8. Stance(s)
  <2>1. IsFiniteSet(s.results) /\ Len(s.id) = 0 /\ s.mode \in Modes
    BY <1>5, FS_EmptySet DEF Good, Stance
  <2>2. Len(s.id) < Len(Hand(s))
    BY <1>7, <2>1
  <2>3. DOMAIN s.id = {}
    BY <1>5
  <2>4. CASE phase = "close"
    BY <1>5, <2>1, <2>3, <2>4 DEF Stance
  <2>5. CASE phase = "stat"
    BY <1>5, <2>1, <2>2, <2>3, <2>5 DEF Stance
  <2> QED BY <1>2, <2>4, <2>5
<1>9. Good(s)
  BY <1>2, <1>4, <1>5, <1>6, <1>8 DEF Good
<1>10. Sound(d, n, s)
  BY <1>2, <1>5 DEF Sound
<1>11. Honest(d, s)
  <2>1. Count(s) = 0
    BY <1>2, <1>5 DEF Count
  <2> QED BY <1>5, <2>1 DEF Honest
<1> QED BY <1>9, <1>10, <1>11 DEF Carries

\* A pass that has not begun, or is over.
LEMMA IdleFacts ==
    ASSUME NEW n \in Nat, NEW d \in Held(n)
    PROVE  Good(Idle) /\ Sound(d, n, Idle) /\ Honest(d, Idle)
<1>a. PICK s : s = Idle
  OBVIOUS
<1>0. NoRows \in [Keys \X Modes -> Row] /\ \A x \in Keys \X Modes : NoRows[x] = NoRow
  BY DEF NoRows, NoRow, Row
<1>1. /\ s.phase = "idle" /\ s.mode = "none" /\ s.id = <<>> /\ s.copy = 1 /\ s.results = {}
      /\ s.puts = NoRows /\ s.group = 1 /\ s.at = <<1, 1>> /\ s.bytes = <<>>
  BY <1>a DEF Idle
<1>2. 1 \in Groups /\ 1 \in DOMAIN CopiesOf[1]
  <2>1. 1 \in Groups
    BY HashAssumption DEF Groups
  <2> QED BY <2>1, GroupFacts
<1>3. s \in PassType
  BY <1>0, <1>2, <1>a DEF PassType, Idle, Phases
<1>4. Good(s)
  <2>1. IsFiniteSet(s.results)
    BY <1>1, FS_EmptySet
  <2>2. Stance(s)
    BY <1>1, <2>1 DEF Stance
  <2> QED BY <1>1, <1>2, <1>3, <2>2 DEF Good
<1>5. \A x \in Keys \X Modes : Fits(d, n, x, NoRow)
  <2>1. SUFFICES ASSUME NEW x \in Keys \X Modes PROVE Fits(d, n, x, NoRow)
    OBVIOUS
  <2>2. x[1] \in Keys
    OBVIOUS
  <2>3. 1 \in DOMAIN IdOf(d, x[1])
    BY <2>2, DigestFacts DEF IdOf
  <2>4. DOMAIN <<>> = {}
    OBVIOUS
  <2> QED BY <2>3, <2>4 DEF Fits, NoRow
<1>6. Sound(d, n, s)
  BY <1>0, <1>1, <1>5 DEF Sound
<1>7. Honest(d, s)
  <2>1. Count(s) = 0
    BY <1>1 DEF Count
  <2> QED BY <1>1, <2>1 DEF Honest
<1> QED BY <1>4, <1>6, <1>7, <1>a

-----------------------------------------------------------------------------
(* Every step keeps the invariant.                                         *)

LEMMA WorldFacts ==
    ASSUME HashInv
    PROVE  /\ changes \in Nat /\ disk \in Held(changes)
           /\ pass \in [Passes -> PassType]
           /\ \A q \in Passes : Good(pass[q]) /\ Sound(disk, changes, pass[q])
           /\ \A q \in still : Honest(disk, pass[q])
<1>1. MaxChanges \in Nat
  BY HashAssumption
<1> QED BY <1>1 DEF HashInv, TInv, World, Held

\* A pass moves, the files are as they were, and what the cache holds fits.
LEMMA PassMoves ==
    ASSUME HashInv, NEW q \in Passes, NEW s, Good(s), Sound(disk, changes, s),
           pass' = [pass EXCEPT ![q] = s],
           disk' = disk, changes' = changes,
           cache' \in [Keys \X Modes -> Row], \A x \in Keys \X Modes : Fits(disk, changes, x, cache'[x]),
           said' \in [Passes -> [Groups -> Statuses \cup {"none"}]],
           still' \subseteq still \cup {q}, q \in still' => Honest(disk, s)
    PROVE  HashInv'
<1>1. pass' \in [Passes -> PassType] /\ \A t \in Passes : pass'[t] = IF t = q THEN s ELSE pass[t]
  <2>1. s \in PassType
    BY DEF Good
  <2> QED BY <2>1, WorldFacts
<1>2. World'
  BY DEF HashInv, TInv, World
<1>3. \A t \in Passes : Good(pass'[t]) /\ Sound(disk', changes', pass'[t])
  BY <1>1, WorldFacts
<1>4. \A t \in still' : Honest(disk', pass'[t])
  <2>1. still' \subseteq Passes
    BY DEF HashInv, TInv, World
  <2> QED BY <1>1, <2>1, WorldFacts
<1>5. \A x \in Keys \X Modes : Fits(disk', changes', x, cache'[x])
  OBVIOUS
<1> QED BY <1>1, <1>2, <1>3, <1>4, <1>5 DEF HashInv, TInv

\* What a step of a pass does to it.
LEMMA StepCarries ==
    ASSUME HashInv, NEW q \in Passes,
           \/ Start(q) \/ Resolve(q) \/ CopyFails(q) \/ Hit(q) \/ Miss(q) \/ LookupFails(q)
           \/ ReadBlock(q) \/ Compare(q)
    PROVE  \E s : pass' = [pass EXCEPT ![q] = s] /\ Carries(disk, changes, pass[q], s)
<1>a. PICK r : r = pass[q]
  OBVIOUS
<1>b. /\ changes \in Nat /\ disk \in Held(changes) /\ r \in PassType /\ Good(r) /\ Sound(disk, changes, r)
      /\ pass \in [Passes -> PassType]
  BY <1>a, WorldFacts DEF Good
<1>1. CASE Start(q)
  <2>1. PICK mode \in Modes : pass' = [pass EXCEPT ![q].phase = "stat", ![q].mode = mode]
    BY <1>1 DEF Start
  <2>2. PICK s : s = [r EXCEPT !.phase = "stat", !.mode = mode]
    OBVIOUS
  <2>3. pass' = [pass EXCEPT ![q] = s]
    BY <1>a, <1>b, <2>1, <2>2
  <2>4. r.phase = "idle"
    BY <1>1, <1>a DEF Start
  <2>5. Carries(disk, changes, r, s)
    BY <1>b, <2>2, <2>4, StartCarries
  <2> QED BY <1>a, <2>3, <2>5
<1>2. CASE Resolve(q)
  <2>1. PICK p : p = Hand(r)[Len(r.id) + 1]
    OBVIOUS
  <2>2. PICK s : s = [r EXCEPT !.id = Append(r.id, <<Len(disk[p].bytes), disk[p].stamp>>),
                               !.phase = IF Len(r.id) + 1 = Len(Hand(r)) THEN "lookup" ELSE "stat"]
    OBVIOUS
  <2>3. /\ Len(disk[p].bytes) = SizeOf[p]
        /\ pass' = [pass EXCEPT ![q].id = Append(@, <<Len(disk[p].bytes), disk[p].stamp>>),
                                ![q].phase = IF Len(r.id) + 1 = Len(Hand(r)) THEN "lookup" ELSE "stat"]
    <3>1. Identity(p) = <<Len(disk[p].bytes), disk[p].stamp>>
      BY DEF Identity
    <3> QED BY <1>2, <1>a, <2>1, <3>1, Zenon DEF Resolve
  <2>4. pass' = [pass EXCEPT ![q] = s]
    <3>1. PICK id, phase : /\ id = Append(r.id, <<Len(disk[p].bytes), disk[p].stamp>>)
                           /\ phase = IF Len(r.id) + 1 = Len(Hand(r)) THEN "lookup" ELSE "stat"
      OBVIOUS
    <3>2. pass' = [pass EXCEPT ![q].id = id, ![q].phase = phase] /\ s = [r EXCEPT !.id = id, !.phase = phase]
      BY <1>a, <2>2, <2>3, <3>1, Zenon
    <3>3. pass \in [Passes -> PassType] /\ q \in Passes /\ r = pass[q]
      BY <1>a, <1>b
    <3> QED BY <3>2, <3>3
  <2>5. r.phase = "stat"
    BY <1>2, <1>a DEF Resolve
  <2>6. Carries(disk, changes, r, s)
    BY <1>b, <2>1, <2>2, <2>3, <2>5, ResolveCarries, Zenon
  <2> QED BY <1>a, <2>4, <2>6
<1>3. CASE CopyFails(q)
  <2>1. pass' = [pass EXCEPT ![q] = With(r, <<>>)] /\ r.phase \in {"stat", "lookup", "read"}
    BY <1>3, <1>a DEF CopyFails
  <2>2. Carries(disk, changes, r, With(r, <<>>))
    BY <1>b, <2>1, FailCarries
  <2> QED BY <1>a, <2>1, <2>2
<1>4. CASE Hit(q)
  <2>1. PICK digest \in Cached(q) : pass' = [pass EXCEPT ![q] = With(r, digest)]
    BY <1>4, <1>a DEF Hit
  <2>2. PICK x, row : x = <<Hand(r), r.mode>> /\ row = cache[x]
    OBVIOUS
  <2>3. digest = row.digest /\ row.id = r.id
    BY <1>a, <2>1, <2>2 DEF Cached, Slot
  <2>4. r.phase = "lookup"
    BY <1>4, <1>a DEF Hit
  <2>5. x \in Keys \X Modes
    <3>1. Hand(r) \in Keys
      <4>1. r.group \in Groups /\ r.copy \in DOMAIN CopiesOf[r.group]
        BY <1>b DEF Good, PassType
      <4> QED BY <4>1, HandFacts
    <3>2. r.mode \in Modes
      BY <1>b, <2>4 DEF Good, Stance
    <3> QED BY <2>2, <3>1, <3>2
  <2>6. row \in Row /\ Fits(disk, changes, x, row)
    BY <2>2, <2>5 DEF HashInv, TInv, World
  <2>7. Carries(disk, changes, r, With(r, digest))
    BY <1>b, <2>2, <2>3, <2>4, <2>6, HitCarries
  <2> QED BY <1>a, <2>1, <2>7
<1>5. CASE Miss(q)
  <2>1. PICK s : s = [r EXCEPT !.phase = "read", !.cached = r.cached]
    OBVIOUS
  <2>2. pass' = [pass EXCEPT ![q].phase = "read"] /\ r.phase = "lookup" /\ r.cached \in BOOLEAN
    BY <1>5, <1>a, <1>b DEF Miss, PassType
  <2>3. s = [r EXCEPT !.phase = "read"]
    BY <1>b, <2>1 DEF PassType
  <2>4. pass' = [pass EXCEPT ![q] = s]
    BY <1>a, <1>b, <2>2, <2>3
  <2>5. Carries(disk, changes, r, s)
    BY <1>b, <2>1, <2>2, MissCarries
  <2> QED BY <1>a, <2>4, <2>5
<1>6. CASE LookupFails(q)
  <2>1. PICK s : s = [r EXCEPT !.phase = "read", !.cached = FALSE]
    OBVIOUS
  <2>2. pass' = [pass EXCEPT ![q].phase = "read", ![q].cached = FALSE] /\ r.phase = "lookup"
    BY <1>6, <1>a DEF LookupFails
  <2>3. pass' = [pass EXCEPT ![q] = s]
    BY <1>a, <1>b, <2>1, <2>2
  <2>4. Carries(disk, changes, r, s)
    BY <1>b, <2>1, <2>2, MissCarries
  <2> QED BY <1>a, <2>3, <2>4
<1>7. CASE ReadBlock(q)
  <2>1. PICK p, b, bytes, row, w :
          /\ p = Hand(r)[r.at[1]] /\ b = Regions(SizeOf[p], r.mode)[r.at[2]]
          /\ bytes = Append(r.bytes, disk[p].bytes[b]) /\ row = [id |-> r.id, digest |-> bytes]
          /\ w = With(r, bytes)
    OBVIOUS
  <2>2. r.phase = "read" /\ b <= Len(disk[p].bytes)
    BY <1>7, <1>a, <2>1, Zenon DEF ReadBlock
  <2>3. AtBlock(changes, disk, r, p, b)
    BY <1>b, <2>1, <2>2, Zenon DEF AtBlock
  <2>4. CASE Onward(r)[1] <= Len(Hand(r))
    <3>1. pass' = [pass EXCEPT ![q] = NextBlock(disk, r, p, b)]
      BY <1>7, <1>a, <2>1, <2>4, Zenon DEF ReadBlock, NextBlock
    <3>2. Carries(disk, changes, r, NextBlock(disk, r, p, b))
      BY <1>b, <2>3, <2>4, BlockCarries
    <3> QED BY <1>a, <3>1, <3>2
  <2>5. CASE ~ (Onward(r)[1] <= Len(Hand(r)))
    <3>1. PICK s : s = [w EXCEPT !.puts = IF r.cached THEN [@ EXCEPT ![<<Hand(r), r.mode>>] = row] ELSE @]
      OBVIOUS
    <3>2. pass' = [pass EXCEPT ![q] = s]
      BY <1>7, <1>a, <2>1, <2>5, <3>1, Zenon DEF ReadBlock, Slot
    <3>3. Carries(disk, changes, r, s)
      BY <1>b, <2>1, <2>3, <2>5, <3>1, LastCarries, Zenon
    <3> QED BY <1>a, <3>2, <3>3
  <2> QED BY <2>4, <2>5
<1>8. CASE Compare(q)
  <2>1. PICK s : s = [r EXCEPT !.results = {},
                               !.phase = IF r.group = NumGroups THEN "close" ELSE "stat",
                               !.group = IF r.group = NumGroups THEN 1 ELSE r.group + 1]
    OBVIOUS
  <2>2. /\ r.phase = "compare"
        /\ pass' = [pass EXCEPT ![q].results = {},
                                ![q].phase = IF r.group = NumGroups THEN "close" ELSE "stat",
                                ![q].group = IF r.group = NumGroups THEN 1 ELSE @ + 1]
    BY <1>8, <1>a DEF Compare
  <2>3. pass' = [pass EXCEPT ![q] = s]
    BY <1>a, <1>b, <2>1, <2>2 DEF PassType
  <2>4. Carries(disk, changes, r, s)
    BY <1>b, <2>1, <2>2, CompareCarries
  <2> QED BY <1>a, <2>3, <2>4
<1> QED BY <1>1, <1>2, <1>3, <1>4, <1>5, <1>6, <1>7, <1>8

\* Nothing of a file that has changed is in the hands of a pass that has not begun.
LEMMA IdleHonest ==
    ASSUME NEW d, NEW r, Good(r), r.phase = "idle"
    PROVE  Honest(d, r)
<1>1. r.id = <<>> /\ r.results = {} /\ Count(r) = 0
  BY DEF Good, Stance, Count
<1> QED BY <1>1 DEF Honest

LEMMA ChangeStep ==
    ASSUME HashInv, NEW p \in Paths, NEW blocks \in Contents[p], Change(p, blocks)
    PROVE  HashInv'
<1>0. /\ changes \in Nat /\ disk \in Held(changes) /\ blocks \in Seq(Blocks)
      /\ \A q \in Passes : Good(pass[q]) /\ Sound(disk, changes, pass[q])
  BY WorldFacts, HashAssumption
<1>1. /\ disk' = Changed(disk, changes, p, blocks) /\ changes' = changes + 1 /\ changes < MaxChanges
      /\ still' = {q \in still : pass[q].phase = "idle"} /\ cache' = cache /\ pass' = pass /\ said' = said
  BY DEF Change, Changed
<1>2. /\ disk' \in [Paths -> [bytes : Seq(Blocks), stamp : 0..(changes + 1)]]
      /\ \A t \in Paths : disk'[t].bytes \in Contents[t]
  BY <1>0, <1>1 DEF HashInv, TInv, World, Changed, Held
<1>3. changes + 1 \in 0..MaxChanges
  BY <1>0, <1>1, HashAssumption
<1>4. World'
  BY <1>1, <1>2, <1>3 DEF HashInv, TInv, World
<1>5. \A x \in Keys \X Modes : Fits(disk', changes', x, cache'[x])
  <2>1. \A x \in Keys \X Modes : cache[x] \in Row /\ Fits(disk, changes, x, cache[x])
    BY DEF HashInv, TInv, World
  <2> QED BY <1>0, <1>1, <2>1, ChangeFits
<1>6. \A q \in Passes : Sound(disk', changes', pass'[q])
  BY <1>0, <1>1, ChangeSound
<1>7. \A q \in still' : Honest(disk', pass'[q])
  <2>1. still \subseteq Passes
    BY DEF HashInv, TInv, World
  <2> QED BY <1>0, <1>1, <2>1, IdleHonest
<1>8. pass' \in [Passes -> PassType] /\ \A q \in Passes : Good(pass'[q])
  BY <1>0, <1>1, WorldFacts
<1> QED BY <1>4, <1>5, <1>6, <1>7, <1>8 DEF HashInv, TInv

\* What a pass says of a group is a verdict.
LEMMA SaidFacts ==
    ASSUME HashInv, NEW q \in Passes, Compare(q)
    PROVE  said' \in [Passes -> [Groups -> Statuses \cup {"none"}]]
<1>1. Verdict(pass[q].results, pass[q].mode) \in Statuses
  BY DEF Verdict, Statuses
<1>2. said' = [said EXCEPT ![q][pass[q].group] = Verdict(pass[q].results, pass[q].mode)]
  BY DEF Compare
<1> HIDE DEF Verdict
<1> QED BY <1>1, <1>2 DEF HashInv, TInv, World

\* The rows that are kept are rows that fitted, in the cache or in the hands of the pass.
LEMMA FlushStep ==
    ASSUME HashInv, NEW q \in Passes, Flush(q)
    PROVE  /\ cache' \in [Keys \X Modes -> Row]
           /\ \A x \in Keys \X Modes : Fits(disk, changes, x, cache'[x])
<1>a. PICK r, new : r = pass[q] /\ new = Flushed(pass[q])
  OBVIOUS
<1>b. /\ changes \in Nat /\ disk \in Held(changes) /\ r \in PassType /\ Sound(disk, changes, r)
      /\ cache \in [Keys \X Modes -> Row] /\ \A x \in Keys \X Modes : Fits(disk, changes, x, cache[x])
  BY <1>a, WorldFacts DEF Good, HashInv, TInv, World
<1>1. NoRow \in Row /\ \A x \in Keys \X Modes : Fits(disk, changes, x, NoRow)
  <2>1. Sound(disk, changes, Idle) /\ Idle.puts = NoRows
    BY <1>b, IdleFacts DEF Idle
  <2>2. \A x \in Keys \X Modes : NoRows[x] = NoRow
    BY DEF NoRows
  <2>3. NoRow \in Row
    BY DEF NoRow, Row
  <2> HIDE DEF Idle
  <2> QED BY <2>1, <2>2, <2>3 DEF Sound
<1>2. new \in [Keys \X Modes -> Row] /\ \A x \in Keys \X Modes : Fits(disk, changes, x, new[x])
  <2>1. r.puts \in [Keys \X Modes -> Row] /\ \A x \in Keys \X Modes : Fits(disk, changes, x, r.puts[x])
    BY <1>b DEF PassType, Sound
  <2>2. DOMAIN cache = Keys \X Modes
    BY <1>b
  <2>3. new = [x \in Keys \X Modes |-> IF r.puts[x] # NoRow THEN r.puts[x] ELSE cache[x]]
    BY <1>a, <2>2 DEF Flushed
  <2> QED BY <1>b, <2>1, <2>3
<1>3. CASE cache' = cache
  BY <1>b, <1>3
<1>4. CASE cache' = new
  BY <1>2, <1>4
<1>5. ASSUME NEW keep, cache' = [x \in DOMAIN new |-> IF x \in keep THEN new[x] ELSE NoRow]
      PROVE  /\ cache' \in [Keys \X Modes -> Row]
             /\ \A x \in Keys \X Modes : Fits(disk, changes, x, cache'[x])
  BY <1>1, <1>2, <1>5
<1> QED BY <1>a, <1>3, <1>4, <1>5 DEF Flush

LEMMA HashInit == Init => HashInv
<1> SUFFICES ASSUME Init PROVE HashInv
  OBVIOUS
<1>1. PICK held \in [Paths -> UNION {Contents[p] : p \in Paths}] :
        /\ \A p \in Paths : held[p] \in Contents[p] /\ Len(held[p]) = SizeOf[p]
        /\ disk = [p \in Paths |-> [bytes |-> held[p], stamp |-> 0]]
  BY DEF Init
<1>2. changes = 0 /\ cache = NoRows /\ pass = [q \in Passes |-> Idle] /\ said = [q \in Passes |-> Unsaid] /\ still = Passes
  BY DEF Init
<1>3. /\ disk \in [Paths -> [bytes : Seq(Blocks), stamp : 0..0]]
      /\ \A p \in Paths : disk[p].bytes \in Contents[p]
  <2>1. \A p \in Paths : held[p] \in Seq(Blocks)
    BY <1>1, HashAssumption
  <2> QED BY <1>1, <2>1
<1>4. 0 \in Nat /\ disk \in Held(0)
  BY <1>3 DEF Held
<1>5. NoRows \in [Keys \X Modes -> Row] /\ \A x \in Keys \X Modes : NoRows[x] = NoRow
  BY DEF NoRows, NoRow, Row
<1>6. Good(Idle) /\ Sound(disk, 0, Idle) /\ Honest(disk, Idle) /\ Idle.puts = NoRows
  BY <1>4, IdleFacts DEF Idle
<1> HIDE DEF Idle, NoRows
<1>7. World
  <2>1. 0 \in 0..MaxChanges
    BY HashAssumption
  <2>2. said \in [Passes -> [Groups -> Statuses \cup {"none"}]]
    BY <1>2 DEF Unsaid
  <2> QED BY <1>2, <1>3, <1>5, <2>1, <2>2 DEF World
<1>8. pass \in [Passes -> PassType] /\ \A q \in Passes : pass[q] = Idle
  BY <1>2, <1>6 DEF Good
<1>9. \A x \in Keys \X Modes : Fits(disk, changes, x, cache[x])
  BY <1>2, <1>6 DEF Sound
<1> QED BY <1>2, <1>6, <1>7, <1>8, <1>9 DEF HashInv, TInv

LEMMA HashStep == HashInv /\ [Next]_vars => HashInv'
<1> SUFFICES ASSUME HashInv, [Next]_vars PROVE HashInv'
  OBVIOUS
<1>1. ASSUME NEW p \in Paths, NEW blocks \in Contents[p], Change(p, blocks) PROVE HashInv'
  BY <1>1, ChangeStep
<1>2. ASSUME NEW q \in Passes,
             \/ Start(q) \/ Resolve(q) \/ CopyFails(q) \/ Hit(q) \/ Miss(q) \/ LookupFails(q)
             \/ ReadBlock(q) \/ Compare(q)
      PROVE  HashInv'
  <2>1. PICK s : pass' = [pass EXCEPT ![q] = s] /\ Carries(disk, changes, pass[q], s)
    BY <1>2, StepCarries
  <2>2. disk' = disk /\ cache' = cache /\ still' = still /\ changes' = changes
    BY <1>2, Zenon DEF Start, Resolve, CopyFails, Hit, Miss, LookupFails, ReadBlock, Compare
  <2>3. said' \in [Passes -> [Groups -> Statuses \cup {"none"}]]
    <3>1. CASE Compare(q)
      BY <3>1, SaidFacts
    <3>2. CASE said' = said
      BY <3>2 DEF HashInv, TInv, World
    <3> QED BY <1>2, <3>1, <3>2, Zenon DEF Start, Resolve, CopyFails, Hit, Miss, LookupFails, ReadBlock
  <2>4. cache' \in [Keys \X Modes -> Row] /\ \A x \in Keys \X Modes : Fits(disk, changes, x, cache'[x])
    BY <2>2 DEF HashInv, TInv, World
  <2>5. Good(s) /\ Sound(disk, changes, s) /\ (q \in still' => Honest(disk, s))
    BY <2>1, <2>2, WorldFacts DEF Carries
  <2> QED BY <2>1, <2>2, <2>3, <2>4, <2>5, PassMoves
<1>3. ASSUME NEW q \in Passes, Close(q) \/ Aborts(q) \/ Crash(q) PROVE HashInv'
  <2>1. /\ pass' = [pass EXCEPT ![q] = Idle] /\ said' = [said EXCEPT ![q] = Unsaid] /\ still' = still \cup {q}
        /\ disk' = disk /\ changes' = changes
    BY <1>3 DEF Close, Aborts, Crash, Leave
  <2>2. cache' \in [Keys \X Modes -> Row] /\ \A x \in Keys \X Modes : Fits(disk, changes, x, cache'[x])
    <3>1. CASE Close(q) \/ Aborts(q)
      <4>1. Flush(q)
        BY <3>1 DEF Close, Aborts
      <4> QED BY <4>1, FlushStep
    <3>2. CASE Crash(q)
      BY <3>2 DEF Crash, HashInv, TInv, World
    <3> QED BY <1>3, <3>1, <3>2
  <2>3. said' \in [Passes -> [Groups -> Statuses \cup {"none"}]]
    <3>1. said \in [Passes -> [Groups -> Statuses \cup {"none"}]]
      BY DEF HashInv, TInv, World
    <3> QED BY <2>1, <3>1 DEF Unsaid
  <2>4. Good(Idle) /\ Sound(disk, changes, Idle) /\ Honest(disk, Idle)
    BY WorldFacts, IdleFacts
  <2> HIDE DEF Idle
  <2> QED BY <2>1, <2>2, <2>3, <2>4, PassMoves
<1>4. CASE UNCHANGED vars
  <2>1. disk' = disk /\ cache' = cache /\ pass' = pass /\ said' = said /\ still' = still /\ changes' = changes
    BY <1>4 DEF vars
  <2> QED BY <2>1 DEF HashInv, TInv, World
<1> QED BY <1>1, <1>2, <1>3, <1>4 DEF Next, Step

\* Every variable has its type, and a pass reads within the parts in hand, however
\* files change under it.
THEOREM HashTypeCorrect == Spec => []TypeOK
<1>1. HashInv => TypeOK
  BY DEF HashInv, TInv, World, Good, TypeOK
<1> QED BY HashInit, HashStep, <1>1, PTL DEF Spec

\* The cache never serves a wrong verdict: a digest, stored or still buffered, of the
\* files as they are now identified is the digest of what they now hold.
THEOREM CacheIsSound == Spec => []CacheSound
<1>1. HashInv => CacheSound
  <2> SUFFICES ASSUME HashInv, NEW x \in Keys \X Modes,
                      NEW row \in {cache[x]} \cup {pass[q].puts[x] : q \in Passes}, row.id = IdNow(x[1])
               PROVE  row.digest = DigestNow(x[1], x[2])
    BY DEF CacheSound
  <2>1. Fits(disk, changes, x, row)
    BY DEF HashInv, Sound
  <2>2. IdNow(x[1]) = IdOf(disk, x[1])
    BY DEF IdNow, IdOf, Identity
  <2>3. DigestNow(x[1], x[2]) = DigestOf(disk, x[1], x[2])
    BY DEF DigestNow, DigestOf, Samples, SamplesOf
  <2> QED BY <2>1, <2>2, <2>3 DEF Fits
<1> QED BY HashInit, HashStep, <1>1, PTL DEF Spec

-----------------------------------------------------------------------------
(* Verdicts.                                                               *)

\* A finite set has at most one element when its cardinality says so.
LEMMA AtMostOne ==
    ASSUME NEW S, IsFiniteSet(S)
    PROVE  Cardinality(S) > 1 <=> \E a, b \in S : a # b
<1>0. Cardinality(S) \in Nat
  BY FS_CardinalityType
<1>1. ASSUME Cardinality(S) > 1 PROVE \E a, b \in S : a # b
  <2>1. SUFFICES ASSUME \A a, b \in S : a = b PROVE FALSE
    OBVIOUS
  <2>2. S # {}
    BY <1>1, FS_EmptySet
  <2>3. PICK a : S = {a}
    BY <2>1, <2>2
  <2>4. Cardinality(S) = 1
    BY <2>3, FS_Singleton
  <2> QED BY <1>1, <2>4
<1>2. ASSUME NEW a \in S, NEW b \in S, a # b PROVE Cardinality(S) > 1
  <2>1. IsFiniteSet({a}) /\ Cardinality({a}) = 1
    BY FS_Singleton
  <2>2. Cardinality({a} \cup {b}) = 2
    BY <1>2, <2>1, FS_AddElement
  <2>3. {a} \cup {b} \in SUBSET S
    OBVIOUS
  <2>4. Cardinality({a} \cup {b}) <= Cardinality(S)
    BY <2>3, FS_Subset
  <2> QED BY <1>0, <2>2, <2>4
<1> QED BY <1>1, <1>2

\* Results whose topologies, or digests, differ.
LEMMA ManyFacts ==
    ASSUME NEW results, IsFiniteSet(results)
    PROVE  /\ Cardinality({r.topology : r \in results}) > 1 <=> \E e, f \in results : e.topology # f.topology
           /\ Cardinality({r.digest : r \in results}) > 1 <=> \E e, f \in results : e.digest # f.digest
<1> DEFINE T == {r.topology : r \in results}
           D == {r.digest : r \in results}
<1>1. IsFiniteSet(T)
  <2> DEFINE f == [r \in results |-> r.topology]
  <2>1. f \in Surjection(results, T)
    BY DEF Surjection
  <2> HIDE DEF f, T
  <2> QED BY <2>1, FS_Surjection
<1>2. IsFiniteSet(D)
  <2> DEFINE f == [r \in results |-> r.digest]
  <2>1. f \in Surjection(results, D)
    BY DEF Surjection
  <2> HIDE DEF f, D
  <2> QED BY <2>1, FS_Surjection
<1>3. Cardinality(T) > 1 <=> \E a, b \in T : a # b
  <2> HIDE DEF T
  <2> QED BY <1>1, AtMostOne
<1>4. Cardinality(D) > 1 <=> \E a, b \in D : a # b
  <2> HIDE DEF D
  <2> QED BY <1>2, AtMostOne
<1>5. (\E a, b \in T : a # b) <=> \E e, f \in results : e.topology # f.topology
  OBVIOUS
<1>6. (\E a, b \in D : a # b) <=> \E e, f \in results : e.digest # f.digest
  OBVIOUS
<1> HIDE DEF T, D
<1>7. /\ Cardinality(T) > 1 <=> \E e, f \in results : e.topology # f.topology
      /\ Cardinality(D) > 1 <=> \E e, f \in results : e.digest # f.digest
  BY <1>3, <1>4, <1>5, <1>6
<1> QED BY <1>7 DEF T, D

\* Two sequences are the same, and so long are their ends b and e.
SameEnds(a, b, c, e) == a \o b = c \o e /\ Len(b) = Len(e)

\* So are their beginnings, and the ends themselves.
LEMMA CancelEnd ==
    ASSUME NEW B, NEW a \in Seq(B), NEW b \in Seq(B), NEW c \in Seq(B), NEW e \in Seq(B), SameEnds(a, b, c, e)
    PROVE  a = c /\ b = e
<1>0. a \o b = c \o e /\ Len(b) = Len(e)
  BY DEF SameEnds
<1>1. Len(a) \in Nat /\ Len(b) \in Nat /\ Len(c) \in Nat
  BY LenProperties
<1>2. Len(a) = Len(c)
  <2>1. Len(a \o b) = Len(a) + Len(b)
    BY ConcatProperties
  <2>2. Len(c \o e) = Len(c) + Len(e)
    BY ConcatProperties
  <2> QED BY <1>0, <1>1, <2>1, <2>2
<1>3. \A i \in 1..Len(a) : a[i] = c[i]
  <2>1. SUFFICES ASSUME NEW i \in 1..Len(a) PROVE a[i] = c[i]
    OBVIOUS
  <2>2. (a \o b)[i] = a[i]
    BY <1>1, ConcatProperties
  <2>3. (c \o e)[i] = c[i]
    BY <1>1, <1>2, ConcatProperties
  <2> QED BY <1>0, <2>2, <2>3
<1>4. a = c
  BY <1>2, <1>3, SeqEqual
<1>5. b = e
  <2>1. a \o b = a \o e
    BY <1>0, <1>4
  <2> QED BY <2>1, ConcatSimplifications
<1> QED BY <1>4, <1>5

\* N sequences s and t of elements of B are the same one after the other, and each as long as its like.
SameJoined(B, N, s, t) ==
    /\ s \in Seq(Seq(B)) /\ t \in Seq(Seq(B))
    /\ Len(s) = N /\ Len(t) = N /\ \A i \in 1..N : Len(s[i]) = Len(t[i])
    /\ Joined(s)[N] = Joined(t)[N]

\* So each is its like.
LEMMA JoinedSame ==
    ASSUME NEW B, NEW N \in Nat, NEW s, NEW t, SameJoined(B, N, s, t)
    PROVE  \A i \in 1..N : s[i] = t[i]
<1>0. /\ s \in Seq(Seq(B)) /\ t \in Seq(Seq(B))
      /\ Len(s) = N /\ Len(t) = N /\ \A i \in 1..N : Len(s[i]) = Len(t[i])
      /\ Joined(s)[N] = Joined(t)[N]
  BY DEF SameJoined
<1> USE <1>0
<1>a. PICK f, g : f = Joined(s) /\ g = Joined(t)
  OBVIOUS
<1>1. /\ f \in [0..N -> Seq(B)] /\ \A i \in 1..N : f[i] = f[i - 1] \o s[i]
      /\ g \in [0..N -> Seq(B)] /\ \A i \in 1..N : g[i] = g[i - 1] \o t[i]
  BY <1>a, JoinedSteps
<1>2. \A i \in 1..N : s[i] \in Seq(B) /\ t[i] \in Seq(B)
  BY ElementOfSeq
<1>3. ASSUME NEW i \in 1..N, f[i] = g[i] PROVE f[i - 1] = g[i - 1] /\ s[i] = t[i]
  <2>1. f[i - 1] \in Seq(B) /\ g[i - 1] \in Seq(B)
    <3>1. i - 1 \in 0..N
      OBVIOUS
    <3> QED BY <1>1, <3>1
  <2>2. PICK a, b, c, e : a = f[i - 1] /\ b = s[i] /\ c = g[i - 1] /\ e = t[i]
    OBVIOUS
  <2>3. SameEnds(a, b, c, e)
    BY <1>1, <1>3, <2>2 DEF SameEnds
  <2>4. a \in Seq(B) /\ b \in Seq(B) /\ c \in Seq(B) /\ e \in Seq(B)
    BY <1>2, <2>1, <2>2
  <2>5. a = c /\ b = e
    BY <2>3, <2>4, CancelEnd
  <2> QED BY <2>2, <2>5
<1> DEFINE S == {m \in Nat : m <= N => f[N - m] = g[N - m]}
<1>4. 0 \in S
  BY <1>a
<1>5. ASSUME NEW m \in S PROVE m + 1 \in S
  <2>1. m \in Nat
    OBVIOUS
  <2>2. SUFFICES ASSUME m + 1 <= N PROVE f[N - (m + 1)] = g[N - (m + 1)]
    BY <2>1
  <2>3. f[N - m] = g[N - m] /\ N - m \in 1..N /\ (N - m) - 1 = N - (m + 1)
    BY <2>1, <2>2
  <2>4. f[(N - m) - 1] = g[(N - m) - 1]
    BY <1>3, <2>3
  <2> QED BY <2>3, <2>4
<1>6. S = Nat
  <2>1. S \subseteq Nat
    OBVIOUS
  <2> HIDE DEF S
  <2> QED BY <1>4, <1>5, <2>1, NaturalsBySteps
<1>7. ASSUME NEW i \in 1..N PROVE s[i] = t[i]
  <2>0. N - i \in Nat /\ N - (N - i) = i /\ N - i <= N
    OBVIOUS
  <2>1. N - i \in S
    <3> HIDE DEF S
    <3> QED BY <1>6, <2>0
  <2>2. f[i] = g[i]
    BY <2>0, <2>1
  <2> QED BY <1>3, <2>2
<1> QED BY <1>7

\* Two copies in as many parts of the same sizes, which are byte for byte the same,
\* have the same samples.
LEMMA SameSamples ==
    ASSUME NEW n \in Nat, NEW d \in Held(n), NEW k \in Keys, NEW l \in Keys, Topology(k) = Topology(l),
           \A j \in DOMAIN k : Len(d[k[j]].bytes) = SizeOf[k[j]],
           \A j \in DOMAIN l : Len(d[l[j]].bytes) = SizeOf[l[j]],
           DigestOf(d, k, "full") = DigestOf(d, l, "full"), NEW mode
    PROVE  DigestOf(d, k, mode) = DigestOf(d, l, mode)
<1>a. PICK s, t, N : s = SamplesOf(d, k, "full") /\ t = SamplesOf(d, l, "full") /\ N = Len(k)
  OBVIOUS
<1>1. /\ N \in Nat /\ DOMAIN k = 1..N /\ DOMAIN l = 1..Len(l) /\ Len(l) \in Nat
      /\ \A j \in 1..N : k[j] \in Paths
      /\ \A j \in 1..Len(l) : l[j] \in Paths
  BY <1>a, DigestFacts
<1>2. Len(l) = N /\ \A j \in 1..N : SizeOf[k[j]] = SizeOf[l[j]]
  <2>1. \A j \in Paths : SizeOf[j] \in Nat
    BY HashAssumption
  <2>2. Len(l) = N
    <3>1. PICK u, v : u = Topology(k) /\ v = Topology(l)
      OBVIOUS
    <3>2. u \in [1..N -> Nat] /\ v \in [1..Len(l) -> Nat]
      BY <1>1, <2>1, <3>1, Zenon DEF Topology
    <3>3. Len(u) = N
      BY <1>1, <3>2
    <3>4. Len(v) = Len(l)
      BY <1>1, <3>2
    <3>5. u = v
      BY <3>1
    <3> QED BY <3>3, <3>4, <3>5
  <2>3. \A j \in 1..N : Topology(k)[j] = SizeOf[k[j]] /\ Topology(l)[j] = SizeOf[l[j]]
    BY <1>1, <2>2 DEF Topology
  <2> QED BY <2>2, <2>3
<1>3. /\ s \in Seq(Seq(Blocks)) /\ t \in Seq(Seq(Blocks)) /\ Len(s) = N /\ Len(t) = N
      /\ \A j \in 1..N : s[j] = Sampled(d[k[j]].bytes, "full") /\ t[j] = Sampled(d[l[j]].bytes, "full")
  <2>1. s \in Seq(Seq(Blocks)) /\ Len(s) = N /\ \A j \in 1..N : s[j] = Sampled(d[k[j]].bytes, "full")
    BY <1>a, DigestFacts
  <2>2. t \in Seq(Seq(Blocks)) /\ Len(t) = N /\ \A j \in 1..N : t[j] = Sampled(d[l[j]].bytes, "full")
    BY <1>a, <1>2, DigestFacts
  <2> QED BY <2>1, <2>2
<1>4. \A j \in 1..N : s[j] = d[k[j]].bytes /\ t[j] = d[l[j]].bytes
  <2>1. \A j \in 1..N : d[k[j]].bytes \in Seq(Blocks) /\ d[l[j]].bytes \in Seq(Blocks)
    BY <1>1, <1>2 DEF Held
  <2> QED BY <1>3, <2>1, SampledFull
<1>5. \A j \in 1..N : Len(s[j]) = Len(t[j])
  BY <1>1, <1>2, <1>4
<1>6. Joined(s)[N] = Joined(t)[N]
  BY <1>a, <1>2 DEF DigestOf
<1>7. \A j \in 1..N : d[k[j]].bytes = d[l[j]].bytes
  <2>1. SameJoined(Blocks, N, s, t)
    BY <1>3, <1>5, <1>6 DEF SameJoined
  <2>2. \A j \in 1..N : s[j] = t[j]
    BY <1>1, <2>1, JoinedSame
  <2> QED BY <1>4, <2>2
<1>8. SamplesOf(d, k, mode) = SamplesOf(d, l, mode)
  BY <1>1, <1>2, <1>7 DEF SamplesOf
<1> QED BY <1>a, <1>2, <1>8 DEF DigestOf

\* What Alike says, of the files d.
AlikeOf(d, g, mode) ==
    \A i, j \in DOMAIN CopiesOf[g] :
        DigestOf(d, PartsOf[CopiesOf[g][i]], mode) = DigestOf(d, PartsOf[CopiesOf[g][j]], mode)

\* An honest pass says what is true.
LEMMA VerdictFacts ==
    ASSUME NEW n \in Nat, NEW d \in Held(n), NEW r, Good(r), Honest(d, r), r.phase = "compare",
           NEW v, v = Verdict(r.results, r.mode)
    PROVE  /\ v = "confirmed" => AlikeOf(d, r.group, "full")
           /\ v = "sample-match" => AlikeOf(d, r.group, "partial")
           /\ v = "different" => ~AlikeOf(d, r.group, "full")
<1>a. PICK R, mode, L : R = r.results /\ mode = r.mode /\ L = Len(CopiesOf[r.group])
  OBVIOUS
<1> DEFINE K(i) == PartsOf[CopiesOf[r.group][i]]
<1>1. /\ mode \in {"partial", "full"} /\ IsFiniteSet(R) /\ L \in Nat /\ DOMAIN CopiesOf[r.group] = 1..L
      /\ \A i \in 1..L : K(i) \in Keys
  <2>1. r.group \in Groups
    BY DEF Good, PassType
  <2>2. r.mode \in Modes /\ IsFiniteSet(r.results)
    BY DEF Good, Stance
  <2>3. \A i \in 1..L : K(i) \in Keys
    BY <1>a, <2>1, GroupFacts, PartsFacts
  <2> QED BY <1>a, <2>1, <2>2, <2>3, GroupFacts, HashAssumption
<1>2. Count(r) = L
  BY <1>a DEF Count
<1>3. /\ \A i \in 1..L : \E e \in R : Shown(d, r, i, e)
      /\ \A e \in R : \E i \in 1..L : Shown(d, r, i, e)
  BY <1>2, <1>a DEF Honest
<1>4. /\ Cardinality({e.topology : e \in R}) > 1 <=> \E e, f \in R : e.topology # f.topology
      /\ Cardinality({e.digest : e \in R}) > 1 <=> \E e, f \in R : e.digest # f.digest
  BY <1>1, ManyFacts
<1>5. v # "unhashable" => /\ \A e \in R : e.digest # <<>>
                          /\ \A e, f \in R : e.topology = f.topology
  BY <1>4, <1>a DEF Verdict
<1>6. ASSUME v # "unhashable", NEW i \in 1..L, NEW e \in R, Shown(d, r, i, e)
      PROVE  /\ e.topology = Topology(K(i)) /\ e.digest = DigestOf(d, K(i), mode)
             /\ \A j \in DOMAIN K(i) : Len(d[K(i)[j]].bytes) = SizeOf[K(i)[j]]
  BY <1>5, <1>6, <1>a, Zenon DEF Shown
<1>7. ASSUME v # "unhashable", \A e, f \in R : e.digest = f.digest PROVE AlikeOf(d, r.group, mode)
  <2>1. SUFFICES ASSUME NEW i \in 1..L, NEW j \in 1..L PROVE DigestOf(d, K(i), mode) = DigestOf(d, K(j), mode)
    BY <1>1 DEF AlikeOf
  <2>2. PICK e \in R : Shown(d, r, i, e)
    BY <1>3
  <2>3. PICK f \in R : Shown(d, r, j, f)
    BY <1>3
  <2>4. e.digest = DigestOf(d, K(i), mode) /\ f.digest = DigestOf(d, K(j), mode)
    BY <1>6, <1>7, <2>2, <2>3
  <2> QED BY <1>7, <2>4
<1>8. v \in {"confirmed", "sample-match"} => /\ \A e, f \in R : e.digest = f.digest
                                             /\ v # "unhashable"
  BY <1>4, <1>a DEF Verdict
<1>9. (v = "confirmed" => mode = "full") /\ (v = "sample-match" => mode = "partial")
  BY <1>1, <1>a DEF Verdict
<1>10. ASSUME v = "different" PROVE ~AlikeOf(d, r.group, "full")
  <2>1. PICK e \in R, f \in R : e.digest # f.digest
    BY <1>4, <1>10, <1>a DEF Verdict
  <2>2. PICK i \in 1..L : Shown(d, r, i, e)
    BY <1>3
  <2>3. PICK j \in 1..L : Shown(d, r, j, f)
    BY <1>3
  <2>4. PICK k, l : k = K(i) /\ l = K(j)
    OBVIOUS
  <2>5. /\ e.topology = Topology(k) /\ e.digest = DigestOf(d, k, mode)
        /\ \A m \in DOMAIN k : Len(d[k[m]].bytes) = SizeOf[k[m]]
    BY <1>6, <1>10, <2>2, <2>4
  <2>6. /\ f.topology = Topology(l) /\ f.digest = DigestOf(d, l, mode)
        /\ \A m \in DOMAIN l : Len(d[l[m]].bytes) = SizeOf[l[m]]
    BY <1>6, <1>10, <2>3, <2>4
  <2>7. Topology(k) = Topology(l) /\ k \in Keys /\ l \in Keys
    BY <1>1, <1>5, <1>10, <2>4, <2>5, <2>6, Zenon
  <2>8. DigestOf(d, k, mode) # DigestOf(d, l, mode)
    BY <2>1, <2>5, <2>6
  <2>9. DigestOf(d, k, "full") # DigestOf(d, l, "full")
    BY <2>5, <2>6, <2>7, <2>8, SameSamples
  <2>10. i \in DOMAIN CopiesOf[r.group] /\ j \in DOMAIN CopiesOf[r.group]
    BY <1>1
  <2> QED BY <2>4, <2>9, <2>10 DEF AlikeOf
<1> QED BY <1>7, <1>8, <1>9, <1>10

\* A verdict of a pass during which no file changed is true, whatever earlier passes, of
\* either mode, put in the cache while files changed, failed or died.
THEOREM VerdictIsTrue == Spec => VerdictTrue
<1> DEFINE A == \A q \in still, g \in Groups : said'[q][g] # said[q][g] =>
                  /\ said'[q][g] = "confirmed" => Alike(g, "full")
                  /\ said'[q][g] = "sample-match" => Alike(g, "partial")
                  /\ said'[q][g] = "different" => ~Alike(g, "full")
<1>1. HashInv /\ [Next]_vars => [A]_vars
  <2> SUFFICES ASSUME HashInv, [Next]_vars, NEW q \in still, NEW g \in Groups, said'[q][g] # said[q][g]
               PROVE  /\ said'[q][g] = "confirmed" => Alike(g, "full")
                      /\ said'[q][g] = "sample-match" => Alike(g, "partial")
                      /\ said'[q][g] = "different" => ~Alike(g, "full")
    OBVIOUS
  <2>1. said \in [Passes -> [Groups -> Statuses \cup {"none"}]] /\ q \in Passes
    BY DEF HashInv, TInv, World
  <2>2. \A mode : Alike(g, mode) <=> AlikeOf(disk, g, mode)
    <3>1. \A k, mode : DigestNow(k, mode) = DigestOf(disk, k, mode)
      BY DEF DigestNow, DigestOf, Samples, SamplesOf
    <3> QED BY <3>1 DEF Alike, AlikeOf
  <2>3. ASSUME NEW t \in Passes, Compare(t)
        PROVE  /\ said'[q][g] = "confirmed" => Alike(g, "full")
               /\ said'[q][g] = "sample-match" => Alike(g, "partial")
               /\ said'[q][g] = "different" => ~Alike(g, "full")
    <3>1. PICK r, v : r = pass[t] /\ v = Verdict(r.results, r.mode)
      OBVIOUS
    <3>2. said' = [said EXCEPT ![t][r.group] = v] /\ r.phase = "compare"
      BY <2>3, <3>1 DEF Compare
    <3>3. t = q /\ r.group = g /\ said'[q][g] = v
      BY <2>1, <3>2
    <3>4. changes \in Nat /\ disk \in Held(changes) /\ Good(r) /\ Honest(disk, r)
      BY <3>1, <3>3, WorldFacts
    <3>5. /\ v = "confirmed" => AlikeOf(disk, r.group, "full")
          /\ v = "sample-match" => AlikeOf(disk, r.group, "partial")
          /\ v = "different" => ~AlikeOf(disk, r.group, "full")
      BY <3>1, <3>2, <3>4, VerdictFacts
    <3> QED BY <2>2, <3>3, <3>5
  <2>4. ASSUME NEW t \in Passes, Close(t) \/ Aborts(t) \/ Crash(t) PROVE said'[q][g] = "none"
    <3>1. said' = [said EXCEPT ![t] = Unsaid]
      BY <2>4 DEF Close, Aborts, Crash, Leave
    <3>2. t = q
      BY <2>1, <3>1
    <3> QED BY <2>1, <3>1, <3>2 DEF Unsaid
  <2>5. \/ \E t \in Passes : Compare(t)
        \/ \E t \in Passes : Close(t) \/ Aborts(t) \/ Crash(t)
        \/ said' = said
    BY Zenon DEF Next, Step, Change, Start, Resolve, CopyFails, Hit, Miss, LookupFails, ReadBlock, vars
  <2> QED BY <2>3, <2>4, <2>5
<1>2. Spec => [][A]_vars
  BY HashInit, HashStep, <1>1, PTL DEF Spec
<1> QED BY <1>2 DEF VerdictTrue
==============================================================================
