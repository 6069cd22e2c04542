------------------------ MODULE ReclaimRequestProofs ------------------------
EXTENDS ReclaimRequest, Induction

Tracking == [Ids -> Paths \cup {None}]
Of(n, files, a) == [gen |-> n, disk |-> files, arr |-> a]

\* What a report says follows from its files and from what the *arrs tracked.
Built(r) == \E a \in Tracking : r = Annotated(Of(r.gen, r.disk, a))

\* What a snapshot says of its files depends on nothing else in it.
LEMMA FilesDecide ==
    ASSUME NEW r, NEW s, r.disk = s.disk
    PROVE  /\ \A c \in Copies : Listed(r, c) = Listed(s, c) /\ Quality(r, c) = Quality(s, c)
           /\ \A g : Shown(r, g) = Shown(s, g)
<1>1. \A c : Listed(r, c) = Listed(s, c)
  BY DEF Listed
<1>2. \A c : Quality(r, c) = Quality(s, c)
  <2>1. SUFFICES ASSUME NEW c PROVE Quality(r, c) = Quality(s, c)
    OBVIOUS
  <2>2. Listed(r, c) = Listed(s, c)
    BY <1>1
  <2> QED BY <2>2, Zenon DEF Quality
<1>3. \A g : Shown(r, g) = Shown(s, g)
  BY <1>1, Zenon DEF Shown
<1> QED BY <1>1, <1>2, <1>3

\* The quality of a copy that is listed is a number.
LEMMA QualityType ==
    ASSUME NEW r, r.disk \in [Paths -> Versions], NEW c \in Copies, Listed(r, c) # {}
    PROVE  Quality(r, c) \in Nat
<1> DEFINE q == CHOOSE q \in Listed(r, c) : TRUE
<1>1. q \in Listed(r, c)
  OBVIOUS
<1>2. q \in Parts /\ Listed(r, c) \in SUBSET Parts
  BY <1>1, RequestAssumption DEF Listed, PartsOf
<1>3. r.disk[PathOf[q]] \in Versions
  BY <1>2, RequestAssumption
<1>4. Score[Listed(r, c)][r.disk[PathOf[q]]] \in Nat
  <2> HIDE DEF q
  <2> QED BY <1>2, <1>3, RequestAssumption
<1> QED BY <1>4 DEF Quality

\* Only copies of the item with a listed part are shown.
LEMMA ShownType ==
    ASSUME NEW r, NEW g \in Groups, NEW c \in Shown(r, g)
    PROVE  c \in Copies /\ GroupOf[c] = g /\ Listed(r, c) # {}
BY DEF Shown, Own

\* A group that shows copies has a keeper, the best of them.
LEMMA KeeperIsBest ==
    ASSUME NEW r, r.disk \in [Paths -> Versions], NEW g \in Groups, Shown(r, g) # {}
    PROVE  KeeperOf(r, g) \in Copies /\ IsBest(r, g, KeeperOf(r, g))
<1> DEFINE K == [c \in Shown(r, g) |-> Quality(r, c)]
           S == Shown(r, g)
<1>1. S \subseteq Copies /\ \A c \in S : Listed(r, c) # {}
  BY ShownType
<1>2. IsFiniteSet(S) /\ S # {}
  BY <1>1, RequestAssumption, FS_Subset
<1>3. \A c \in S : K[c] \in Nat /\ Place[c] \in Nat
  BY <1>1, QualityType, RequestAssumption
<1>4. \A c, d \in S : Place[c] = Place[d] => c = d
  BY <1>1, RequestAssumption
<1>5. \E c \in S : \A d \in S \ {c} : K[c] > K[d] \/ (K[c] = K[d] /\ Place[c] < Place[d])
  <2> HIDE DEF S, K
  <2> QED BY <1>2, <1>3, <1>4, HighestRanked
<1>6. \E c \in Copies : IsBest(r, g, c)
  BY <1>1, <1>5 DEF IsBest, Above
<1>7. KeeperOf(r, g) = CHOOSE c \in Copies : IsBest(r, g, c)
  BY DEF KeeperOf
<1> HIDE DEF S, K
<1> QED BY <1>6, <1>7, Zenon

\* An id of a part is one of the tracked files.
LEMMA FileIdType ==
    ASSUME NEW r, NEW q \in Parts
    PROVE  FileId(r, q) \in Ids \cup {None}
<1> DEFINE named == {i \in IndexOf(r, GroupOf[CopyOf[q]]) : SameName(PathOf[q], r.arr[i])}
<1>1. CASE FileId(r, q) # None
  <2>1. named # {} /\ FileId(r, q) = CHOOSE i \in named : TRUE
    BY <1>1 DEF FileId
  <2>2. (CHOOSE i \in named : TRUE) \in named
    BY <2>1
  <2>3. named \subseteq Ids
    BY DEF IndexOf
  <2> HIDE DEF named
  <2> QED BY <2>1, <2>2, <2>3
<1> QED BY <1>1

\* A report has its type, whatever it was built from.
LEMMA AnnotatedType ==
    ASSUME NEW n \in 1..MaxGen, NEW files \in [Paths -> Versions], NEW a
    PROVE  Annotated(Of(n, files, a)) \in Reports
<1> DEFINE s == Of(n, files, a)
<1>1. s.disk = files /\ s.gen = n
  BY DEF Of
<1>2. \A g \in Groups : KeeperOf(s, g) \in Copies \cup {None}
  <2>1. SUFFICES ASSUME NEW g \in Groups PROVE KeeperOf(s, g) \in Copies \cup {None}
    OBVIOUS
  <2>2. CASE Shown(s, g) = {}
    BY <2>2 DEF KeeperOf
  <2>3. CASE Shown(s, g) # {}
    BY <2>3, <1>1, KeeperIsBest
  <2> QED BY <2>2, <2>3
<1>3. (UNION {Shown(s, g) : g \in Groups}) \subseteq Copies
  BY ShownType
<1>4. \A c \in Copies : Association(s, c) \in {"tracked", "untracked", "unknown"}
  BY DEF Association
<1>5. \A q \in Parts : FileId(s, q) \in Ids \cup {None}
  BY FileIdType
<1> HIDE DEF s
<1>6. [g \in Groups |-> KeeperOf(s, g)] \in [Groups -> Copies \cup {None}]
  BY <1>2
<1>7. [c \in Copies |-> Association(s, c)] \in [Copies -> {"tracked", "untracked", "unknown"}]
  BY <1>4
<1>8. [q \in Parts |-> FileId(s, q)] \in [Parts -> Ids \cup {None}]
  BY <1>5
<1>9. Annotated(s) \in Reports
  BY <1>1, <1>3, <1>6, <1>7, <1>8 DEF Annotated, Reports
<1> QED BY <1>9 DEF s

\* A tracked copy is pinned by a tracked basename that no other copy shown has.
Pinned(r, c) ==
    \E q \in Listed(r, c) : \E w :
        /\ SameName(PathOf[q], w)
        /\ \A d \in Shown(r, GroupOf[c]) \ {c} : \A v \in Listed(r, d) : ~SameName(PathOf[v], w)

\* What a report says of its copies, in terms of the files it lists.
LEMMA WhatIsBuilt ==
    ASSUME NEW r, Built(r), r.disk \in [Paths -> Versions]
    PROVE  /\ r.shown = UNION {Shown(r, g) : g \in Groups}
           /\ \A g \in Groups : r.keeper[g] # None =>
                 r.keeper[g] \in Copies /\ IsBest(r, g, r.keeper[g])
           /\ \A c \in Copies : r.assoc[c] = "tracked" => Pinned(r, c)
<1>1. PICK a \in Tracking : r = Annotated(Of(r.gen, r.disk, a))
  BY DEF Built
<1> DEFINE s == Of(r.gen, r.disk, a)
<1>2. s.disk = r.disk
  BY DEF Of
<1>3. /\ r.shown = UNION {Shown(s, g) : g \in Groups}
      /\ \A g \in Groups : r.keeper[g] = KeeperOf(s, g)
      /\ \A c \in Copies : r.assoc[c] = Association(s, c)
  <2> HIDE DEF s
  <2>1. r = Annotated(s)
    BY <1>1 DEF s
  <2> QED BY <2>1 DEF Annotated
<1> HIDE DEF s
<1>4. /\ \A c \in Copies : Listed(r, c) = Listed(s, c) /\ Quality(r, c) = Quality(s, c)
      /\ \A g : Shown(r, g) = Shown(s, g)
  BY <1>2, FilesDecide
<1>5. r.shown = UNION {Shown(r, g) : g \in Groups}
  BY <1>3, <1>4
<1>6. \A g \in Groups : r.keeper[g] # None => r.keeper[g] \in Copies /\ IsBest(r, g, r.keeper[g])
  <2>1. SUFFICES ASSUME NEW g \in Groups, r.keeper[g] # None
                 PROVE  r.keeper[g] \in Copies /\ IsBest(r, g, r.keeper[g])
    OBVIOUS
  <2>2. r.keeper[g] = KeeperOf(s, g) /\ Shown(s, g) # {}
    BY <2>1, <1>3 DEF KeeperOf
  <2>3. KeeperOf(s, g) \in Copies /\ IsBest(s, g, KeeperOf(s, g))
    BY <2>2, <1>2, KeeperIsBest
  <2>4. Shown(s, g) = Shown(r, g) /\ Shown(s, g) \subseteq Copies
    BY <1>4, ShownType
  <2> QED BY <2>2, <2>3, <2>4, <1>4 DEF IsBest, Above
<1>7. \A c \in Copies : r.assoc[c] = "tracked" => Pinned(r, c)
  <2>1. SUFFICES ASSUME NEW c \in Copies, r.assoc[c] = "tracked" PROVE Pinned(r, c)
    OBVIOUS
  <2> DEFINE g == GroupOf[c]
  <2>2. c \in Tracked(s, g)
    BY <2>1, <1>3 DEF Association
  <2>3. PICK i \in IndexOf(s, g) : Stacks(s, g, i) = {c}
    BY <2>2 DEF Tracked
  <2>4. \E q \in Listed(s, c) : SameName(PathOf[q], s.arr[i])
    BY <2>3 DEF Stacks
  <2>5. \A d \in Shown(s, g) \ {c} : \A v \in Listed(s, d) : ~SameName(PathOf[v], s.arr[i])
    BY <2>3 DEF Stacks
  <2>6. \A d \in Shown(r, g) : d \in Copies
    BY ShownType, RequestAssumption
  <2> QED BY <2>4, <2>5, <2>6, <1>4 DEF Pinned
<1> QED BY <1>5, <1>6, <1>7

\* With telling names a part of a tracked copy has the name of a part of another copy
\* that the report shows only where both are the one file.
LEMMA NamesTell ==
    ASSUME NEW r, Built(r), r.disk \in [Paths -> Versions],
           NEW c \in Copies, r.assoc[c] = "tracked", GroupOf[c] \in Telling,
           NEW d \in Shown(r, GroupOf[c]), d # c,
           NEW q \in Listed(r, c), NEW w \in Listed(r, d), SameName(PathOf[q], PathOf[w])
    PROVE  PathOf[q] = PathOf[w]
<1>1. SUFFICES ASSUME PathOf[q] # PathOf[w] PROVE FALSE
  OBVIOUS
<1>2. d \in Copies /\ GroupOf[d] = GroupOf[c]
  BY ShownType, RequestAssumption
<1>3. /\ q \in Parts /\ CopyOf[q] = c
      /\ w \in Parts /\ CopyOf[w] = d
  BY <1>2 DEF Listed, PartsOf
<1>4. PartsOf[c] = {q}
  <2>1. c \in Own[GroupOf[c]] /\ d \in Own[GroupOf[c]]
    BY <1>2, RequestAssumption DEF Own
  <2>2. q \in PartsOf[c] /\ w \in PartsOf[d]
    BY <1>2, <1>3 DEF PartsOf
  <2> QED BY <1>1, <2>1, <2>2, Zenon DEF Telling
<1>5. Pinned(r, c)
  BY WhatIsBuilt
<1>6. PICK v \in Listed(r, c) : \E x :
          SameName(PathOf[v], x) /\ \A y \in Listed(r, d) : ~SameName(PathOf[y], x)
  BY <1>5 DEF Pinned
<1>7. v = q
  BY <1>4, <1>6 DEF Listed
<1> QED BY <1>6, <1>7 DEF SameName

-----------------------------------------------------------------------------
(* The types.                                                              *)

\* A new report has its type.
LEMMA SnapshotType ==
    ASSUME NEW n \in 1..MaxGen, NEW files \in [Paths -> Versions]
    PROVE  Snapshot(n, files) \in Reports
BY AnnotatedType DEF Snapshot, Of

\* The request has its type, and in progress it has a report.
Held == req \in Requests /\ (req.on => req.rep \in Reports)

\* Every variable has its type to begin with.
LEMMA InitTyped == Init => TypeOK
<1> SUFFICES ASSUME Init PROVE TypeOK
  OBVIOUS
<1> USE RequestAssumption DEF Init
<1>1. disk \in [Paths -> Versions]
  BY DEF Versions
<1>2. arr \in [Ids -> Paths \cup {None}]
  OBVIOUS
<1>3. report \in Reports /\ report.gen = 1
  <2>1. 1 \in 1..MaxGen
    OBVIOUS
  <2>2. report.gen = 1
    BY DEF Snapshot, Annotated
  <2> QED BY <2>1, <2>2, <1>1, SnapshotType
<1>4. page \in Reports /\ page.gen <= report.gen
  BY <1>3
<1>5. Held
  BY DEF NoRequest, Held, Requests
<1> QED BY <1>1, <1>2, <1>3, <1>4, <1>5 DEF TypeOK, Held

\* What a target names is copies, and a copy's ids are tracked files.
LEMMA HandType ==
    ASSUME NEW r \in Reports, NEW t, NEW c \in Copies
    PROVE  /\ Named(r, t) \subseteq Copies
           /\ {r.id[q] : q \in Listed(r, c)} \subseteq Ids \cup {None}
<1>1. Named(r, t) \subseteq Copies
  BY RequestAssumption DEF Named, Entries
<1>2. Listed(r, c) \subseteq Parts
  BY DEF Listed, PartsOf
<1>3. \A q \in Parts : r.id[q] \in Ids \cup {None}
  BY DEF Reports
<1> QED BY <1>1, <1>2, <1>3

\* Every step keeps the types.
LEMMA NextTyped == TypeOK /\ [Next]_vars => TypeOK'
<1> SUFFICES ASSUME TypeOK, [Next]_vars PROVE TypeOK'
  OBVIOUS
<1> USE RequestAssumption DEF TypeOK, Held
<1>1. ASSUME NEW p \in Paths, NEW v \in Versions, FileChanges(p, v) PROVE TypeOK'
  <2> USE <1>1 DEF FileChanges, Counted
  <2>1. disk' \in [Paths -> Versions]
    OBVIOUS
  <2>2. touched' \subseteq Groups
    BY DEF GroupsAt
  <2>3. changes' \in 0..MaxChanges
    OBVIOUS
  <2> QED BY <2>1, <2>2, <2>3
<1>2. ASSUME NEW i \in Ids, NEW p \in Paths \cup {None}, IdChanges(i, p) PROVE TypeOK'
  <2> USE <1>2 DEF IdChanges, Counted
  <2>1. arr' \in [Ids -> Paths \cup {None}]
    OBVIOUS
  <2>2. touched' \subseteq Groups
    BY DEF GroupsAt
  <2>3. changes' \in 0..MaxChanges
    OBVIOUS
  <2>4. Held'
    BY DEF Requests
  <2> QED BY <2>1, <2>2, <2>3, <2>4
<1>3. ASSUME NEW late \in SUBSET Paths, Rescan(late) PROVE TypeOK'
  <2> USE <1>3 DEF Rescan, world
  <2> DEFINE files == [p \in Paths |-> IF p \in late THEN report.disk[p] ELSE disk[p]]
  <2>1. files \in [Paths -> Versions] /\ report.gen + 1 \in 1..MaxGen
    BY DEF Reports
  <2>2. report' \in Reports
    <3> HIDE DEF files
    <3> QED BY <2>1, SnapshotType DEF files
  <2>3. report'.gen = report.gen + 1
    BY DEF Snapshot, Annotated
  <2>4. page' = page /\ page.gen \in Int /\ report.gen \in Int
    BY DEF Reports
  <2> QED BY <2>2, <2>3, <2>4
<1>4. CASE Load
  BY <1>4 DEF Load, world, Reports
<1>5. ASSUME NEW ts \in Choices, NEW d \in BOOLEAN, Submit(ts, d) PROVE TypeOK'
  <2>1. ts \subseteq Targets
    OBVIOUS
  <2>2. Held'
    BY <1>5, <2>1 DEF Submit, Requests
  <2> QED BY <1>5, <2>1, <2>2 DEF Submit, world
<1>6. ASSUME NEW t \in req.left, Pass(t) PROVE TypeOK'
  <2>1. Named(req.rep, t) \subseteq Copies
    BY DEF Named, Entries
  <2>2. Held'
    BY <1>6, <2>1 DEF Pass, Taken, Requests
  <2> QED BY <1>6, <2>2 DEF Pass, world
<1>7. ASSUME NEW t \in req.left, NEW c \in Copies, TakeFiles(t, c) PROVE TypeOK'
  <2>1. Held'
    BY <1>7 DEF TakeFiles, Taken, Requests
  <2> QED BY <1>7, <2>1 DEF TakeFiles, world
<1>8. ASSUME NEW t \in req.left, NEW c \in Copies, TakeIds(t, c) PROVE TypeOK'
  <2> DEFINE ids == {req.rep.id[q] : q \in Listed(req.rep, c)}
  <2>1. ids \subseteq Ids
    <3>1. SUFFICES ASSUME NEW q \in Listed(req.rep, c) PROVE req.rep.id[q] \in Ids
      OBVIOUS
    <3>2. IdValid(q)
      BY <1>8, <3>1 DEF TakeIds, IdsValid
    <3>3. req.rep.id[q] \in Ids \cup {None}
      <4>1. q \in Parts
        BY DEF Listed, PartsOf
      <4>2. req.rep \in Reports
        BY <1>8 DEF TakeIds, Free, Requests
      <4> QED BY <4>1, <4>2 DEF Reports
    <3> QED BY <3>2, <3>3 DEF IdValid
  <2>2. req' = [Taken(t, {c}) EXCEPT !.copy = c, !.ids = ids]
    BY <1>8 DEF TakeIds
  <2>3. Held'
    <3> HIDE DEF ids
    <3> QED BY <2>1, <2>2 DEF Taken, Requests
  <2> QED BY <1>8, <2>3 DEF TakeIds, world
<1>9. ASSUME Finished PROVE Held'
  BY <1>9 DEF Finished, Requests
<1>10. ASSUME NEW i \in req.ids, Gone(i) PROVE disk' \in [Paths -> Versions] /\ arr' \in [Ids -> Paths \cup {None}]
  <2>1. disk' \in [Paths -> Versions]
    BY <1>10 DEF Gone, Versions
  <2> QED BY <1>10, <2>1 DEF Gone
<1>11. ASSUME NEW i \in req.ids, DeleteId(i) PROVE TypeOK'
  <2>1. Held'
    <3>1. CASE req.ids = {i}
      BY <1>9, <1>11, <3>1 DEF DeleteId
    <3>2. CASE req.ids # {i}
      <4>1. req' = [req EXCEPT !.ids = @ \ {i}]
        BY <1>11, <3>2 DEF DeleteId
      <4>2. req.ids \ {i} \in SUBSET Ids
        BY DEF Requests
      <4>3. req' \in Requests
        BY <4>1, <4>2 DEF Requests
      <4> QED BY <4>1, <4>3 DEF Requests
    <3> QED BY <3>1, <3>2
  <2> QED BY <1>10, <1>11, <2>1 DEF DeleteId
<1>12. ASSUME NEW i \in req.ids, AnswerLost(i) PROVE TypeOK'
  BY <1>9, <1>10, <1>12 DEF AnswerLost
<1>13. CASE DeleteFiles
  <2>1. disk' \in [Paths -> Versions]
    BY <1>13 DEF DeleteFiles, Versions
  <2> QED BY <1>9, <1>13, <2>1 DEF DeleteFiles
<1>14. CASE DeleteFails
  BY <1>9, <1>14 DEF DeleteFails, world
<1>15. CASE Respond \/ Crash
  <2>1. Held'
    <3>1. req' = NoRequest
      BY <1>15 DEF Respond, Crash
    <3> QED BY <3>1 DEF NoRequest, Requests
  <2> QED BY <1>15, <2>1 DEF Respond, Crash, world
<1>16. CASE UNCHANGED vars
  BY <1>16 DEF vars, world
<1> QED BY <1>1, <1>2, <1>3, <1>4, <1>5, <1>6, <1>7, <1>8, <1>11, <1>12, <1>13, <1>14, <1>15, <1>16
        DEF Next, OtherPrograms, Request

\* Every variable has its type, and no page is newer than the report.
THEOREM RequestTypeCorrect == Spec => []TypeOK
BY InitTyped, NextTyped, PTL DEF Spec

-----------------------------------------------------------------------------
(* The page, and what a request has in hand.                               *)

\* The reports are what was built, one of a generation, and a request acts on the
\* report that the operator's page shows.
Pages ==
    /\ Built(report) /\ Built(page)
    /\ page.gen = report.gen => page = report
    /\ req.on => req.rep = page

\* A copy in hand may be deleted, was asked for and not for a preview; an id in hand
\* that has not changed points at a file with the basename of a part of the copy.
Hand ==
    /\ req.left \subseteq req.chosen
    /\ ~req.on => req.copy = None
    /\ req.copy = None => req.ids = {} /\ req.moved = {}
    /\ req.copy # None =>
          /\ ~req.dry /\ Deletable(req.rep, req.copy)
          /\ \E t \in req.chosen : req.copy \in Named(req.rep, t)
    /\ \A i \in req.ids \ req.moved : arr[i] # None =>
          \E q \in Listed(req.rep, req.copy) : SameName(arr[i], PathOf[q])

\* A new report is built from what the *arrs track then.
LEMMA SnapshotBuilt ==
    ASSUME TypeOK, NEW n, NEW files
    PROVE  Built(Snapshot(n, files)) /\ Snapshot(n, files).gen = n
<1>1. Snapshot(n, files) = Annotated(Of(n, files, arr))
  BY DEF Snapshot, Of
<1>2. Snapshot(n, files).gen = n /\ Snapshot(n, files).disk = files
  BY DEF Snapshot, Annotated
<1>3. arr \in Tracking
  BY DEF TypeOK, Tracking
<1> QED BY <1>1, <1>2, <1>3 DEF Built

\* What a step of the request leaves alone.
LEMMA RequestFrame ==
    ASSUME Request
    PROVE  report' = report /\ page' = page /\ changes' = changes /\ touched' = touched
BY DEF Request, Submit, Pass, TakeFiles, TakeIds, DeleteId, AnswerLost, DeleteFiles, DeleteFails,
       Respond, Crash, world

\* A request keeps its report, or starts with the newest one, or is over.
LEMMA RequestReport ==
    ASSUME TypeOK, Request, req'.on
    PROVE  (req.on /\ req'.rep = req.rep) \/ (req'.rep = report /\ page.gen = report.gen)
<1> USE DEF TypeOK, Requests
<1>1. ASSUME NEW ts \in Choices, NEW d \in BOOLEAN, Submit(ts, d)
      PROVE  req'.rep = report /\ page.gen = report.gen
  BY <1>1 DEF Submit
<1>2. ASSUME NEW t \in req.left, Pass(t) PROVE req.on /\ req'.rep = req.rep
  BY <1>2 DEF Pass, Taken, Free
<1>3. ASSUME NEW t \in req.left, NEW c \in Copies, TakeFiles(t, c) \/ TakeIds(t, c)
      PROVE  req.on /\ req'.rep = req.rep
  BY <1>3 DEF TakeFiles, TakeIds, Taken, Free
<1>4. ASSUME Finished \/ \E i \in req.ids : req' = [req EXCEPT !.ids = @ \ {i}]
      PROVE  req.on /\ req'.rep = req.rep
  BY <1>4 DEF Finished
<1>5. ASSUME NEW i \in req.ids, DeleteId(i) \/ AnswerLost(i) PROVE req.on /\ req'.rep = req.rep
  BY <1>4, <1>5 DEF DeleteId, AnswerLost
<1>6. CASE DeleteFiles \/ DeleteFails
  BY <1>4, <1>6 DEF DeleteFiles, DeleteFails
<1>7. CASE Respond \/ Crash
  BY <1>7 DEF Respond, Crash, NoRequest
<1> QED BY <1>1, <1>2, <1>3, <1>5, <1>6, <1>7 DEF Request

\* Initially there is one report, and no request.
LEMMA InitPages == Init => Pages /\ Hand
<1> SUFFICES ASSUME Init PROVE Pages /\ Hand
  OBVIOUS
<1>1. TypeOK
  BY InitTyped
<1>2. Built(report)
  BY <1>1, SnapshotBuilt DEF Init
<1>3. page = report /\ req = NoRequest
  BY DEF Init
<1>4. Pages
  BY <1>2, <1>3 DEF Pages, NoRequest
<1>5. Hand
  BY <1>3 DEF Hand, NoRequest
<1> QED BY <1>4, <1>5

\* Every step keeps what is said of the page.
LEMMA NextPages == TypeOK /\ Pages /\ [Next]_vars => Pages'
<1> SUFFICES ASSUME TypeOK, Pages, [Next]_vars PROVE Pages'
  OBVIOUS
<1> USE DEF Pages
<1>1. ASSUME NEW p \in Paths, NEW v \in Versions, FileChanges(p, v) PROVE Pages'
  BY <1>1 DEF FileChanges, Built
<1>2. ASSUME NEW i \in Ids, NEW p \in Paths \cup {None}, IdChanges(i, p) PROVE Pages'
  <2>1. report' = report /\ page' = page /\ req'.on = req.on /\ req'.rep = req.rep
    BY <1>2 DEF IdChanges, TypeOK, Requests
  <2> QED BY <2>1 DEF Built
<1>3. ASSUME NEW late, Rescan(late) PROVE Pages'
  <2>1. Built(report') /\ report'.gen = report.gen + 1
    BY <1>3, SnapshotBuilt DEF Rescan
  <2>2. page' = page /\ req' = req
    BY <1>3 DEF Rescan
  <2>3. page.gen < report'.gen
    BY <2>1 DEF TypeOK, Reports
  <2>4. page'.gen # report'.gen
    BY <2>2, <2>3 DEF TypeOK, Reports
  <2>5. Built(page)'
    BY <2>2 DEF Built
  <2>6. Built(report)'
    BY <2>1 DEF Built
  <2> QED BY <2>2, <2>4, <2>5, <2>6
<1>4. CASE Load
  BY <1>4 DEF Load, Built
<1>5. CASE Request
  <2>1. report' = report /\ page' = page
    BY <1>5, RequestFrame
  <2>2. ASSUME req'.on PROVE req'.rep = page
    BY <1>5, <2>2, RequestReport
  <2> QED BY <2>1, <2>2 DEF Built
<1>6. CASE UNCHANGED vars
  BY <1>6 DEF vars, Built
<1> QED BY <1>1, <1>2, <1>3, <1>4, <1>5, <1>6 DEF Next, OtherPrograms

\* With nothing in hand there is nothing to say of ids.
LEMMA EmptyHand ==
    ASSUME req'.copy = None, req'.ids = {}, req'.moved = {}, req'.left \subseteq req'.chosen
    PROVE  Hand'
BY DEF Hand

\* Once a copy is done, or the request is, the hand is empty.
LEMMA FinishedHand ==
    ASSUME TypeOK, Hand, Finished \/ req' = NoRequest
    PROVE  Hand'
<1>1. CASE Finished
  <2>1. req'.copy = None /\ req'.ids = {} /\ req'.moved = {} /\ req'.left \subseteq req'.chosen
    BY <1>1 DEF Finished, TypeOK, Requests, Hand
  <2> QED BY <2>1, EmptyHand
<1>2. CASE req' = NoRequest
  <2>1. req'.copy = None /\ req'.ids = {} /\ req'.moved = {} /\ req'.left \subseteq req'.chosen
    BY <1>2 DEF NoRequest
  <2> QED BY <2>1, EmptyHand
<1> QED BY <1>1, <1>2

\* Every step keeps what is said of the copy and the ids in hand.
LEMMA NextHand == TypeOK /\ Hand /\ [Next]_vars => Hand'
<1> SUFFICES ASSUME TypeOK, Hand, [Next]_vars PROVE Hand'
  OBVIOUS
<1> USE DEF Requests
<1>1. CASE UNCHANGED <<arr, req>>
  BY <1>1 DEF Hand
<1>2. ASSUME NEW p \in Paths, NEW v \in Versions, FileChanges(p, v) PROVE Hand'
  BY <1>1, <1>2 DEF FileChanges
<1>3. ASSUME NEW i \in Ids, NEW p \in Paths \cup {None}, IdChanges(i, p) PROVE Hand'
  <2>1. req' = [req EXCEPT !.moved = @ \cup ({i} \cap req.ids)] /\ arr' = [arr EXCEPT ![i] = p]
    BY <1>3 DEF IdChanges
  <2>2. /\ req'.on = req.on /\ req'.rep = req.rep /\ req'.chosen = req.chosen /\ req'.left = req.left
        /\ req'.dry = req.dry /\ req'.copy = req.copy /\ req'.ids = req.ids
        /\ req'.moved = req.moved \cup ({i} \cap req.ids)
    BY <2>1 DEF TypeOK
  <2>3. \A j \in req'.ids \ req'.moved : j \in req.ids \ req.moved /\ arr'[j] = arr[j]
    BY <2>1, <2>2 DEF TypeOK
  <2>4. req'.copy = None => req'.ids = {} /\ req'.moved = {}
    BY <2>2 DEF Hand
  <2> QED BY <2>2, <2>3, <2>4 DEF Hand
<1>4. ASSUME NEW late, Rescan(late) PROVE Hand'
  BY <1>1, <1>4 DEF Rescan, world
<1>5. CASE Load
  BY <1>1, <1>5 DEF Load, world
<1>6. ASSUME NEW ts \in Choices, NEW d \in BOOLEAN, Submit(ts, d) PROVE Hand'
  <2>1. req'.copy = None /\ req'.ids = {} /\ req'.moved = {} /\ req'.left \subseteq req'.chosen
    BY <1>6 DEF Submit
  <2> QED BY <2>1, EmptyHand
<1>7. ASSUME NEW t \in req.left, Pass(t) PROVE Hand'
  <2>1. req'.copy = req.copy /\ req'.ids = req.ids /\ req'.moved = req.moved
        /\ req'.left \subseteq req.left /\ req'.chosen = req.chosen
    BY <1>7 DEF Pass, Taken, TypeOK
  <2>2. req.copy = None
    BY <1>7 DEF Pass, Free
  <2> QED BY <2>1, <2>2, EmptyHand DEF Hand
<1>8. ASSUME NEW t \in req.left, NEW c \in Copies, TakeFiles(t, c) PROVE Hand'
  <2>1. /\ req'.on = req.on /\ req'.rep = req.rep /\ req'.chosen = req.chosen /\ req'.dry = req.dry
        /\ req'.left \subseteq req.left /\ req'.copy = c /\ req'.ids = req.ids /\ req'.moved = req.moved
    BY <1>8 DEF TakeFiles, Taken, TypeOK
  <2>2. /\ req.on /\ req.copy = None /\ c \in Named(req.rep, t)
        /\ ~req.dry /\ Deletable(req.rep, c)
    BY <1>8 DEF TakeFiles, Free, CanGo
  <2>3. req.ids = {} /\ req.moved = {} /\ t \in req.chosen
    BY <2>2 DEF Hand
  <2>4. c # None
    BY RequestAssumption
  <2> QED BY <2>1, <2>2, <2>3, <2>4 DEF Hand
<1>9. ASSUME NEW t \in req.left, NEW c \in Copies, TakeIds(t, c) PROVE Hand'
  <2>1. /\ req'.on = req.on /\ req'.rep = req.rep /\ req'.chosen = req.chosen /\ req'.dry = req.dry
        /\ req'.left \subseteq req.left /\ req'.copy = c /\ req'.moved = req.moved
        /\ req'.ids = {req.rep.id[q] : q \in Listed(req.rep, c)} /\ arr' = arr
    BY <1>9 DEF TakeIds, Taken, TypeOK, world
  <2>2. /\ req.on /\ req.copy = None /\ c \in Named(req.rep, t)
        /\ ~req.dry /\ Deletable(req.rep, c) /\ IdsValid(c)
    BY <1>9 DEF TakeIds, Free, CanGo
  <2>3. t \in req.chosen
    BY DEF Hand
  <2>4. c # None
    BY RequestAssumption
  <2>5. \A i \in req'.ids : \E q \in Listed(req'.rep, req'.copy) : SameName(arr'[i], PathOf[q])
    BY <2>1, <2>2 DEF IdsValid, IdValid
  <2> QED BY <2>1, <2>2, <2>3, <2>4, <2>5 DEF Hand
<1>10. ASSUME NEW i \in req.ids, DeleteId(i) PROVE Hand'
  <2>1. CASE req.ids = {i}
    BY <1>10, <2>1, FinishedHand DEF DeleteId
  <2>2. CASE req.ids # {i}
    <3>1. req' = [req EXCEPT !.ids = @ \ {i}] /\ arr' = [arr EXCEPT ![i] = None]
      BY <1>10, <2>2 DEF DeleteId, Gone
    <3>2. /\ req'.on = req.on /\ req'.rep = req.rep /\ req'.chosen = req.chosen /\ req'.left = req.left
          /\ req'.dry = req.dry /\ req'.copy = req.copy /\ req'.ids = req.ids \ {i} /\ req'.moved = req.moved
      BY <3>1 DEF TypeOK
    <3>3. \A j \in req'.ids \ req'.moved : j \in req.ids \ req.moved /\ arr'[j] = arr[j]
      BY <3>1, <3>2 DEF TypeOK
    <3>4. req'.copy # None
      BY <1>10, <3>2 DEF DeleteId, OnIds
    <3> QED BY <3>2, <3>3, <3>4 DEF Hand
  <2> QED BY <2>1, <2>2
<1>11. ASSUME NEW i \in req.ids, AnswerLost(i) PROVE Hand'
  BY <1>11, FinishedHand DEF AnswerLost
<1>12. CASE DeleteFiles \/ DeleteFails
  BY <1>12, FinishedHand DEF DeleteFiles, DeleteFails
<1>13. CASE Respond \/ Crash
  BY <1>13, FinishedHand DEF Respond, Crash
<1>14. CASE UNCHANGED vars
  BY <1>1, <1>14 DEF vars, world
<1> QED BY <1>2, <1>3, <1>4, <1>5, <1>6, <1>7, <1>8, <1>9, <1>10, <1>11, <1>12, <1>13, <1>14
        DEF Next, OtherPrograms, Request

-----------------------------------------------------------------------------
(* What a request removes.                                                 *)

IInv == TypeOK /\ Pages /\ Hand

\* The page and the hand are as stated in every reachable state.
LEMMA Inductive == Spec => []IInv
<1>1. Init => IInv
  BY InitTyped, InitPages DEF IInv
<1>2. IInv /\ [Next]_vars => IInv'
  BY NextTyped, NextPages, NextHand DEF IInv
<1> QED BY <1>1, <1>2, PTL DEF Spec

\* The file at p is of the copy in hand, or has the basename of a part of it and that
\* copy is tracked; the copy was asked for and may be deleted.
Meant(p) ==
    /\ req.copy \in Copies /\ ~req.dry /\ Deletable(page, req.copy)
    /\ \E t \in req.chosen : req.copy \in Named(page, t)
    /\ \/ p \in PathsOf(page, req.copy)
       \/ /\ page.assoc[req.copy] = "tracked"
          /\ \E q \in Listed(page, req.copy) : SameName(p, PathOf[q])

\* A file that a step removes, and not by another program, is meant, or an id that
\* has changed in hand points at it.
LEMMA OnlyMeantRemoved ==
    ASSUME IInv, [Next]_vars, NEW p \in Paths, Reclaimed(p)
    PROVE  Meant(p) \/ \E i \in req.ids \cap req.moved : arr[i] = p
<1> USE DEF IInv
<1>1. changes' = changes /\ disk[p] # 0 /\ disk'[p] = 0
  BY DEF Reclaimed
<1>2. changes \in Int
  BY DEF TypeOK
<1>3. disk' # disk
  BY <1>1
<1>4. ASSUME req.copy # None
      PROVE  /\ req.copy \in Copies /\ req.rep = page /\ ~req.dry /\ Deletable(page, req.copy)
             /\ \E t \in req.chosen : req.copy \in Named(page, t)
  <2>1. req.on /\ req.copy \in Copies
    BY <1>4 DEF Hand, TypeOK, Requests
  <2> QED BY <1>4, <2>1 DEF Hand, Pages
<1>5. CASE DeleteFiles
  <2>1. req.copy # None /\ p \in PathsOf(req.rep, req.copy)
    BY <1>1, <1>5 DEF DeleteFiles, OnFiles
  <2> QED BY <1>4, <2>1 DEF Meant
<1>6. ASSUME NEW i \in req.ids, OnIds, arr[i] # None, Gone(i)
      PROVE  Meant(p) \/ \E j \in req.ids \cap req.moved : arr[j] = p
  <2>1. req.copy # None /\ page.assoc[req.copy] = "tracked"
    BY <1>4, <1>6 DEF OnIds
  <2>2. arr[i] = p
    BY <1>1, <1>6 DEF Gone
  <2>3. i \notin req.moved => \E q \in Listed(page, req.copy) : SameName(p, PathOf[q])
    BY <1>4, <1>6, <2>1, <2>2 DEF Hand
  <2> QED BY <1>4, <2>1, <2>2, <2>3 DEF Meant
<1>7. ASSUME NEW i \in req.ids, DeleteId(i) \/ AnswerLost(i)
      PROVE  Meant(p) \/ \E j \in req.ids \cap req.moved : arr[j] = p
  BY <1>6, <1>7 DEF DeleteId, AnswerLost
<1>8. ASSUME OtherPrograms PROVE FALSE
  BY <1>1, <1>2, <1>8 DEF OtherPrograms, FileChanges, IdChanges, Counted
<1>9. ASSUME Load \/ \E late \in SUBSET {x \in Paths : report.disk[x] # disk[x]} : Rescan(late) PROVE FALSE
  BY <1>3, <1>9 DEF Load, Rescan, world
<1>10. ASSUME Request PROVE DeleteFiles \/ \E i \in req.ids : DeleteId(i) \/ AnswerLost(i)
  BY <1>3, <1>10 DEF Request, Submit, Pass, TakeFiles, TakeIds, DeleteFails, Respond, Crash, world
<1>11. ASSUME UNCHANGED vars PROVE FALSE
  BY <1>3, <1>11 DEF vars, world
<1> QED BY <1>5, <1>7, <1>8, <1>9, <1>10, <1>11 DEF Next

\* In a group with telling names what is meant is no file of the keeper.
LEMMA KeeperNotMeant ==
    ASSUME IInv, NEW p \in Paths, Meant(p), GroupOf[req.copy] \in Telling
    PROVE  p \notin KeeperPaths(page, GroupOf[req.copy])
<1> DEFINE g == GroupOf[req.copy]
           k == page.keeper[g]
<1>1. SUFFICES ASSUME p \in KeeperPaths(page, g) PROVE FALSE
  OBVIOUS
<1>2. /\ Built(page) /\ page.disk \in [Paths -> Versions]
      /\ req.copy \in Copies /\ g \in Groups
  BY RequestAssumption DEF IInv, Pages, TypeOK, Reports, Meant
<1>3. k # None /\ k # req.copy /\ PathsOf(page, req.copy) \cap KeeperPaths(page, g) = {}
  BY DEF Meant, Deletable
<1>4. k \in Shown(page, g)
  BY <1>2, <1>3, WhatIsBuilt DEF IsBest
<1>5. PICK w \in Listed(page, k) : p = PathOf[w]
  BY <1>1, <1>3 DEF KeeperPaths, PathsOf
<1>6. page.assoc[req.copy] = "tracked" /\ \E q \in Listed(page, req.copy) : SameName(p, PathOf[q])
  BY <1>1, <1>3 DEF Meant
<1>7. PICK q \in Listed(page, req.copy) : SameName(p, PathOf[q])
  BY <1>6
<1>8. SameName(PathOf[q], PathOf[w])
  BY <1>5, <1>7 DEF SameName
<1>9. PathOf[q] = PathOf[w]
  BY <1>2, <1>3, <1>4, <1>6, <1>8, NamesTell
<1>10. p \in PathsOf(page, req.copy)
  BY <1>5, <1>9 DEF PathsOf
<1> QED BY <1>1, <1>3, <1>10

\* No reclaim removes a file of the copy that the operator's page shows as the keeper.
THEOREM KeeperIsSpared == Spec => KeeperSpared
<1>1. IInv /\ [Next]_vars =>
        [\A p \in Paths : Aimed(p) /\ GroupOf[req.copy] \in Telling =>
            p \notin KeeperPaths(page, GroupOf[req.copy])]_vars
  <2> SUFFICES ASSUME IInv, [Next]_vars, NEW p \in Paths, Aimed(p), GroupOf[req.copy] \in Telling
               PROVE  p \notin KeeperPaths(page, GroupOf[req.copy])
    OBVIOUS
  <2>1. Reclaimed(p) /\ ~\E i \in req.ids \cap req.moved : arr[i] = p
    BY DEF Aimed
  <2>2. Meant(p)
    BY <2>1, OnlyMeantRemoved
  <2> QED BY <2>2, KeeperNotMeant
<1> QED BY <1>1, Inductive, PTL DEF Spec, KeeperSpared

\* A reclaim removes files only on a confirm, and only of a copy that was chosen on the
\* page or with the basename of a part of it.
THEOREM OnlyChosenGoes == Spec => ChosenAlone
<1>1. IInv /\ [Next]_vars =>
        [\A p \in Paths : Aimed(p) =>
            /\ ~req.dry
            /\ \E t \in req.chosen : \E c \in Named(page, t) :
                  \E q \in PartsOf[c] : p = PathOf[q] \/ SameName(p, PathOf[q])]_vars
  <2> SUFFICES ASSUME IInv, [Next]_vars, NEW p \in Paths, Aimed(p)
               PROVE  /\ ~req.dry
                      /\ \E t \in req.chosen : \E c \in Named(page, t) :
                            \E q \in PartsOf[c] : p = PathOf[q] \/ SameName(p, PathOf[q])
    OBVIOUS
  <2>1. Reclaimed(p) /\ ~\E i \in req.ids \cap req.moved : arr[i] = p
    BY DEF Aimed
  <2>2. Meant(p)
    BY <2>1, OnlyMeantRemoved
  <2>3. \E q \in PartsOf[req.copy] : p = PathOf[q] \/ SameName(p, PathOf[q])
    BY <2>2 DEF Meant, PathsOf, Listed
  <2> QED BY <2>2, <2>3 DEF Meant
<1> QED BY <1>1, Inductive, PTL DEF Spec, ChosenAlone

-----------------------------------------------------------------------------
(* What stays.                                                             *)

Calm == Groups \ touched
PathsIn(g) == {PathOf[q] : q \in {w \in Parts : GroupOf[CopyOf[w]] = g}}

\* The files of a group that no other program changed are as they were or gone, and
\* a report lists every one of them that is there.
Settled ==
    \A g \in Calm : \A p \in PathsIn(g) :
        /\ disk[p] \in {0, 1}
        /\ \A r \in {report, page} : r.disk[p] \in {0, 1} /\ (disk[p] # 0 => r.disk[p] # 0)

\* The groups that list a file an id in hand came to point at count as touched.
Drifted == \A i \in req.ids \cap req.moved : arr[i] # None => GroupsAt(arr[i]) \subseteq touched

\* The best of the group's copies while all are whole.
Top(g, c) == \A d \in Own[g] \ {c} :
    \/ Score[PartsOf[c]][1] > Score[PartsOf[d]][1]
    \/ Score[PartsOf[c]][1] = Score[PartsOf[d]][1] /\ Place[c] < Place[d]

\* That copy stays whole, and every copy of a protected group does.
Standing ==
    \A g \in Alone \cap Telling \cap Calm : \A c \in Own[g] : Top(g, c) \/ g \in Protected => Whole(c)

\* A group with copies has a best one.
LEMMA TopExists ==
    ASSUME NEW g \in Groups, Own[g] # {}
    PROVE  \E c \in Own[g] : Top(g, c)
<1> DEFINE K == [c \in Copies |-> Score[PartsOf[c]][1]]
           S == Own[g]
<1>1. S \subseteq Copies /\ IsFiniteSet(S)
  BY RequestAssumption, FS_Subset DEF Own
<1>2. \A c \in S : K[c] \in Nat /\ Place[c] \in Nat
  <2>1. SUFFICES ASSUME NEW c \in S PROVE K[c] \in Nat /\ Place[c] \in Nat
    OBVIOUS
  <2>2. PartsOf[c] \in SUBSET Parts /\ 1 \in Versions
    BY <1>1 DEF PartsOf, Versions
  <2>3. c \in Copies
    BY <1>1, <2>1
  <2>4. Score[PartsOf[c]][1] \in Nat /\ Place[c] \in Nat
    <3>1. Score \in [SUBSET Parts -> [Versions -> Nat]] /\ Place \in [Copies -> Nat]
      BY RequestAssumption, Zenon
    <3>2. Score[PartsOf[c]] \in [Versions -> Nat]
      BY <2>2, <3>1, Zenon
    <3> QED BY <2>2, <2>3, <3>1, <3>2, Zenon
  <2> HIDE DEF S
  <2> QED BY <2>3, <2>4
<1>3. \A c, d \in S : Place[c] = Place[d] => c = d
  BY <1>1, RequestAssumption
<1>4. \E c \in S : \A d \in S \ {c} : K[c] > K[d] \/ (K[c] = K[d] /\ Place[c] < Place[d])
  <2> HIDE DEF S, K
  <2> QED BY <1>1, <1>2, <1>3, HighestRanked DEF S
<1>5. \A c \in S : K[c] = Score[PartsOf[c]][1]
  BY <1>1
<1> HIDE DEF K
<1> QED BY <1>4, <1>5 DEF Top

\* A whole copy of an untouched group is listed with all its parts.
LEMMA WholeIsListed ==
    ASSUME Settled, NEW c \in Copies, GroupOf[c] \in Calm, Whole(c)
    PROVE  Listed(page, c) = PartsOf[c]
<1>1. \A q \in PartsOf[c] : PathOf[q] \in PathsIn(GroupOf[c])
  BY DEF PathsIn, PartsOf
<1> QED BY <1>1 DEF Settled, Whole, Listed

\* The quality of a listed copy of an untouched group is of its listed parts alone.
LEMMA CalmQuality ==
    ASSUME Settled, NEW c \in Copies, GroupOf[c] \in Calm, Listed(page, c) # {}
    PROVE  /\ Quality(page, c) = Score[Listed(page, c)][1]
           /\ Listed(page, c) \in SUBSET PartsOf[c]
<1> DEFINE q == CHOOSE q \in Listed(page, c) : TRUE
<1>1. q \in Listed(page, c)
  OBVIOUS
<1>2. q \in PartsOf[c] /\ page.disk[PathOf[q]] # 0
  BY <1>1 DEF Listed
<1>3. PathOf[q] \in PathsIn(GroupOf[c])
  <2> HIDE DEF q
  <2>1. q \in Parts /\ CopyOf[q] = c
    BY <1>2 DEF PartsOf
  <2> QED BY <2>1 DEF PathsIn
<1>4. page.disk[PathOf[q]] = 1
  BY <1>2, <1>3 DEF Settled
<1>5. Quality(page, c) = Score[Listed(page, c)][page.disk[PathOf[q]]]
  BY DEF Quality
<1>6. Listed(page, c) \in SUBSET PartsOf[c]
  BY DEF Listed
<1> QED BY <1>4, <1>5, <1>6

\* The best copy, as long as it is whole, is the keeper that the page shows.
LEMMA TopIsKeeper ==
    ASSUME IInv, Settled, NEW g \in Calm, NEW c \in Own[g], Top(g, c), Whole(c),
           page.keeper[g] # None
    PROVE  page.keeper[g] = c
<1> DEFINE k == page.keeper[g]
<1>1. SUFFICES ASSUME k # c PROVE FALSE
  OBVIOUS
<1>2. Built(page) /\ page.disk \in [Paths -> Versions] /\ g \in Groups
  BY DEF IInv, Pages, TypeOK, Reports, Calm
<1>3. c \in Copies /\ GroupOf[c] = g
  BY DEF Own, Calm
<1>4. k \in Copies /\ IsBest(page, g, k)
  BY <1>2, WhatIsBuilt
<1>5. k \in Shown(page, g)
  BY <1>4 DEF IsBest
<1>6. GroupOf[k] = g /\ Listed(page, k) # {}
  BY <1>2, <1>5, ShownType
<1>7. Listed(page, c) = PartsOf[c] /\ PartsOf[c] # {}
  BY <1>3, WholeIsListed, RequestAssumption
<1>8. c \in Shown(page, g)
  BY <1>3, <1>5, <1>7, <1>2 DEF Shown, Own
<1>9. Above(page, k, c)
  BY <1>1, <1>4, <1>8 DEF IsBest
<1>10. Quality(page, c) = Score[PartsOf[c]][1]
  BY <1>3, <1>7, CalmQuality
<1>11. Quality(page, k) = Score[Listed(page, k)][1] /\ Listed(page, k) \in SUBSET PartsOf[k]
  BY <1>4, <1>6, CalmQuality
<1>12. Score[Listed(page, k)][1] <= Score[PartsOf[k]][1]
  BY <1>4, <1>11, RequestAssumption
<1>13. k \in Own[g] \ {c}
  BY <1>1, <1>2, <1>4, <1>6 DEF Own
<1>14. \/ Score[PartsOf[c]][1] > Score[PartsOf[k]][1]
       \/ Score[PartsOf[c]][1] = Score[PartsOf[k]][1] /\ Place[c] < Place[k]
  BY <1>13 DEF Top
<1>15. \A l \in SUBSET Parts : Score[l][1] \in Nat
  BY RequestAssumption DEF Versions
<1>16. /\ Score[PartsOf[c]][1] \in Nat /\ Score[PartsOf[k]][1] \in Nat
       /\ Score[Listed(page, k)][1] \in Nat /\ Place[c] \in Nat /\ Place[k] \in Nat
  <2>1. PartsOf[c] \in SUBSET Parts /\ PartsOf[k] \in SUBSET Parts
    BY <1>3, <1>4 DEF PartsOf
  <2>2. Listed(page, k) \in SUBSET Parts
    BY <1>11, <2>1
  <2> QED BY <1>3, <1>4, <1>15, <2>1, <2>2, RequestAssumption
<1>17. \/ Score[Listed(page, k)][1] > Score[PartsOf[c]][1]
       \/ Score[Listed(page, k)][1] = Score[PartsOf[c]][1] /\ Place[k] < Place[c]
  BY <1>9, <1>10, <1>11 DEF Above
<1> HIDE DEF k
<1> QED BY <1>12, <1>14, <1>16, <1>17

\* A step never takes a group off the list of those that were touched.
LEMMA TouchedGrows == [Next]_vars => touched \subseteq touched'
BY DEF Next, OtherPrograms, FileChanges, IdChanges, Rescan, Load, Request, Submit, Pass, TakeFiles,
       TakeIds, DeleteId, AnswerLost, DeleteFiles, DeleteFails, Respond, Crash, world, vars

\* A file of an untouched group is only ever removed, and by a reclaim.
LEMMA CalmFiles ==
    ASSUME TypeOK, Settled, [Next]_vars, NEW g \in Groups, g \notin touched', NEW p \in PathsIn(g)
    PROVE  disk'[p] = disk[p] \/ (Reclaimed(p) /\ p \in Paths)
<1> USE DEF TypeOK
<1>1. p \in Paths /\ g \in GroupsAt(p)
  BY RequestAssumption DEF PathsIn, GroupsAt
<1>2. g \in Calm
  BY TouchedGrows DEF Calm
<1>3. ASSUME NEW x \in Paths, NEW v \in Versions, FileChanges(x, v) PROVE disk'[p] = disk[p]
  <2>1. x # p
    BY <1>1, <1>3 DEF FileChanges
  <2> QED BY <1>1, <1>3, <2>1 DEF FileChanges
<1>4. ASSUME NEW i \in req.ids, Gone(i), changes' = changes
      PROVE  disk'[p] = disk[p] \/ (Reclaimed(p) /\ p \in Paths)
  BY <1>1, <1>4 DEF Gone, Reclaimed
<1>5. ASSUME NEW i \in req.ids, DeleteId(i) \/ AnswerLost(i)
      PROVE  disk'[p] = disk[p] \/ (Reclaimed(p) /\ p \in Paths)
  BY <1>4, <1>5 DEF DeleteId, AnswerLost
<1>6. CASE DeleteFiles
  BY <1>1, <1>6 DEF DeleteFiles, Reclaimed
<1>7. disk' = disk => disk'[p] = disk[p]
  OBVIOUS
<1>8. Load \/ (\E late \in SUBSET {x \in Paths : report.disk[x] # disk[x]} : Rescan(late)) \/ UNCHANGED vars
         => disk' = disk
  BY DEF Load, Rescan, world, vars
<1>9. ASSUME NEW i \in Ids, NEW x \in Paths \cup {None}, IdChanges(i, x) PROVE disk'[p] = disk[p]
  BY <1>7, <1>9 DEF IdChanges
<1>10. CASE Request
  <2>1. DeleteFiles \/ (\E i \in req.ids : DeleteId(i) \/ AnswerLost(i)) \/ disk' = disk
    BY <1>10 DEF Request, Submit, Pass, TakeFiles, TakeIds, DeleteFails, Respond, Crash, world
  <2> QED BY <1>5, <1>6, <1>7, <2>1
<1> QED BY <1>3, <1>7, <1>8, <1>9, <1>10 DEF Next, OtherPrograms

\* How the reports change in a step.
LEMMA ReportsChange ==
    ASSUME [Next]_vars
    PROVE  \/ report' = report /\ page' \in {page, report}
           \/ /\ page' = page /\ UNCHANGED disk
              /\ \A p \in Paths : report'.disk[p] \in {report.disk[p], disk[p]}
<1>1. ASSUME NEW late, Rescan(late)
      PROVE  /\ page' = page /\ UNCHANGED disk
             /\ \A p \in Paths : report'.disk[p] \in {report.disk[p], disk[p]}
  BY <1>1 DEF Rescan, Snapshot, Annotated, world
<1>2. CASE Request
  BY <1>2, RequestFrame
<1>3. CASE OtherPrograms \/ Load \/ UNCHANGED vars
  BY <1>3 DEF OtherPrograms, FileChanges, IdChanges, Load, vars
<1> QED BY <1>1, <1>2, <1>3 DEF Next

\* Every step keeps the files of untouched groups settled.
LEMMA NextSettled == TypeOK /\ Settled /\ [Next]_vars => Settled'
<1> SUFFICES ASSUME TypeOK, Settled, [Next]_vars, NEW g \in Calm', NEW p \in PathsIn(g)
             PROVE  /\ disk'[p] \in {0, 1}
                    /\ \A r \in {report', page'} :
                          r.disk[p] \in {0, 1} /\ (disk'[p] # 0 => r.disk[p] # 0)
  BY DEF Settled, PathsIn
<1>1. g \in Groups /\ g \notin touched' /\ g \in Calm /\ p \in Paths
  BY TouchedGrows, RequestAssumption DEF Calm, PathsIn
<1>2. disk'[p] = disk[p] \/ disk'[p] = 0
  BY <1>1, CalmFiles DEF Reclaimed
<1>3. /\ disk[p] \in {0, 1}
      /\ report.disk[p] \in {0, 1} /\ (disk[p] # 0 => report.disk[p] # 0)
      /\ page.disk[p] \in {0, 1} /\ (disk[p] # 0 => page.disk[p] # 0)
  BY <1>1 DEF Settled
<1>4. CASE report' = report /\ page' \in {page, report}
  BY <1>2, <1>3, <1>4
<1>5. CASE page' = page /\ UNCHANGED disk /\ report'.disk[p] \in {report.disk[p], disk[p]}
  BY <1>3, <1>5
<1> QED BY <1>1, <1>4, <1>5, ReportsChange

\* Every step keeps the record of the groups that a changed id points into.
LEMMA NextDrifted == TypeOK /\ Hand /\ Drifted /\ [Next]_vars => Drifted'
<1> SUFFICES ASSUME TypeOK, Hand, Drifted, [Next]_vars PROVE Drifted'
  OBVIOUS
<1> USE DEF TypeOK, Requests
<1>1. touched \subseteq touched'
  BY TouchedGrows
<1>2. ASSUME arr' = arr, req'.ids \cap req'.moved \subseteq req.ids \cap req.moved PROVE Drifted'
  BY <1>1, <1>2 DEF Drifted, GroupsAt
<1>3. ASSUME req'.ids = {} \/ req'.moved = {} PROVE Drifted'
  BY <1>3 DEF Drifted
<1>4. ASSUME Finished \/ req' = NoRequest PROVE Drifted'
  <2>1. Finished => req'.ids = {}
    BY DEF Finished
  <2>2. req' = NoRequest => req'.ids = {}
    BY DEF NoRequest
  <2> QED BY <1>3, <1>4, <2>1, <2>2
<1>5. ASSUME NEW i \in Ids, NEW p \in Paths \cup {None}, IdChanges(i, p) PROVE Drifted'
  <2>1. /\ req'.ids = req.ids /\ req'.moved = req.moved \cup ({i} \cap req.ids)
        /\ arr' = [arr EXCEPT ![i] = p]
    BY <1>5 DEF IdChanges
  <2>2. SUFFICES ASSUME NEW j \in req.ids \cap req'.moved, arr'[j] # None
                 PROVE  GroupsAt(arr'[j]) \subseteq touched'
    BY <2>1 DEF Drifted, GroupsAt
  <2>3. CASE j = i
    BY <1>5, <2>1, <2>2, <2>3 DEF IdChanges
  <2>4. CASE j # i
    <3>1. arr'[j] = arr[j] /\ j \in req.moved
      BY <2>1, <2>2, <2>4
    <3>2. GroupsAt(arr[j]) \subseteq touched
      BY <2>2, <3>1 DEF Drifted
    <3> QED BY <1>1, <3>1, <3>2
  <2> QED BY <2>3, <2>4
<1>6. ASSUME NEW i \in req.ids, DeleteId(i), req.ids # {i} PROVE Drifted'
  <2>1. /\ req'.ids = req.ids \ {i} /\ req'.moved = req.moved /\ arr' = [arr EXCEPT ![i] = None]
    BY <1>6 DEF DeleteId, Gone
  <2>2. \A j \in req'.ids : arr'[j] = arr[j]
    BY <2>1
  <2> QED BY <1>1, <2>1, <2>2 DEF Drifted, GroupsAt
<1>7. ASSUME NEW i \in req.ids, DeleteId(i) \/ AnswerLost(i) PROVE Drifted'
  BY <1>4, <1>6, <1>7 DEF DeleteId, AnswerLost
<1>8. ASSUME NEW ts \in Choices, NEW d \in BOOLEAN, Submit(ts, d) PROVE Drifted'
  BY <1>3, <1>8 DEF Submit
<1>9. ASSUME NEW t \in req.left, Pass(t) PROVE Drifted'
  BY <1>2, <1>9 DEF Pass, Taken, world
<1>10. ASSUME NEW t \in req.left, NEW c \in Copies, TakeFiles(t, c) \/ TakeIds(t, c) PROVE Drifted'
  <2>1. req.moved = {}
    BY <1>10 DEF TakeFiles, TakeIds, Free, Hand
  <2>2. req'.moved = req.moved
    BY <1>10 DEF TakeFiles, TakeIds, Taken
  <2> QED BY <1>3, <2>1, <2>2
<1>11. CASE DeleteFiles \/ DeleteFails \/ Respond \/ Crash
  BY <1>4, <1>11 DEF DeleteFiles, DeleteFails, Respond, Crash
<1>12. ASSUME UNCHANGED <<arr, req>> PROVE Drifted'
  BY <1>2, <1>12
<1>13. ASSUME NEW p \in Paths, NEW v \in Versions, FileChanges(p, v) PROVE Drifted'
  BY <1>12, <1>13 DEF FileChanges
<1>14. CASE Load \/ (\E late \in SUBSET {x \in Paths : report.disk[x] # disk[x]} : Rescan(late)) \/ UNCHANGED vars
  BY <1>12, <1>14 DEF Load, Rescan, vars, world
<1> QED BY <1>5, <1>7, <1>8, <1>9, <1>10, <1>11, <1>13, <1>14 DEF Next, OtherPrograms, Request

\* What is meant in a group whose names no other group has is meant of that group.
LEMMA MeantOfGroup ==
    ASSUME NEW p \in Paths, Meant(p), NEW g \in Alone, p \in PathsIn(g)
    PROVE  GroupOf[req.copy] = g
<1>1. PICK w \in Parts : GroupOf[CopyOf[w]] = g /\ PathOf[w] = p
  BY DEF PathsIn
<1>2. PICK q \in Listed(page, req.copy) : SameName(p, PathOf[q])
  BY DEF Meant, PathsOf, SameName
<1>3. q \in Parts /\ CopyOf[q] = req.copy
  BY <1>2 DEF Listed, PartsOf, Meant
<1> QED BY <1>1, <1>2, <1>3 DEF Alone

\* Every step keeps the best copy of an untouched group, and all of a protected one.
LEMMA NextStanding == IInv /\ Settled /\ Drifted /\ Standing /\ [Next]_vars => Standing'
<1> SUFFICES ASSUME IInv, Settled, Drifted, Standing, [Next]_vars,
                    NEW g \in Alone \cap Telling, g \in Calm', NEW c \in Own[g],
                    Top(g, c) \/ g \in Protected,
                    NEW q \in PartsOf[c], disk'[PathOf[q]] = 0
             PROVE  FALSE
  BY DEF Standing, Whole, Top
<1> DEFINE p == PathOf[q]
<1>1. g \in Groups /\ g \notin touched' /\ g \in Calm
  BY TouchedGrows DEF Calm
<1>2. c \in Copies /\ GroupOf[c] = g /\ q \in Parts /\ CopyOf[q] = c
  BY <1>1 DEF Own, PartsOf
<1>3. p \in PathsIn(g) /\ g \in GroupsAt(p) /\ p \in Paths
  BY <1>2, RequestAssumption DEF PathsIn, GroupsAt
<1>4. Whole(c)
  BY <1>1 DEF Standing
<1>5. disk[p] # 0
  BY <1>4 DEF Whole
<1>6. Reclaimed(p)
  BY <1>1, <1>3, <1>5, CalmFiles DEF IInv
<1>7. ~\E i \in req.ids \cap req.moved : arr[i] = p
  BY <1>1, <1>3, RequestAssumption, TouchedGrows DEF Drifted
<1>8. Meant(p)
  BY <1>3, <1>6, <1>7, OnlyMeantRemoved
<1>9. GroupOf[req.copy] = g
  BY <1>3, <1>8, MeantOfGroup
<1>10. g \notin Protected /\ page.keeper[g] # None
  BY <1>8, <1>9 DEF Meant, Deletable
<1>11. page.keeper[g] = c
  BY <1>1, <1>4, <1>10, TopIsKeeper
<1>12. q \in Listed(page, c)
  BY <1>1, <1>2, <1>4, WholeIsListed
<1>13. p \in KeeperPaths(page, g)
  BY <1>10, <1>11, <1>12 DEF KeeperPaths, PathsOf
<1> QED BY <1>3, <1>8, <1>9, <1>13, KeeperNotMeant

\* At the start every file is there, and listed, and no id is in hand.
LEMMA InitStanding == Init => Settled /\ Drifted /\ Standing
<1> SUFFICES ASSUME Init PROVE Settled /\ Drifted /\ Standing
  OBVIOUS
<1>1. \A p \in Paths : disk[p] = 1 /\ report.disk[p] = 1 /\ page.disk[p] = 1
  BY DEF Init, Snapshot, Annotated
<1>2. \A g : PathsIn(g) \subseteq Paths
  BY RequestAssumption DEF PathsIn
<1>3. Settled
  BY <1>1, <1>2 DEF Settled
<1>4. Drifted
  BY DEF Init, NoRequest, Drifted
<1>5. Standing
  <2>1. \A c \in Copies : Whole(c)
    BY <1>1, RequestAssumption DEF Whole, PartsOf
  <2>2. \A g \in Alone : Own[g] \subseteq Copies
    BY DEF Own, Alone
  <2> QED BY <2>1, <2>2 DEF Standing
<1> QED BY <1>3, <1>4, <1>5

Kept == IInv /\ Settled /\ Drifted /\ Standing

\* What stays is inductive with what is said of the page and the hand.
LEMMA KeptAlways == Spec => []Kept
<1>1. Init => Kept
  BY InitTyped, InitPages, InitStanding DEF Kept, IInv
<1>2. Kept /\ [Next]_vars => Kept'
  BY NextTyped, NextPages, NextHand, NextSettled, NextDrifted, NextStanding DEF Kept, IInv
<1> QED BY <1>1, <1>2, PTL DEF Spec

\* A group with telling names, none of them in another group, whose files no other
\* program changed keeps a whole copy, and a protected one keeps them all.
THEOREM GroupStaysWhole == Spec => []GroupWhole
<1>1. Kept => GroupWhole
  <2> SUFFICES ASSUME Kept, NEW g \in (Alone \cap Telling) \ touched, Own[g] # {}
               PROVE  /\ \E c \in Own[g] : Whole(c)
                      /\ g \in Protected => \A c \in Own[g] : Whole(c)
    BY DEF GroupWhole
  <2>1. g \in Groups /\ g \in Alone \cap Telling \cap Calm
    BY DEF Alone, Calm
  <2>2. PICK c \in Own[g] : Top(g, c)
    BY <2>1, TopExists
  <2> QED BY <2>1, <2>2 DEF Kept, Standing
<1> QED BY <1>1, KeptAlways, PTL
=============================================================================
