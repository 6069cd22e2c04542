--------------------------- MODULE ReclaimRequest ---------------------------
(***************************************************************************)
(* From the duplicate report to a deleted copy: ReclaimService.reclaim /   *)
(* preview and _reclaim_one over build_action_index, with the association  *)
(* that arr.annotate gives every copy and the two delete backends.         *)
(*                                                                         *)
(* A report is a snapshot of the media files and of what the *arrs track.  *)
(* The operator picks targets (rating key and part id) on a page built     *)
(* from one report; the request is held against the report of its own      *)
(* time.  One lock makes requests sequential.  Rescans, other programs and *)
(* the *arrs change their side between any two steps of a request.         *)
(***************************************************************************)
EXTENDS Integers, FiniteSets

CONSTANTS
    Groups, Copies, Parts, Paths, Ids, None,
    GroupOf,    \* GroupOf[c]: the Plex item (rating key) that lists copy c
    CopyOf,     \* CopyOf[q]: the copy part q is of; a stacked copy has more than one
    PathOf,     \* PathOf[q]: where Plex says part q is
    PartId,     \* PartId[q]: its part id, 0 when Plex gives none
    NameOf,     \* NameOf[p]: basename of path p
    KindOf,     \* KindOf[g]: "movie" (Radarr) or "episode" (Sonarr)
    TitleOf,    \* TitleOf[i]: the group whose title *arr file id i is of, or None
    ServiceOf,  \* ServiceOf[i]: the kind its *arr tracks
    Score,      \* Score[l][v]: resolution, bitrate and size of a copy listed with
                \* parts l, in version v
    Place,      \* Place[c]: where Plex lists copy c among the copies of its item
    Merged,     \* groups classified mismatch: Plex merged different titles
    Protected,  \* those, and the groups classified different-content
    Shifting,   \* paths that other programs change
    MayTrack,   \* MayTrack[i]: paths that *arr file id i may come to point at
    Choices,    \* the sets of targets that the operator may pick
    MaxChanges, MaxGen  \* bounds of an instance

\* What is at a path: nothing, the file first seen there, another of the same
\* size, another of another size.
Versions == 0..3
SameSize(v, w) == v # 0 /\ w # 0 /\ (v = 3 <=> w = 3)
Kinds == {"movie", "episode"}

PartsOf == [c \in Copies |-> {q \in Parts : CopyOf[q] = c}]
Own == [g \in Groups |-> {c \in Copies : GroupOf[c] = g}]
Key == [q \in Parts |-> <<GroupOf[CopyOf[q]], PartId[q]>>]
Targets == {Key[q] : q \in Parts}

ASSUME RequestAssumption ==
    /\ GroupOf \in [Copies -> Groups] /\ CopyOf \in [Parts -> Copies]
    /\ PathOf \in [Parts -> Paths] /\ PartId \in [Parts -> Nat]
    /\ KindOf \in [Groups -> Kinds] /\ ServiceOf \in [Ids -> Kinds]
    /\ IsFiniteSet(Copies) /\ \A c \in Copies : PartsOf[c] # {}
    /\ Score \in [SUBSET Parts -> [Versions -> Nat]]
    /\ \A c \in Copies : \A l \in SUBSET PartsOf[c] : Score[l][1] <= Score[PartsOf[c]][1]
    /\ Place \in [Copies -> Nat] /\ \A c, d \in Copies : Place[c] = Place[d] => c = d
    /\ None \notin Paths \cup Ids \cup Copies \cup Groups
    /\ Shifting \subseteq Paths /\ Merged \subseteq Protected /\ Protected \subseteq Groups
    /\ MayTrack \in [Ids -> SUBSET Paths]
    /\ MaxChanges \in Nat /\ MaxGen \in Nat \ {0} /\ Choices \subseteq SUBSET Targets

VARIABLES
    disk,     \* disk[p]: the version at path p
    arr,      \* arr[i]: the path *arr file id i points at, or None
    report,   \* the report on disk
    page,     \* the report that the operator's page was built from
    req,      \* the request in progress; moved: ids in hand that have changed
    touched,  \* history: groups with a path that another program changed, or that
              \* an id came to point at between its last check and its DELETE
    changes   \* history: changes by other programs so far

world == <<disk, arr, touched, changes>>
vars == <<world, report, page, req>>

-----------------------------------------------------------------------------
(* What a report says of the files and ids it was built from.              *)

Listed(r, c) == {q \in PartsOf[c] : r.disk[PathOf[q]] # 0}
PathsOf(r, c) == {PathOf[q] : q \in Listed(r, c)}

\* The copies of g in the report: a group of one logical copy is no duplicate.
Shown(r, g) ==
    LET present == {c \in Own[g] : Listed(r, c) # {}}
    IN  IF Cardinality(present) >= 2 THEN present ELSE {}

\* rank_copies, a stable sort: of the copies of the highest quality the one that
\* Plex lists first is the keeper.
Quality(r, c) == LET q == CHOOSE q \in Listed(r, c) : TRUE IN Score[Listed(r, c)][r.disk[PathOf[q]]]
Above(r, c, d) ==
    \/ Quality(r, c) > Quality(r, d)
    \/ Quality(r, c) = Quality(r, d) /\ Place[c] < Place[d]
IsBest(r, g, c) == c \in Shown(r, g) /\ \A d \in Shown(r, g) \ {c} : Above(r, c, d)
KeeperOf(r, g) ==
    IF Shown(r, g) = {} THEN None ELSE CHOOSE c \in Copies : IsBest(r, g, c)

\* The tracked files that can speak for g: by title in Radarr, any in Sonarr.
IndexOf(r, g) ==
    {i \in Ids : /\ r.arr[i] # None /\ ServiceOf[i] = KindOf[g]
                 /\ KindOf[g] = "movie" => TitleOf[i] = g}
SameName(p, w) == NameOf[p] = NameOf[w]
Stacks(r, g, i) ==
    {c \in Shown(r, g) : \E q \in Listed(r, c) : SameName(PathOf[q], r.arr[i])}
Tracked(r, g) == {c \in Shown(r, g) : \E i \in IndexOf(r, g) : Stacks(r, g, i) = {c}}
Ambiguous(r, g) == (UNION {Stacks(r, g, i) : i \in IndexOf(r, g)}) \ Tracked(r, g)

\* Mutation of Association: the *arr's own name is stored in its place.
AssociationByName(r, c) == KindOf[GroupOf[c]]

\* arr.annotate: the *arr owns a copy that one of its basenames pins; with no such
\* anchor, or for an episode, any other copy is not known to be free.  A group of
\* different titles is not asked about.
Association(r, c) ==
    LET g == GroupOf[c]
    IN  IF g \in Merged THEN "unknown"
        ELSE IF c \in Tracked(r, g) THEN "tracked"
        ELSE IF KindOf[g] = "episode" \/ c \in Ambiguous(r, g) \/ Tracked(r, g) \cup Ambiguous(r, g) = {}
        THEN "unknown" ELSE "untracked"

\* The file id a part is deleted by: in Sonarr of the one tracked file with its
\* basename, in Radarr of the last it names (any, here) of the title's with it.
FileId(r, q) ==
    LET g == GroupOf[CopyOf[q]]
        named == {i \in IndexOf(r, g) : SameName(PathOf[q], r.arr[i])}
    IN  IF named = {} \/ (KindOf[g] = "episode" /\ Cardinality(named) # 1) THEN None
        ELSE CHOOSE i \in named : TRUE

\* The report as it is written, with what was concluded from its inputs.
Annotated(r) ==
    [gen |-> r.gen, disk |-> r.disk,
     shown |-> UNION {Shown(r, g) : g \in Groups},
     keeper |-> [g \in Groups |-> KeeperOf(r, g)],
     assoc |-> [c \in Copies |-> Association(r, c)],
     id |-> [q \in Parts |-> FileId(r, q)]]

KeeperPaths(r, g) == IF r.keeper[g] = None THEN {} ELSE PathsOf(r, r.keeper[g])

-----------------------------------------------------------------------------
(* What a request may act on.                                              *)

\* build_action_index: the parts listed under the target; two are ambiguous.
Entries(r, t) == {q \in Parts : t[2] # 0 /\ Key[q] = t /\ CopyOf[q] \in r.shown /\ q \in Listed(r, CopyOf[q])}

Named(r, t) ==
    LET entries == Entries(r, t)
    IN  IF Cardinality(entries) = 1 THEN {CopyOf[q] : q \in entries} ELSE {}

\* Mutation of Deletable: only identity with the keeper is tested.
DeletableByIdentity(r, c) ==
    /\ r.keeper[GroupOf[c]] \notin {None, c} /\ GroupOf[c] \notin Protected
    /\ r.assoc[c] # "unknown"
    /\ \A q \in Listed(r, c) : PartId[q] # 0

\* Mutation of Deletable: the protected classifications are forgotten.
DeletableAnyClass(r, c) ==
    /\ r.keeper[GroupOf[c]] \notin {None, c}
    /\ PathsOf(r, c) \cap KeeperPaths(r, GroupOf[c]) = {}
    /\ r.assoc[c] # "unknown"
    /\ \A q \in Listed(r, c) : PartId[q] # 0

\* _reclaim_one: the group has another copy as keeper and is not protected, no
\* file is the keeper's too, the association is known and every part has an id.
Deletable(r, c) ==
    /\ r.keeper[GroupOf[c]] \notin {None, c} /\ GroupOf[c] \notin Protected
    /\ PathsOf(r, c) \cap KeeperPaths(r, GroupOf[c]) = {}
    /\ r.assoc[c] # "unknown"
    /\ \A q \in Listed(r, c) : PartId[q] # 0

-----------------------------------------------------------------------------
(* Other programs, the reporter and the browser.                           *)

Snapshot(n, files) == Annotated([gen |-> n, disk |-> files, arr |-> arr])
NoRequest == [on |-> FALSE, rep |-> None, chosen |-> {}, left |-> {}, seen |-> {}, dry |-> TRUE,
              copy |-> None, ids |-> {}, moved |-> {}]

Init ==
    /\ disk = [p \in Paths |-> 1]
    /\ arr \in {a \in [Ids -> Paths \cup {None}] : \A i \in Ids : a[i] \in MayTrack[i]}
    /\ report = Snapshot(1, disk)
    /\ page = report
    /\ req = NoRequest
    /\ touched = {} /\ changes = 0

GroupsAt(p) == {GroupOf[CopyOf[q]] : q \in {w \in Parts : PathOf[w] = p}}
Counted == changes < MaxChanges /\ changes' = changes + 1

\* A file is replaced, removed or added.
FileChanges(p, v) ==
    /\ Counted /\ p \in Shifting /\ v # disk[p]
    /\ disk' = [disk EXCEPT ![p] = v]
    /\ touched' = touched \cup GroupsAt(p)
    /\ UNCHANGED <<arr, report, page, req>>

\* An *arr forgets a file id, or the id comes to point at another file.
IdChanges(i, p) ==
    /\ Counted /\ p \in MayTrack[i] \cup {None} /\ p # arr[i]
    /\ arr' = [arr EXCEPT ![i] = p]
    /\ req' = [req EXCEPT !.moved = @ \cup ({i} \cap req.ids)]
    /\ touched' = IF i \in req.ids THEN touched \cup GroupsAt(p) ELSE touched
    /\ UNCHANGED <<disk, report, page>>

\* A new report is written, also while a request is in progress.  Plex lists a
\* path as it was (late) until it has scanned it again.
Rescan(late) ==
    /\ report.gen < MaxGen
    /\ report' = Snapshot(report.gen + 1, [p \in Paths |-> IF p \in late THEN report.disk[p] ELSE disk[p]])
    /\ UNCHANGED <<world, page, req>>

\* The operator loads the page anew.
Load ==
    /\ ~req.on /\ page' = report
    /\ UNCHANGED <<world, report, req>>

-----------------------------------------------------------------------------
(* A request.                                                              *)

\* Mutation of Submit: the page's generation is not compared.
SubmitAnyPage(ts, d) ==
    /\ ~req.on
    /\ req' = [on |-> TRUE, rep |-> report, chosen |-> ts, left |-> ts, seen |-> {}, dry |-> d,
               copy |-> None, ids |-> {}, moved |-> {}]
    /\ UNCHANGED <<world, report, page>>

\* The page is confirmed, or previewed (d); a report newer than the page refuses.
Submit(ts, d) ==
    /\ ~req.on /\ page.gen = report.gen
    /\ req' = [on |-> TRUE, rep |-> report, chosen |-> ts, left |-> ts, seen |-> {}, dry |-> d,
               copy |-> None, ids |-> {}, moved |-> {}]
    /\ UNCHANGED <<world, report, page>>

Free == req.on /\ req.copy = None
Taken(t, seen) == [req EXCEPT !.left = @ \ {t}, !.seen = @ \cup seen]

\* _validate_fs_part for every part: still there, and of the size reported.
FilesValid(c) ==
    \A q \in Listed(req.rep, c) : SameSize(disk[PathOf[q]], req.rep.disk[PathOf[q]])

\* _resolve_arr_targets for every part: the id is recorded and known, its file
\* has the basename and the size reported.  The *arr knows no size of a file gone.
IdValid(q) ==
    LET i == req.rep.id[q]
    IN  /\ i # None
        /\ arr[i] # None
        /\ SameName(arr[i], PathOf[q])
        /\ disk[arr[i]] # 0 => SameSize(disk[arr[i]], req.rep.disk[PathOf[q]])
IdsValid(c) == \A q \in Listed(req.rep, c) : IdValid(q)

CanGo(c) == c \notin req.seen /\ Deletable(req.rep, c) /\ ~req.dry

\* Nothing is deleted for target t: it names nothing or too much, its copy is
\* done, it is refused, or this is a dry run.
Pass(t) ==
    /\ Free /\ t \in req.left
    /\ ~\E c \in Named(req.rep, t) :
          /\ CanGo(c)
          /\ IF req.rep.assoc[c] = "tracked" THEN IdsValid(c) ELSE FilesValid(c)
    /\ req' = Taken(t, Named(req.rep, t))
    /\ UNCHANGED <<world, report, page>>

\* The untracked copy of t is to be deleted.
TakeFiles(t, c) ==
    /\ Free /\ t \in req.left /\ c \in Named(req.rep, t) /\ CanGo(c)
    /\ req.rep.assoc[c] = "untracked" /\ FilesValid(c)
    /\ req' = [Taken(t, {c}) EXCEPT !.copy = c]
    /\ UNCHANGED <<world, report, page>>

\* The tracked copy of t is to be deleted by its file ids.
TakeIds(t, c) ==
    /\ Free /\ t \in req.left /\ c \in Named(req.rep, t) /\ CanGo(c)
    /\ req.rep.assoc[c] = "tracked" /\ IdsValid(c)
    /\ req' = [Taken(t, {c}) EXCEPT !.copy = c,
                                    !.ids = {req.rep.id[q] : q \in Listed(req.rep, c)}]
    /\ UNCHANGED <<world, report, page>>

OnFiles == req.copy # None /\ req.rep.assoc[req.copy] = "untracked"
OnIds == req.copy # None /\ req.rep.assoc[req.copy] = "tracked"
Finished == req' = [req EXCEPT !.copy = None, !.ids = {}, !.moved = {}]

\* Every part is there to be renamed aside and the copy goes (see ReclaimStaging).
DeleteFiles ==
    /\ OnFiles /\ \A p \in PathsOf(req.rep, req.copy) : disk[p] # 0
    /\ disk' = [p \in Paths |-> IF p \in PathsOf(req.rep, req.copy) THEN 0 ELSE disk[p]]
    /\ Finished
    /\ UNCHANGED <<arr, touched, changes, report, page>>

\* One DELETE by id removes the file the id points at, and the id.
Gone(i) ==
    /\ disk' = [p \in Paths |-> IF p = arr[i] THEN 0 ELSE disk[p]]
    /\ arr' = [arr EXCEPT ![i] = None]

DeleteId(i) ==
    /\ OnIds /\ i \in req.ids /\ arr[i] # None
    /\ Gone(i)
    /\ IF req.ids = {i} THEN Finished ELSE req' = [req EXCEPT !.ids = @ \ {i}]
    /\ UNCHANGED <<touched, changes, report, page>>

\* A DELETE whose answer is lost may have been done; it is not repeated, and the
\* parts behind it are not tried.
AnswerLost(i) ==
    /\ OnIds /\ i \in req.ids /\ arr[i] # None
    /\ Gone(i)
    /\ Finished
    /\ UNCHANGED <<touched, changes, report, page>>

\* Staging fails and is rolled back, or the *arr refuses the DELETE.
DeleteFails ==
    /\ OnFiles \/ OnIds
    /\ Finished
    /\ UNCHANGED <<world, report, page>>

\* The response is sent, or the process dies.
Respond ==
    /\ Free /\ req.left = {}
    /\ req' = NoRequest
    /\ UNCHANGED <<world, report, page>>

Crash ==
    /\ req.on
    /\ req' = NoRequest
    /\ UNCHANGED <<world, report, page>>

OtherPrograms ==
    \/ \E p \in Paths, v \in Versions : FileChanges(p, v)
    \/ \E i \in Ids, p \in Paths \cup {None} : IdChanges(i, p)

Request ==
    \/ \E ts \in Choices, d \in BOOLEAN : Submit(ts, d)
    \/ \E t \in req.left : Pass(t) \/ \E c \in Copies : TakeFiles(t, c) \/ TakeIds(t, c)
    \/ \E i \in req.ids : DeleteId(i) \/ AnswerLost(i)
    \/ DeleteFiles \/ DeleteFails \/ Respond \/ Crash

Next ==
    \/ OtherPrograms \/ Load \/ Request
    \/ \E late \in SUBSET {p \in Paths : report.disk[p] # disk[p]} : Rescan(late)

Spec == Init /\ [][Next]_vars

-----------------------------------------------------------------------------
(* What a reclaim promises.                                                *)

Reports == [gen : 1..MaxGen, disk : [Paths -> Versions], shown : SUBSET Copies,
            keeper : [Groups -> Copies \cup {None}],
            assoc : [Copies -> {"tracked", "untracked", "unknown"}],
            id : [Parts -> Ids \cup {None}]]
Requests == [on : BOOLEAN, rep : Reports \cup {None}, chosen : SUBSET Targets, left : SUBSET Targets,
             seen : SUBSET Copies, dry : BOOLEAN, copy : Copies \cup {None},
             ids : SUBSET Ids, moved : SUBSET Ids]

\* Every variable has its type, no page is newer than the report, and a request in
\* progress has a report.
TypeOK ==
    /\ disk \in [Paths -> Versions] /\ arr \in [Ids -> Paths \cup {None}]
    /\ report \in Reports /\ page \in Reports /\ page.gen <= report.gen
    /\ req \in Requests /\ (req.on => req.rep \in Reports)
    /\ touched \subseteq Groups /\ changes \in 0..MaxChanges

\* A reclaim removes the file at p in this step.
Reclaimed(p) == changes' = changes /\ disk[p] # 0 /\ disk'[p] = 0
\* ... and not by an id that came to point at p after its last check.
Aimed(p) == Reclaimed(p) /\ \A i \in req.moved : arr[i] # p

\* Groups whose copies can be told apart by basename: where two copies have files of
\* one name, neither is stacked.  In any other group a part with the name of a
\* keeper's file gets that file's id, once another part pins its copy as tracked.
Telling == {g \in Groups : \A c, d \in Own[g] : \A q \in PartsOf[c], w \in PartsOf[d] :
              c # d /\ PathOf[q] # PathOf[w] /\ SameName(PathOf[q], PathOf[w]) => PartsOf[c] = {q}}

\* The keeper is never deleted: in a group with telling names no reclaim removes a
\* file of the copy that the operator's own page showed as the keeper of the group
\* the target is in, also when Plex lists that file a second time or an id drifts.
KeeperSpared ==
    [][\A p \in Paths : Aimed(p) /\ GroupOf[req.copy] \in Telling =>
          p \notin KeeperPaths(page, GroupOf[req.copy])]_vars

\* ... and so the README has it of every keeper: no reclaim removes a file of a
\* copy that the report it acts on names as the keeper of a group.
KeeperNeverDeleted ==
    [][\A p \in Paths : Reclaimed(p) => \A g \in Groups : p \notin KeeperPaths(req.rep, g)]_vars

\* Only what was chosen goes, and only on a confirm: a file that a reclaim removes
\* is of the one copy that some chosen target names on the page, or has the
\* basename of a part of that copy.
ChosenAlone ==
    [][\A p \in Paths : Aimed(p) =>
          /\ ~req.dry
          /\ \E t \in req.chosen : \E c \in Named(page, t) :
                \E q \in PartsOf[c] : p = PathOf[q] \/ SameName(p, PathOf[q])]_vars

\* A DELETE by id removes a file of the copy it was aimed at, not one elsewhere
\* that has its basename.
RightFile == [][\A p \in Paths : Reclaimed(p) => p \in PathsOf(req.rep, req.copy)]_vars

Whole(c) == \A q \in PartsOf[c] : disk[PathOf[q]] # 0
\* Groups that share no file and no basename with another group.
Alone == {g \in Groups : \A q, w \in Parts :
            GroupOf[CopyOf[q]] = g /\ SameName(PathOf[q], PathOf[w]) => GroupOf[CopyOf[w]] = g}

\* However many requests, stale pages, rescans in between, lost answers and
\* crashes: a group with telling names, none of them in another group, whose files
\* no other program changed keeps a whole copy, and a protected one keeps them all.
GroupWhole ==
    \A g \in (Alone \cap Telling) \ touched : Own[g] # {} =>
        /\ \E c \in Own[g] : Whole(c)
        /\ g \in Protected => \A c \in Own[g] : Whole(c)

\* Never the last copy: what a reclaim removes leaves its group a whole copy.
LastCopyKept ==
    [][\A p \in Paths : Reclaimed(p) => \E c \in Own[GroupOf[req.copy]] : Whole(c)']_vars

=============================================================================
