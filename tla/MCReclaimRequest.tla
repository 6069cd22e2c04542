-------------------------- MODULE MCReclaimRequest --------------------------
(* Instances of ReclaimRequest.                                            *)
EXTENDS ReclaimRequest, TLC

\* A movie with a keeper k, a stacked copy d, the keeper's file listed again as x
\* and a tracked copy w that shares a part id with d; an episode with a tracked
\* copy u and a copy v whose basename another series' file has too; a movie of
\* different content with copies y and z; two titles s and t merged into one.
MGroups == {"movie", "episode", "differing", "merged"}
MCopies == {"k", "d", "x", "w", "u", "v", "y", "z", "s", "t"}
MParts == {"k1", "d1", "d2", "x1", "w1", "u1", "v1", "y1", "z1", "s1", "t1"}
MPaths == {"pk", "pd1", "pd2", "pw", "pu", "pv", "po", "py", "pz", "ps", "pt"}
MIds == {"im", "iu", "io", "iz", "it"}
MGroupOf == [c \in MCopies |-> CASE c \in {"u", "v"} -> "episode" [] c \in {"y", "z"} -> "differing"
                                 [] c \in {"s", "t"} -> "merged" [] OTHER -> "movie"]
MCopyOf == ("k1" :> "k" @@ "d1" :> "d" @@ "d2" :> "d" @@ "x1" :> "x" @@ "w1" :> "w" @@ "u1" :> "u"
            @@ "v1" :> "v" @@ "y1" :> "y" @@ "z1" :> "z" @@ "s1" :> "s" @@ "t1" :> "t")
MPathOf == ("k1" :> "pk" @@ "d1" :> "pd1" @@ "d2" :> "pd2" @@ "x1" :> "pk" @@ "w1" :> "pw" @@ "u1" :> "pu"
            @@ "v1" :> "pv" @@ "y1" :> "py" @@ "z1" :> "pz" @@ "s1" :> "ps" @@ "t1" :> "pt")
MPartId == ("k1" :> 1 @@ "d1" :> 2 @@ "d2" :> 3 @@ "x1" :> 4 @@ "w1" :> 2 @@ "u1" :> 5 @@ "v1" :> 6
            @@ "y1" :> 7 @@ "z1" :> 8 @@ "s1" :> 9 @@ "t1" :> 10)
MNameOf == [p \in MPaths |-> IF p = "po" THEN "pv" ELSE p]
MKindOf == [g \in MGroups |-> IF g = "episode" THEN "episode" ELSE "movie"]
MTitleOf == ("im" :> "movie" @@ "iu" :> "episode" @@ "io" :> "none" @@ "iz" :> "differing" @@ "it" :> "merged")
MServiceOf == [i \in MIds |-> IF i \in {"im", "iz", "it"} THEN "movie" ELSE "episode"]
\* An upgrade (version 3) of any copy beats the others.
MRank == [c \in MCopies |-> CASE c \in {"k", "x", "u", "y", "s"} -> 3 [] c = "d" -> 2 [] OTHER -> 1]
\* x ties with its own file k, and a stack of which one part is left has not the size.
MScore == [l \in SUBSET MParts |-> [v \in 0..3 |->
             IF l = {} THEN 0 ELSE IF v = 3 THEN 5
             ELSE IF l \in {{"d1"}, {"d2"}} THEN 1 ELSE MRank[MCopyOf[CHOOSE q \in l : TRUE]]]]
MPlace == ("k" :> 1 @@ "d" :> 2 @@ "x" :> 3 @@ "w" :> 4 @@ "u" :> 5 @@ "v" :> 6 @@ "y" :> 7 @@ "z" :> 8
           @@ "s" :> 9 @@ "t" :> 10)
MMayTrack == ("im" :> {"pw", "pk"} @@ "iu" :> {"pu"} @@ "io" :> {"po"} @@ "iz" :> {"pz"} @@ "it" :> {"pt"})
\* Each target alone, both parts of the stacked copy, and copies of both kinds.
MChoices == {{t} : t \in Targets} \cup {{<<"movie", 2>>, <<"movie", 3>>}, {<<"movie", 3>>, <<"episode", 6>>}}

\* Two episodes of one series.  One file holds both, so both items list it (m and n,
\* part "m1" and "n1" at "pm"); each has a file of its own too, a and b.
SGroups == {"E1", "E2"}
SCopies == {"a", "m", "n", "b"}
SParts == {"a1", "m1", "n1", "b1"}
SPaths == {"pa", "pm", "pb", "po"}
SIds == {"im", "io"}
SGroupOf == [c \in SCopies |-> IF c \in {"a", "m"} THEN "E1" ELSE "E2"]
SCopyOf == ("a1" :> "a" @@ "m1" :> "m" @@ "n1" :> "n" @@ "b1" :> "b")
SPathOf == ("a1" :> "pa" @@ "m1" :> "pm" @@ "n1" :> "pm" @@ "b1" :> "pb")
SPartId == ("a1" :> 1 @@ "m1" :> 2 @@ "n1" :> 3 @@ "b1" :> 4)
SNameOf == [p \in SPaths |-> IF p = "po" THEN "pb" ELSE p]
SKindOf == [g \in SGroups |-> "episode"]
STitleOf == [i \in SIds |-> "none"]
SServiceOf == [i \in SIds |-> "episode"]
SScore == [l \in SUBSET SParts |-> [v \in 0..3 |->
             IF l = {} THEN 0 ELSE IF "a1" \in l THEN 3 ELSE IF l = {"b1"} THEN 1 ELSE 2]]
SPlace == ("a" :> 1 @@ "m" :> 2 @@ "n" :> 3 @@ "b" :> 4)
\* "io" tracks another series' file with b's basename.
SMayTrack == ("im" :> {"pm"} @@ "io" :> {"po"})
SChoices == {{t} : t \in Targets}

\* One episode with a keeper k and a stacked copy d.  The second part of d has the
\* basename of the keeper's file; Sonarr tracks that file (ik) and d's first part (id).
PGroups == {"E"}
PCopies == {"k", "d"}
PParts == {"k1", "d1", "d2"}
PPaths == {"pk", "pd1", "pd2"}
PIds == {"ik", "id"}
PGroupOf == [c \in PCopies |-> "E"]
PCopyOf == ("k1" :> "k" @@ "d1" :> "d" @@ "d2" :> "d")
PPathOf == ("k1" :> "pk" @@ "d1" :> "pd1" @@ "d2" :> "pd2")
PPartId == ("k1" :> 1 @@ "d1" :> 2 @@ "d2" :> 3)
PNameOf == [p \in PPaths |-> IF p = "pd2" THEN "pk" ELSE p]
PKindOf == [g \in PGroups |-> "episode"]
PTitleOf == [i \in PIds |-> "none"]
PServiceOf == [i \in PIds |-> "episode"]
PScore == [l \in SUBSET PParts |-> [v \in 0..3 |-> IF "k1" \in l THEN 3 ELSE Cardinality(l)]]
PPlace == ("k" :> 1 @@ "d" :> 2)
PMayTrack == ("ik" :> {"pk"} @@ "id" :> {"pd1"})
PChoices == {{t} : t \in Targets}
=============================================================================
