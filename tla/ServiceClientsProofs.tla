------------------------ MODULE ServiceClientsProofs ------------------------
(***************************************************************************)
(* The types and the safety properties of the two readers of other         *)
(* services: a poll of qBittorrent, and a report, which is about whole     *)
(* sections, misses and repeats no more than a changing library makes it,  *)
(* and pins no file that another may be.  Tries, sections, entries, page   *)
(* sizes, series and files are any.                                        *)
(***************************************************************************)
EXTENDS ServiceClients, Induction, SequenceTheorems

\* A call under way has no result yet.
Pending == stage # "idle" => outcome = "none"

\* The second login comes after one at most, and the repeated request after one
\* at least; that it is refused nevertheless shows that access was lost again.
Relogins ==
    /\ stage = "relogin" => logins <= 1
    /\ stage = "retry" => logins > 0 /\ (Admitted \/ lapsed)

PollInv == PollTypeOK /\ Pending /\ Relogins /\ LoginsCounted /\ ForbiddenMeansLapsedAgain

\* The tries of a request stay within bounds.
LEMMA TriesPositive == Tries \in Nat \ {0}
  BY AttemptsAssumption DEF Tries

LEMMA TryBounds ==
    ASSUME attempt \in 1..Tries, NEW m, NEW r, Again(m, r) \/ Final(m, r)
    PROVE  attempt' \in 1..Tries
  BY TriesPositive DEF Again, Final, Retries

\* Logins are never repeated.
LEMMA LoginOnce == ASSUME LoggingIn, NEW r PROVE ~Again(Method, r)
  BY DEF Again, Retries, Method

\* Every step of the cleaner keeps the Boolean variables Boolean ...
LEMMA FlagsTyped ==
    ASSUME PollTypeOK, PollNext
    PROVE  authenticated' \in BOOLEAN /\ session' \in BOOLEAN /\ lapsed' \in BOOLEAN
<1> USE DEF PollTypeOK, clientVars, serviceVars
<1>1. CASE Call \/ TryAgain
  BY <1>1, Zenon DEF Call, TryAgain
<1>2. CASE LoggedIn
  BY <1>2, Zenon DEF LoggedIn
<1>3. CASE LoginDenied \/ LoginFails
  BY <1>3, Zenon DEF LoginDenied, LoginFails
<1>4. CASE Answered \/ Forbidden \/ RequestFails
  BY <1>4, Zenon DEF Answered, Forbidden, RequestFails
<1>5. CASE Lapse \/ DoorChanges
  BY <1>5, Zenon DEF Lapse, DoorChanges
<1> QED
  BY <1>1, <1>2, <1>3, <1>4, <1>5, Zenon DEF PollNext, PollStep

\* ... and preserves the invariant.
LEMMA PollStepKeeps == ASSUME PollInv, PollNext PROVE PollInv'
<1> USE DEF PollInv, PollTypeOK, Pending, Relogins, LoginsCounted, ForbiddenMeansLapsedAgain, Stages,
            Results, clientVars, serviceVars
<1>0. /\ authenticated' \in BOOLEAN /\ session' \in BOOLEAN /\ lapsed' \in BOOLEAN
      /\ PollTypeOK
  BY FlagsTyped
<1>1. CASE Call
  <2>1. stage' \in {"request", "login"}
    BY <1>1, Zenon DEF Call
  <2> QED
    BY <1>0, <1>1, <2>1 DEF Call
<1>2. CASE TryAgain
  <2>1. ~LoggingIn
    BY <1>2, LoginOnce DEF TryAgain
  <2>2. attempt' \in 1..Tries
    BY <1>2, TryBounds DEF TryAgain
  <2>3. logins' = logins /\ UNCHANGED <<clientVars, serviceVars, lapsed>>
    BY <1>2, <2>1 DEF TryAgain
  <2> QED
    BY <1>0, <2>2, <2>3 DEF Admitted
<1>3. CASE LoggedIn
  <2>1. attempt' = 1 /\ door' = door /\ outcome' = outcome /\ outcome = "none"
    BY <1>3 DEF LoggedIn, LoggingIn
  <2>2. \/ stage = "login" /\ stage' = "request" /\ logins' = 1
        \/ stage = "relogin" /\ stage' = "retry" /\ logins' \in 1..2
    BY <1>3 DEF LoggedIn, LoggingIn, Counted
  <2>3. door \in {"open", "exempt"}
    BY <1>3 DEF LoggedIn, Doors
  <2>4. session' \/ door' = "exempt"
    BY <1>3, <2>3, Zenon DEF LoggedIn
  <2> QED
    BY <1>0, <2>1, <2>2, <2>4, TriesPositive DEF Admitted
<1>4. CASE LoginDenied
  BY <1>0, <1>4, TriesPositive DEF LoginDenied, LoggingIn, Counted, End
<1>5. CASE LoginFails
  <2>1. attempt' \in 1..Tries
    BY <1>5, TryBounds DEF LoginFails
  <2> QED
    BY <1>0, <1>5, <2>1 DEF LoginFails, LoggingIn, Counted, End
<1>6. CASE Answered
  BY <1>0, <1>6, TriesPositive DEF Answered, Requesting, End
<1>7. CASE Forbidden
  <2>1. attempt' \in 1..Tries
    BY <1>7, TryBounds DEF Forbidden
  <2> QED
    BY <1>0, <1>7, <2>1 DEF Forbidden, Requesting, End
<1>8. CASE RequestFails
  <2>1. attempt' \in 1..Tries
    BY <1>8, TryBounds DEF RequestFails
  <2> QED
    BY <1>0, <1>8, <2>1 DEF RequestFails, Requesting, End
<1>9. CASE Lapse
  BY <1>0, <1>9 DEF Lapse
<1>10. CASE DoorChanges
  BY <1>0, <1>10 DEF DoorChanges, Admitted
<1> QED
  BY <1>1, <1>2, <1>3, <1>4, <1>5, <1>6, <1>7, <1>8, <1>9, <1>10 DEF PollNext, PollStep

\* Every request of a report stays within the tries as well.
LEMMA ReportTries == ASSUME attempt \in 1..Tries, ReportNext PROVE attempt' \in 1..Tries
<1>1. CASE Generate \/ LibraryChanges
  BY <1>1 DEF Generate, LibraryChanges, Inserted, Removed, SectionDeleted
<1>2. CASE Retry \/ Vanished \/ PlexFails \/ RadarrSkipped \/ SonarrSkipped \/ ArrEscapes
  BY <1>2, TryBounds DEF Retry, Vanished, PlexFails, RadarrSkipped, SonarrSkipped, ArrEscapes
<1>3. CASE Resolve \/ Page \/ RadarrIndexed \/ SeriesListed \/ \E s \in Series : EpisodesIndexed(s)
  BY <1>3, TriesPositive DEF Resolve, Page, RadarrIndexed, SeriesListed, EpisodesIndexed
<1>4. CASE NoSections \/ HollowPage
  BY <1>4, TriesPositive DEF NoSections, HollowPage
<1> QED
  BY <1>1, <1>2, <1>3, <1>4 DEF ReportNext, ReportStep

\* What happens on the way of a report leaves the calls of the cleaner alone.
LEMMA PollInvariant == Spec => []PollInv
<1>1. Init => PollInv
  <2> SUFFICES ASSUME Init PROVE PollInv
    OBVIOUS
  <2>1. attempt \in 1..Tries
    BY TriesPositive DEF Init, PollInit
  <2>2. authenticated \in BOOLEAN /\ session \in BOOLEAN /\ lapsed \in BOOLEAN
    BY Zenon DEF Init, PollInit
  <2> QED
    BY <2>1, <2>2 DEF Init, PollInit, PollInv, PollTypeOK, Pending, Relogins, LoginsCounted,
       ForbiddenMeansLapsedAgain, Stages, Results
<1>2. PollInv /\ [Next]_vars => PollInv'
  <2> SUFFICES ASSUME PollInv, [Next]_vars PROVE PollInv'
    OBVIOUS
  <2> USE DEF PollInv, PollTypeOK, Pending, Relogins, LoginsCounted, ForbiddenMeansLapsedAgain, polling,
          clientVars, serviceVars, Admitted
  <2>1. CASE PollNext
    BY <2>1, PollStepKeeps
  <2>2. CASE ReportNext /\ UNCHANGED polling
    <3>1. attempt' \in 1..Tries
      BY <2>2, ReportTries
    <3> QED
      BY <2>2, <3>1
  <2>3. CASE UNCHANGED vars
    BY <2>3 DEF vars
  <2> QED
    BY <2>1, <2>2, <2>3 DEF Next
<1> QED
  BY <1>1, <1>2, PTL DEF Spec

\* The variables of a poll keep their types.
THEOREM PollTypeCorrect == Spec => []PollTypeOK
  BY PollInvariant, PTL DEF PollInv

\* A session that has merely grown stale never fails a poll: the caller sees a
\* 403 only if access was lost again after the login the poll made of itself.
THEOREM ForbiddenTheorem == Spec => []ForbiddenMeansLapsedAgain
  BY PollInvariant, PTL DEF PollInv

\* However many tries are configured, a poll logs in twice at most.
THEOREM LoginsTheorem == Spec => []LoginsCounted
  BY PollInvariant, PTL DEF PollInv

-----------------------------------------------------------------------------
\* The index of Sonarr's files is that of the series fetched so far, and in a
\* finished report nothing or all that the series tell.
Told == {f \in Tracked : f.series \notin Mute}
IndexInv ==
    /\ step \in {"idle", "sections", "pages", "radarr", "sonarr"} => rows = {}
    /\ step = "episodes" => rows = {f \in Told : f.series \notin pending}
    /\ step = "made" => rows \in {{}, Told}

\* Every step of a report preserves that.
LEMMA IndexStep == ASSUME IndexInv, ReportNext PROVE IndexInv'
<1>1. CASE Generate
  BY <1>1 DEF Generate, IndexInv, arrVars
<1>2. CASE LibraryChanges
  BY <1>2 DEF LibraryChanges, Inserted, Removed, SectionDeleted, IndexInv, arrVars
<1>3. CASE Retry \/ PlexFails \/ ArrEscapes
  BY <1>3 DEF Retry, PlexFails, ArrEscapes, IndexInv, arrVars
<1>4. CASE Resolve \/ NoSections \/ HollowPage \/ Vanished
  BY <1>4 DEF Resolve, NoSections, HollowPage, Vanished, Turn, IndexInv, arrVars
<1>5. CASE Page
  <2>1. step = "pages" /\ step' \in {"radarr", "pages"} /\ UNCHANGED arrVars
    BY <1>5 DEF Page, Turn
  <2> QED
    BY <2>1 DEF IndexInv, arrVars
<1>6. CASE RadarrIndexed \/ RadarrSkipped
  BY <1>6 DEF RadarrIndexed, RadarrSkipped, IndexInv, arrVars
<1>7. CASE SeriesListed
  <2>1. \A f \in Tracked : f.series \in Series
    BY GenerationAssumption
  <2> QED
    BY <1>7, <2>1 DEF SeriesListed, IndexInv, Told
<1>8. ASSUME NEW s \in Series, EpisodesIndexed(s) PROVE IndexInv'
  <2>1. rows' = {f \in Told : f.series \notin pending \ {s}}
    BY <1>8 DEF EpisodesIndexed, IndexInv, Told
  <2> QED
    BY <1>8, <2>1 DEF EpisodesIndexed, IndexInv
<1>9. CASE SonarrSkipped
  BY <1>9 DEF SonarrSkipped, IndexInv
<1> QED
  BY <1>1, <1>2, <1>3, <1>4, <1>5, <1>6, <1>7, <1>8, <1>9 DEF ReportNext, ReportStep

\* A name is pinned only to the file that bears it alone.
LEMMA PinnedAlone ==
    ASSUME rows \in {{}, Told}, NEW f \in Told, Pinned(f.name) # NoId,
           NEW g \in Told, g.name = f.name
    PROVE  g = f /\ Pinned(f.name) = g.id
<1> DEFINE Same == {x \in rows : x.name = f.name}
<1>1. IsFiniteSet(Same) /\ Cardinality(Same) = 1
  <2>1. IsFiniteSet(Tracked)
    BY GenerationAssumption
  <2>2. Same \subseteq Tracked
    BY DEF Told
  <2>3. IsFiniteSet(Same)
    BY <2>1, <2>2, FS_Subset
  <2> QED
    BY <2>3 DEF Pinned
<1>2. PICK x : Same = {x}
  BY <1>1, FS_Singleton
<1>3. rows = Told
  BY <1>2
<1>4. f \in Same /\ g \in Same
  BY <1>3
<1>5. f = x /\ g = x
  BY <1>2, <1>4
<1>6. (CHOOSE y \in Same : TRUE) = x
  BY <1>2
<1> QED
  BY <1>1, <1>5, <1>6 DEF Pinned

\* A request for a series that fails never makes a shared name look like the only
\* one: what a report pins an episode to is the one file of its name among those of
\* the series that tell.
THEOREM PinnedTheorem == Spec => []PinnedIsSole
<1>1. Init => IndexInv
  BY DEF Init, ReportInit, IndexInv
<1>2. IndexInv /\ [Next]_vars => IndexInv'
  <2> SUFFICES ASSUME IndexInv, [Next]_vars PROVE IndexInv'
    OBVIOUS
  <2>1. CASE ReportNext
    BY <2>1, IndexStep
  <2>2. CASE UNCHANGED generation
    BY <2>2 DEF generation, arrVars, IndexInv
  <2> QED
    BY <2>1, <2>2 DEF Next, vars
<1>3. IndexInv => PinnedIsSole
  BY PinnedAlone DEF IndexInv, PinnedIsSole, Told
<1> QED
  BY <1>1, <1>2, <1>3, PTL DEF Spec

-----------------------------------------------------------------------------
(* Sequences.                                                              *)

\* r is the stretch of the sequence q from m to n.
StretchOf(S, r, q, m, n) ==
    /\ r \in Seq(S) /\ Len(r) = n - m + 1
    /\ \A j \in 1..(n - m + 1) : r[j] = q[m + j - 1]

LEMMA Stretch ==
    ASSUME NEW S, NEW q \in Seq(S), NEW m \in Nat \ {0}, NEW n \in Nat, n <= Len(q), m <= n + 1
    PROVE  StretchOf(S, SubSeq(q, m, n), q, m, n)
<1> DEFINE r == SubSeq(q, m, n)
<1>0. m \in Int /\ n \in Int /\ Len(q) \in Nat
  OBVIOUS
<1>1. \A j \in m..n : q[j] \in S
  <2>1. \A j \in 1..Len(q) : q[j] \in S
    OBVIOUS
  <2> QED BY <1>0, <2>1
<1>2. r \in Seq(S) /\ Len(r) = IF m <= n THEN n - m + 1 ELSE 0
  BY <1>0, <1>1, SubSeqProperties
<1>3. \A j \in 1..(n - m + 1) : r[j] = q[m + j - 1]
  BY <1>0, <1>1, SubSeqProperties
<1> HIDE DEF r
<1>4. Len(r) = n - m + 1
  BY <1>0, <1>2
<1> QED BY <1>2, <1>3, <1>4 DEF r, StretchOf

\* r is the sequence a and then the sequence b.
JoinOf(S, r, a, b) ==
    /\ r \in Seq(S) /\ Len(r) = Len(a) + Len(b)
    /\ \A j \in 1..(Len(a) + Len(b)) : r[j] = IF j <= Len(a) THEN a[j] ELSE b[j - Len(a)]

LEMMA Join == ASSUME NEW S, NEW a \in Seq(S), NEW b \in Seq(S) PROVE JoinOf(S, a \o b, a, b)
  BY ConcatProperties, Zenon DEF JoinOf

\* r is the sequence q after x has been inserted at i.
InsertionOf(S, r, q, i, x) ==
    /\ r \in Seq(S) /\ Len(r) = Len(q) + 1
    /\ \A j \in 1..(Len(q) + 1) : r[j] = IF j < i THEN q[j] ELSE IF j = i THEN x ELSE q[j - 1]

LEMMA InsertFacts ==
    ASSUME NEW S, NEW q \in Seq(S), NEW x \in S, NEW i \in 1..(Len(q) + 1), NEW r, r = InsertAt(q, i, x)
    PROVE  InsertionOf(S, r, q, i, x)
<1> DEFINE a == SubSeq(q, 1, i - 1)
           b == SubSeq(q, i, Len(q))
           c == <<x>>
<1>0. Len(q) \in Nat /\ i \in Nat /\ i >= 1 /\ i <= Len(q) + 1
  OBVIOUS
<1>1. a \in Seq(S) /\ Len(a) = i - 1 /\ \A j \in 1..(i - 1) : a[j] = q[j]
  <2>1. i - 1 \in Nat /\ 1 \in Nat \ {0} /\ i - 1 <= Len(q) /\ 1 <= (i - 1) + 1
    BY <1>0
  <2>2. StretchOf(S, a, q, 1, i - 1)
    BY <2>1, Stretch
  <2> HIDE DEF a
  <2> QED BY <1>0, <2>2 DEF StretchOf
<1>2. b \in Seq(S) /\ Len(b) = Len(q) - i + 1 /\ \A j \in 1..(Len(q) - i + 1) : b[j] = q[i + j - 1]
  <2>1. i \in Nat \ {0} /\ Len(q) \in Nat /\ Len(q) <= Len(q) /\ i <= Len(q) + 1
    BY <1>0
  <2>2. StretchOf(S, b, q, i, Len(q))
    BY <2>1, Stretch
  <2> HIDE DEF b
  <2> QED BY <1>0, <2>2 DEF StretchOf
<1>3. c \in Seq(S) /\ Len(c) = 1 /\ c[1] = x
  OBVIOUS
<1>4. r = (a \o c) \o b
  BY DEF InsertAt
<1> HIDE DEF a, b, c
<1>5. /\ a \o c \in Seq(S) /\ Len(a \o c) = i
      /\ \A j \in 1..i : (a \o c)[j] = IF j < i THEN q[j] ELSE x
  <2>1. JoinOf(S, a \o c, a, c)
    BY <1>1, <1>3, Join
  <2> QED BY <1>0, <1>1, <1>3, <2>1 DEF JoinOf
<1> QED
  <2>1. JoinOf(S, r, a \o c, b)
    BY <1>2, <1>4, <1>5, Join
  <2>2. r \in Seq(S) /\ Len(r) = Len(q) + 1
    BY <1>0, <1>2, <1>5, <2>1 DEF JoinOf
  <2>3. ASSUME NEW j \in 1..(Len(q) + 1)
        PROVE  r[j] = IF j < i THEN q[j] ELSE IF j = i THEN x ELSE q[j - 1]
    <3>1. r[j] = IF j <= Len(a \o c) THEN (a \o c)[j] ELSE b[j - Len(a \o c)]
      BY <1>0, <1>2, <1>5, <2>1 DEF JoinOf
    <3>2. CASE j <= i
      <4>1. j \in 1..i /\ j <= Len(a \o c)
        BY <1>0, <1>5, <3>2
      <4>2. (a \o c)[j] = IF j < i THEN q[j] ELSE x
        BY <1>5, <4>1
      <4>3. r[j] = (a \o c)[j]
        BY <3>1, <4>1
      <4> QED BY <1>0, <3>2, <4>2, <4>3
    <3>3. CASE j > i
      <4>1. j - i \in 1..(Len(q) - i + 1) /\ ~(j <= Len(a \o c)) /\ i + (j - i) - 1 = j - 1 /\ ~(j < i) /\ j # i
        <5>1. Len(a \o c) = i /\ j \in Nat /\ j <= Len(q) + 1
          BY <1>0, <1>5
        <5> QED BY <1>0, <3>3, <5>1
      <4>2. b[j - i] = q[i + (j - i) - 1]
        BY <1>2, <4>1
      <4>3. r[j] = b[j - i]
        BY <1>5, <3>1, <4>1
      <4>4. r[j] = q[j - 1]
        BY <4>1, <4>2, <4>3, Zenon
      <4> QED BY <4>1, <4>4, Zenon
    <3> QED BY <1>0, <3>2, <3>3
  <2> QED BY <2>2, <2>3 DEF InsertionOf

\* r is the sequence q after what was at i has been removed.
RemovalOf(S, r, q, i) ==
    /\ r \in Seq(S) /\ Len(r) = Len(q) - 1
    /\ \A j \in 1..(Len(q) - 1) : r[j] = IF j < i THEN q[j] ELSE q[j + 1]

LEMMA RemoveFacts ==
    ASSUME NEW S, NEW q \in Seq(S), NEW i \in 1..Len(q), NEW r, r = RemoveAt(q, i)
    PROVE  RemovalOf(S, r, q, i)
<1> DEFINE a == SubSeq(q, 1, i - 1)
           b == SubSeq(q, i + 1, Len(q))
<1>0. Len(q) \in Nat /\ i \in Nat /\ i >= 1 /\ i <= Len(q)
  OBVIOUS
<1>1. a \in Seq(S) /\ Len(a) = i - 1 /\ \A j \in 1..(i - 1) : a[j] = q[j]
  <2>1. i - 1 \in Nat /\ 1 \in Nat \ {0} /\ i - 1 <= Len(q) /\ 1 <= (i - 1) + 1
    BY <1>0
  <2>2. StretchOf(S, a, q, 1, i - 1)
    BY <2>1, Stretch
  <2> HIDE DEF a
  <2> QED BY <1>0, <2>2 DEF StretchOf
<1>2. b \in Seq(S) /\ Len(b) = Len(q) - i /\ \A j \in 1..(Len(q) - i) : b[j] = q[i + j]
  <2>1. i + 1 \in Nat \ {0} /\ Len(q) \in Nat /\ Len(q) <= Len(q) /\ i + 1 <= Len(q) + 1
    BY <1>0
  <2>2. StretchOf(S, b, q, i + 1, Len(q))
    BY <2>1, Stretch
  <2> HIDE DEF b
  <2> QED BY <1>0, <2>2 DEF StretchOf
<1>3. r = a \o b
  BY DEF RemoveAt
<1> HIDE DEF a, b
<1>4. JoinOf(S, r, a, b)
  BY <1>1, <1>2, <1>3, Join
<1>5. r \in Seq(S) /\ Len(r) = Len(q) - 1
  BY <1>0, <1>1, <1>2, <1>4 DEF JoinOf
<1>6. ASSUME NEW j \in 1..(Len(q) - 1) PROVE r[j] = IF j < i THEN q[j] ELSE q[j + 1]
  <2>1. r[j] = IF j <= Len(a) THEN a[j] ELSE b[j - Len(a)]
    BY <1>0, <1>1, <1>2, <1>4 DEF JoinOf
  <2>2. CASE j < i
    <3>1. j \in 1..(i - 1) /\ j <= Len(a)
      BY <1>0, <1>1, <2>2
    <3> QED BY <1>1, <2>1, <2>2, <3>1
  <2>3. CASE j >= i
    <3>1. j - (i - 1) \in 1..(Len(q) - i) /\ ~(j <= Len(a)) /\ i + (j - (i - 1)) = j + 1 /\ ~(j < i)
      BY <1>0, <1>1, <2>3
    <3> QED BY <1>1, <1>2, <2>1, <3>1
  <2> QED BY <1>0, <2>2, <2>3
<1> QED BY <1>5, <1>6 DEF RemovalOf

\* r is the sequence a and then x.
AppendOf(S, r, a, x) ==
    /\ r \in Seq(S) /\ Len(r) = Len(a) + 1
    /\ \A j \in 1..Len(a) : r[j] = a[j]
    /\ r[Len(a) + 1] = x

LEMMA Appending == ASSUME NEW S, NEW a \in Seq(S), NEW x \in S PROVE AppendOf(S, Append(a, x), a, x)
  BY AppendProperties DEF AppendOf

\* c lists the members of S, each once.
Lists(c, S) == c \in Seq(S) /\ IsInjective(c) /\ Range(c) = S

\* A set in some order.
LEMMA SetListed == ASSUME NEW S, IsFiniteSet(S) PROVE Lists(SetToSeq(S), S)
<1> DEFINE n == Cardinality(S)
           c == SetToSeq(S)
<1>1. n \in Nat /\ ExistsBijection(1..n, S)
  BY FS_CardinalityType
<1>2. PICK g : g \in Bijection(1..n, S)
  BY <1>1 DEF ExistsBijection
<1>3. g \in [1..n -> S] /\ IsInjective(g)
  BY <1>2 DEF Bijection, Injection
<1>4. c \in [1..n -> S] /\ IsInjective(c)
  BY <1>3, Zenon DEF SetToSeq
<1> HIDE DEF c
<1>5. c \in Injection(1..n, S)
  BY <1>4 DEF Injection
<1>6. IsFiniteSet(1..n) /\ Cardinality(1..n) = n
  <2> HIDE DEF n
  <2> QED BY <1>1, FS_Interval
<1>7. c \in Surjection(1..n, S)
  BY <1>5, <1>6, FS_Injection
<1>8. c \in Seq(S)
  <2> HIDE DEF n
  <2> QED BY <1>1, <1>4
<1>9. Range(c) = S
  BY <1>4, <1>7 DEF Surjection, Range
<1> QED BY <1>4, <1>8, <1>9 DEF Lists, c

\* Another element is kept if it is of S and new.
Kept(q, x, S) == IF x \in S \ Range(q) THEN Append(q, x) ELSE q

LEMMA KeptLists ==
    ASSUME NEW S, NEW T, T \subseteq S, NEW q, Lists(q, T), NEW x
    PROVE  Lists(Kept(q, x, S), T \cup ({x} \cap S))
<1>1. q \in Seq(T) /\ IsInjective(q) /\ Range(q) = T /\ Len(q) \in Nat /\ DOMAIN q = 1..Len(q)
  BY DEF Lists
<1>2. CASE x \in S \ Range(q)
  <2>1. PICK U, r : U = T \cup {x} /\ r = Append(q, x)
    OBVIOUS
  <2>2. q \in Seq(U) /\ x \in U /\ U = T \cup ({x} \cap S)
    BY <1>1, <1>2, <2>1, SeqMonotonic
  <2>3. AppendOf(U, r, q, x)
    BY <2>1, <2>2, Appending
  <2>4. r \in Seq(U) /\ DOMAIN r = 1..(Len(q) + 1)
    BY <2>3 DEF AppendOf
  <2>5. \A j \in DOMAIN r : (j \in 1..Len(q) /\ r[j] = q[j] /\ q[j] \in T) \/ (j = Len(q) + 1 /\ r[j] = x)
    BY <1>1, <2>3, <2>4 DEF AppendOf
  <2>6. IsInjective(r)
    <3>1. SUFFICES ASSUME NEW i \in DOMAIN r, NEW j \in DOMAIN r, r[i] = r[j] PROVE i = j
      BY DEF IsInjective
    <3>2. x \notin T
      BY <1>1, <1>2
    <3> QED BY <1>1, <2>5, <3>1, <3>2 DEF IsInjective
  <2>7. Range(r) = U
    <3>1. \A t \in T : \E j \in 1..Len(q) : r[j] = t
      BY <1>1, <2>3 DEF Range, AppendOf
    <3>2. \A j \in 1..Len(q) : j \in DOMAIN r
      BY <1>1, <2>4
    <3>3. Len(q) + 1 \in DOMAIN r /\ r[Len(q) + 1] = x
      BY <1>1, <2>3, <2>4 DEF AppendOf
    <3>4. \A t \in U : \E j \in DOMAIN r : r[j] = t
      BY <2>1, <3>1, <3>2, <3>3
    <3>5. \A j \in DOMAIN r : r[j] \in U
      BY <2>1, <2>5
    <3> QED BY <3>4, <3>5 DEF Range
  <2>8. Kept(q, x, S) = r
    BY <1>2, <2>1 DEF Kept
  <2> QED BY <2>2, <2>4, <2>6, <2>7, <2>8 DEF Lists
<1>3. CASE x \notin S \ Range(q)
  <2>1. T \cup ({x} \cap S) = T
    BY <1>1, <1>3
  <2>2. Kept(q, x, S) = q
    BY <1>3 DEF Kept
  <2> QED BY <2>1, <2>2
<1> QED BY <1>2, <1>3

\* What a request for ids takes of the sections that are there.
ChosenOf(ids, there) == IF ids = <<>> THEN there ELSE Range(ids) \cap there

\* Every section that is asked for and there is scanned once, and no other.
LEMMA ChosenLists ==
    ASSUME NEW ids, ids \in Seq(Range(ids)), NEW there, IsFiniteSet(there)
    PROVE  Lists(Chosen(ids, there), ChosenOf(ids, there))
<1>1. CASE ids = <<>>
  BY <1>1, SetListed, Zenon DEF Chosen, ChosenOf
<1>2. CASE ids # <<>>
  <2> DEFINE N == Len(ids)
             F == [t \in (1..N) \X Seq(there) |-> Kept(t[2], ids[t[1]], there)]
             up == [n \in 0..N |-> {ids[m] : m \in 1..n} \cap there]
  <2>1. N \in Nat /\ DOMAIN ids = 1..N
    OBVIOUS
  <2>2. F \in [(1..N) \X Seq(there) -> Seq(there)]
    <3>1. ASSUME NEW q \in Seq(there), NEW x PROVE Kept(q, x, there) \in Seq(there)
      BY AppendProperties DEF Kept
    <3> QED BY <3>1
  <2>3. \A i \in 1..N : \A q \in Seq(there) : F[<<i, q>>] = Kept(q, ids[i], there)
    OBVIOUS
  <2>4. <<>> \in Seq(there)
    OBVIOUS
  <2> HIDE DEF F, N
  <2>5. PICK f \in [0..N -> Seq(there)] : f[0] = <<>> /\ \A i \in 1..N : f[i] = F[<<i, f[i - 1]>>]
    <3>1. N \in Nat
      BY <2>1
    <3>2. \E f \in [0..N -> Seq(there)] : Steps(f, <<>>, N, F)
      BY <2>2, <2>4, <3>1, StepByStep, Zenon
    <3> QED BY <3>2 DEF Steps
  <2>6. \A i \in 1..N : i - 1 \in 0..N /\ f[i] = Kept(f[i - 1], ids[i], there)
    <3>1. SUFFICES ASSUME NEW i \in 1..N PROVE i - 1 \in 0..N /\ f[i] = Kept(f[i - 1], ids[i], there)
      OBVIOUS
    <3>2. i - 1 \in 0..N
      BY <2>1
    <3>3. f[i - 1] \in Seq(there)
      BY <3>2
    <3> QED BY <2>3, <2>5, <3>2, <3>3
  <2>7. f = [n \in 0..N |-> IF n = 0 THEN <<>> ELSE Kept(f[n - 1], ids[n], there)]
    <3>1. \A n \in 0..N : n # 0 => n \in 1..N
      BY <2>1
    <3> QED BY <2>5, <2>6, <3>1
  <2>8. PICK g : /\ g = [n \in 0..N |-> IF n = 0 THEN <<>> ELSE Kept(g[n - 1], ids[n], there)]
                 /\ Chosen(ids, there) = g[N]
    <3> DEFINE G == CHOOSE g : g = [n \in 0..N |-> IF n = 0 THEN <<>> ELSE Kept(g[n - 1], ids[n], there)]
    <3>1. G = [n \in 0..N |-> IF n = 0 THEN <<>> ELSE Kept(G[n - 1], ids[n], there)]
      BY <2>7, Zenon
    <3>2. Chosen(ids, there) = G[N]
      BY <1>2, Zenon DEF Chosen, Kept, N
    <3> QED BY <3>1, <3>2
  <2>9. g[0] = <<>> /\ \A n \in 1..N : g[n] = Kept(g[n - 1], ids[n], there)
    <3>1. 0 \in 0..N /\ \A n \in 1..N : n \in 0..N /\ n # 0
      BY <2>1
    <3> QED BY <2>8, <3>1
  <2> DEFINE T == {n \in Nat : n <= N => Lists(g[n], up[n])}
  <2>10. 0 \in T
    <3>1. up[0] = {} /\ Lists(<<>>, {})
      BY <2>1 DEF Lists, IsInjective, Range
    <3> QED BY <2>9, <3>1
  <2>11. ASSUME NEW n \in T PROVE n + 1 \in T
    <3>1. n \in Nat /\ n + 1 \in Nat
      OBVIOUS
    <3>2. SUFFICES ASSUME n + 1 <= N PROVE Lists(g[n + 1], up[n + 1])
      BY <3>1
    <3>3. n \in 0..N /\ n + 1 \in 1..N /\ n + 1 \in 0..N /\ (n + 1) - 1 = n /\ n <= N
      BY <2>1, <3>1, <3>2
    <3>4. Lists(g[n], up[n])
      BY <3>3
    <3>5. up[n] \subseteq there /\ up[n + 1] = up[n] \cup ({ids[n + 1]} \cap there)
      <4>1. up[n] = {ids[m] : m \in 1..n} \cap there /\ up[n + 1] = {ids[m] : m \in 1..(n + 1)} \cap there
        BY <3>3
      <4>2. \A m : m \in 1..(n + 1) <=> m \in 1..n \/ m = n + 1
        BY <3>1
      <4> QED BY <4>1, <4>2
    <3>6. g[n + 1] = Kept(g[n], ids[n + 1], there)
      BY <2>9, <3>3
    <3> HIDE DEF up, T
    <3> QED BY <3>4, <3>5, <3>6, KeptLists
  <2>12. T = Nat
    <3>1. T \subseteq Nat
      OBVIOUS
    <3> HIDE DEF T
    <3> QED BY <2>10, <2>11, <3>1, NaturalsBySteps
  <2>13. Lists(g[N], up[N])
    <3>1. N \in T
      <4> HIDE DEF T
      <4> QED BY <2>1, <2>12
    <3>2. N <= N
      BY <2>1
    <3> QED BY <3>1, <3>2
  <2>14. up[N] = ChosenOf(ids, there)
    <3>1. N \in 0..N
      BY <2>1
    <3> QED BY <1>2, <2>1, <3>1 DEF ChosenOf, Range
  <2> QED BY <2>8, <2>13, <2>14
<1> QED BY <1>1, <1>2

\* The first of a sequence, and the others.
LEMMA HeadTail ==
    ASSUME NEW S, NEW q \in Seq(S), q # <<>>
    PROVE  /\ Head(q) \in S /\ Tail(q) \in Seq(S) /\ Range(q) = {Head(q)} \cup Range(Tail(q))
           /\ IsInjective(q) => IsInjective(Tail(q)) /\ Head(q) \notin Range(Tail(q))
<1>1. Len(q) \in Nat \ {0} /\ DOMAIN q = 1..Len(q) /\ Head(q) = q[1]
  OBVIOUS
<1>2. /\ Head(q) \in S /\ Tail(q) \in Seq(S) /\ Len(Tail(q)) = Len(q) - 1
      /\ \A i \in 1..Len(Tail(q)) : Tail(q)[i] = q[i + 1]
  BY HeadTailProperties, Zenon
<1> DEFINE t == Tail(q)
<1>3. DOMAIN t = 1..(Len(q) - 1) /\ \A i \in 1..(Len(q) - 1) : t[i] = q[i + 1]
  BY <1>1, <1>2
<1> HIDE DEF t
<1>4. Range(q) = {Head(q)} \cup Range(t)
  <2>1. \A i \in DOMAIN q : i = 1 \/ (i - 1 \in DOMAIN t /\ t[i - 1] = q[i])
    <3>1. \A i \in 2..Len(q) : i - 1 \in 1..(Len(q) - 1) /\ (i - 1) + 1 = i
      BY <1>1
    <3>2. \A i \in DOMAIN q : i = 1 \/ i \in 2..Len(q)
      BY <1>1
    <3> QED BY <1>3, <3>1, <3>2
  <2>2. \A i \in DOMAIN t : i + 1 \in DOMAIN q /\ t[i] = q[i + 1]
    BY <1>1, <1>3
  <2>3. 1 \in DOMAIN q /\ Head(q) = q[1]
    BY <1>1
  <2> QED BY <2>1, <2>2, <2>3 DEF Range
<1>5. ASSUME IsInjective(q) PROVE IsInjective(t) /\ Head(q) \notin Range(t)
  <2>1. \A i \in DOMAIN t : i + 1 \in DOMAIN q /\ i + 1 # 1 /\ t[i] = q[i + 1] /\ i \in Int
    BY <1>1, <1>3
  <2>2. \A i, j \in DOMAIN t : i + 1 = j + 1 => i = j
    BY <2>1
  <2>3. IsInjective(t)
    BY <1>5, <2>1, <2>2 DEF IsInjective
  <2>4. 1 \in DOMAIN q
    BY <1>1
  <2>5. Head(q) \notin Range(t)
    BY <1>1, <1>5, <2>1, <2>4 DEF IsInjective, Range
  <2> QED BY <2>3, <2>5
<1> QED BY <1>2, <1>4, <1>5 DEF t

-----------------------------------------------------------------------------
(* The pages of a section.                                                 *)

\* A page of the entries lib from position n: entries of lib, those after n among
\* them; it is empty only at the end, and if the server pages, it is a stretch.
PageOf(lib, n, page) ==
    /\ page \in Seq(Items)
    /\ \A i \in DOMAIN page : page[i] \in Range(lib)
    /\ \A j \in DOMAIN lib : n < j /\ j <= n + Len(page) => lib[j] \in Range(page)
    /\ page = <<>> => n >= Len(lib)
    /\ Paged => \A i \in DOMAIN page : n + i \in DOMAIN lib /\ page[i] = lib[n + i]

LEMMA StretchIsPage ==
    ASSUME NEW lib \in Seq(Items), NEW n \in Nat, NEW rest, StretchOf(Items, rest, lib, n + 1, Len(lib)),
           NEW m \in 1..Len(rest), NEW page, StretchOf(Items, page, rest, 1, m)
    PROVE  PageOf(lib, n, page)
<1>1. Len(lib) \in Nat /\ DOMAIN lib = 1..Len(lib) /\ Len(rest) = Len(lib) - n /\ m \in Nat /\ m >= 1 /\ m <= Len(lib) - n
  BY DEF StretchOf
<1>2. page \in Seq(Items) /\ Len(page) = m /\ DOMAIN page = 1..m
  BY <1>1 DEF StretchOf
<1>3. \A i \in 1..m : n + i \in DOMAIN lib /\ page[i] = lib[n + i]
  <2>1. SUFFICES ASSUME NEW i \in 1..m PROVE n + i \in DOMAIN lib /\ page[i] = lib[n + i]
    OBVIOUS
  <2>2. page[i] = rest[i]
    <3>1. i \in 1..(m - 1 + 1) /\ 1 + i - 1 = i
      BY <1>1
    <3>2. page[i] = rest[1 + i - 1]
      BY <3>1 DEF StretchOf
    <3> QED BY <3>1, <3>2
  <2>3. rest[i] = lib[n + i]
    <3>1. i \in 1..(Len(lib) - (n + 1) + 1) /\ n + 1 + i - 1 = n + i
      BY <1>1
    <3>2. rest[i] = lib[n + 1 + i - 1]
      BY <3>1 DEF StretchOf
    <3> QED BY <3>1, <3>2
  <2>4. n + i \in DOMAIN lib
    BY <1>1
  <2> QED BY <2>2, <2>3, <2>4
<1>4. \A j \in DOMAIN lib : n < j /\ j <= n + Len(page) => j - n \in 1..m /\ n + (j - n) = j
  BY <1>1, <1>2
<1>5. \A j \in DOMAIN lib : n < j /\ j <= n + Len(page) => lib[j] \in Range(page)
  BY <1>2, <1>3, <1>4 DEF Range
<1>6. page # <<>>
  BY <1>1, <1>2
<1>7. \A i \in DOMAIN page : page[i] \in Range(lib)
  BY <1>2, <1>3 DEF Range
<1> QED BY <1>2, <1>3, <1>5, <1>6, <1>7 DEF PageOf

\* What the server answers is a page of that kind.
LEMMA PagesFacts ==
    ASSUME NEW s, library[s] \in Seq(Items), start \in Nat, NEW page \in Pages(s)
    PROVE  PageOf(library[s], start, page)
<1> DEFINE lib == library[s]
           rest == SubSeq(lib, start + 1, Len(lib))
<1>1. lib \in Seq(Items) /\ Len(lib) \in Nat /\ DOMAIN lib = 1..Len(lib)
  OBVIOUS
<1>2. CASE ~Paged
  <2>1. page = lib
    BY <1>2 DEF Pages
  <2>2. \A j \in DOMAIN lib : lib[j] \in Range(lib)
    BY DEF Range
  <2> HIDE DEF lib
  <2>3. lib = <<>> => start >= Len(lib)
    BY <1>1
  <2> QED BY <1>1, <1>2, <2>1, <2>2, <2>3 DEF PageOf, lib
<1>3. CASE Paged /\ start + 1 > Len(lib)
  <2>1. rest = <<>>
    <3>1. start + 1 \in Int /\ Len(lib) \in Int
      BY <1>1
    <3> HIDE DEF lib
    <3> QED BY <1>1, <1>3, <3>1, SubSeqEmpty
  <2>2. page = <<>>
    BY <1>3, <2>1 DEF Pages
  <2> HIDE DEF lib, rest
  <2>3. start >= Len(lib) /\ <<>> \in Seq(Items) /\ DOMAIN <<>> = {} /\ Len(<<>>) = 0
    BY <1>1, <1>3
  <2>4. \A j \in DOMAIN lib : ~(start < j)
    BY <1>1, <2>3
  <2> QED BY <2>2, <2>3, <2>4 DEF PageOf, lib
<1>4. CASE Paged /\ start + 1 <= Len(lib)
  <2>1. StretchOf(Items, rest, lib, start + 1, Len(lib))
    <3>1. start + 1 \in Nat \ {0} /\ Len(lib) \in Nat /\ Len(lib) <= Len(lib) /\ start + 1 <= Len(lib) + 1
      BY <1>1, <1>4
    <3> QED BY <1>1, <3>1, Stretch
  <2>2. rest \in Seq(Items) /\ Len(rest) = Len(lib) - start /\ Len(rest) \in Nat /\ rest # <<>>
    <3> HIDE DEF lib, rest
    <3> QED BY <1>1, <1>4, <2>1 DEF StretchOf
  <2>3. PICK n : n \in 1..Clipped(PageSize, Len(rest)) /\ page = SubSeq(rest, 1, n)
    <3>1. page \in {SubSeq(rest, 1, n) : n \in 1..Clipped(PageSize, Len(rest))}
      BY <1>4, <2>2, Zenon DEF Pages
    <3> QED BY <3>1
  <2>4. n \in 1..Len(rest)
    <3> HIDE DEF rest
    <3> QED BY <2>2, <2>3, GenerationAssumption DEF Clipped
  <2>5. StretchOf(Items, page, rest, 1, n)
    <3> HIDE DEF rest
    <3>1. 1 \in Nat \ {0} /\ n \in Nat /\ n <= Len(rest) /\ 1 <= n + 1
      BY <2>2, <2>4
    <3> QED BY <2>2, <2>3, <3>1, Stretch
  <2> HIDE DEF lib, rest
  <2> QED BY <1>1, <2>1, <2>4, <2>5, StretchIsPage DEF lib
<1> QED
  <2> HIDE DEF lib
  <2> QED BY <1>1, <1>2, <1>3, <1>4

\* What a page counts of an entry.
LEMMA ListingFacts ==
    ASSUME NEW page \in Seq(Items), NEW x \in Items
    PROVE  /\ Listing(page)[x] \in Nat
           /\ x \in Empty \/ x \notin Range(page) => Listing(page)[x] = 0
           /\ x \notin Empty /\ x \in Range(page) => Listing(page)[x] > 0
           /\ IsInjective(page) => Listing(page)[x] <= 1
<1> DEFINE D == {i \in DOMAIN page : page[i] = x}
<1>1. Listing(page)[x] = IF x \in Empty THEN 0 ELSE Cardinality(D)
  BY DEF Listing
<1>2. IsFiniteSet(D) /\ Cardinality(D) \in Nat
  <2>1. Len(page) \in Nat /\ DOMAIN page = 1..Len(page)
    OBVIOUS
  <2>2. IsFiniteSet(1..Len(page))
    BY <2>1, FS_Interval
  <2>3. D \subseteq 1..Len(page)
    BY <2>1
  <2>4. IsFiniteSet(D)
    BY <2>2, <2>3, FS_Subset
  <2> QED BY <2>4, FS_CardinalityType
<1>3. Cardinality(D) = 0 <=> D = {}
  BY <1>2, FS_EmptySet
<1>4. D = {} <=> x \notin Range(page)
  BY DEF Range
<1>5. ASSUME IsInjective(page) PROVE Cardinality(D) <= 1
  <2>1. CASE D = {}
    BY <1>3, <2>1
  <2>2. CASE D # {}
    <3>1. PICK i : i \in D
      BY <2>2
    <3>2. D = {i}
      BY <1>5, <3>1 DEF IsInjective
    <3> HIDE DEF D
    <3>3. Cardinality({i}) = 1
      BY FS_Singleton
    <3>4. Cardinality(D) = 1
      BY <3>2, <3>3, Zenon
    <3> QED BY <3>4
  <2> QED BY <2>1, <2>2
<1> HIDE DEF D
<1> QED BY <1>1, <1>2, <1>3, <1>4, <1>5

LEMMA ListingTyped == ASSUME NEW page \in Seq(Items) PROVE Listing(page) \in [Items -> Nat]
<1>1. \A x \in Items : Listing(page)[x] \in Nat
  BY ListingFacts
<1> QED BY <1>1 DEF Listing

\* h is the counts f and g, added up to the bound.
PlusOf(h, f, g) ==
    /\ h \in [Items -> 0..Often]
    /\ \A x \in Items : /\ h[x] >= f[x] /\ h[x] <= f[x] + g[x]
                        /\ h[x] > 0 <=> f[x] > 0 \/ g[x] > 0
                        /\ g[x] <= Often => h[x] >= g[x]

LEMMA PlusFacts ==
    ASSUME NEW f \in [Items -> 0..Often], NEW g \in [Items -> Nat]
    PROVE  PlusOf(Plus(f, g), f, g)
<1>1. \A y \in Items : f[y] \in Nat /\ f[y] <= Often /\ g[y] \in Nat
  BY DEF Often
<1>2. \A y \in Items : /\ Clipped(f[y] + g[y], Often) \in 0..Often
                       /\ Clipped(f[y] + g[y], Often) >= f[y]
                       /\ Clipped(f[y] + g[y], Often) <= f[y] + g[y]
                       /\ Clipped(f[y] + g[y], Often) > 0 <=> f[y] > 0 \/ g[y] > 0
                       /\ g[y] <= Often => Clipped(f[y] + g[y], Often) >= g[y]
  BY <1>1 DEF Clipped, Often
<1>3. Plus(f, g) = [y \in Items |-> Clipped(f[y] + g[y], Often)]
  BY DEF Plus
<1> QED BY <1>2, <1>3 DEF PlusOf

\* The section in hand ends with the page, having been read to its end, or goes on.
Ends(s, page) ==
    /\ start + Len(page) >= Len(library[s])
    /\ Turn(Tail(todo))
    /\ groups' = Plus(groups, Plus(found, Listing(page)))
    /\ whole' = whole \cup {s}

Continues(page) ==
    /\ start' = Advance(page) /\ found' = Plus(found, Listing(page))
    /\ UNCHANGED <<step, todo, groups, steady, cuts, whole>>

LEMMA PageStep ==
    ASSUME ReportTypeOK, Page
    PROVE  /\ Head(todo) \in Sections /\ Tail(todo) \in Seq(Sections)
           /\ \E page : /\ PageOf(library[Head(todo)], start, page)
                        /\ Ends(Head(todo), page) \/ Continues(page)
<1>1. /\ todo \in Seq(Sections) /\ todo # <<>> /\ start \in Nat
      /\ library \in [Sections -> Seq(Items)]
  BY DEF ReportTypeOK, Page
<1>2. PICK s : s = Head(todo)
  OBVIOUS
<1>3. s \in Sections /\ Tail(todo) \in Seq(Sections) /\ library[s] \in Seq(Items)
  BY <1>1, <1>2, HeadTail
<1>4. PICK page \in Pages(s), total \in Totals :
        LET listed == Plus(found, Listing(page)) IN
        IF AtEnd(page, total, s)
        THEN /\ Turn(Tail(todo))
             /\ groups' = Plus(groups, listed)
             /\ whole' = IF start + Len(page) >= Len(library[s]) THEN whole \cup {s} ELSE whole
        ELSE /\ start' = Advance(page) /\ found' = listed
             /\ UNCHANGED <<step, todo, groups, steady, cuts, whole>>
  BY <1>2, Zenon DEF Page
<1>5. PageOf(library[s], start, page)
  BY <1>1, <1>3, PagesFacts
<1>6. AtEnd(page, total, s) => start + Len(page) >= Len(library[s])
  <2>1. Len(page) \in Nat /\ Len(library[s]) \in Nat /\ Cardinality(Items) \in Nat
    BY <1>3, <1>5, GenerationAssumption, FS_CardinalityType DEF PageOf
  <2>2. CASE page = <<>>
    <3>1. Len(page) = 0 /\ start >= Len(library[s])
      BY <1>5, <2>2 DEF PageOf
    <3> QED BY <1>1, <2>1, <3>1
  <2>3. CASE AtEndByTotal(page, total, s)
    BY <1>1, <2>1, <2>3 DEF AtEndByTotal, Advance, Clipped
  <2> QED BY <2>2, <2>3 DEF AtEnd
<1>7. Ends(s, page) \/ Continues(page)
  BY <1>4, <1>6, Zenon DEF Ends, Continues
<1> QED BY <1>2, <1>3, <1>5, <1>7

-----------------------------------------------------------------------------
(* The types of a generation.                                              *)

\* What a section of the library lists: entries of it, each once.
Owns(s, lib) == IsInjective(lib) /\ \A i \in DOMAIN lib : SectionOf[lib[i]] = s

\* On to another section, or past the last.
LEMMA TurnTyped ==
    ASSUME ReportTypeOK, NEW left \in Seq(Sections), Turn(left)
    PROVE  /\ todo' \in Seq(Sections) /\ start' \in 0..Cardinality(Items) /\ found' \in [Items -> 0..Often]
           /\ step' \in {"radarr", "pages"} /\ (step' = "pages" => todo' # <<>>)
           /\ steady' \subseteq Items /\ cuts' \in Nat
<1>1. start' = 0 /\ found' = Never /\ cuts' = 0 /\ todo' = left
  BY DEF Turn
<1>2. Cardinality(Items) \in Nat
  BY GenerationAssumption, FS_CardinalityType
<1>3. Never \in [Items -> 0..Often]
  BY DEF Never, Often
<1>4. step' = IF left = <<>> THEN "radarr" ELSE "pages"
  BY DEF Turn
<1>5. steady' \subseteq Items
  <2>1. CASE left = <<>>
    BY <2>1 DEF Turn
  <2>2. CASE left # <<>>
    <3>1. Head(left) \in Sections
      BY <2>2, HeadTail
    <3>2. library[Head(left)] \in Seq(Items)
      BY <3>1 DEF ReportTypeOK
    <3>3. Range(library[Head(left)]) \subseteq Items
      BY <3>2, RangeOfSeq
    <3> QED BY <2>2, <3>3 DEF Turn
  <2> QED BY <2>1, <2>2
<1> QED BY <1>1, <1>2, <1>3, <1>4, <1>5

\* What is inserted and removed leaves sequences of entries.
LEMMA LibraryTyped ==
    ASSUME ReportTypeOK, LibraryChanges
    PROVE  library' \in [Sections -> Seq(Items)] /\ gone' \subseteq Sections /\ edits' \in 0..Edits
<1>1. /\ library \in [Sections -> Seq(Items)] /\ gone \subseteq Sections /\ edits \in Nat
      /\ edits <= Edits /\ Edits \in Nat
  BY GenerationAssumption DEF ReportTypeOK
<1>2. ASSUME NEW s \in Sections, NEW x \in Items, NEW i \in 1..(Len(library[s]) + 1), Inserted(x, s, i)
      PROVE  library' \in [Sections -> Seq(Items)] /\ gone' \subseteq Sections /\ edits' \in 0..Edits
  <2>1. InsertAt(library[s], i, x) \in Seq(Items)
    BY <1>1, InsertFacts DEF InsertionOf
  <2>2. library' = [library EXCEPT ![s] = InsertAt(library[s], i, x)] /\ gone' = gone /\ edits' = edits + 1 /\ edits < Edits
    BY <1>2 DEF Inserted
  <2>3. library' \in [Sections -> Seq(Items)]
    BY <1>1, <2>1, <2>2
  <2> QED BY <1>1, <2>2, <2>3
<1>3. ASSUME NEW s \in Sections, NEW i \in 1..Len(library[s]), Removed(s, i)
      PROVE  library' \in [Sections -> Seq(Items)] /\ gone' \subseteq Sections /\ edits' \in 0..Edits
  <2>1. RemoveAt(library[s], i) \in Seq(Items)
    BY <1>1, RemoveFacts DEF RemovalOf
  <2>2. library' = [library EXCEPT ![s] = RemoveAt(library[s], i)] /\ gone' = gone /\ edits' = edits + 1 /\ edits < Edits
    BY <1>3 DEF Removed
  <2>3. library' \in [Sections -> Seq(Items)]
    BY <1>1, <2>1, <2>2
  <2> QED BY <1>1, <2>2, <2>3
<1>4. ASSUME NEW s \in Sections, SectionDeleted(s)
      PROVE  library' \in [Sections -> Seq(Items)] /\ gone' \subseteq Sections /\ edits' \in 0..Edits
  BY <1>1, <1>4 DEF SectionDeleted
<1> QED BY <1>2, <1>3, <1>4 DEF LibraryChanges

\* The sections of a generation are listed once each.
LEMMA ChosenTyped ==
    ASSUME ReportTypeOK, NEW left, left = Chosen(asked, Sections \ gone)
    PROVE  Lists(left, ChosenOf(asked, Sections \ gone)) /\ left \in Seq(Sections)
<1>1. asked \in Seq(Range(asked))
  <2>1. CASE asked \in Requests
    BY <2>1, GenerationAssumption, Zenon
  <2>2. CASE asked = <<>>
    BY <2>2
  <2> QED BY <2>1, <2>2, Zenon DEF ReportTypeOK
<1>2. IsFiniteSet(Sections \ gone)
  BY GenerationAssumption, FS_Difference
<1>3. Lists(left, ChosenOf(asked, Sections \ gone))
  BY <1>1, <1>2, ChosenLists
<1>4. left \in Seq(ChosenOf(asked, Sections \ gone)) /\ ChosenOf(asked, Sections \ gone) \subseteq Sections
  BY <1>3 DEF Lists, ChosenOf
<1> QED BY <1>3, <1>4, SeqMonotonic

\* What the section in hand has listed, added to what the finished ones have.
LEMMA PlusFound ==
    ASSUME ReportTypeOK
    PROVE  /\ Plus(groups, found) \in [Items -> 0..Often]
           /\ PlusOf(Plus(groups, found), groups, found)
<1>1. groups \in [Items -> 0..Often] /\ found \in [Items -> 0..Often]
  BY DEF ReportTypeOK
<1>2. found \in [Items -> Nat]
  BY <1>1 DEF Often
<1> QED BY <1>1, <1>2, PlusFacts DEF PlusOf

\* Every step of a report keeps the types.
LEMMA ReportTyped == ASSUME ReportTypeOK, ReportNext PROVE ReportTypeOK'
<1>0. attempt' \in 1..Tries /\ Cardinality(Items) \in Nat
  BY ReportTries, GenerationAssumption, FS_CardinalityType DEF ReportTypeOK
<1>1. CASE Generate
  BY <1>0, <1>1 DEF Generate, ReportTypeOK, Busy, plexVars, scanVars, arrVars, auditVars
<1>2. CASE LibraryChanges
  <2>1. library' \in [Sections -> Seq(Items)] /\ gone' \subseteq Sections /\ edits' \in 0..Edits
    BY <1>2, LibraryTyped
  <2>2. UNCHANGED <<asked, step, scanVars, arrVars, warned, whole, hollow>>
    BY <1>2 DEF LibraryChanges, Inserted, Removed, SectionDeleted, auditVars
  <2>3. steady' \subseteq steady /\ cuts' \in {cuts, cuts + 1} /\ adds' \in {adds, adds + 1}
    BY <1>2 DEF LibraryChanges, Inserted, Removed, SectionDeleted, auditVars
  <2>4. steady' \subseteq Items /\ cuts' \in Nat /\ adds' \in Nat
    BY <2>3 DEF ReportTypeOK
  <2> QED BY <1>0, <2>1, <2>2, <2>4, Zenon DEF ReportTypeOK, scanVars, arrVars
<1>3. CASE Retry \/ PlexFails
  <2>1. UNCHANGED <<plexVars, asked, scanVars, arrVars, auditVars>> /\ step' \in {step, "failed"}
    BY <1>3 DEF Retry, PlexFails
  <2> QED BY <1>0, <1>3, <2>1 DEF Retry, PlexFails, ReportTypeOK, plexVars, scanVars, arrVars, auditVars
<1>4. CASE Resolve
  <2>1. PICK left : left = Chosen(asked, Sections \ gone)
    OBVIOUS
  <2>2. left \in Seq(Sections)
    BY <2>1, ChosenTyped
  <2>3. Turn(left)
    BY <1>4, <2>1, Zenon DEF Resolve
  <2>4. UNCHANGED <<plexVars, asked, groups, arrVars, adds, whole, hollow>> /\ step = "sections"
    BY <1>4, Zenon DEF Resolve
  <2> QED BY <1>0, <2>2, <2>3, <2>4, TurnTyped DEF ReportTypeOK, plexVars, arrVars, Busy
<1>5. CASE Page
  <2>1. PICK page : /\ PageOf(library[Head(todo)], start, page)
                    /\ Ends(Head(todo), page) \/ Continues(page)
    BY <1>5, PageStep
  <2>2. UNCHANGED <<plexVars, asked, arrVars, adds, hollow>> /\ step = "pages"
    BY <1>5, Zenon DEF Page
  <2>3. PICK listed : listed = Plus(found, Listing(page))
    OBVIOUS
  <2>4. listed \in [Items -> 0..Often] /\ Plus(groups, listed) \in [Items -> 0..Often]
    <3>1. Listing(page) \in [Items -> Nat]
      BY <2>1, ListingTyped DEF PageOf
    <3>2. listed \in [Items -> 0..Often]
      BY <2>3, <3>1, PlusFacts DEF ReportTypeOK, PlusOf
    <3>3. listed \in [Items -> Nat]
      BY <3>2 DEF Often
    <3> QED BY <3>2, <3>3, PlusFacts DEF ReportTypeOK, PlusOf
  <2>5. CASE Ends(Head(todo), page)
    <3>1. Head(todo) \in Sections /\ Tail(todo) \in Seq(Sections)
      BY <1>5, PageStep
    <3>2. Turn(Tail(todo)) /\ groups' = Plus(groups, listed) /\ whole' = whole \cup {Head(todo)}
      BY <2>3, <2>5 DEF Ends
    <3> QED BY <1>0, <2>2, <2>4, <3>1, <3>2, TurnTyped DEF ReportTypeOK, plexVars, arrVars, Busy
  <2>6. CASE Continues(page)
    <3>1. start' \in 0..Cardinality(Items)
      <4>1. start \in Nat /\ Len(page) \in Nat
        BY <2>1 DEF ReportTypeOK, PageOf
      <4> QED BY <1>0, <2>6, <4>1 DEF Continues, Advance, Clipped
    <3>2. found' = listed /\ UNCHANGED <<step, todo, groups, steady, cuts, whole>>
      BY <2>3, <2>6 DEF Continues
    <3> QED BY <1>0, <2>2, <2>4, <3>1, <3>2 DEF ReportTypeOK, plexVars, arrVars
  <2> QED BY <2>1, <2>5, <2>6
<1>6. CASE Vanished
  <2>1. Turn(Tail(todo)) /\ UNCHANGED <<plexVars, asked, groups, arrVars, adds, whole, hollow>> /\ step = "pages"
    BY <1>6 DEF Vanished
  <2>2. Tail(todo) \in Seq(Sections)
    BY <2>1, HeadTail DEF ReportTypeOK
  <2> QED BY <1>0, <2>1, <2>2, TurnTyped DEF ReportTypeOK, plexVars, arrVars, Busy
<1>7. CASE RadarrIndexed \/ RadarrSkipped
  BY <1>0, <1>7 DEF RadarrIndexed, RadarrSkipped, ReportTypeOK, plexVars, scanVars, arrVars, auditVars, Busy
<1>8. CASE SeriesListed \/ SonarrSkipped \/ ArrEscapes
  BY <1>0, <1>8 DEF SeriesListed, SonarrSkipped, ArrEscapes, ReportTypeOK, plexVars, scanVars, auditVars, Busy
<1>9. ASSUME NEW s \in Series, EpisodesIndexed(s) PROVE ReportTypeOK'
  BY <1>0, <1>9 DEF EpisodesIndexed, ReportTypeOK, plexVars, scanVars, auditVars, Busy
<1>10. CASE NoSections
  <2>1. /\ Turn(<<>>) /\ UNCHANGED <<plexVars, asked, groups, arrVars, adds, whole>>
        /\ hollow' = Sections
    BY <1>10 DEF NoSections
  <2>2. <<>> \in Seq(Sections) /\ step' = "radarr" /\ step = "sections"
    BY <1>10, <2>1 DEF NoSections, Turn
  <2> QED BY <1>0, <2>1, <2>2, TurnTyped DEF ReportTypeOK, plexVars, arrVars, Busy
<1>11. CASE HollowPage
  <2>1. /\ Turn(Tail(todo)) /\ UNCHANGED <<plexVars, asked, arrVars, adds, whole>> /\ step = "pages"
        /\ groups' = Plus(groups, found) /\ hollow' = hollow \cup {Head(todo)}
    BY <1>11 DEF HollowPage
  <2>2. Tail(todo) \in Seq(Sections) /\ Head(todo) \in Sections
    BY <2>1, HeadTail DEF ReportTypeOK
  <2>3. groups' \in [Items -> 0..Often]
    BY <2>1, PlusFound
  <2> QED BY <1>0, <2>1, <2>2, <2>3, TurnTyped DEF ReportTypeOK, plexVars, arrVars, Busy
<1> QED
  BY <1>1, <1>2, <1>3, <1>4, <1>5, <1>6, <1>7, <1>8, <1>9, <1>10, <1>11 DEF ReportNext, ReportStep

\* Every variable of a call or of a report has its type, whatever the services answer.
THEOREM ClientsTypeCorrect == Spec => []TypeOK
<1>1. Init => TypeOK
  <2> SUFFICES ASSUME Init PROVE TypeOK
    OBVIOUS
  <2>1. Cardinality(Items) \in Nat
    BY GenerationAssumption, FS_CardinalityType
  <2>2. ReportTypeOK
    BY <2>1, TriesPositive, GenerationAssumption DEF Init, ReportInit, ReportTypeOK, Never, Often, Busy
  <2>3. attempt \in 1..Tries
    BY TriesPositive DEF Init, PollInit
  <2>4. authenticated \in BOOLEAN /\ session \in BOOLEAN /\ lapsed \in BOOLEAN
    BY Zenon DEF Init, PollInit
  <2>5. PollTypeOK
    BY <2>3, <2>4 DEF Init, PollInit, PollTypeOK, Stages, Results
  <2> QED BY <2>2, <2>5, Zenon DEF Init, TypeOK
<1>2. TypeOK /\ PollInv /\ PollInv' /\ [Next]_vars => TypeOK'
  <2> SUFFICES ASSUME TypeOK, PollInv', [Next]_vars PROVE TypeOK'
    OBVIOUS
  <2>1. PollTypeOK' /\ attempt' \in 1..Tries
    BY DEF PollInv, PollTypeOK
  <2>2. client' = client
    BY Zenon DEF Next, vars
  <2>3. CASE ReportNext
    BY <2>1, <2>2, <2>3, ReportTyped, Zenon DEF TypeOK
  <2>4. CASE UNCHANGED generation
    BY <2>1, <2>2, <2>4 DEF TypeOK, ReportTypeOK, generation, plexVars, scanVars, arrVars, auditVars
  <2> QED BY <2>3, <2>4, Zenon DEF Next, vars
<1> QED BY <1>1, <1>2, PollInvariant, PTL DEF Spec

-----------------------------------------------------------------------------
(* What has been read of the library.                                      *)

Read == {"pages", "radarr", "sonarr", "episodes", "made"}

\* The sections that are done with, at their end or by an answer without a list.
Over == whole \cup hollow

\* A section lists its own entries, each once.  No section is scanned twice: those
\* still to be read have not been, and what is counted so far is of sections that
\* are over, or of the one in hand.  None is forgotten.
SectionsInv ==
    /\ \A s \in Sections : Owns(s, library[s])
    /\ IsInjective(todo) /\ Range(todo) \cap Over = {}
    /\ step \in {"idle", "sections"} => Over = {} /\ groups = Never
    /\ step \notin {"pages", "failed"} => todo = <<>> /\ found = Never
    /\ step \in Read => ChosenOf(asked, Sections) \subseteq Range(todo) \cup Over \cup gone
    /\ \A x \in Items : groups[x] > 0 => SectionOf[x] \in Over
    /\ step = "pages" => \A x \in Items : found[x] > 0 => SectionOf[x] = Head(todo)

\* A section still lists its own after a change.
LEMMA InsertOwned ==
    ASSUME NEW s, NEW lib \in Seq(Items), Owns(s, lib), NEW x \in Items, SectionOf[x] = s, x \notin Range(lib),
           NEW i \in 1..(Len(lib) + 1), NEW r, r = InsertAt(lib, i, x)
    PROVE  Owns(s, r)
<1>1. /\ r \in Seq(Items) /\ Len(r) = Len(lib) + 1
      /\ \A j \in 1..(Len(lib) + 1) : r[j] = IF j < i THEN lib[j] ELSE IF j = i THEN x ELSE lib[j - 1]
  <2>1. InsertionOf(Items, r, lib, i, x)
    BY InsertFacts, Zenon
  <2> QED BY <2>1, Zenon DEF InsertionOf
<1>2. Len(lib) \in Nat /\ DOMAIN lib = 1..Len(lib) /\ DOMAIN r = 1..(Len(lib) + 1)
  BY <1>1
<1> DEFINE from(j) == IF j < i THEN j ELSE j - 1
<1>3. ASSUME NEW j \in DOMAIN r PROVE \/ j = i /\ r[j] = x
                                      \/ j # i /\ from(j) \in DOMAIN lib /\ r[j] = lib[from(j)] /\ lib[from(j)] # x
  <2>1. j # i => from(j) \in DOMAIN lib
    BY <1>2
  <2>2. j # i => r[j] = lib[from(j)]
    BY <1>1, <1>2
  <2>3. \A k \in DOMAIN lib : lib[k] # x
    BY DEF Range
  <2> HIDE DEF from
  <2> QED BY <1>1, <1>2, <2>1, <2>2, <2>3
<1>4. \A j, k \in DOMAIN r : j # i /\ k # i /\ from(j) = from(k) => j = k
  <2>1. i \in Int /\ \A j \in DOMAIN r : j \in Int
    BY <1>2
  <2> QED BY <2>1
<1> HIDE DEF from
<1>5. IsInjective(r)
  <2>1. SUFFICES ASSUME NEW j \in DOMAIN r, NEW k \in DOMAIN r, r[j] = r[k] PROVE j = k
    BY DEF IsInjective
  <2>2. CASE j = i
    BY <1>3, <2>1, <2>2
  <2>3. CASE j # i
    <3>1. k # i
      BY <1>3, <2>1, <2>3
    <3>2. from(j) \in DOMAIN lib /\ from(k) \in DOMAIN lib /\ lib[from(j)] = lib[from(k)]
      BY <1>3, <2>1, <2>3, <3>1
    <3>3. from(j) = from(k)
      BY <3>2 DEF Owns, IsInjective
    <3> QED BY <1>4, <2>3, <3>1, <3>3
  <2> QED BY <2>2, <2>3
<1>6. \A j \in DOMAIN r : SectionOf[r[j]] = s
  BY <1>3 DEF Owns
<1> QED BY <1>5, <1>6 DEF Owns

LEMMA RemoveOwned ==
    ASSUME NEW s, NEW lib \in Seq(Items), Owns(s, lib), NEW i \in 1..Len(lib), NEW r, r = RemoveAt(lib, i)
    PROVE  Owns(s, r)
<1>1. /\ r \in Seq(Items) /\ Len(r) = Len(lib) - 1
      /\ \A j \in 1..(Len(lib) - 1) : r[j] = IF j < i THEN lib[j] ELSE lib[j + 1]
  <2>1. RemovalOf(Items, r, lib, i)
    BY RemoveFacts, Zenon
  <2> QED BY <2>1, Zenon DEF RemovalOf
<1>2. Len(lib) \in Nat /\ DOMAIN lib = 1..Len(lib) /\ DOMAIN r = 1..(Len(lib) - 1)
  BY <1>1
<1> DEFINE from(j) == IF j < i THEN j ELSE j + 1
<1>3. \A j \in DOMAIN r : from(j) \in DOMAIN lib /\ r[j] = lib[from(j)]
  BY <1>1, <1>2
<1>4. \A j, k \in DOMAIN r : from(j) = from(k) => j = k
  BY <1>2
<1> HIDE DEF from
<1>5. IsInjective(r)
  BY <1>3, <1>4 DEF Owns, IsInjective
<1>6. \A j \in DOMAIN r : SectionOf[r[j]] = s
  BY <1>3 DEF Owns
<1> QED BY <1>5, <1>6 DEF Owns

\* Every section does.
LEMMA LibraryOwned ==
    ASSUME ReportTypeOK, LibraryChanges, \A s \in Sections : Owns(s, library[s])
    PROVE  \A s \in Sections : Owns(s, library'[s])
<1>1. library \in [Sections -> Seq(Items)]
  BY DEF ReportTypeOK
<1>2. ASSUME NEW s \in Sections, NEW x \in Items, NEW i \in 1..(Len(library[s]) + 1), Inserted(x, s, i)
      PROVE  \A t \in Sections : Owns(t, library'[t])
  <2>1. PICK r : r = InsertAt(library[s], i, x)
    OBVIOUS
  <2>2. library' = [library EXCEPT ![s] = r] /\ SectionOf[x] = s /\ x \notin Range(library[s])
    BY <1>2, <2>1 DEF Inserted
  <2>3. Owns(s, r)
    BY <1>1, <2>1, <2>2, InsertOwned
  <2> QED BY <1>1, <2>2, <2>3
<1>3. ASSUME NEW s \in Sections, NEW i \in 1..Len(library[s]), Removed(s, i)
      PROVE  \A t \in Sections : Owns(t, library'[t])
  <2>1. PICK r : r = RemoveAt(library[s], i)
    OBVIOUS
  <2>2. library' = [library EXCEPT ![s] = r]
    BY <1>3, <2>1 DEF Removed
  <2>3. Owns(s, r)
    BY <1>1, <2>1, RemoveOwned
  <2> QED BY <1>1, <2>2, <2>3
<1>4. ASSUME NEW s \in Sections, SectionDeleted(s)
      PROVE  \A t \in Sections : Owns(t, library'[t])
  BY <1>4 DEF SectionDeleted
<1> QED BY <1>2, <1>3, <1>4 DEF LibraryChanges

\* What a page counts belongs to the section in hand.
LEMMA CountedHere ==
    ASSUME ReportTypeOK, SectionsInv, step = "pages", NEW page, PageOf(library[Head(todo)], start, page),
           NEW listed, listed = Plus(found, Listing(page))
    PROVE  /\ listed \in [Items -> 0..Often]
           /\ \A x \in Items : listed[x] > 0 => SectionOf[x] = Head(todo)
<1>1. found \in [Items -> 0..Often] /\ page \in Seq(Items) /\ Listing(page) \in [Items -> Nat]
  BY ListingTyped DEF ReportTypeOK, PageOf
<1>2. Head(todo) \in Sections
  BY HeadTail DEF ReportTypeOK
<1>3. ASSUME NEW x \in Items, Listing(page)[x] > 0 PROVE SectionOf[x] = Head(todo)
  <2>1. x \in Range(page)
    BY <1>1, <1>3, ListingFacts
  <2>2. x \in Range(library[Head(todo)])
    BY <2>1 DEF PageOf, Range
  <2> QED BY <1>2, <2>2 DEF SectionsInv, Owns, Range
<1>4. PlusOf(listed, found, Listing(page))
  BY <1>1, PlusFacts
<1> QED BY <1>3, <1>4 DEF SectionsInv, PlusOf

\* A section that is over, or gone, makes room for the next.
LEMMA NextSection ==
    ASSUME ReportTypeOK, SectionsInv, step = "pages", Turn(Tail(todo)), UNCHANGED <<library, gone, asked>>,
           Over' = Over \cup {Head(todo)} \/ (Over' = Over /\ Head(todo) \in gone),
           \A x \in Items : groups'[x] > 0 => SectionOf[x] \in Over'
    PROVE  SectionsInv'
<1>1. /\ Range(todo) = {Head(todo)} \cup Range(Tail(todo)) /\ IsInjective(Tail(todo))
      /\ Head(todo) \notin Range(Tail(todo)) /\ Tail(todo) \in Seq(Sections)
  BY HeadTail DEF ReportTypeOK, SectionsInv
<1>2. todo' = Tail(todo) /\ found' = Never /\ step' = IF Tail(todo) = <<>> THEN "radarr" ELSE "pages"
  BY DEF Turn
<1>3. IsInjective(todo') /\ Range(todo') \cap Over' = {}
  BY <1>1, <1>2 DEF SectionsInv
<1>4. ChosenOf(asked', Sections) \subseteq Range(todo') \cup Over' \cup gone'
  BY <1>1, <1>2 DEF SectionsInv, Read
<1>5. step' \notin {"pages", "failed"} => todo' = <<>>
  BY <1>2
<1>6. \A x \in Items : ~(found'[x] > 0)
  BY <1>2 DEF Never
<1>7. \A s \in Sections : Owns(s, library'[s])
  BY DEF SectionsInv
<1>8. step' \notin {"idle", "sections"}
  BY <1>2
<1> QED BY <1>2, <1>3, <1>4, <1>5, <1>6, <1>7, <1>8, Zenon DEF SectionsInv

\* Every step of a report preserves that.
LEMMA SectionsStep == ASSUME ReportTypeOK, SectionsInv, ReportNext PROVE SectionsInv'
<1>1. CASE Generate
  BY <1>1 DEF Generate, SectionsInv, Over, Read, plexVars, scanVars, auditVars
<1>2. CASE LibraryChanges
  <2>1. \A s \in Sections : Owns(s, library'[s])
    BY <1>2, LibraryOwned DEF SectionsInv
  <2>2. UNCHANGED <<asked, step, todo, found, groups, whole, hollow>> /\ gone \subseteq gone'
    BY <1>2 DEF LibraryChanges, Inserted, Removed, SectionDeleted, scanVars, auditVars
  <2> QED BY <2>1, <2>2 DEF SectionsInv, Over
<1>3. CASE Retry \/ PlexFails
  <2>1. UNCHANGED <<plexVars, asked, scanVars, auditVars>> /\ step' \in {step, "failed"}
    BY <1>3 DEF Retry, PlexFails
  <2> QED BY <2>1 DEF SectionsInv, Over, Read, plexVars, scanVars, auditVars
<1>4. CASE Resolve
  <2>1. PICK left : left = Chosen(asked, Sections \ gone)
    OBVIOUS
  <2>2. Lists(left, ChosenOf(asked, Sections \ gone))
    BY <2>1, ChosenTyped
  <2>3. IsInjective(left) /\ ChosenOf(asked, Sections) \subseteq Range(left) \cup gone
    BY <2>2 DEF Lists, ChosenOf
  <2>4. todo' = left /\ found' = Never /\ step' = IF left = <<>> THEN "radarr" ELSE "pages"
    BY <1>4, <2>1, Zenon DEF Resolve, Turn
  <2>5. /\ UNCHANGED <<library, gone, asked, groups>> /\ step = "sections"
        /\ Over' = Over
    BY <1>4, Zenon DEF Resolve, plexVars, Over
  <2>6. Over = {} /\ groups = Never
    BY <2>5 DEF SectionsInv
  <2>7. \A x \in Items : ~(found'[x] > 0) /\ ~(groups'[x] > 0)
    BY <2>4, <2>5, <2>6 DEF Never
  <2>8. IsInjective(todo') /\ Range(todo') \cap Over' = {}
    BY <2>3, <2>4, <2>5, <2>6
  <2>9. ChosenOf(asked', Sections) \subseteq Range(todo') \cup Over' \cup gone'
    BY <2>3, <2>4, <2>5
  <2>10. step' \notin {"idle", "sections"} /\ (step' \notin {"pages", "failed"} => todo' = <<>>)
    BY <2>4
  <2>11. \A s \in Sections : Owns(s, library'[s])
    BY <2>5 DEF SectionsInv
  <2> QED BY <2>4, <2>7, <2>8, <2>9, <2>10, <2>11, Zenon DEF SectionsInv
<1>5. CASE Page
  <2>1. PICK page : /\ PageOf(library[Head(todo)], start, page)
                    /\ Ends(Head(todo), page) \/ Continues(page)
    BY <1>5, PageStep
  <2>2. UNCHANGED <<library, gone, asked, hollow>> /\ step = "pages"
    BY <1>5, Zenon DEF Page, plexVars
  <2>3. PICK listed : listed = Plus(found, Listing(page))
    OBVIOUS
  <2>4. listed \in [Items -> 0..Often] /\ \A x \in Items : listed[x] > 0 => SectionOf[x] = Head(todo)
    BY <2>1, <2>2, <2>3, CountedHere
  <2>5. CASE Ends(Head(todo), page)
    <3>1. Turn(Tail(todo)) /\ groups' = Plus(groups, listed) /\ Over' = Over \cup {Head(todo)}
      BY <2>2, <2>3, <2>5 DEF Ends, Over
    <3>2. \A x \in Items : groups'[x] > 0 => SectionOf[x] \in Over'
      <4>1. SUFFICES ASSUME NEW x \in Items, groups'[x] > 0 PROVE SectionOf[x] \in Over'
        OBVIOUS
      <4>2. groups \in [Items -> 0..Often] /\ listed \in [Items -> Nat]
        <5>1. listed \in [Items -> 0..Often]
          BY <2>4
        <5>2. listed \in [Items -> Nat]
          BY <5>1 DEF Often
        <5> QED BY <5>2, Zenon DEF ReportTypeOK
      <4>3. PlusOf(groups', groups, listed)
        BY <3>1, <4>2, PlusFacts
      <4>4. groups[x] > 0 \/ listed[x] > 0
        BY <4>1, <4>3 DEF PlusOf
      <4> QED BY <2>4, <3>1, <4>4 DEF SectionsInv
    <3> QED BY <2>2, <3>1, <3>2, NextSection
  <2>6. CASE Continues(page)
    <3>1. found' = listed /\ UNCHANGED <<step, todo, groups>> /\ Over' = Over
      BY <2>2, <2>3, <2>6 DEF Continues, Over
    <3> QED BY <2>2, <2>4, <3>1 DEF SectionsInv, Read
  <2> QED BY <2>1, <2>5, <2>6
<1>6. CASE Vanished
  <2>1. /\ Turn(Tail(todo)) /\ UNCHANGED <<library, gone, asked, groups>> /\ Over' = Over
        /\ step = "pages" /\ Head(todo) \in gone
    BY <1>6, Zenon DEF Vanished, plexVars, Over
  <2>2. \A x \in Items : groups'[x] > 0 => SectionOf[x] \in Over'
    BY <2>1 DEF SectionsInv
  <2> QED BY <2>1, <2>2, NextSection
<1>7. CASE RadarrIndexed \/ RadarrSkipped
  BY <1>7 DEF RadarrIndexed, RadarrSkipped, SectionsInv, Over, Read, plexVars, scanVars, auditVars
<1>8. CASE SeriesListed \/ SonarrSkipped \/ ArrEscapes
  BY <1>8 DEF SeriesListed, SonarrSkipped, ArrEscapes, SectionsInv, Over, Read, plexVars, scanVars, auditVars
<1>9. ASSUME NEW s \in Series, EpisodesIndexed(s) PROVE SectionsInv'
  BY <1>9 DEF EpisodesIndexed, SectionsInv, Over, Read, plexVars, scanVars, auditVars
<1>10. CASE NoSections
  <2>1. /\ todo' = <<>> /\ found' = Never /\ step' = "radarr" /\ step = "sections"
        /\ UNCHANGED <<library, gone, asked, groups>> /\ Over' = whole \cup Sections
    BY <1>10 DEF NoSections, Turn, plexVars, Over
  <2>2. \A x \in Items : ~(found'[x] > 0) /\ ~(groups'[x] > 0)
    BY <2>1 DEF Never, SectionsInv
  <2>3. ChosenOf(asked', Sections) \subseteq Over' /\ Range(todo') = {} /\ IsInjective(todo')
    BY <2>1 DEF ChosenOf, Range, IsInjective
  <2>4. \A s \in Sections : Owns(s, library'[s])
    BY <2>1 DEF SectionsInv
  <2> QED BY <2>1, <2>2, <2>3, <2>4 DEF SectionsInv, Read
<1>11. CASE HollowPage
  <2>1. /\ Turn(Tail(todo)) /\ UNCHANGED <<library, gone, asked>> /\ step = "pages"
        /\ groups' = Plus(groups, found) /\ Over' = Over \cup {Head(todo)}
    BY <1>11 DEF HollowPage, plexVars, Over
  <2>2. \A x \in Items : groups'[x] > 0 => SectionOf[x] \in Over'
    BY <2>1, PlusFound DEF PlusOf, SectionsInv
  <2> QED BY <2>1, <2>2, NextSection
<1> QED
  BY <1>1, <1>2, <1>3, <1>4, <1>5, <1>6, <1>7, <1>8, <1>9, <1>10, <1>11 DEF ReportNext, ReportStep

LEMMA SectionsInvariant == Spec => []SectionsInv
<1>1. Init => SectionsInv
  <2> SUFFICES ASSUME Init PROVE SectionsInv
    OBVIOUS
  <2>1. \A s \in Sections : Owns(s, library[s])
    BY GenerationAssumption, Zenon DEF Init, ReportInit, Owns
  <2>2. IsInjective(todo) /\ Range(todo) \cap Over = {}
    BY DEF Init, ReportInit, IsInjective, Over
  <2> QED BY <2>1, <2>2 DEF Init, ReportInit, SectionsInv, Never, Read, Over
<1>2. SectionsInv /\ TypeOK /\ [Next]_vars => SectionsInv'
  <2> SUFFICES ASSUME SectionsInv, TypeOK, [Next]_vars PROVE SectionsInv'
    OBVIOUS
  <2>1. CASE ReportNext
    BY <2>1, SectionsStep DEF TypeOK
  <2>2. CASE UNCHANGED generation
    BY <2>2 DEF SectionsInv, Over, generation, plexVars, scanVars, auditVars
  <2> QED BY <2>1, <2>2, Zenon DEF Next, vars
<1> QED BY <1>1, <1>2, ClientsTypeCorrect, PTL DEF Spec

\* No error leaves part of a section in a report: it has read each one it was asked
\* for to its end, unless Plex says that it is gone or answers without a list.
THEOREM ReportIsWhole == Spec => []NoPartialReport
<1>1. SectionsInv => NoPartialReport
  <2> SUFFICES ASSUME SectionsInv, step = "made" PROVE
        /\ (IF asked = <<>> THEN Sections ELSE Range(asked) \cap Sections) \subseteq whole \cup gone \cup hollow
        /\ \A x \in Items : groups[x] > 0 => SectionOf[x] \in whole \cup hollow
    BY DEF NoPartialReport
  <2>1. Range(todo) = {}
    BY DEF SectionsInv, Range
  <2> QED BY <2>1 DEF SectionsInv, Over, Read, ChosenOf
<1> QED BY <1>1, SectionsInvariant, PTL

-----------------------------------------------------------------------------
(* What is missed.                                                         *)

LEMMA SubsetCounted ==
    ASSUME NEW S, IsFiniteSet(S), NEW T, T \subseteq S
    PROVE  Cardinality(T) \in Nat /\ Cardinality(S) \in Nat /\ Cardinality(T) <= Cardinality(S)
  BY FS_Subset, FS_CardinalityType

LEMMA OneMoreCounted ==
    ASSUME NEW S, IsFiniteSet(S), NEW z, NEW T, T \subseteq S \cup {z}
    PROVE  Cardinality(T) \in Nat /\ Cardinality(S) \in Nat /\ Cardinality(T) <= Cardinality(S) + 1
<1>1. IsFiniteSet(S \cup {z}) /\ Cardinality(S \cup {z}) <= Cardinality(S) + 1 /\ Cardinality(S) \in Nat
  <2>1. /\ IsFiniteSet(S \cup {z})
        /\ Cardinality(S \cup {z}) = IF z \in S THEN Cardinality(S) ELSE Cardinality(S) + 1
    BY FS_AddElement, Zenon
  <2>2. Cardinality(S) \in Nat
    BY FS_CardinalityType
  <2> QED BY <2>1, <2>2
<1>2. Cardinality(T) \in Nat /\ Cardinality(S \cup {z}) \in Nat /\ Cardinality(T) <= Cardinality(S \cup {z})
  BY <1>1, SubsetCounted
<1> QED BY <1>1, <1>2

\* What stands in the sequence q up to position n, and beyond it.
Before(q, n) == {x \in Range(q) : \E i \in DOMAIN q : i <= n /\ q[i] = x}
After(q, n) == {x \in Range(q) : \E i \in DOMAIN q : i > n /\ q[i] = x}

\* T has one member at most that S has not.
OneMore(T, S) == \E z : T \subseteq S \cup {z}

\* Inserting moves one entry across a position, and none back ...
LEMMA InsertMoves ==
    ASSUME NEW lib \in Seq(Items), NEW x \in Items, x \notin Range(lib), NEW i \in 1..(Len(lib) + 1),
           NEW r, r = InsertAt(lib, i, x), NEW n \in Nat
    PROVE  /\ Range(lib) \subseteq Range(r) /\ Before(r, n) \cap Range(lib) \subseteq Before(lib, n)
           /\ OneMore(After(r, n), After(lib, n))
<1>1. /\ r \in Seq(Items) /\ Len(r) = Len(lib) + 1
      /\ \A j \in 1..(Len(lib) + 1) : r[j] = IF j < i THEN lib[j] ELSE IF j = i THEN x ELSE lib[j - 1]
  <2>1. InsertionOf(Items, r, lib, i, x)
    BY InsertFacts, Zenon
  <2> QED BY <2>1, Zenon DEF InsertionOf
<1>2. Len(lib) \in Nat /\ DOMAIN lib = 1..Len(lib) /\ DOMAIN r = 1..(Len(lib) + 1)
  BY <1>1
<1>3. \A k \in DOMAIN lib : \E j \in DOMAIN r : r[j] = lib[k]
  <2>1. SUFFICES ASSUME NEW k \in DOMAIN lib PROVE \E j \in DOMAIN r : r[j] = lib[k]
    OBVIOUS
  <2>2. CASE k < i
    BY <1>1, <1>2, <2>2
  <2>3. CASE ~(k < i)
    <3>1. k + 1 \in DOMAIN r /\ r[k + 1] = lib[k]
      BY <1>1, <1>2, <2>3
    <3> QED BY <3>1
  <2> QED BY <2>2, <2>3
<1>4. \A j \in DOMAIN r : r[j] # x => \E k \in DOMAIN lib : lib[k] = r[j] /\ k <= j /\ (k = j \/ k + 1 = j)
  <2>1. SUFFICES ASSUME NEW j \in DOMAIN r, r[j] # x
                 PROVE  \E k \in DOMAIN lib : lib[k] = r[j] /\ k <= j /\ (k = j \/ k + 1 = j)
    OBVIOUS
  <2>2. CASE j < i
    BY <1>1, <1>2, <2>2
  <2>3. CASE ~(j < i)
    <3>1. j # i
      BY <1>1, <1>2, <2>1
    <3>2. j - 1 \in DOMAIN lib /\ lib[j - 1] = r[j] /\ j - 1 <= j /\ (j - 1) + 1 = j
      BY <1>1, <1>2, <2>3, <3>1
    <3> QED BY <3>2
  <2> QED BY <2>2, <2>3
<1>5. Range(lib) \subseteq Range(r)
  BY <1>3 DEF Range
<1>6. Before(r, n) \cap Range(lib) \subseteq Before(lib, n)
  <2>1. SUFFICES ASSUME NEW j \in DOMAIN r, j <= n, r[j] \in Range(lib)
                 PROVE  \E k \in DOMAIN lib : k <= n /\ lib[k] = r[j]
    BY DEF Before
  <2>2. PICK k \in DOMAIN lib : lib[k] = r[j] /\ k <= j
    BY <1>4, <2>1
  <2> QED BY <1>2, <2>1, <2>2
<1> DEFINE z == IF i > n THEN x ELSE r[n + 1]
<1>7. After(r, n) \subseteq After(lib, n) \cup {z}
  <2>1. SUFFICES ASSUME NEW j \in DOMAIN r, j > n, r[j] # z
                 PROVE  \E k \in DOMAIN lib : k > n /\ lib[k] = r[j]
    BY DEF After, Range
  <2>2. CASE i > n
    <3>1. r[j] # x
      BY <2>1, <2>2
    <3>2. CASE j < i
      BY <1>1, <1>2, <2>1, <3>2
    <3>3. CASE ~(j < i)
      <4>1. j # i
        BY <1>1, <1>2, <3>1
      <4>2. j - 1 \in DOMAIN lib /\ lib[j - 1] = r[j] /\ j - 1 > n
        BY <1>1, <1>2, <2>2, <3>3, <4>1
      <4> QED BY <4>2
    <3> QED BY <3>2, <3>3
  <2>3. CASE ~(i > n)
    <3>1. j # n + 1
      BY <2>1, <2>3
    <3>2. j - 1 \in DOMAIN lib /\ lib[j - 1] = r[j] /\ j - 1 > n
      BY <1>1, <1>2, <2>1, <2>3, <3>1
    <3> QED BY <3>2
  <2> QED BY <2>2, <2>3
<1> QED BY <1>5, <1>6, <1>7 DEF OneMore

\* ... and removing moves one back, and none across.
LEMMA RemoveMoves ==
    ASSUME NEW lib \in Seq(Items), NEW i \in 1..Len(lib), NEW r, r = RemoveAt(lib, i), NEW n \in Nat
    PROVE  /\ Range(lib) \ {lib[i]} \subseteq Range(r) /\ After(r, n) \subseteq After(lib, n)
           /\ OneMore(Before(r, n), Before(lib, n))
<1>1. /\ r \in Seq(Items) /\ Len(r) = Len(lib) - 1
      /\ \A j \in 1..(Len(lib) - 1) : r[j] = IF j < i THEN lib[j] ELSE lib[j + 1]
  <2>1. RemovalOf(Items, r, lib, i)
    BY RemoveFacts, Zenon
  <2> QED BY <2>1, Zenon DEF RemovalOf
<1>2. Len(lib) \in Nat /\ DOMAIN lib = 1..Len(lib) /\ DOMAIN r = 1..(Len(lib) - 1)
  BY <1>1
<1>3. \A k \in DOMAIN lib : k # i => \E j \in DOMAIN r : r[j] = lib[k]
  <2>1. SUFFICES ASSUME NEW k \in DOMAIN lib, k # i PROVE \E j \in DOMAIN r : r[j] = lib[k]
    OBVIOUS
  <2>2. CASE k < i
    BY <1>1, <1>2, <2>2
  <2>3. CASE ~(k < i)
    <3>1. k - 1 \in DOMAIN r /\ r[k - 1] = lib[k]
      BY <1>1, <1>2, <2>1, <2>3
    <3> QED BY <3>1
  <2> QED BY <2>2, <2>3
<1>4. \A j \in DOMAIN r : \E k \in DOMAIN lib : lib[k] = r[j] /\ k >= j /\ k <= j + 1
  <2>1. SUFFICES ASSUME NEW j \in DOMAIN r
                 PROVE  \E k \in DOMAIN lib : lib[k] = r[j] /\ k >= j /\ k <= j + 1
    OBVIOUS
  <2>2. CASE j < i
    BY <1>1, <1>2, <2>2
  <2>3. CASE ~(j < i)
    <3>1. j + 1 \in DOMAIN lib /\ lib[j + 1] = r[j] /\ j + 1 >= j /\ j + 1 <= j + 1
      BY <1>1, <1>2, <2>3
    <3> QED BY <3>1
  <2> QED BY <2>2, <2>3
<1>5. Range(lib) \ {lib[i]} \subseteq Range(r)
  BY <1>3 DEF Range
<1>6. After(r, n) \subseteq After(lib, n)
  <2>1. SUFFICES ASSUME NEW j \in DOMAIN r, j > n PROVE \E k \in DOMAIN lib : k > n /\ lib[k] = r[j]
    BY DEF After, Range
  <2>2. PICK k \in DOMAIN lib : lib[k] = r[j] /\ k >= j
    BY <1>4
  <2> QED BY <1>2, <2>1, <2>2
<1>7. Before(r, n) \subseteq Before(lib, n) \cup {lib[n + 1]}
  <2>1. SUFFICES ASSUME NEW j \in DOMAIN r, j <= n, r[j] # lib[n + 1]
                 PROVE  \E k \in DOMAIN lib : k <= n /\ lib[k] = r[j]
    BY DEF Before, Range
  <2>2. PICK k \in DOMAIN lib : lib[k] = r[j] /\ k <= j + 1
    BY <1>4
  <2>3. k # n + 1
    BY <2>1, <2>2
  <2> QED BY <1>2, <2>1, <2>2, <2>3
<1> QED BY <1>5, <1>6, <1>7 DEF OneMore

\* Entries that have stayed, stand at or before position n and have not been listed.
Skipped(lib, n, f, stayed) == {x \in (stayed \ Empty) \cap Before(lib, n) : f[x] = 0}

\* What has stayed is still listed, and as much as has been removed was skipped at most.
CutInv ==
    step = "pages" =>
        /\ steady \subseteq Range(library[Head(todo)])
        /\ Cardinality(Skipped(library[Head(todo)], start, found, steady)) <= cuts

\* The entry of position i that no page has listed up to the end of this one was skipped.
LEMMA Unlisted ==
    ASSUME NEW lib, NEW n \in Nat, NEW page, PageOf(lib, n, page), NEW x \in Items \ Empty,
           Listing(page)[x] = 0, NEW i \in DOMAIN lib, i \in Nat, lib[i] = x, i <= n + Len(page)
    PROVE  i <= n
<1>1. page \in Seq(Items) /\ x \notin Range(page)
  BY ListingFacts DEF PageOf
<1>2. n < i => x \in Range(page)
  BY DEF PageOf
<1> QED BY <1>1, <1>2

\* A new section has nothing skipped.
LEMMA TurnCut ==
    ASSUME ReportTypeOK, NEW left \in Seq(Sections), Turn(left), library' = library
    PROVE  CutInv'
<1>1. SUFFICES ASSUME step' = "pages"
               PROVE  /\ steady' \subseteq Range(library'[Head(todo')])
                      /\ Cardinality(Skipped(library'[Head(todo')], start', found', steady')) <= cuts'
  BY DEF CutInv
<1>2. left # <<>> /\ todo' = left /\ start' = 0 /\ cuts' = 0 /\ steady' = Range(library[Head(left)])
  BY <1>1 DEF Turn
<1>3. library[Head(left)] \in Seq(Items)
  BY <1>2, HeadTail DEF ReportTypeOK
<1>4. \A i \in DOMAIN library[Head(left)] : ~(i <= 0)
  BY <1>3
<1>5. Skipped(library'[Head(todo')], start', found', steady') = {}
  BY <1>2, <1>4 DEF Skipped, Before
<1>6. Cardinality(Skipped(library'[Head(todo')], start', found', steady')) = 0
  BY <1>5, FS_EmptySet, Zenon
<1>7. steady' \subseteq Range(library'[Head(todo')])
  BY <1>2
<1> QED BY <1>2, <1>6, <1>7

\* After a page, no other entry has been skipped; at the end of the section, no
\* other entry that has stayed is missed.
LEMMA PageCut ==
    ASSUME ReportTypeOK, CutInv, step = "pages", NEW page, PageOf(library[Head(todo)], start, page),
           NEW listed, listed = Plus(found, Listing(page))
    PROVE  /\ \A n \in Nat : n <= start + Len(page) =>
                Cardinality(Skipped(library[Head(todo)], n, listed, steady)) <= cuts
           /\ start + Len(page) >= Len(library[Head(todo)]) =>
                Cardinality({x \in steady \ Empty : listed[x] = 0}) <= cuts
<1> DEFINE lib == library[Head(todo)]
           S == Skipped(lib, start, found, steady)
<1>1. /\ lib \in Seq(Items) /\ start \in Nat /\ steady \subseteq Items /\ steady \subseteq Range(lib) /\ cuts \in Nat
      /\ found \in [Items -> 0..Often] /\ page \in Seq(Items) /\ Len(page) \in Nat
  BY HeadTail DEF ReportTypeOK, CutInv, PageOf
<1>2. Listing(page) \in [Items -> Nat]
  BY <1>1, ListingTyped
<1>3. PlusOf(listed, found, Listing(page))
  BY <1>1, <1>2, PlusFacts
<1>4. Cardinality(S) <= cuts /\ IsFiniteSet(S)
  <2>1. S \subseteq Items
    BY <1>1 DEF Skipped
  <2> QED BY <2>1, GenerationAssumption, FS_Subset DEF CutInv
<1> HIDE DEF lib
<1>5. Len(lib) \in Nat /\ DOMAIN lib = 1..Len(lib)
  BY <1>1
<1>6. ASSUME NEW x \in steady \ Empty, listed[x] = 0, NEW i \in DOMAIN lib, lib[i] = x, i <= start + Len(page)
      PROVE  x \in S
  <2>1. x \in Items \ Empty /\ i \in Nat
    BY <1>1, <1>5
  <2>2. found[x] = 0 /\ Listing(page)[x] = 0
    <3>1. found[x] \in Nat /\ Listing(page)[x] \in Nat
      <4>1. found \in [Items -> Nat]
        BY <1>1 DEF Often
      <4> QED BY <1>2, <2>1, <4>1
    <3>2. ~(found[x] > 0) /\ ~(Listing(page)[x] > 0)
      BY <1>3, <1>6, <2>1 DEF PlusOf
    <3> QED BY <3>1, <3>2
  <2>3. i <= start
    BY <1>1, <1>6, <2>1, <2>2, Unlisted DEF lib
  <2> QED BY <1>1, <1>6, <2>2, <2>3 DEF Skipped, Before
<1>7. ASSUME NEW n \in Nat, n <= start + Len(page) PROVE Cardinality(Skipped(lib, n, listed, steady)) <= cuts
  <2>1. \A i \in DOMAIN lib : i <= n => i <= start + Len(page)
    BY <1>1, <1>5, <1>7
  <2>2. Skipped(lib, n, listed, steady) \subseteq S
    <3>1. SUFFICES ASSUME NEW x \in Skipped(lib, n, listed, steady) PROVE x \in S
      OBVIOUS
    <3> HIDE DEF S
    <3> QED BY <1>6, <2>1 DEF Skipped, Before
  <2> HIDE DEF S
  <2>3. PICK T : T = Skipped(lib, n, listed, steady)
    OBVIOUS
  <2>4. Cardinality(T) \in Nat /\ Cardinality(S) \in Nat /\ Cardinality(T) <= Cardinality(S)
    BY <1>4, <2>2, <2>3, SubsetCounted
  <2> QED BY <1>1, <1>4, <2>3, <2>4
<1>8. ASSUME start + Len(page) >= Len(lib)
      PROVE  Cardinality({x \in steady \ Empty : listed[x] = 0}) <= cuts
  <2>1. \A i \in DOMAIN lib : i <= start + Len(page)
    BY <1>1, <1>5, <1>8
  <2>2. PICK T : T = {x \in steady \ Empty : listed[x] = 0}
    OBVIOUS
  <2> HIDE DEF S
  <2>3. T \subseteq S
    BY <1>1, <1>6, <2>1, <2>2 DEF Range
  <2>4. Cardinality(T) \in Nat /\ Cardinality(S) \in Nat /\ Cardinality(T) <= Cardinality(S)
    BY <1>4, <2>3, SubsetCounted
  <2> QED BY <1>1, <1>4, <2>2, <2>4
<1> QED BY <1>7, <1>8 DEF lib

\* Only the section in hand is counted: what happens to another, or elsewhere, changes
\* nothing that stands there.
LEMMA CutInsert ==
    ASSUME ReportTypeOK, CutInv, NEW s \in Sections, NEW x \in Items, NEW i \in 1..(Len(library[s]) + 1),
           Inserted(x, s, i)
    PROVE  CutInv'
<1>1. SUFFICES ASSUME step' = "pages"
               PROVE  /\ steady' \subseteq Range(library'[Head(todo')])
                      /\ Cardinality(Skipped(library'[Head(todo')], start', found', steady')) <= cuts'
  BY DEF CutInv
<1>2. PICK r : r = InsertAt(library[s], i, x)
  OBVIOUS
<1>3. /\ library' = [library EXCEPT ![s] = r] /\ x \notin Range(library[s])
      /\ UNCHANGED <<step, todo, start, found, steady, cuts>>
  BY <1>2 DEF Inserted, scanVars
<1>4. PICK h : h = Head(todo)
  OBVIOUS
<1>5. /\ h \in Sections /\ library \in [Sections -> Seq(Items)] /\ start \in Nat /\ cuts \in Nat
      /\ steady \subseteq Items
  BY <1>1, <1>3, <1>4, HeadTail DEF ReportTypeOK
<1>6. /\ steady \subseteq Range(library[h]) /\ Cardinality(Skipped(library[h], start, found, steady)) <= cuts
      /\ IsFiniteSet(Skipped(library[h], start, found, steady))
  <2>1. Skipped(library[h], start, found, steady) \subseteq Items
    BY <1>5 DEF Skipped
  <2>2. IsFiniteSet(Skipped(library[h], start, found, steady))
    BY <2>1, GenerationAssumption, FS_Subset
  <2> QED BY <1>1, <1>3, <1>4, <2>2 DEF CutInv
<1>7. CASE s # h
  <2>1. library'[h] = library[h]
    BY <1>3, <1>5, <1>7
  <2> QED BY <1>3, <1>4, <1>6, <2>1
<1>8. CASE s = h
  <2>1. library'[h] = r
    BY <1>3, <1>5, <1>8
  <2>2. Range(library[h]) \subseteq Range(r) /\ Before(r, start) \cap Range(library[h]) \subseteq Before(library[h], start)
    BY <1>2, <1>3, <1>5, <1>8, InsertMoves
  <2>3. Skipped(r, start, found, steady) \subseteq Skipped(library[h], start, found, steady)
    BY <1>6, <2>2 DEF Skipped
  <2>4. /\ Cardinality(Skipped(r, start, found, steady)) \in Nat
        /\ Cardinality(Skipped(library[h], start, found, steady)) \in Nat
        /\ Cardinality(Skipped(r, start, found, steady)) <= Cardinality(Skipped(library[h], start, found, steady))
    BY <1>6, <2>3, SubsetCounted, Zenon
  <2>5. Cardinality(Skipped(r, start, found, steady)) <= cuts
    BY <1>5, <1>6, <2>4
  <2>6. steady \subseteq Range(r)
    BY <1>6, <2>2
  <2> QED BY <1>3, <1>4, <2>1, <2>5, <2>6
<1> QED BY <1>7, <1>8

LEMMA CutRemove ==
    ASSUME ReportTypeOK, CutInv, NEW s \in Sections, NEW i \in 1..Len(library[s]), Removed(s, i)
    PROVE  CutInv'
<1>1. SUFFICES ASSUME step' = "pages"
               PROVE  /\ steady' \subseteq Range(library'[Head(todo')])
                      /\ Cardinality(Skipped(library'[Head(todo')], start', found', steady')) <= cuts'
  BY DEF CutInv
<1>2. PICK r : r = RemoveAt(library[s], i)
  OBVIOUS
<1>3. library' = [library EXCEPT ![s] = r] /\ UNCHANGED <<step, todo, start, found>>
  BY <1>2 DEF Removed, scanVars
<1>4. PICK h : h = Head(todo)
  OBVIOUS
<1>5. /\ h \in Sections /\ library \in [Sections -> Seq(Items)] /\ start \in Nat /\ cuts \in Nat
      /\ steady \subseteq Items
  BY <1>1, <1>3, <1>4, HeadTail DEF ReportTypeOK
<1>6. /\ steady \subseteq Range(library[h]) /\ Cardinality(Skipped(library[h], start, found, steady)) <= cuts
      /\ IsFiniteSet(Skipped(library[h], start, found, steady))
  <2>1. Skipped(library[h], start, found, steady) \subseteq Items
    BY <1>5 DEF Skipped
  <2>2. IsFiniteSet(Skipped(library[h], start, found, steady))
    BY <2>1, GenerationAssumption, FS_Subset
  <2> QED BY <1>1, <1>3, <1>4, <2>2 DEF CutInv
<1>7. CASE s # h
  <2>1. library'[h] = library[h] /\ UNCHANGED <<cuts, steady>>
    BY <1>3, <1>4, <1>5, <1>7 DEF Removed, Reading
  <2> QED BY <1>3, <1>4, <1>6, <2>1
<1>8. CASE s = h
  <2>1. library'[h] = r /\ cuts' = cuts + 1 /\ steady' = steady \ {library[h][i]}
    BY <1>1, <1>3, <1>4, <1>5, <1>8 DEF Removed, Reading
  <2>2. PICK z : /\ Range(library[h]) \ {library[h][i]} \subseteq Range(r)
                 /\ Before(r, start) \subseteq Before(library[h], start) \cup {z}
    <3>1. library[h] \in Seq(Items) /\ i \in 1..Len(library[h]) /\ r = RemoveAt(library[h], i)
      BY <1>2, <1>5, <1>8
    <3>2. PICK lib : lib = library[h]
      OBVIOUS
    <3>3. lib \in Seq(Items) /\ i \in 1..Len(lib) /\ r = RemoveAt(lib, i) /\ start \in Nat
      BY <1>5, <3>1, <3>2
    <3>4. /\ Range(lib) \ {lib[i]} \subseteq Range(r)
          /\ OneMore(Before(r, start), Before(lib, start))
      BY <3>3, RemoveMoves
    <3> QED BY <3>2, <3>4 DEF OneMore
  <2>3. Skipped(r, start, found, steady') \subseteq Skipped(library[h], start, found, steady) \cup {z}
    BY <2>1, <2>2 DEF Skipped
  <2>4. /\ Cardinality(Skipped(r, start, found, steady')) \in Nat
        /\ Cardinality(Skipped(library[h], start, found, steady)) \in Nat
        /\ Cardinality(Skipped(r, start, found, steady'))
             <= Cardinality(Skipped(library[h], start, found, steady)) + 1
    BY <1>6, <2>3, OneMoreCounted, Zenon
  <2>5. Cardinality(Skipped(r, start, found, steady')) <= cuts'
    <3>1. Cardinality(Skipped(library[h], start, found, steady)) <= cuts /\ cuts \in Nat
      BY <1>5, <1>6, Zenon
    <3> QED BY <2>1, <2>4, <3>1
  <2>6. steady' \subseteq Range(r)
    BY <1>6, <2>1, <2>2
  <2> QED BY <1>3, <1>4, <2>1, <2>5, <2>6
<1> QED BY <1>7, <1>8

\* Where no section is in hand, there is nothing to count.
LEMMA CutStep == ASSUME ReportTypeOK, CutInv, ReportNext PROVE CutInv'
<1>1. CASE Generate \/ RadarrIndexed \/ RadarrSkipped \/ SeriesListed \/ SonarrSkipped \/ ArrEscapes \/ NoSections
  <2>1. step' # "pages"
    BY <1>1 DEF Generate, RadarrIndexed, RadarrSkipped, SeriesListed, SonarrSkipped, ArrEscapes, NoSections, Turn
  <2> QED BY <2>1 DEF CutInv
<1>2. ASSUME NEW s \in Series, EpisodesIndexed(s) PROVE CutInv'
  <2>1. step' # "pages"
    BY <1>2 DEF EpisodesIndexed
  <2> QED BY <2>1 DEF CutInv
<1>3. CASE Retry \/ PlexFails
  <2>1. UNCHANGED <<plexVars, scanVars, auditVars>> /\ step' \in {step, "failed"}
    BY <1>3 DEF Retry, PlexFails
  <2> QED BY <2>1 DEF CutInv, plexVars, scanVars, auditVars
<1>4. CASE Resolve
  <2>1. PICK left : left = Chosen(asked, Sections \ gone)
    OBVIOUS
  <2>2. left \in Seq(Sections)
    BY <2>1, ChosenTyped
  <2> QED BY <1>4, <2>1, <2>2, TurnCut DEF Resolve, plexVars
<1>5. CASE Page
  <2>1. Tail(todo) \in Seq(Sections) /\ step = "pages" /\ library' = library
    BY <1>5, PageStep DEF Page, plexVars
  <2>2. PICK page : /\ PageOf(library[Head(todo)], start, page)
                    /\ Ends(Head(todo), page) \/ Continues(page)
    BY <1>5, PageStep
  <2>3. CASE Ends(Head(todo), page)
    BY <2>1, <2>3, TurnCut DEF Ends
  <2>4. CASE Continues(page)
    <3>1. PICK listed : listed = Plus(found, Listing(page))
      OBVIOUS
    <3>2. /\ start' = Advance(page) /\ found' = listed
          /\ UNCHANGED <<step, todo, steady, cuts>>
      BY <2>4, <3>1 DEF Continues
    <3>3. start' \in Nat /\ start' <= start + Len(page)
      <4>1. Len(page) \in Nat /\ start \in Nat /\ Cardinality(Items) \in Nat
        BY <2>2, GenerationAssumption, FS_CardinalityType DEF PageOf, ReportTypeOK
      <4> QED BY <3>2, <4>1 DEF Advance, Clipped
    <3>4. Cardinality(Skipped(library[Head(todo)], start', listed, steady)) <= cuts
      BY <2>1, <2>2, <3>1, <3>3, PageCut
    <3> QED BY <2>1, <3>2, <3>4 DEF CutInv
  <2> QED BY <2>2, <2>3, <2>4
<1>6. CASE Vanished \/ HollowPage
  <2>1. Tail(todo) \in Seq(Sections)
    BY <1>6, HeadTail DEF Vanished, HollowPage, ReportTypeOK
  <2> QED BY <1>6, <2>1, TurnCut DEF Vanished, HollowPage, plexVars
<1>7. ASSUME NEW s \in Sections, SectionDeleted(s) PROVE CutInv'
  BY <1>7 DEF SectionDeleted, CutInv, scanVars, auditVars
<1> QED
  BY <1>1, <1>2, <1>3, <1>4, <1>5, <1>6, <1>7, CutInsert, CutRemove
     DEF ReportNext, ReportStep, LibraryChanges

LEMMA CutInvariant == Spec => []CutInv
<1>1. Init => CutInv
  BY DEF Init, ReportInit, CutInv
<1>2. CutInv /\ TypeOK /\ [Next]_vars => CutInv'
  <2> SUFFICES ASSUME CutInv, TypeOK, [Next]_vars PROVE CutInv'
    OBVIOUS
  <2>1. CASE ReportNext
    BY <2>1, CutStep DEF TypeOK
  <2>2. CASE UNCHANGED generation
    BY <2>2 DEF CutInv, generation, plexVars, scanVars, auditVars
  <2> QED BY <2>1, <2>2, Zenon DEF Next, vars
<1> QED BY <1>1, <1>2, ClientsTypeCorrect, PTL DEF Spec

\* A section is finished by a page only, and then little of what stayed is missing.
LEMMA MissedStep ==
    ASSUME ReportTypeOK, CutInv, ReportNext, NEW s \in whole' \ whole
    PROVE  Cardinality({x \in steady \ Empty : groups'[x] = 0}) <= cuts
<1>1. Page
  <2>1. Retry \/ Resolve \/ Vanished \/ PlexFails \/ RadarrIndexed \/ RadarrSkipped => whole' = whole
    BY DEF Retry, Resolve, Vanished, PlexFails, RadarrIndexed, RadarrSkipped, auditVars
  <2>2. SeriesListed \/ SonarrSkipped \/ (\E t \in Series : EpisodesIndexed(t)) => whole' = whole
    BY DEF SeriesListed, SonarrSkipped, EpisodesIndexed, auditVars
  <2>3. NoSections \/ HollowPage \/ ArrEscapes => whole' = whole
    BY DEF NoSections, HollowPage, ArrEscapes, auditVars
  <2>4. Generate \/ LibraryChanges => whole' = whole
    BY DEF Generate, LibraryChanges, Inserted, Removed, SectionDeleted, auditVars
  <2> QED BY <2>1, <2>2, <2>3, <2>4, Zenon DEF ReportNext, ReportStep
<1>2. PICK page : /\ PageOf(library[Head(todo)], start, page)
                  /\ Ends(Head(todo), page) \/ Continues(page)
  BY <1>1, PageStep
<1>3. step = "pages"
  BY <1>1 DEF Page
<1>4. PICK listed : listed = Plus(found, Listing(page))
  OBVIOUS
<1>5. start + Len(page) >= Len(library[Head(todo)]) /\ groups' = Plus(groups, listed)
  BY <1>2, <1>4, Zenon DEF Ends, Continues
<1>6. PICK T : T = {x \in steady \ Empty : listed[x] = 0}
  OBVIOUS
<1>7. Cardinality(T) <= cuts
  BY <1>2, <1>3, <1>4, <1>5, <1>6, PageCut
<1>8. PlusOf(groups', groups, listed) /\ listed \in [Items -> 0..Often]
  <2>1. Listing(page) \in [Items -> Nat]
    BY <1>2, ListingTyped DEF PageOf
  <2>2. listed \in [Items -> 0..Often]
    BY <1>4, <2>1, PlusFacts DEF ReportTypeOK, PlusOf
  <2>3. listed \in [Items -> Nat]
    BY <2>2 DEF Often
  <2> QED BY <1>5, <2>2, <2>3, PlusFacts DEF ReportTypeOK
<1>9. \A x \in Items : groups'[x] = 0 => listed[x] = 0
  <2>1. \A x \in Items : groups'[x] >= listed[x] /\ listed[x] \in Nat
    BY <1>8 DEF PlusOf, Often
  <2> QED BY <2>1
<1>10. PICK U : U = {x \in steady \ Empty : groups'[x] = 0}
  OBVIOUS
<1>11. U \subseteq T /\ IsFiniteSet(T)
  <2>1. T \subseteq Items /\ steady \subseteq Items
    BY <1>6 DEF ReportTypeOK
  <2>2. IsFiniteSet(T)
    BY <2>1, GenerationAssumption, FS_Subset
  <2> QED BY <1>6, <1>9, <1>10, <2>1, <2>2
<1>12. Cardinality(U) \in Nat /\ Cardinality(T) \in Nat /\ Cardinality(U) <= Cardinality(T)
  BY <1>11, SubsetCounted
<1>13. cuts \in Nat
  BY DEF ReportTypeOK
<1> QED BY <1>7, <1>10, <1>12, <1>13

\* However the library changes between two pages, a scan misses at most as many of
\* the entries that were there all along as were removed from the section meanwhile.
THEOREM MissedIsBounded == Spec => MissedBound
<1>1. TypeOK /\ CutInv /\ [Next]_vars =>
        [\A s \in whole' \ whole : Cardinality({x \in steady \ Empty : groups'[x] = 0}) <= cuts]_reportVars
  <2> SUFFICES ASSUME TypeOK, CutInv, [Next]_vars
               PROVE  \A s \in whole' \ whole : Cardinality({x \in steady \ Empty : groups'[x] = 0}) <= cuts
    OBVIOUS
  <2>1. CASE ReportNext
    BY <2>1, MissedStep DEF TypeOK
  <2>2. CASE UNCHANGED generation
    <3>1. whole' = whole
      BY <2>2 DEF generation, auditVars
    <3> QED BY <3>1
  <2> QED BY <2>1, <2>2, Zenon DEF Next, vars
<1> QED BY <1>1, ClientsTypeCorrect, CutInvariant, PTL DEF Spec, MissedBound

-----------------------------------------------------------------------------
(* What is listed twice.                                                   *)

\* What a report lists more than once, marked for each time beyond the first.
Twice(g) == {t \in Items \X (2..Often) : g[t[1]] >= t[2]}

\* The marks of a scan that stands at n: those, and a first one for each entry that
\* has been listed and stands beyond n, where it will be listed again.
Marks(lib, n, f, g) ==
    {t \in Items \X (1..Often) :
        IF t[2] = 1 THEN f[t[1]] > 0 /\ t[1] \in After(lib, n) ELSE g[t[1]] + f[t[1]] >= t[2]}

\* Every mark is owed to an insertion, if the server heeds the position.
TwiceInv ==
    Paged => IF step = "pages" THEN Cardinality(Marks(library[Head(todo)], start, found, groups)) <= adds
             ELSE Cardinality(Twice(groups)) <= adds

LEMMA MarksCounted == ASSUME NEW S, S \subseteq Items \X (1..Often) PROVE IsFiniteSet(S) /\ Cardinality(S) \in Nat
<1>1. IsFiniteSet(1..Often)
  <2>1. 1 \in Int /\ Often \in Int
    BY DEF Often
  <2> QED BY <2>1, FS_Interval
<1>2. IsFiniteSet(Items \X (1..Often))
  BY <1>1, GenerationAssumption, FS_Product
<1>3. IsFiniteSet(S)
  BY <1>2, FS_Subset
<1> QED BY <1>3, FS_CardinalityType

LEMMA FewerMarks ==
    ASSUME NEW S, S \subseteq Items \X (1..Often), NEW T, T \subseteq S, NEW n \in Nat, Cardinality(S) <= n
    PROVE  Cardinality(T) <= n
<1>1. IsFiniteSet(S)
  BY MarksCounted
<1>2. Cardinality(T) \in Nat /\ Cardinality(S) \in Nat /\ Cardinality(T) <= Cardinality(S)
  BY <1>1, SubsetCounted
<1> QED BY <1>2

LEMMA MarkedTwice ==
    ASSUME NEW lib, NEW n, NEW f \in [Items -> 0..Often], NEW g \in [Items -> 0..Often]
    PROVE  Twice(g) \subseteq Marks(lib, n, f, g)
<1>1. \A x \in Items : f[x] \in Nat /\ g[x] \in Nat
  BY DEF Often
<1>2. 2..Often \subseteq 1..Often /\ \A k \in 2..Often : k # 1 /\ k \in Nat
  BY DEF Often
<1> SUFFICES ASSUME NEW x \in Items, NEW k \in 2..Often, g[x] >= k PROVE g[x] + f[x] >= k
  BY <1>2 DEF Twice, Marks
<1> QED BY <1>1, <1>2

\* The marks that count before a section is read are the ones it starts with.
LEMMA TurnTwice ==
    ASSUME NEW left, Turn(left), groups' \in [Items -> 0..Often], adds \in Nat, adds' = adds,
           Paged => Cardinality(Twice(groups')) <= adds
    PROVE  TwiceInv'
<1>1. SUFFICES ASSUME Paged, step' = "pages"
               PROVE  Cardinality(Marks(library'[Head(todo')], start', found', groups')) <= adds
  BY DEF TwiceInv
<1>2. found' = Never
  BY DEF Turn
<1>3. \A x \in Items : groups'[x] \in Nat /\ found'[x] = 0
  BY <1>2 DEF Never, Often
<1>4. \A k \in 1..Often : k = 1 \/ k \in 2..Often
  BY DEF Often
<1>5. Marks(library'[Head(todo')], start', found', groups') \subseteq Twice(groups')
  <2>1. SUFFICES ASSUME NEW x \in Items, NEW k \in 1..Often, k # 1, groups'[x] + found'[x] >= k
                 PROVE  k \in 2..Often /\ groups'[x] >= k
    BY <1>3 DEF Marks, Twice
  <2> QED BY <1>3, <1>4, <2>1
<1>6. Twice(groups') \subseteq Items \X (1..Often)
  BY DEF Twice, Often
<1>7. PICK T : T = Marks(library'[Head(todo')], start', found', groups')
  OBVIOUS
<1>8. Cardinality(T) <= adds
  BY <1>1, <1>5, <1>6, <1>7, FewerMarks
<1> QED BY <1>7, <1>8

\* A section is no longer than there are entries.
LEMMA OwnsFew ==
    ASSUME NEW s, NEW lib \in Seq(Items), Owns(s, lib)
    PROVE  Len(lib) <= Cardinality(Items)
<1>1. PICK n \in Nat : n = Len(lib)
  OBVIOUS
<1>2. lib \in [1..n -> Items] /\ IsInjective(lib)
  BY <1>1 DEF Owns
<1>3. lib \in Injection(1..n, Items)
  BY <1>2 DEF Injection, IsInjective
<1>4. Cardinality(1..n) <= Cardinality(Items)
  BY <1>3, GenerationAssumption, FS_Injection
<1>5. Cardinality(1..n) = n
  <2>1. 1 \in Int /\ n \in Int
    OBVIOUS
  <2>2. Cardinality(1..n) = IF 1 > n THEN 0 ELSE n - 1 + 1
    BY <2>1, FS_Interval
  <2> QED BY <2>2
<1> QED BY <1>1, <1>4, <1>5

\* The entries of a page stand beyond its position, up to its end, and are listed once.
LEMMA PageOnce ==
    ASSUME Paged, NEW lib \in Seq(Items), IsInjective(lib), NEW n \in Nat, NEW page, PageOf(lib, n, page)
    PROVE  /\ IsInjective(page) /\ Range(page) \subseteq After(lib, n)
           /\ Range(page) \cap After(lib, n + Len(page)) = {}
           /\ After(lib, n + Len(page)) \subseteq After(lib, n)
<1>1. /\ page \in Seq(Items) /\ DOMAIN page = 1..Len(page) /\ Len(page) \in Nat
      /\ DOMAIN lib = 1..Len(lib) /\ Len(lib) \in Nat
  BY DEF PageOf
<1>2. \A i \in DOMAIN page : n + i \in DOMAIN lib /\ page[i] = lib[n + i]
  BY DEF PageOf
<1>3. \A i, j \in DOMAIN lib : lib[i] = lib[j] => i = j
  BY DEF IsInjective
<1>4. IsInjective(page)
  <2>1. SUFFICES ASSUME NEW i \in DOMAIN page, NEW j \in DOMAIN page, page[i] = page[j] PROVE i = j
    BY DEF IsInjective
  <2>2. n + i = n + j
    BY <1>2, <1>3, <2>1
  <2> QED BY <1>1, <2>2
<1>5. \A i \in DOMAIN page : page[i] \in After(lib, n)
  <2>1. SUFFICES ASSUME NEW i \in DOMAIN page PROVE page[i] \in After(lib, n)
    OBVIOUS
  <2>2. n + i > n /\ n + i \in DOMAIN lib /\ lib[n + i] = page[i]
    BY <1>1, <1>2, <2>1
  <2> QED BY <2>2 DEF After, Range
<1>6. \A i \in DOMAIN page : page[i] \notin After(lib, n + Len(page))
  <2>1. SUFFICES ASSUME NEW i \in DOMAIN page, NEW j \in DOMAIN lib, j > n + Len(page), lib[j] = page[i]
                 PROVE  FALSE
    BY DEF After
  <2>2. j = n + i
    BY <1>2, <1>3, <2>1
  <2> QED BY <1>1, <2>1, <2>2
<1>7. After(lib, n + Len(page)) \subseteq After(lib, n)
  <2>1. \A j \in DOMAIN lib : j > n + Len(page) => j > n
    BY <1>1
  <2> QED BY <2>1 DEF After
<1> QED BY <1>4, <1>5, <1>6, <1>7 DEF Range

\* A page turns marks into others, one for one.
LEMMA PageMarks ==
    ASSUME ReportTypeOK, SectionsInv, Paged, step = "pages",
           NEW page, PageOf(library[Head(todo)], start, page), NEW listed, listed = Plus(found, Listing(page))
    PROVE  Cardinality(Marks(library[Head(todo)], start + Len(page), listed, groups))
             <= Cardinality(Marks(library[Head(todo)], start, found, groups))
<1>1. PICK lib : lib = library[Head(todo)]
  OBVIOUS
<1>2. Head(todo) \in Sections
  BY HeadTail DEF ReportTypeOK
<1>3. /\ lib \in Seq(Items) /\ IsInjective(lib) /\ start \in Nat /\ page \in Seq(Items) /\ Len(page) \in Nat
      /\ found \in [Items -> 0..Often] /\ groups \in [Items -> 0..Often] /\ PageOf(lib, start, page)
  BY <1>1, <1>2 DEF ReportTypeOK, SectionsInv, Owns, PageOf
<1>4. /\ IsInjective(page) /\ Range(page) \subseteq After(lib, start)
      /\ Range(page) \cap After(lib, start + Len(page)) = {}
      /\ After(lib, start + Len(page)) \subseteq After(lib, start)
  BY <1>3, PageOnce
<1>5. /\ Listing(page) \in [Items -> Nat]
      /\ \A x \in Items : Listing(page)[x] <= 1 /\ (x \notin Range(page) => Listing(page)[x] = 0)
  BY <1>3, <1>4, ListingTyped, ListingFacts
<1>6. PlusOf(listed, found, Listing(page))
  BY <1>3, <1>5, PlusFacts
<1>7. \A x \in Items : /\ found[x] \in Nat /\ groups[x] \in Nat /\ listed[x] \in Nat
                       /\ listed[x] >= found[x] /\ listed[x] <= found[x] + 1
                       /\ x \notin Range(page) => listed[x] = found[x]
  <2>1. SUFFICES ASSUME NEW x \in Items
                 PROVE  /\ found[x] \in Nat /\ groups[x] \in Nat /\ listed[x] \in Nat
                        /\ listed[x] >= found[x] /\ listed[x] <= found[x] + 1
                        /\ x \notin Range(page) => listed[x] = found[x]
    OBVIOUS
  <2>2. found[x] \in Nat /\ groups[x] \in Nat
    BY <1>3 DEF Often
  <2>3. listed[x] \in Nat /\ listed[x] >= found[x] /\ listed[x] <= found[x] + Listing(page)[x]
    BY <1>6 DEF PlusOf, Often
  <2>4. Listing(page)[x] \in Nat /\ Listing(page)[x] <= 1 /\ (x \notin Range(page) => Listing(page)[x] = 0)
    BY <1>5
  <2> QED BY <2>2, <2>3, <2>4
<1>8. \A x \in Items : listed[x] > 0 => groups[x] = 0
  <2>1. \A x \in Items : listed[x] > 0 => SectionOf[x] = Head(todo)
    BY CountedHere
  <2>2. Head(todo) \notin Over
    <3>1. Head(todo) \in Range(todo)
      BY HeadTail DEF ReportTypeOK
    <3> QED BY <3>1 DEF SectionsInv
  <2>3. \A x \in Items : groups[x] > 0 => SectionOf[x] \in Over
    BY DEF SectionsInv
  <2> QED BY <1>7, <2>1, <2>2, <2>3
<1>9. PICK M : M = Marks(lib, start, found, groups)
  OBVIOUS
<1>10. PICK W : W = Marks(lib, start + Len(page), listed, groups)
  OBVIOUS
<1>11. /\ M \subseteq Items \X (1..Often) /\ W \subseteq Items \X (1..Often)
       /\ \A k \in 1..Often : k \in Nat /\ k >= 1
       /\ 1 \in 1..Often
  BY <1>9, <1>10 DEF Marks, Often
<1>12. ASSUME NEW t \in W, t \notin M
       PROVE  t[2] = found[t[1]] + 1 /\ t[2] # 1 /\ t[1] \in Range(page) /\ <<t[1], 1>> \in M
  <2>1. PICK x \in Items, k \in 1..Often : t = <<x, k>>
    BY <1>11
  <2>2. k \in Nat /\ k >= 1
    BY <1>11
  <2>3. IF k = 1 THEN listed[x] > 0 /\ x \in After(lib, start + Len(page)) ELSE groups[x] + listed[x] >= k
    BY <1>10, <2>1 DEF Marks
  <2>4. ~(IF k = 1 THEN found[x] > 0 /\ x \in After(lib, start) ELSE groups[x] + found[x] >= k)
    BY <1>9, <1>12, <2>1 DEF Marks
  <2>5. k # 1
    BY <1>4, <1>7, <2>3, <2>4
  <2>6. groups[x] + listed[x] >= k /\ ~(groups[x] + found[x] >= k)
    BY <2>3, <2>4, <2>5
  <2>7. listed[x] > 0 /\ x \in Range(page)
    BY <1>7, <2>6
  <2>8. k = found[x] + 1 /\ found[x] > 0
    BY <1>7, <1>8, <2>2, <2>5, <2>6, <2>7
  <2>9. <<x, 1>> \in M
    BY <1>4, <1>9, <1>11, <2>7, <2>8 DEF Marks
  <2> QED BY <2>1, <2>5, <2>7, <2>8, <2>9
<1>13. ASSUME NEW t \in W, t[2] = 1 PROVE t[1] \notin Range(page)
  BY <1>4, <1>10, <1>13 DEF Marks
<1> DEFINE h == [t \in W |-> IF t \in M THEN t ELSE <<t[1], 1>>]
<1>14. h \in [W -> M]
  BY <1>12
<1>15. ASSUME NEW t \in W, NEW u \in W, h[t] = h[u] PROVE t = u
  <2>1. CASE t \in M /\ u \in M
    BY <1>15, <2>1
  <2>2. CASE t \notin M /\ u \notin M
    <3>1. t[1] = u[1]
      BY <1>15, <2>2
    <3>2. t[2] = u[2]
      BY <1>12, <2>2, <3>1
    <3>3. \A v \in W : v = <<v[1], v[2]>>
      BY <1>11
    <3> QED BY <3>1, <3>2, <3>3
  <2>3. ASSUME NEW v \in W, v \in M, NEW w \in W, w \notin M, v = <<w[1], 1>> PROVE FALSE
    BY <1>12, <1>13, <2>3
  <2> QED BY <1>15, <2>1, <2>2, <2>3
<1>16. h \in Injection(W, M)
  <2>1. DOMAIN h = W
    OBVIOUS
  <2>2. IsInjective(h)
    BY <1>15, <2>1, Zenon DEF IsInjective
  <2> QED BY <1>14, <2>2, Zenon DEF Injection
<1>17. IsFiniteSet(M)
  BY <1>11, MarksCounted
<1> QED BY <1>1, <1>9, <1>10, <1>16, <1>17, FS_Injection

LEMMA PageTwice == ASSUME ReportTypeOK, SectionsInv, TwiceInv, Page PROVE TwiceInv'
<1>1. /\ Head(todo) \in Sections /\ Tail(todo) \in Seq(Sections)
      /\ step = "pages" /\ UNCHANGED <<library, adds>> /\ adds \in Nat
  BY PageStep DEF Page, plexVars, ReportTypeOK
<1>2. PICK page : /\ PageOf(library[Head(todo)], start, page)
                  /\ Ends(Head(todo), page) \/ Continues(page)
  BY PageStep
<1>3. PICK listed : listed = Plus(found, Listing(page))
  OBVIOUS
<1>4. PICK lib : lib = library[Head(todo)]
  OBVIOUS
<1>5. lib \in Seq(Items) /\ Len(page) \in Nat /\ start \in Nat /\ groups \in [Items -> 0..Often]
  BY <1>1, <1>2, <1>4 DEF PageOf, ReportTypeOK
<1>6. listed \in [Items -> 0..Often]
  BY <1>1, <1>2, <1>3, CountedHere
<1>7. PICK S : S = Marks(lib, start + Len(page), listed, groups)
  OBVIOUS
<1>8. PICK M : M = Marks(lib, start, found, groups)
  OBVIOUS
<1>9. S \subseteq Items \X (1..Often) /\ M \subseteq Items \X (1..Often)
  BY <1>7, <1>8 DEF Marks
<1>10. Paged => Cardinality(S) <= adds
  <2>1. SUFFICES ASSUME Paged PROVE Cardinality(S) <= adds
    OBVIOUS
  <2>2. Cardinality(S) <= Cardinality(M)
    BY <1>1, <1>2, <1>3, <1>4, <1>7, <1>8, <2>1, PageMarks
  <2>3. Cardinality(M) <= adds
    BY <1>1, <1>4, <1>8, <2>1 DEF TwiceInv
  <2>4. Cardinality(S) \in Nat /\ Cardinality(M) \in Nat
    BY <1>9, MarksCounted
  <2> QED BY <1>1, <2>2, <2>3, <2>4
<1>11. CASE Ends(Head(todo), page)
  <2>1. Turn(Tail(todo)) /\ groups' = Plus(groups, listed)
    BY <1>3, <1>11 DEF Ends
  <2>2. listed \in [Items -> Nat]
    BY <1>6 DEF Often
  <2>3. PlusOf(groups', groups, listed)
    BY <1>5, <2>1, <2>2, PlusFacts
  <2>4. groups' \in [Items -> 0..Often] /\ \A x \in Items : groups'[x] <= groups[x] + listed[x]
    BY <2>3 DEF PlusOf
  <2>5. Twice(groups') \subseteq S
    <3>1. /\ 2..Often \subseteq 1..Often /\ \A k \in 2..Often : k # 1 /\ k \in Nat
      BY DEF Often
    <3>2. \A x \in Items : groups'[x] \in Nat /\ groups[x] \in Nat /\ listed[x] \in Nat
      BY <1>5, <1>6, <2>4 DEF Often
    <3>3. SUFFICES ASSUME NEW x \in Items, NEW k \in 2..Often, groups'[x] >= k PROVE groups[x] + listed[x] >= k
      BY <1>7, <3>1 DEF Twice, Marks
    <3> QED BY <2>4, <3>1, <3>2, <3>3
  <2>6. Paged => Cardinality(Twice(groups')) <= adds
    <3>1. PICK T : T = Twice(groups')
      OBVIOUS
    <3> QED BY <1>1, <1>9, <1>10, <2>5, <3>1, FewerMarks
  <2> QED BY <1>1, <2>1, <2>4, <2>6, TurnTwice
<1>12. CASE Continues(page)
  <2>1. start' = Advance(page) /\ found' = listed /\ UNCHANGED <<step, todo, groups>>
    BY <1>3, <1>12 DEF Continues
  <2>2. After(lib, start') \subseteq After(lib, start + Len(page))
    <3>1. Len(lib) <= Cardinality(Items) /\ Len(lib) \in Nat /\ Cardinality(Items) \in Nat
      <4>1. Owns(Head(todo), lib)
        BY <1>1, <1>4 DEF SectionsInv
      <4> QED BY <1>5, <4>1, OwnsFew, GenerationAssumption, FS_CardinalityType
    <3>2. SUFFICES ASSUME NEW j \in DOMAIN lib, j > start' PROVE j > start + Len(page)
      BY DEF After
    <3>3. j \in Nat /\ j <= Len(lib)
      BY <1>5, <3>1
    <3> QED BY <1>5, <2>1, <3>1, <3>2, <3>3 DEF Advance, Clipped
  <2>3. Marks(lib, start', listed, groups) \subseteq S
    BY <1>7, <2>2 DEF Marks
  <2>4. PICK T : T = Marks(lib, start', listed, groups)
    OBVIOUS
  <2>5. Paged => Cardinality(T) <= adds
    BY <1>1, <1>9, <1>10, <2>3, <2>4, FewerMarks
  <2>6. step' = "pages" /\ adds' = adds /\ T = Marks(library'[Head(todo')], start', found', groups')
    BY <1>1, <1>4, <2>1, <2>4
  <2> QED BY <2>5, <2>6, Zenon DEF TwiceInv
<1> QED BY <1>2, <1>11, <1>12

\* An insertion adds a mark at most, and is counted for it ...
LEMMA TwiceInsert ==
    ASSUME ReportTypeOK, TwiceInv, NEW s \in Sections, NEW x \in Items, NEW i \in 1..(Len(library[s]) + 1),
           Inserted(x, s, i)
    PROVE  TwiceInv'
<1>1. PICK r : r = InsertAt(library[s], i, x)
  OBVIOUS
<1>2. /\ library' = [library EXCEPT ![s] = r] /\ x \notin Range(library[s])
      /\ UNCHANGED <<step, todo, start, found, groups>>
  BY <1>1 DEF Inserted, scanVars
<1>3. library \in [Sections -> Seq(Items)] /\ start \in Nat /\ adds \in Nat
  BY DEF ReportTypeOK
<1>4. PICK h : h = Head(todo)
  OBVIOUS
<1>5. CASE step # "pages"
  <2>1. adds' = adds
    BY <1>5 DEF Inserted, Reading
  <2> QED BY <1>2, <1>5, <2>1 DEF TwiceInv
<1>6. CASE step = "pages" /\ s # h
  <2>1. adds' = adds
    BY <1>4, <1>6 DEF Inserted, Reading
  <2>2. library'[h] = library[h]
    BY <1>2, <1>4, <1>6, <1>3, HeadTail DEF ReportTypeOK
  <2> QED BY <1>2, <1>4, <1>6, <2>1, <2>2 DEF TwiceInv
<1>7. CASE step = "pages" /\ s = h
  <2>1. adds' = adds + 1 /\ library'[h] = r
    BY <1>2, <1>3, <1>4, <1>7 DEF Inserted, Reading
  <2>2. PICK lib : lib = library[h]
    OBVIOUS
  <2>3. lib \in Seq(Items) /\ i \in 1..(Len(lib) + 1) /\ r = InsertAt(lib, i, x) /\ x \notin Range(lib)
    BY <1>1, <1>2, <1>3, <1>7, <2>2
  <2>4. OneMore(After(r, start), After(lib, start))
    BY <1>3, <2>3, InsertMoves
  <2>5. PICK z : After(r, start) \subseteq After(lib, start) \cup {z}
    BY <2>4 DEF OneMore
  <2>6. PICK M : M = Marks(lib, start, found, groups)
    OBVIOUS
  <2>7. PICK W : W = Marks(r, start, found, groups)
    OBVIOUS
  <2>8. W \subseteq M \cup {<<z, 1>>}
    BY <2>5, <2>6, <2>7 DEF Marks
  <2>9. IsFiniteSet(M)
    BY <2>6, MarksCounted DEF Marks
  <2>10. Cardinality(W) \in Nat /\ Cardinality(M) \in Nat /\ Cardinality(W) <= Cardinality(M) + 1
    BY <2>8, <2>9, OneMoreCounted
  <2>11. Paged => Cardinality(M) <= adds
    BY <1>4, <1>7, <2>2, <2>6 DEF TwiceInv
  <2>12. Paged => Cardinality(W) <= adds'
    BY <1>3, <2>1, <2>10, <2>11
  <2>13. step' = "pages" /\ W = Marks(library'[Head(todo')], start', found', groups')
    BY <1>2, <1>4, <1>7, <2>1, <2>7
  <2> QED BY <2>12, <2>13, Zenon DEF TwiceInv
<1> QED BY <1>5, <1>6, <1>7

\* ... and a removal adds none.
LEMMA TwiceRemove ==
    ASSUME ReportTypeOK, TwiceInv, NEW s \in Sections, NEW i \in 1..Len(library[s]), Removed(s, i)
    PROVE  TwiceInv'
<1>1. PICK r : r = RemoveAt(library[s], i)
  OBVIOUS
<1>2. library' = [library EXCEPT ![s] = r] /\ UNCHANGED <<step, todo, start, found, groups, adds>>
  BY <1>1 DEF Removed, scanVars
<1>3. library \in [Sections -> Seq(Items)] /\ start \in Nat /\ adds \in Nat
  BY DEF ReportTypeOK
<1>4. PICK h : h = Head(todo)
  OBVIOUS
<1>5. CASE step # "pages"
  BY <1>2, <1>5 DEF TwiceInv
<1>6. CASE step = "pages" /\ s # h
  <2>1. library'[h] = library[h]
    BY <1>2, <1>3, <1>4, <1>6, HeadTail DEF ReportTypeOK
  <2> QED BY <1>2, <1>4, <1>6, <2>1 DEF TwiceInv
<1>7. CASE step = "pages" /\ s = h
  <2>1. library'[h] = r
    BY <1>2, <1>3, <1>7
  <2>2. PICK lib : lib = library[h]
    OBVIOUS
  <2>3. lib \in Seq(Items) /\ i \in 1..Len(lib) /\ r = RemoveAt(lib, i)
    BY <1>1, <1>3, <1>7, <2>2
  <2>4. After(r, start) \subseteq After(lib, start)
    BY <1>3, <2>3, RemoveMoves
  <2>5. PICK M : M = Marks(lib, start, found, groups)
    OBVIOUS
  <2>6. PICK W : W = Marks(r, start, found, groups)
    OBVIOUS
  <2>7. W \subseteq M /\ M \subseteq Items \X (1..Often)
    BY <2>4, <2>5, <2>6 DEF Marks
  <2>8. Paged => Cardinality(M) <= adds
    BY <1>4, <1>7, <2>2, <2>5 DEF TwiceInv
  <2>9. Paged => Cardinality(W) <= adds
    BY <1>3, <2>7, <2>8, FewerMarks
  <2>10. step' = "pages" /\ adds' = adds /\ W = Marks(library'[Head(todo')], start', found', groups')
    BY <1>2, <1>4, <1>7, <2>1, <2>6
  <2> QED BY <2>9, <2>10, Zenon DEF TwiceInv
<1> QED BY <1>5, <1>6, <1>7

\* What a section that is given up has listed is not in the report.
LEMMA TwiceListed ==
    ASSUME ReportTypeOK, TwiceInv, Paged
    PROVE  Cardinality(Twice(groups)) <= adds
<1>1. CASE step # "pages"
  BY <1>1 DEF TwiceInv
<1>2. CASE step = "pages"
  <2>1. PICK M : M = Marks(library[Head(todo)], start, found, groups)
    OBVIOUS
  <2>2. Cardinality(M) <= adds /\ M \subseteq Items \X (1..Often) /\ adds \in Nat
    BY <1>2, <2>1 DEF TwiceInv, Marks, ReportTypeOK
  <2>3. PICK T : T = Twice(groups)
    OBVIOUS
  <2>4. T \subseteq M
    BY <2>1, <2>3, MarkedTwice DEF ReportTypeOK
  <2>5. Cardinality(T) <= adds
    BY <2>2, <2>4, FewerMarks
  <2> QED BY <2>3, <2>5
<1> QED BY <1>1, <1>2

LEMMA TwiceStep == ASSUME ReportTypeOK, SectionsInv, TwiceInv, ReportNext PROVE TwiceInv'
<1>1. CASE \/ Generate \/ PlexFails \/ RadarrIndexed \/ RadarrSkipped
           \/ SeriesListed \/ SonarrSkipped \/ ArrEscapes \/ NoSections
  <2>1. step' # "pages" /\ UNCHANGED <<groups, adds>>
    BY <1>1 DEF Generate, PlexFails, RadarrIndexed, RadarrSkipped, SeriesListed, SonarrSkipped,
       ArrEscapes, NoSections, Turn, scanVars, auditVars
  <2> QED BY <2>1, TwiceListed DEF TwiceInv
<1>2. ASSUME NEW s \in Series, EpisodesIndexed(s) PROVE TwiceInv'
  <2>1. step' # "pages" /\ UNCHANGED <<groups, adds>>
    BY <1>2 DEF EpisodesIndexed, scanVars, auditVars
  <2> QED BY <2>1, TwiceListed DEF TwiceInv
<1>3. CASE Retry
  BY <1>3 DEF Retry, TwiceInv, plexVars, scanVars, auditVars
<1>4. CASE Resolve \/ Vanished
  <2>1. PICK left : Turn(left)
    BY <1>4, Zenon DEF Resolve, Vanished
  <2>2. UNCHANGED <<groups, adds>>
    BY <1>4 DEF Resolve, Vanished
  <2>3. groups' \in [Items -> 0..Often] /\ adds \in Nat
    BY <2>2 DEF ReportTypeOK
  <2> QED BY <2>1, <2>2, <2>3, TwiceListed, TurnTwice
<1>5. ASSUME NEW s \in Sections, SectionDeleted(s) PROVE TwiceInv'
  BY <1>5 DEF SectionDeleted, TwiceInv, scanVars, auditVars
<1>6. CASE HollowPage
  <2>1. /\ Turn(Tail(todo)) /\ groups' = Plus(groups, found) /\ adds' = adds /\ step = "pages"
    BY <1>6 DEF HollowPage
  <2>2. PlusOf(groups', groups, found) /\ groups' \in [Items -> 0..Often]
    BY <2>1, PlusFound
  <2>3. PICK M : M = Marks(library[Head(todo)], start, found, groups)
    OBVIOUS
  <2>4. M \subseteq Items \X (1..Often) /\ adds \in Nat
    BY <2>3 DEF Marks, ReportTypeOK
  <2>5. PICK T : T = Twice(groups')
    OBVIOUS
  <2>6. T \subseteq M
    <3>a. \A x \in Items : groups'[x] <= groups[x] + found[x]
      BY <2>2 DEF PlusOf
    <3>b. groups \in [Items -> 0..Often] /\ found \in [Items -> 0..Often]
      BY DEF ReportTypeOK
    <3>1. \A x \in Items : /\ groups'[x] <= groups[x] + found[x]
                           /\ groups'[x] \in Nat /\ groups[x] \in Nat /\ found[x] \in Nat
      BY <2>2, <3>a, <3>b DEF Often
    <3>2. ASSUME NEW t \in T PROVE t \in M
      <4>1. t \in Items \X (2..Often) /\ groups'[t[1]] >= t[2]
        BY <2>5 DEF Twice
      <4>2. t[1] \in Items /\ t[2] \in 1..Often /\ t[2] # 1 /\ t \in Items \X (1..Often)
        BY <4>1 DEF Often
      <4>3. groups[t[1]] + found[t[1]] >= t[2]
        BY <3>1, <4>1, <4>2
      <4> QED BY <2>3, <4>2, <4>3 DEF Marks
    <3> QED BY <3>2
  <2>7. Paged => Cardinality(T) <= adds
    BY <2>1, <2>3, <2>4, <2>6, FewerMarks DEF TwiceInv
  <2>8. Tail(todo) \in Seq(Sections)
    BY <2>1, HeadTail DEF ReportTypeOK
  <2> QED BY <2>1, <2>2, <2>4, <2>5, <2>7, <2>8, TurnTwice
<1> QED
  BY <1>1, <1>2, <1>3, <1>4, <1>5, <1>6, PageTwice, TwiceInsert, TwiceRemove
     DEF ReportNext, ReportStep, LibraryChanges

LEMMA TwiceInvariant == Spec => []TwiceInv
<1>1. Init => TwiceInv
  <2> SUFFICES ASSUME Init PROVE TwiceInv
    OBVIOUS
  <2>1. step = "idle" /\ groups = Never /\ adds = 0
    BY DEF Init, ReportInit
  <2>2. Twice(groups) = {}
    BY <2>1 DEF Twice, Never
  <2>3. Cardinality(Twice(groups)) = 0
    BY <2>2, FS_EmptySet, Zenon
  <2> QED BY <2>1, <2>3 DEF TwiceInv
<1>2. TwiceInv /\ SectionsInv /\ TypeOK /\ [Next]_vars => TwiceInv'
  <2> SUFFICES ASSUME TwiceInv, SectionsInv, TypeOK, [Next]_vars PROVE TwiceInv'
    OBVIOUS
  <2>1. CASE ReportNext
    BY <2>1, TwiceStep DEF TypeOK
  <2>2. CASE UNCHANGED generation
    BY <2>2 DEF TwiceInv, generation, plexVars, scanVars, auditVars
  <2> QED BY <2>1, <2>2, Zenon DEF Next, vars
<1> QED BY <1>1, <1>2, ClientsTypeCorrect, SectionsInvariant, PTL DEF Spec

\* A server that heeds the position it is asked for makes a report list an entry once
\* more only where another was inserted during a scan, one for one.
THEOREM TwiceIsBounded == ASSUME Paged PROVE Spec => []TwiceBound
<1>1. TypeOK /\ TwiceInv => TwiceBound
  BY TwiceListed DEF TypeOK, TwiceBound, Twice
<1> QED BY <1>1, ClientsTypeCorrect, TwiceInvariant, PTL

=============================================================================
