-------------------------- MODULE QbittorrentClient --------------------------
(***************************************************************************)
(* QbittorrentClient.fetch_torrents against a qBittorrent that restarts,   *)
(* lets sessions lapse, bars the door and opens it again: login on the     *)
(* first call, the request, and on a 403 one login more and the request    *)
(* once more.                                                              *)
(***************************************************************************)
EXTENDS HttpClient

VARIABLES
    stage,         \* the request the call is at; "idle" between calls
    authenticated, \* the client's _authenticated flag
    outcome,       \* how the last call ended
    session,       \* the service knows the cookie in the client's jar
    door,          \* how the service treats a login
    logins,        \* history: login requests sent in this call
    lapsed         \* history: access was lost since the last login of this call

clientVars == <<stage, authenticated, outcome>>
serviceVars == <<session, door>>
polling == <<clientVars, serviceVars, logins, lapsed>>
pollVars == <<attempt, polling>>

\* "open": right credentials; "barred": wrong ones, or the client is banned;
\* "exempt": this client needs none.
Doors == {"open", "barred", "exempt"}

\* A third login counts like any further one.
Counted == IF logins < 3 THEN logins + 1 ELSE 3

PollInit ==
    /\ attempt = 1
    /\ stage = "idle" /\ authenticated = FALSE /\ outcome = "none"
    /\ session = FALSE /\ door \in Doors
    /\ logins = 0 /\ lapsed = FALSE

LoggingIn == stage \in {"login", "relogin"}
Requesting == stage \in {"request", "retry"}
Method == IF LoggingIn THEN "POST" ELSE "GET"
Admitted == session \/ door = "exempt"

\* login() does nothing when the flag is set.
Call ==
    /\ stage = "idle"
    /\ stage' = IF authenticated THEN "request" ELSE "login"
    /\ outcome' = "none" /\ logins' = 0 /\ lapsed' = FALSE
    /\ UNCHANGED <<attempt, authenticated, serviceVars>>

End(result) == stage' = "idle" /\ outcome' = result

TryAgain ==
    /\ stage # "idle"
    /\ \E r \in Transient : Again(Method, r)
    /\ logins' = IF LoggingIn THEN Counted ELSE logins
    /\ UNCHANGED <<clientVars, serviceVars, lapsed>>

\* "Ok.", or an empty body for a client that is exempt; the request follows.
LoggedIn ==
    /\ LoggingIn /\ door # "barred"
    /\ attempt' = 1 /\ logins' = Counted
    /\ session' = (session \/ door = "open")
    /\ authenticated' = TRUE /\ lapsed' = FALSE
    /\ stage' = IF stage = "login" THEN "request" ELSE "retry"
    /\ UNCHANGED <<outcome, door>>

\* "Fails.": the flag keeps the value it had.
LoginDenied ==
    /\ LoggingIn /\ door = "barred"
    /\ attempt' = 1 /\ logins' = Counted
    /\ End("denied")
    /\ UNCHANGED <<authenticated, serviceVars, lapsed>>

\* No login is repeated, and a 403 to one is no reason for another.
LoginFails ==
    /\ LoggingIn
    /\ \E r \in Failures \cup Unmapped : Final("POST", r)
    /\ logins' = Counted
    /\ End("unanswered")
    /\ UNCHANGED <<authenticated, serviceVars, lapsed>>

\* The torrents, or a body that is no JSON.
Answered ==
    /\ Requesting /\ Admitted
    /\ attempt' = 1
    /\ \E result \in {"torrents", "garbled"} : End(result)
    /\ UNCHANGED <<authenticated, serviceVars, logins, lapsed>>

\* Mutation of Forbidden: the 403 is raised.
ForbiddenRaised ==
    /\ Requesting /\ ~Admitted /\ Final("GET", "forbidden")
    /\ End("forbidden")
    /\ UNCHANGED <<authenticated, serviceVars, logins, lapsed>>

\* Mutation of Forbidden: login() is not forced, and returns at once.
ForbiddenUnforced ==
    /\ Requesting /\ ~Admitted /\ Final("GET", "forbidden")
    /\ IF stage = "request"
       THEN stage' = "retry" /\ UNCHANGED outcome
       ELSE End("forbidden")
    /\ UNCHANGED <<authenticated, serviceVars, logins, lapsed>>

\* Mutation of Forbidden: the repeated request may log in as well.
ForbiddenAnyTime ==
    /\ Requesting /\ ~Admitted /\ Final("GET", "forbidden")
    /\ stage' = "relogin"
    /\ UNCHANGED <<authenticated, outcome, serviceVars, logins, lapsed>>

\* A 403 sends the call to the login, but for the request that was repeated.
Forbidden ==
    /\ Requesting /\ ~Admitted /\ Final("GET", "forbidden")
    /\ IF stage = "request"
       THEN stage' = "relogin" /\ UNCHANGED outcome
       ELSE End("forbidden")
    /\ UNCHANGED <<authenticated, serviceVars, logins, lapsed>>

RequestFails ==
    /\ Requesting
    /\ \E r \in (Failures \ {"forbidden"}) \cup Unmapped : Final("GET", r)
    /\ End("failed")
    /\ UNCHANGED <<authenticated, serviceVars, logins, lapsed>>

PollStep ==
    \/ TryAgain \/ LoggedIn \/ LoginDenied \/ LoginFails
    \/ Answered \/ Forbidden \/ RequestFails

\* qBittorrent restarts, or the session expires.
Lapse ==
    /\ session
    /\ session' = FALSE /\ lapsed' = TRUE
    /\ UNCHANGED <<attempt, clientVars, door, logins>>

\* The password or the exemption changes, a ban begins or ends.
DoorChanges ==
    /\ \E d \in Doors \ {door} : door' = d
    /\ lapsed' = (lapsed \/ door = "exempt")
    /\ UNCHANGED <<attempt, clientVars, session, logins>>

PollNext == Call \/ PollStep \/ Lapse \/ DoorChanges

-----------------------------------------------------------------------------
(* What a call promises.                                                   *)

Stages == {"idle", "login", "request", "relogin", "retry"}
Results == {"none", "torrents", "garbled", "denied", "unanswered", "forbidden", "failed"}

PollTypeOK ==
    /\ attempt \in 1..Tries
    /\ stage \in Stages /\ authenticated \in BOOLEAN /\ outcome \in Results
    /\ session \in BOOLEAN /\ door \in Doors
    /\ logins \in 0..3 /\ lapsed \in BOOLEAN

\* A stale session alone never fails a call: a 403 reaches the caller only when
\* access was lost once more after the login that the call itself made.
ForbiddenMeansLapsedAgain == outcome = "forbidden" => logins > 0 /\ lapsed

\* A call sends two logins at most, and the second one only after a 403: no lost
\* answer is asked for again, which is what a service that bans counts.
LoginsCounted ==
    /\ logins <= 2
    /\ stage = "login" => logins = 0
    /\ stage = "request" => logins <= 1

\* A call ends.
CallEnds == stage # "idle" ~> stage = "idle"

\* Once nothing fails any more, polls deliver torrents again: no failed login or
\* lapsed session leaves the client wedged behind its flag.
Undisturbed == Call \/ LoggedIn \/ Forbidden \/ (Answered /\ outcome' = "torrents")
Recovers ==
    /\ []<>(stage # "idle")
    /\ <>[](door # "barred")
    /\ <>[][Undisturbed]_pollVars
    => []<>(outcome = "torrents")

=============================================================================
