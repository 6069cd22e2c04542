---------------------------- MODULE ReportViewer ----------------------------
(***************************************************************************)
(* file_report_provider: the report file as the web server's threads read  *)
(* it, through a memo they share: stat, a memo hit or a read, and the pair *)
(* of both stored.  A visitor stands for a request that shows the report   *)
(* or acts on it.                                                          *)
(***************************************************************************)
EXTENDS Integers

CONSTANTS
    Visitors,   \* requests that may be made, again and again
    Sites,      \* web servers
    SiteOf,     \* the server of a visitor
    MaxEditions \* bound: publications

ASSUME ViewerAssumption == SiteOf \in [Visitors -> Sites] /\ MaxEditions \in Nat

VARIABLES
    edition, \* the report on disk, by the number of its publication; 0: none yet
    memo,    \* memo[s]: the provider's cache entry
    visit    \* visit[v]: where a request is in provide(), or what the last one was answered

viewerVars == <<edition, memo, visit>>

Nothing == 0 \* no report: the empty state
NoEntry == [key |-> Nothing, value |-> Nothing]
Away == [at |-> "away", key |-> Nothing, value |-> Nothing]

ViewerInit ==
    /\ edition = Nothing
    /\ memo = [s \in Sites |-> NoEntry]
    /\ visit = [v \in Visitors |-> Away]

\* os.replace: a new file with an mtime and a size of its own.
Published ==
    /\ edition < MaxEditions
    /\ edition' = edition + 1
    /\ UNCHANGED <<memo, visit>>

Entry(v) == memo[SiteOf[v]]
Goes(v, w) == visit' = [visit EXCEPT ![v] = w]

\* The first step of a request; without a file there is nothing to show.
Stat(v) ==
    /\ visit[v].at = "away" /\ edition # Nothing
    /\ Goes(v, [at |-> "stat", key |-> edition, value |-> Nothing])
    /\ UNCHANGED <<edition, memo>>

\* The request is answered; the visitor may make another one.
Answers(v, value) == Goes(v, [at |-> "away", key |-> Nothing, value |-> value])

\* The entry's value is the answer.
Hit(v) ==
    /\ visit[v].at = "stat" /\ Entry(v).key = visit[v].key
    /\ Answers(v, Entry(v).value)
    /\ UNCHANGED <<edition, memo>>

\* The whole file that is there now, or nothing if it cannot be read or parsed.
Read(v) ==
    /\ visit[v].at = "stat" /\ Entry(v).key # visit[v].key
    /\ \E value \in {edition, Nothing} : Goes(v, [at |-> "read", key |-> visit[v].key, value |-> value])
    /\ UNCHANGED <<edition, memo>>

\* Mutation of Store: the key is that of the file after the read.
StoreUnderNewKey(v) ==
    /\ visit[v].at = "read"
    /\ memo' = [memo EXCEPT ![SiteOf[v]] = [key |-> edition, value |-> visit[v].value]]
    /\ Answers(v, visit[v].value)
    /\ UNCHANGED edition

\* Key and value as one tuple; the value is the answer.
Store(v) ==
    /\ visit[v].at = "read"
    /\ memo' = [memo EXCEPT ![SiteOf[v]] = [key |-> visit[v].key, value |-> visit[v].value]]
    /\ Answers(v, visit[v].value)
    /\ UNCHANGED edition

Visiting(v) == Stat(v) \/ Hit(v) \/ Read(v) \/ Store(v)

\* The server is gone, and its requests and memo with it.
Forgotten(s) ==
    /\ memo' = [memo EXCEPT ![s] = NoEntry]
    /\ visit' = [v \in Visitors |-> IF SiteOf[v] = s THEN Away ELSE visit[v]]
    /\ UNCHANGED edition

ViewerNext ==
    \/ Published
    \/ \E v \in Visitors : Visiting(v)
    \/ \E s \in Sites : Forgotten(s)

ViewerSpec == ViewerInit /\ [][ViewerNext]_viewerVars

-----------------------------------------------------------------------------
(* What a visitor is promised.                                             *)

Editions == 0..MaxEditions

ViewerTypeOK ==
    /\ edition \in Editions
    /\ memo \in [Sites -> [key : Editions, value : Editions]]
    /\ visit \in [Visitors -> [at : {"away", "stat", "read"}, key : Editions, value : Editions]]

\* The memo cannot be noticed: a request is never answered with an older report
\* than the one on disk when it began, whatever other requests put into the memo
\* and whatever is published meanwhile.
Register == INSTANCE ReportRegister WITH
    Readers <- Visitors,
    current <- edition,
    asked <- [v \in Visitors |-> visit[v].key],
    shown <- [v \in Visitors |-> IF visit[v].at = "away" THEN visit[v].value ELSE Nothing]
ServesRegister == Register!RegisterSpec

\* The memo does not keep an unreadable report while it can be read again.
ReadRecovers ==
    \A s \in Sites :
        memo[s].key # Nothing /\ memo[s].value = Nothing ~> memo[s].value # Nothing

=============================================================================
