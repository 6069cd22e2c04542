------------------------------ MODULE RescanPage ------------------------------
(***************************************************************************)
(* The status page of a regeneration in a browser, with its live poll:     *)
(* every few seconds it asks the server whether the regeneration is under  *)
(* way, and it leaves for the report, or for the status page, when it is   *)
(* not or when too many polls in a row have failed.  A poll may hang, fail *)
(* or be refused: sessions lapse, servers die, proxies do as they like.    *)
(***************************************************************************)
EXTENDS ReportRescan

CONSTANTS
    Watchers,   \* browser pages
    HomeOf,     \* the server a page is of
    MaxFailures \* _RESCAN_POLL_MAX_FAILURES

ASSUME PageAssumption ==
    HomeOf \in [Watchers -> Servers] /\ MaxFailures \in Nat \ {0}

VARIABLES
    watch,   \* watch[w]: where the script of a page stands, and its `fails`
    admitted \* pages whose browser holds a live unlock session

pageVars == <<watch, admitted>>

Off == [at |-> "off", fails |-> 0]
Busy(w) == HomeOf[w] \in running

PageInit ==
    /\ watch = [w \in Watchers |-> Off]
    /\ admitted = Watchers

Turns(w, at, fails) == watch' = [watch EXCEPT ![w] = [at |-> at, fails |-> fails]]

\* A status page is rendered while a regeneration is under way: the script
\* starts with its timer.
Rendered(w) ==
    /\ w \in admitted /\ Busy(w)
    /\ Turns(w, "wait", 0)

\* The operator has asked for a regeneration, or looks at the status.
Watches(w) ==
    /\ watch[w].at = "off"
    /\ Rendered(w)
    /\ UNCHANGED admitted

\* poll: the timer fires and the request is sent.
Polls(w) ==
    /\ watch[w].at = "wait"
    /\ Turns(w, "fetch", watch[w].fails)
    /\ UNCHANGED admitted

\* The status of the server arrives: again later, or leave.
Answered(w) ==
    /\ watch[w].at = "fetch" /\ w \in admitted
    /\ IF Busy(w) THEN Turns(w, "wait", 0)
                  ELSE Turns(w, IF last[HomeOf[w]] = "succeeded" THEN "report" ELSE "status", 0)
    /\ UNCHANGED admitted

\* Mutation of PollFails: a failure is a reason to try again, always.
PollFailsForgiven(w) ==
    /\ watch[w].at = "fetch"
    /\ Turns(w, "wait", 0)
    /\ UNCHANGED admitted

\* Refused, broken off, or aborted when the deadline has passed.
PollFails(w) ==
    /\ watch[w].at = "fetch"
    /\ IF watch[w].fails + 1 < MaxFailures THEN Turns(w, "wait", watch[w].fails + 1)
                                           ELSE Turns(w, "status", 0)
    /\ UNCHANGED admitted

\* The browser has gone to the status page: again one with a script, or one that
\* stays (the outcome, the unlock form, the browser's own error page).
Arrives(w) ==
    /\ watch[w].at = "status"
    /\ Rendered(w) \/ Turns(w, "off", 0)
    /\ UNCHANGED admitted

\* The page is closed, or the report it is to show cannot be had.
Closes(w) ==
    /\ watch[w].at # "off"
    /\ Turns(w, "off", 0)
    /\ UNCHANGED admitted

SessionLapses(w) == w \in admitted /\ admitted' = admitted \ {w} /\ UNCHANGED watch
Unlocks(w) == w \notin admitted /\ admitted' = admitted \cup {w} /\ UNCHANGED watch

\* What the script does by itself.
Script(w) == Polls(w) \/ Answered(w) \/ PollFails(w) \/ Arrives(w)

PageStep(w) == Script(w) \/ Watches(w) \/ Closes(w) \/ SessionLapses(w) \/ Unlocks(w)

-----------------------------------------------------------------------------
(* What the page promises.                                                 *)

PageTypeOK ==
    /\ watch \in [Watchers -> [at : {"off", "wait", "fetch", "status", "report"}, fails : 0..MaxFailures - 1]]
    /\ admitted \subseteq Watchers

\* A page does not say "regenerating" for ever: when from some time on no
\* regeneration is under way, or the session is no longer live, the page comes to
\* rest, whatever mixture of answers, errors, refusals and hangs it meets.
Regenerating(w) == watch[w].at \in {"wait", "fetch", "status"}
PageSettles ==
    \A w \in Watchers :
        <>[](w \in admitted => ~Busy(w)) => (Regenerating(w) ~> ~Regenerating(w))

=============================================================================
