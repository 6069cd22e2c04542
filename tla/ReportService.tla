---------------------------- MODULE ReportService ----------------------------
(***************************************************************************)
(* The report between those who write it and those who look at it:         *)
(* regenerations (ReportRescan), the pages that wait for them (RescanPage) *)
(* and the requests that show the report (ReportViewer) meet in the file   *)
(* on disk, in the status of a server and in the processes that die.       *)
(***************************************************************************)
EXTENDS RescanPage, ReportViewer

CONSTANT Scenes \* who takes part in a behaviour: sets of actors and visitors

ASSUME SceneAssumption ==
    /\ Sites = Servers /\ \A s \in Scenes : s \subseteq Actors \cup Visitors
    /\ Watchers \subseteq Visitors /\ \A w \in Watchers : SiteOf[w] = HomeOf[w]

VARIABLES
    since,  \* since[w]: a regeneration that page w has waited for publishes a later report
    around  \* who takes part

serviceVars == <<vars, viewerVars, pageVars, since, around>>

ServiceInit ==
    /\ Init /\ ViewerInit /\ PageInit
    /\ since = [w \in Watchers |-> Nothing]
    /\ around \in Scenes

\* A regeneration publishes the file that visitors read.
Regenerates(a) ==
    /\ \/ (Work(a) \/ Trigger(a) \/ Command(a)) /\ UNCHANGED viewerVars
       \/ Publish(a) /\ Published
    /\ UNCHANGED <<pageVars, since>>

\* A page that is rendered anew waits for the run it says is under way, which
\* may still fail to be spawned and then records no outcome.
Unpublished(h) == \E a \in AtWork(h) : phase[a] \in {"lock", "generate", "publish"}
Waits(w) ==
    /\ PageStep(w)
    /\ watch[w].at = "off" => visit[w].at = "away"
    /\ since' = IF Rendered(w) /\ watch[w].at \in {"off", "status"}
                THEN [since EXCEPT ![w] = IF Unpublished(HomeOf[w]) THEN edition ELSE Nothing]
                ELSE since
    /\ UNCHANGED <<vars, viewerVars>>

\* A page whose regeneration succeeded has gone to the report.
Landing(w) == w \in Watchers /\ watch[w].at = "report"

Asks(v) ==
    /\ v \notin Watchers \/ Landing(v) \/ visit[v].at # "away"
    /\ Visiting(v)
    /\ IF Landing(v) /\ visit'[v].at = "away"
       THEN Turns(v, "off", 0) ELSE UNCHANGED watch
    /\ UNCHANGED <<vars, admitted, since>>

\* A process that dies takes along the regenerations and the requests in it.
Dies(h) ==
    /\ \/ Crash(h) /\ (IF h \in Servers THEN Forgotten(h) ELSE UNCHANGED viewerVars)
       \/ h \in Servers /\ Forgotten(h) /\ UNCHANGED vars /\ AtWork(h) = {}
    /\ UNCHANGED <<pageVars, since>>

ServiceNext ==
    /\ \/ LibraryChanges /\ UNCHANGED <<viewerVars, pageVars, since>>
       \/ \E a \in Actors \cap around : Regenerates(a)
       \/ \E w \in Watchers \cap around : Waits(w)
       \/ \E v \in Visitors \cap around : Asks(v)
       \/ \E h \in Hosts : Dies(h)
    /\ UNCHANGED around

ServiceSpec == ServiceInit /\ [][ServiceNext]_serviceVars

\* A regeneration that is under way goes on, as in ReportRescan, and so does the
\* script of a page: its timers fire, and a request ends at its deadline.
ServiceFairSpec ==
    /\ ServiceSpec
    /\ \A a \in Actors : WF_serviceVars(
        /\ (Work(a) /\ UNCHANGED viewerVars) \/ (Publish(a) /\ Published)
        /\ UNCHANGED <<pageVars, since, around>>)
    /\ \A w \in Watchers : WF_serviceVars(Script(w) /\ Waits(w) /\ UNCHANGED around)

\* Visitors that go on asking, of a server that stays up, and reads that succeed
\* whenever they are tried again and again.
VisitedSpec ==
    /\ ServiceInit /\ [][ServiceNext /\ \A s \in Sites : memo'[s] = NoEntry => memo[s] = NoEntry]_serviceVars
    /\ \A v \in Visitors :
        /\ WF_serviceVars(v \in around /\ Asks(v) /\ UNCHANGED around)
        /\ SF_serviceVars(v \in around /\ Asks(v) /\ visit'[v].value # Nothing /\ UNCHANGED around)

\* Whoever waits on its page for a regeneration that has a thread and is sent to the report because
\* it succeeded is shown a report published after the page was rendered, also
\* when the page waited through failures, skips, crashes and runs of others.
SuccessShown ==
    [][\A w \in Watchers :
        Landing(w) /\ visit[w].at # "away" /\ visit'[w].at = "away" /\ ~Landing(w)' =>
            visit'[w].value \in {Nothing} \cup since[w] + 1..edition]_serviceVars

=============================================================================
