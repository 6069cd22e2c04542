--------------------------- MODULE ServiceClients ---------------------------
(***************************************************************************)
(* The two readers of other services over their common transport: the      *)
(* cleaner's polls of qBittorrent and the generation of a report.  They    *)
(* run in processes of their own and share nothing but the code, so a      *)
(* behaviour follows one of the two.                                       *)
(***************************************************************************)
EXTENDS QbittorrentClient, ReportGeneration

VARIABLE client \* the one this behaviour follows

vars == <<attempt, polling, generation, client>>

Init ==
    /\ PollInit /\ ReportInit
    /\ client \in {"cleaner", "reporter"}
    /\ client = "reporter" => door = "open"

Next ==
    /\ \/ client = "cleaner" /\ PollNext /\ UNCHANGED generation
       \/ client = "reporter" /\ ReportNext /\ UNCHANGED polling
    /\ UNCHANGED client

Spec == Init /\ [][Next]_vars

\* serve_forever polls again and again, and sockets time out: whoever has a
\* request to make or an answer to take goes on.
FairSpec ==
    /\ Spec
    /\ WF_vars(client = "cleaner" /\ Call /\ UNCHANGED <<generation, client>>)
    /\ WF_vars(client = "cleaner" /\ PollStep /\ UNCHANGED <<generation, client>>)
    /\ WF_vars(client = "reporter" /\ ReportStep /\ UNCHANGED <<polling, client>>)

-----------------------------------------------------------------------------
\* Every variable has its type.
TypeOK == PollTypeOK /\ ReportTypeOK /\ client \in {"cleaner", "reporter"}

\* Every call of the cleaner and every generation of a report comes to an end,
\* however often a service refuses or fails: a 403 to every request, a library
\* that changes between pages (Edits times at most).  It takes a Plex that heeds
\* the position it is asked for (Paged) or says how many entries there are: the
\* loop over the pages has no bound of its own, and a server that does neither
\* keeps it going for ever.
RequestsEnd == CallEnds /\ GenerationEnds

=============================================================================
