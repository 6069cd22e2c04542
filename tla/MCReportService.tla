-------------------------- MODULE MCReportService --------------------------
(***************************************************************************)
(* A small instance of ReportService for TLC: two requests for a new       *)
(* report in one web server, a scheduled plex-duplicates run in a process  *)
(* of its own, two requests that look at the report and a page that waits. *)
(***************************************************************************)
EXTENDS ReportService, TLC

CONSTANTS click1, click2, cron, page1, page2, tab, server, shell

Regenerations == {click1, click2, cron}
Pages == {page1, page2, tab}
ProcessOf == (click1 :> server) @@ (click2 :> server) @@ (cron :> shell)
Unsupported == {click2, cron}
TabOf == [w \in {tab} |-> server]
ServerOf == [v \in Pages |-> server]
WhoMeet == {Regenerations, {click1, page1, page2}, {click1, tab}}
OnePage == {{cron, page1}}

=============================================================================
