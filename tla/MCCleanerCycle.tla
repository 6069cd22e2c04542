--------------------------- MODULE MCCleanerCycle ---------------------------
(***************************************************************************)
(* Model values for checking CleanerCycle with TLC: a loose file at the    *)
(* watch root, a file in a directory below it, a torrent on the one and a  *)
(* torrent whose content is the other's directory.                         *)
(***************************************************************************)
EXTENDS CleanerCycle

CONSTANTS service, scan, loose, inner, dir, root, single, multi

TwoProcs == {service, scan}
Everywhere == [x \in Paths |-> IF x = inner THEN dir ELSE root]
Contents == [t \in Torrents |-> IF t = single THEN loose ELSE dir]
InnerSingle == [t \in Torrents |-> inner]
InnerBoth == [t \in Torrents |-> IF t = single THEN inner ELSE dir]

=============================================================================
