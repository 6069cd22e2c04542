-------------------------- MODULE MCReclaimStaging --------------------------
(* Small instances of ReclaimStaging for TLC. *)
EXTENDS ReclaimStaging

NoPart == {}
NoFault == {}
OnlyHand == {"hand"}

=============================================================================
