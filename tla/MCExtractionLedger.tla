------------------------- MODULE MCExtractionLedger -------------------------
(***************************************************************************)
(* Model values and bounds for checking ExtractionLedger with TLC.         *)
(***************************************************************************)
EXTENDS ExtractionLedger

CONSTANTS service, oneShot

TwoRuns == {service, oneShot}

\* Two versions of an archive that only their mtime tells apart, a third that
\* differs in size as well.
Sizes == [v \in 1..MaxVersion |-> IF v <= 2 THEN 10 ELSE 20]

=============================================================================
