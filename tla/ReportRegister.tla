---------------------------- MODULE ReportRegister ----------------------------
(***************************************************************************)
(* What those who look at the report may rely on, whatever lies between    *)
(* them and the file: a register with one writer at a time.  A request     *)
(* that asks is answered with nothing or with a report that was the        *)
(* current one at some time while it was asking.                           *)
(***************************************************************************)
EXTENDS Integers

CONSTANT Readers

VARIABLES
    current, \* number of the report last published; 0: none yet
    asked,   \* asked[r]: the report current when r began to ask; 0: r does not ask
    shown    \* shown[r]: the report r was last answered with; 0: nothing

registerVars == <<current, asked, shown>>

RegisterInit ==
    /\ current = 0
    /\ asked = [r \in Readers |-> 0]
    /\ shown = [r \in Readers |-> 0]

Write ==
    /\ current' = current + 1
    /\ UNCHANGED <<asked, shown>>

Ask(r) ==
    /\ asked[r] = 0 /\ current # 0
    /\ asked' = [asked EXCEPT ![r] = current]
    /\ shown' = [shown EXCEPT ![r] = 0]
    /\ UNCHANGED current

Answer(r) ==
    /\ asked[r] # 0
    /\ asked' = [asked EXCEPT ![r] = 0]
    /\ \E e \in {0} \cup asked[r]..current : shown' = [shown EXCEPT ![r] = e]
    /\ UNCHANGED current

\* Some readers are gone; others may ask in their place.
Leave ==
    /\ \E R \in SUBSET Readers :
        /\ asked' = [r \in Readers |-> IF r \in R THEN 0 ELSE asked[r]]
        /\ shown' = [r \in Readers |-> IF r \in R THEN 0 ELSE shown[r]]
    /\ UNCHANGED current

RegisterNext == Write \/ Leave \/ \E r \in Readers : Ask(r) \/ Answer(r)

RegisterSpec == RegisterInit /\ [][RegisterNext]_registerVars

=============================================================================
