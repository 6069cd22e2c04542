------------------------------ MODULE FencedLease ------------------------------
(***************************************************************************)
(* What the extraction ledger is to its runs: one lease per archive, under *)
(* a token that was never granted before.  A lease may be granted anew at  *)
(* any time, whoever held it; from then on the one before it is worth      *)
(* nothing, and its holder can only find out.  What an archive yielded is  *)
(* recorded by the holder of its lease alone.                              *)
(***************************************************************************)
EXTENDS Integers

CONSTANTS Holders, Resources, Yields, Nothing

VARIABLES
    granted, \* every token up to this one has been granted
    lease,   \* lease[x]: the token x is leased under; 0: not leased
    held,    \* held[h]: the token h works under, and on what; 0: none
    yield    \* yield[x]: what is recorded of x

leaseVars == <<granted, lease, held, yield>>

Idle == [token |-> 0, on |-> 0]

LeaseInit ==
    /\ granted = 0
    /\ lease = [x \in Resources |-> 0]
    /\ held = [h \in Holders |-> Idle]
    /\ yield = [x \in Resources |-> Nothing]

\* The holder works on nothing any more.
Quit(h) == held[h] # Idle /\ held' = [held EXCEPT ![h] = Idle]

\* A fresh lease, free or taken away from another.
Grant(h, x) ==
    /\ held[h] = Idle
    /\ granted' = granted + 1
    /\ lease' = [lease EXCEPT ![x] = granted + 1]
    /\ held' = [held EXCEPT ![h] = [token |-> granted + 1, on |-> x]]
    /\ UNCHANGED yield

\* The lease is up, with a yield or without: only for its holder.
Ends(h, x) ==
    /\ held[h].token = lease[x] /\ held[h].on = x
    /\ lease' = [lease EXCEPT ![x] = 0]
    /\ \/ UNCHANGED yield
       \/ yield'[x] \in Yields /\ yield' = [yield EXCEPT ![x] = yield'[x]]
    /\ Quit(h)
    /\ UNCHANGED granted

\* The holder is revoked, fails or dies; its lease stays behind, if it has it.
Gone(h) == Quit(h) /\ UNCHANGED <<granted, lease, yield>>

\* Old yields are forgotten.
Expire ==
    /\ \E X \in SUBSET Resources : yield' = [x \in Resources |-> IF x \in X THEN Nothing ELSE yield[x]]
    /\ UNCHANGED <<granted, lease, held>>

LeaseNext ==
    \/ \E h \in Holders, x \in Resources : Grant(h, x) \/ Ends(h, x)
    \/ \E h \in Holders : Gone(h)
    \/ Expire

LeaseSpec == LeaseInit /\ [][LeaseNext]_leaseVars

=============================================================================
