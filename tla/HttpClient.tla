----------------------------- MODULE HttpClient -----------------------------
(***************************************************************************)
(* JsonHttpClient: one request of a client to its service, tried again     *)
(* when the transport fails and the method may be repeated.  A client      *)
(* sends one request at a time; the modules that extend this one say which *)
(* request it is and what the service does with it.                        *)
(***************************************************************************)
EXTENDS Integers

CONSTANT MaxAttempts \* HTTP_MAX_ATTEMPTS as it is configured

ASSUME AttemptsAssumption == MaxAttempts \in Int

VARIABLE attempt \* the try of the request in flight

Tries == IF MaxAttempts < 1 THEN 1 ELSE MaxAttempts

\* How a try can end besides a body: a 5xx, no connection, a connection lost
\* after the request was sent; and what no repetition can mend.
Transient == {"broken", "unreachable", "dropped"}

\* A redirect to another host, or from https to http, is not followed: it is
\* an error that carries the 3xx code.
Refused == {"redirected"}
Deterministic == {"forbidden", "missing", "rejected"} \cup Refused
Failures == Transient \cup Deterministic

\* A body cut short, or that is not UTF-8, is no OSError: it escapes the mapping,
\* neither tried again nor raised as the client's own error.
Unmapped == {"mangled"}

\* Mutation of Retries: one try too many.
RetriesPastLimit(method, r) == method \in {"GET", "HEAD"} /\ r \in Transient /\ attempt <= Tries

\* Mutation of Retries: the method does not matter.
RetriesAny(method, r) == r \in Transient /\ attempt < Tries

Retries(method, r) == method \in {"GET", "HEAD"} /\ r \in Transient /\ attempt < Tries

Again(method, r) == Retries(method, r) /\ attempt' = attempt + 1

\* The last try, whose result the caller gets.
Final(method, r) == ~Retries(method, r) /\ attempt' = 1

=============================================================================
