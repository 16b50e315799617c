-------------------------- MODULE MCStdioSessions --------------------------
(* Constants for model-checking StdioSessions. *)
EXTENDS StdioSessions

CONSTANTS k1, k2, k3, c1, c2

OneKey == {k1}
TwoKeys == {k1, k2}
ThreeKeys == {k1, k2, k3}
TwoXKeys == {1, 2}
OneXKey == {1}
OneClient == {c1}
TwoClients == {c1, c2}
SafeOnly == {"safe"}
SafeAndStateful == {"safe", "stateful"}

Req(op, k, x) == [op |-> op, key |-> k, excl |-> x, ttl |-> TRUE, bad_args |-> FALSE]

\* Requests that find the child of a cached session exited.
ColdRequests == {Req("execute", k1, {})}

\* Requests that compete for exclusive keys; those that name the same session
\* claim the same keys.  Beside them, requests for a session without exclusive
\* keys, one not answered in full.
ConcurrentRequests ==
  {Req("execute", k1, {1, 2}), Req("execute", k2, {2}), Req("help", k1, {}),
   Req("execute", k3, {}), [Req("help", k3, {}) EXCEPT !.bad_args = TRUE]}

\* One of each kind.
AllRequests ==
  {Req("execute", k1, {1}), Req("execute", k1, {2}), Req("help", k1, {}),
   Req("kill", k1, {}), Req("subscribe", k2, {1, 2}),
   [Req("execute", k2, {}) EXCEPT !.ttl = FALSE]}
=============================================================================
