------------------------------- MODULE MCCalls -------------------------------
(***************************************************************************)
(* Calls and their answers, in three parts that share no state: requests   *)
(* to the daemon, a stdio MCP client and an HTTP MCP transport.  A         *)
(* behaviour is one of one part; the others stand still.                   *)
(*                                                                         *)
(* To the daemon go four email body reads that compete for permits, or one *)
(* request of any shape, method and outcome.                               *)
(***************************************************************************)
EXTENDS DaemonRequests, McpStdio, McpHttp
CONSTANTS r1, r2, r3, r4
VARIABLE part

Good == [header |-> "small", lengths |-> <<"fits">>, json |-> TRUE, request |-> TRUE, version |-> "2.0",
         method |-> "email.body.read", params |-> "valid", outcome |-> "ok", source |-> "a",
         output |-> "absolute"]
Malformed == {[Good EXCEPT !.header = "large"], [Good EXCEPT !.lengths = <<>>],
              [Good EXCEPT !.lengths = <<"fits", "large">>], [Good EXCEPT !.lengths = <<"large", "fits">>],
              [Good EXCEPT !.json = FALSE], [Good EXCEPT !.request = FALSE], [Good EXCEPT !.version = "1.0"]}
Outcomes == Uxc \cup {"json", "other", "STRUCTURED", "ok"} \cup BodyCodes \cup BodyRetryable
              \cup AttachmentCodes \cup AttachmentRetryable
Calls == {[Good EXCEPT !.method = m, !.params = p, !.outcome = o] :
            m \in Bare \cup EmailMethods \cup OtherMethods \cup {"unknown"},
            p \in {"missing", "invalid", "valid"}, o \in Outcomes}
Read(s) == [Good EXCEPT !.source = s]
Rush(s) == [c \in Conns |-> CASE c = r3 -> Read("b") [] c = r4 -> Read(s) [] OTHER -> Read("a")]
MCLoads == {[c \in Conns |-> IF c = r1 THEN f ELSE Unused] : f \in Malformed \cup Calls}
           \cup {Rush("a"), Rush("local")}

callVars == <<part, reqVars, stdioVars, mcpHttpVars>>
CallsInit ==
    /\ part \in {"daemon", "stdio", "http"}
    /\ ReqInit
    /\ StdioInit
    /\ McpHttpInit /\ (part = "http" \/ (wire.kind = "sse" /\ wire.refreshable))
CallsNext ==
    \/ part = "daemon" /\ ReqNext /\ UNCHANGED <<part, stdioVars, mcpHttpVars>>
    \/ part = "stdio" /\ StdioNext /\ UNCHANGED <<part, reqVars, mcpHttpVars>>
    \/ part = "http" /\ McpHttpNext /\ UNCHANGED <<part, reqVars, stdioVars>>

\* The fairness of each part's specification, for the part that runs.
CallsFair ==
    /\ WF_reqVars(part = "daemon" /\ \E c \in Conns : HandlerStep(c))
    /\ WF_stdioVars(part = "stdio" /\ Expire)
    /\ WF_mcpHttpVars(part = "http" /\ \E c \in HttpCallers : CallerStep(c))
    /\ WF_mcpHttpVars(part = "http" /\ \E s \in DOMAIN streams : ReaderFinishes(s))
CallsSpec == CallsInit /\ [][CallsNext]_callVars /\ CallsFair

\* A call of an MCP server ends with its own answer, over a pipe and over HTTP.
McpCallsAreTrue == StdioCallsAreTrue /\ HttpCallsAreTrue

\* What a step of a call may not do: refuse a read while there is room, lose the
\* newest notifications (EmailBodyLimiter, push_notification).
CallSteps == RefusedOnlyWhenFull /\ NewestNotes

Pending == CASE part = "daemon" -> RequestPending
             [] part = "stdio" -> StdioCallPending
             [] part = "http" -> HttpCallPending

\* Every call comes back: a request to the daemon is answered, a stdio call and an
\* HTTP call end with a response or an error, also one whose stream ended
\* between the check and the POST.
CallsEnd == Pending ~> ~Pending
=============================================================================
