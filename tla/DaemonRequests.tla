---------------------------- MODULE DaemonRequests ----------------------------
(***************************************************************************)
(* One request to the daemon, from the client's call to the code that the  *)
(* CLI prints: frames, handle_connection and its methods, the permits that *)
(* bound email body reads, and what an error becomes on the wire and back. *)
(*                                                                         *)
(* A frame is what the handler tells apart of it; `outcome` is what the    *)
(* handler of the method returns, "ok" or the class of its error.  A       *)
(* payload is not modelled.  The wire answers with a code and, for a       *)
(* structured error, data; `code` in data is its own code.                 *)
(***************************************************************************)
EXTENDS Integers, FiniteSets, Sequences

CONSTANTS Conns,           \* connections, one request each
          Loads,           \* the frames they may carry: functions from Conns
          GlobalLimit,     \* EMAIL_BODY_GLOBAL_LIMIT
          QueueLimit,      \* EMAIL_BODY_QUEUE_LIMIT
          SourceLimit      \* EMAIL_BODY_SOURCE_LIMIT

ASSUME ConnsAssumption == IsFiniteSet(Conns)
ASSUME LimitsAssumption == GlobalLimit \in Nat /\ QueueLimit \in Nat /\ SourceLimit \in Nat

VARIABLES frame,     \* connection -> the frame its client sends
          at,        \* connection -> where its handler is
          response,  \* connection -> the frames the handler has written
          printed,   \* connection -> the code the client ends with
          queued,    \* connections that hold a permit of `queue`
          granted,   \* connections that hold a permit of `global`
          busy,      \* connections that hold their source's permit
          stopping   \* should_stop

reqVars == <<frame, at, response, printed, queued, granted, busy, stopping>>

-----------------------------------------------------------------------------
(* The wire. *)

Unused == [method |-> "none"]   \* the frame of a connection that is never opened
Frames == [header : STRING, lengths : Seq(STRING), json : BOOLEAN, request : BOOLEAN,
           version : STRING, method : STRING, params : STRING, outcome : STRING,
           source : STRING, output : STRING]
ASSUME LoadsAssumption == Loads \subseteq [Conns -> Frames \cup {Unused}]

Bare == {"daemon.ping", "daemon.status", "daemon.sessions", "daemon.shutdown", "source.list"}
EmailMethods == {"email.send", "email.reply", "email.body.read", "email.attachment.get"}
OtherMethods == {"daemon.session.kill", "runtime.invoke", "source.ensure", "source.status",
                 "source.doctor", "source.stop", "source.delete",
                 "stream.read", "stream.info", "stream.trim"}

\* read_frame: the header ends within 8192 bytes, names a length (the last
\* Content-Length counts), the length is within the limit, the bytes are JSON.
Readable(f) == /\ f.header = "small"
               /\ f.lengths # <<>>
               /\ f.lengths[Len(f.lengths)] = "fits"
               /\ f.json

Wire(code, data) == [id |-> "request", code |-> code, data |-> data]
Anonymous(code) == [id |-> "null", code |-> code, data |-> "none"]
Result == Wire(0, "none")

\* The variants of UxcError, a StructuredError anywhere in the chain, a
\* serde_json error, and anything else.
Uxc == {"ProtocolDetectionFailed", "UnsupportedProtocol", "SchemaRetrievalFailed",
        "OperationNotFound", "InvalidArguments", "CursorExpired", "ExecutionFailed",
        "HttpError", "OAuthRequired", "OAuthDiscoveryFailed", "OAuthTokenExchangeFailed",
        "OAuthSessionNotFound", "OAuthSessionExpired", "OAuthRefreshFailed",
        "OAuthScopeInsufficient", "DaemonVersionMismatch", "NetworkError"}
BodyCodes == {"invalid_input", "identity_missing", "stale", "not_found", "auth_required",
              "capability_unavailable", "parse_failed", "resource_limit"}
BodyRetryable == {"timeout", "cancelled", "provider_unavailable"}
AttachmentCodes == {"invalid_attachment_handle", "invalid_output", "auth_profile_missing",
                    "auth_failed", "attachment_not_found", "message_not_found",
                    "uid_invalid", "size_limit_exceeded"}
AttachmentRetryable == {"provider_request_failed", "timeout"}

\* map_runtime_error_code.  CursorExpired is the InvalidArguments whose
\* message starts with "subscription cursor expired".
WireCode(e) ==
    CASE e \in {"ProtocolDetectionFailed", "UnsupportedProtocol"} -> -32010
      [] e = "CursorExpired" -> -32015
      [] e = "InvalidArguments" -> -32602
      [] e = "OperationNotFound" -> -32011
      [] e = "OAuthRequired" -> -32012
      [] e = "OAuthRefreshFailed" -> -32013
      [] e = "OAuthScopeInsufficient" -> -32014
      [] OTHER -> -32030

\* jsonrpc_error_from_anyhow: a structured error keeps its payload.
FromAnyhow(e) == Wire(IF e \in Uxc THEN WireCode(e) ELSE -32030,
                      IF e \notin Uxc \cup {"json", "other"} THEN e ELSE "none")

\* email_body_read_jsonrpc_error and email_attachment_get_jsonrpc_error: only
\* known codes pass, everything else is the provider's fault.
BodyError(e) == Wire(-32030, IF e \in BodyCodes \cup BodyRetryable THEN e ELSE "provider_unavailable")
AttachmentError(e) ==
    Wire(-32030, IF e \in AttachmentCodes \cup AttachmentRetryable THEN e ELSE "provider_request_failed")
Retryable(code) == code \in BodyRetryable \cup AttachmentRetryable

ErrorOf(m, e) == CASE m = "email.body.read" -> BodyError(e)
                   [] m = "email.attachment.get" -> AttachmentError(e)
                   [] OTHER -> FromAnyhow(e)

-----------------------------------------------------------------------------
(* The client: client_call, then the code that the CLI prints. *)

\* error_code, and the structured code that takes precedence over it.
ErrorCode(e) ==
    CASE e \in {"ProtocolDetectionFailed", "UnsupportedProtocol"} -> "PROTOCOL_DETECTION_FAILED"
      [] e = "OperationNotFound" -> "OPERATION_NOT_FOUND"
      [] e \in {"InvalidArguments", "CursorExpired", "json"} -> "INVALID_ARGUMENT"
      [] e = "HttpError" -> "HTTP_ERROR"
      [] e = "OAuthRequired" -> "OAUTH_REQUIRED"
      [] e = "OAuthDiscoveryFailed" -> "OAUTH_DISCOVERY_FAILED"
      [] e = "OAuthTokenExchangeFailed" -> "OAUTH_TOKEN_EXCHANGE_FAILED"
      [] e = "OAuthSessionNotFound" -> "OAUTH_SESSION_NOT_FOUND"
      [] e = "OAuthSessionExpired" -> "OAUTH_SESSION_EXPIRED"
      [] e = "OAuthRefreshFailed" -> "OAUTH_REFRESH_FAILED"
      [] e = "OAuthScopeInsufficient" -> "OAUTH_SCOPE_INSUFFICIENT"
      [] e = "DaemonVersionMismatch" -> "DAEMON_VERSION_MISMATCH"
      [] e \in {"SchemaRetrievalFailed", "ExecutionFailed", "NetworkError", "other"} -> "EXECUTION_FAILED"
      [] OTHER -> e

\* The error that client_call makes of an error response: the structured one
\* of its data, or one that stands for its code.
ClientError(r) == CASE r.data # "none" -> r.data
                    [] r.data = "none" /\ r.code = -32602 -> "InvalidArguments"
                    [] r.data = "none" /\ r.code = -32010 -> "ProtocolDetectionFailed"
                    [] r.data = "none" /\ r.code = -32011 -> "OperationNotFound"
                    [] r.data = "none" /\ r.code = -32012 -> "OAuthRequired"
                    [] r.data = "none" /\ r.code = -32013 -> "OAuthRefreshFailed"
                    [] r.data = "none" /\ r.code = -32014 -> "OAuthScopeInsufficient"
                    [] OTHER -> "other"
Printed(r) == IF r.code = 0 THEN "ok" ELSE ErrorCode(ClientError(r))

-----------------------------------------------------------------------------
(* The handler. *)

ReqInit ==
    /\ frame = [c \in Conns |-> Unused]
    /\ at = [c \in Conns |-> "closed"]
    /\ response = [c \in Conns |-> <<>>]
    /\ printed = [c \in Conns |-> "none"]
    /\ queued = {} /\ granted = {} /\ busy = {}
    /\ stopping = FALSE

Goto(c, l) == at' = [at EXCEPT ![c] = l]

\* The accept loop takes the connections and starts a handler for each.
AcceptAll ==
    /\ \A c \in Conns : frame[c] = Unused
    /\ frame' \in Loads
    /\ at' = [c \in Conns |-> IF frame'[c] = Unused THEN "closed" ELSE "read"]
    /\ UNCHANGED <<response, printed, queued, granted, busy, stopping>>

\* The response goes out, and client_call takes it if it still waits.
Write(c, r) == /\ response' = [response EXCEPT ![c] = Append(@, r)]
               /\ printed' = [printed EXCEPT ![c] = IF @ = "none" THEN Printed(r) ELSE @]
               /\ Goto(c, "done")

\* handle_connection up to the method: a frame that cannot be read or is no
\* request is answered without an id, a wrong version with it.
ReadRequest(c) ==
    LET f == frame[c] IN
    /\ at[c] = "read"
    /\ CASE ~Readable(f) -> Write(c, Anonymous(-32700))
         [] Readable(f) /\ ~f.request -> Write(c, Anonymous(-32600))
         [] Readable(f) /\ f.request /\ f.version # "2.0" -> Write(c, Wire(-32600, "none"))
         [] OTHER -> Goto(c, "method") /\ UNCHANGED <<response, printed>>
    /\ UNCHANGED <<frame, queued, granted, busy, stopping>>

\* Methods that take no parameters, and names that are no method.
BareMethod(c) ==
    /\ at[c] = "method" /\ frame[c].method \notin EmailMethods \cup OtherMethods
    /\ Write(c, CASE frame[c].method \notin Bare -> Wire(-32601, "none")
                  [] frame[c].method = "source.list" /\ frame[c].outcome # "ok" ->
                       FromAnyhow(frame[c].outcome)
                  [] OTHER -> Result)
    /\ stopping' = (stopping \/ frame[c].method = "daemon.shutdown")
    /\ UNCHANGED <<frame, queued, granted, busy>>

\* Parameters are checked before anything is done.
CheckParams(c) ==
    /\ at[c] = "method" /\ frame[c].method \in EmailMethods \cup OtherMethods
    /\ IF frame[c].params \in {"missing", "invalid"}
       THEN Write(c, Wire(-32602, "none"))
       ELSE /\ Goto(c, IF frame[c].method = "email.body.read" THEN "global" ELSE "run")
            /\ UNCHANGED <<response, printed>>
    /\ UNCHANGED <<frame, queued, granted, busy, stopping>>

\* acquire_global on tokio's semaphores, step by step, for other handlers run
\* in between: the first try for a permit,
AcquireGlobal(c) ==
    /\ at[c] = "global"
    /\ IF Cardinality(granted) < GlobalLimit
       THEN granted' = granted \cup {c} /\ Goto(c, "granted")
       ELSE Goto(c, "full") /\ UNCHANGED granted
    /\ UNCHANGED <<frame, response, printed, queued, busy, stopping>>

\* then a place in the queue, or the refusal, whatever became of the permits,
Enqueue(c) ==
    /\ at[c] = "full"
    /\ IF Cardinality(queued) < QueueLimit
       THEN queued' = queued \cup {c} /\ Goto(c, "queued") /\ UNCHANGED <<response, printed>>
       ELSE Write(c, BodyError("resource_limit")) /\ UNCHANGED queued
    /\ UNCHANGED <<frame, granted, busy, stopping>>

\* then the first poll of acquire_owned, which takes a free permit at once.
Await(c) ==
    /\ at[c] = "queued" /\ Goto(c, "waiting")
    /\ granted' = IF Cardinality(granted) < GlobalLimit THEN granted \cup {c} ELSE granted
    /\ UNCHANGED <<frame, response, printed, queued, busy, stopping>>

\* Fault for Granted: the place in the queue is kept with the permit.
GrantedInQueue(c) ==
    /\ at[c] = "waiting" /\ c \in granted /\ Goto(c, "granted")
    /\ UNCHANGED <<frame, response, printed, queued, granted, busy, stopping>>

\* The handler that was given a permit runs on and leaves the queue.
Granted(c) ==
    /\ at[c] = "waiting" /\ c \in granted /\ Goto(c, "granted")
    /\ queued' = queued \ {c}
    /\ UNCHANGED <<frame, response, printed, granted, busy, stopping>>

\* read_email_body with the permit in hand: a local input needs no source.
NeedsSource(c) == frame[c].source # "local"
BusyFor(s) == {d \in busy : frame[d].source = s}
AcquireSource(c) ==
    /\ at[c] = "granted"
    /\ IF NeedsSource(c)
       THEN /\ Cardinality(BusyFor(frame[c].source)) < SourceLimit
            /\ busy' = busy \cup {c}
       ELSE UNCHANGED busy
    /\ Goto(c, "run")
    /\ UNCHANGED <<frame, response, printed, queued, granted, stopping>>

\* A permit that is dropped goes to a waiting handler before it is free for
\* others, while that handler still has its place in the queue.  (tokio takes
\* the one that waits longest; nothing here depends on which.)
Waiters == {d \in Conns : at[d] = "waiting"} \ granted
HandOver(c) ==
    IF c \in granted /\ Waiters # {}
    THEN \E w \in Waiters : granted' = (granted \ {c}) \cup {w}
    ELSE granted' = granted \ {c}

\* Fault for Release: the permit of the source is not given back.
ReleaseGlobal(c) == queued' = queued \ {c} /\ HandOver(c) /\ UNCHANGED busy

\* The permits are dropped with the future that holds them.
Release(c) == queued' = queued \ {c} /\ HandOver(c) /\ busy' = busy \ {c}

\* The method's own work ends.
Finish(c) ==
    /\ at[c] = "run"
    /\ Write(c, IF frame[c].outcome = "ok" THEN Result ELSE ErrorOf(frame[c].method, frame[c].outcome))
    /\ Release(c)
    /\ UNCHANGED <<frame, stopping>>

\* EMAIL_BODY_DEADLINE passes, wherever the read is; EMAIL_ATTACHMENT_DEADLINE
\* during the retrieval.
Deadline(c) ==
    /\ \/ frame[c].method = "email.body.read" /\ at[c] \in {"waiting", "granted", "run"}
       \/ frame[c].method = "email.attachment.get" /\ at[c] = "run" /\ frame[c].output = "absolute"
    /\ Write(c, ErrorOf(frame[c].method, "timeout"))
    /\ Release(c)
    /\ UNCHANGED <<frame, stopping>>

\* client_call gives up after FRAME_IO_TIMEOUT_SECS; the handler goes on.  The
\* deadlines of email reads are shorter.
GiveUp(c) ==
    /\ printed[c] = "none" /\ at[c] = "run"
    /\ frame[c].method \notin {"email.body.read", "email.attachment.get"}
    /\ printed' = [printed EXCEPT ![c] = "gave_up"]
    /\ UNCHANGED <<frame, at, response, queued, granted, busy, stopping>>

HandlerStep(c) ==
    \/ ReadRequest(c) \/ BareMethod(c) \/ CheckParams(c)
    \/ AcquireGlobal(c) \/ Enqueue(c) \/ Await(c) \/ Granted(c)
    \/ AcquireSource(c) \/ Finish(c) \/ Deadline(c)
ReqNext == AcceptAll \/ \E c \in Conns : HandlerStep(c) \/ GiveUp(c)

\* Handlers are tasks that tokio runs: some handler that can move does.
ReqSpec == ReqInit /\ [][ReqNext]_reqVars /\ WF_reqVars(\E c \in Conns : HandlerStep(c))

-----------------------------------------------------------------------------
\* A read is refused only while as many others as the queue has places have
\* not yet run on with a permit: every way out of the queue, deadlines included,
\* gives the place back (EmailBodyLimiter, read_email_body).  One that was just
\* handed its permit still counts, so a newcomer may be refused although fewer
\* than QueueLimit wait.
RefusedOnlyWhenFull ==
    [][\A c \in Conns :
         at[c] = "full" /\ at'[c] = "done"
           => Cardinality({d \in Conns : at[d] \in {"queued", "waiting"}}) >= QueueLimit]_reqVars

\* No source is asked by more than its limit at once, permits are held by reads
\* under way only and are never more than there are, and none is free while a
\* read waits for one.
PermitsAreHeld ==
    /\ \A c \in busy : Cardinality(BusyFor(frame[c].source)) <= SourceLimit /\ at[c] = "run"
    /\ \A c \in granted : at[c] \in {"waiting", "granted", "run"}
    /\ Cardinality(granted) <= GlobalLimit
    /\ Waiters # {} => Cardinality(granted) >= GlobalLimit

\* No request gets two responses, whatever happens to its client.
AnsweredOnce == \A c \in Conns : Len(response[c]) <= 1
RequestPending == \E c \in Conns : response[c] = <<>> /\ at[c] # "closed"

\* The CLI reports an error of the daemon under the code it would have had in
\* the CLI's own process: for errors with a code of their own on the wire, and
\* structured ones; a caller cannot tell where the code ran.
Carried == (Uxc \ {"CursorExpired", "HttpError", "OAuthDiscoveryFailed", "OAuthTokenExchangeFailed",
                   "OAuthSessionNotFound", "OAuthSessionExpired", "DaemonVersionMismatch"})
           \cup {"other"} \cup BodyCodes \cup BodyRetryable \cup AttachmentCodes
Reached(c) == /\ Readable(frame[c]) /\ frame[c].request /\ frame[c].version = "2.0"
              /\ frame[c].params = "valid"
CodeKept ==
    \A c \in Conns :
      /\ printed[c] \notin {"none", "gave_up"} /\ Reached(c)
      /\ frame[c].method \in OtherMethods \cup {"email.send", "email.reply"}
      /\ frame[c].outcome \in Carried
      => printed[c] = ErrorCode(frame[c].outcome)

\* A client that retries what the daemon calls retryable never retries an
\* email error that trying again cannot mend.
RetryIsHonest ==
    \A c \in Conns :
      response[c] # <<>> /\ Retryable(response[c][1].data) /\ response[c][1].data # "timeout"
        => /\ frame[c].method = "email.body.read" => frame[c].outcome \notin BodyCodes
           /\ frame[c].method = "email.attachment.get" => frame[c].outcome \notin AttachmentCodes

\* Permits, answers, codes and retry advice together.
RequestsAreTrue == PermitsAreHeld /\ AnsweredOnce /\ CodeKept /\ RetryIsHonest

=============================================================================
