----------------------------- MODULE SourceText -----------------------------
(***************************************************************************)
(* What `source ensure` makes of its options (main.rs,                     *)
(* build_managed_source_spec) and what the daemon makes of the result: the *)
(* protocol it reports and the job it runs (daemon.rs) are decided by two  *)
(* functions of their own.                                                 *)
(***************************************************************************)
EXTENDS CallText

Transports == {"websocket", "discord_gateway", "slack_socket_mode", "feishu_long_connection",
               "email_imap_idle", "email_provider_poll"}
\* Transports whose arguments are settings of the transport itself.
TakesSettings == Transports \ {"websocket", "slack_socket_mode"}

-----------------------------------------------------------------------------
(* in.op: "none", "{}" (a JSON object), or the form of the operation's     *)
(* name; in.args: sequence of "k=v", "{}" and "word"; in.json: the         *)
(* --input-json payload or "none"; in.frames: --subprotocol or             *)
(* --init-frame given.                                                     *)

\* discord-gateway: an object in the operation's place is the payload.
MovesPayload(in) == in.transport = "discord_gateway" /\ in.op = "{}"
TransportOp(in) == IF MovesPayload(in) THEN "none" ELSE in.op
TransportJson(in) == IF MovesPayload(in) THEN "{}" ELSE in.json

\* --read-resource is for a stream of one resource.
ReadRefused(in) == in.read /\ (~in.uri \/ in.mode # "stream")

\* The combinations the checks before the arguments refuse.
OptionsRefused(in) ==
   \/ MovesPayload(in) /\ in.json # "none"
   \/ in.transport # "websocket" /\ in.frames
   \/ in.transport # "none" /\ (TransportOp(in) # "none" \/ in.uri)
   \/ in.transport \in Transports \ {"email_provider_poll"} /\ in.mode # "stream"
   \/ in.transport = "email_provider_poll" /\ in.mode # "poll"
   \/ ReadRefused(in)

\* The arguments: an operation's, or settings of the transport.
SourceInputs(in) ==
   IF TransportOp(in) # "none" \/ in.transport \in TakesSettings
   THEN NormalizeOperationInputs(SelectSeq(in.args, LAMBDA t : t = "k=v"), TransportJson(in),
                                 SelectSeq(in.args, LAMBDA t : t # "k=v"))
   ELSE IF TransportJson(in) # "none" \/ in.args # <<>> THEN Reject
   ELSE Accept([args |-> <<>>, json |-> "none"])

\* args: "none", what the payload says, or the assignments
SpecArgs(in, given) ==
   IF TransportOp(in) = "none" /\ (in.transport = "none" \/ (given.json = "none" /\ given.args = <<>>)) THEN <<"none">>
   ELSE IF given.json # "none" THEN <<given.json>> ELSE given.args

BuildManagedSourceSpec(in) ==
   LET given == SourceInputs(in) IN
   IF OptionsRefused(in) \/ ~given.ok \/ in.poll = "garbled" THEN Reject
   ELSE Accept([endpoint |-> in.endpoint, op |-> TransportOp(in), args |-> SpecArgs(in, given.v), uri |-> in.uri,
                read |-> in.read, transport |-> in.transport, frames |-> in.frames, mode |-> in.mode, poll |-> in.poll])

-----------------------------------------------------------------------------
(******************************* the daemon ********************************)

\* resolve_jsonrpc_unsubscribe_operation: which names can be subscribed to
Subscribable(op) == op \in {"x_subscribe", "subscribe"}

\* resolve_stream_subscription_protocol: the protocol the status view names;
\* "stream" where it finds none.
NeedsScheme(transport) == CASE transport = "websocket" -> "ws" [] transport = "email_imap_idle" -> "imap" [] OTHER -> "http"
ReportedProtocol(spec) ==
   IF spec.transport # "none" THEN IF spec.endpoint = NeedsScheme(spec.transport) THEN spec.transport ELSE "stream"
   ELSE IF spec.op = "subscription/x" THEN IF spec.endpoint = "http" THEN "graphql" ELSE "stream"
   ELSE IF spec.op # "none" THEN IF spec.endpoint = "ws" /\ Subscribable(spec.op) THEN "jsonrpc" ELSE "stream"
   ELSE IF spec.uri THEN IF spec.endpoint \in {"stdio", "http"} THEN "mcp" ELSE "stream"
   ELSE IF spec.endpoint = "http" THEN "http" ELSE "stream"

\* run_stream_subscription_job: the job that is run, whatever was reported
DispatchedJob(spec) ==
   IF spec.transport \in Transports \ {"email_provider_poll"} THEN spec.transport
   ELSE IF spec.op # "none" THEN IF spec.op = "subscription/x" THEN "graphql" ELSE "jsonrpc"
   ELSE IF spec.uri THEN "mcp"
   ELSE "http"

\* resolve_poll_subscription_config: whether a poll source may start
PollAccepted(spec) ==
   /\ spec.op # "none" \/ spec.transport = "email_provider_poll"
   /\ ~spec.uri
   /\ spec.poll = "valid"

-----------------------------------------------------------------------------
(******************************* properties ********************************)

\* A source that `source ensure` accepts was asked for as it is: every option
\* is in the specification that is sent, the arguments in their order; unless
\* a payload was given as well, which replaces them.
SpecKeepsOptions(in) ==
   LET r == BuildManagedSourceSpec(in)
       pairs == SelectSeq(in.args, LAMBDA t : t = "k=v")
       payload == in.json # "none" \/ MovesPayload(in) \/ \E i \in DOMAIN in.args : in.args[i] = "{}"
   IN r.ok =>
        /\ r.v.transport = in.transport /\ r.v.mode = in.mode /\ r.v.poll = in.poll
        /\ r.v.op = in.op \/ (r.v.op = "none" /\ r.v.args = <<"{}">>)
        /\ r.v.uri = in.uri /\ r.v.frames = in.frames
        /\ payload => r.v.args # <<"none">> /\ Len(r.v.args) = 1
        /\ ~payload /\ pairs # <<>> => r.v.args = pairs
        /\ in.args # <<>> => \A i \in DOMAIN in.args : in.args[i] \in {"k=v", "{}"}

\* The job the daemon runs for a stream source is the one whose protocol it
\* reports, and a provider poll, which has no stream job, is never sent as a
\* stream source by the command line.
ReportedJobRuns(in) ==
   LET r == BuildManagedSourceSpec(in) IN
   r.ok => /\ r.v.mode = "stream" /\ ReportedProtocol(r.v) # "stream" => DispatchedJob(r.v) = ReportedProtocol(r.v)
           /\ r.v.mode = "poll" /\ PollAccepted(r.v) => r.v.transport \in {"none", "email_provider_poll"} /\ ~r.v.read /\ ~r.v.frames
=============================================================================
