----------------------------- MODULE SocketJobs -----------------------------
(***************************************************************************)
(* A subscription job over a socket: it connects, subscribes in the words  *)
(* of its protocol, hands what arrives to the source's channel, and        *)
(* connects again, later each time, until it is stopped.  `kind' is one    *)
(* of raw (websocket), http (an SSE or NDJSON response), slack, feishu,    *)
(* discord, graphql and jsonrpc.                                           *)
(*                                                                         *)
(* The world makes events 1, 2, ...; what a server sends of them, and what *)
(* it keeps for a client that was away, depends on the kind.               *)
(***************************************************************************)
EXTENDS Integers, Sequences, SequencesExt, FiniteSets

CONSTANTS Kinds, MaxSockEvents, MaxCuts, MaxDelay
ASSUME SockAssumption == Kinds \subseteq {"raw", "http", "slack", "feishu", "discord", "graphql", "jsonrpc"}

VARIABLES kind, job, stopping,
          sockStatus,     \* the status in the job's view
          delay,      \* delay_secs
          h,          \* the handler
          profile,    \* graphql: the dialect in use, and whether it is locked
          conn,       \* the connection
          srv,        \* the server
          event,      \* events of the world so far
          pending,    \* the output that apply_handler_output still has to emit
          out,        \* what the channel has got
          acked,      \* envelopes and parts of events that the server was told to have arrived
          dropped,    \* events of which acknowledged parts were forgotten
          cuts        \* bound: connections lost, sessions ended, late answers
sockVars == <<kind, job, stopping, sockStatus, delay, h, profile, conn, srv, event, pending, out, acked, dropped, cuts>>

NewHandler == [seq |-> 0, session |-> 0, url |-> FALSE, force |-> FALSE, timer |-> FALSE, waits |-> FALSE,
               subscribed |-> FALSE, saw |-> FALSE, part |-> {}]
NoConn == [open |-> FALSE, alive |-> FALSE, heard |-> FALSE, phase |-> "none", pos |-> 0]
NoOutput == [data |-> {}, then |-> "none"]
Over == job \in {"stopped", "failed"}
Other(p) == IF p = "modern" THEN "legacy" ELSE "modern"

-----------------------------------------------------------------------------
(* The ends of a session.                                                   *)

\* What tells the jobs' loops apart: whether the handler lives as long as the
\* job, whether an address is asked for before a connection, and after which
\* sessions the delay starts again.  Raw and jsonrpc jobs share
\* run_websocket_subscription_runtime, which never starts it again.
HttpJob == [keeps |-> FALSE, asks |-> FALSE, resets |-> sockStatus = "running"]
RawJob == [keeps |-> TRUE, asks |-> FALSE, resets |-> FALSE]
JsonrpcJob == [keeps |-> TRUE, asks |-> FALSE, resets |-> FALSE]
GraphqlJob == [keeps |-> FALSE, asks |-> FALSE, resets |-> h.saw]
SlackJob == [keeps |-> FALSE, asks |-> TRUE, resets |-> FALSE]
FeishuJob == [keeps |-> FALSE, asks |-> TRUE, resets |-> sockStatus = "running"]
\* A discord handler that was READY asks nobody: it has the address to resume at.
DiscordJob == [keeps |-> TRUE, asks |-> ~h.url, resets |-> FALSE]
Job == CASE kind = "http" -> HttpJob [] kind = "raw" -> RawJob [] kind = "jsonrpc" -> JsonrpcJob
         [] kind = "graphql" -> GraphqlJob [] kind = "slack" -> SlackJob [] kind = "feishu" -> FeishuJob
         [] kind = "discord" -> DiscordJob

Resets == Job.resets

\* What outlives a session that ends with the handler in state x, and what goes
\* with it: acknowledged parts of events that are not complete.
KeptHandler(x) == IF Job.keeps THEN x ELSE NewHandler
PartsGo == dropped' = dropped \cup {p[1] : p \in h.part}

\* WebSocketRunError::Retry: error, reconnecting, reconnect, then the delay.
Retry == /\ job' = "retry" /\ sockStatus' = "reconnecting"
         /\ delay' = IF Resets THEN 1 ELSE delay
         /\ conn' = NoConn /\ pending' = NoOutput


\* graphql_retry_supports_fallback: the first dialect was perhaps not understood.
\* A connection that timed out, or failed in a read or a write, says nothing of it.
FallsBack(x, why) ==
    /\ kind = "graphql" /\ ~x.saw /\ ~profile.locked /\ profile.name = "modern"
    /\ why \in {"refused", "closed", "ended", "protocol"}
Fallback(x) == /\ job' = "start" /\ conn' = NoConn /\ pending' = NoOutput
               /\ profile' = [profile EXCEPT !.name = Other(@)]
               /\ h' = KeptHandler(x) /\ PartsGo /\ UNCHANGED <<sockStatus, delay>>
Lost(x, why) == \/ FallsBack(x, why) /\ Fallback(x)
                \/ /\ ~FallsBack(x, why) /\ Retry /\ h' = KeptHandler(x) /\ PartsGo
                   /\ profile' = [profile EXCEPT !.locked = @ \/ x.saw]

\* WebSocketRunError::Fatal: error, and the job ends.
SockFails == /\ job' = "failed" /\ sockStatus' = "failed" /\ conn' = NoConn /\ pending' = NoOutput
         /\ UNCHANGED <<delay, h, profile, dropped>>

\* close_as_stopped, after a last frame to the server.
Stopped == /\ job' = "stopped" /\ sockStatus' = "stopped" /\ conn' = NoConn /\ pending' = NoOutput
           /\ UNCHANGED <<delay, h, profile, dropped>>

-----------------------------------------------------------------------------
(* The job.                                                                 *)

\* The address is asked for: apps.connections.open, the long connection's
\* endpoint, or the gateway's.
SlackAddress == kind = "slack"
FeishuAddress == kind = "feishu"
DiscordAddress == kind = "discord"
Ask == /\ job = "start" /\ ~stopping /\ Job.asks
       /\ SlackAddress \/ FeishuAddress \/ DiscordAddress
       /\ job' = "connecting"
       /\ UNCHANGED <<kind, stopping, sockStatus, delay, h, profile, conn, srv, event, pending, out, acked, dropped, cuts>>

\* run_session_once up to its loop: the connection, the opening frames, on_open.
Connect ==
    /\ job = "connecting" \/ (job = "start" /\ ~stopping /\ ~Job.asks)
    /\ job' = "session" /\ sockStatus' = "running"
    /\ conn' = [open |-> TRUE, alive |-> TRUE, heard |-> FALSE, phase |-> "open", pos |-> event]
    /\ h' = CASE kind = "discord" -> [h EXCEPT !.timer = FALSE, !.waits = FALSE]
              [] kind = "jsonrpc" -> [h EXCEPT !.subscribed = FALSE]
              [] kind = "feishu" -> [h EXCEPT !.timer = TRUE, !.waits = FALSE]
              [] OTHER -> h
    /\ UNCHANGED <<kind, stopping, delay, profile, srv, event, pending, out, acked, dropped, cuts>>

\* The address cannot be had, the connection is refused, times out, is given up
\* because of a stop, or does not take the opening frames; or the job ends:
\* the credential, the endpoint or the subprotocol is no good, or the source
\* is gone.
ConnectFails ==
    /\ job \in {"start", "connecting"} /\ (job = "start" => ~stopping) /\ cuts < MaxCuts
    /\ cuts' = cuts + 1
    /\ SockFails \/ \E why \in {"refused", "slow", "send"} : Lost(h, why)
    /\ UNCHANGED <<kind, stopping, srv, event, out, acked>>

\* wait_for_stop_or_timeout, then twice the delay.
Wait == /\ job = "retry" /\ ~stopping
        /\ job' = "start"
        /\ delay' = IF 2 * delay > MaxDelay THEN MaxDelay ELSE 2 * delay
        /\ UNCHANGED <<kind, stopping, sockStatus, h, profile, conn, srv, event, pending, out, acked, dropped, cuts>>

Stop == /\ ~stopping /\ ~Over
        /\ stopping' = TRUE
        /\ UNCHANGED <<kind, job, sockStatus, delay, h, profile, conn, srv, event, pending, out, acked, dropped, cuts>>

\* The stop is seen between two items, during the wait, or at the loop's head.
StopSeen == /\ stopping /\ job \in {"start", "session", "retry"}
            /\ Stopped
            /\ UNCHANGED <<kind, stopping, srv, event, out, acked, cuts>>

-----------------------------------------------------------------------------
(* The handlers.  Each takes a frame and gives the handler's next state,    *)
(* the frames to send, the data to emit and what to do then.                *)

Does(next, send, data, then) == [h |-> next, send |-> send, data |-> data, then |-> then]
Ignore == Does(h, "none", {}, "continue")

\* clear_session, can_resume of DiscordGatewayHandler.
ClearSession(x) == [x EXCEPT !.session = 0, !.url = FALSE, !.seq = 0, !.force = FALSE]
CanResume(x) == x.force /\ x.seq > 0 /\ x.session > 0 /\ x.url

\* Every frame with a number sets the sequence.
Sequence(x, f) == IF f.s > 0 THEN f.s ELSE x.seq

\* DiscordGatewayHandler::on_text_frame.
DiscordFrame(f) ==
    LET x == [h EXCEPT !.seq = Sequence(h, f)] IN
    CASE f.op = "hello" ->
           LET y == [x EXCEPT !.timer = TRUE, !.waits = FALSE] IN
           IF CanResume(y) THEN Does(y, "resume", {}, "continue")
           ELSE Does([y EXCEPT !.force = FALSE], "identify", {}, "continue")
      [] f.op = "ready" -> Does([x EXCEPT !.session = f.n, !.url = TRUE, !.force = TRUE], "none", {}, "continue")
      [] f.op = "dispatch" -> Does(x, "none", {<<x.session, f.n>>}, "continue")
      [] f.op = "heartbeat" -> Does(x, "beat", {}, "continue")
      [] f.op = "ack" -> Does([x EXCEPT !.waits = FALSE], "none", {}, "continue")
      [] f.op = "reconnect" -> Does(x, "none", {}, "reconnect")
      [] f.op = "invalid" ->
           Does(IF f.n = 1 /\ x.session > 0 /\ x.seq > 0 THEN [x EXCEPT !.force = TRUE] ELSE ClearSession(x),
                "none", {}, "reconnect")

\* SlackSocketModeHandler::on_text_frame: an envelope is answered first.
SlackFrame(f) ==
    CASE f.op = "envelope" -> Does(h, "ack", {<<0, f.n>>}, "continue")
      [] f.op = "disconnect" -> Does(h, "none", {}, "reconnect")

\* FeishuLongConnectionHandler::on_binary_frame: events come in parts, and each
\* part is acknowledged when it comes, whether or not the event is complete.
FeishuFrame(f) ==
    CASE f.op = "ack" -> Does([h EXCEPT !.waits = FALSE, !.timer = TRUE], "none", {}, "continue")
      [] f.op = "ping" -> Does(h, "pong", {}, "continue")
      [] f.op = "part" -> IF {<<f.n, 1>>, <<f.n, 2>>} \subseteq h.part \cup {<<f.n, f.k>>}
                          THEN Does([h EXCEPT !.part = {p \in @ : p[1] # f.n}], "ack", {<<0, f.n>>}, "continue")
                          ELSE Does([h EXCEPT !.part = @ \cup {<<f.n, f.k>>}], "ack", {}, "continue")

\* GraphQLSubscriptionHandler::on_open and on_text_frame.  A word of the other
\* dialect asks for the fallback; "error" and an unknown word end the job.
GraphqlFrame(f) ==
    CASE f.op \in {"next", "data", "ka", "protocol"} /\ f.dialect # profile.name -> Does(h, "none", {}, "fallback")
      [] f.op = "connection_ack" /\ ~h.subscribed -> Does([h EXCEPT !.subscribed = TRUE], "subscribe", {}, "continue")
      [] f.op \in {"next", "data"} /\ f.dialect = profile.name -> Does([h EXCEPT !.saw = TRUE], "none", {<<0, f.n>>}, "continue")
      [] f.op = "complete" -> Does(h, "none", {}, "stop")
      [] f.op = "error" -> Does(h, "none", {}, "fatal")
      [] f.op = "ping" -> Does(h, "pong", {}, "continue")
      [] OTHER -> Ignore

\* JsonRpcSubscriptionHandler::on_text_frame.
JsonrpcFrame(f) ==
    CASE f.op = "result" -> Does([h EXCEPT !.subscribed = TRUE, !.session = f.n], "none", {}, "continue")
      [] f.op = "note" -> IF h.subscribed /\ f.k = h.session THEN Does(h, "none", {<<f.k, f.n>>}, "continue") ELSE Ignore
      [] f.op = "error" -> Does(h, "none", {}, "fatal")
      [] OTHER -> Ignore

\* RawFrameHandler; the events that drain_sse_json_events and drain_ndjson_events cut out.
RawFrame(f) == Does(h, "none", {<<0, f.n>>}, "continue")

Handle(f) == CASE kind = "discord" -> DiscordFrame(f)
               [] kind = "slack" -> SlackFrame(f)
               [] kind = "feishu" -> FeishuFrame(f)
               [] kind = "graphql" -> GraphqlFrame(f)
               [] kind = "jsonrpc" -> JsonrpcFrame(f)
               [] OTHER -> RawFrame(f)

\* What the server does with a frame of the client.
Served(send, x) ==
    CASE send = "identify" -> <<[conn EXCEPT !.phase = "identified"], [srv EXCEPT !.session = @ + 1, !.valid = TRUE]>>
      [] send = "resume" -> IF srv.valid /\ x.session = srv.session
                            THEN <<[conn EXCEPT !.phase = "ready", !.pos = x.seq], srv>>
                            ELSE <<[conn EXCEPT !.phase = "refused"], srv>>
      [] send = "subscribe" -> <<[conn EXCEPT !.phase = "ready", !.pos = event], srv>>
      [] OTHER -> <<conn, srv>>

\* handle_stream_item and the first half of apply_handler_output: the answer
\* goes out, the data waits to be emitted.
Take(f, after) ==
    LET r == Handle(f) IN
    CASE r.then = "fallback" -> /\ IF profile.locked \/ r.h.saw THEN SockFails ELSE Fallback(r.h)
                                /\ UNCHANGED <<srv, acked>>
      [] r.then = "fatal" -> SockFails /\ UNCHANGED <<srv, acked>>
      [] OTHER -> /\ h' = r.h
                  /\ pending' = [data |-> r.data, then |-> r.then]
                  /\ job' = "emit"
                  /\ conn' = [Served(r.send, r.h)[1] EXCEPT !.pos = IF after > 0 THEN after ELSE @, !.heard = TRUE,
                                                            !.phase = IF f.op \in {"ready", "result"} THEN "ready" ELSE @]
                  /\ srv' = Served(r.send, r.h)[2]
                  /\ acked' = acked \cup (IF r.send = "ack" THEN {<<f.n, f.k>>} ELSE {})
                  /\ UNCHANGED <<sockStatus, delay, profile, dropped>>

\* send_outbound_frames fails: the session ends and the data is not emitted.
SendFails(f) ==
    /\ Handle(f).send # "none"
    /\ Lost(Handle(f).h, "send")
    /\ UNCHANGED <<srv, acked>>

\* The second half: observer.emit, then what the handler asked for; the head
\* of the loop looks for a stop before it waits again.
SockEmit ==
    /\ job = "emit"
    /\ out' = out \o SetToSeq(pending.data)
    /\ CASE pending.then = "stop" -> Stopped
         [] pending.then = "reconnect" -> Lost(h, "asked")
         [] pending.then = "continue" /\ stopping -> Stopped
         [] OTHER -> job' = "session" /\ pending' = NoOutput /\ UNCHANGED <<sockStatus, delay, h, profile, conn, dropped>>
    /\ UNCHANGED <<kind, stopping, srv, event, acked, cuts>>

\* The channel is closed: the source is gone, the event with it.
EmitFails ==
    /\ job = "emit" /\ cuts < MaxCuts
    /\ cuts' = cuts + 1
    /\ SockFails
    /\ UNCHANGED <<kind, stopping, srv, event, out, acked>>

-----------------------------------------------------------------------------
(* Wakeups.                                                                 *)

\* A heartbeat is due and the last one was not answered.
Zombie == h.waits

\* next_heartbeat_output; on_wakeup of feishu.  A live server answers within
\* the interval, and a heartbeat can be sent to it, but for MaxCuts times.
Wakeup ==
    /\ job = "session" /\ h.timer /\ kind \in {"discord", "feishu"}
    /\ \/ /\ ~Zombie
          /\ h' = [h EXCEPT !.waits = TRUE]
          /\ UNCHANGED <<job, sockStatus, delay, profile, conn, pending, dropped, cuts>>
       \/ /\ Zombie
          /\ conn.alive => cuts < MaxCuts
          /\ cuts' = IF conn.alive THEN cuts + 1 ELSE cuts
          /\ Lost(h, "asked")
       \/ /\ ~Zombie /\ cuts < MaxCuts
          /\ cuts' = cuts + 1
          /\ Lost([h EXCEPT !.waits = TRUE], "send")
    /\ UNCHANGED <<kind, stopping, srv, event, out, acked>>

\* Ten seconds after its first part an event is forgotten (merge_event_payload).
PartsExpire ==
    /\ job = "session"
    /\ \E n \in {p[1] : p \in h.part} : /\ h' = [h EXCEPT !.part = {p \in @ : p[1] # n}]
                                        /\ dropped' = dropped \cup {n}
    /\ UNCHANGED <<kind, job, stopping, sockStatus, delay, profile, conn, srv, event, pending, out, acked, cuts>>

\* A connection that says nothing is given up: before the first message
\* (first_message_timeout_secs), and by the HTTP client after 300 seconds.
Impatient == kind = "http" \/ (kind \in {"discord", "slack", "graphql", "jsonrpc"} /\ ~conn.heard)
TimesOut ==
    /\ job = "session" /\ ~conn.alive /\ Impatient
    /\ Lost(h, "read")
    /\ UNCHANGED <<kind, stopping, srv, event, out, acked, cuts>>

-----------------------------------------------------------------------------
(* The server and the world.                                                *)

Frame(op, n, k, s, d) == [op |-> op, n |-> n, k |-> k, s |-> s, dialect |-> d]
Sends(f, after) == /\ job = "session" /\ conn.alive
                   /\ \/ Take(f, after) /\ cuts' = cuts
                      \/ cuts < MaxCuts /\ SendFails(f) /\ cuts' = cuts + 1
                   /\ UNCHANGED <<kind, stopping, event, out>>

Happens == /\ event < MaxSockEvents
           /\ event' = event + 1
           /\ UNCHANGED <<kind, job, stopping, sockStatus, delay, h, profile, conn, srv, pending, out, acked, dropped, cuts>>

\* What opens a session.  A server of the other dialect names it, or closes.
Greets == \/ kind = "discord" /\ conn.phase = "open" /\ ~h.timer /\ Sends(Frame("hello", 0, 0, 0, ""), 0)
          \/ kind = "discord" /\ conn.phase = "identified" /\ Sends(Frame("ready", srv.session, 0, conn.pos, ""), 0)
          \/ kind = "discord" /\ conn.phase = "refused" /\ Sends(Frame("invalid", 0, 0, 0, ""), 0)
          \/ kind = "graphql" /\ conn.phase = "open" /\ profile.name = srv.dialect /\ Sends(Frame("connection_ack", 0, 0, 0, ""), 0)
          \/ /\ kind = "graphql" /\ conn.phase = "open" /\ profile.name # srv.dialect /\ srv.says
             /\ Sends(Frame("protocol", 0, 0, 0, srv.dialect), 0)
          \/ /\ kind = "graphql" /\ conn.phase = "open" /\ profile.name # srv.dialect /\ ~srv.says
             /\ job = "session" /\ conn.alive /\ Lost(h, "closed")
             /\ UNCHANGED <<kind, stopping, srv, event, out, acked, cuts>>
          \/ kind = "jsonrpc" /\ conn.phase = "open" /\ Sends(Frame("result", cuts + 1, 0, 0, ""), 0)

\* The next event, to a client that is subscribed; slack and feishu send again
\* what was not answered.
SendsEvent ==
    \/ kind = "discord" /\ conn.phase = "ready" /\ conn.pos < event
         /\ Sends(Frame("dispatch", conn.pos + 1, 0, conn.pos + 1, ""), conn.pos + 1)
    \/ kind = "graphql" /\ conn.phase = "ready" /\ conn.pos < event
         /\ Sends(Frame(IF srv.dialect = "modern" THEN "next" ELSE "data", conn.pos + 1, 0, 0, srv.dialect), conn.pos + 1)
    \/ kind = "jsonrpc" /\ conn.pos < event
         /\ \E k \in 1 .. cuts + 1 : Sends(Frame("note", conn.pos + 1, k, 0, ""), conn.pos + 1)
    \/ kind \in {"raw", "http"} /\ conn.pos < event /\ Sends(Frame("text", conn.pos + 1, 0, 0, ""), conn.pos + 1)
    \/ kind = "slack" /\ \E n \in 1 .. event : <<n, 0>> \notin acked /\ Sends(Frame("envelope", n, 0, 0, ""), 0)
    \/ kind = "feishu" /\ \E n \in 1 .. event, k \in 1 .. 2 :
         ~({<<n, 1>>, <<n, 2>>} \subseteq acked) /\ <<n, k>> \notin h.part /\ Sends(Frame("part", n, k, 0, ""), 0)

\* The server answers a heartbeat.
Answers == kind \in {"discord", "feishu"} /\ h.waits /\ Sends(Frame("ack", 0, 0, 0, ""), 0)

Besides ==
    {Frame(op, 0, 0, 0, "") : op \in CASE kind = "discord" -> {"heartbeat", "reconnect"}
                                      [] kind = "slack" -> {"disconnect"}
                                      [] kind = "feishu" -> {"ping"}
                                      [] kind = "graphql" -> {"ping", "complete", "error", "pong"}
                                      [] kind = "jsonrpc" -> {"error", "unsubscribed"}
                                      [] OTHER -> {}}
    \cup {Frame("invalid", n, 0, 0, "") : n \in IF kind = "discord" /\ conn.phase = "ready" THEN {0, 1} ELSE {}}

\* What a server may send besides, now and then: a frame that no handler but
\* the raw one can do without understanding ends the job.
Interrupts ==
    /\ job = "session" /\ conn.alive /\ cuts < MaxCuts
    /\ cuts' = cuts + 1
    /\ \/ \E f \in Besides : Take(f, 0) \/ SendFails(f)
       \/ kind # "raw" /\ SockFails /\ UNCHANGED <<srv, acked>>
    /\ UNCHANGED <<kind, stopping, event, out>>

\* The connection ends, or goes silent.  Some close codes of a gateway are final.
Cut == /\ job = "session" /\ conn.alive /\ cuts < MaxCuts
       /\ cuts' = cuts + 1
       /\ \/ \E why \in {"closed", "ended", "protocol", "read"} : Lost(h, why)
          \/ kind = "discord" /\ SockFails
          \/ /\ conn' = [conn EXCEPT !.alive = FALSE]
             /\ UNCHANGED <<job, sockStatus, delay, h, profile, pending, dropped>>
       /\ UNCHANGED <<kind, stopping, srv, event, out, acked>>

\* A server forgets a session while nobody is connected.
SessionEnds == /\ kind = "discord" /\ srv.valid /\ ~conn.open /\ cuts < MaxCuts
               /\ srv' = [srv EXCEPT !.valid = FALSE] /\ cuts' = cuts + 1
               /\ UNCHANGED <<kind, job, stopping, sockStatus, delay, h, profile, conn, event, pending, out, acked, dropped>>

SockInit ==
    /\ kind \in Kinds
    /\ job = "start" /\ stopping = FALSE /\ sockStatus = "starting" /\ delay = 1
    /\ h = NewHandler /\ profile = [name |-> "modern", locked |-> FALSE]
    /\ conn = NoConn /\ pending = NoOutput /\ out = <<>> /\ acked = {} /\ dropped = {} /\ cuts = 0 /\ event = 0
    /\ srv \in [session : {0}, valid : {FALSE}, dialect : IF kind = "graphql" THEN {"modern", "legacy"} ELSE {"none"},
                says : IF kind = "graphql" THEN BOOLEAN ELSE {TRUE}]

SockNext == \/ Ask \/ Connect \/ ConnectFails \/ Wait \/ Stop \/ StopSeen \/ SockEmit \/ EmitFails \/ Wakeup
            \/ PartsExpire \/ TimesOut \/ Happens \/ Greets \/ SendsEvent \/ Answers \/ Interrupts \/ Cut \/ SessionEnds

\* The job's own steps and a live server's greetings and answers happen.
SockFair == /\ WF_sockVars(Ask \/ Connect \/ Wait \/ StopSeen) /\ WF_sockVars(SockEmit)
            /\ WF_sockVars(Wakeup) /\ WF_sockVars(TimesOut) /\ SF_sockVars(Greets) /\ WF_sockVars(Answers)
SockSpec == SockInit /\ [][SockNext]_sockVars /\ SockFair

-----------------------------------------------------------------------------
Subscribed == /\ conn.alive
              /\ kind \in {"discord", "graphql", "jsonrpc"} => conn.phase = "ready"

\* A connection that has gone silent and that nothing watches: the shared loop
\* has no timeout after the first message, and none at all for a raw websocket.
Silent == conn.open /\ ~conn.alive /\ ~h.timer /\ ~Impatient

\* A job that fell back to the legacy dialect and whose server only closes: it
\* does not try the other dialect again.
Stranded == kind = "graphql" /\ profile.name = "legacy" /\ srv.dialect = "modern" /\ ~srv.says

\* Over reconnects and resumed sessions, what one gateway session delivers has
\* no gap and no repetition: RESUME names exactly the last event handed over.
NoGapInSession ==
    kind = "discord" => \A k \in 1 .. Len(out) - 1 : out[k][1] = out[k + 1][1] => out[k + 1][2] = out[k][2] + 1

\* A job that goes on has handed over, or is about to, whatever it has
\* acknowledged, or waits for the other parts of the event: the server will not
\* send it again.  Not so an event of which acknowledged parts were forgotten,
\* because a session ended or ten seconds passed before the last came: all its
\* parts may be acknowledged and it never handed over.
AckedIsHandedOver ==
    ~Over => \A a \in acked : \/ <<0, a[1]>> \in ToSet(out) \cup pending.data
                              \/ a \in h.part
                              \/ a[1] \in dropped

\* What was delivered has no gap, what was acknowledged is not lost.
SocketsAreTrue == NoGapInSession /\ AckedIsHandedOver

=============================================================================
