------------------------------- MODULE McpStdio -------------------------------
(***************************************************************************)
(* One stdio MCP client: the child process, the writer and reader tasks    *)
(* between its pipes and the table of pending requests, the probe that     *)
(* decides the era of the protocol, calls with a timeout and the           *)
(* long-lived subscription of the modern era.  The client is used under    *)
(* its session's mutex, so one call is under way at a time.                *)
(*                                                                         *)
(* A message is its kind and its id; its serial number is history: it      *)
(* tells two requests with one id apart.  The child answers what it has    *)
(* read in any order, late or never, and may exit at any time.             *)
(***************************************************************************)
EXTENDS Naturals, Sequences, FiniteSets

CONSTANTS MaxIds,             \* requests of one transport
          NotificationLimit,  \* MAX_BUFFERED_NOTIFICATIONS
          MaxNotes            \* notifications the child sends

ASSUME NotificationAssumption == NotificationLimit \in Nat \ {0}

VARIABLES phase,       \* "probe", "initialize", "ready", "failed"
          era,         \* protocol_context.era
          generation,  \* children spawned: a failed probe is never reused
          child,       \* "running" or "exited"
          next_id, channels, outbox, writer,
          inbox,       \* messages the child has not read
          open,        \* requests the child has read and not answered
          pipe,        \* messages the child wrote that the reader has not seen
          arrived,     \* responses in the one-shot channels of requests
          notes, sent,
          call,        \* the request of the call under way; id 0: none
          ended,       \* how a call of the handshake ended: "none", "ok", "error"
          sub,         \* id of the subscription request, or 0
          serial       \* requests ever made

client == <<phase, era, generation, ended>>
wires == <<channels, outbox, writer, arrived>>
childVars == <<child, inbox, open, pipe, sent>>
stdioVars == <<client, wires, childVars, next_id, notes, call, sub, serial>>

Msg(k, i, n) == [kind |-> k, id |-> i, serial |-> n]
NoCall == Msg("request", 0, 0)
Reply(m) == Msg("response", m.id, m.serial)
Ids(ms) == {m.id : m \in ms}

StdioInit ==
    /\ phase = "probe" /\ era = "none" /\ generation = 1 /\ ended = "none"
    /\ child = "running" /\ inbox = <<>> /\ open = {} /\ pipe = <<>> /\ sent = 0
    /\ next_id = 1 /\ channels = {} /\ outbox = <<>> /\ writer = "up" /\ arrived = {}
    /\ notes = <<>> /\ call = NoCall /\ sub = 0 /\ serial = 0

-----------------------------------------------------------------------------
(* The child (external). *)

ChildReads ==
    /\ child = "running" /\ inbox # <<>>
    /\ inbox' = Tail(inbox)
    /\ open' = CASE Head(inbox).kind = "cancel" -> {m \in open : m.id # Head(inbox).id}
                 [] Head(inbox).kind \in {"request", "listen"} -> open \cup {Head(inbox)}
                 [] OTHER -> open
    /\ UNCHANGED <<client, wires, child, pipe, sent, next_id, notes, call, sub, serial>>

ChildAnswers(m) ==
    /\ child = "running"
    /\ open' = open \ {m} /\ pipe' = Append(pipe, Reply(m))
    /\ UNCHANGED <<client, wires, child, inbox, sent, next_id, notes, call, sub, serial>>

ChildNotifies ==
    /\ child = "running" /\ sent < MaxNotes
    /\ sent' = sent + 1 /\ pipe' = Append(pipe, Msg("note", 0, sent + 1))
    /\ UNCHANGED <<client, wires, child, inbox, open, next_id, notes, call, sub, serial>>

ChildExits ==
    /\ child = "running" /\ child' = "exited" /\ open' = {}
    /\ UNCHANGED <<client, wires, inbox, pipe, sent, next_id, notes, call, sub, serial>>

-----------------------------------------------------------------------------
(* The tasks of the transport. *)

\* The writer writes one message, or fails and ends.  A request that cannot be
\* written is answered with an error; one whose newline or flush fails is not.
WriteMessage ==
    /\ outbox # <<>> /\ writer = "up"
    /\ outbox' = Tail(outbox)
    /\ \/ /\ child = "running"
          /\ inbox' = Append(inbox, Head(outbox))
          /\ UNCHANGED <<writer, channels, arrived>>
       \/ /\ child = "exited" /\ writer' = "down"
          /\ \/ /\ Head(outbox).kind \in {"request", "listen"} /\ Head(outbox).id \in channels
                /\ channels' = channels \ {Head(outbox).id}
                /\ arrived' = arrived \cup {Reply(Head(outbox))}
             \/ UNCHANGED <<channels, arrived>>
          /\ UNCHANGED inbox
    /\ UNCHANGED <<client, child, open, pipe, sent, next_id, notes, call, sub, serial>>

Buffer(q, n) == Append(IF Len(q) >= NotificationLimit THEN Tail(q) ELSE q, n)

\* The reader: a response goes to the channel of its id, if that is still
\* there; a notification is buffered and may push out the oldest.
ReadMessage ==
    /\ pipe # <<>>
    /\ pipe' = Tail(pipe)
    /\ LET m == Head(pipe) IN
       IF m.kind = "response"
       THEN /\ arrived' = IF m.id \in channels THEN arrived \cup {m} ELSE arrived
            /\ channels' = channels \ {m.id}
            /\ UNCHANGED notes
       ELSE notes' = Buffer(notes, m.serial) /\ UNCHANGED <<channels, arrived>>
    /\ UNCHANGED <<client, child, inbox, open, sent, outbox, writer, next_id, call, sub, serial>>

-----------------------------------------------------------------------------
(* Calls. *)

TakeId == next_id' = next_id + 1

\* start_long_lived_request: an id, a channel and a message to the writer; if
\* that has ended, an error and no channel.
StartCall ==
    /\ call = NoCall /\ phase # "failed" /\ ended = "none" /\ next_id <= MaxIds
    /\ TakeId /\ serial' = serial + 1
    /\ LET m == Msg("request", next_id, serial + 1) IN
       IF writer = "up"
       THEN /\ channels' = channels \cup {m.id} /\ outbox' = Append(outbox, m) /\ call' = m
            /\ UNCHANGED ended
       ELSE /\ ended' = IF phase = "ready" THEN "none" ELSE "error"
            /\ UNCHANGED <<channels, outbox, call>>
    /\ UNCHANGED <<phase, era, generation, childVars, writer, arrived, notes, sub>>

\* send_request_with_timeout ends; a call of the handshake decides what is next.
End(how) == call' = NoCall /\ ended' = IF phase = "ready" THEN "none" ELSE how

CallReturns ==
    /\ call # NoCall /\ call.id \in Ids(arrived)
    /\ arrived' = {m \in arrived : m.id # call.id}
    /\ End("ok")
    /\ UNCHANGED <<phase, era, generation, childVars, channels, outbox, writer, next_id, notes, sub, serial>>

Forget(i) == channels \ {i}

\* The call has timed out, or its child exited and no response came within the
\* grace of a millisecond.
CallFails ==
    /\ call # NoCall /\ call.id \notin Ids(arrived)
    /\ channels' = Forget(call.id)
    /\ End("error")
    /\ UNCHANGED <<phase, era, generation, childVars, outbox, writer, arrived, next_id, notes, sub, serial>>

\* connect_with_executor of the client after the probe: a modern answer makes a
\* modern client, an unsupported version an error; with anything else the child
\* is killed and a new one, with new pipes and tables, gets the legacy handshake.
Probed ==
    /\ phase = "probe" /\ ended # "none"
    /\ ended' = "none"
    /\ \/ /\ ended = "ok" /\ phase' = "ready" /\ era' = "modern"
          /\ UNCHANGED <<generation, childVars, wires, next_id, notes>>
       \/ /\ phase' = "failed"
          /\ UNCHANGED <<era, generation, childVars, wires, next_id, notes>>
       \/ /\ phase' = "initialize" /\ generation' = generation + 1
          /\ child' = "running" /\ inbox' = <<>> /\ open' = {} /\ pipe' = <<>>
          /\ next_id' = 1 /\ channels' = {} /\ outbox' = <<>> /\ writer' = "up" /\ arrived' = {}
          /\ notes' = <<>>
          /\ UNCHANGED <<era, sent>>
    /\ UNCHANGED <<call, sub, serial>>

\* The legacy handshake: the answer to initialize, then a notification.
Initialized ==
    /\ phase = "initialize" /\ ended # "none"
    /\ ended' = "none"
    /\ \/ /\ ended = "ok" /\ writer = "up"
          /\ phase' = "ready" /\ era' = "legacy"
          /\ outbox' = Append(outbox, Msg("initialized", 0, 0))
       \/ phase' = "failed" /\ UNCHANGED <<era, outbox>>
    /\ UNCHANGED <<generation, childVars, channels, writer, arrived, next_id, notes, call, sub, serial>>

-----------------------------------------------------------------------------
(* The subscription of a modern client. *)

Free == phase = "ready" /\ call = NoCall

\* cancel_subscription: told to the child if the writer lives.
Cancelled == IF sub = 0 \/ writer = "down" THEN outbox ELSE Append(outbox, Msg("cancel", sub, 0))
Dropped == {m \in arrived : m.id # sub}

\* start_subscription: the one before is cancelled first, on the same queue.
StartSubscription ==
    /\ Free /\ era = "modern" /\ next_id <= MaxIds
    /\ TakeId /\ serial' = serial + 1
    /\ arrived' = Dropped
    /\ IF writer = "up"
       THEN /\ channels' = (channels \ {sub}) \cup {next_id}
            /\ outbox' = Append(Cancelled, Msg("listen", next_id, serial + 1))
            /\ sub' = next_id
       ELSE channels' = channels \ {sub} /\ sub' = 0 /\ UNCHANGED outbox
    /\ UNCHANGED <<client, childVars, writer, notes, call>>

CancelSubscription ==
    /\ Free /\ sub # 0
    /\ outbox' = Cancelled /\ channels' = channels \ {sub} /\ arrived' = Dropped /\ sub' = 0
    /\ UNCHANGED <<client, childVars, writer, next_id, notes, call, serial>>

\* poll_subscription_closed: the server has ended it.
PollClosed ==
    /\ Free /\ sub \in Ids(arrived)
    /\ arrived' = Dropped /\ sub' = 0
    /\ UNCHANGED <<client, childVars, channels, outbox, writer, next_id, notes, call, serial>>

DrainNotes ==
    /\ Free /\ notes # <<>>
    /\ notes' = <<>>
    /\ UNCHANGED <<client, wires, childVars, next_id, call, sub, serial>>

Expire == CallReturns \/ CallFails

StdioNext ==
    \/ StartCall \/ WriteMessage \/ ReadMessage \/ Expire \/ Probed \/ Initialized
    \/ StartSubscription \/ CancelSubscription \/ PollClosed \/ DrainNotes
    \/ ChildReads \/ ChildNotifies \/ ChildExits
    \/ \E m \in open : ChildAnswers(m)

\* A call's timer runs out whatever the child does.
StdioSpec == StdioInit /\ [][StdioNext]_stdioVars /\ WF_stdioVars(Expire)

-----------------------------------------------------------------------------
\* After timeouts, exits, cancellations and late responses the table of pending
\* requests holds the call under way and the subscription, nothing else: a
\* long-lived daemon's client does not grow (response_channels).
NoChannelLeaks == channels \cup Ids(arrived) \subseteq {call.id, sub}

\* A call gets the response to itself, never the late one of a request that
\* timed out before it ("a late response could otherwise be mistaken").
OwnResponse == \A m \in arrived : m.id = call.id => m.serial = call.serial

\* The child serves at most one listen request: a filter is replaced by
\* cancelling and asking anew, in that order on one queue.
OneListener == Cardinality({m \in open : m.kind = "listen"}) <= 1

\* What the buffer of notifications holds are the newest the reader has seen, in
\* order and without a hole.
NewestNotes ==
    [][pipe # <<>> /\ pipe' = Tail(pipe) /\ Head(pipe).kind = "note" /\ generation' = generation =>
         /\ notes' # <<>> /\ notes'[Len(notes')] = Head(pipe).serial
         /\ \A k \in DOMAIN notes' : notes'[k] = notes'[1] + k - 1]_stdioVars

StdioCallPending == call # NoCall

\* The table of requests, the responses and the listener of a client together.
StdioCallsAreTrue == NoChannelLeaks /\ OwnResponse /\ OneListener

=============================================================================
