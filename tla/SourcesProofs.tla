----------------------------- MODULE SourcesProofs -----------------------------
(***************************************************************************)
(* Proofs about the sources of MCSources, for every page size, window,     *)
(* number of items, events, messages, failures and cuts.  Each part has an *)
(* inductive invariant of its own, and a step of the composition is a step *)
(* of one part that leaves the others alone.                               *)
(***************************************************************************)
EXTENDS MCSources, FiniteSetTheorems, SequenceTheorems, WellFoundedInduction, TLAPS

-----------------------------------------------------------------------------
(* Socket jobs: the inductive invariant. *)

JobPlaces == {"start", "connecting", "session", "emit", "retry", "stopped", "failed"}
SockStatuses == {"starting", "running", "reconnecting", "stopped", "failed"}
Handlers == [seq : Nat, session : Nat, url : BOOLEAN, force : BOOLEAN, timer : BOOLEAN, waits : BOOLEAN,
             subscribed : BOOLEAN, saw : BOOLEAN, part : SUBSET (Nat \X Nat)]
Dialects == [name : {"modern", "legacy"}, locked : BOOLEAN]
Conns == [open : BOOLEAN, alive : BOOLEAN, heard : BOOLEAN,
          phase : {"none", "open", "identified", "refused", "ready"}, pos : Nat]
Servers == [session : Nat, valid : BOOLEAN, dialect : {"modern", "legacy", "none"}, says : BOOLEAN]
Outputs == [data : SUBSET (Nat \X Nat), then : {"none", "continue", "reconnect", "stop"}]

SockTypeOK ==
    /\ kind \in Kinds /\ job \in JobPlaces /\ stopping \in BOOLEAN /\ sockStatus \in SockStatuses
    /\ h \in Handlers /\ profile \in Dialects /\ conn \in Conns /\ srv \in Servers
    /\ event \in Nat /\ pending \in Outputs /\ out \in Seq(Nat \X Nat) /\ acked \subseteq Nat \X Nat
    /\ dropped \subseteq Nat /\ cuts \in Nat

\* An output waits only while it is emitted, and has one datum at most; a job
\* that waits to connect again says so.
OutputWaits ==
    /\ job # "emit" => pending = NoOutput
    /\ pending.data = {} \/ \E x \in Nat \X Nat : pending.data = {x}
    /\ job = "retry" => sockStatus = "reconnecting"

\* A gateway session and its sequence: while the session is served the handler
\* has the number of the last event it was sent; the last event handed over, or
\* about to be, is of a session the server has made, and if it is of the
\* handler's session then it is the one the handler's number names.
LastIs(x) ==
    /\ 0 < x[1] /\ x[1] <= srv.session
    /\ x[1] = h.session => x[2] = h.seq
    /\ conn.phase = "identified" => x[1] < srv.session
GatewayFollows ==
    kind = "discord" /\ ~Over =>
        /\ h.seq <= event /\ conn.pos <= event /\ h.session <= srv.session
        /\ conn.phase = "ready" /\ pending.then # "reconnect" => h.session = srv.session /\ h.seq = conn.pos
        /\ conn.phase \in {"open", "identified"} => h.seq <= conn.pos
        /\ conn.phase \in {"identified", "ready"} => srv.session > 0
        /\ \A x \in pending.data : /\ LastIs(x) /\ x[1] = h.session
                                   /\ out # <<>> /\ out[Len(out)][1] = x[1] => out[Len(out)][2] + 1 = x[2]
        /\ pending.data = {} /\ out # <<>> => LastIs(out[Len(out)])
        /\ out # <<>> => out[Len(out)][1] <= srv.session

SockInv == SockTypeOK /\ OutputWaits /\ GatewayFollows /\ AckedIsHandedOver /\ NoGapInSession

-----------------------------------------------------------------------------
(* Socket jobs: lemmas. *)

\* A sequence made of a set with one element or none.
LEMMA SetToSeqSmall == ASSUME NEW x PROVE SetToSeq({x}) = <<x>> /\ SetToSeq({}) = <<>>
<1>1. Cardinality({x}) = 1 BY FS_Singleton
<1>2. Cardinality({}) = 0 BY FS_EmptySet
<1>3. \A f \in [1 .. 0 -> {}] : f = <<>> OBVIOUS
<1>4. <<>> \in [1 .. 0 -> {}] OBVIOUS
<1>5. IsInjective(<<>>) BY DEF IsInjective
<1>6. SetToSeq({}) = <<>> BY <1>2, <1>3, <1>4, <1>5 DEF SetToSeq
<1>7. [1 .. 1 -> {x}] = {<<x>>} OBVIOUS
<1>8. IsInjective(<<x>>) BY DEF IsInjective
<1>9. SetToSeq({x}) = <<x>> BY <1>1, <1>7, <1>8 DEF SetToSeq
<1> QED BY <1>6, <1>9

\* A sequence with one element more, or none.
LEMMA AppendFacts ==
    ASSUME NEW S, NEW s \in Seq(S), NEW z \in S
    PROVE  /\ Append(s, z) \in Seq(S) /\ Append(s, z) # <<>> /\ Len(Append(s, z)) = Len(s) + 1
           /\ Append(s, z)[Len(Append(s, z))] = z
           /\ \A i \in 1 .. Len(s) : Append(s, z)[i] = s[i]
           /\ ToSet(Append(s, z)) = ToSet(s) \cup {z}
           /\ s \o <<>> = s /\ s \o <<z>> = Append(s, z)
<1>1. /\ Append(s, z) \in Seq(S) /\ Append(s, z) # <<>> /\ Len(Append(s, z)) = Len(s) + 1
      /\ Append(s, z)[Len(Append(s, z))] = z
      /\ \A i \in 1 .. Len(s) : Append(s, z)[i] = s[i]
  OBVIOUS
<1>2. DOMAIN Append(s, z) = 1 .. Len(s) + 1 /\ DOMAIN s = 1 .. Len(s) OBVIOUS
<1>3. 1 .. Len(s) + 1 = (1 .. Len(s)) \cup {Len(s) + 1} OBVIOUS
<1>4. ToSet(Append(s, z)) = ToSet(s) \cup {z} BY <1>1, <1>2, <1>3 DEF ToSet
<1>5. s \o <<>> = s OBVIOUS
<1>6. s \o <<z>> = Append(s, z) OBVIOUS
<1> QED BY <1>1, <1>4, <1>5, <1>6

\* The ends of a session, with the handler in state x, leave nothing to emit
\* and no connection; what was acknowledged of incomplete events is dropped.
Retries(x) == Retry /\ h' = KeptHandler(x) /\ PartsGo /\ profile' = [profile EXCEPT !.locked = @ \/ x.saw]
SockEnds(x) == SockFails \/ Stopped \/ Fallback(x) \/ Retries(x)

\* Whatever the reason of a loss.
LEMMA LostEnds == \A x, why : Lost(x, why) => SockEnds(x)
BY DEF Lost, SockEnds, Retries

LEMMA EndsOK ==
    ASSUME SockTypeOK, NEW x \in Handlers, SockEnds(x)
    PROVE  /\ job' \in {"start", "retry", "failed", "stopped"} /\ sockStatus' \in SockStatuses
           /\ h' \in {h, x, NewHandler}
           /\ job' \in {"start", "retry"} => (kind = "discord" => h' = x) /\ dropped' = dropped \cup {p[1] : p \in h.part}
           /\ dropped' \subseteq Nat
           /\ profile' \in Dialects /\ conn' = NoConn /\ pending' = NoOutput
           /\ job' = "retry" => sockStatus' = "reconnecting"
<1> USE DEF SockTypeOK
<1>1. kind = "discord" => KeptHandler(x) = x
  BY DEF KeptHandler, Job, DiscordJob
<1>2. KeptHandler(x) \in {x, NewHandler} BY DEF KeptHandler
<1>a. dropped \cup {p[1] : p \in h.part} \subseteq Nat BY DEF Handlers
<1>b. x.saw \in BOOLEAN BY DEF Handlers
<1>3. CASE Fallback(x)
  BY <1>1, <1>2, <1>3, <1>a DEF Fallback, Dialects, Other, PartsGo
<1>4. CASE SockFails BY <1>4 DEF SockFails, SockStatuses
<1>5. CASE Stopped BY <1>5 DEF Stopped, SockStatuses
<1>6. CASE Retries(x)
  <2>1. profile' \in Dialects BY <1>6, <1>b DEF Dialects, Retries
  <2> QED BY <1>1, <1>2, <1>6, <1>a, <2>1 DEF Retries, Retry, SockStatuses, PartsGo
<1> QED BY <1>3, <1>4, <1>5, <1>6 DEF SockEnds

LEMMA NewHandlerOK == NewHandler \in Handlers BY DEF NewHandler, Handlers
LEMMA NoConnOK == NoConn \in Conns BY DEF NoConn, Conns
LEMMA NoOutputOK == NoOutput \in Outputs BY DEF NoOutput, Outputs

Words == {"hello", "ready", "invalid", "dispatch", "heartbeat", "reconnect", "ack", "envelope", "disconnect", "ping",
          "part", "connection_ack", "protocol", "next", "data", "complete", "error", "pong", "result", "note",
          "unsubscribed", "text"}
DialectNames == {"modern", "legacy", "none", ""}
FrameSet == [op : Words, n : Nat, k : Nat, s : Nat, dialect : DialectNames]

\* What a server sends: words of the protocol, and of a gateway those that fit
\* the place where its session is.
GatewaySends(f, after) ==
    \/ f.op = "hello" /\ conn.phase = "open" /\ f.s = 0 /\ after = 0
    \/ f.op = "ready" /\ conn.phase = "identified" /\ f.n = srv.session /\ f.s = conn.pos /\ after = 0
    \/ f.op = "invalid" /\ conn.phase \in {"refused", "ready"} /\ f.s = 0 /\ after = 0
    \/ /\ f.op = "dispatch" /\ conn.phase = "ready" /\ conn.pos < event
       /\ f.n = conn.pos + 1 /\ f.s = conn.pos + 1 /\ after = conn.pos + 1
    \/ f.op \in {"heartbeat", "reconnect", "ack"} /\ f.s = 0 /\ after = 0
Legal(f, after) ==
    /\ f \in FrameSet /\ after \in Nat
    /\ kind = "discord" => GatewaySends(f, after)
    /\ kind = "slack" => f.op \in {"envelope", "disconnect"}
    /\ kind = "feishu" => f.op \in {"ack", "ping", "part"}
    /\ kind # "discord" => f.op # "ready"

HandlerDoes(f, r) ==
    /\ r.h \in Handlers /\ (r.data = {} \/ \E x \in Nat \X Nat : r.data = {x})
    /\ r.then \in {"continue", "reconnect", "stop", "fatal", "fallback"}
    /\ r.send = "ack" => <<0, f.n>> \in r.data \/ <<f.n, f.k>> \in r.h.part
    /\ \A p \in h.part : p \in r.h.part \/ <<0, p[1]>> \in r.data

LEMMA DoesOK ==
    ASSUME NEW f, NEW next \in Handlers, NEW send, NEW data, NEW then,
           data = {} \/ \E x \in Nat \X Nat : data = {x},
           then \in {"continue", "reconnect", "stop", "fatal", "fallback"},
           send = "ack" => <<0, f.n>> \in data \/ <<f.n, f.k>> \in next.part,
           \A p \in h.part : p \in next.part \/ <<0, p[1]>> \in data
    PROVE  HandlerDoes(f, Does(next, send, data, then))
BY DEF HandlerDoes, Does

LEMMA HandleOK ==
    ASSUME SockTypeOK, NEW f, NEW after, Legal(f, after)
    PROVE  HandlerDoes(f, Handle(f))
<1> USE DEF SockTypeOK, Legal
<1> kind \in {"raw", "http", "slack", "feishu", "discord", "graphql", "jsonrpc"} BY SockAssumption
<1> f.n \in Nat /\ f.k \in Nat /\ f.s \in Nat BY DEF FrameSet
<1> <<0, f.n>> \in Nat \X Nat /\ <<f.k, f.n>> \in Nat \X Nat OBVIOUS
<1>1. CASE kind = "discord"
  <2> DEFINE x == [h EXCEPT !.seq = Sequence(h, f)]
  <2>1. x \in Handlers /\ x.part = h.part BY DEF Handlers, Sequence
  <2> DEFINE y == [x EXCEPT !.timer = TRUE, !.waits = FALSE]
  <2>2. /\ y \in Handlers /\ y.part = h.part
        /\ [y EXCEPT !.force = FALSE] \in Handlers /\ [y EXCEPT !.force = FALSE].part = h.part
    BY <2>1 DEF Handlers
  <2>3. /\ [x EXCEPT !.session = f.n, !.url = TRUE, !.force = TRUE] \in Handlers
        /\ [x EXCEPT !.session = f.n, !.url = TRUE, !.force = TRUE].part = h.part
    BY <2>1 DEF Handlers
  <2>4. [x EXCEPT !.waits = FALSE] \in Handlers /\ [x EXCEPT !.waits = FALSE].part = h.part BY <2>1 DEF Handlers
  <2>5. /\ [x EXCEPT !.force = TRUE] \in Handlers /\ [x EXCEPT !.force = TRUE].part = h.part
        /\ ClearSession(x) \in Handlers /\ ClearSession(x).part = h.part
    BY <2>1 DEF Handlers, ClearSession
  <2>6. <<x.session, f.n>> \in Nat \X Nat BY <2>1 DEF Handlers
  <2>7. Handle(f) = DiscordFrame(f) BY <1>1 DEF Handle
  <2> HIDE DEF x
  <2>8. CASE f.op = "hello"
    <3>1. Handle(f) \in {Does(y, "resume", {}, "continue"), Does([y EXCEPT !.force = FALSE], "identify", {}, "continue")}
      BY <2>7, <2>8 DEF DiscordFrame, x
    <3>2. HandlerDoes(f, Does(y, "resume", {}, "continue")) BY <1>1, <2>2, DoesOK
    <3>3. HandlerDoes(f, Does([y EXCEPT !.force = FALSE], "identify", {}, "continue")) BY <1>1, <2>2, DoesOK
    <3> QED BY <3>1, <3>2, <3>3
  <2>9. CASE f.op = "ready"
    <3>1. Handle(f) = Does([x EXCEPT !.session = f.n, !.url = TRUE, !.force = TRUE], "none", {}, "continue")
      BY <2>7, <2>9 DEF DiscordFrame, x
    <3>2. HandlerDoes(f, Does([x EXCEPT !.session = f.n, !.url = TRUE, !.force = TRUE], "none", {}, "continue"))
      BY <1>1, <2>3, DoesOK
    <3> QED BY <3>1, <3>2
  <2>10. CASE f.op = "dispatch"
    <3>1. Handle(f) = Does(x, "none", {<<x.session, f.n>>}, "continue") BY <2>7, <2>10 DEF DiscordFrame, x
    <3>2. \E z \in Nat \X Nat : {<<x.session, f.n>>} = {z} BY <2>6
    <3>3. HandlerDoes(f, Does(x, "none", {<<x.session, f.n>>}, "continue")) BY <1>1, <2>1, <3>2, DoesOK
    <3> QED BY <3>1, <3>3
  <2>11. CASE f.op = "heartbeat"
    <3>1. Handle(f) = Does(x, "beat", {}, "continue") BY <2>7, <2>11 DEF DiscordFrame, x
    <3> QED BY <1>1, <2>1, <3>1, DoesOK
  <2>12. CASE f.op = "reconnect"
    <3>1. Handle(f) = Does(x, "none", {}, "reconnect") BY <2>7, <2>12 DEF DiscordFrame, x
    <3> QED BY <1>1, <2>1, <3>1, DoesOK
  <2>13. CASE f.op = "ack"
    <3>1. Handle(f) = Does([x EXCEPT !.waits = FALSE], "none", {}, "continue") BY <2>7, <2>13 DEF DiscordFrame, x
    <3>2. HandlerDoes(f, Does([x EXCEPT !.waits = FALSE], "none", {}, "continue")) BY <1>1, <2>4, DoesOK
    <3> QED BY <3>1, <3>2
  <2>14. CASE f.op = "invalid"
    <3>1. Handle(f) \in {Does([x EXCEPT !.force = TRUE], "none", {}, "reconnect"),
                         Does(ClearSession(x), "none", {}, "reconnect")}
      BY <2>7, <2>14 DEF DiscordFrame, x
    <3>2. HandlerDoes(f, Does([x EXCEPT !.force = TRUE], "none", {}, "reconnect")) BY <1>1, <2>5, DoesOK
    <3>3. HandlerDoes(f, Does(ClearSession(x), "none", {}, "reconnect")) BY <1>1, <2>5, DoesOK
    <3> QED BY <3>1, <3>2, <3>3
  <2> QED BY <1>1, <2>8, <2>9, <2>10, <2>11, <2>12, <2>13, <2>14 DEF GatewaySends
<1>2. CASE kind = "slack"
  <2>1. Handle(f) \in {Does(h, "ack", {<<0, f.n>>}, "continue"), Does(h, "none", {}, "reconnect")}
    BY <1>2 DEF Handle, SlackFrame
  <2>2. HandlerDoes(f, Does(h, "ack", {<<0, f.n>>}, "continue")) BY <1>2, DoesOK
  <2>3. HandlerDoes(f, Does(h, "none", {}, "reconnect")) BY <1>2, DoesOK
  <2> QED BY <2>1, <2>2, <2>3
<1>3. CASE kind = "feishu"
  <2> DEFINE a == [h EXCEPT !.waits = FALSE, !.timer = TRUE]
             b == [h EXCEPT !.part = {p \in @ : p[1] # f.n}]
             c == [h EXCEPT !.part = @ \cup {<<f.n, f.k>>}]
  <2>1. a \in Handlers /\ a.part = h.part BY DEF Handlers
  <2>2. b \in Handlers /\ b.part = {p \in h.part : p[1] # f.n}
    <3>1. {p \in h.part : p[1] # f.n} \in SUBSET (Nat \X Nat) BY DEF Handlers
    <3> QED BY <3>1 DEF Handlers
  <2>3. c \in Handlers /\ c.part = h.part \cup {<<f.n, f.k>>}
    <3>1. h.part \cup {<<f.n, f.k>>} \in SUBSET (Nat \X Nat) BY DEF Handlers
    <3> QED BY <3>1 DEF Handlers
  <2>4. Handle(f) \in {Does(a, "none", {}, "continue"), Does(h, "pong", {}, "continue"),
                       Does(b, "ack", {<<0, f.n>>}, "continue"), Does(c, "ack", {}, "continue")}
    BY <1>3 DEF Handle, FeishuFrame
  <2>5. HandlerDoes(f, Does(a, "none", {}, "continue")) BY <1>3, <2>1, DoesOK
  <2>6. HandlerDoes(f, Does(h, "pong", {}, "continue")) BY <1>3, DoesOK
  <2>9. \A p \in h.part : p \in b.part \/ <<0, p[1]>> \in {<<0, f.n>>} BY <2>2
  <2>7. HandlerDoes(f, Does(b, "ack", {<<0, f.n>>}, "continue")) BY <1>3, <2>2, <2>9, DoesOK
  <2>8. HandlerDoes(f, Does(c, "ack", {}, "continue")) BY <1>3, <2>3, DoesOK
  <2> HIDE DEF a, b, c
  <2> QED BY <2>4, <2>5, <2>6, <2>7, <2>8
<1>4. CASE kind = "graphql"
  <2> DEFINE a == [h EXCEPT !.subscribed = TRUE]
             b == [h EXCEPT !.saw = TRUE]
  <2>1. a \in Handlers /\ b \in Handlers /\ a.part = h.part /\ b.part = h.part BY DEF Handlers
  <2>2. Handle(f) \in {Does(h, "none", {}, "fallback"), Does(a, "subscribe", {}, "continue"),
                       Does(b, "none", {<<0, f.n>>}, "continue"), Does(h, "none", {}, "stop"),
                       Does(h, "none", {}, "fatal"), Does(h, "pong", {}, "continue"),
                       Does(h, "none", {}, "continue")}
    BY <1>4 DEF Handle, GraphqlFrame, Ignore
  <2>3. \A t \in {"fallback", "stop", "fatal", "continue"} : HandlerDoes(f, Does(h, "none", {}, t))
    BY <1>4, DoesOK
  <2>4. HandlerDoes(f, Does(a, "subscribe", {}, "continue")) BY <1>4, <2>1, DoesOK
  <2>5. HandlerDoes(f, Does(b, "none", {<<0, f.n>>}, "continue")) BY <1>4, <2>1, DoesOK
  <2>6. HandlerDoes(f, Does(h, "pong", {}, "continue")) BY <1>4, DoesOK
  <2> HIDE DEF a, b
  <2> QED BY <2>2, <2>3, <2>4, <2>5, <2>6
<1>5. CASE kind = "jsonrpc"
  <2> DEFINE a == [h EXCEPT !.subscribed = TRUE, !.session = f.n]
  <2>1. a \in Handlers /\ a.part = h.part BY DEF Handlers
  <2>2. CASE f.op = "note" /\ h.subscribed /\ f.k = h.session
    <3>1. Handle(f) = Does(h, "none", {<<f.k, f.n>>}, "continue") BY <1>5, <2>2 DEF Handle, JsonrpcFrame
    <3>2. \E z \in Nat \X Nat : {<<f.k, f.n>>} = {z} OBVIOUS
    <3>3. HandlerDoes(f, Does(h, "none", {<<f.k, f.n>>}, "continue")) BY <1>5, <3>2, DoesOK
    <3> QED BY <3>1, <3>3
  <2>3. CASE ~(f.op = "note" /\ h.subscribed /\ f.k = h.session)
    <3>1. Handle(f) \in {Does(a, "none", {}, "continue"), Does(h, "none", {}, "fatal"), Does(h, "none", {}, "continue")}
      BY <1>5, <2>3 DEF Handle, JsonrpcFrame, Ignore
    <3>2. HandlerDoes(f, Does(a, "none", {}, "continue")) BY <1>5, <2>1, DoesOK
    <3>3. \A t \in {"fatal", "continue"} : HandlerDoes(f, Does(h, "none", {}, t)) BY <1>5, DoesOK
    <3> HIDE DEF a
    <3> QED BY <3>1, <3>2, <3>3
  <2> QED BY <2>2, <2>3
<1>6. CASE kind \in {"raw", "http"}
  <2>1. Handle(f) = Does(h, "none", {<<0, f.n>>}, "continue") BY <1>6 DEF Handle, RawFrame
  <2>2. \E z \in Nat \X Nat : {<<0, f.n>>} = {z} OBVIOUS
  <2>3. HandlerDoes(f, Does(h, "none", {<<0, f.n>>}, "continue")) BY <1>6, <2>2, DoesOK
  <2> QED BY <2>1, <2>3
<1> QED BY <1>1, <1>2, <1>3, <1>4, <1>5, <1>6

LEMMA ServedOK ==
    ASSUME SockTypeOK, NEW send, NEW x \in Handlers
    PROVE  Served(send, x)[1] \in Conns /\ Served(send, x)[2] \in Servers
<1> USE DEF SockTypeOK
<1> DEFINE a == [conn EXCEPT !.phase = "identified"]
           b == [srv EXCEPT !.session = @ + 1, !.valid = TRUE]
           c == [conn EXCEPT !.phase = "ready", !.pos = x.seq]
           d == [conn EXCEPT !.phase = "refused"]
           e == [conn EXCEPT !.phase = "ready", !.pos = event]
<1>1. a \in Conns /\ d \in Conns BY DEF Conns
<1>2. b \in Servers
  <2>1. srv.session + 1 \in Nat BY DEF Servers
  <2> QED BY <2>1 DEF Servers
<1>3. c \in Conns BY DEF Conns, Handlers
<1>4. e \in Conns BY DEF Conns
<1>5. Served(send, x) \in {<<a, b>>, <<c, srv>>, <<d, srv>>, <<e, srv>>, <<conn, srv>>} BY DEF Served
<1> HIDE DEF a, b, c, d, e
<1> QED BY <1>1, <1>2, <1>3, <1>4, <1>5

\* A frame ends the session, or leaves an output to emit.
Takes(f, after) ==
    LET r == Handle(f) IN
    /\ r.then \in {"continue", "reconnect", "stop"}
    /\ h' = r.h /\ pending' = [data |-> r.data, then |-> r.then] /\ job' = "emit"
    /\ conn' = [Served(r.send, r.h)[1] EXCEPT !.pos = IF after > 0 THEN after ELSE @, !.heard = TRUE,
                                              !.phase = IF f.op \in {"ready", "result"} THEN "ready" ELSE @]
    /\ srv' = Served(r.send, r.h)[2]
    /\ acked' = acked \cup (IF r.send = "ack" THEN {<<f.n, f.k>>} ELSE {})
    /\ UNCHANGED <<sockStatus, delay, profile, dropped>>

\* Only the graphql handler asks for the fallback, and only while it answers a
\* gateway does another go on after a send that failed; both leave a gateway's
\* session and sequence alone.
LEMMA TakeSplits ==
    ASSUME SockTypeOK, NEW f, NEW after, Legal(f, after),
           Take(f, after) \/ SendFails(f)
    PROVE  \/ \E x \in Handlers : /\ SockEnds(x) /\ UNCHANGED <<srv, acked>>
                                  /\ kind = "discord" => x.seq = h.seq /\ x.session = h.session
           \/ Takes(f, after)
<1> DEFINE r == Handle(f)
<1>1. HandlerDoes(f, r) BY HandleOK
<1>2. r.h \in Handlers /\ h \in Handlers BY <1>1 DEF HandlerDoes, SockTypeOK
<1>3. kind = "discord" => r.then # "fallback" /\ (r.send # "none" => r.h.seq = h.seq /\ r.h.session = h.session)
  <2> SUFFICES ASSUME kind = "discord"
               PROVE  r.then # "fallback" /\ (r.send # "none" => r.h.seq = h.seq /\ r.h.session = h.session)
    OBVIOUS
  <2> DEFINE x == [h EXCEPT !.seq = Sequence(h, f)]
             y == [x EXCEPT !.timer = TRUE, !.waits = FALSE]
  <2>1. r = DiscordFrame(f) BY DEF Handle
  <2>2. GatewaySends(f, after) BY DEF Legal
  <2>3. f.s = 0 => x.seq = h.seq BY <1>2 DEF Handlers, Sequence
  <2>4. x.session = h.session BY <1>2 DEF Handlers
  <2> DEFINE z == [y EXCEPT !.force = FALSE]
  <2>5. y.seq = x.seq /\ y.session = x.session BY <1>2 DEF Handlers
  <2>6. z.seq = x.seq /\ z.session = x.session BY <1>2 DEF Handlers
  <2> HIDE DEF x
  <2>7. CASE f.op = "hello"
    <3>1. r = Does(y, "resume", {}, "continue") \/ r = Does(z, "identify", {}, "continue")
      BY <2>1, <2>7 DEF DiscordFrame, x
    <3>2. f.s = 0 BY <2>2, <2>7 DEF GatewaySends
    <3> HIDE DEF r, y, z
    <3> QED BY <2>3, <2>4, <2>5, <2>6, <3>1, <3>2 DEF Does
  <2>8. CASE f.op = "heartbeat"
    <3>1. r = Does(x, "beat", {}, "continue") /\ f.s = 0 BY <2>1, <2>2, <2>8 DEF DiscordFrame, x, GatewaySends
    <3> QED BY <2>3, <2>4, <3>1 DEF Does
  <2>9. CASE f.op \in {"ready", "dispatch", "ack", "reconnect", "invalid"}
    BY <2>1, <2>9 DEF DiscordFrame, Does
  <2> QED BY <2>2, <2>7, <2>8, <2>9 DEF GatewaySends
<1> HIDE DEF r
<1>4. CASE SendFails(f)
  <2>1. r.send # "none" /\ Lost(r.h, "send") /\ UNCHANGED <<srv, acked>> BY <1>4 DEF SendFails, r
  <2>2. SockEnds(r.h) BY <2>1, LostEnds
  <2> QED BY <1>2, <1>3, <2>1, <2>2
<1>5. CASE Take(f, after) /\ r.then = "fallback"
  <2>1. (SockFails \/ Fallback(r.h)) /\ UNCHANGED <<srv, acked>> BY <1>5 DEF Take, r
  <2>2. SockEnds(r.h) BY <2>1 DEF SockEnds
  <2> QED BY <1>2, <1>3, <1>5, <2>1, <2>2
<1>6. CASE Take(f, after) /\ r.then = "fatal"
  <2>1. SockFails /\ UNCHANGED <<srv, acked>> BY <1>6 DEF Take, r
  <2>2. SockEnds(h) BY <2>1 DEF SockEnds
  <2> QED BY <1>2, <2>1, <2>2
<1>7. CASE Take(f, after) /\ r.then \notin {"fallback", "fatal"}
  <2>1. r.then \in {"continue", "reconnect", "stop"} BY <1>1, <1>7 DEF HandlerDoes
  <2> QED BY <1>7, <2>1 DEF Take, Takes, r
<1> QED BY <1>4, <1>5, <1>6, <1>7

\* An end of a session keeps the invariant when what it does not name stays
\* and what was to be emitted has been, or the job is over.
LEMMA EndsKeep ==
    ASSUME SockInv, NEW y \in Handlers, SockEnds(y), kind = "discord" => y.seq = h.seq /\ y.session = h.session,
           UNCHANGED <<kind, stopping, event, srv, acked>>, cuts' \in Nat,
           \/ pending = NoOutput /\ out' = out
           \/ job' = "failed" /\ out' = out
           \/ out' = out \o SetToSeq(pending.data),
           out' \in Seq(Nat \X Nat), NoGapInSession', ~Over
    PROVE  SockInv'
<1>1. SockTypeOK /\ OutputWaits /\ GatewayFollows /\ AckedIsHandedOver BY DEF SockInv
<1>2. /\ job' \in {"start", "retry", "failed", "stopped"} /\ sockStatus' \in SockStatuses
      /\ h' \in {h, y, NewHandler}
      /\ job' \in {"start", "retry"} => (kind = "discord" => h' = y) /\ dropped' = dropped \cup {p[1] : p \in h.part}
      /\ dropped' \subseteq Nat
      /\ profile' \in Dialects /\ conn' = NoConn /\ pending' = NoOutput
      /\ job' = "retry" => sockStatus' = "reconnecting"
  BY <1>1, EndsOK
<1>3. SockTypeOK'
  BY <1>1, <1>2, NewHandlerOK, NoConnOK, NoOutputOK DEF SockTypeOK, JobPlaces
<1>4. OutputWaits' BY <1>2 DEF OutputWaits, NoOutput
<1>5. Over' \/ ((kind = "discord" => h' = y) /\ dropped' = dropped \cup {p[1] : p \in h.part}) BY <1>2 DEF Over
<1>6. PICK z \in (Nat \X Nat) : pending.data = {} \/ pending.data = {z}
  <2>1. <<0, 0>> \in Nat \X Nat OBVIOUS
  <2> QED BY <1>1, <2>1 DEF OutputWaits
<1>7. pending = NoOutput => pending.data = {} BY DEF NoOutput
<1>8. out \in Seq(Nat \X Nat) BY <1>1 DEF SockTypeOK
<1>9. CASE job' \in {"failed", "stopped"}
  <2>1. Over' BY <1>9 DEF Over
  <2> QED BY <1>3, <1>4, <2>1 DEF SockInv, GatewayFollows, AckedIsHandedOver
<1>c. \A a \in acked : <<0, a[1]>> \in ToSet(out) \cup pending.data \/ a \in h.part \/ a[1] \in dropped
  BY <1>1 DEF AckedIsHandedOver
<1>10. CASE pending.data = {} /\ out' = out /\ ~Over'
  <2>1. AckedIsHandedOver' BY <1>2, <1>5, <1>10, <1>c DEF AckedIsHandedOver
  <2>2. kind = "discord" => h'.seq = h.seq /\ h'.session = h.session BY <1>5, <1>10
  <2>3. GatewayFollows' BY <1>1, <1>2, <1>10, <2>2 DEF GatewayFollows, NoOutput, NoConn, LastIs, SockTypeOK
  <2> QED BY <1>3, <1>4, <2>1, <2>3 DEF SockInv
<1>11. CASE pending.data = {z} /\ out' = Append(out, z) /\ ~Over'
  <2>1. ToSet(out') = ToSet(out) \cup {z} BY <1>8, <1>11, AppendFacts
  <2>2. AckedIsHandedOver' BY <1>2, <1>5, <1>11, <1>c, <2>1 DEF AckedIsHandedOver
  <2>3. out' # <<>> /\ out'[Len(out')] = z BY <1>8, <1>11, AppendFacts
  <2>4. kind = "discord" => h'.seq = h.seq /\ h'.session = h.session BY <1>5, <1>11
  <2>5. GatewayFollows' BY <1>1, <1>2, <1>11, <2>3, <2>4 DEF GatewayFollows, NoOutput, NoConn, LastIs, SockTypeOK
  <2> QED BY <1>3, <1>4, <2>2, <2>5 DEF SockInv
<1>a. SetToSeq({}) = <<>> /\ SetToSeq({z}) = <<z>> BY SetToSeqSmall
<1>b. out \o <<>> = out /\ out \o <<z>> = Append(out, z) BY <1>8, AppendFacts
<1>12. out \o SetToSeq({}) = out BY <1>a, <1>b
<1>13. out \o SetToSeq({z}) = Append(out, z) BY <1>a, <1>b
<1>14. job' \in {"failed", "stopped"} \/ ~Over' BY DEF Over
<1> QED BY <1>6, <1>7, <1>9, <1>10, <1>11, <1>12, <1>13, <1>14

\* What a handler answers to a gateway's frame keeps session and sequence in step.
LEMMA GatewayTakes ==
    ASSUME SockInv, job = "session", kind = "discord", NEW f, NEW after, Legal(f, after), Takes(f, after),
           UNCHANGED <<kind, stopping, event, out>>, SockTypeOK'
    PROVE  GatewayFollows'
<1> USE DEF Does
<1> DEFINE r == Handle(f)
           x == [h EXCEPT !.seq = Sequence(h, f)]
<1>1. SockTypeOK /\ OutputWaits /\ GatewayFollows BY DEF SockInv
<1>2. ~Over /\ pending.data = {} /\ pending.then = "none" BY <1>1 DEF OutputWaits, NoOutput, Over
<1>3. /\ h.seq <= event /\ conn.pos <= event /\ h.session <= srv.session
      /\ conn.phase = "ready" => h.session = srv.session /\ h.seq = conn.pos
      /\ conn.phase \in {"open", "identified"} => h.seq <= conn.pos
      /\ conn.phase \in {"identified", "ready"} => srv.session > 0
      /\ out # <<>> => LastIs(out[Len(out)])
  BY <1>1, <1>2 DEF GatewayFollows
<1>4. r = DiscordFrame(f) BY DEF Handle
<1>5. h \in Handlers /\ conn \in Conns /\ srv \in Servers /\ event \in Nat /\ out \in Seq(Nat \X Nat) BY <1>1 DEF SockTypeOK
<1>6. f.n \in Nat /\ f.s \in Nat BY DEF Legal, FrameSet
<1>7. x \in Handlers /\ x.session = h.session /\ x.seq = Sequence(h, f) BY <1>5, <1>6 DEF Handlers, Sequence
<1>8. h' = r.h /\ pending'.data = r.data /\ pending'.then = r.then /\ srv' = Served(r.send, r.h)[2]
  BY DEF Takes
<1>9. conn' = [Served(r.send, r.h)[1] EXCEPT !.pos = IF after > 0 THEN after ELSE @, !.heard = TRUE,
                                             !.phase = IF f.op \in {"ready", "result"} THEN "ready" ELSE @]
  BY DEF Takes
<1>10. out # <<>> => out[Len(out)] \in Nat \X Nat BY <1>5
<1> HIDE DEF r, x
<1>11. CASE f.op = "hello"
  <2>1. f.s = 0 /\ after = 0 /\ conn.phase = "open" BY <1>11 DEF Legal, GatewaySends
  <2>2. x.seq = h.seq BY <1>7, <2>1 DEF Sequence
  <2> DEFINE y == [x EXCEPT !.timer = TRUE, !.waits = FALSE]
  <2>3. y \in Handlers /\ y.session = h.session /\ y.seq = h.seq BY <1>7, <2>2 DEF Handlers
  <2>4. [y EXCEPT !.force = FALSE].session = h.session /\ [y EXCEPT !.force = FALSE].seq = h.seq BY <2>3 DEF Handlers
  <2>5. CASE CanResume(y)
    <3>1. r.h = y /\ r.send = "resume" /\ r.data = {} /\ r.then = "continue" BY <1>4, <1>11, <2>5 DEF DiscordFrame, x
    <3>2. CASE srv.valid /\ y.session = srv.session
      <4>a. Served(r.send, r.h) = <<[conn EXCEPT !.phase = "ready", !.pos = y.seq], srv>> BY <3>1, <3>2 DEF Served
      <4> DEFINE c == [conn EXCEPT !.phase = "ready", !.pos = y.seq]
      <4>b. c \in Conns /\ c.pos = h.seq /\ c.phase = "ready" BY <1>5, <2>3 DEF Conns, Handlers
      <4>c. Served(r.send, r.h)[1] = c /\ Served(r.send, r.h)[2] = srv BY <4>a
      <4> HIDE DEF c
      <4>d. conn' = [c EXCEPT !.pos = @, !.heard = TRUE, !.phase = @] BY <1>9, <1>11, <2>1, <4>c
      <4>1. conn'.pos = h.seq /\ conn'.phase = "ready" /\ srv' = srv
        BY <1>8, <4>b, <4>c, <4>d DEF Conns
      <4>2. srv.session > 0 BY <2>3, <2>5, <3>2 DEF CanResume
      <4> QED BY <1>2, <1>3, <1>5, <1>8, <2>3, <3>1, <3>2, <4>1, <4>2 DEF GatewayFollows, LastIs, Handlers, Servers
    <3>3. CASE ~(srv.valid /\ y.session = srv.session)
      <4>1. conn'.pos = conn.pos /\ conn'.phase = "refused" /\ srv' = srv
        BY <1>5, <1>8, <1>9, <1>11, <2>1, <2>3, <3>1, <3>3 DEF Served, Conns
      <4> QED BY <1>2, <1>3, <1>5, <1>8, <2>3, <3>1, <3>3, <4>1 DEF GatewayFollows, LastIs, Handlers, Servers
    <3> QED BY <3>2, <3>3
  <2>6. CASE ~CanResume(y)
    <3>1. r.h = [y EXCEPT !.force = FALSE] /\ r.send = "identify" /\ r.data = {} /\ r.then = "continue"
      BY <1>4, <1>11, <2>6 DEF DiscordFrame, x
    <3>a. Served(r.send, r.h) = <<[conn EXCEPT !.phase = "identified"], [srv EXCEPT !.session = @ + 1, !.valid = TRUE]>>
      BY <3>1 DEF Served
    <3>b. conn'.pos = conn.pos /\ conn'.phase = "identified" BY <1>5, <1>9, <1>11, <2>1, <3>a DEF Conns
    <3>c. srv' = [srv EXCEPT !.session = @ + 1, !.valid = TRUE] BY <1>8, <3>a
    <3>2. conn'.pos = conn.pos /\ conn'.phase = "identified" /\ srv'.session = srv.session + 1
      BY <1>5, <3>c, <3>b DEF Servers
    <3>3. h'.session = h.session /\ h'.seq = h.seq BY <1>8, <2>4, <3>1
    <3>4. out # <<>> => out[Len(out)][1] < srv'.session /\ LastIs(out[Len(out)])'
      BY <1>3, <1>5, <1>10, <3>2, <3>3 DEF LastIs, Servers
    <3> QED BY <1>2, <1>3, <1>5, <1>8, <1>10, <2>1, <3>1, <3>2, <3>3, <3>4 DEF GatewayFollows, Handlers, Servers
  <2> QED BY <2>5, <2>6
<1>12. CASE f.op = "ready"
  <2>1. after = 0 /\ conn.phase = "identified" /\ f.n = srv.session /\ f.s = conn.pos BY <1>12 DEF Legal, GatewaySends
  <2>2. x.seq = conn.pos BY <1>3, <1>5, <1>7, <2>1 DEF Sequence, Handlers, Conns
  <2>3. r.h = [x EXCEPT !.session = f.n, !.url = TRUE, !.force = TRUE] /\ r.send = "none" /\ r.data = {} /\ r.then = "continue"
    BY <1>4, <1>12 DEF DiscordFrame, x
  <2>4. h'.session = srv.session /\ h'.seq = conn.pos BY <1>7, <1>8, <2>1, <2>2, <2>3 DEF Handlers
  <2>5. conn'.pos = conn.pos /\ conn'.phase = "ready" /\ srv' = srv
    BY <1>5, <1>8, <1>9, <1>12, <2>1, <2>3 DEF Served, Conns
  <2>6. out # <<>> => out[Len(out)][1] < srv.session BY <1>3, <2>1 DEF LastIs
  <2> QED BY <1>2, <1>3, <1>5, <1>8, <1>10, <2>1, <2>3, <2>4, <2>5, <2>6 DEF GatewayFollows, LastIs, Servers, Conns
<1>13. CASE f.op = "dispatch"
  <2>1. after = conn.pos + 1 /\ conn.phase = "ready" /\ f.n = conn.pos + 1 /\ f.s = conn.pos + 1 /\ conn.pos < event
    BY <1>13 DEF Legal, GatewaySends
  <2>2. x.seq = conn.pos + 1 BY <1>5, <1>7, <2>1 DEF Sequence, Conns
  <2>3. r.h = x /\ r.send = "none" /\ r.data = {<<x.session, f.n>>} /\ r.then = "continue" BY <1>4, <1>13 DEF DiscordFrame, x
  <2>4. h'.session = srv.session /\ h'.seq = conn.pos + 1 BY <1>3, <1>7, <1>8, <2>1, <2>2, <2>3
  <2>5. conn'.pos = conn.pos + 1 /\ conn'.phase = "ready" /\ srv' = srv
    BY <1>5, <1>8, <1>9, <1>13, <2>1, <2>3 DEF Served, Conns
  <2>6. pending'.data = {<<srv.session, conn.pos + 1>>} BY <1>3, <1>7, <1>8, <2>1, <2>3
  <2>7. out # <<>> /\ out[Len(out)][1] = srv.session => out[Len(out)][2] + 1 = conn.pos + 1 BY <1>3, <2>1 DEF LastIs
  <2>8. out # <<>> => out[Len(out)][1] <= srv.session BY <1>3 DEF LastIs
  <2>9. conn.pos \in Nat /\ srv.session \in Nat /\ event \in Nat /\ srv.session > 0 BY <1>3, <1>5, <2>1 DEF Servers, Conns
  <2>10. \A z \in pending'.data : LastIs(z)' /\ z[1] = h'.session
                                  /\ (out # <<>> /\ out[Len(out)][1] = z[1] => out[Len(out)][2] + 1 = z[2])
    BY <2>4, <2>5, <2>6, <2>7, <2>9 DEF LastIs
  <2>11. pending'.data # {} BY <2>6
  <2> QED BY <2>1, <2>4, <2>5, <2>8, <2>9, <2>10, <2>11 DEF GatewayFollows
<1>14. CASE f.op \in {"heartbeat", "reconnect", "ack"}
  <2>1. after = 0 /\ f.s = 0 BY <1>14 DEF Legal, GatewaySends
  <2>2. x.seq = h.seq BY <1>7, <2>1 DEF Sequence
  <2>3. r.h \in {x, [x EXCEPT !.waits = FALSE]} /\ r.send \in {"none", "beat"} /\ r.data = {} BY <1>4, <1>14 DEF DiscordFrame, x
  <2>4. h'.session = h.session /\ h'.seq = h.seq BY <1>7, <1>8, <2>2, <2>3 DEF Handlers
  <2>5. conn'.pos = conn.pos /\ conn'.phase = conn.phase /\ srv' = srv
    BY <1>5, <1>8, <1>9, <1>14, <2>1, <2>3 DEF Served, Conns
  <2> QED BY <1>2, <1>3, <1>5, <1>8, <2>3, <2>4, <2>5 DEF GatewayFollows, LastIs
<1>15. CASE f.op = "invalid"
  <2>1. after = 0 /\ f.s = 0 BY <1>15 DEF Legal, GatewaySends
  <2>2. x.seq = h.seq BY <1>7, <2>1 DEF Sequence
  <2>3. r.h \in {[x EXCEPT !.force = TRUE], ClearSession(x)} /\ r.send = "none" /\ r.data = {} /\ r.then = "reconnect"
    BY <1>4, <1>15 DEF DiscordFrame, x
  <2>4. (h'.session = h.session /\ h'.seq = h.seq) \/ (h'.session = 0 /\ h'.seq = 0)
    BY <1>7, <1>8, <2>2, <2>3 DEF Handlers, ClearSession
  <2>5. conn'.pos = conn.pos /\ conn'.phase = conn.phase /\ srv' = srv
    BY <1>5, <1>8, <1>9, <1>15, <2>1, <2>3 DEF Served, Conns
  <2> QED BY <1>2, <1>3, <1>5, <1>8, <1>10, <2>3, <2>4, <2>5 DEF GatewayFollows, LastIs, Servers, Conns
<1> QED BY <1>11, <1>12, <1>13, <1>14, <1>15 DEF Legal, GatewaySends

\* A frame of the server keeps the invariant.
LEMMA TakeKeeps ==
    ASSUME SockInv, job = "session", NEW f, NEW after, Legal(f, after),
           Take(f, after) \/ SendFails(f),
           UNCHANGED <<kind, stopping, event, out>>, cuts' \in Nat
    PROVE  SockInv'
<1>1. SockTypeOK /\ OutputWaits /\ AckedIsHandedOver /\ NoGapInSession BY DEF SockInv
<1>2. NoGapInSession' BY <1>1 DEF NoGapInSession
<1>3. pending = NoOutput /\ pending.data = {} /\ ~Over BY <1>1 DEF OutputWaits, NoOutput, Over
<1>4. CASE \E x \in Handlers : /\ SockEnds(x) /\ UNCHANGED <<srv, acked>>
                               /\ kind = "discord" => x.seq = h.seq /\ x.session = h.session
  <2>1. out' \in Seq(Nat \X Nat) /\ out' = out BY <1>1 DEF SockTypeOK
  <2>2. PICK x \in Handlers : /\ SockEnds(x) /\ UNCHANGED <<srv, acked>>
                              /\ kind = "discord" => x.seq = h.seq /\ x.session = h.session
    BY <1>4
  <2> QED BY <1>2, <1>3, <2>1, <2>2, EndsKeep
<1>5. CASE Takes(f, after)
  <2> DEFINE r == Handle(f)
  <2>1. HandlerDoes(f, r) BY <1>1, HandleOK
  <2>2. r.h \in Handlers BY <2>1 DEF HandlerDoes
  <2>3. Served(r.send, r.h)[1] \in Conns /\ Served(r.send, r.h)[2] \in Servers BY <1>1, <2>2, ServedOK
  <2>4. /\ r.then \in {"continue", "reconnect", "stop"}
        /\ h' = r.h /\ pending' = [data |-> r.data, then |-> r.then] /\ job' = "emit"
        /\ srv' = Served(r.send, r.h)[2]
        /\ acked' = acked \cup (IF r.send = "ack" THEN {<<f.n, f.k>>} ELSE {})
        /\ sockStatus' = sockStatus /\ profile' = profile /\ dropped' = dropped
    BY <1>5 DEF Takes
  <2>5. conn' = [Served(r.send, r.h)[1] EXCEPT !.pos = IF after > 0 THEN after ELSE @, !.heard = TRUE,
                                               !.phase = IF f.op \in {"ready", "result"} THEN "ready" ELSE @]
    BY <1>5 DEF Takes
  <2>6. after \in Nat /\ f.n \in Nat /\ f.k \in Nat BY DEF Legal, FrameSet
  <2>7. conn' \in Conns BY <2>3, <2>5, <2>6 DEF Conns
  <2>8. r.data \in SUBSET (Nat \X Nat) BY <2>1 DEF HandlerDoes
  <2>9. pending' \in Outputs BY <2>4, <2>8 DEF Outputs
  <2>10. acked' \subseteq Nat \X Nat BY <1>1, <2>4, <2>6 DEF SockTypeOK
  <2>11. SockTypeOK'
    BY <1>1, <2>2, <2>3, <2>4, <2>7, <2>9, <2>10 DEF SockTypeOK, JobPlaces
  <2>12. OutputWaits' BY <2>1, <2>4 DEF OutputWaits, HandlerDoes
  <2>14. AckedIsHandedOver'
    <3>1. \A a \in acked : <<0, a[1]>> \in ToSet(out) \/ a \in h.part \/ a[1] \in dropped
      BY <1>1, <1>3 DEF AckedIsHandedOver
    <3>2. r.send = "ack" => <<0, f.n>> \in r.data \/ <<f.n, f.k>> \in r.h.part BY <2>1 DEF HandlerDoes
    <3>3. \A p \in h.part : p \in r.h.part \/ <<0, p[1]>> \in r.data BY <2>1 DEF HandlerDoes
    <3>4. pending'.data = r.data /\ h'.part = r.h.part BY <2>4
    <3>5. <<f.n, f.k>>[1] = f.n OBVIOUS
    <3> HIDE DEF r
    <3> QED BY <1>1, <2>4, <3>1, <3>2, <3>3, <3>4, <3>5 DEF AckedIsHandedOver
  <2>15. GatewayFollows'
    <3>1. CASE kind = "discord" BY <1>5, <2>11, <3>1, GatewayTakes
    <3>2. CASE kind # "discord" BY <3>2 DEF GatewayFollows
    <3> QED BY <3>1, <3>2
  <2> QED BY <1>2, <2>11, <2>12, <2>14, <2>15 DEF SockInv
<1> QED BY <1>1, <1>4, <1>5, TakeSplits

\* What is emitted continues its session without a gap.
LEMMA EmitNoGap ==
    ASSUME SockInv, job = "emit", NEW z \in Nat \X Nat, pending.data = {z}, out' = Append(out, z), kind' = kind
    PROVE  NoGapInSession'
<1>1. SockTypeOK /\ GatewayFollows /\ NoGapInSession /\ ~Over BY DEF SockInv, Over
<1>2. SUFFICES ASSUME kind = "discord", NEW k \in 1 .. Len(out') - 1, out'[k][1] = out'[k + 1][1]
               PROVE  out'[k + 1][2] = out'[k][2] + 1
  BY DEF NoGapInSession
<1>3. out \in Seq(Nat \X Nat) /\ Len(out) \in Nat BY <1>1 DEF SockTypeOK
<1>4. Len(out') = Len(out) + 1 /\ out'[Len(out) + 1] = z /\ \A i \in 1 .. Len(out) : out'[i] = out[i]
  BY <1>3, AppendFacts
<1>5. CASE k = Len(out)
  <2>1. out'[k] = out[Len(out)] /\ out'[k + 1] = z BY <1>3, <1>4, <1>5
  <2>2. out # <<>> BY <1>3, <1>4, <1>5
  <2>3. out[Len(out)][1] = z[1] => out[Len(out)][2] + 1 = z[2] BY <1>1, <1>2, <2>2 DEF GatewayFollows
  <2> QED BY <1>2, <2>1, <2>3
<1>6. CASE k # Len(out)
  <2>1. k \in 1 .. Len(out) - 1 /\ k \in 1 .. Len(out) /\ k + 1 \in 1 .. Len(out) BY <1>3, <1>4, <1>6
  <2>2. out'[k] = out[k] /\ out'[k + 1] = out[k + 1] BY <1>4, <2>1
  <2> QED BY <1>1, <1>2, <2>1, <2>2 DEF NoGapInSession
<1> QED BY <1>5, <1>6

-----------------------------------------------------------------------------
(* Socket jobs: the theorems. *)

LEMMA SockInitOK == SockInit => SockInv
<1> SUFFICES ASSUME SockInit PROVE SockInv OBVIOUS
<1> USE DEF SockInit
<1>1. SockTypeOK
  <2>1. srv \in Servers /\ profile \in Dialects
    <3>1. 0 \in Nat /\ FALSE \in BOOLEAN OBVIOUS
    <3>2. (IF kind = "graphql" THEN {"modern", "legacy"} ELSE {"none"}) \subseteq {"modern", "legacy", "none"} OBVIOUS
    <3>3. srv \in [session : {0}, valid : {FALSE}, dialect : IF kind = "graphql" THEN {"modern", "legacy"} ELSE {"none"},
                   says : IF kind = "graphql" THEN BOOLEAN ELSE {TRUE}]
      OBVIOUS
    <3> DEFINE D == IF kind = "graphql" THEN {"modern", "legacy"} ELSE {"none"}
               W == IF kind = "graphql" THEN BOOLEAN ELSE {TRUE}
    <3> HIDE DEF D, W
    <3>4. srv \in [session : {0}, valid : {FALSE}, dialect : D, says : W] BY <3>3 DEF D, W
    <3>5. D \subseteq {"modern", "legacy", "none"} /\ W \subseteq BOOLEAN BY <3>2 DEF D, W
    <3> QED BY <3>1, <3>4, <3>5 DEF Servers, Dialects
  <2>2. out \in Seq(Nat \X Nat) OBVIOUS
  <2> QED BY <2>1, <2>2, NewHandlerOK, NoConnOK, NoOutputOK DEF SockTypeOK, JobPlaces, SockStatuses
<1> QED BY <1>1 DEF SockInv, OutputWaits, GatewayFollows, AckedIsHandedOver, NoGapInSession,
                  NoOutput, NewHandler, NoConn

\* Steps that neither emit nor leave anything to emit.
LEMMA CalmKeeps ==
    ASSUME SockInv, SockTypeOK', UNCHANGED <<kind, out, pending, acked>>, event' \in {event, event + 1},
           job = "emit" <=> job' = "emit", job \in {"stopped", "failed"} <=> job' \in {"stopped", "failed"},
           job' = "retry" => sockStatus' = "reconnecting",
           h'.seq = h.seq, h'.session = h.session, dropped \subseteq dropped',
           \A p \in h.part : p \in h'.part \/ p[1] \in dropped',
           \/ conn'.pos = conn.pos /\ conn'.phase = conn.phase
           \/ kind = "discord" => h.seq <= conn'.pos /\ conn'.phase = "open" /\ conn'.pos <= event,
           srv'.session = srv.session
    PROVE  SockInv'
<1>1. SockTypeOK /\ OutputWaits /\ GatewayFollows /\ AckedIsHandedOver /\ NoGapInSession BY DEF SockInv
<1>2. OutputWaits' BY <1>1 DEF OutputWaits
<1>4. AckedIsHandedOver' BY <1>1 DEF AckedIsHandedOver, Over
<1>5. NoGapInSession' BY <1>1 DEF NoGapInSession
<1>6. CASE kind = "discord" /\ ~Over
  <2>1. h.seq \in Nat /\ event \in Nat /\ conn.pos \in Nat BY <1>1 DEF SockTypeOK, Handlers, Conns
  <2>2. /\ h.seq <= event /\ conn.pos <= event /\ h.session <= srv.session
        /\ conn.phase = "ready" /\ pending.then # "reconnect" => h.session = srv.session /\ h.seq = conn.pos
        /\ conn.phase \in {"open", "identified"} => h.seq <= conn.pos
        /\ conn.phase \in {"identified", "ready"} => srv.session > 0
        /\ \A x \in pending.data : /\ LastIs(x) /\ x[1] = h.session
                                   /\ out # <<>> /\ out[Len(out)][1] = x[1] => out[Len(out)][2] + 1 = x[2]
        /\ pending.data = {} /\ out # <<>> => LastIs(out[Len(out)])
        /\ out # <<>> => out[Len(out)][1] <= srv.session
    BY <1>1, <1>6 DEF GatewayFollows
  <2>a. conn'.phase = conn.phase \/ conn'.phase = "open" BY <1>6
  <2>3. \A x : LastIs(x) => LastIs(x)' BY <2>a DEF LastIs
  <2>b. event <= event' /\ event' \in Nat BY <2>1
  <2>c. conn'.pos \in Nat BY DEF SockTypeOK, Conns
  <2>d. conn'.pos <= event BY <1>6, <2>2
  <2>4. h'.seq <= event' /\ conn'.pos <= event' BY <2>1, <2>2, <2>b, <2>c, <2>d
  <2>5. GatewayFollows' BY <1>6, <2>2, <2>3, <2>4 DEF GatewayFollows
  <2> QED BY <1>2, <1>4, <1>5, <2>5 DEF SockInv
<1>7. CASE ~(kind = "discord" /\ ~Over)
  <2>1. GatewayFollows' BY <1>7 DEF GatewayFollows, Over
  <2> QED BY <1>2, <1>4, <1>5, <2>1 DEF SockInv
<1> QED BY <1>6, <1>7

\* The frames the model's servers make are legal where they make them.
LEMMA FrameOK ==
    ASSUME NEW op \in Words, NEW n \in Nat, NEW k \in Nat, NEW q \in Nat, NEW d \in DialectNames, NEW after \in Nat,
           kind = "discord" => \/ op = "hello" /\ conn.phase = "open" /\ q = 0 /\ after = 0
                               \/ op = "ready" /\ conn.phase = "identified" /\ n = srv.session /\ q = conn.pos /\ after = 0
                               \/ op = "invalid" /\ conn.phase \in {"refused", "ready"} /\ q = 0 /\ after = 0
                               \/ /\ op = "dispatch" /\ conn.phase = "ready" /\ conn.pos < event
                                  /\ n = conn.pos + 1 /\ q = conn.pos + 1 /\ after = conn.pos + 1
                               \/ op \in {"heartbeat", "reconnect", "ack"} /\ q = 0 /\ after = 0,
           kind = "slack" => op \in {"envelope", "disconnect"},
           kind = "feishu" => op \in {"ack", "ping", "part"},
           kind # "discord" => op # "ready"
    PROVE  Legal(Frame(op, n, k, q, d), after)
<1> DEFINE f == Frame(op, n, k, q, d)
<1>1. f \in FrameSet /\ f.op = op /\ f.n = n /\ f.s = q BY DEF Frame, FrameSet
<1> HIDE DEF f
<1>2. kind = "discord" => GatewaySends(f, after) BY <1>1 DEF GatewaySends
<1>3. Legal(f, after) BY <1>1, <1>2 DEF Legal
<1> QED BY <1>3 DEF f

LEMMA SockNextOK == SockInv /\ [SockNext]_sockVars => SockInv'
<1> SUFFICES ASSUME SockInv, [SockNext]_sockVars PROVE SockInv' OBVIOUS
<1> USE DEF Over
<1>1. SockTypeOK /\ OutputWaits /\ NoGapInSession BY DEF SockInv
<1>2. h \in Handlers /\ conn \in Conns /\ srv \in Servers /\ event \in Nat /\ cuts \in Nat /\ out \in Seq(Nat \X Nat)
  BY <1>1 DEF SockTypeOK
<1>3. out' = out /\ kind' = kind => NoGapInSession' BY <1>1 DEF NoGapInSession
<1>4. CASE UNCHANGED sockVars
  BY <1>4 DEF SockInv, sockVars, SockTypeOK, OutputWaits, GatewayFollows, AckedIsHandedOver, NoGapInSession, LastIs
<1>5. CASE Ask
  <2>1. SockTypeOK' BY <1>1, <1>5 DEF Ask, SockTypeOK, JobPlaces
  <2> QED BY <1>1, <1>5, <2>1, CalmKeeps DEF Ask, OutputWaits
<1>6. CASE Connect
  <2>1. h' \in Handlers /\ h'.seq = h.seq /\ h'.session = h.session /\ h'.part = h.part BY <1>2, <1>6 DEF Connect, Handlers
  <2>2. conn' \in Conns /\ conn'.pos = event /\ conn'.phase = "open" BY <1>2, <1>6 DEF Connect, Conns
  <2>3. SockTypeOK' BY <1>1, <1>6, <2>1, <2>2 DEF Connect, SockTypeOK, JobPlaces, SockStatuses
  <2>4. kind = "discord" => h.seq <= event BY <1>6 DEF SockInv, GatewayFollows, Connect
  <2>5. job # "emit" /\ ~Over /\ ~Over' /\ job' # "retry" /\ job' # "emit" /\ conn'.pos <= event BY <1>2, <1>6, <2>2 DEF Connect
  <2> QED BY <1>6, <2>1, <2>2, <2>3, <2>4, <2>5, CalmKeeps DEF Connect
<1>7. CASE ConnectFails
  <2>1. job # "emit" /\ ~Over /\ cuts' \in Nat BY <1>2, <1>7 DEF ConnectFails
  <2>2. pending = NoOutput BY <1>1, <2>1 DEF OutputWaits
  <2>3. SockEnds(h) /\ UNCHANGED <<kind, stopping, event, srv, acked>> /\ out' = out BY <1>7, LostEnds DEF ConnectFails, SockEnds
  <2> QED BY <1>2, <1>3, <2>1, <2>2, <2>3, EndsKeep
<1>8. CASE Wait
  <2>1. SockTypeOK' BY <1>1, <1>8 DEF Wait, SockTypeOK, JobPlaces
  <2> QED BY <1>1, <1>8, <2>1, CalmKeeps DEF Wait, OutputWaits
<1>9. CASE Stop
  <2>1. SockTypeOK' BY <1>1, <1>9 DEF Stop, SockTypeOK
  <2> QED BY <1>1, <1>9, <2>1, CalmKeeps DEF Stop, OutputWaits
<1>10. CASE StopSeen
  <2>1. job # "emit" /\ ~Over /\ cuts' \in Nat BY <1>2, <1>10 DEF StopSeen
  <2>2. pending = NoOutput BY <1>1, <2>1 DEF OutputWaits
  <2>3. SockEnds(h) /\ UNCHANGED <<kind, stopping, event, srv, acked>> /\ out' = out BY <1>10 DEF StopSeen, SockEnds
  <2> QED BY <1>2, <1>3, <2>1, <2>2, <2>3, EndsKeep
<1>11. CASE SockEmit
  <2>1. job = "emit" /\ ~Over /\ cuts' \in Nat /\ UNCHANGED <<kind, stopping, event, srv, acked>>
        /\ out' = out \o SetToSeq(pending.data)
    BY <1>2, <1>11 DEF SockEmit
  <2>2. PICK z \in (Nat \X Nat) : pending.data = {} \/ pending.data = {z}
    <3>1. <<0, 0>> \in Nat \X Nat OBVIOUS
    <3> QED BY <1>1, <3>1 DEF OutputWaits
  <2>3. SetToSeq({}) = <<>> /\ SetToSeq({z}) = <<z>> BY SetToSeqSmall
  <2>4. out \o <<>> = out /\ out \o <<z>> = Append(out, z) /\ Append(out, z) \in Seq(Nat \X Nat) BY <1>2, AppendFacts
  <2>5. (pending.data = {} /\ out' = out) \/ (pending.data = {z} /\ out' = Append(out, z)) BY <2>1, <2>2, <2>3, <2>4
  <2>6. NoGapInSession' BY <1>3, <2>1, <2>5, EmitNoGap
  <2>7. out' \in Seq(Nat \X Nat) BY <1>2, <2>4, <2>5
  <2>8. CASE SockEnds(h) BY <1>2, <2>1, <2>6, <2>7, <2>8, EndsKeep
  <2>9. CASE job' = "session" /\ pending' = NoOutput /\ UNCHANGED <<sockStatus, delay, h, profile, conn, dropped>> /\ pending.then # "reconnect"
    <3>1. SockTypeOK' BY <1>1, <2>1, <2>7, <2>9, NoOutputOK DEF SockTypeOK, JobPlaces
    <3>2. OutputWaits' BY <2>9 DEF OutputWaits, NoOutput
    <3>3. AckedIsHandedOver'
      <4>1. ToSet(Append(out, z)) = ToSet(out) \cup {z} BY <1>2, AppendFacts
      <4>2. \A a \in acked : <<0, a[1]>> \in ToSet(out) \cup pending.data \/ a \in h.part \/ a[1] \in dropped
        BY <2>1 DEF SockInv, AckedIsHandedOver
      <4>3. ToSet(out') = ToSet(out) \cup pending.data BY <2>5, <4>1
      <4> QED BY <2>1, <2>9, <4>2, <4>3 DEF AckedIsHandedOver
    <3>4. GatewayFollows'
      <4>1. GatewayFollows BY DEF SockInv
      <4>2. pending.data = {z} /\ out' = Append(out, z) => out' # <<>> /\ out'[Len(out')] = z BY <1>2, AppendFacts
      <4>3. \A x : LastIs(x) => LastIs(x)' BY <2>1, <2>9 DEF LastIs
      <4> QED BY <2>1, <2>5, <2>9, <4>1, <4>2, <4>3 DEF GatewayFollows, NoOutput, LastIs
    <3> QED BY <2>6, <3>1, <3>2, <3>3, <3>4 DEF SockInv
  <2>10. pending.then \in {"none", "continue", "reconnect", "stop"} BY <1>1 DEF SockTypeOK, Outputs
  <2>11. Stopped \/ Lost(h, "asked") => SockEnds(h) BY LostEnds DEF SockEnds
  <2> QED BY <1>11, <2>8, <2>9, <2>10, <2>11 DEF SockEmit
<1>12. CASE EmitFails
  <2>1. ~Over /\ cuts' \in Nat /\ job' = "failed" BY <1>2, <1>12 DEF EmitFails, SockFails
  <2>2. SockEnds(h) /\ UNCHANGED <<kind, stopping, event, srv, acked>> /\ out' = out BY <1>12 DEF EmitFails, SockEnds
  <2> QED BY <1>2, <1>3, <2>1, <2>2, EndsKeep
<1>13. CASE Wakeup
  <2> DEFINE w == [h EXCEPT !.waits = TRUE]
  <2>1. w \in Handlers /\ w.seq = h.seq /\ w.session = h.session /\ w.part = h.part BY <1>2 DEF Handlers
  <2> HIDE DEF w
  <2>2. CASE h' = w /\ UNCHANGED <<job, sockStatus, delay, profile, conn, pending, dropped, cuts>>
    <3>1. SockTypeOK' BY <1>1, <1>13, <2>1, <2>2 DEF Wakeup, SockTypeOK
    <3> QED BY <1>1, <1>13, <2>1, <2>2, <3>1, CalmKeeps DEF Wakeup, OutputWaits
  <2>3. CASE cuts' \in Nat /\ (Lost(h, "asked") \/ Lost(w, "send"))
    <3>1. job # "emit" /\ ~Over BY <1>13 DEF Wakeup
    <3>2. pending = NoOutput BY <1>1, <3>1 DEF OutputWaits
    <3>3. (SockEnds(h) \/ SockEnds(w)) /\ UNCHANGED <<kind, stopping, event, srv, acked>> /\ out' = out
      BY <1>13, <2>3, LostEnds DEF Wakeup
    <3> QED BY <1>2, <1>3, <2>1, <2>3, <3>1, <3>2, <3>3, EndsKeep
  <2>4. cuts + 1 \in Nat BY <1>2
  <2> QED BY <1>2, <1>13, <2>2, <2>3, <2>4 DEF Wakeup, w
<1>24. CASE PartsExpire
  <2>1. PICK n \in {p[1] : p \in h.part} : /\ h' = [h EXCEPT !.part = {p \in @ : p[1] # n}]
                                           /\ dropped' = dropped \cup {n}
    BY <1>24 DEF PartsExpire
  <2>2. n \in Nat /\ {p \in h.part : p[1] # n} \in SUBSET (Nat \X Nat) BY <1>2 DEF Handlers
  <2>3. /\ h' \in Handlers /\ h'.seq = h.seq /\ h'.session = h.session
        /\ h'.part = {p \in h.part : p[1] # n}
    BY <1>2, <2>1, <2>2 DEF Handlers
  <2>4. dropped' \subseteq Nat BY <1>1, <2>1, <2>2 DEF SockTypeOK
  <2>5. SockTypeOK' BY <1>1, <1>24, <2>3, <2>4 DEF PartsExpire, SockTypeOK
  <2>6. \A p \in h.part : p \in h'.part \/ p[1] \in dropped' BY <2>1, <2>3
  <2> QED BY <1>1, <1>24, <2>1, <2>3, <2>5, <2>6, CalmKeeps DEF PartsExpire, OutputWaits
<1>25. CASE TimesOut
  <2>1. job # "emit" /\ ~Over /\ cuts' \in Nat BY <1>2, <1>25 DEF TimesOut
  <2>2. pending = NoOutput BY <1>1, <2>1 DEF OutputWaits
  <2>3. SockEnds(h) /\ UNCHANGED <<kind, stopping, event, srv, acked>> /\ out' = out BY <1>25, LostEnds DEF TimesOut
  <2> QED BY <1>2, <1>3, <2>1, <2>2, <2>3, EndsKeep
<1>14. CASE Happens
  <2>1. SockTypeOK' BY <1>1, <1>14 DEF Happens, SockTypeOK
  <2> QED BY <1>1, <1>14, <2>1, CalmKeeps DEF Happens, OutputWaits
<1>15. \A f, after : Sends(f, after) /\ Legal(f, after) => SockInv'
  <2> SUFFICES ASSUME NEW f, NEW after, Sends(f, after), Legal(f, after) PROVE SockInv' OBVIOUS
  <2>1. job = "session" /\ cuts' \in {cuts, cuts + 1} /\ UNCHANGED <<kind, stopping, event, out>>
        /\ (Take(f, after) \/ SendFails(f))
    BY DEF Sends
  <2>2. cuts' \in Nat BY <1>2, <2>1
  <2> QED BY <2>1, <2>2, TakeKeeps
<1>17. cuts + 1 \in Nat /\ conn.pos \in Nat /\ conn.pos + 1 \in Nat /\ srv.session \in Nat /\ srv.dialect \in DialectNames
  <2>1. srv.dialect \in {"modern", "legacy", "none"} /\ srv.session \in Nat BY <1>2 DEF Servers
  <2>2. conn.pos \in Nat BY <1>2 DEF Conns
  <2>3. srv.dialect \in DialectNames BY <2>1 DEF DialectNames
  <2>4. cuts + 1 \in Nat /\ conn.pos + 1 \in Nat BY <1>2, <2>2
  <2> QED BY <2>1, <2>2, <2>3, <2>4
<1>18. CASE Greets
  <2>1. CASE kind = "discord" /\ conn.phase = "open" /\ Sends(Frame("hello", 0, 0, 0, ""), 0)
    <3>1. Legal(Frame("hello", 0, 0, 0, ""), 0) BY FrameOK, <2>1 DEF Words, DialectNames
    <3> QED BY <1>15, <2>1, <3>1
  <2>2. CASE kind = "discord" /\ conn.phase = "identified" /\ Sends(Frame("ready", srv.session, 0, conn.pos, ""), 0)
    <3>1. Legal(Frame("ready", srv.session, 0, conn.pos, ""), 0) BY FrameOK, <1>17, <2>2 DEF Words, DialectNames
    <3> QED BY <1>15, <2>2, <3>1
  <2>3. CASE kind = "discord" /\ conn.phase = "refused" /\ Sends(Frame("invalid", 0, 0, 0, ""), 0)
    <3>1. Legal(Frame("invalid", 0, 0, 0, ""), 0) BY FrameOK, <2>3 DEF Words, DialectNames
    <3> QED BY <1>15, <2>3, <3>1
  <2>4. CASE kind = "graphql" /\ Sends(Frame("connection_ack", 0, 0, 0, ""), 0)
    <3>1. Legal(Frame("connection_ack", 0, 0, 0, ""), 0) BY FrameOK, <2>4 DEF Words, DialectNames
    <3> QED BY <1>15, <2>4, <3>1
  <2>5. CASE kind = "graphql" /\ Sends(Frame("protocol", 0, 0, 0, srv.dialect), 0)
    <3>1. Legal(Frame("protocol", 0, 0, 0, srv.dialect), 0) BY FrameOK, <1>17, <2>5 DEF Words, DialectNames
    <3> QED BY <1>15, <2>5, <3>1
  <2>6. CASE kind = "jsonrpc" /\ Sends(Frame("result", cuts + 1, 0, 0, ""), 0)
    <3>1. Legal(Frame("result", cuts + 1, 0, 0, ""), 0) BY FrameOK, <1>17, <2>6 DEF Words, DialectNames
    <3> QED BY <1>15, <2>6, <3>1
  <2>7. CASE job = "session" /\ Lost(h, "closed") /\ UNCHANGED <<kind, stopping, srv, event, out, acked, cuts>>
    <3>1. SockEnds(h) /\ job # "emit" /\ ~Over BY <2>7, LostEnds DEF Over
    <3>2. pending = NoOutput BY <1>1, <3>1 DEF OutputWaits
    <3> QED BY <1>2, <1>3, <2>7, <3>1, <3>2, EndsKeep
  <2> QED BY <1>18, <2>1, <2>2, <2>3, <2>4, <2>5, <2>6, <2>7 DEF Greets
<1>19. CASE SendsEvent
  <2>1. CASE /\ kind = "discord" /\ conn.phase = "ready" /\ conn.pos < event
             /\ Sends(Frame("dispatch", conn.pos + 1, 0, conn.pos + 1, ""), conn.pos + 1)
    <3>1. Legal(Frame("dispatch", conn.pos + 1, 0, conn.pos + 1, ""), conn.pos + 1)
      BY FrameOK, <1>17, <2>1 DEF Words, DialectNames
    <3> QED BY <1>15, <2>1, <3>1
  <2>2. CASE /\ kind = "graphql"
             /\ Sends(Frame(IF srv.dialect = "modern" THEN "next" ELSE "data", conn.pos + 1, 0, 0, srv.dialect), conn.pos + 1)
    <3>1. Legal(Frame(IF srv.dialect = "modern" THEN "next" ELSE "data", conn.pos + 1, 0, 0, srv.dialect), conn.pos + 1)
      BY FrameOK, <1>17, <2>2 DEF Words, DialectNames
    <3> QED BY <1>15, <2>2, <3>1
  <2>3. CASE kind = "jsonrpc" /\ \E k \in 1 .. cuts + 1 : Sends(Frame("note", conn.pos + 1, k, 0, ""), conn.pos + 1)
    <3>1. PICK k \in 1 .. cuts + 1 : Sends(Frame("note", conn.pos + 1, k, 0, ""), conn.pos + 1) BY <2>3
    <3>a. k \in Nat BY <1>17
    <3>2. Legal(Frame("note", conn.pos + 1, k, 0, ""), conn.pos + 1) BY <3>a, FrameOK, <1>17, <2>3 DEF Words, DialectNames
    <3> QED BY <1>15, <3>1, <3>2
  <2>4. CASE kind \in {"raw", "http"} /\ Sends(Frame("text", conn.pos + 1, 0, 0, ""), conn.pos + 1)
    <3>1. Legal(Frame("text", conn.pos + 1, 0, 0, ""), conn.pos + 1) BY FrameOK, <1>17, <2>4 DEF Words, DialectNames
    <3> QED BY <1>15, <2>4, <3>1
  <2>5. CASE kind = "slack" /\ \E n \in 1 .. event : Sends(Frame("envelope", n, 0, 0, ""), 0)
    <3>1. PICK n \in 1 .. event : Sends(Frame("envelope", n, 0, 0, ""), 0) BY <2>5
    <3>a. n \in Nat BY <1>2
    <3>2. Legal(Frame("envelope", n, 0, 0, ""), 0) BY <3>a, FrameOK, <2>5 DEF Words, DialectNames
    <3> QED BY <1>15, <3>1, <3>2
  <2>6. CASE kind = "feishu" /\ \E n \in 1 .. event, k \in 1 .. 2 : Sends(Frame("part", n, k, 0, ""), 0)
    <3>1. PICK n \in 1 .. event, k \in 1 .. 2 : Sends(Frame("part", n, k, 0, ""), 0) BY <2>6
    <3>a. n \in Nat /\ k \in Nat BY <1>2
    <3>2. Legal(Frame("part", n, k, 0, ""), 0) BY <3>a, FrameOK, <2>6 DEF Words, DialectNames
    <3> QED BY <1>15, <3>1, <3>2
  <2> QED BY <1>19, <2>1, <2>2, <2>3, <2>4, <2>5, <2>6 DEF SendsEvent
<1>20. CASE Answers
  <2>1. Legal(Frame("ack", 0, 0, 0, ""), 0) BY FrameOK, <1>20 DEF Answers, Words, DialectNames
  <2> QED BY <1>15, <1>20, <2>1 DEF Answers
<1>21. CASE Interrupts
  <2>a. job = "session" /\ cuts' = cuts + 1 /\ UNCHANGED <<kind, stopping, event, out>> BY <1>21 DEF Interrupts
  <2>b. cuts' \in Nat BY <1>2, <2>a
  <2>1. job = "session" /\ cuts' \in Nat /\ UNCHANGED <<kind, stopping, event, out>> BY <2>a, <2>b
  <2>2. \A f \in Besides : Legal(f, 0)
    <3> SUFFICES ASSUME NEW f \in Besides PROVE Legal(f, 0) OBVIOUS
    <3> DEFINE ops == CASE kind = "discord" -> {"heartbeat", "reconnect"}
                        [] kind = "slack" -> {"disconnect"}
                        [] kind = "feishu" -> {"ping"}
                        [] kind = "graphql" -> {"ping", "complete", "error", "pong"}
                        [] kind = "jsonrpc" -> {"error", "unsubscribed"}
                        [] OTHER -> {}
    <3>1. CASE \E op \in ops : f = Frame(op, 0, 0, 0, "")
      <4>1. PICK op \in ops : f = Frame(op, 0, 0, 0, "") BY <3>1
      <4>2. /\ kind = "discord" => op \in {"heartbeat", "reconnect"}
            /\ kind = "slack" => op \in {"disconnect"}
            /\ kind = "feishu" => op \in {"ping"}
            /\ op \in {"heartbeat", "reconnect", "disconnect", "ping", "complete", "error", "pong", "unsubscribed"}
        BY <4>1
      <4> HIDE DEF ops
      <4>3. op \in Words /\ "" \in DialectNames BY <4>2 DEF Words, DialectNames
      <4> QED BY <4>1, <4>2, <4>3, FrameOK
    <3>2. CASE kind = "discord" /\ conn.phase = "ready" /\ \E n \in {0, 1} : f = Frame("invalid", n, 0, 0, "")
      BY <3>2, FrameOK DEF Words, DialectNames
    <3> QED BY <3>1, <3>2 DEF Besides
  <2>3. CASE \E f \in Besides : Take(f, 0) \/ SendFails(f) BY <2>1, <2>2, <2>3, TakeKeeps
  <2>4. CASE SockFails /\ UNCHANGED <<srv, acked>>
    <3>1. SockEnds(h) /\ job # "emit" /\ ~Over BY <2>1, <2>4 DEF SockEnds
    <3>2. pending = NoOutput BY <1>1, <3>1 DEF OutputWaits
    <3> QED BY <1>2, <1>3, <2>1, <2>4, <3>1, <3>2, EndsKeep
  <2> QED BY <1>21, <2>3, <2>4 DEF Interrupts
<1>22. CASE Cut
  <2>1. job # "emit" /\ ~Over /\ cuts' \in Nat BY <1>2, <1>22 DEF Cut
  <2>2. pending = NoOutput BY <1>1, <2>1 DEF OutputWaits
  <2>3. CASE SockFails \/ \E why \in {"closed", "ended", "protocol", "read"} : Lost(h, why)
    <3>1. SockEnds(h) /\ UNCHANGED <<kind, stopping, event, srv, acked>> /\ out' = out BY <1>22, <2>3, LostEnds DEF Cut, SockEnds
    <3> QED BY <1>2, <1>3, <2>1, <2>2, <3>1, EndsKeep
  <2>4. CASE conn' = [conn EXCEPT !.alive = FALSE] /\ UNCHANGED <<job, sockStatus, delay, h, profile, pending, dropped>>
    <3>1. conn' \in Conns /\ conn'.pos = conn.pos /\ conn'.phase = conn.phase BY <1>2, <2>4 DEF Conns
    <3>2. SockTypeOK' BY <1>1, <1>22, <2>1, <2>4, <3>1 DEF Cut, SockTypeOK
    <3> QED BY <1>1, <1>22, <2>4, <3>1, <3>2, CalmKeeps DEF Cut, OutputWaits
  <2> QED BY <1>22, <2>3, <2>4 DEF Cut
<1>23. CASE SessionEnds
  <2>1. srv' \in Servers /\ srv'.session = srv.session BY <1>2, <1>23 DEF SessionEnds, Servers
  <2>2. SockTypeOK' BY <1>1, <1>23, <2>1 DEF SessionEnds, SockTypeOK
  <2> QED BY <1>1, <1>23, <2>1, <2>2, CalmKeeps DEF SessionEnds, OutputWaits
<1> QED BY <1>4, <1>5, <1>6, <1>7, <1>8, <1>9, <1>10, <1>11, <1>12, <1>13, <1>14, <1>18, <1>19, <1>20,
           <1>21, <1>22, <1>23, <1>24, <1>25 DEF SockNext

-----------------------------------------------------------------------------
(* The stream runner: no event is lost. *)

\* The numbers in a channel that holds n + 1 .. m in order, between zeros.
Holds(c, n, m) == /\ ToSet(c) \ {0} = n + 1 .. m
                  /\ \A k, l \in DOMAIN c : k < l /\ c[l] # 0 => c[k] < c[l]

\* While nobody has asked for a stop, a runner that has left its loop has
\* emptied the channel, and the task that filled it is gone.
RunnerDrains ==
    ~stop /\ runner \in {"await", "final", "decide", "reconnect", "backoff"} => channel = <<>> /\ SenderGone
RunnerCounts ==
    ~stop => Holds(channel, Len(stored), sent) /\ \A i \in 1 .. Len(stored) : stored[i] = i
RunnerInv ==
    /\ stop \in BOOLEAN /\ channel \in Seq(Nat) /\ stored \in Seq(Nat) /\ sent \in Nat
    /\ (~stop => Len(stored) <= sent)
    /\ RunnerDrains /\ RunnerCounts

LEMMA HoldsAppend ==
    ASSUME NEW c \in Seq(Nat), NEW n \in Nat, NEW m \in Nat, n <= m, Holds(c, n, m)
    PROVE  Holds(Append(c, 0), n, m) /\ Holds(Append(c, m + 1), n, m + 1)
<1>1. /\ \A e \in Nat : ToSet(Append(c, e)) = ToSet(c) \cup {e} /\ Append(c, e) \in Seq(Nat)
                        /\ Len(Append(c, e)) = Len(c) + 1 /\ Append(c, e)[Len(c) + 1] = e
                        /\ \A i \in 1 .. Len(c) : Append(c, e)[i] = c[i]
  BY AppendFacts
<1>2. DOMAIN c = 1 .. Len(c) /\ Len(c) \in Nat OBVIOUS
<1>3. \A k \in DOMAIN c : c[k] < m + 1
  <2>1. \A k \in DOMAIN c : c[k] \in ToSet(c) /\ c[k] \in Nat BY DEF ToSet
  <2> QED BY <2>1 DEF Holds
<1>4. \A e \in Nat : DOMAIN Append(c, e) = 1 .. Len(c) + 1 OBVIOUS
<1>5. Holds(Append(c, 0), n, m)
  <2>1. ToSet(Append(c, 0)) \ {0} = n + 1 .. m BY <1>1 DEF Holds
  <2>2. ASSUME NEW k \in DOMAIN Append(c, 0), NEW l \in DOMAIN Append(c, 0), k < l, Append(c, 0)[l] # 0
        PROVE  Append(c, 0)[k] < Append(c, 0)[l]
    <3>1. l # Len(c) + 1 BY <1>1, <2>2
    <3>2. k \in 1 .. Len(c) /\ l \in 1 .. Len(c) BY <1>2, <1>4, <2>2, <3>1
    <3> QED BY <1>1, <1>2, <2>2, <3>2 DEF Holds
  <2> QED BY <2>1, <2>2 DEF Holds
<1>6. Holds(Append(c, m + 1), n, m + 1)
  <2>1. ToSet(Append(c, m + 1)) \ {0} = n + 1 .. m + 1
    <3>1. m + 1 # 0 /\ n + 1 .. m + 1 = (n + 1 .. m) \cup {m + 1} OBVIOUS
    <3> QED BY <1>1, <3>1 DEF Holds
  <2>2. ASSUME NEW k \in DOMAIN Append(c, m + 1), NEW l \in DOMAIN Append(c, m + 1), k < l, Append(c, m + 1)[l] # 0
        PROVE  Append(c, m + 1)[k] < Append(c, m + 1)[l]
    <3>1. k \in 1 .. Len(c) BY <1>2, <1>4, <2>2
    <3>2. CASE l = Len(c) + 1 BY <1>1, <1>2, <1>3, <3>1, <3>2
    <3>3. CASE l # Len(c) + 1
      <4>1. l \in 1 .. Len(c) BY <1>2, <1>4, <3>3
      <4> QED BY <1>1, <1>2, <2>2, <3>1, <4>1 DEF Holds
    <3> QED BY <3>2, <3>3
  <2> QED BY <2>1, <2>2 DEF Holds
<1> QED BY <1>5, <1>6

LEMMA HoldsTail ==
    ASSUME NEW c \in Seq(Nat), NEW n \in Nat, NEW m \in Nat, n <= m, Holds(c, n, m), c # <<>>
    PROVE  /\ Tail(c) \in Seq(Nat) /\ Head(c) \in Nat
           /\ Head(c) = 0 => Holds(Tail(c), n, m)
           /\ Head(c) # 0 => Head(c) = n + 1 /\ n + 1 <= m /\ Holds(Tail(c), n + 1, m)
<1> DEFINE t == Tail(c)
<1>1. t \in Seq(Nat) /\ Len(c) \in Nat /\ Len(c) > 0 /\ Len(t) = Len(c) - 1 /\ Head(c) = c[1] /\ Head(c) \in Nat
  OBVIOUS
<1>2. DOMAIN c = 1 .. Len(c) /\ DOMAIN t = 1 .. Len(c) - 1 BY <1>1
<1>3. \A i \in 1 .. Len(c) - 1 : t[i] = c[i + 1] OBVIOUS
<1> HIDE DEF t
<1>10. ASSUME NEW n0 \in Nat PROVE \A i \in 1 .. n0 - 1 : i \in Nat /\ i + 1 \in 1 .. n0 /\ 1 < i + 1 OBVIOUS
<1>11. \A i \in 1 .. Len(c) - 1 : i \in Nat /\ i + 1 \in DOMAIN c /\ 1 < i + 1 BY <1>1, <1>2, <1>10
<1>4. ToSet(c) = {c[1]} \cup ToSet(t)
  <2>1. ASSUME NEW x \in ToSet(c) PROVE x = c[1] \/ x \in ToSet(t)
    <3>1. PICK k \in DOMAIN c : x = c[k] BY DEF ToSet
    <3>2. CASE k = 1 BY <3>1, <3>2
    <3>3. CASE k # 1
      <4>1. k - 1 \in DOMAIN t /\ t[k - 1] = c[k] BY <1>1, <1>2, <1>3, <3>3
      <4> QED BY <3>1, <4>1 DEF ToSet
    <3> QED BY <3>2, <3>3
  <2>2. ASSUME NEW x \in ToSet(t) PROVE x \in ToSet(c)
    <3>1. PICK k \in DOMAIN t : x = t[k] BY DEF ToSet
    <3>2. k \in 1 .. Len(c) - 1 BY <1>2, <3>1
    <3>3. k + 1 \in DOMAIN c /\ c[k + 1] = x BY <1>3, <1>11, <3>1, <3>2
    <3> QED BY <3>3 DEF ToSet
  <2>3. c[1] \in ToSet(c) BY <1>1, <1>2 DEF ToSet
  <2> QED BY <2>1, <2>2, <2>3
<1>5. \A k, l \in DOMAIN t : k < l /\ t[l] # 0 => t[k] < t[l]
  <2>1. ASSUME NEW k \in DOMAIN t, NEW l \in DOMAIN t, k < l, t[l] # 0 PROVE t[k] < t[l]
    <3>1. k \in 1 .. Len(c) - 1 /\ l \in 1 .. Len(c) - 1 BY <1>2
    <3>2. t[k] = c[k + 1] /\ t[l] = c[l + 1] BY <1>3, <3>1
    <3>3. k + 1 \in DOMAIN c /\ l + 1 \in DOMAIN c /\ k + 1 < l + 1 BY <1>11, <2>1, <3>1
    <3>4. c[l + 1] # 0 BY <2>1, <3>2
    <3>5. c[k + 1] < c[l + 1] BY <3>3, <3>4 DEF Holds
    <3> QED BY <3>2, <3>5
  <2> QED BY <2>1
<1>6. \A x \in ToSet(t) : x # 0 => c[1] < x
  <2>1. ASSUME NEW x \in ToSet(t), x # 0 PROVE c[1] < x
    <3>1. PICK k \in DOMAIN t : x = t[k] BY DEF ToSet
    <3>2. k \in 1 .. Len(c) - 1 BY <1>2, <3>1
    <3>3. c[k + 1] = x BY <1>3, <3>1, <3>2
    <3>4. 1 \in DOMAIN c BY <1>1, <1>2
    <3>5. k + 1 \in DOMAIN c /\ 1 < k + 1 BY <1>11, <3>2
    <3> QED BY <2>1, <3>3, <3>4, <3>5 DEF Holds
  <2> QED BY <2>1
<1>7. CASE Head(c) = 0
  <2>1. ToSet(t) \ {0} = n + 1 .. m BY <1>1, <1>4, <1>7 DEF Holds
  <2> QED BY <1>1, <1>5, <1>7, <2>1 DEF Holds, t
<1>8. CASE Head(c) # 0
  <2>1. c[1] \in n + 1 .. m BY <1>1, <1>4, <1>8 DEF Holds
  <2>2. \A x \in n + 1 .. m : x = c[1] \/ c[1] < x
    <3>1. ASSUME NEW x \in n + 1 .. m, x # c[1] PROVE c[1] < x
      <4>1. x \in ToSet(c) /\ x # 0 BY DEF Holds
      <4> QED BY <1>4, <1>6, <3>1, <4>1
    <3> QED BY <3>1
  <2>3. n + 1 \in n + 1 .. m BY <2>1
  <2>4. c[1] = n + 1 BY <2>1, <2>2, <2>3
  <2>5. ToSet(t) \ {0} = (n + 1) + 1 .. m
    <3>1. (n + 1) + 1 .. m = (n + 1 .. m) \ {n + 1} OBVIOUS
    <3>2. (n + 1) \notin ToSet(t) BY <1>6, <2>4
    <3> QED BY <1>4, <2>4, <3>1, <3>2 DEF Holds
  <2> QED BY <1>1, <1>5, <1>8, <2>1, <2>4, <2>5 DEF Holds, t
<1> QED BY <1>7, <1>8

LEMMA RunnerInitOK == Init => RunnerInv
<1> SUFFICES ASSUME Init PROVE RunnerInv OBVIOUS
<1>1. channel = <<>> /\ stored = <<>> /\ sent = 0 /\ stop = FALSE /\ runner = "loop" BY DEF Init
<1>2. ToSet(<<>>) = {} /\ Len(<<>>) = 0 /\ <<>> \in Seq(Nat) /\ DOMAIN <<>> = {} BY DEF ToSet
<1>3. Holds(<<>>, 0, 0) BY <1>2 DEF Holds
<1>4. RunnerCounts BY <1>1, <1>2, <1>3 DEF RunnerCounts
<1>5. RunnerDrains BY <1>1 DEF RunnerDrains
<1>6. Len(stored) <= sent BY <1>1, <1>2
<1> QED BY <1>1, <1>2, <1>4, <1>5, <1>6 DEF RunnerInv

\* A step that puts nothing new into the stream.
LEMMA RunnerKeeps ==
    ASSUME RunnerInv, stop' \in BOOLEAN, stop => stop', stored' = stored,
           \/ channel' = channel /\ sent' = sent
           \/ channel' = Append(channel, 0) /\ sent' = sent /\ ~SenderGone
           \/ channel' = Append(channel, sent + 1) /\ sent' = sent + 1 /\ ~SenderGone,
           \/ RunnerDrains'
           \/ channel' = channel /\ runner' = runner /\ (SenderGone => SenderGone')
           \/ runner' = runner /\ ~SenderGone
    PROVE  RunnerInv'
<1>1. channel \in Seq(Nat) /\ sent \in Nat /\ stored \in Seq(Nat) BY DEF RunnerInv
<1>2. Append(channel, 0) \in Seq(Nat) /\ Append(channel, sent + 1) \in Seq(Nat) /\ sent + 1 \in Nat BY <1>1
<1>a. channel' \in Seq(Nat) BY <1>1, <1>2
<1>b. sent' = sent \/ sent' = sent + 1 OBVIOUS
<1>3. channel' \in Seq(Nat) /\ sent' \in Nat /\ sent <= sent' BY <1>1, <1>a, <1>b
<1>4. RunnerDrains' BY DEF RunnerInv, RunnerDrains
<1>5. Len(stored) \in Nat BY <1>1
<1>6. ~stop' => Len(stored) <= sent' BY <1>1, <1>3, <1>5 DEF RunnerInv
<1>7. ~stop' => Holds(channel', Len(stored), sent')
  <2>1. SUFFICES ASSUME ~stop' PROVE Holds(channel', Len(stored), sent') OBVIOUS
  <2>2. Len(stored) <= sent /\ Holds(channel, Len(stored), sent) BY <2>1 DEF RunnerInv, RunnerCounts
  <2> QED BY <1>1, <1>5, <2>2, HoldsAppend
<1>8. RunnerCounts' BY <1>7 DEF RunnerCounts, RunnerInv
<1> QED BY <1>1, <1>3, <1>4, <1>6, <1>8 DEF RunnerInv

LEMMA RunnerNextOK == RunnerInv /\ [Next]_vars => RunnerInv'
<1> SUFFICES ASSUME RunnerInv, [Next]_vars PROVE RunnerInv' OBVIOUS
<1>1. stop \in BOOLEAN /\ channel \in Seq(Nat) /\ stored \in Seq(Nat) /\ sent \in Nat /\ RunnerDrains /\ RunnerCounts
  BY DEF RunnerInv
<1> USE DEF taskVars, storeVars, requestVars
<1>2. CASE UNCHANGED vars BY <1>1, <1>2 DEF vars, RunnerInv, RunnerDrains, RunnerCounts, SenderGone
<1>3. CASE InnerStep
  <2>1. stop' = stop /\ stored' = stored /\ runner' = runner
    BY <1>3 DEF InnerStep, InnerConnect, InnerEvent, InnerDrop, InnerRetry, InnerSeesStop, InnerClose, InnerEnd, runnerUnchanged
  <2>2. \/ channel' = channel /\ sent' = sent
        \/ channel' = Append(channel, 0) /\ sent' = sent /\ ~SenderGone
        \/ channel' = Append(channel, sent + 1) /\ sent' = sent + 1 /\ ~SenderGone
    BY <1>3 DEF InnerStep, InnerConnect, InnerEvent, InnerDrop, InnerRetry, InnerSeesStop, InnerClose, InnerEnd, Emit, SenderGone
  <2>3. (channel' = channel /\ (SenderGone => SenderGone')) \/ ~SenderGone
    BY <1>3 DEF InnerStep, InnerConnect, InnerEvent, InnerDrop, InnerRetry, InnerSeesStop, InnerClose, InnerEnd, SenderGone
  <2> QED BY <1>1, <2>1, <2>2, <2>3, RunnerKeeps
<1>4. CASE RunnerRecv
  <2>1. runner = "loop" /\ channel # <<>> /\ channel' = Tail(channel) /\ sent' = sent BY <1>4 DEF RunnerRecv
  <2>2. CASE stop'
    <3>1. stored' \in Seq(Nat)
      <4>1. Head(channel) \in Nat BY <1>1, <2>1
      <4>2. Append(stored, Head(channel)) \in Seq(Nat) BY <1>1, <4>1
      <4> QED BY <1>1, <1>4, <4>2 DEF RunnerRecv
    <3>2. stop' \in BOOLEAN BY <1>1, <1>4 DEF RunnerRecv, Fails
    <3>3. Tail(channel) \in Seq(Nat) BY <1>1, <2>1
    <3> QED BY <1>1, <2>1, <2>2, <3>1, <3>2, <3>3 DEF RunnerInv, RunnerDrains, RunnerCounts
  <2>3. CASE ~stop'
    <3>1. stop' = stop /\ runner' = "read"
          /\ stored' = IF Head(channel) = 0 THEN stored ELSE Append(stored, Head(channel))
      BY <1>4, <2>3 DEF RunnerRecv, Fails
    <3>2. Len(stored) \in Nat /\ Len(stored) <= sent /\ Holds(channel, Len(stored), sent) /\ \A i \in 1 .. Len(stored) : stored[i] = i
      BY <1>1, <2>3, <3>1 DEF RunnerInv, RunnerCounts
    <3>3. /\ Tail(channel) \in Seq(Nat) /\ Head(channel) \in Nat
          /\ Head(channel) = 0 => Holds(Tail(channel), Len(stored), sent)
          /\ Head(channel) # 0 => /\ Head(channel) = Len(stored) + 1 /\ Len(stored) + 1 <= sent
                                  /\ Holds(Tail(channel), Len(stored) + 1, sent)
      BY <1>1, <2>1, <3>2, HoldsTail
    <3>4. RunnerDrains' BY <3>1 DEF RunnerDrains
    <3>5. CASE Head(channel) = 0
      BY <1>1, <2>1, <2>3, <3>1, <3>2, <3>3, <3>4, <3>5 DEF RunnerInv, RunnerCounts
    <3>6. CASE Head(channel) # 0
      <4>1. stored' = Append(stored, Len(stored) + 1) BY <3>1, <3>3, <3>6
      <4>2. stored' \in Seq(Nat) /\ Len(stored') = Len(stored) + 1 BY <1>1, <3>2, <4>1
      <4>3. \A i \in 1 .. Len(stored') : stored'[i] = i
        <5>1. stored'[Len(stored) + 1] = Len(stored) + 1 BY <1>1, <3>2, <4>1
        <5>2. \A i \in 1 .. Len(stored) : stored'[i] = stored[i] BY <1>1, <4>1
        <5> QED BY <3>2, <4>2, <5>1, <5>2
      <4> QED BY <1>1, <2>1, <2>3, <3>1, <3>2, <3>3, <3>4, <3>6, <4>2, <4>3 DEF RunnerInv, RunnerCounts
    <3> QED BY <3>5, <3>6
  <2> QED BY <2>2, <2>3
<1>5. CASE RunnerRecvNone
  BY <1>1, <1>5, RunnerKeeps DEF RunnerRecvNone, RunnerDrains, SenderGone
<1>6. CASE RunnerTick \/ SyncRead \/ SyncNote \/ RunnerExit
  <2>1. stop' = stop /\ stored' = stored /\ channel' = channel /\ sent' = sent /\ runner' \in {"read", "write", "loop", "ended"}
    BY <1>6 DEF RunnerTick, SyncRead, SyncNote, RunnerExit
  <2>2. RunnerDrains' BY <2>1 DEF RunnerDrains
  <2> QED BY <1>1, <2>1, <2>2, RunnerKeeps
<1>7. CASE RunnerSeesStop
  <2>1. RunnerDrains' BY <1>7 DEF RunnerSeesStop, RunnerDrains
  <2> QED BY <1>1, <1>7, <2>1, RunnerKeeps DEF RunnerSeesStop
<1>8. CASE SyncWrite
  <2>1. stored' = stored /\ channel' = channel /\ sent' = sent /\ (stop' = TRUE \/ (stop' = stop /\ runner' = "note"))
    BY <1>8 DEF SyncWrite, Fails
  <2>2. RunnerDrains' BY <2>1 DEF RunnerDrains
  <2> QED BY <1>1, <2>1, <2>2, RunnerKeeps
<1>9. CASE AwaitTask \/ FinalSync \/ Decide \/ ReconnectSync
  <2>1. stored' = stored /\ channel' = channel /\ sent' = sent /\ (stop' = TRUE \/ stop' = stop)
        /\ inner' \in {inner, "done"} /\ runner \in {"await", "final", "decide", "reconnect"}
    BY <1>9 DEF AwaitTask, FinalSync, Decide, ReconnectSync, Fails
  <2>2. RunnerDrains' BY <1>1, <2>1 DEF RunnerDrains, SenderGone
  <2>3. stop' \in BOOLEAN /\ (stop => stop')
    <3>1. CASE stop' = TRUE BY <3>1
    <3>2. CASE stop' = stop BY <1>1, <3>2
    <3> QED BY <2>1, <3>1, <3>2
  <2> QED BY <2>1, <2>2, <2>3, RunnerKeeps
<1>10. CASE Backoff
  <2>1. stored' = stored /\ sent' = sent /\ stop' = stop /\ runner' \in {"stop_sync", "loop"} BY <1>10 DEF Backoff
  <2>2. channel' = channel
    <3>1. CASE stop BY <1>10, <3>1 DEF Backoff
    <3>2. CASE ~stop BY <1>1, <1>10, <3>2 DEF Backoff, RunnerDrains
    <3> QED BY <3>1, <3>2
  <2>3. RunnerDrains' BY <2>1 DEF RunnerDrains
  <2> QED BY <1>1, <2>1, <2>2, <2>3, RunnerKeeps
<1>11. CASE StopRequest
  <2>1. stored' = stored /\ channel' = channel /\ sent' = sent /\ stop' = TRUE BY <1>11 DEF StopRequest
  <2>2. RunnerDrains' BY <2>1 DEF RunnerDrains
  <2> QED BY <1>1, <2>1, <2>2, RunnerKeeps
<1>12. CASE StopJoined \/ StopAborts \/ StatusRequest \/ StatusAnswer
  <2>1. stored' = stored /\ channel' = channel /\ sent' = sent /\ stop' = stop /\ inner' = inner /\ runner' \in {runner, "aborted"}
    BY <1>12 DEF StopJoined, StopAborts, StatusRequest, StatusAnswer
  <2>2. RunnerDrains' BY <1>1, <2>1 DEF RunnerDrains, SenderGone
  <2> QED BY <1>1, <2>1, <2>2, RunnerKeeps
<1> QED BY <1>2, <1>3, <1>4, <1>5, <1>6, <1>7, <1>8, <1>9, <1>10, <1>11, <1>12 DEF Next, RunnerStep, StopStep

LEMMA RunnerTrue == RunnerInv => NothingLost
<1> SUFFICES ASSUME RunnerInv, ~stop PROVE NothingLost BY DEF NothingLost
<1>1. stored \in Seq(Nat) /\ \A i \in 1 .. Len(stored) : stored[i] = i BY DEF RunnerInv, RunnerCounts
<1>2. stored = [i \in 1 .. Len(stored) |-> i] BY <1>1
<1>3. Holds(channel, Len(stored), sent) BY DEF RunnerInv, RunnerCounts
<1> QED BY <1>2, <1>3 DEF NothingLost, Holds, ToSet

-----------------------------------------------------------------------------
(* The IMAP job: each message of a session once, none passed over. *)

\* A sequence in increasing order.
Rises(s) == \A i, j \in DOMAIN s : i < j => s[i] < s[j]

\* UidsInOrder lists an interval: every number of it, in increasing order.
LEMMA IntervalInOrder ==
    ASSUME NEW a \in Nat, NEW b \in Nat
    PROVE  /\ UidsInOrder(a .. b) \in Seq(Nat) /\ Rises(UidsInOrder(a .. b))
           /\ \A i \in DOMAIN UidsInOrder(a .. b) : UidsInOrder(a .. b)[i] \in a .. b
           /\ \A u \in a .. b : \E i \in DOMAIN UidsInOrder(a .. b) : UidsInOrder(a .. b)[i] = u
<1> DEFINE n == Cardinality(a .. b)
           P(s) == \A i, j \in DOMAIN s : i < j => s[i] < s[j]
           w == [i \in 1 .. n |-> a + i - 1]
           t == UidsInOrder(a .. b)
<1>1. IsFiniteSet(a .. b) /\ n = (IF a > b THEN 0 ELSE b - a + 1) BY FS_Interval
<1>2. n \in Nat BY <1>1
<1>3. w \in [1 .. n -> a .. b] /\ P(w)
  <2>1. \A i \in 1 .. n : a + i - 1 \in a .. b BY <1>1
  <2>2. w \in [1 .. n -> a .. b] BY <2>1
  <2>3. P(w) OBVIOUS
  <2> QED BY <2>2, <2>3
<1>4. t \in [1 .. n -> a .. b] /\ P(t) BY <1>3 DEF UidsInOrder
<1> HIDE DEF n, w, t
<1>5. DOMAIN t = 1 .. n BY <1>4
<1>6. ASSUME NEW u \in a .. b, \A i \in DOMAIN t : t[i] # u PROVE FALSE
  <2> DEFINE T == (a .. b) \ {u}
  <2>1. IsFiniteSet(T) /\ Cardinality(T) = n - 1 BY <1>1, <1>6, FS_RemoveElement DEF n
  <2>2. t \in [1 .. n -> T] BY <1>4, <1>5, <1>6
  <2>3. IsFiniteSet(1 .. n) /\ Cardinality(1 .. n) = n
    <3>1. IsFiniteSet(1 .. n) /\ Cardinality(1 .. n) = (IF 1 > n THEN 0 ELSE n - 1 + 1) BY <1>2, FS_Interval
    <3> QED BY <1>2, <3>1
  <2> HIDE DEF T
  <2>4. Cardinality(T) < Cardinality(1 .. n) BY <1>2, <2>1, <2>3
  <2>5. PICK x, y \in 1 .. n : x # y /\ t[x] = t[y] BY <2>1, <2>2, <2>3, <2>4, FS_PigeonHole
  <2>6. t[x] \in Int /\ t[y] \in Int BY <1>4, <2>5
  <2>7. x < y \/ y < x BY <1>2, <2>5
  <2> QED BY <1>4, <1>5, <2>5, <2>6, <2>7
<1>7. \A i \in DOMAIN t : t[i] \in a .. b BY <1>4, <1>5
<1>8. t \in Seq(Nat)
  <2>1. a .. b \subseteq Nat OBVIOUS
  <2>2. t \in [1 .. n -> Nat] BY <1>4, <2>1
  <2> QED BY <1>2, <2>2
<1>9. Rises(t) BY <1>4 DEF Rises
<1> QED BY <1>6, <1>7, <1>8, <1>9 DEF t

Cursors == [high : Nat, told : Nat, line : BOOLEAN, drops : Nat]
IdlerPlaces == {"refresh", "connect", "auth", "search", "recent", "loop", "idle", "done", "stopping", "renew", "fetch",
                "fetched", "wait", "closed", "failed", "aborted"}
Idlers == [at : IdlerPlaces, last : Nat, base : Int, got : Seq(Nat), delay : Nat, limit : Nat,
           method : {"basic", "xoauth2"}, token : {"good", "wrong", "dead"}]

\* What was handed over is numbered from 1 on and not above the session's mark,
\* which is not above what the mailbox has.
GotBelow == \A i \in DOMAIN idler.got : 0 < idler.got[i] /\ idler.got[i] <= idler.last
ImapInv == /\ mailbox \in Cursors /\ idler \in Idlers /\ GotBelow /\ idler.last <= mailbox.high
           /\ OncePerSession /\ NoMailSkipped

LEMMA ImapInitOK == ImapInit => ImapInv
<1> SUFFICES ASSUME ImapInit PROVE ImapInv OBVIOUS
<1>1. mailbox \in Cursors
  <2>1. {0, 1} \subseteq Nat /\ {0} \subseteq Nat /\ {FALSE} \subseteq BOOLEAN OBVIOUS
  <2>2. mailbox \in [high : {0, 1}, told : {0}, line : {FALSE}, drops : {0}] BY DEF ImapInit
  <2> QED BY <2>1, <2>2 DEF Cursors
<1>2. idler \in Idlers
  <2> DEFINE A == {"refresh"} Z == {NoUid} E == {<<>>} O == {1} L == {0, 1}
  <2>1. A \subseteq IdlerPlaces BY DEF IdlerPlaces
  <2>2. Z \subseteq Nat /\ Z \subseteq Int /\ O \subseteq Nat /\ L \subseteq Nat BY DEF NoUid
  <2>3. E \subseteq Seq(Nat) OBVIOUS
  <2>4. idler \in [at : A, last : Z, base : Z, got : E, delay : O, limit : L, method : {"basic", "xoauth2"},
                    token : {"good", "wrong", "dead"}]
    BY DEF ImapInit
  <2> HIDE DEF A, Z, E, O, L
  <2> QED BY <2>1, <2>2, <2>3, <2>4 DEF Idlers
<1>3. idler.last = 0 /\ idler.got = <<>> /\ mailbox.high \in Nat BY <1>1 DEF ImapInit, NoUid, Cursors
<1> QED BY <1>1, <1>2, <1>3 DEF ImapInv, GotBelow, OncePerSession, NoMailSkipped

\* A step that hands nothing over and keeps the session, or starts a new one.
LEMMA ImapKeeps ==
    ASSUME ImapInv, mailbox' \in Cursors, mailbox.high <= mailbox'.high, idler' \in Idlers,
           \/ idler'.last = idler.last /\ idler'.got = idler.got /\ idler'.base = idler.base
           \/ idler'.last = 0 /\ idler'.got = <<>>
    PROVE  ImapInv'
<1>1. mailbox.high \in Nat /\ mailbox'.high \in Nat /\ idler.last \in Nat BY DEF ImapInv, Cursors, Idlers
<1>2. idler'.last <= mailbox'.high BY <1>1 DEF ImapInv
<1>3. CASE idler'.last = idler.last /\ idler'.got = idler.got /\ idler'.base = idler.base
  BY <1>2, <1>3 DEF ImapInv, GotBelow, OncePerSession, NoMailSkipped
<1>4. CASE idler'.last = 0 /\ idler'.got = <<>>
  BY <1>2, <1>4 DEF ImapInv, GotBelow, OncePerSession, NoMailSkipped
<1> QED BY <1>3, <1>4

\* A fetch: an interval up to the newest message follows what was handed over
\* before, if anything, and the mark is the newest message.
LEMMA ImapHandsOver ==
    ASSUME ImapInv, mailbox' = mailbox, idler' \in Idlers, NEW a \in Nat, 0 < a, a <= mailbox.high,
           NEW g \in Seq(Nat), NEW m \in Nat, Rises(g), \A i \in DOMAIN g : 0 < g[i] /\ g[i] <= m, m < a,
           idler'.got = g \o UidsInOrder(a .. mailbox.high), idler'.last = mailbox.high,
           \A u \in 1 .. mailbox.high : u > idler'.base => u \in a .. mailbox.high \/ \E i \in DOMAIN g : g[i] = u
    PROVE  ImapInv'
<1> DEFINE s == UidsInOrder(a .. mailbox.high)
           b == mailbox.high
<1>1. b \in Nat /\ g \in Seq(Nat) BY DEF ImapInv, Cursors, Idlers
<1>2. /\ s \in Seq(Nat) /\ Rises(s) /\ (\A i \in DOMAIN s : s[i] \in a .. b)
      /\ \A u \in a .. b : \E i \in DOMAIN s : s[i] = u
  BY <1>1, IntervalInOrder
<1> HIDE DEF s, b
<1>3. s \in Seq(Nat) BY <1>2
<1>4. Len(g \o s) = Len(g) + Len(s) /\ Len(g) \in Nat /\ Len(s) \in Nat BY <1>1, <1>3
<1>5. \A i \in 1 .. Len(g) : (g \o s)[i] = g[i] BY <1>1, <1>3
<1>6. \A i \in 1 .. Len(s) : (g \o s)[Len(g) + i] = s[i] BY <1>1, <1>3
<1>7. DOMAIN (g \o s) = 1 .. Len(g) + Len(s) /\ DOMAIN g = 1 .. Len(g) /\ DOMAIN s = 1 .. Len(s) BY <1>1, <1>3, <1>4
<1>8. \A i \in 1 .. Len(g) : g[i] \in Nat /\ 0 < g[i] /\ g[i] <= m
  <2>1. \A i \in 1 .. Len(g) : g[i] \in Nat OBVIOUS
  <2> QED BY <1>7, <2>1
<1>9. \A i \in 1 .. Len(s) : s[i] \in Nat /\ a <= s[i] /\ s[i] <= b
  <2>1. \A i \in 1 .. Len(s) : s[i] \in a .. b BY <1>2, <1>7
  <2> QED BY <1>1, <2>1
<1>10. ASSUME NEW i \in 1 .. Len(g) + Len(s), i \notin 1 .. Len(g)
       PROVE  i - Len(g) \in 1 .. Len(s) /\ (g \o s)[i] = s[i - Len(g)]
  <2>1. i - Len(g) \in 1 .. Len(s) /\ Len(g) + (i - Len(g)) = i BY <1>4, <1>10
  <2> QED BY <1>6, <2>1
<1>11. idler'.got = g \o s /\ idler'.last = b BY DEF s, b
<1>12. GotBelow'
  <2>1. ASSUME NEW i \in 1 .. Len(g) + Len(s) PROVE 0 < (g \o s)[i] /\ (g \o s)[i] <= b
    <3>1. CASE i \in 1 .. Len(g) BY <1>1, <1>5, <1>8, <3>1 DEF b
    <3>2. CASE i \notin 1 .. Len(g) BY <1>1, <1>9, <1>10, <3>2
    <3> QED BY <3>1, <3>2
  <2> QED BY <1>7, <1>11, <2>1 DEF GotBelow
<1>13. OncePerSession'
  <2>1. ASSUME NEW i \in 1 .. Len(g) + Len(s), NEW j \in 1 .. Len(g) + Len(s), i < j PROVE (g \o s)[i] < (g \o s)[j]
    <3>1. CASE j \in 1 .. Len(g)
      <4>1. i \in 1 .. Len(g) BY <1>4, <2>1, <3>1
      <4>2. g[i] < g[j] BY <1>7, <2>1, <3>1, <4>1 DEF Rises
      <4> QED BY <1>5, <3>1, <4>1, <4>2
    <3>2. CASE j \notin 1 .. Len(g) /\ i \in 1 .. Len(g)
      <4>1. (g \o s)[i] = g[i] /\ (g \o s)[j] = s[j - Len(g)] /\ j - Len(g) \in 1 .. Len(s) BY <1>5, <1>10, <3>2
      <4>2. g[i] \in Nat /\ g[i] <= m /\ s[j - Len(g)] \in Nat /\ a <= s[j - Len(g)] BY <1>8, <1>9, <3>2, <4>1
      <4> QED BY <1>1, <4>1, <4>2
    <3>3. CASE j \notin 1 .. Len(g) /\ i \notin 1 .. Len(g)
      <4>1. (g \o s)[i] = s[i - Len(g)] /\ (g \o s)[j] = s[j - Len(g)] BY <1>10, <3>3
      <4>2. i - Len(g) \in 1 .. Len(s) /\ j - Len(g) \in 1 .. Len(s) BY <1>10, <3>3
      <4>3. i - Len(g) < j - Len(g) BY <1>4, <2>1
      <4> QED BY <1>2, <1>7, <4>1, <4>2, <4>3 DEF Rises
    <3> QED BY <3>1, <3>2, <3>3
  <2> QED BY <1>7, <1>11, <2>1 DEF OncePerSession
<1>14. NoMailSkipped'
  <2> SUFFICES ASSUME NEW u \in 1 .. b, u > idler'.base PROVE \E i \in DOMAIN (g \o s) : (g \o s)[i] = u
    BY <1>11 DEF NoMailSkipped
  <2>1. CASE u \in a .. b
    <3>1. PICK i \in DOMAIN s : s[i] = u BY <1>2, <2>1
    <3>2. Len(g) + i \in 1 .. Len(g) + Len(s) BY <1>4, <1>7, <3>1
    <3>3. (g \o s)[Len(g) + i] = u BY <1>6, <1>7, <3>1
    <3> QED BY <1>7, <3>2, <3>3
  <2>2. CASE \E i \in DOMAIN g : g[i] = u
    <3>1. PICK i \in DOMAIN g : g[i] = u BY <2>2
    <3>2. i \in 1 .. Len(g) + Len(s) BY <1>4, <1>7, <3>1
    <3> QED BY <1>5, <1>7, <3>1, <3>2
  <2> QED BY <2>1, <2>2 DEF b
<1> QED BY <1>1, <1>11, <1>12, <1>13, <1>14 DEF ImapInv, b

\* The greatest number of an interval.
LEMMA HighestOf ==
    ASSUME NEW a \in Nat, NEW b \in Nat, a <= b, NEW last
    PROVE  Highest(a .. b, last) = b
<1>1. b \in a .. b /\ \A v \in a .. b : v <= b OBVIOUS
<1>2. \A u \in a .. b : (\A v \in a .. b : v <= u) => u = b BY <1>1
<1> QED BY <1>1, <1>2 DEF Highest

\* Of nothing there is nothing to list.
LEMMA NoneInOrder == UidsInOrder({}) = <<>>
<1>1. Cardinality({}) = 0 BY FS_EmptySet
<1>2. \A f \in [1 .. 0 -> {}] : f = <<>> OBVIOUS
<1>3. <<>> \in [1 .. 0 -> {}] OBVIOUS
<1>4. DOMAIN <<>> = {} OBVIOUS
<1> QED BY <1>1, <1>2, <1>3, <1>4 DEF UidsInOrder

\* The newest messages are an interval that ends with the newest.
NewestFrom(n, a) == /\ 0 < a /\ NewestUids(n) = a .. mailbox.high
                    /\ mailbox.high > 0 => a <= mailbox.high
                    /\ n = 0 => a = 1
                    /\ \A u \in 1 .. mailbox.high : n > 0 /\ u > mailbox.high - n => u >= a
LEMMA NewestIs ==
    ASSUME mailbox.high \in Nat, NEW n \in Nat
    PROVE  \E a \in Nat : NewestFrom(n, a)
<1> USE DEF NewestFrom
<1>1. CASE n = 0 \/ mailbox.high <= n
  <2>1. NewestUids(n) = 1 .. mailbox.high BY <1>1 DEF NewestUids
  <2> QED BY <2>1
<1>2. CASE ~(n = 0 \/ mailbox.high <= n)
  <2>1. NewestUids(n) = (mailbox.high - n + 1) .. mailbox.high BY <1>2 DEF NewestUids
  <2>2. mailbox.high - n + 1 \in Nat /\ 0 < mailbox.high - n + 1 /\ mailbox.high - n + 1 <= mailbox.high BY <1>2
  <2>3. \A u \in 1 .. mailbox.high : u > mailbox.high - n => u >= mailbox.high - n + 1 OBVIOUS
  <2> QED BY <1>2, <2>1, <2>2, <2>3
<1> QED BY <1>1, <1>2

LEMMA ImapNextOK == ImapInv /\ [ImapNext]_imapVars => ImapInv'
<1> SUFFICES ASSUME ImapInv, [ImapNext]_imapVars PROVE ImapInv' OBVIOUS
<1>1. mailbox \in Cursors /\ idler \in Idlers /\ GotBelow /\ idler.last <= mailbox.high BY DEF ImapInv
<1>2. mailbox.high \in Nat /\ idler.last \in Nat /\ idler.base \in Int /\ idler.got \in Seq(Nat) /\ idler.limit \in Nat
  BY <1>1 DEF Cursors, Idlers
<1>3. \A s \in IdlerPlaces : /\ [idler EXCEPT !.at = s] \in Idlers
                             /\ [idler EXCEPT !.at = s].last = idler.last /\ [idler EXCEPT !.at = s].got = idler.got
                             /\ [idler EXCEPT !.at = s].base = idler.base
  BY <1>1 DEF Idlers
<1>4. [mailbox EXCEPT !.line = FALSE] \in Cursors /\ [mailbox EXCEPT !.line = FALSE].high = mailbox.high
  BY <1>1 DEF Cursors
\* Steps that move the job from place to place.
<1>5. ASSUME NEW s \in IdlerPlaces, idler' = [idler EXCEPT !.at = s], mailbox' \in Cursors, mailbox'.high = mailbox.high
      PROVE  ImapInv'
  <2>1. mailbox.high <= mailbox'.high BY <1>2, <1>5
  <2> QED BY <1>3, <1>5, <2>1, ImapKeeps
<1>6. CASE UNCHANGED imapVars
  <2>1. mailbox.high <= mailbox'.high BY <1>2, <1>6 DEF imapVars
  <2> QED BY <1>1, <1>6, <2>1, ImapKeeps DEF imapVars
<1>7. CASE RefreshImapXoauth2TokenIfStale
  <2>1. CASE idler' \in {[idler EXCEPT !.at = "aborted"], [idler EXCEPT !.at = "connect"]}
    BY <1>1, <1>5, <1>7, <2>1 DEF RefreshImapXoauth2TokenIfStale, IdlerPlaces
  <2>2. CASE \E t \in {"good", idler.token} : idler' = [idler EXCEPT !.at = "connect", !.token = t]
    <3>1. PICK t \in {"good", idler.token} : idler' = [idler EXCEPT !.at = "connect", !.token = t] BY <2>2
    <3>2. t \in {"good", "wrong", "dead"} BY <1>1, <3>1 DEF Idlers
    <3>3. idler' \in Idlers /\ idler'.last = idler.last /\ idler'.got = idler.got /\ idler'.base = idler.base
      BY <1>1, <3>1, <3>2 DEF Idlers, IdlerPlaces
    <3>4. mailbox' = mailbox BY <1>7 DEF RefreshImapXoauth2TokenIfStale
    <3>5. mailbox.high <= mailbox'.high BY <1>2, <3>4
    <3> QED BY <1>1, <3>3, <3>4, <3>5, ImapKeeps
  <2> QED BY <1>7, <2>1, <2>2 DEF RefreshImapXoauth2TokenIfStale, IdlerTo
<1>8. CASE ImapConnect \/ Established \/ StopSeenInIdle \/ QuietInIdle \/ ImapFetched
  <2>1. mailbox' = mailbox /\ \E s \in IdlerPlaces : idler' = [idler EXCEPT !.at = s]
    BY <1>8 DEF ImapConnect, Established, StopSeenInIdle, QuietInIdle, ImapFetched, IdlerTo, IdlerPlaces
  <2> QED BY <1>1, <1>5, <2>1
<1>9. CASE LineInIdle \/ DoneIdle \/ StartIdle
  <2>1. mailbox' \in {mailbox, [mailbox EXCEPT !.line = FALSE]} BY <1>9 DEF LineInIdle, DoneIdle, StartIdle
  <2>2. \E s \in IdlerPlaces : idler' = [idler EXCEPT !.at = s]
    <3>1. CASE LineInIdle BY <3>1 DEF LineInIdle, IdlerTo, IdlerPlaces
    <3>2. CASE DoneIdle BY <3>2 DEF DoneIdle, IdlerTo, IdlerAt, IdlerPlaces
    <3>3. CASE StartIdle BY <3>3 DEF StartIdle, IdlerTo, ImapBackoff, IdlerPlaces
    <3> QED BY <1>9, <3>1, <3>2, <3>3
  <2>3. mailbox' \in Cursors /\ mailbox'.high = mailbox.high BY <1>1, <1>4, <2>1
  <2> QED BY <1>5, <2>2, <2>3
<1>10. CASE Reconnect
  <2>1. CASE idler' = [idler EXCEPT !.at = "closed"] BY <1>1, <1>5, <1>10, <2>1 DEF Reconnect, IdlerPlaces
  <2>2. CASE idler' = [idler EXCEPT !.at = "refresh", !.delay = NextDelay(@)]
    <3>1. NextDelay(idler.delay) \in Nat BY <1>1 DEF NextDelay, MaxImapDelay, Idlers
    <3>2. idler' \in Idlers /\ idler'.last = idler.last /\ idler'.got = idler.got /\ idler'.base = idler.base
      BY <1>1, <2>2, <3>1 DEF Idlers, IdlerPlaces
    <3>3. mailbox' = mailbox BY <1>10 DEF Reconnect
    <3>4. mailbox.high <= mailbox'.high BY <1>2, <3>3
    <3> QED BY <1>1, <3>2, <3>3, <3>4, ImapKeeps
  <2> QED BY <1>10, <2>1, <2>2 DEF Reconnect, IdlerTo
<1>11. CASE Authenticate
  <2>1. CASE \/ idler' = [idler EXCEPT !.at = "failed"] /\ mailbox' = mailbox
             \/ idler' = [idler EXCEPT !.at = "wait"] /\ mailbox' = mailbox
    BY <1>1, <1>5, <2>1 DEF IdlerPlaces
  <2>2. CASE /\ idler' = [idler EXCEPT !.at = "search", !.last = NoUid, !.got = <<>>]
             /\ mailbox' = [mailbox EXCEPT !.told = mailbox.high, !.line = FALSE]
    <3>1. <<>> \in Seq(Nat) /\ 0 \in Nat OBVIOUS
    <3>2. idler' \in Idlers /\ idler'.last = 0 /\ idler'.got = <<>> BY <1>1, <2>2, <3>1 DEF Idlers, IdlerPlaces, NoUid
    <3>3. mailbox' \in Cursors /\ mailbox'.high = mailbox.high BY <1>1, <2>2 DEF Cursors
    <3>4. mailbox.high <= mailbox'.high BY <1>2, <3>3
    <3> QED BY <3>2, <3>3, <3>4, ImapKeeps
  <2> QED BY <1>11, <2>1, <2>2 DEF Authenticate, IdlerTo, ImapBackoff
<1>12. CASE Arrive
  <2>1. mailbox' \in Cursors /\ mailbox'.high = mailbox.high + 1 BY <1>1, <1>2, <1>12 DEF Arrive, Cursors
  <2>2. mailbox.high <= mailbox'.high BY <1>2, <2>1
  <2> QED BY <1>1, <1>12, <2>1, <2>2, ImapKeeps DEF Arrive
<1>13. CASE Announce
  <2>1. (mailbox.line \/ ~Consumes) \in BOOLEAN OBVIOUS
  <2>2. mailbox' \in Cursors /\ mailbox'.high = mailbox.high BY <1>1, <1>13, <2>1 DEF Announce, Cursors
  <2>3. mailbox.high <= mailbox'.high BY <1>2, <2>2
  <2> QED BY <1>1, <1>13, <2>2, <2>3, ImapKeeps DEF Announce
<1>14. CASE AskStop
  <2>1. mailbox.high <= mailbox'.high BY <1>2, <1>14 DEF AskStop
  <2> QED BY <1>1, <1>14, <2>1, ImapKeeps DEF AskStop
<1>15. CASE Drop
  <2>1. mailbox.drops + 1 \in Nat BY <1>1 DEF Cursors
  <2>2. mailbox' \in Cursors /\ mailbox'.high = mailbox.high BY <1>1, <1>15, <2>1 DEF Drop, Cursors
  <2> QED BY <1>5, <1>15, <2>2 DEF Drop, ImapBackoff, IdlerPlaces
<1>a. PICK a \in Nat : NewestFrom(idler.limit, a) BY <1>2, NewestIs
<1>16. /\ 0 < a /\ NewestUids(idler.limit) = a .. mailbox.high
       /\ mailbox.high > 0 => a <= mailbox.high
       /\ idler.limit = 0 => a = 1
       /\ \A u \in 1 .. mailbox.high : idler.limit > 0 /\ u > mailbox.high - idler.limit => u >= a
  BY <1>a DEF NewestFrom
<1>17. UidsInOrder(a .. mailbox.high) \in Seq(Nat) BY <1>2, <1>16, IntervalInOrder
<1>18. mailbox.high = 0 => a .. mailbox.high = {} BY <1>16
<1>19. mailbox.high - idler.limit \in Int /\ <<>> \in Seq(Nat) /\ 0 \in Int /\ 0 \in Nat /\ mailbox.high \in Int BY <1>2
<1>20. idler.last = 0 => idler.got = <<>>
  <2>1. ASSUME idler.last = 0, idler.got # <<>> PROVE FALSE
    <3>1. 1 \in DOMAIN idler.got /\ idler.got[1] \in Nat BY <1>2, <2>1
    <3> QED BY <1>1, <2>1, <3>1 DEF GotBelow
  <2> QED BY <2>1
<1>e. DOMAIN <<>> = {} /\ Rises(<<>>) /\ \A q \in Seq(Nat) : <<>> \o q = q /\ q \o <<>> = q BY DEF Rises
<1>h. mailbox.high > 0 => a .. mailbox.high # {} /\ Highest(a .. mailbox.high, 0) = mailbox.high
  <2>1. mailbox.high > 0 => a \in a .. mailbox.high BY <1>2, <1>16
  <2> QED BY <1>2, <1>16, <2>1, HighestOf
<1>21. CASE EmitRecentMessages
  <2>1. mailbox' = mailbox BY <1>21 DEF EmitRecentMessages
  <2>2. CASE idler.limit = 0
    <3>1. idler' = [idler EXCEPT !.at = "recent", !.last = mailbox.high, !.got = <<>>, !.base = mailbox.high]
      BY <1>21, <2>2, NoneInOrder DEF EmitRecentMessages
    <3>2. idler' \in Idlers /\ idler'.last = mailbox.high /\ idler'.got = <<>> /\ idler'.base = mailbox.high
      BY <1>1, <1>2, <1>19, <3>1 DEF Idlers, IdlerPlaces
    <3>3. \A u \in 1 .. mailbox.high : ~(u > mailbox.high) BY <1>2
    <3>4. mailbox.high <= mailbox.high BY <1>2
    <3> QED BY <1>1, <1>e, <2>1, <3>2, <3>3, <3>4 DEF ImapInv, GotBelow, OncePerSession, NoMailSkipped
  <2>3. CASE idler.limit # 0 /\ mailbox.high = 0
    <3>1. idler' = [idler EXCEPT !.at = "recent", !.last = 0, !.got = <<>>, !.base = 0]
      BY <1>16, <1>18, <1>21, <2>3, NoneInOrder DEF EmitRecentMessages, Highest, NoUid
    <3>2. idler' \in Idlers /\ idler'.last = 0 /\ idler'.got = <<>> BY <1>1, <1>19, <3>1 DEF Idlers, IdlerPlaces
    <3>3. mailbox.high <= mailbox'.high BY <1>2, <2>1
    <3> QED BY <1>1, <2>1, <3>2, <3>3, ImapKeeps
  <2>4. CASE idler.limit # 0 /\ mailbox.high # 0
    <3>1. mailbox.high > 0 /\ idler.limit > 0 BY <1>2, <2>4
    <3>2. idler' = [idler EXCEPT !.at = "recent", !.last = mailbox.high, !.got = UidsInOrder(a .. mailbox.high),
                                 !.base = mailbox.high - idler.limit]
      BY <1>16, <1>21, <1>h, <2>4, <3>1 DEF EmitRecentMessages, NoUid
    <3>3. /\ idler' \in Idlers /\ idler'.last = mailbox.high /\ idler'.got = UidsInOrder(a .. mailbox.high)
          /\ idler'.base = mailbox.high - idler.limit
      BY <1>1, <1>2, <1>17, <1>19, <3>2 DEF Idlers, IdlerPlaces
    <3>4. idler'.got = <<>> \o UidsInOrder(a .. mailbox.high) BY <1>17, <1>e, <3>3
    <3>5. \A u \in 1 .. mailbox.high : u > idler'.base => u \in a .. mailbox.high BY <1>2, <1>16, <3>1, <3>3
    <3>6. a <= mailbox.high /\ 0 < a /\ 0 \in Nat BY <1>16, <3>1
    <3> QED BY <1>19, <1>e, <2>1, <3>3, <3>4, <3>5, <3>6, ImapHandsOver
  <2> QED BY <2>2, <2>3, <2>4
<1>22. CASE FetchNew
  <2>1. mailbox' = mailbox BY <1>22 DEF FetchNew
  <2>2. CASE idler.last = 0 /\ mailbox.high = 0
    <3> DEFINE b == IF idler.limit > 0 THEN mailbox.high - idler.limit ELSE idler.base
    <3>1. b \in Int BY <1>2, <1>19
    <3>2. idler' = [idler EXCEPT !.at = "fetched", !.got = idler.got \o <<>>, !.last = idler.last, !.base = b]
      BY <1>16, <1>18, <1>22, <2>2, NoneInOrder DEF FetchNew, LastSeen, Highest, NoUid
    <3> HIDE DEF b
    <3>3. idler' \in Idlers /\ idler'.last = 0 /\ idler'.got = <<>>
      BY <1>1, <1>2, <1>19, <1>20, <1>e, <2>2, <3>1, <3>2 DEF Idlers, IdlerPlaces
    <3>4. mailbox.high <= mailbox'.high BY <1>2, <2>1
    <3> QED BY <1>1, <2>1, <3>3, <3>4, ImapKeeps
  <2>3. CASE idler.last = 0 /\ mailbox.high # 0
    <3> DEFINE b == IF idler.limit > 0 THEN mailbox.high - idler.limit ELSE idler.base
    <3>1. b \in Int /\ mailbox.high > 0 BY <1>2, <1>19, <2>3
    <3>2. idler' = [idler EXCEPT !.at = "fetched", !.got = <<>> \o UidsInOrder(a .. mailbox.high), !.last = mailbox.high, !.base = b]
      BY <1>16, <1>20, <1>22, <1>h, <2>3, <3>1 DEF FetchNew, LastSeen, NoUid
    <3>3. \A u \in 1 .. mailbox.high : u > b => u \in a .. mailbox.high
      <4>1. CASE idler.limit > 0 BY <1>2, <1>16, <4>1
      <4>2. CASE ~(idler.limit > 0)
        <5>1. a = 1 BY <1>2, <1>16, <4>2
        <5> QED BY <5>1
      <4> QED BY <4>1, <4>2
    <3> HIDE DEF b
    <3>4. <<>> \o UidsInOrder(a .. mailbox.high) \in Seq(Nat) BY <1>17, <1>e
    <3>5. /\ idler' \in Idlers /\ idler'.last = mailbox.high /\ idler'.got = <<>> \o UidsInOrder(a .. mailbox.high)
          /\ idler'.base = b
      BY <1>1, <1>2, <3>1, <3>2, <3>4 DEF Idlers, IdlerPlaces
    <3>6. a <= mailbox.high /\ 0 < a /\ 0 \in Nat BY <1>16, <3>1
    <3> QED BY <1>19, <1>e, <2>1, <3>3, <3>5, <3>6, ImapHandsOver
  <2>4. CASE idler.last # 0 /\ mailbox.high > idler.last
    <3> DEFINE b == idler.last + 1
    <3>1. b \in Nat /\ 0 < b /\ b <= mailbox.high /\ idler.last < b BY <1>2, <2>4
    <3>2. ServerFetch(idler.last) = b .. mailbox.high BY <2>4 DEF ServerFetch
    <3>3. \A u \in b .. mailbox.high : ImapUidSetContains(idler.last, u) BY <1>2 DEF ImapUidSetContains
    <3> HIDE DEF b
    <3>4. Highest(b .. mailbox.high, idler.last) = mailbox.high BY <1>2, <3>1, HighestOf
    <3>5. UidsInOrder(b .. mailbox.high) \in Seq(Nat) BY <1>2, <3>1, IntervalInOrder
    <3>6. idler' = [idler EXCEPT !.at = "fetched", !.got = @ \o UidsInOrder(b .. mailbox.high), !.last = mailbox.high, !.base = @]
      BY <1>22, <2>4, <3>2, <3>3, <3>4 DEF FetchNew, LastSeen, NoUid
    <3>7. idler.got \o UidsInOrder(b .. mailbox.high) \in Seq(Nat) BY <1>2, <3>5
    <3>8. /\ idler' \in Idlers /\ idler'.last = mailbox.high /\ idler'.got = idler.got \o UidsInOrder(b .. mailbox.high)
          /\ idler'.base = idler.base
      BY <1>1, <1>2, <3>6, <3>7 DEF Idlers, IdlerPlaces
    <3>9. ASSUME NEW u \in 1 .. mailbox.high, u > idler'.base
          PROVE  u \in b .. mailbox.high \/ \E i \in DOMAIN idler.got : idler.got[i] = u
      <4>1. CASE u \in 1 .. idler.last BY <3>8, <3>9, <4>1 DEF ImapInv, NoMailSkipped
      <4>2. CASE u \notin 1 .. idler.last BY <1>2, <4>2 DEF b
      <4> QED BY <4>1, <4>2
    <3>10. Rises(idler.got) /\ \A i \in DOMAIN idler.got : 0 < idler.got[i] /\ idler.got[i] <= idler.last
      BY DEF ImapInv, OncePerSession, GotBelow, Rises
    <3> QED BY <1>2, <2>1, <3>1, <3>8, <3>9, <3>10, ImapHandsOver
  <2>5. CASE idler.last # 0 /\ ~(mailbox.high > idler.last)
    <3>1. mailbox.high = idler.last /\ mailbox.high # 0 BY <1>1, <1>2, <2>5
    <3>2. ServerFetch(idler.last) = {mailbox.high} BY <1>2, <3>1 DEF ServerFetch
    <3>3. ~ImapUidSetContains(idler.last, mailbox.high) BY <1>2, <3>1 DEF ImapUidSetContains
    <3>4. idler' = [idler EXCEPT !.at = "wait"] BY <1>22, <2>5, <3>2, <3>3 DEF FetchNew, ImapBackoff, NoUid
    <3> QED BY <1>1, <1>5, <2>1, <3>4 DEF IdlerPlaces
  <2> QED BY <2>2, <2>3, <2>4, <2>5
<1> QED BY <1>6, <1>7, <1>8, <1>9, <1>10, <1>11, <1>12, <1>13, <1>14, <1>15, <1>21, <1>22 DEF ImapNext, ImapJob

-----------------------------------------------------------------------------
(* The poll loop: induction and sequences. *)

LEMMA LeastNat ==
    ASSUME NEW T \in SUBSET Nat, T # {}
    PROVE  \E m \in T : \A n \in T : m <= n
<1>1. PICK R : R = OpToRel(<, Nat) BY Zenon
<1>2. IsWellFoundedOn(R, Nat) BY <1>1, NatLessThanWellFounded, Zenon
<1>3. PICK m \in T : \A n \in T : ~(<<n, m>> \in R) BY <1>2, WFMin
<1>4. \A n \in T : ~(n < m) BY <1>1, <1>3, Zenon DEF OpToRel
<1> QED BY <1>4

\* Induction over the natural numbers, for a set instead of a predicate.
LEMMA SetInduction ==
    ASSUME NEW S \in SUBSET Nat, 0 \in S, \A n \in S : n + 1 \in S
    PROVE  S = Nat
<1>1. SUFFICES ASSUME Nat \ S # {} PROVE FALSE OBVIOUS
<1>2. PICK m \in Nat \ S : \A n \in Nat \ S : m <= n BY <1>1, LeastNat
<1>3. m # 0 /\ m - 1 \in Nat BY <1>2
<1>4. m - 1 \in S BY <1>2, <1>3
<1> QED BY <1>2, <1>3, <1>4

\* The recursive function of the filters is what its definition says.
LEMMA PassesIs ==
    ASSUME NEW start, NEW page, Len(page) \in Nat
    PROVE  /\ Passes(start, page)[0] = start
           /\ \A k \in 1 .. Len(page) :
                Passes(start, page)[k] = IF config.strategy = "watermark" THEN ByWatermark(Passes(start, page)[k - 1], page[k])
                                         ELSE ByKey(Passes(start, page)[k - 1], page[k])
<1> DEFINE L == Len(page)
           Step(x, i) == IF config.strategy = "watermark" THEN ByWatermark(x, i) ELSE ByKey(x, i)
           Rec(f, n) == f = [k \in 0 .. n |-> IF k = 0 THEN start ELSE Step(f[k - 1], page[k])]
           S == {n \in Nat : \E f : Rec(f, n)}
<1>1. 0 \in S
  <2>1. Rec([k \in 0 .. 0 |-> start], 0) OBVIOUS
  <2> QED BY <2>1
<1>2. ASSUME NEW n \in S PROVE n + 1 \in S
  <2>1. PICK f : Rec(f, n) OBVIOUS
  <2> HIDE DEF Step
  <2> DEFINE g == [k \in 0 .. n + 1 |-> IF k = n + 1 THEN Step(f[n], page[n + 1]) ELSE f[k]]
  <2>2. \A k \in 0 .. n : g[k] = f[k] OBVIOUS
  <2>3. \A k \in 0 .. n : f[k] = IF k = 0 THEN start ELSE Step(f[k - 1], page[k]) BY <2>1
  <2>4. ASSUME NEW k \in 0 .. n + 1 PROVE g[k] = IF k = 0 THEN start ELSE Step(g[k - 1], page[k])
    <3>1. CASE k = n + 1
      <4>1. g[k - 1] = f[n] /\ k # 0 BY <2>2, <3>1
      <4> QED BY <3>1, <4>1
    <3>2. CASE k # n + 1 /\ k # 0
      <4>1. k \in 0 .. n /\ k - 1 \in 0 .. n BY <3>2
      <4> QED BY <2>2, <2>3, <3>2, <4>1
    <3>3. CASE k = 0
      <4>1. k \in 0 .. n BY <3>3
      <4> QED BY <2>2, <2>3, <3>3, <4>1
    <3> QED BY <3>1, <3>2, <3>3
  <2>5. Rec(g, n + 1) BY <2>4
  <2>6. \E x : Rec(x, n + 1) BY <2>5
  <2>7. n + 1 \in Nat OBVIOUS
  <2> HIDE DEF Rec
  <2> QED BY <2>6, <2>7
<1> HIDE DEF S
<1>3. L \in S
  <2>1. S \in SUBSET Nat BY DEF S
  <2> QED BY <1>1, <1>2, <2>1, SetInduction
<1>4. \E f : Rec(f, L) BY <1>3 DEF S
<1>5. Rec(Passes(start, page), L) BY <1>4 DEF Passes
<1> HIDE DEF Step
<1>6. \A k \in 0 .. L : Passes(start, page)[k] = IF k = 0 THEN start ELSE Step(Passes(start, page)[k - 1], page[k])
  BY <1>5
<1>7. 0 \in 0 .. L /\ \A k \in 1 .. L : k \in 0 .. L /\ k # 0 OBVIOUS
<1>8. Passes(start, page)[0] = start BY <1>6, <1>7
<1>9. \A k \in 1 .. L : Passes(start, page)[k] = Step(Passes(start, page)[k - 1], page[k]) BY <1>6, <1>7
<1> QED BY <1>8, <1>9 DEF Step

\* Two sequences, one after the other.
LEMMA ConcatFacts ==
    ASSUME NEW S, NEW s \in Seq(S), NEW t \in Seq(S)
    PROVE  /\ s \o t \in Seq(S) /\ Len(s \o t) = Len(s) + Len(t) /\ ToSet(s \o t) = ToSet(s) \cup ToSet(t)
           /\ \A i \in 1 .. Len(s) : (s \o t)[i] = s[i]
           /\ \A i \in 1 .. Len(s) + Len(t) : i \notin 1 .. Len(s) =>
                i - Len(s) \in 1 .. Len(t) /\ (s \o t)[i] = t[i - Len(s)]
<1>1. s \o t \in Seq(S) /\ Len(s \o t) = Len(s) + Len(t) /\ Len(s) \in Nat /\ Len(t) \in Nat OBVIOUS
<1>2. \A i \in 1 .. Len(s) : (s \o t)[i] = s[i] OBVIOUS
<1>3. \A i \in 1 .. Len(t) : (s \o t)[Len(s) + i] = t[i] OBVIOUS
<1>4. DOMAIN (s \o t) = 1 .. Len(s) + Len(t) /\ DOMAIN s = 1 .. Len(s) /\ DOMAIN t = 1 .. Len(t) BY <1>1
<1>5. ASSUME NEW i \in 1 .. Len(s) + Len(t), i \notin 1 .. Len(s)
      PROVE  i - Len(s) \in 1 .. Len(t) /\ (s \o t)[i] = t[i - Len(s)]
  <2>1. i - Len(s) \in 1 .. Len(t) /\ Len(s) + (i - Len(s)) = i BY <1>1, <1>5
  <2> QED BY <1>3, <2>1
<1>6. ASSUME NEW x \in ToSet(s \o t) PROVE x \in ToSet(s) \cup ToSet(t)
  <2>1. PICK i \in 1 .. Len(s) + Len(t) : x = (s \o t)[i] BY <1>4 DEF ToSet
  <2>2. CASE i \in 1 .. Len(s) BY <1>2, <1>4, <2>1, <2>2 DEF ToSet
  <2>3. CASE i \notin 1 .. Len(s) BY <1>4, <1>5, <2>1, <2>3 DEF ToSet
  <2> QED BY <2>2, <2>3
<1>7. ASSUME NEW x \in ToSet(s) PROVE x \in ToSet(s \o t)
  <2>1. PICK i \in 1 .. Len(s) : x = s[i] BY <1>4 DEF ToSet
  <2>2. i \in 1 .. Len(s) + Len(t) BY <1>1
  <2> QED BY <1>2, <1>4, <2>1, <2>2 DEF ToSet
<1>8. ASSUME NEW x \in ToSet(t) PROVE x \in ToSet(s \o t)
  <2>1. PICK i \in 1 .. Len(t) : x = t[i] BY <1>4 DEF ToSet
  <2>2. Len(s) + i \in 1 .. Len(s) + Len(t) BY <1>1
  <2> QED BY <1>3, <1>4, <2>1, <2>2 DEF ToSet
<1> QED BY <1>1, <1>2, <1>5, <1>6, <1>7, <1>8

\* A list without repetitions, after another one with none of its elements.
Once(s) == \A j, k \in DOMAIN s : s[j] = s[k] => j = k

LEMMA OnceAppend ==
    ASSUME NEW S, NEW s \in Seq(S), NEW z \in S, Once(s), z \notin ToSet(s)
    PROVE  Once(Append(s, z))
<1>1. DOMAIN Append(s, z) = 1 .. Len(s) + 1 /\ DOMAIN s = 1 .. Len(s) /\ Len(s) \in Nat OBVIOUS
<1>2. Append(s, z)[Len(s) + 1] = z /\ \A i \in 1 .. Len(s) : Append(s, z)[i] = s[i] BY AppendFacts
<1>3. \A i \in 1 .. Len(s) : s[i] # z BY <1>1 DEF ToSet
<1>4. \A i \in 1 .. Len(s) + 1 : i \in 1 .. Len(s) \/ i = Len(s) + 1 BY <1>1
<1> QED BY <1>1, <1>2, <1>3, <1>4 DEF Once

LEMMA OnceConcat ==
    ASSUME NEW S, NEW s \in Seq(S), NEW t \in Seq(S), Once(s), Once(t), ToSet(s) \cap ToSet(t) = {}
    PROVE  Once(s \o t)
<1>1. DOMAIN (s \o t) = 1 .. Len(s) + Len(t) /\ DOMAIN s = 1 .. Len(s) /\ DOMAIN t = 1 .. Len(t)
      /\ Len(s) \in Nat /\ Len(t) \in Nat
  <2>1. s \o t \in Seq(S) /\ Len(s \o t) = Len(s) + Len(t) BY ConcatFacts
  <2> QED BY <2>1
<1>2. \A i \in 1 .. Len(s) : (s \o t)[i] = s[i] /\ s[i] \in ToSet(s) BY <1>1, ConcatFacts DEF ToSet
<1>3. \A i \in 1 .. Len(s) + Len(t) : i \notin 1 .. Len(s) =>
        i - Len(s) \in 1 .. Len(t) /\ (s \o t)[i] = t[i - Len(s)]
  BY ConcatFacts
<1>4. \A i \in 1 .. Len(t) : t[i] \in ToSet(t) BY <1>1 DEF ToSet
<1>5. ASSUME NEW i \in 1 .. Len(s) + Len(t), NEW j \in 1 .. Len(s) + Len(t), (s \o t)[i] = (s \o t)[j] PROVE i = j
  <2>1. CASE i \in 1 .. Len(s) /\ j \in 1 .. Len(s) BY <1>1, <1>2, <1>5, <2>1 DEF Once
  <2>2. CASE i \notin 1 .. Len(s) /\ j \notin 1 .. Len(s)
    <3>1. i - Len(s) \in 1 .. Len(t) /\ j - Len(s) \in 1 .. Len(t) /\ t[i - Len(s)] = t[j - Len(s)] BY <1>3, <1>5, <2>2
    <3>2. i - Len(s) = j - Len(s) BY <1>1, <3>1 DEF Once
    <3> QED BY <1>1, <3>2
  <2>3. CASE i \in 1 .. Len(s) /\ j \notin 1 .. Len(s) BY <1>2, <1>3, <1>4, <1>5, <2>3
  <2>4. CASE i \notin 1 .. Len(s) /\ j \in 1 .. Len(s) BY <1>2, <1>3, <1>4, <1>5, <2>4
  <2> QED BY <2>1, <2>2, <2>3, <2>4
<1> QED BY <1>1, <1>5 DEF Once

-----------------------------------------------------------------------------
(* The poll loop: the inductive invariant. *)

\* Requests ask for the newest items, or for those since the watermark.
ByNewest == ~config.arg \/ config.cursorFrom = "none"
ByKeys == config.strategy \in {"item_key", "content_hash"}

\* The configuration is one that was looked at, valid and roomy.
ConfigOK ==
    /\ config.window \in Nat \ {0} /\ config.limit \in Int /\ config.cursorFrom \in {"none", "item", "response"}
    /\ config.arg \in BOOLEAN /\ (config.cursorFrom = "item" => config.arg)
    /\ config.strategy \in {"cursor_only", "item_key", "watermark", "content_hash"}
    /\ config.strategy = "cursor_only" => config.limit = -1 /\ config.arg /\ config.cursorFrom # "none"
    /\ ByKeys /\ ByNewest => config.window >= 2 * PageSize - 1
    /\ config.strategy = "watermark" => config.tie = TRUE /\ (config.arg /\ config.cursorFrom = "none" => PageSize >= 2)

Checkpoints == [cursor : Nat, mark : Nat, tie : Nat, seen : Seq(Seq(Nat)), etag : Nat, old : BOOLEAN, n304 : Nat, based : BOOLEAN]

\* The items that need not be emitted any more.
Known(em, hid) == hid \cup ToSet(em) \cup (IF config.strategy = "item_key" THEN {1} ELSE {})

\* A checkpoint c fits a server that had n items when it was last asked, and a
\* stream with the items em, of which hid were left out:
\*   - what the window holds are keys of known items;
\*   - a cursor names the next item;
\*   - the items of the newest page are known, and those of a source that goes
\*     by keys are in the window, late enough to be there for as long as they
\*     can be on the page: a key has at most PageSize - 1 + (n - j) behind it;
\*   - the watermark is that of the newest item, if the source goes by it.
FitsSeen(c, n, em, hid) == \A q \in DOMAIN c.seen : \E j \in 1 .. n : c.seen[q] = KeyOf(j) /\ j \in Known(em, hid)
FitsCursor(c, n, em) ==
    /\ ~ByNewest => c.cursor = n + 1 \/ (c.cursor = 0 /\ em = <<>> /\ (n = 0 \/ config.strategy = "item_key"))
    /\ config.cursorFrom = "none" => c.cursor = 0
FitsPage(n, em, hid) == ByNewest => \A j \in 1 .. n : j > n - PageSize => j \in Known(em, hid)
FitsWindow(c, n) ==
    ByNewest /\ ByKeys => \A j \in 1 .. n : j > n - PageSize =>
        \E q \in DOMAIN c.seen : c.seen[q] = KeyOf(j) /\ Len(c.seen) - q <= PageSize - 1 + n - j
Aligned(m, t) == t \in Nat /\ ((m = 0 /\ t = 0) \/ (m = MarkOf(t) /\ t > 0))
FitsMark(c, n) == IF config.strategy = "watermark" THEN c.tie = n /\ Aligned(c.mark, c.tie) ELSE c.mark = 0
PollFits(c, n, em, hid) ==
    /\ n \in 0 .. items /\ (\A j \in ToSet(em) : j \in 1 .. n)
    /\ FitsSeen(c, n, em, hid) /\ FitsCursor(c, n, em) /\ FitsPage(n, em, hid) /\ FitsWindow(c, n) /\ FitsMark(c, n)

\* What the round at hand will hide, once it is stored.
HidesNow == IF config.limit # -1 /\ (pollRow = NoRow \/ ~pollRow.based) THEN ToSet(round.page) \ ToSet(round.news) ELSE {}

\* What the round at hand will add to the stream.
RoundFits ==
    /\ round.news \in Seq(Nat) /\ Once(round.news) /\ ToSet(round.news) \cap ToSet(emitted) = {}
    /\ ToSet(round.page) \subseteq Known(emitted \o round.news, hidden \cup HidesNow)
    /\ \E n \in Nat : PollFits(cp, n, emitted \o round.news, hidden \cup HidesNow)
    /\ ~round.writes => round.news = <<>> /\ HidesNow = {} /\ cp.based = pollRow.based

PollStore ==
    /\ ConfigOK /\ items \in Nat /\ items <= MaxItems /\ emitted \in Seq(Nat)
    /\ Once(emitted) /\ shown \subseteq Known(emitted, hidden)
    /\ pollRow # NoRow => pollRow \in Checkpoints /\ \E n \in Nat : PollFits(pollRow, n, emitted, hidden)
    /\ pollRow = NoRow => emitted = <<>> /\ hidden = {}
    /\ pollRow = NoRow /\ legacy # NoRow => legacy \in Checkpoints /\ \E n \in Nat : PollFits(legacy, n, <<>>, {})
PollRun ==
    /\ poller \in {"polling", "writing"} => cp \in Checkpoints
    /\ poller = "polling" => cp.based = pollRow.based /\ \E n \in Nat : PollFits(cp, n, emitted, hidden)
    /\ poller = "writing" => RoundFits
PollInv == PollStore /\ PollRun

-----------------------------------------------------------------------------
(* The poll loop: keys, marks and the window. *)

LEMMA KeyOfIs ==
    ASSUME NEW i \in Nat, NEW j \in Nat
    PROVE  KeyOf(i) \in Seq(Nat) /\ (KeyOf(i) = KeyOf(j) => i = j)
<1>1. MarkOf(i) \in Nat BY DEF MarkOf
<1>2. CASE config.strategy = "watermark"
  <2>1. KeyOf(i) = <<MarkOf(i), i>> /\ KeyOf(j) = <<MarkOf(j), j>> BY <1>2 DEF KeyOf, TieOf
  <2> QED BY <1>1, <2>1
<1>3. CASE config.strategy # "watermark"
  <2>1. KeyOf(i) = <<i>> /\ KeyOf(j) = <<j>> BY <1>3 DEF KeyOf
  <2> QED BY <2>1
<1> QED BY <1>2, <1>3

LEMMA MarkRises ==
    ASSUME NEW i \in Nat, NEW j \in Nat
    PROVE  MarkOf(i) \in Nat /\ (i > 0 => MarkOf(i) > 0) /\ (i <= j => MarkOf(i) <= MarkOf(j))
BY DEF MarkOf

\* With a tie breaker, newer means later.
LEMMA NewerIs ==
    ASSUME NEW i \in Nat, i > 0, NEW c, Aligned(c.mark, c.tie), config.tie = TRUE
    PROVE  Newer(i, c) <=> i > c.tie
<1>1. c.tie \in Nat /\ MarkOf(i) \in Nat /\ MarkOf(c.tie) \in Nat BY MarkRises DEF Aligned
<1>2. CASE c.mark = 0 /\ c.tie = 0 BY <1>1, <1>2 DEF Newer
<1>3. CASE c.mark = MarkOf(c.tie) /\ c.tie > 0
  <2>1. c.mark # 0 BY <1>1, <1>3, MarkRises
  <2>2. i <= c.tie => MarkOf(i) <= MarkOf(c.tie) BY <1>1, MarkRises
  <2>3. c.tie <= i => MarkOf(c.tie) <= MarkOf(i) BY <1>1, MarkRises
  <2> QED BY <1>1, <1>3, <2>1, <2>2, <2>3 DEF Newer, TieOf
<1> QED BY <1>2, <1>3 DEF Aligned

\* A key that is pushed is the last; the others move on by one, and those that
\* the window still has room for stay.
LEMMA PushSeenIs ==
    ASSUME ConfigOK, NEW K, NEW s \in Seq(K), NEW key \in K
    PROVE  /\ PushSeen(s, key) \in Seq(K)
           /\ \A q \in DOMAIN PushSeen(s, key) : PushSeen(s, key)[q] = key \/ \E p \in DOMAIN s : PushSeen(s, key)[q] = s[p]
           /\ Len(PushSeen(s, key)) \in DOMAIN PushSeen(s, key) /\ PushSeen(s, key)[Len(PushSeen(s, key))] = key
           /\ \A p \in DOMAIN s : Len(s) - p <= config.window - 2 =>
                \E q \in DOMAIN PushSeen(s, key) : PushSeen(s, key)[q] = s[p] /\ Len(PushSeen(s, key)) - q = Len(s) - p + 1
<1> DEFINE a == Append(s, key)
           t == PushSeen(s, key)
           w == config.window
<1>1. w \in Nat /\ w > 0 BY DEF ConfigOK
<1>2. a \in Seq(K) /\ Len(a) = Len(s) + 1 /\ a[Len(s) + 1] = key /\ (\A i \in 1 .. Len(s) : a[i] = s[i]) /\ a # <<>>
  BY AppendFacts
<1>3. DOMAIN a = 1 .. Len(s) + 1 /\ DOMAIN s = 1 .. Len(s) /\ Len(s) \in Nat BY <1>2
<1> HIDE DEF a, w
<1>4. t = IF Len(a) > w THEN Tail(a) ELSE a BY DEF PushSeen, a, w
<1>5. CASE Len(a) > w
  <2> DEFINE b == Tail(a)
  <2>1. b \in Seq(K) /\ Len(b) = Len(s) /\ \A i \in 1 .. Len(s) : b[i] = a[i + 1] BY <1>2, <1>3
  <2>2. DOMAIN b = 1 .. Len(s) BY <2>1
  <2>3. t = b BY <1>4, <1>5
  <2> HIDE DEF b, t
  <2>4. Len(s) >= 1 BY <1>1, <1>2, <1>3, <1>5
  <2>5. b[Len(s)] = key /\ Len(s) \in 1 .. Len(s) BY <1>2, <1>3, <2>1, <2>4
  <2>6. ASSUME NEW q \in 1 .. Len(s) PROVE b[q] = key \/ \E p \in 1 .. Len(s) : b[q] = s[p]
    <3>1. CASE q = Len(s) BY <2>5, <3>1
    <3>2. CASE q # Len(s)
      <4>0. Len(s) \in Nat /\ q \in 1 .. Len(s) /\ q # Len(s) BY <1>3, <3>2
      <4>1. q + 1 \in 1 .. Len(s) BY <4>0
      <4> QED BY <1>2, <2>1, <4>1
    <3> QED BY <3>1, <3>2
  <2>7. ASSUME NEW p \in 1 .. Len(s), Len(s) - p <= w - 2
        PROVE  \E q \in 1 .. Len(s) : b[q] = s[p] /\ Len(s) - q = Len(s) - p + 1
    <3>1. p - 1 \in 1 .. Len(s) /\ (p - 1) + 1 = p BY <1>1, <1>2, <1>3, <1>5, <2>7
    <3>2. b[p - 1] = s[p] BY <1>2, <2>1, <3>1
    <3>3. Len(s) - (p - 1) = Len(s) - p + 1 BY <1>3
    <3> QED BY <3>1, <3>2, <3>3
  <2>8. t \in Seq(K) /\ DOMAIN t = 1 .. Len(s) /\ Len(t) = Len(s) BY <2>1, <2>2, <2>3
  <2> QED BY <1>3, <2>3, <2>5, <2>6, <2>7, <2>8 DEF t, w
<1>6. CASE ~(Len(a) > w)
  <2>1. t = a BY <1>4, <1>6
  <2> HIDE DEF t
  <2>2. t \in Seq(K) /\ DOMAIN t = 1 .. Len(s) + 1 /\ Len(t) = Len(s) + 1 /\ t[Len(s) + 1] = key BY <1>2, <1>3, <2>1
  <2>3. \A i \in 1 .. Len(s) : t[i] = s[i] BY <1>2, <2>1
  <2>4. \A q \in 1 .. Len(s) + 1 : q = Len(s) + 1 \/ q \in 1 .. Len(s) BY <1>3
  <2>5. \A p \in 1 .. Len(s) : p \in 1 .. Len(s) + 1 /\ (Len(s) + 1) - p = Len(s) - p + 1 BY <1>3
  <2>6. Len(s) + 1 \in 1 .. Len(s) + 1 BY <1>3
  <2> QED BY <1>3, <2>2, <2>3, <2>4, <2>5, <2>6 DEF t
<1> QED BY <1>5, <1>6

-----------------------------------------------------------------------------
(* The poll loop: pages. *)

\* What a page has in common, however it was asked for.
PageOK(page) ==
    /\ page \in Seq(Nat) /\ Once(page) /\ Len(page) <= items
    /\ \A k \in 1 .. Len(page) : page[k] \in 1 .. items
    /\ Len(page) > 0 => \E k \in 1 .. Len(page) : page[k] = items
\* The newest items, and the items not older than the mark of item n.
Newest(page) == /\ Len(page) = IF items < PageSize THEN items ELSE PageSize
                /\ \A k \in 1 .. Len(page) : page[k] = items + 1 - k
Since(page, n) == /\ config.strategy = "watermark"
                  /\ \A k \in 1 .. Len(page) : page[k] > n - PageSize
                  /\ \A j \in 1 .. items : j > n => \E k \in 1 .. Len(page) : page[k] = j
\* What the answer to a request with checkpoint c has to do with what is known.
PageFits(page, n, em) ==
    /\ PageOK(page) /\ (Len(page) = 0 => items = n)
    /\ ~ByNewest => em = <<>> \/ \A k \in 1 .. Len(page) : page[k] > n
    /\ ~ByNewest /\ config.strategy # "item_key" => \A k \in 1 .. Len(page) : page[k] > n
    /\ ByNewest => Newest(page) \/ Since(page, n)

\* A list of numbers that come one after the other, upwards or downwards.
LEMMA PageIs ==
    ASSUME items \in Nat, NEW page, NEW len \in Nat, len <= items, NEW e \in [1 .. len -> Nat], page = e, Once(e),
           \A k \in 1 .. len : e[k] \in 1 .. items, len > 0 => \E k \in 1 .. len : e[k] = items
    PROVE  PageOK(page) /\ Len(page) = len
<1>1. e \in Seq(Nat) /\ Len(e) = len OBVIOUS
<1> QED BY <1>1 DEF PageOK

LEMMA NewestPage ==
    ASSUME items \in Nat, NEW n \in 0 .. items, NEW em, NEW page,
           page = [k \in 1 .. (IF items < PageSize THEN items ELSE PageSize) |-> items + 1 - k],
           ByNewest \/ (em = <<>> /\ (n = 0 \/ config.strategy = "item_key"))
    PROVE  PageFits(page, n, em)
<1> DEFINE l == IF items < PageSize THEN items ELSE PageSize
           e == [k \in 1 .. l |-> items + 1 - k]
<1>1. l \in Nat /\ l <= items /\ (l = 0 => items = 0) BY PollAssumption
<1> HIDE DEF l
<1>2. \A k \in 1 .. l : items + 1 - k \in 1 .. items /\ items + 1 - k \in Nat BY <1>1
<1>3. e \in [1 .. l -> Nat] BY <1>2
<1>4. \A k \in 1 .. l : e[k] = items + 1 - k OBVIOUS
<1>5. DOMAIN e = 1 .. l OBVIOUS
<1>6. page = e BY DEF l
<1> HIDE DEF e
<1>7. Once(e)
  <2>1. ASSUME NEW j \in 1 .. l, NEW k \in 1 .. l, e[j] = e[k] PROVE j = k
    <3>1. items + 1 - j = items + 1 - k BY <1>4, <2>1
    <3> QED BY <1>1, <3>1
  <2> QED BY <1>5, <2>1 DEF Once
<1>8. l > 0 => \E k \in 1 .. l : e[k] = items
  <2>1. l > 0 => 1 \in 1 .. l BY <1>1
  <2>2. items + 1 - 1 = items OBVIOUS
  <2> QED BY <1>4, <2>1, <2>2
<1>9. \A k \in 1 .. l : e[k] \in 1 .. items BY <1>2, <1>4
<1>10. PageOK(page) /\ Len(page) = l BY <1>1, <1>3, <1>6, <1>7, <1>8, <1>9, PageIs
<1>11. l = 0 => items = n BY <1>1
<1>12. ASSUME ~ByNewest, config.strategy # "item_key" PROVE \A k \in 1 .. l : page[k] > n
  <2>1. n = 0 BY <1>12
  <2>2. \A k \in 1 .. l : page[k] \in 1 .. items BY <1>6, <1>9
  <2>3. \A x \in 1 .. items : x > 0 OBVIOUS
  <2> QED BY <2>1, <2>2, <2>3
<1> QED BY <1>4, <1>6, <1>10, <1>11, <1>12 DEF PageFits, Newest, l

\* The items from b + 1 on.
LEMMA PageFrom ==
    ASSUME items \in Nat, NEW b \in 0 .. items, NEW page, page = SubSeq([k \in 1 .. items |-> k], b + 1, items)
    PROVE  PageOK(page) /\ Len(page) = items - b /\ \A k \in 1 .. Len(page) : page[k] = b + k
<1> DEFINE l == items - b
           e == [k \in 1 .. l |-> b + k]
           all == [k \in 1 .. items |-> k]
<1>1. l \in Nat /\ l <= items OBVIOUS
<1>2. all \in Seq(Nat) /\ Len(all) = items OBVIOUS
<1>3. page = e
  <2>1. page \in Seq(Nat) /\ Len(page) = l
    <3>1. Len(SubSeq(all, b + 1, items)) = IF b + 1 <= items THEN items - (b + 1) + 1 ELSE 0 BY <1>2
    <3> QED BY <1>2, <3>1
  <2>2. \A k \in 1 .. l : page[k] = b + k
    <3>1. ASSUME NEW k \in 1 .. l PROVE page[k] = b + k
      <4>1. page[k] = all[(b + 1) + k - 1] BY <1>2, <3>1
      <4>2. (b + 1) + k - 1 \in 1 .. items /\ (b + 1) + k - 1 = b + k BY <3>1
      <4> QED BY <4>1, <4>2
    <3> QED BY <3>1
  <2> QED BY <2>1, <2>2
<1> HIDE DEF l
<1>4. \A k \in 1 .. l : b + k \in 1 .. items /\ b + k \in Nat BY DEF l
<1>5. e \in [1 .. l -> Nat] BY <1>4
<1>6. \A k \in 1 .. l : e[k] = b + k OBVIOUS
<1>7. DOMAIN e = 1 .. l OBVIOUS
<1> HIDE DEF e
<1>8. Once(e)
  <2>1. ASSUME NEW j \in 1 .. l, NEW k \in 1 .. l, e[j] = e[k] PROVE j = k
    <3>1. b + j = b + k BY <1>6, <2>1
    <3> QED BY <1>1, <3>1
  <2> QED BY <1>7, <2>1 DEF Once
<1>9. l > 0 => \E k \in 1 .. l : e[k] = items
  <2>1. l > 0 => l \in 1 .. l /\ b + l = items BY <1>1 DEF l
  <2> QED BY <1>6, <2>1
<1>10. \A k \in 1 .. l : e[k] \in 1 .. items BY <1>4, <1>6
<1>11. PageOK(page) /\ Len(page) = l BY <1>1, <1>3, <1>5, <1>8, <1>9, <1>10, PageIs
<1>12. \A k \in 1 .. l : page[k] = b + k BY <1>3, <1>6
<1> QED BY <1>11, <1>12 DEF l

\* The page a checkpoint's request gets.
LEMMA PageFor ==
    ASSUME ConfigOK, items \in Nat, NEW c \in Checkpoints, NEW n \in Nat, NEW em, NEW hid, PollFits(c, n, em, hid)
    PROVE  PageFits(PollPage(RequestCursor(c)), n, em)
<1> DEFINE page == PollPage(RequestCursor(c))
<1>1. n \in 0 .. items /\ FitsCursor(c, n, em) /\ FitsMark(c, n) /\ c.cursor \in Nat /\ c.mark \in Nat
  BY DEF PollFits, Checkpoints
<1>2. ~ByNewest /\ c.cursor = 0 => c.mark = 0
  <2>1. SUFFICES ASSUME ~ByNewest, c.cursor = 0, config.strategy = "watermark" PROVE c.mark = 0 BY <1>1 DEF FitsMark
  <2>2. n = 0 BY <1>1, <2>1 DEF FitsCursor
  <2> QED BY <1>1, <2>1, <2>2 DEF FitsMark, Aligned
<1>3. CASE RequestCursor(c) = 0
  <2>1. page = [k \in 1 .. (IF items < PageSize THEN items ELSE PageSize) |-> items + 1 - k]
    BY <1>3 DEF PollPage
  <2>2. ~ByNewest => c.cursor = 0 BY <1>1, <1>3 DEF RequestCursor, ByNewest
  <2>3. ByNewest \/ (em = <<>> /\ (n = 0 \/ config.strategy = "item_key")) BY <1>1, <2>2 DEF FitsCursor
  <2> HIDE DEF page
  <2>4. PageFits(page, n, em) BY <1>1, <2>1, <2>3, NewestPage
  <2> QED BY <2>4 DEF page
<1>4. CASE ~ByNewest /\ RequestCursor(c) # 0
  <2>1. RequestCursor(c) = n + 1 /\ n + 1 > 0 BY <1>1, <1>2, <1>4 DEF RequestCursor, ByNewest, FitsCursor
  <2>2. page = SubSeq([k \in 1 .. items |-> k], n + 1, items) BY <2>1 DEF PollPage
  <2> HIDE DEF page
  <2>3. PageOK(page) /\ Len(page) = items - n /\ \A k \in 1 .. Len(page) : page[k] = n + k BY <1>1, <2>2, PageFrom
  <2>4. \A k \in 1 .. Len(page) : page[k] > n BY <1>1, <2>3
  <2>5. Len(page) = 0 => items = n BY <1>1, <2>3
  <2>6. PageFits(page, n, em) BY <1>4, <2>3, <2>4, <2>5 DEF PageFits
  <2> QED BY <2>6 DEF page
<1>5. CASE ByNewest /\ RequestCursor(c) # 0
  <2>1. config.arg /\ c.cursor = 0 /\ c.mark > 0 /\ RequestCursor(c) = FirstOf(c.mark) /\ config.cursorFrom = "none"
    BY <1>1, <1>5 DEF RequestCursor, ByNewest, FitsCursor
  <2>2. config.strategy = "watermark" BY <1>1, <2>1 DEF FitsMark
  <2>3. n > 0 /\ c.mark = MarkOf(n) BY <1>1, <2>1, <2>2 DEF FitsMark, Aligned
  <2>4. PageSize >= 2 /\ PageSize \in Nat BY <2>1, <2>2, PollAssumption DEF ConfigOK
  <2>5. PICK b \in 0 .. items : b + 1 = FirstOf(MarkOf(n)) /\ b < n /\ b + 2 >= n
    <3>1. n = 2 * MarkOf(n) \/ n = 2 * MarkOf(n) - 1 BY <2>3 DEF MarkOf
    <3>2. MarkOf(n) \in Nat /\ MarkOf(n) > 0 BY <2>3, MarkRises
    <3>3. 2 * MarkOf(n) - 2 \in 0 .. items /\ (2 * MarkOf(n) - 2) + 1 = FirstOf(MarkOf(n)) BY <1>1, <3>1, <3>2 DEF FirstOf
    <3>4. 2 * MarkOf(n) - 2 < n /\ (2 * MarkOf(n) - 2) + 2 >= n BY <3>1, <3>2
    <3> QED BY <3>3, <3>4
  <2>6. page = SubSeq([k \in 1 .. items |-> k], b + 1, items)
    <3>1. RequestCursor(c) = b + 1 /\ b + 1 > 0 BY <2>1, <2>3, <2>5
    <3> QED BY <3>1 DEF PollPage
  <2> HIDE DEF page
  <2>7. PageOK(page) /\ Len(page) = items - b /\ \A k \in 1 .. Len(page) : page[k] = b + k BY <2>6, PageFrom
  <2>8. \A k \in 1 .. Len(page) : page[k] > n - PageSize BY <1>1, <2>4, <2>5, <2>7
  <2>9. ASSUME NEW j \in 1 .. items, j > n PROVE \E k \in 1 .. Len(page) : page[k] = j
    <3>1. j - b \in 1 .. Len(page) /\ b + (j - b) = j BY <1>1, <2>5, <2>7, <2>9
    <3> QED BY <2>7, <3>1
  <2>10. Len(page) # 0 BY <1>1, <2>5, <2>7
  <2>11. Since(page, n) BY <2>2, <2>8, <2>9 DEF Since
  <2>12. PageFits(page, n, em) BY <1>5, <2>7, <2>10, <2>11 DEF PageFits
  <2> QED BY <2>12 DEF page
<1> QED BY <1>3, <1>4, <1>5

\* The cursor that a page leads to.
LEMMA NextCursorIs ==
    ASSUME ConfigOK, items \in Nat, NEW c \in Checkpoints, NEW n \in Nat, NEW em, NEW em2, NEW page, PageFits(page, n, em),
           FitsCursor(c, n, em), Len(page) = 0 => em2 = em
    PROVE  NextCursor(c, page) \in Nat
           /\ (~ByNewest => \/ NextCursor(c, page) = items + 1
                            \/ /\ NextCursor(c, page) = 0 /\ em2 = <<>>
                               /\ items = 0 \/ config.strategy = "item_key")
           /\ (config.cursorFrom = "none" => NextCursor(c, page) = 0)
<1>1. c.cursor \in Nat /\ page \in Seq(Nat) /\ PageOK(page) BY DEF Checkpoints, PageFits, PageOK
<1>2. CASE config.cursorFrom = "none" BY <1>1, <1>2 DEF NextCursor, ByNewest, FitsCursor
<1>3. CASE config.cursorFrom = "response" BY <1>3 DEF NextCursor
<1>4. CASE config.cursorFrom = "item" /\ page = <<>>
  <2>1. NextCursor(c, page) = c.cursor BY <1>4 DEF NextCursor
  <2>2. Len(page) = 0 BY <1>4
  <2>3. items = n /\ em2 = em BY <2>2 DEF PageFits
  <2> QED BY <1>1, <1>4, <2>1, <2>3 DEF FitsCursor, ByNewest
<1>5. CASE config.cursorFrom = "item" /\ page # <<>>
  <2>1. DOMAIN page = 1 .. Len(page) /\ Len(page) > 0 BY <1>1, <1>5
  <2>2. PICK x \in DOMAIN page : page[x] = items BY <1>1, <2>1 DEF PageOK
  <2>3. \A j \in DOMAIN page : page[j] \in 1 .. items BY <1>1, <2>1 DEF PageOK
  <2>4. \A j \in DOMAIN page : page[j] <= page[x] BY <2>2, <2>3
  <2> DEFINE y == CHOOSE k \in DOMAIN page : \A j \in DOMAIN page : page[j] <= page[k]
  <2>5. y \in DOMAIN page /\ \A j \in DOMAIN page : page[j] <= page[y] BY <2>4
  <2> HIDE DEF y
  <2>6. page[y] = items BY <2>2, <2>3, <2>5
  <2>7. NextCursor(c, page) = 1 + page[y] BY <1>5 DEF NextCursor, y
  <2> QED BY <1>5, <2>6, <2>7
<1> QED BY <1>2, <1>3, <1>4, <1>5 DEF ConfigOK

-----------------------------------------------------------------------------
(* The poll loop: a filter goes over a page. *)

\* The request of a round: its checkpoint, what the checkpoint fits, and the
\* page that came back.
Asked(c, n, em, hid, page) ==
    /\ ConfigOK /\ items \in Nat /\ items <= MaxItems /\ c \in Checkpoints /\ n \in Nat /\ em \in Seq(Nat)
    /\ PollFits(c, n, em, hid) /\ PageFits(page, n, em)
Unlimited(c) == config.limit = -1 \/ c.based = TRUE

Accs == [c : Checkpoints, news : Seq(Nat), budget : Int, mark : Nat, tieMark : Nat]

\* A filter that has passed the first k items of the page.
SeenKnown(seen, k, n, em, hid, page) ==
    \A q \in DOMAIN seen : \/ \E j \in 1 .. n : seen[q] = KeyOf(j) /\ j \in Known(em, hid)
                           \/ \E i \in 1 .. k : seen[q] = KeyOf(page[i])
NewsFits(news, k, em, page) ==
    /\ news \in Seq(Nat) /\ Len(news) <= k /\ Once(news)
    /\ \A x \in ToSet(news) : x \notin ToSet(em) /\ \E i \in 1 .. k : x = page[i]
Passing(acc, k, c, n, em, hid, page) ==
    /\ acc \in Accs /\ acc.budget = Budget(c) /\ acc.c.mark = c.mark /\ acc.c.tie = c.tie /\ acc.c.based = c.based
    /\ config.strategy # "watermark" => acc.mark = c.mark
    /\ NewsFits(acc.news, k, em, page)
    /\ SeenKnown(acc.c.seen, k, n, em, hid, page)
    /\ Unlimited(c) => \A i \in 1 .. k : page[i] \in ToSet(acc.news) \cup Known(em, hid)

\* What a filter does with an item.
Moves(acc, acc2, i, c, em, hid) ==
    /\ acc2 \in Accs /\ acc2.budget = acc.budget /\ acc2.c.mark = acc.c.mark /\ acc2.c.tie = acc.c.tie
    /\ acc2.c.based = acc.c.based /\ (config.strategy # "watermark" => acc2.mark = acc.mark)
    /\ acc2.news = acc.news \/ (acc2.news = Append(acc.news, i) /\ i \notin ToSet(em))
    /\ \A q \in DOMAIN acc2.c.seen : acc2.c.seen[q] = KeyOf(i) \/ \E p \in DOMAIN acc.c.seen : acc2.c.seen[q] = acc.c.seen[p]
    /\ Unlimited(c) /\ Len(acc.news) < MaxItems => acc2.news = Append(acc.news, i) \/ i \in Known(em, hid)

LEMMA PassingStarts ==
    ASSUME NEW c, NEW n, NEW em, NEW hid, NEW page, Asked(c, n, em, hid, page)
    PROVE  Passing([c |-> c, news |-> <<>>, budget |-> Budget(c), mark |-> c.mark, tieMark |-> c.tie], 0, c, n, em, hid, page)
<1> DEFINE a == [c |-> c, news |-> <<>>, budget |-> Budget(c), mark |-> c.mark, tieMark |-> c.tie]
<1>1. c \in Checkpoints /\ FitsSeen(c, n, em, hid) BY DEF Asked, PollFits
<1>2. Budget(c) \in Int BY PollAssumption DEF Budget, Asked, ConfigOK
<1>3. a \in Accs BY <1>1, <1>2 DEF Accs, Checkpoints
<1>4. NewsFits(<<>>, 0, em, page)
  <2>1. <<>> \in Seq(Nat) /\ Len(<<>>) = 0 /\ DOMAIN <<>> = {} OBVIOUS
  <2> QED BY <2>1 DEF NewsFits, Once, ToSet
<1>5. SeenKnown(c.seen, 0, n, em, hid, page) BY <1>1 DEF SeenKnown, FitsSeen
<1> QED BY <1>3, <1>4, <1>5 DEF Passing

\* An item that is remembered is known: the items of a page differ.
LEMMA SeenIsKnown ==
    ASSUME NEW c, NEW n, NEW em, NEW hid, NEW page, Asked(c, n, em, hid, page), NEW acc, NEW k \in Nat, k + 1 <= Len(page),
           Passing(acc, k, c, n, em, hid, page), NEW q \in DOMAIN acc.c.seen, acc.c.seen[q] = KeyOf(page[k + 1])
    PROVE  page[k + 1] \in Known(em, hid) /\ page[k + 1] \in 1 .. n
<1>1. page \in Seq(Nat) /\ Once(page) /\ Len(page) \in Nat /\ DOMAIN page = 1 .. Len(page) /\ n \in Nat BY DEF Asked, PageFits, PageOK
<1>2. k + 1 \in 1 .. Len(page) /\ page[k + 1] \in Nat BY <1>1
<1>3. CASE \E j \in 1 .. n : acc.c.seen[q] = KeyOf(j) /\ j \in Known(em, hid)
  <2>1. PICK j \in 1 .. n : acc.c.seen[q] = KeyOf(j) /\ j \in Known(em, hid) BY <1>3
  <2>2. j \in Nat BY <1>1
  <2>3. j = page[k + 1] BY <1>2, <2>1, <2>2, KeyOfIs
  <2> QED BY <2>1, <2>3
<1>4. CASE \E i \in 1 .. k : acc.c.seen[q] = KeyOf(page[i])
  <2>1. PICK i \in 1 .. k : acc.c.seen[q] = KeyOf(page[i]) BY <1>4
  <2>2. i \in 1 .. Len(page) /\ i # k + 1 BY <1>1
  <2>3. page[i] \in Nat BY <1>1, <2>2
  <2>4. page[i] = page[k + 1] BY <1>2, <2>1, <2>3, KeyOfIs
  <2> QED BY <1>1, <1>2, <2>2, <2>4 DEF Once
<1> QED BY <1>3, <1>4 DEF Passing, SeenKnown

\* Each item keeps the filter's invariant.
LEMMA PassingMoves ==
    ASSUME NEW c, NEW n, NEW em, NEW hid, NEW page, Asked(c, n, em, hid, page), NEW acc, NEW acc2, NEW k \in Nat,
           k + 1 <= Len(page), Passing(acc, k, c, n, em, hid, page), Moves(acc, acc2, page[k + 1], c, em, hid)
    PROVE  Passing(acc2, k + 1, c, n, em, hid, page)
<1> DEFINE i == page[k + 1]
<1>1. page \in Seq(Nat) /\ Once(page) /\ Len(page) \in Nat /\ DOMAIN page = 1 .. Len(page) /\ Len(page) <= items
      /\ items \in Nat /\ items <= MaxItems /\ MaxItems \in Nat
  BY PollAssumption DEF Asked, PageFits, PageOK
<1>2. k + 1 \in 1 .. Len(page) /\ i \in Nat BY <1>1
<1>3. NewsFits(acc.news, k, em, page) BY DEF Passing
<1>4. acc.news \in Seq(Nat) /\ Len(acc.news) <= k /\ Len(acc.news) \in Nat BY <1>3 DEF NewsFits
<1>5. \A x \in 1 .. k : x \in 1 .. k + 1 /\ x \in 1 .. Len(page) /\ x # k + 1 BY <1>1
<1>6. k + 1 \in 1 .. k + 1 /\ \A x \in 1 .. k + 1 : x \in 1 .. k \/ x = k + 1 OBVIOUS
<1>7. i \notin ToSet(acc.news)
  <2>1. SUFFICES ASSUME NEW x \in 1 .. k, i = page[x] PROVE FALSE BY <1>3 DEF NewsFits
  <2> QED BY <1>1, <1>2, <1>5, <2>1 DEF Once
<1>8. acc2.news = acc.news \/ (acc2.news = Append(acc.news, i) /\ i \notin ToSet(em)) BY DEF Moves
<1>9. ToSet(acc.news) \subseteq ToSet(acc2.news) /\ (acc2.news = Append(acc.news, i) => i \in ToSet(acc2.news))
  <2>1. ToSet(Append(acc.news, i)) = ToSet(acc.news) \cup {i} BY <1>2, <1>4, AppendFacts
  <2> QED BY <1>8, <2>1
<1>10. NewsFits(acc2.news, k + 1, em, page)
  <2>1. CASE acc2.news = acc.news BY <1>3, <1>4, <1>5, <2>1 DEF NewsFits
  <2>2. CASE acc2.news = Append(acc.news, i) /\ i \notin ToSet(em)
    <3>1. Append(acc.news, i) \in Seq(Nat) /\ Len(Append(acc.news, i)) = Len(acc.news) + 1
          /\ ToSet(Append(acc.news, i)) = ToSet(acc.news) \cup {i}
      BY <1>2, <1>4, AppendFacts
    <3>2. Once(Append(acc.news, i)) BY <1>2, <1>3, <1>4, <1>7, OnceAppend DEF NewsFits
    <3>3. Len(acc.news) + 1 <= k + 1 BY <1>4
    <3>4. \A x \in ToSet(acc.news) \cup {i} : x \notin ToSet(em) /\ \E y \in 1 .. k + 1 : x = page[y]
      BY <1>3, <1>5, <1>6, <2>2 DEF NewsFits
    <3> QED BY <2>2, <3>1, <3>2, <3>3, <3>4 DEF NewsFits
  <2> QED BY <1>8, <2>1, <2>2
<1>11. SeenKnown(acc2.c.seen, k + 1, n, em, hid, page)
  <2>1. SUFFICES ASSUME NEW q \in DOMAIN acc2.c.seen
                 PROVE  \/ \E j \in 1 .. n : acc2.c.seen[q] = KeyOf(j) /\ j \in Known(em, hid)
                        \/ \E x \in 1 .. k + 1 : acc2.c.seen[q] = KeyOf(page[x])
    BY DEF SeenKnown
  <2>2. CASE acc2.c.seen[q] = KeyOf(i) BY <1>6, <2>2
  <2>3. CASE \E p \in DOMAIN acc.c.seen : acc2.c.seen[q] = acc.c.seen[p] BY <1>5, <2>3 DEF Passing, SeenKnown
  <2> QED BY <2>2, <2>3 DEF Moves
<1>12. ASSUME Unlimited(c), NEW x \in 1 .. k + 1 PROVE page[x] \in ToSet(acc2.news) \cup Known(em, hid)
  <2>1. Len(acc.news) < MaxItems BY <1>1, <1>4
  <2>2. CASE x = k + 1 BY <1>9, <1>12, <2>1, <2>2 DEF Moves
  <2>3. CASE x \in 1 .. k BY <1>9, <1>12, <2>3 DEF Passing
  <2> QED BY <1>6, <2>2, <2>3
<1>13. /\ acc2 \in Accs /\ acc2.budget = Budget(c) /\ acc2.c.mark = c.mark /\ acc2.c.tie = c.tie /\ acc2.c.based = c.based
       /\ (config.strategy # "watermark" => acc2.mark = c.mark)
  BY DEF Moves, Passing
<1> QED BY <1>10, <1>11, <1>12, <1>13 DEF Passing

\* The filters by key: what the item's key has to do with it.
LEMMA ByKeyIs ==
    ASSUME ConfigOK, NEW acc \in Accs, NEW i \in Nat, ~\E k \in DOMAIN acc.c.seen : acc.c.seen[k] = KeyOf(i)
    PROVE  LET acc2 == ByKey(acc, i)
           IN /\ acc2 \in Accs /\ acc2.budget = acc.budget /\ acc2.c.mark = acc.c.mark /\ acc2.c.tie = acc.c.tie
              /\ acc2.c.based = acc.c.based
              /\ acc2.c.seen = PushSeen(acc.c.seen, KeyOf(i))
              /\ acc2.news = IF Len(acc.news) < acc.budget THEN Append(acc.news, i) ELSE acc.news
              /\ acc2.mark = acc.mark /\ acc2.tieMark = acc.tieMark
<1> DEFINE s2 == PushSeen(acc.c.seen, KeyOf(i))
           n2 == IF Len(acc.news) < acc.budget THEN Append(acc.news, i) ELSE acc.news
<1>1. acc.c \in Checkpoints /\ acc.c.seen \in Seq(Seq(Nat)) /\ acc.news \in Seq(Nat) BY DEF Accs, Checkpoints
<1>2. s2 \in Seq(Seq(Nat)) BY <1>1, KeyOfIs, PushSeenIs
<1>3. n2 \in Seq(Nat) BY <1>1, AppendFacts
<1>4. ByKey(acc, i) = [acc EXCEPT !.c.seen = s2, !.news = n2] BY DEF ByKey
<1> HIDE DEF s2, n2
<1>5. [acc EXCEPT !.c.seen = s2, !.news = n2] \in Accs BY <1>1, <1>2, <1>3 DEF Accs, Checkpoints
<1>6. acc = [c |-> acc.c, news |-> acc.news, budget |-> acc.budget, mark |-> acc.mark, tieMark |-> acc.tieMark] BY DEF Accs
<1>7. "seen" \in DOMAIN acc.c /\ "c" \in DOMAIN acc /\ "news" \in DOMAIN acc BY <1>1 DEF Accs, Checkpoints
<1>8. /\ ByKey(acc, i).budget = acc.budget /\ ByKey(acc, i).mark = acc.mark /\ ByKey(acc, i).tieMark = acc.tieMark
      /\ ByKey(acc, i).c.mark = acc.c.mark /\ ByKey(acc, i).c.tie = acc.c.tie /\ ByKey(acc, i).c.based = acc.c.based
      /\ ByKey(acc, i).c.seen = s2 /\ ByKey(acc, i).news = n2
  BY <1>1, <1>4, <1>7 DEF Accs, Checkpoints
<1> QED BY <1>4, <1>5, <1>8 DEF s2, n2

\* Where the keys of a newest page are in the window when the filter has passed
\* k items: a key of before has moved back by the new items passed, a new one
\* by the items after it.
Windowed(seen, k, n) ==
    ByNewest => /\ \A j \in 1 .. n : j > items - PageSize =>
                     \E q \in DOMAIN seen : /\ seen[q] = KeyOf(j)
                                            /\ Len(seen) - q <= PageSize - 1 + n - j + k
                                            /\ Len(seen) - q <= PageSize - 1 + items - j
                /\ \A j \in n + 1 .. items : items + 1 - j <= k =>
                     \E q \in DOMAIN seen : seen[q] = KeyOf(j) /\ Len(seen) - q <= k - (items + 1 - j)

LEMMA WindowStarts ==
    ASSUME NEW c, NEW n, NEW em, NEW hid, NEW page, Asked(c, n, em, hid, page), ByKeys
    PROVE  Windowed(c.seen, 0, n)
<1>1. FitsWindow(c, n) /\ n \in Nat /\ n \in 0 .. items /\ items \in Nat /\ c.seen \in Seq(Seq(Nat)) /\ PageSize \in Nat
  BY PollAssumption DEF Asked, PollFits, Checkpoints
<1>2. DOMAIN c.seen = 1 .. Len(c.seen) /\ Len(c.seen) \in Nat BY <1>1
<1>3. ASSUME ByNewest, NEW j \in 1 .. n, j > items - PageSize
      PROVE  \E q \in DOMAIN c.seen : /\ c.seen[q] = KeyOf(j)
                                      /\ Len(c.seen) - q <= PageSize - 1 + n - j + 0
                                      /\ Len(c.seen) - q <= PageSize - 1 + items - j
  <2>1. j > n - PageSize BY <1>1, <1>3
  <2>2. PICK q \in DOMAIN c.seen : c.seen[q] = KeyOf(j) /\ Len(c.seen) - q <= PageSize - 1 + n - j
    BY <1>1, <1>3, <2>1 DEF FitsWindow
  <2>3. Len(c.seen) - q <= PageSize - 1 + n - j + 0 /\ Len(c.seen) - q <= PageSize - 1 + items - j BY <1>1, <1>2, <2>2
  <2> QED BY <2>2, <2>3
<1>4. \A j \in n + 1 .. items : ~(items + 1 - j <= 0) BY <1>1
<1> QED BY <1>3, <1>4 DEF Windowed

\* An item of the page that was there before is remembered.
LEMMA OldIsSeen ==
    ASSUME NEW c, NEW n, NEW em, NEW hid, NEW page, Asked(c, n, em, hid, page), ByNewest, ByKeys, NEW seen, NEW k \in Nat,
           k + 1 <= Len(page), Windowed(seen, k, n), page[k + 1] <= n
    PROVE  \E q \in DOMAIN seen : seen[q] = KeyOf(page[k + 1])
<1>1. items \in Nat /\ n \in Nat /\ page[k + 1] \in 1 .. items /\ page[k + 1] = items + 1 - (k + 1) /\ Len(page) <= PageSize
      /\ PageSize \in Nat /\ Len(page) \in Nat
  <2>1. page \in Seq(Nat) /\ Len(page) \in Nat /\ PageSize \in Nat /\ items \in Nat /\ n \in Nat
    BY PollAssumption DEF Asked, PageFits, PageOK
  <2>2. k + 1 \in 1 .. Len(page) BY <2>1
  <2>3. Newest(page) BY DEF Asked, PageFits, Since, ByKeys
  <2>4. page[k + 1] \in 1 .. items /\ page[k + 1] = items + 1 - (k + 1) BY <2>2, <2>3 DEF Asked, PageFits, PageOK, Newest
  <2> QED BY <2>1, <2>3, <2>4 DEF Newest
<1>2. page[k + 1] \in 1 .. n /\ page[k + 1] > items - PageSize BY <1>1
<1> QED BY <1>2 DEF Windowed

\* A new key pushes the others back by one, and none that is still needed out.
LEMMA WindowPushes ==
    ASSUME NEW c, NEW n, NEW em, NEW hid, NEW page, Asked(c, n, em, hid, page), ByKeys, NEW seen \in Seq(Seq(Nat)), NEW k \in Nat,
           k + 1 <= Len(page), Windowed(seen, k, n), ByNewest => page[k + 1] > n
    PROVE  Windowed(PushSeen(seen, KeyOf(page[k + 1])), k + 1, n)
<1> SUFFICES ASSUME ByNewest PROVE Windowed(PushSeen(seen, KeyOf(page[k + 1])), k + 1, n) BY DEF Windowed
<1> DEFINE i == page[k + 1]
           key == KeyOf(i)
           s2 == PushSeen(seen, key)
           w == config.window
<1>1. items \in Nat /\ n \in Nat /\ i \in 1 .. items /\ i = items - k /\ Len(page) <= PageSize
      /\ PageSize \in Nat /\ Len(page) \in Nat /\ PageSize > 0 /\ n <= items
  <2>1. page \in Seq(Nat) /\ Len(page) \in Nat /\ PageSize \in Nat /\ items \in Nat /\ n \in Nat /\ PageSize > 0 /\ n <= items
    BY PollAssumption DEF Asked, PageFits, PageOK, PollFits
  <2>2. k + 1 \in 1 .. Len(page) BY <2>1
  <2>3. Newest(page) BY DEF Asked, PageFits, Since, ByKeys
  <2>4. page[k + 1] \in 1 .. items /\ page[k + 1] = items + 1 - (k + 1) BY <2>2, <2>3 DEF Asked, PageFits, PageOK, Newest
  <2>5. i = items - k BY <2>1, <2>4
  <2> QED BY <2>1, <2>3, <2>4, <2>5 DEF Newest
<1>2. i > n /\ i \in Nat BY <1>1
<1>3. w \in Nat /\ w >= 2 * PageSize - 1 /\ ConfigOK BY DEF Asked, ConfigOK, ByKeys, ByNewest
<1>4. DOMAIN seen = 1 .. Len(seen) /\ Len(seen) \in Nat OBVIOUS
<1> HIDE DEF i, w
<1>5. key \in Seq(Nat) BY <1>2, KeyOfIs
<1> HIDE DEF key
<1>6. /\ s2 \in Seq(Seq(Nat)) /\ Len(s2) \in DOMAIN s2 /\ s2[Len(s2)] = key
      /\ \A p \in DOMAIN seen : Len(seen) - p <= w - 2 => \E q \in DOMAIN s2 : s2[q] = seen[p] /\ Len(s2) - q = Len(seen) - p + 1
  BY <1>3, <1>5, PushSeenIs DEF w
<1> HIDE DEF s2
<1>7. Len(s2) \in Nat /\ DOMAIN s2 = 1 .. Len(s2) BY <1>6
<1>8. ASSUME NEW j \in 1 .. n, j > items - PageSize
      PROVE  \E q \in DOMAIN s2 : /\ s2[q] = KeyOf(j)
                                  /\ Len(s2) - q <= PageSize - 1 + n - j + (k + 1)
                                  /\ Len(s2) - q <= PageSize - 1 + items - j
  <2>1. PICK p \in DOMAIN seen : seen[p] = KeyOf(j) /\ Len(seen) - p <= PageSize - 1 + n - j + k BY <1>8 DEF Windowed
  <2>2. k + 1 <= items - n BY <1>1, <1>2
  <2>3. p \in 1 .. Len(seen) BY <1>4
  <2>4. Len(seen) - p <= w - 2 BY <1>1, <1>3, <1>4, <1>8, <2>1, <2>2, <2>3
  <2>5. PICK q \in DOMAIN s2 : s2[q] = seen[p] /\ Len(s2) - q = Len(seen) - p + 1 BY <1>6, <2>4
  <2>6. q \in 1 .. Len(s2) BY <1>7
  <2>7. Len(s2) - q <= PageSize - 1 + n - j + (k + 1) BY <1>1, <1>4, <1>7, <2>1, <2>3, <2>5, <2>6
  <2>8. Len(s2) - q <= PageSize - 1 + items - j BY <1>1, <1>7, <2>2, <2>6, <2>7
  <2> QED BY <2>1, <2>5, <2>7, <2>8
<1>9. ASSUME NEW j \in n + 1 .. items, items + 1 - j <= k + 1
      PROVE  \E q \in DOMAIN s2 : s2[q] = KeyOf(j) /\ Len(s2) - q <= (k + 1) - (items + 1 - j)
  <2>1. CASE j = i
    <3>1. Len(s2) - Len(s2) <= (k + 1) - (items + 1 - j) BY <1>1, <1>7, <2>1
    <3>2. s2[Len(s2)] = KeyOf(j) BY <1>6, <2>1 DEF key
    <3> QED BY <1>6, <3>1, <3>2
  <2>2. CASE j # i
    <3>1. items + 1 - j <= k BY <1>1, <1>9, <2>2
    <3>2. PICK p \in DOMAIN seen : seen[p] = KeyOf(j) /\ Len(seen) - p <= k - (items + 1 - j) BY <3>1 DEF Windowed
    <3>3. p \in 1 .. Len(seen) BY <1>4
    <3>4. Len(seen) - p <= w - 2 BY <1>1, <1>3, <1>4, <1>9, <3>2, <3>3
    <3>5. PICK q \in DOMAIN s2 : s2[q] = seen[p] /\ Len(s2) - q = Len(seen) - p + 1 BY <1>6, <3>4
    <3>6. q \in 1 .. Len(s2) BY <1>7
    <3>7. Len(s2) - q <= (k + 1) - (items + 1 - j) BY <1>1, <1>4, <1>7, <3>2, <3>3, <3>5, <3>6
    <3> QED BY <3>2, <3>5, <3>7
  <2> QED BY <2>1, <2>2
<1> QED BY <1>8, <1>9 DEF Windowed, s2, key, i

\* An old item leaves the window as it is.
LEMMA WindowStays ==
    ASSUME NEW c, NEW n, NEW em, NEW hid, NEW page, Asked(c, n, em, hid, page), ByKeys, NEW seen \in Seq(Seq(Nat)), NEW k \in Nat,
           k + 1 <= Len(page), Windowed(seen, k, n), page[k + 1] <= n
    PROVE  Windowed(seen, k + 1, n)
<1> SUFFICES ASSUME ByNewest PROVE Windowed(seen, k + 1, n) BY DEF Windowed
<1>1. items \in Nat /\ n \in Nat /\ PageSize \in Nat /\ items - k <= n /\ n <= items
  <2>1. page \in Seq(Nat) /\ Len(page) \in Nat /\ PageSize \in Nat /\ items \in Nat /\ n \in Nat /\ n <= items
    BY PollAssumption DEF Asked, PageFits, PageOK, PollFits
  <2>2. k + 1 \in 1 .. Len(page) BY <2>1
  <2>3. page[k + 1] = items + 1 - (k + 1) BY <2>2 DEF Asked, PageFits, Newest, Since, ByKeys
  <2> QED BY <2>1, <2>3
<1>2. DOMAIN seen = 1 .. Len(seen) /\ Len(seen) \in Nat OBVIOUS
<1>3. ASSUME NEW j \in 1 .. n, j > items - PageSize
      PROVE  \E q \in DOMAIN seen : /\ seen[q] = KeyOf(j)
                                    /\ Len(seen) - q <= PageSize - 1 + n - j + (k + 1)
                                    /\ Len(seen) - q <= PageSize - 1 + items - j
  <2>1. PICK q \in 1 .. Len(seen) : /\ seen[q] = KeyOf(j)
                                    /\ Len(seen) - q <= PageSize - 1 + n - j + k
                                    /\ Len(seen) - q <= PageSize - 1 + items - j
    BY <1>2, <1>3 DEF Windowed
  <2>2. Len(seen) - q <= PageSize - 1 + n - j + (k + 1) BY <1>1, <1>2, <2>1
  <2> QED BY <1>2, <2>1, <2>2
<1>4. ASSUME NEW j \in n + 1 .. items, items + 1 - j <= k + 1
      PROVE  \E q \in DOMAIN seen : seen[q] = KeyOf(j) /\ Len(seen) - q <= (k + 1) - (items + 1 - j)
  <2>1. items + 1 - j <= k BY <1>1
  <2>2. PICK q \in 1 .. Len(seen) : seen[q] = KeyOf(j) /\ Len(seen) - q <= k - (items + 1 - j) BY <1>2, <2>1 DEF Windowed
  <2>3. Len(seen) - q <= (k + 1) - (items + 1 - j) BY <1>1, <1>2, <2>2
  <2> QED BY <1>2, <2>2, <2>3
<1> QED BY <1>3, <1>4 DEF Windowed

\* One item through a filter by key.
LEMMA KeyStep ==
    ASSUME NEW c, NEW n, NEW em, NEW hid, NEW page, Asked(c, n, em, hid, page), ByKeys, NEW acc, NEW k \in Nat,
           k + 1 <= Len(page), Passing(acc, k, c, n, em, hid, page), Windowed(acc.c.seen, k, n)
    PROVE  /\ Passing(ByKey(acc, page[k + 1]), k + 1, c, n, em, hid, page)
           /\ Windowed(ByKey(acc, page[k + 1]).c.seen, k + 1, n)
<1> DEFINE i == page[k + 1]
           acc2 == ByKey(acc, i)
<1>1. /\ ConfigOK /\ n \in Nat /\ i \in Nat /\ k + 1 \in 1 .. Len(page) /\ (\A j \in ToSet(em) : j \in 1 .. n)
      /\ (~ByNewest => em = <<>> \/ i > n)
  <2>1. page \in Seq(Nat) /\ ConfigOK /\ n \in Nat /\ \A j \in ToSet(em) : j \in 1 .. n
    BY DEF Asked, PageFits, PageOK, PollFits
  <2>2. k + 1 \in 1 .. Len(page) BY <2>1
  <2> QED BY <2>1, <2>2 DEF Asked, PageFits
<1>2. acc \in Accs /\ acc.c.seen \in Seq(Seq(Nat)) /\ acc.budget = Budget(c) /\ acc.news \in Seq(Nat)
  BY DEF Passing, Accs, Checkpoints
<1>3. CASE \E q \in DOMAIN acc.c.seen : acc.c.seen[q] = KeyOf(i)
  <2>1. acc2 = acc BY <1>3 DEF ByKey
  <2>2. i \in Known(em, hid) /\ i \in 1 .. n BY <1>3, SeenIsKnown
  <2>3. i <= n BY <1>1, <2>2
  <2>4. Moves(acc, acc, i, c, em, hid) BY <1>2, <2>2 DEF Moves
  <2>5. Passing(acc, k + 1, c, n, em, hid, page) BY <2>4, PassingMoves
  <2>6. Windowed(acc.c.seen, k + 1, n) BY <1>2, <2>3, WindowStays
  <2> QED BY <2>1, <2>5, <2>6
<1>4. CASE ~\E q \in DOMAIN acc.c.seen : acc.c.seen[q] = KeyOf(i)
  <2>1. /\ acc2 \in Accs /\ acc2.budget = acc.budget /\ acc2.c.mark = acc.c.mark /\ acc2.c.tie = acc.c.tie
        /\ acc2.c.based = acc.c.based /\ acc2.mark = acc.mark
        /\ acc2.c.seen = PushSeen(acc.c.seen, KeyOf(i))
        /\ acc2.news = IF Len(acc.news) < acc.budget THEN Append(acc.news, i) ELSE acc.news
    BY <1>1, <1>2, <1>4, ByKeyIs
  <2> HIDE DEF acc2
  <2>2. ByNewest => i > n
    <3>1. ByNewest => ~(i <= n) BY <1>4, OldIsSeen
    <3> QED BY <1>1, <3>1
  <2>3. i \notin ToSet(em)
    <3>1. CASE em = <<>>
      <4>1. ToSet(em) = {} BY <3>1 DEF ToSet
      <4> QED BY <4>1
    <3>2. CASE i > n BY <1>1, <3>2
    <3> QED BY <1>1, <2>2, <3>1, <3>2
  <2>4. Unlimited(c) => acc.budget = MaxItems BY <1>2 DEF Unlimited, Budget
  <2>5. KeyOf(i) \in Seq(Nat) BY <1>1, KeyOfIs
  <2>6. \A q \in DOMAIN acc2.c.seen : acc2.c.seen[q] = KeyOf(i) \/ \E p \in DOMAIN acc.c.seen : acc2.c.seen[q] = acc.c.seen[p]
    BY <1>1, <1>2, <2>1, <2>5, PushSeenIs
  <2>7. Moves(acc, acc2, i, c, em, hid) BY <2>1, <2>3, <2>4, <2>6 DEF Moves
  <2>8. Passing(acc2, k + 1, c, n, em, hid, page) BY <2>7, PassingMoves
  <2>9. Windowed(acc2.c.seen, k + 1, n) BY <1>2, <2>1, <2>2, WindowPushes
  <2> QED BY <2>8, <2>9 DEF acc2
<1> QED BY <1>3, <1>4

\* The filter by watermark: the greatest mark so far is that of the newest item.
Marked(acc, k, n, page) ==
    /\ Aligned(acc.mark, acc.tieMark) /\ acc.tieMark >= n
    /\ \A x \in 1 .. k : page[x] <= acc.tieMark
    /\ acc.tieMark = n \/ \E x \in 1 .. k : acc.tieMark = page[x]

LEMMA ByWatermarkIs ==
    ASSUME ConfigOK, config.tie = TRUE, NEW acc \in Accs, NEW i \in Nat,
           ~\E k \in DOMAIN acc.c.seen : acc.c.seen[k] = KeyOf(i)
    PROVE  LET acc2 == ByWatermark(acc, i)
               new == Newer(i, acc.c)
               top == Newer(i, [mark |-> acc.mark, tie |-> acc.tieMark])
           IN /\ acc2 \in Accs /\ acc2.budget = acc.budget /\ acc2.c.mark = acc.c.mark /\ acc2.c.tie = acc.c.tie
              /\ acc2.c.based = acc.c.based
              /\ acc2.c.seen = IF new THEN PushSeen(acc.c.seen, KeyOf(i)) ELSE acc.c.seen
              /\ acc2.news = IF new /\ Len(acc.news) < acc.budget THEN Append(acc.news, i) ELSE acc.news
              /\ acc2.mark = (IF top THEN MarkOf(i) ELSE acc.mark) /\ acc2.tieMark = IF top THEN i ELSE acc.tieMark
<1> DEFINE new == Newer(i, acc.c)
           top == Newer(i, [mark |-> acc.mark, tie |-> acc.tieMark])
           s2 == IF new THEN PushSeen(acc.c.seen, KeyOf(i)) ELSE acc.c.seen
           n2 == IF new /\ Len(acc.news) < acc.budget THEN Append(acc.news, i) ELSE acc.news
           m2 == IF top THEN MarkOf(i) ELSE acc.mark
           t2 == IF top THEN i ELSE acc.tieMark
<1>1. acc.c \in Checkpoints /\ acc.c.seen \in Seq(Seq(Nat)) /\ acc.news \in Seq(Nat) /\ acc.mark \in Nat /\ acc.tieMark \in Nat
  BY DEF Accs, Checkpoints
<1>2. s2 \in Seq(Seq(Nat)) BY <1>1, KeyOfIs, PushSeenIs
<1>3. n2 \in Seq(Nat) BY <1>1, AppendFacts
<1>4. m2 \in Nat /\ t2 \in Nat BY <1>1, MarkRises
<1>5. ByWatermark(acc, i) = [acc EXCEPT !.news = n2, !.c.seen = s2, !.mark = m2, !.tieMark = t2]
  BY DEF ByWatermark, TieOf
<1> HIDE DEF s2, n2, m2, t2
<1>6. [acc EXCEPT !.news = n2, !.c.seen = s2, !.mark = m2, !.tieMark = t2] \in Accs BY <1>1, <1>2, <1>3, <1>4 DEF Accs, Checkpoints
<1>7. "seen" \in DOMAIN acc.c /\ "c" \in DOMAIN acc /\ "news" \in DOMAIN acc /\ "mark" \in DOMAIN acc /\ "tieMark" \in DOMAIN acc
  BY <1>1 DEF Accs, Checkpoints
<1>8. LET acc2 == ByWatermark(acc, i)
      IN /\ acc2.budget = acc.budget /\ acc2.c.mark = acc.c.mark /\ acc2.c.tie = acc.c.tie /\ acc2.c.based = acc.c.based
         /\ acc2.c.seen = s2 /\ acc2.news = n2 /\ acc2.mark = m2 /\ acc2.tieMark = t2
  BY <1>1, <1>5, <1>7 DEF Accs, Checkpoints
<1> QED BY <1>5, <1>6, <1>8 DEF s2, n2, m2, t2

LEMMA MarkStep ==
    ASSUME NEW c, NEW n, NEW em, NEW hid, NEW page, Asked(c, n, em, hid, page), config.strategy = "watermark", NEW acc, NEW k \in Nat,
           k + 1 <= Len(page), Passing(acc, k, c, n, em, hid, page), Marked(acc, k, n, page)
    PROVE  /\ Passing(ByWatermark(acc, page[k + 1]), k + 1, c, n, em, hid, page)
           /\ Marked(ByWatermark(acc, page[k + 1]), k + 1, n, page)
<1> DEFINE i == page[k + 1]
           acc2 == ByWatermark(acc, i)
           new == i > n
           top == i > acc.tieMark
<1>1. /\ ConfigOK /\ config.tie = TRUE /\ n \in Nat /\ i \in 1 .. items /\ items \in Nat /\ Len(page) \in Nat
      /\ k + 1 \in 1 .. Len(page) /\ (\A j \in ToSet(em) : j \in 1 .. n)
      /\ (~ByNewest => i > n) /\ (\A x \in 1 .. Len(page) : page[x] \in Nat)
  <2>1. page \in Seq(Nat) /\ ConfigOK /\ config.tie = TRUE /\ n \in Nat /\ items \in Nat /\ \A j \in ToSet(em) : j \in 1 .. n
    BY DEF Asked, PageFits, PageOK, PollFits, ConfigOK
  <2>2. k + 1 \in 1 .. Len(page) /\ Len(page) \in Nat /\ \A x \in 1 .. Len(page) : page[x] \in Nat BY <2>1
  <2>3. config.strategy # "item_key" OBVIOUS
  <2> QED BY <2>1, <2>2, <2>3 DEF Asked, PageFits, PageOK
<1>2. acc \in Accs /\ acc.c.seen \in Seq(Seq(Nat)) /\ acc.budget = Budget(c) /\ acc.news \in Seq(Nat) /\ acc.tieMark \in Nat
      /\ acc.mark \in Nat /\ acc.c.mark = c.mark /\ acc.c.tie = c.tie
  BY DEF Passing, Accs, Checkpoints
<1>3. c.tie = n /\ Aligned(c.mark, c.tie) BY DEF Asked, PollFits, FitsMark
<1>4. i \in Nat /\ i > 0 BY <1>1
<1>5. \A x \in 1 .. k : x \in 1 .. k + 1 OBVIOUS
<1>6. k + 1 \in 1 .. k + 1 /\ \A x \in 1 .. k + 1 : x \in 1 .. k \/ x = k + 1 OBVIOUS
<1>7. \A x \in 1 .. k : page[x] \in Nat
  <2>1. \A x \in 1 .. k : x \in 1 .. Len(page) BY <1>1
  <2> QED BY <1>1, <2>1
<1>8. CASE \E q \in DOMAIN acc.c.seen : acc.c.seen[q] = KeyOf(i)
  <2>1. acc2 = acc BY <1>1, <1>8 DEF ByWatermark
  <2>2. i \in Known(em, hid) /\ i \in 1 .. n BY <1>8, SeenIsKnown
  <2>3. i <= acc.tieMark BY <1>1, <1>2, <2>2 DEF Marked
  <2>4. Moves(acc, acc, i, c, em, hid) BY <1>2, <2>2 DEF Moves
  <2>5. Passing(acc, k + 1, c, n, em, hid, page) BY <2>4, PassingMoves
  <2>6. Marked(acc, k + 1, n, page) BY <1>5, <1>6, <2>3 DEF Marked
  <2> QED BY <2>1, <2>5, <2>6
<1>9. CASE ~\E q \in DOMAIN acc.c.seen : acc.c.seen[q] = KeyOf(i)
  <2>1. new <=> Newer(i, acc.c) BY <1>1, <1>2, <1>3, <1>4, NewerIs
  <2>2. top <=> Newer(i, [mark |-> acc.mark, tie |-> acc.tieMark])
    <3> DEFINE m == [mark |-> acc.mark, tie |-> acc.tieMark]
    <3>1. m.mark = acc.mark /\ m.tie = acc.tieMark OBVIOUS
    <3>2. Aligned(m.mark, m.tie) BY <3>1 DEF Marked
    <3>3. Newer(i, m) <=> i > m.tie BY <1>1, <1>4, <3>2, NewerIs
    <3> QED BY <3>1, <3>3
  <2>4. /\ acc2 \in Accs /\ acc2.budget = acc.budget /\ acc2.c.mark = acc.c.mark /\ acc2.c.tie = acc.c.tie
        /\ acc2.c.based = acc.c.based
        /\ acc2.c.seen = IF new THEN PushSeen(acc.c.seen, KeyOf(i)) ELSE acc.c.seen
        /\ acc2.news = IF new /\ Len(acc.news) < acc.budget THEN Append(acc.news, i) ELSE acc.news
        /\ acc2.mark = (IF top THEN MarkOf(i) ELSE acc.mark) /\ acc2.tieMark = IF top THEN i ELSE acc.tieMark
    <3> HIDE DEF i
    <3> DEFINE isNew == Newer(i, acc.c)
               isTop == Newer(i, [mark |-> acc.mark, tie |-> acc.tieMark])
    <3>1. /\ acc2 \in Accs /\ acc2.budget = acc.budget /\ acc2.c.mark = acc.c.mark /\ acc2.c.tie = acc.c.tie
          /\ acc2.c.based = acc.c.based
          /\ acc2.c.seen = IF isNew THEN PushSeen(acc.c.seen, KeyOf(i)) ELSE acc.c.seen
          /\ acc2.news = IF isNew /\ Len(acc.news) < acc.budget THEN Append(acc.news, i) ELSE acc.news
          /\ acc2.mark = (IF isTop THEN MarkOf(i) ELSE acc.mark) /\ acc2.tieMark = IF isTop THEN i ELSE acc.tieMark
      BY <1>1, <1>2, <1>4, <1>9, ByWatermarkIs
    <3> HIDE DEF acc2
    <3> QED BY <2>1, <2>2, <3>1
  <2> HIDE DEF acc2
  <2>5. new => i \notin ToSet(em) BY <1>1
  <2>6. ~new => i \in Known(em, hid)
    <3>1. SUFFICES ASSUME ~(i > n) PROVE i \in Known(em, hid) OBVIOUS
    <3>2. ByNewest /\ i \in 1 .. n BY <1>1, <3>1
    <3>3. n <= items /\ PageSize \in Nat BY <1>1, PollAssumption DEF Asked, PollFits
    <3>4. i > n - PageSize
      <4>1. CASE Newest(page)
        <5>1. Len(page) <= PageSize /\ i = items + 1 - (k + 1) BY <1>1, <3>3, <4>1 DEF Newest
        <5> QED BY <1>1, <3>3, <5>1
      <4>2. CASE Since(page, n) BY <1>1, <4>2 DEF Since
      <4> QED BY <3>2, <4>1, <4>2 DEF Asked, PageFits
    <3> QED BY <3>2, <3>4 DEF Asked, PollFits, FitsPage
  <2>7. Unlimited(c) => acc.budget = MaxItems BY <1>2 DEF Unlimited, Budget
  <2>8. KeyOf(i) \in Seq(Nat) BY <1>4, KeyOfIs
  <2>9. \A q \in DOMAIN acc2.c.seen : acc2.c.seen[q] = KeyOf(i) \/ \E p \in DOMAIN acc.c.seen : acc2.c.seen[q] = acc.c.seen[p]
    <3>1. CASE new
      <4>1. acc2.c.seen = PushSeen(acc.c.seen, KeyOf(i)) BY <2>4, <3>1
      <4>2. \A q \in DOMAIN PushSeen(acc.c.seen, KeyOf(i)) :
              \/ PushSeen(acc.c.seen, KeyOf(i))[q] = KeyOf(i)
              \/ \E p \in DOMAIN acc.c.seen : PushSeen(acc.c.seen, KeyOf(i))[q] = acc.c.seen[p]
        BY <1>1, <1>2, <2>8, PushSeenIs
      <4> QED BY <4>1, <4>2
    <3>2. CASE ~new BY <2>4, <3>2
    <3> QED BY <3>1, <3>2
  <2>10. Moves(acc, acc2, i, c, em, hid) BY <2>4, <2>5, <2>6, <2>7, <2>9 DEF Moves
  <2>11. Passing(acc2, k + 1, c, n, em, hid, page) BY <2>10, PassingMoves
  <2>12. Marked(acc2, k + 1, n, page)
    <3>1. CASE top
      <4>1. acc2.mark = MarkOf(i) /\ acc2.tieMark = i BY <2>4, <3>1
      <4>2. Aligned(MarkOf(i), i) BY <1>4 DEF Aligned
      <4>3. i >= n BY <1>1, <1>2, <1>4, <3>1 DEF Marked
      <4>4. \A x \in 1 .. k + 1 : page[x] <= i BY <1>2, <1>4, <1>6, <1>7, <3>1 DEF Marked
      <4> QED BY <1>6, <4>1, <4>2, <4>3, <4>4 DEF Marked
    <3>2. CASE ~top
      <4>1. acc2.mark = acc.mark /\ acc2.tieMark = acc.tieMark /\ i <= acc.tieMark BY <1>2, <1>4, <2>4, <3>2
      <4> QED BY <1>5, <1>6, <4>1 DEF Marked
    <3> QED BY <3>1, <3>2
  <2> QED BY <2>11, <2>12 DEF acc2
<1> QED BY <1>8, <1>9

-----------------------------------------------------------------------------
(* The poll loop: a page that the filters have passed. *)

Start(c) == [c |-> c, news |-> <<>>, budget |-> Budget(c), mark |-> c.mark, tieMark |-> c.tie]

LEMMA KeysPass ==
    ASSUME NEW c, NEW n, NEW em, NEW hid, NEW page, Asked(c, n, em, hid, page), ByKeys
    PROVE  /\ Passing(Passes(Start(c), page)[Len(page)], Len(page), c, n, em, hid, page)
           /\ Windowed(Passes(Start(c), page)[Len(page)].c.seen, Len(page), n)
<1> DEFINE P == Passes(Start(c), page)
           S == {k \in Nat : k <= Len(page) => Passing(P[k], k, c, n, em, hid, page) /\ Windowed(P[k].c.seen, k, n)}
<1>1. Len(page) \in Nat /\ config.strategy # "watermark" BY DEF Asked, PageFits, PageOK, ByKeys
<1>2. P[0] = Start(c) /\ \A k \in 1 .. Len(page) : P[k] = ByKey(P[k - 1], page[k]) BY <1>1, PassesIs
<1> HIDE DEF P
<1>3. 0 \in S
  <2>1. Passing(P[0], 0, c, n, em, hid, page) BY <1>2, PassingStarts DEF Start
  <2>2. P[0].c = c BY <1>2 DEF Start
  <2>3. Windowed(P[0].c.seen, 0, n) BY <2>2, WindowStarts
  <2> QED BY <2>1, <2>3
<1>4. ASSUME NEW k \in S PROVE k + 1 \in S
  <2>1. SUFFICES ASSUME k + 1 <= Len(page)
                 PROVE  Passing(P[k + 1], k + 1, c, n, em, hid, page) /\ Windowed(P[k + 1].c.seen, k + 1, n)
    OBVIOUS
  <2>2. k \in Nat /\ k <= Len(page) BY <1>1, <2>1
  <2>3. Passing(P[k], k, c, n, em, hid, page) /\ Windowed(P[k].c.seen, k, n) BY <2>2
  <2>4. k + 1 \in 1 .. Len(page) /\ (k + 1) - 1 = k BY <1>1, <2>1, <2>2
  <2>5. P[k + 1] = ByKey(P[k], page[k + 1]) BY <1>2, <2>4
  <2> QED BY <2>1, <2>2, <2>3, <2>5, KeyStep
<1>5. S \in SUBSET Nat OBVIOUS
<1>6. S = Nat
  <2> HIDE DEF S
  <2> QED BY <1>3, <1>4, <1>5, SetInduction
<1>7. Len(page) \in S BY <1>1, <1>6
<1> QED BY <1>1, <1>7 DEF P

LEMMA MarksPass ==
    ASSUME NEW c, NEW n, NEW em, NEW hid, NEW page, Asked(c, n, em, hid, page), config.strategy = "watermark"
    PROVE  /\ Passing(Passes(Start(c), page)[Len(page)], Len(page), c, n, em, hid, page)
           /\ Marked(Passes(Start(c), page)[Len(page)], Len(page), n, page)
<1> DEFINE P == Passes(Start(c), page)
           S == {k \in Nat : k <= Len(page) => Passing(P[k], k, c, n, em, hid, page) /\ Marked(P[k], k, n, page)}
<1>1. Len(page) \in Nat BY DEF Asked, PageFits, PageOK
<1>2. P[0] = Start(c) /\ \A k \in 1 .. Len(page) : P[k] = ByWatermark(P[k - 1], page[k]) BY <1>1, PassesIs
<1> HIDE DEF P
<1>3. 0 \in S
  <2>1. Passing(P[0], 0, c, n, em, hid, page) BY <1>2, PassingStarts DEF Start
  <2>2. P[0].mark = c.mark /\ P[0].tieMark = c.tie BY <1>2 DEF Start
  <2>3. c.tie = n /\ Aligned(c.mark, c.tie) /\ n \in Nat BY DEF Asked, PollFits, FitsMark
  <2>4. Marked(P[0], 0, n, page) BY <2>2, <2>3 DEF Marked
  <2> QED BY <2>1, <2>4
<1>4. ASSUME NEW k \in S PROVE k + 1 \in S
  <2>1. SUFFICES ASSUME k + 1 <= Len(page)
                 PROVE  Passing(P[k + 1], k + 1, c, n, em, hid, page) /\ Marked(P[k + 1], k + 1, n, page)
    OBVIOUS
  <2>2. k \in Nat /\ k <= Len(page) BY <1>1, <2>1
  <2>3. Passing(P[k], k, c, n, em, hid, page) /\ Marked(P[k], k, n, page) BY <2>2
  <2>4. k + 1 \in 1 .. Len(page) /\ (k + 1) - 1 = k BY <1>1, <2>1, <2>2
  <2>5. P[k + 1] = ByWatermark(P[k], page[k + 1]) BY <1>2, <2>4
  <2> QED BY <2>1, <2>2, <2>3, <2>5, MarkStep
<1>5. S \in SUBSET Nat OBVIOUS
<1>6. S = Nat
  <2> HIDE DEF S
  <2> QED BY <1>3, <1>4, <1>5, SetInduction
<1>7. Len(page) \in S BY <1>1, <1>6
<1> QED BY <1>1, <1>7 DEF P

LEMMA CursorPass ==
    ASSUME NEW c, NEW n, NEW em, NEW hid, NEW page, Asked(c, n, em, hid, page), config.strategy = "cursor_only"
    PROVE  Passing([Start(c) EXCEPT !.news = page], Len(page), c, n, em, hid, page)
<1> DEFINE a == [Start(c) EXCEPT !.news = page]
<1>1. page \in Seq(Nat) /\ Len(page) \in Nat /\ DOMAIN page = 1 .. Len(page) /\ Once(page) BY DEF Asked, PageFits, PageOK
<1>2. Passing(Start(c), 0, c, n, em, hid, page) BY PassingStarts DEF Start
<1>3. a \in Accs /\ a.budget = Budget(c) /\ a.c = c /\ a.news = page /\ a.mark = c.mark BY <1>1, <1>2 DEF Passing, Accs, Start
<1>4. n \in Nat /\ \A k \in 1 .. Len(page) : page[k] > n BY DEF Asked, PageFits, ConfigOK, ByNewest
<1>5. \A j \in ToSet(em) : j \in 1 .. n BY DEF Asked, PollFits
<1>6. NewsFits(page, Len(page), em, page)
  <2>1. \A k \in 1 .. Len(page) : page[k] \notin ToSet(em) BY <1>1, <1>4, <1>5
  <2> QED BY <1>1, <2>1 DEF NewsFits, ToSet
<1>7. SeenKnown(c.seen, Len(page), n, em, hid, page) BY DEF Asked, PollFits, FitsSeen, SeenKnown
<1>8. \A i \in 1 .. Len(page) : page[i] \in ToSet(page) BY <1>1 DEF ToSet
<1> QED BY <1>3, <1>6, <1>7, <1>8 DEF Passing

\* What a response leads to, for the round that stores it.
Leads(r, c, em, hid, page) ==
    LET H == IF Unlimited(c) THEN {} ELSE ToSet(page) \ ToSet(r.news)
    IN /\ r.page = page /\ r.c \in Checkpoints /\ r.c.based = (c.based \/ config.limit # -1)
       /\ r.news \in Seq(Nat) /\ Once(r.news) /\ ToSet(r.news) \cap ToSet(em) = {}
       /\ ToSet(page) \subseteq Known(em \o r.news, hid \cup H)
       /\ PollFits(r.c, items, em \o r.news, hid \cup H)

LEMMA PassedLeads ==
    ASSUME NEW c, NEW n, NEW em, NEW hid, NEW page, Asked(c, n, em, hid, page), NEW acc, NEW r,
           Passing(acc, Len(page), c, n, em, hid, page),
           ByKeys => Windowed(acc.c.seen, Len(page), n), config.strategy = "watermark" => Marked(acc, Len(page), n, page),
           r = [news |-> acc.news, page |-> page,
                c |-> [acc.c EXCEPT !.mark = acc.mark, !.tie = acc.tieMark, !.based = @ \/ config.limit # -1,
                                    !.cursor = NextCursor(c, page)]]
    PROVE  Leads(r, c, em, hid, page)
<1> DEFINE H == IF Unlimited(c) THEN {} ELSE ToSet(page) \ ToSet(r.news)
           L == Len(page)
           em2 == em \o r.news
           hid2 == hid \cup H
           K == Known(em2, hid2)
<1>1. /\ page \in Seq(Nat) /\ L \in Nat /\ DOMAIN page = 1 .. L /\ ConfigOK /\ items \in Nat /\ n \in Nat /\ n <= items
      /\ c \in Checkpoints /\ em \in Seq(Nat) /\ (\A k \in 1 .. L : page[k] \in 1 .. items) /\ PageSize \in Nat /\ PageSize > 0
      /\ (L = 0 => items = n) /\ (L > 0 => \E k \in 1 .. L : page[k] = items)
  BY PollAssumption DEF Asked, PageFits, PageOK, PollFits
<1>2. acc \in Accs /\ NewsFits(acc.news, L, em, page) /\ SeenKnown(acc.c.seen, L, n, em, hid, page) BY DEF Passing
<1>3. acc.c \in Checkpoints /\ acc.mark \in Nat /\ acc.tieMark \in Nat /\ acc.news \in Seq(Nat) /\ acc.c.seen \in Seq(Seq(Nat))
  BY <1>2 DEF Accs, Checkpoints
<1>4. r.news = acc.news /\ r.page = page OBVIOUS
<1>5. ToSet(em2) = ToSet(em) \cup ToSet(r.news) /\ em2 \in Seq(Nat) BY <1>1, <1>3, <1>4, ConcatFacts
<1>6. ToSet(acc.news) \cap ToSet(em) = {} /\ Once(acc.news) /\ \A x \in ToSet(acc.news) : \E i \in 1 .. L : x = page[i]
  BY <1>2 DEF NewsFits
<1>7. L = 0 => em2 = em
  <2>1. L = 0 => acc.news = <<>> BY <1>2 DEF NewsFits
  <2> QED BY <1>1, <1>4, <2>1
<1>8. /\ NextCursor(c, page) \in Nat
      /\ (~ByNewest => \/ NextCursor(c, page) = items + 1
                       \/ /\ NextCursor(c, page) = 0 /\ em2 = <<>>
                          /\ items = 0 \/ config.strategy = "item_key")
      /\ (config.cursorFrom = "none" => NextCursor(c, page) = 0)
  <2>1. FitsCursor(c, n, em) /\ PageFits(page, n, em) BY DEF Asked, PollFits
  <2>2. ConfigOK /\ items \in Nat /\ c \in Checkpoints /\ n \in Nat /\ (Len(page) = 0 => em2 = em) BY <1>1, <1>7
  <2> HIDE DEF em2, L
  <2> QED BY ONLY <2>1, <2>2, NextCursorIs
<1>9. /\ r.c \in Checkpoints /\ r.c.seen = acc.c.seen /\ r.c.mark = acc.mark /\ r.c.tie = acc.tieMark
      /\ r.c.cursor = NextCursor(c, page) /\ r.c.based = (c.based \/ config.limit # -1)
  <2>1. acc.c.based = c.based BY DEF Passing
  <2> QED BY <1>3, <1>8, <2>1 DEF Checkpoints
<1>10. \A i \in 1 .. L : page[i] \in K
  <2>1. ASSUME NEW i \in 1 .. L PROVE page[i] \in K
    <3>1. CASE Unlimited(c) BY <1>4, <1>5, <3>1 DEF Passing, Known
    <3>2. CASE ~Unlimited(c)
      <4>1. page[i] \in ToSet(page) BY <1>1 DEF ToSet
      <4>2. page[i] \in H \cup ToSet(r.news) BY <3>2, <4>1
      <4> QED BY <1>5, <4>2 DEF Known
    <3> QED BY <3>1, <3>2
  <2> QED BY <2>1
<1>11. \A x \in Known(em, hid) : x \in K BY <1>5 DEF Known
<1> HIDE DEF K, H
<1>12. ToSet(page) \subseteq K BY <1>1, <1>10 DEF ToSet
<1>13. \A j \in 1 .. n : j \in 1 .. items BY <1>1
<1>14. FitsSeen(r.c, items, em2, hid2)
  <2>1. SUFFICES ASSUME NEW q \in DOMAIN acc.c.seen
                 PROVE  \E j \in 1 .. items : acc.c.seen[q] = KeyOf(j) /\ j \in K
    BY <1>9 DEF FitsSeen, K
  <2>2. CASE \E j \in 1 .. n : acc.c.seen[q] = KeyOf(j) /\ j \in Known(em, hid) BY <1>11, <1>13, <2>2
  <2>3. CASE \E i \in 1 .. L : acc.c.seen[q] = KeyOf(page[i]) BY <1>1, <1>10, <2>3
  <2> QED BY <1>2, <2>2, <2>3 DEF SeenKnown
<1>15. FitsCursor(r.c, items, em2) BY <1>8, <1>9 DEF FitsCursor
<1>16. ByNewest => Newest(page) \/ Since(page, n) BY DEF Asked, PageFits
<1>17. ASSUME Newest(page), NEW j \in 1 .. items, j > items - PageSize
       PROVE  items + 1 - j \in 1 .. L /\ page[items + 1 - j] = j
  <2>0. items \in Nat /\ PageSize \in Nat /\ L = IF items < PageSize THEN items ELSE PageSize BY <1>1, <1>17 DEF Newest
  <2>1. items + 1 - j \in 1 .. L BY <1>17, <2>0
  <2>2. page[items + 1 - j] = items + 1 - (items + 1 - j) BY <1>17, <2>1 DEF Newest
  <2> QED BY <1>1, <2>1, <2>2
<1>18. FitsPage(items, em2, hid2)
  <2>1. ASSUME ByNewest, NEW j \in 1 .. items, j > items - PageSize PROVE j \in K
    <3>1. CASE Newest(page) BY <1>10, <1>17, <2>1, <3>1
    <3>2. CASE Since(page, n) /\ j > n BY <1>10, <3>2 DEF Since
    <3>3. CASE j <= n
      <4>1. j \in 1 .. n /\ j > n - PageSize BY <1>1, <2>1, <3>3
      <4> QED BY <1>11, <2>1, <4>1 DEF Asked, PollFits, FitsPage
    <3> QED BY <1>1, <1>16, <2>1, <3>1, <3>2, <3>3
  <2> QED BY <2>1 DEF FitsPage, K
<1>19. FitsWindow(r.c, items)
  <2>1. ASSUME ByNewest, ByKeys, NEW j \in 1 .. items, j > items - PageSize
        PROVE  \E q \in DOMAIN acc.c.seen : acc.c.seen[q] = KeyOf(j) /\ Len(acc.c.seen) - q <= PageSize - 1 + items - j
    <3>1. Windowed(acc.c.seen, L, n) BY <2>1
    <3>2. CASE j <= n
      <4>1. j \in 1 .. n BY <1>1, <3>2
      <4> QED BY <2>1, <3>1, <4>1 DEF Windowed
    <3>3. CASE j > n
      <4>0. items \in Nat /\ n \in Nat /\ PageSize \in Nat /\ L = IF items < PageSize THEN items ELSE PageSize
        BY <1>1, <1>16, <2>1 DEF Newest, Since, ByKeys
      <4>1. j \in n + 1 .. items /\ items + 1 - j <= L /\ L <= PageSize BY <2>1, <3>3, <4>0
      <4>2. PICK q \in DOMAIN acc.c.seen : acc.c.seen[q] = KeyOf(j) /\ Len(acc.c.seen) - q <= L - (items + 1 - j)
        BY <2>1, <3>1, <4>1 DEF Windowed
      <4>3. q \in 1 .. Len(acc.c.seen) /\ Len(acc.c.seen) \in Nat BY <1>3
      <4>5. L - (items + 1 - j) <= PageSize - 1 + items - j /\ L - (items + 1 - j) \in Int /\ PageSize - 1 + items - j \in Int
        BY <4>0, <4>1
      <4>6. Len(acc.c.seen) - q \in Int BY <4>3
      <4>4. Len(acc.c.seen) - q <= PageSize - 1 + items - j BY <4>2, <4>5, <4>6
      <4> QED BY <4>2, <4>4
    <3> QED BY <1>1, <3>2, <3>3
  <2> QED BY <1>9, <2>1 DEF FitsWindow
<1>20. FitsMark(r.c, items)
  <2>0. config.strategy # "watermark" => acc.mark = 0 BY DEF Passing, Asked, PollFits, FitsMark
  <2>1. SUFFICES ASSUME config.strategy = "watermark" PROVE acc.tieMark = items /\ Aligned(acc.mark, acc.tieMark)
    BY <1>9, <2>0 DEF FitsMark
  <2>2. Marked(acc, L, n, page) BY <2>1
  <2>3. CASE L = 0
    <3>1. acc.tieMark = n BY <2>2, <2>3 DEF Marked
    <3> QED BY <1>1, <2>2, <2>3, <3>1 DEF Marked
  <2>4. CASE L > 0
    <3>1. acc.tieMark >= items BY <1>1, <1>3, <2>2, <2>4 DEF Marked
    <3>2. acc.tieMark <= items BY <1>1, <1>3, <2>2 DEF Marked
    <3> QED BY <1>1, <1>3, <2>2, <3>1, <3>2 DEF Marked
  <2> QED BY <1>1, <2>3, <2>4
<1>21. \A j \in ToSet(em2) : j \in 1 .. items
  <2>1. \A j \in ToSet(em) : j \in 1 .. n BY DEF Asked, PollFits
  <2> QED BY <1>1, <1>4, <1>5, <1>6, <1>13, <2>1
<1>22. PollFits(r.c, items, em2, hid2)
  <2>1. items \in 0 .. items BY <1>1
  <2> QED BY <1>14, <1>15, <1>18, <1>19, <1>20, <1>21, <2>1 DEF PollFits
<1> QED BY <1>3, <1>4, <1>6, <1>9, <1>12, <1>22 DEF Leads, K, H

LEMMA ResponseLeads ==
    ASSUME NEW c, NEW n, NEW em, NEW hid, NEW page, Asked(c, n, em, hid, page)
    PROVE  Leads(ProcessResponse(c, page), c, em, hid, page)
<1> DEFINE R(acc) == [news |-> acc.news, page |-> page,
                      c |-> [acc.c EXCEPT !.mark = acc.mark, !.tie = acc.tieMark, !.based = @ \/ config.limit # -1,
                                          !.cursor = NextCursor(c, page)]]
<1>1. CASE config.strategy = "cursor_only"
  <2> DEFINE a == [Start(c) EXCEPT !.news = page]
  <2>1. ProcessResponse(c, page) = R(a) BY <1>1 DEF ProcessResponse, Start
  <2>2. Passing(a, Len(page), c, n, em, hid, page) BY <1>1, CursorPass
  <2> HIDE DEF a
  <2> QED BY <1>1, <2>1, <2>2, PassedLeads DEF ByKeys
<1>2. CASE ByKeys
  <2> DEFINE a == Passes(Start(c), page)[Len(page)]
  <2>1. ProcessResponse(c, page) = R(a) BY <1>2 DEF ProcessResponse, Start, ByKeys
  <2>2. Passing(a, Len(page), c, n, em, hid, page) /\ Windowed(a.c.seen, Len(page), n) BY <1>2, KeysPass
  <2> HIDE DEF a
  <2> QED BY <1>2, <2>1, <2>2, PassedLeads DEF ByKeys
<1>3. CASE config.strategy = "watermark"
  <2> DEFINE a == Passes(Start(c), page)[Len(page)]
  <2>1. ProcessResponse(c, page) = R(a) BY <1>3 DEF ProcessResponse, Start
  <2>2. Passing(a, Len(page), c, n, em, hid, page) /\ Marked(a, Len(page), n, page) BY <1>3, MarksPass
  <2> HIDE DEF a
  <2> QED BY <1>3, <2>1, <2>2, PassedLeads DEF ByKeys
<1> QED BY <1>1, <1>2, <1>3 DEF Asked, ConfigOK, ByKeys

-----------------------------------------------------------------------------
(* The poll loop: its steps. *)

LEMMA FitsFrame ==
    ASSUME config' = config, items \in Nat, items' \in Nat, items <= items'
    PROVE  \A c, n, em, hid : PollFits(c, n, em, hid) => PollFits(c, n, em, hid)'
<1>1. SUFFICES ASSUME NEW c, NEW n, NEW em, NEW hid, PollFits(c, n, em, hid) PROVE PollFits(c, n, em, hid)' OBVIOUS
<1>2. n \in 0 .. items => n \in 0 .. items' OBVIOUS
<1>3. \A i : KeyOf(i)' = KeyOf(i) BY DEF KeyOf, MarkOf, TieOf
<1>4. Known(em, hid)' = Known(em, hid) BY DEF Known
<1>5. ByNewest' = ByNewest /\ ByKeys' = ByKeys BY DEF ByNewest, ByKeys
<1>6. FitsSeen(c, n, em, hid)' BY <1>1, <1>3, <1>4 DEF PollFits, FitsSeen
<1>7. FitsCursor(c, n, em)' BY <1>1, <1>5 DEF PollFits, FitsCursor
<1>8. FitsPage(n, em, hid)' BY <1>1, <1>4, <1>5 DEF PollFits, FitsPage
<1>9. FitsWindow(c, n)' BY <1>1, <1>3, <1>5 DEF PollFits, FitsWindow
<1>10. FitsMark(c, n)' BY <1>1 DEF PollFits, FitsMark, Aligned, MarkOf
<1> QED BY <1>1, <1>2, <1>6, <1>7, <1>8, <1>9, <1>10 DEF PollFits

\* The ETag has nothing to do with it.
LEMMA FitsSame ==
    ASSUME NEW c, NEW d, d.cursor = c.cursor, d.mark = c.mark, d.tie = c.tie, d.seen = c.seen, NEW n, NEW em, NEW hid,
           PollFits(c, n, em, hid)
    PROVE  PollFits(d, n, em, hid)
<1>1. FitsSeen(d, n, em, hid) BY DEF PollFits, FitsSeen
<1>2. FitsCursor(d, n, em) BY DEF PollFits, FitsCursor
<1>3. FitsWindow(d, n) BY DEF PollFits, FitsWindow
<1>4. FitsMark(d, n) BY DEF PollFits, FitsMark
<1> QED BY <1>1, <1>2, <1>3, <1>4 DEF PollFits

LEMMA InvalidatedIs ==
    ASSUME NEW c \in Checkpoints
    PROVE  LET d == Invalidated(c)
           IN d \in Checkpoints /\ d.cursor = c.cursor /\ d.mark = c.mark /\ d.tie = c.tie /\ d.seen = c.seen /\ d.based = c.based
<1>1. CASE FreshEnough(c) BY <1>1 DEF Invalidated
<1>2. CASE ~FreshEnough(c)
  <2> DEFINE d == [c EXCEPT !.etag = 0, !.old = FALSE]
  <2>1. Invalidated(c) = d BY <1>2 DEF Invalidated
  <2>2. d \in Checkpoints BY DEF Checkpoints
  <2>3. d.cursor = c.cursor /\ d.mark = c.mark /\ d.tie = c.tie /\ d.seen = c.seen /\ d.based = c.based BY DEF Checkpoints
  <2> HIDE DEF d
  <2> QED BY <2>1, <2>2, <2>3
<1> QED BY <1>1, <1>2

LEMMA NoRowIsNone == NoRow \notin Checkpoints /\ NoRow.based = FALSE /\ NoCheckpoint \in Checkpoints
<1>1. NoRow.cursor = -1 BY DEF NoRow, NoCheckpoint
<1>2. NoRow.based = FALSE BY DEF NoRow, NoCheckpoint
<1>3. NoCheckpoint \in Checkpoints
  <2>1. <<>> \in Seq(Seq(Nat)) OBVIOUS
  <2> QED BY <2>1 DEF NoCheckpoint, Checkpoints
<1>4. \A c \in Checkpoints : c.cursor \in Nat BY DEF Checkpoints
<1>5. -1 \notin Nat OBVIOUS
<1> QED BY <1>1, <1>2, <1>3, <1>4, <1>5

LEMMA NothingFits ==
    ASSUME items \in Nat
    PROVE  PollFits(NoCheckpoint, 0, <<>>, {})
<1>1. NoCheckpoint.seen = <<>> /\ NoCheckpoint.cursor = 0 /\ NoCheckpoint.mark = 0 /\ NoCheckpoint.tie = 0 BY DEF NoCheckpoint
<1>2. DOMAIN <<>> = {} /\ 1 .. 0 = {} OBVIOUS
<1>3. ToSet(<<>>) = {} BY <1>2 DEF ToSet
<1>4. 0 \in 0 .. items OBVIOUS
<1> QED BY <1>1, <1>2, <1>3, <1>4 DEF PollFits, FitsSeen, FitsCursor, FitsPage, FitsWindow, FitsMark, Aligned

\* The store as it was, beside a server that has more.
LEMMA StoreKeeps ==
    ASSUME PollStore, config' = config, items' \in Nat, items <= items', items' <= MaxItems,
           UNCHANGED <<pollRow, legacy, emitted, shown, hidden>>
    PROVE  PollStore'
<1>1. items \in Nat BY DEF PollStore
<1>2. \A c, n, em, hid : PollFits(c, n, em, hid) => PollFits(c, n, em, hid)' BY <1>1, FitsFrame
<1>3. ConfigOK' BY DEF PollStore, ConfigOK, ByKeys, ByNewest
<1>4. Known(emitted, hidden)' = Known(emitted, hidden) BY DEF Known
<1>5. Once(emitted)' BY DEF PollStore, Once
<1> QED BY <1>1, <1>2, <1>3, <1>4, <1>5 DEF PollStore

LEMMA RunKeeps ==
    ASSUME PollStore, PollRun, config' = config, items' \in Nat, items <= items',
           UNCHANGED <<pollRow, emitted, hidden, cp, round, poller>>
    PROVE  PollRun'
<1>1. items \in Nat BY DEF PollStore
<1>2. \A c, n, em, hid : PollFits(c, n, em, hid) => PollFits(c, n, em, hid)' BY <1>1, FitsFrame
<1>3. HidesNow' = HidesNow BY DEF HidesNow
<1>4. Known(emitted \o round.news, hidden \cup HidesNow)' = Known(emitted \o round.news, hidden \cup HidesNow)
  BY <1>3 DEF Known
<1>5. ASSUME RoundFits PROVE RoundFits'
  <2>1. PICK n \in Nat : PollFits(cp, n, emitted \o round.news, hidden \cup HidesNow) BY <1>5 DEF RoundFits
  <2>2. PollFits(cp, n, emitted \o round.news, hidden \cup HidesNow)' BY <1>2, <1>3, <2>1
  <2>3. Once(round.news)' BY <1>5 DEF RoundFits, Once
  <2> QED BY <1>3, <1>4, <1>5, <2>2, <2>3 DEF RoundFits
<1> QED BY <1>2, <1>5 DEF PollRun

LEMMA PollInitOK == PollInit /\ Roomy(config) => PollInv
<1> SUFFICES ASSUME PollInit, Roomy(config) PROVE PollInv OBVIOUS
<1>1. ConfigOK BY PollAssumption DEF PollInit, Valid, Roomy, ConfigOK, ByKeys, ByNewest
<1>2. items \in Nat /\ items <= MaxItems BY PollAssumption DEF PollInit
<1>3. emitted = <<>> /\ hidden = {} /\ shown = {} /\ pollRow = NoRow /\ poller = "starting" BY DEF PollInit
<1>4. emitted \in Seq(Nat) /\ Once(emitted) BY <1>3 DEF Once
<1>5. ASSUME legacy # NoRow PROVE legacy \in Checkpoints /\ PollFits(legacy, 1, <<>>, {})
  <2>1. items = 1 /\ config.strategy = "item_key" /\ legacy = [NoCheckpoint EXCEPT !.seen = <<<<1>>>>, !.based = TRUE]
    BY <1>5 DEF PollInit
  <2>2. legacy.seen = <<<<1>>>> /\ legacy.cursor = 0 /\ legacy.mark = 0 BY <2>1 DEF NoCheckpoint
  <2>3. <<<<1>>>> \in Seq(Seq(Nat)) OBVIOUS
  <2>4. legacy \in Checkpoints BY <2>1, <2>3 DEF NoCheckpoint, Checkpoints
  <2>5. KeyOf(1) = <<1>> /\ 1 \in Known(<<>>, {}) BY <2>1 DEF KeyOf, Known
  <2>6. DOMAIN legacy.seen = {1} /\ legacy.seen[1] = <<1>> /\ Len(legacy.seen) = 1 /\ 1 .. 1 = {1} BY <2>2
  <2>7. ToSet(<<>>) = {} BY DEF ToSet
  <2>8. PageSize \in Nat /\ PageSize >= 1 BY PollAssumption
  <2>9. FitsSeen(legacy, 1, <<>>, {}) BY <2>5, <2>6 DEF FitsSeen
  <2>10. FitsWindow(legacy, 1)
    <3>1. 1 - 1 <= PageSize - 1 + 1 - 1 BY <2>8
    <3> QED BY <2>5, <2>6, <3>1 DEF FitsWindow
  <2>11. FitsCursor(legacy, 1, <<>>) /\ FitsPage(1, <<>>, {}) /\ FitsMark(legacy, 1)
    BY <2>1, <2>2, <2>5, <2>6 DEF FitsCursor, FitsPage, FitsMark
  <2>12. 1 \in 0 .. items BY <2>1
  <2> QED BY <2>4, <2>7, <2>9, <2>10, <2>11, <2>12 DEF PollFits
<1>6. PollStore
  <2>1. 1 \in Nat OBVIOUS
  <2> QED BY <1>1, <1>2, <1>3, <1>4, <1>5, <2>1 DEF PollStore
<1>7. PollRun BY <1>3 DEF PollRun
<1> QED BY <1>6, <1>7 DEF PollInv

LEMMA LoadOK ==
    ASSUME PollInv, LoadCheckpoint
    PROVE  PollInv'
<1>1. PollStore /\ items \in Nat /\ items <= MaxItems BY DEF PollInv, PollStore
<1>2. UNCHANGED <<config, items, emitted, shown, hidden>> /\ poller' = "polling" BY DEF LoadCheckpoint
<1>3. items' \in Nat /\ items <= items' /\ items' <= MaxItems BY <1>1, <1>2
<1>4. \A c, n, em, hid : PollFits(c, n, em, hid) => PollFits(c, n, em, hid)' BY <1>1, <1>2, <1>3, FitsFrame
<1>5. CASE pollRow # NoRow /\ cp' = pollRow /\ UNCHANGED <<pollRow, legacy>>
  <2>1. PollStore' BY <1>1, <1>2, <1>3, <1>5, StoreKeeps
  <2>2. pollRow \in Checkpoints /\ \E n \in Nat : PollFits(pollRow, n, emitted, hidden) BY <1>1, <1>5 DEF PollStore
  <2>3. \E n \in Nat : PollFits(cp, n, emitted, hidden)' BY <1>2, <1>4, <1>5, <2>2
  <2>4. PollRun' BY <1>2, <1>5, <2>2, <2>3 DEF PollRun
  <2> QED BY <2>1, <2>4 DEF PollInv
<1>6. CASE pollRow = NoRow /\ legacy = NoRow /\ cp' = NoCheckpoint /\ UNCHANGED <<pollRow, legacy>>
  <2>1. PollStore' BY <1>1, <1>2, <1>3, <1>6, StoreKeeps
  <2>2. emitted = <<>> /\ hidden = {} BY <1>1, <1>6 DEF PollStore
  <2>3. PollFits(NoCheckpoint, 0, <<>>, {}) BY <1>1, NothingFits
  <2>4. PollFits(cp, 0, emitted, hidden)' BY <1>2, <1>4, <1>6, <2>2, <2>3
  <2>5. NoCheckpoint.based = FALSE BY DEF NoCheckpoint
  <2>6. PollRun' BY <1>2, <1>6, <2>4, <2>5, NoRowIsNone DEF PollRun
  <2> QED BY <2>1, <2>6 DEF PollInv
<1>7. CASE pollRow = NoRow /\ legacy # NoRow /\ cp' = legacy /\ pollRow' = legacy
  <2>1. emitted = <<>> /\ hidden = {} BY <1>1, <1>7 DEF PollStore
  <2>2. legacy \in Checkpoints /\ \E n \in Nat : PollFits(legacy, n, <<>>, {}) BY <1>1, <1>7 DEF PollStore
  <2>3. PICK n \in Nat : PollFits(legacy, n, <<>>, {}) BY <2>2
  <2>4. PollFits(cp, n, emitted, hidden)' /\ PollFits(pollRow, n, emitted, hidden)' BY <1>2, <1>4, <1>7, <2>1, <2>3
  <2>5. PollRun' BY <1>2, <1>7, <2>2, <2>4 DEF PollRun
  <2>6. ConfigOK' BY <1>1, <1>2 DEF PollStore, ConfigOK, ByKeys, ByNewest
  <2>7. Known(emitted, hidden)' = Known(emitted, hidden) BY <1>2 DEF Known
  <2>8. Once(emitted)' BY <1>1, <1>2 DEF PollStore, Once
  <2>9. PollStore' BY <1>1, <1>2, <1>3, <1>7, <2>2, <2>4, <2>6, <2>7, <2>8 DEF PollStore
  <2> QED BY <2>5, <2>9 DEF PollInv
<1> QED BY <1>5, <1>6, <1>7 DEF LoadCheckpoint

\* A step of the runner that touches neither the store nor what its checkpoint fits.
LEMMA SameFit ==
    ASSUME PollInv, poller = "polling", poller' = "polling", cp' \in Checkpoints, cp'.cursor = cp.cursor, cp'.mark = cp.mark,
           cp'.tie = cp.tie, cp'.seen = cp.seen, cp'.based = cp.based,
           UNCHANGED <<config, items, pollRow, legacy, emitted, shown, hidden>>
    PROVE  PollInv'
<1>1. PollStore /\ items \in Nat /\ items <= MaxItems /\ PollRun BY DEF PollInv, PollStore
<1>2. items' \in Nat /\ items <= items' /\ items' <= MaxItems BY <1>1
<1>3. PollStore' BY <1>1, <1>2, StoreKeeps
<1>4. cp.based = pollRow.based /\ \E n \in Nat : PollFits(cp, n, emitted, hidden) BY <1>1 DEF PollRun
<1>5. PICK n \in Nat : PollFits(cp, n, emitted, hidden) BY <1>4
<1>6. PollFits(cp', n, emitted, hidden) BY <1>5, FitsSame
<1>7. \A c, m, em, hid : PollFits(c, m, em, hid) => PollFits(c, m, em, hid)' BY <1>1, <1>2, FitsFrame
<1>8. PollFits(cp, n, emitted, hidden)' BY <1>6, <1>7
<1>9. PollRun' BY <1>4, <1>8 DEF PollRun
<1> QED BY <1>3, <1>9 DEF PollInv

LEMMA NotModifiedOK ==
    ASSUME PollInv, NotModified
    PROVE  PollInv'
<1>1. PollStore /\ items \in Nat /\ items <= MaxItems /\ PollRun /\ emitted \in Seq(Nat) BY DEF PollInv, PollStore
<1>2. /\ UNCHANGED <<config, items, pollRow, legacy, emitted, shown, hidden>> /\ poller' = "writing" /\ poller = "polling"
      /\ cp' = [Invalidated(cp) EXCEPT !.n304 = IF @ > Max304 THEN @ ELSE @ + 1] /\ round' = [NoRound EXCEPT !.writes = TRUE]
  BY DEF NotModified
<1>3. items' \in Nat /\ items <= items' /\ items' <= MaxItems BY <1>1, <1>2
<1>4. PollStore' BY <1>1, <1>2, <1>3, StoreKeeps
<1>5. cp \in Checkpoints /\ \E n \in Nat : PollFits(cp, n, emitted, hidden) BY <1>1, <1>2 DEF PollRun
<1>6. PICK n \in Nat : PollFits(cp, n, emitted, hidden) BY <1>5
<1> DEFINE d == Invalidated(cp)
<1>7. d \in Checkpoints /\ d.cursor = cp.cursor /\ d.mark = cp.mark /\ d.tie = cp.tie /\ d.seen = cp.seen BY <1>5, InvalidatedIs
<1>8. cp' = [d EXCEPT !.n304 = IF d.n304 > Max304 THEN d.n304 ELSE d.n304 + 1] BY <1>2
<1> HIDE DEF d
<1>9. cp' \in Checkpoints
  <2>1. d.n304 \in Nat BY <1>7 DEF Checkpoints
  <2>2. (IF d.n304 > Max304 THEN d.n304 ELSE d.n304 + 1) \in Nat BY <2>1 DEF Max304
  <2> QED BY <1>7, <1>8, <2>2 DEF Checkpoints
<1>10. cp'.cursor = cp.cursor /\ cp'.mark = cp.mark /\ cp'.tie = cp.tie /\ cp'.seen = cp.seen BY <1>7, <1>8 DEF Checkpoints
<1>11. PollFits(cp', n, emitted, hidden) BY <1>6, <1>10, FitsSame
<1>12. \A c, m, em, hid : PollFits(c, m, em, hid) => PollFits(c, m, em, hid)' BY <1>1, <1>2, <1>3, FitsFrame
<1>13. round'.news = <<>> /\ round'.page = <<>> /\ round'.writes = TRUE BY <1>2 DEF NoRound
<1>14. ToSet(<<>>) = {} BY DEF ToSet
<1>15. HidesNow' = {} BY <1>13, <1>14 DEF HidesNow
<1>16. emitted' \o round'.news = emitted' /\ hidden' \cup HidesNow' = hidden' BY <1>1, <1>2, <1>13, <1>15
<1>17. PollFits(cp, n, emitted \o round.news, hidden \cup HidesNow)' BY <1>2, <1>11, <1>12, <1>16
<1>18. round'.news \in Seq(Nat) /\ Once(round.news)' BY <1>13 DEF Once
<1>19. RoundFits' BY <1>13, <1>14, <1>17, <1>18 DEF RoundFits
<1>20. PollRun' BY <1>2, <1>9, <1>19 DEF PollRun
<1> QED BY <1>4, <1>20 DEF PollInv

LEMMA FetchedOK ==
    ASSUME PollInv, Fetched
    PROVE  PollInv'
<1>1. PollStore /\ items \in Nat /\ items <= MaxItems /\ PollRun /\ emitted \in Seq(Nat) /\ ConfigOK BY DEF PollInv, PollStore
<1> DEFINE i == Invalidated(cp)
           C(tag) == [i EXCEPT !.n304 = 0, !.etag = tag, !.old = FALSE]
           page == PollPage(RequestCursor(cp))
<1>0. PICK tag \in {0, items} :
        LET rp == ProcessResponse(C(tag), page)
        IN cp' = rp.c /\ round' = [news |-> rp.news, page |-> rp.page, writes |-> tag # 0 \/ rp.news # <<>> \/ rp.c # i]
  BY DEF Fetched
<1> DEFINE c == C(tag)
           res == ProcessResponse(c, page)
<1>2. /\ UNCHANGED <<config, items, pollRow, legacy, emitted, shown, hidden>> /\ poller' = "writing" /\ poller = "polling"
      /\ cp' = res.c /\ round' = [news |-> res.news, page |-> res.page, writes |-> tag # 0 \/ res.news # <<>> \/ res.c # i]
  BY <1>0 DEF Fetched
<1>3. items' \in Nat /\ items <= items' /\ items' <= MaxItems BY <1>1, <1>2
<1>4. PollStore' BY <1>1, <1>2, <1>3, StoreKeeps
<1>5. cp \in Checkpoints /\ cp.based = pollRow.based /\ \E n \in Nat : PollFits(cp, n, emitted, hidden) BY <1>1, <1>2 DEF PollRun
<1>6. PICK n \in Nat : PollFits(cp, n, emitted, hidden) BY <1>5
<1>7. /\ i \in Checkpoints /\ i.cursor = cp.cursor /\ i.mark = cp.mark /\ i.tie = cp.tie /\ i.seen = cp.seen /\ i.based = cp.based
  BY <1>5, InvalidatedIs
<1> HIDE DEF i
<1>8. c \in Checkpoints
  <2>1. tag \in Nat BY <1>1
  <2> QED BY <1>7, <2>1 DEF Checkpoints
<1>9. c.cursor = cp.cursor /\ c.mark = cp.mark /\ c.tie = cp.tie /\ c.seen = cp.seen /\ c.based = cp.based BY <1>7 DEF Checkpoints
<1> HIDE DEF c
<1>10. PollFits(c, n, emitted, hidden) BY <1>6, <1>9, FitsSame
<1>11. PageFits(page, n, emitted) BY <1>1, <1>5, <1>6, PageFor
<1> HIDE DEF page
<1>12. Asked(c, n, emitted, hidden, page) BY <1>1, <1>8, <1>10, <1>11 DEF Asked
<1>13. Leads(res, c, emitted, hidden, page) BY <1>12, ResponseLeads
<1> HIDE DEF res
<1>14. round'.news = res.news /\ round'.page = page /\ (~round'.writes => res.news = <<>> /\ res.c = i) BY <1>2, <1>13 DEF Leads
<1> DEFINE H == IF Unlimited(c) THEN {} ELSE ToSet(page) \ ToSet(res.news)
<1>15. HidesNow' = H
  <2>1. Unlimited(c) <=> ~(config.limit # -1 /\ (pollRow = NoRow \/ ~pollRow.based))
    <3>1. c.based \in BOOLEAN /\ c.based = pollRow.based BY <1>5, <1>8, <1>9 DEF Checkpoints
    <3> QED BY <3>1, NoRowIsNone DEF Unlimited
  <2> QED BY <1>2, <1>14, <2>1 DEF HidesNow
<1> HIDE DEF H
<1>16. /\ res.c \in Checkpoints /\ res.news \in Seq(Nat) /\ Once(res.news) /\ ToSet(res.news) \cap ToSet(emitted) = {}
       /\ ToSet(page) \subseteq Known(emitted \o res.news, hidden \cup H)
       /\ PollFits(res.c, items, emitted \o res.news, hidden \cup H)
  BY <1>13 DEF Leads, H
<1>17. \A x, m, em, hid : PollFits(x, m, em, hid) => PollFits(x, m, em, hid)' BY <1>1, <1>2, <1>3, FitsFrame
<1>18. PollFits(res.c, items, emitted \o res.news, hidden \cup H)
  BY <1>16
<1>19. PICK m \in Nat : m = items BY <1>1
<1>20. PollFits(cp, m, emitted \o round.news, hidden \cup HidesNow)' BY <1>2, <1>14, <1>15, <1>17, <1>18, <1>19
<1>21. Once(round.news)' BY <1>14, <1>16 DEF Once
<1>22. Known(emitted \o round.news, hidden \cup HidesNow)' = Known(emitted \o res.news, hidden \cup H)
  BY <1>2, <1>14, <1>15 DEF Known
<1>25. ~round'.writes => round'.news = <<>> /\ HidesNow' = {} /\ cp'.based = pollRow'.based
  <2>1. SUFFICES ASSUME ~round'.writes PROVE HidesNow' = {} /\ i.based = pollRow.based BY <1>2, <1>14
  <2>2. i.based = pollRow.based BY <1>5, <1>7
  <2>3. c.based = i.based /\ i.based \in BOOLEAN BY <1>7, <1>9 DEF Checkpoints
  <2>4. i.based = (c.based \/ config.limit # -1) BY <1>13, <1>14, <2>1 DEF Leads
  <2>5. Unlimited(c) BY <2>3, <2>4 DEF Unlimited
  <2> QED BY <1>15, <2>2, <2>5 DEF H
<1>23. RoundFits' BY <1>2, <1>14, <1>16, <1>20, <1>21, <1>22, <1>25 DEF RoundFits
<1>24. PollRun' BY <1>2, <1>16, <1>23 DEF PollRun
<1> QED BY <1>4, <1>24 DEF PollInv

LEMMA StoreRoundOK ==
    ASSUME PollInv, StoreRound
    PROVE  PollInv'
<1>1. PollStore /\ items \in Nat /\ items <= MaxItems /\ PollRun /\ emitted \in Seq(Nat) /\ ConfigOK BY DEF PollInv, PollStore
<1>2. /\ UNCHANGED <<config, items, cp, legacy>> /\ poller' = "polling" /\ poller = "writing" /\ pollRow' = (IF round.writes THEN cp ELSE pollRow)
      /\ emitted' = emitted \o round.news /\ shown' = shown \cup ToSet(round.page) /\ hidden' = hidden \cup HidesNow
  BY DEF StoreRound, HidesNow
<1>3. items' \in Nat /\ items <= items' /\ items' <= MaxItems BY <1>1, <1>2
<1>4. cp \in Checkpoints /\ RoundFits BY <1>1, <1>2 DEF PollRun
<1>5. PICK n \in Nat : PollFits(cp, n, emitted \o round.news, hidden \cup HidesNow) BY <1>4 DEF RoundFits
<1>6. \A c, m, em, hid : PollFits(c, m, em, hid) => PollFits(c, m, em, hid)' BY <1>1, <1>2, <1>3, FitsFrame
<1>7. PollFits(cp, n, emitted, hidden)' BY <1>2, <1>5, <1>6
<1>8. ToSet(emitted') = ToSet(emitted) \cup ToSet(round.news) /\ emitted' \in Seq(Nat)
  BY <1>1, <1>2, <1>4, ConcatFacts DEF RoundFits
<1>9. Once(emitted \o round.news) BY <1>1, <1>4, OnceConcat DEF RoundFits, PollStore
<1>10. Once(emitted)' BY <1>2, <1>9 DEF Once
<1>11. Known(emitted, hidden)' = Known(emitted \o round.news, hidden \cup HidesNow) BY <1>2 DEF Known
<1>12. Known(emitted, hidden) \subseteq Known(emitted, hidden)' BY <1>2, <1>8 DEF Known
<1>13. shown' \subseteq Known(emitted, hidden)' BY <1>1, <1>2, <1>4, <1>11, <1>12 DEF PollStore, RoundFits
<1>14. cp.based = pollRow'.based BY <1>2, <1>4 DEF RoundFits
<1>18. /\ pollRow' # NoRow => pollRow' \in Checkpoints /\ \E m \in Nat : PollFits(pollRow, m, emitted, hidden)'
       /\ pollRow' = NoRow => emitted' = <<>> /\ hidden' = {}
       /\ pollRow' = NoRow /\ legacy' # NoRow => legacy' \in Checkpoints /\ \E m \in Nat : PollFits(legacy, m, <<>>, {})'
  <2>1. CASE round.writes
    <3>1. pollRow' = cp BY <1>2, <2>1
    <3>2. pollRow' # NoRow BY <1>4, <3>1, NoRowIsNone
    <3>3. PollFits(pollRow, n, emitted, hidden)' BY <1>2, <1>7, <3>1
    <3> QED BY <1>4, <3>1, <3>2, <3>3
  <2>2. CASE ~round.writes
    <3>1. pollRow' = pollRow BY <1>2, <2>2
    <3>2. round.news = <<>> /\ HidesNow = {} BY <1>4, <2>2 DEF RoundFits
    <3>3. emitted' = emitted /\ hidden' = hidden BY <1>1, <1>2, <3>2
    <3> QED BY <1>1, <1>2, <1>6, <3>1, <3>3 DEF PollStore
  <2> QED BY <2>1, <2>2
<1>15. ConfigOK' BY <1>1, <1>2 DEF ConfigOK, ByKeys, ByNewest
<1>16. PollStore' BY <1>3, <1>8, <1>10, <1>13, <1>15, <1>18 DEF PollStore
<1>17. PollRun' BY <1>2, <1>4, <1>7, <1>14 DEF PollRun
<1> QED BY <1>16, <1>17 DEF PollInv

LEMMA PollNextOK ==
    ASSUME PollInv, [PollNext]_pollVars
    PROVE  PollInv'
<1>1. PollStore /\ items \in Nat /\ items <= MaxItems /\ PollRun BY DEF PollInv, PollStore
<1>2. ASSUME UNCHANGED <<config, items, pollRow, legacy, emitted, shown, hidden>>, poller' \in {"failed", "starting"} PROVE PollInv'
  <2>1. items' \in Nat /\ items <= items' /\ items' <= MaxItems BY <1>1, <1>2
  <2>2. PollStore' BY <1>1, <1>2, <2>1, StoreKeeps
  <2>3. PollRun' BY <1>2 DEF PollRun
  <2> QED BY <2>2, <2>3 DEF PollInv
<1>3. CASE Publish
  <2>1. items' \in Nat /\ items <= items' /\ items' <= MaxItems BY <1>1, <1>3, PollAssumption DEF Publish
  <2>2. PollStore' BY <1>1, <1>3, <2>1, StoreKeeps DEF Publish
  <2>3. PollRun' BY <1>1, <1>3, <2>1, RunKeeps DEF Publish
  <2> QED BY <2>2, <2>3 DEF PollInv
<1>4. CASE LoadCheckpoint BY <1>4, LoadOK
<1>5. CASE NotModified BY <1>5, NotModifiedOK
<1>6. CASE Fetched BY <1>6, FetchedOK
<1>7. CASE ProcessFails BY <1>2, <1>7 DEF ProcessFails
<1>8. CASE StoreRound BY <1>8, StoreRoundOK
<1>9. CASE RoundStoreFails BY <1>2, <1>9 DEF RoundStoreFails
<1>10. CASE FetchFails
  <2>0. CASE poller' = "failed" BY <1>2, <1>10, <2>0 DEF FetchFails
  <2>1. cp \in Checkpoints /\ cp' = Invalidated(cp) /\ poller = "polling" BY <1>1, <1>10 DEF FetchFails, PollRun
  <2>2. cp' \in Checkpoints /\ cp'.cursor = cp.cursor /\ cp'.mark = cp.mark /\ cp'.tie = cp.tie /\ cp'.seen = cp.seen
        /\ cp'.based = cp.based
    BY <2>1, InvalidatedIs
  <2>3. CASE poller' = "polling" BY <1>10, <2>1, <2>2, <2>3, SameFit DEF FetchFails
  <2> QED BY <1>10, <2>0, <2>3 DEF FetchFails
<1>11. CASE EtagAges
  <2>1. cp \in Checkpoints /\ cp' = [cp EXCEPT !.old = TRUE] /\ poller = "polling" BY <1>1, <1>11 DEF EtagAges, PollRun
  <2>2. cp' \in Checkpoints BY <2>1 DEF Checkpoints
  <2>3. cp'.cursor = cp.cursor /\ cp'.mark = cp.mark /\ cp'.tie = cp.tie /\ cp'.seen = cp.seen /\ cp'.based = cp.based
    BY <2>1 DEF Checkpoints
  <2> QED BY <1>11, <2>1, <2>2, <2>3, SameFit DEF EtagAges
<1>13. CASE PollRestart BY <1>2, <1>13 DEF PollRestart
<1>14. CASE UNCHANGED pollVars
  <2>1. items' \in Nat /\ items <= items' /\ items' <= MaxItems BY <1>1, <1>14 DEF pollVars
  <2>2. PollStore' BY <1>1, <1>14, <2>1, StoreKeeps DEF pollVars
  <2>3. PollRun' BY <1>1, <1>14, <2>1, RunKeeps DEF pollVars
  <2> QED BY <2>2, <2>3 DEF PollInv
<1> QED BY <1>3, <1>4, <1>5, <1>6, <1>7, <1>8, <1>9, <1>10, <1>11, <1>13, <1>14 DEF PollNext

\* A configuration stays.
LEMMA ConfigStays == [PollNext]_pollVars => config' = config
BY DEF PollNext, Publish, LoadCheckpoint, NotModified, Fetched, ProcessFails, StoreRound, RoundStoreFails, FetchFails,
       EtagAges, PollRestart, pollVars

\* Each item of a page once, and none passed over.
LEMMA PollTrue == (Roomy(config) => PollInv) => PollIsTrue
<1> SUFFICES ASSUME PollInv PROVE EmittedOnce /\ NoItemSkipped BY DEF PollIsTrue
<1>1. EmittedOnce BY DEF PollInv, PollStore, Once, EmittedOnce
<1>2. NoItemSkipped BY DEF PollInv, PollStore, Known, NoItemSkipped
<1> QED BY <1>1, <1>2

-----------------------------------------------------------------------------
(* The parts stand beside each other. *)

\* A step of the composition is a step of each part, or leaves it alone.
LEMMA PartsStep ==
    ASSUME [SourcesNext]_sourceVars
    PROVE  [PollNext]_pollVars /\ [SockNext]_sockVars /\ [Next]_vars /\ [ImapNext]_imapVars
BY DEF SourcesNext, sourceVars

\* The invariants of the parts hold together, that of the poll loop for a
\* configuration with room.
RoomyInv == Roomy(config) => PollInv
LEMMA SourcesInvariant == SourcesSpec => [](SockInv /\ RunnerInv /\ ImapInv /\ RoomyInv)
<1> DEFINE I == SockInv /\ RunnerInv /\ ImapInv /\ RoomyInv
<1>1. SourcesInit => I BY SockInitOK, RunnerInitOK, ImapInitOK, PollInitOK DEF SourcesInit, RoomyInv
<1>2. I /\ [SourcesNext]_sourceVars => I'
  <2>1. RoomyInv /\ [PollNext]_pollVars => RoomyInv'
    <3>1. [PollNext]_pollVars => (Roomy(config)' => Roomy(config)) BY ConfigStays DEF Roomy
    <3> QED BY <3>1, PollNextOK DEF RoomyInv
  <2> QED BY <2>1, PartsStep, SockNextOK, RunnerNextOK, ImapNextOK
<1> HIDE DEF I
<1>3. SourcesSpec => []I BY <1>1, <1>2, PTL DEF SourcesSpec
<1> QED BY <1>3 DEF I

\* Whatever fails, restarts or reconnects: each item of a stored page is in the
\* stream once or was hidden by the first look, if the poll loop's
\* configuration leaves room for it (Roomy, which the code does not ask for);
\* a gateway session has no gap, and what was acknowledged has been handed
\* over; no message of a mailbox is skipped; and what a hosted subscription
\* sent reaches the stream in order.
THEOREM SourcesTrue == SourcesSpec => []SourcesAreTrue
<1>1. SockInv => SocketsAreTrue BY DEF SockInv, SocketsAreTrue
<1>2. ImapInv => MailIsTrue BY DEF ImapInv, MailIsTrue
<1>3. SockInv /\ RunnerInv /\ ImapInv /\ RoomyInv => SourcesAreTrue
  BY <1>1, <1>2, RunnerTrue, PollTrue DEF SourcesAreTrue, RoomyInv
<1> QED BY <1>3, SourcesInvariant, PTL
=============================================================================
