----------------------------- MODULE CallsProofs -----------------------------
(***************************************************************************)
(* Theorems about the parts of a call and their composition in MCCalls.    *)
(*                                                                         *)
(* McpHttp, for every set of callers and any number of streams, expiries,  *)
(* catalogs and failures: one reader of an event stream, one run of a tool *)
(* for a call, the newest refresh token in somebody's hands and an id for  *)
(* each request.                                                           *)
(*                                                                         *)
(* McpStdio, for any number of requests and notifications and every buffer *)
(* of notifications: the table of pending requests does not leak, a call   *)
(* gets its own response, the child has one listen request, and the buffer *)
(* holds the newest notifications without a hole.                          *)
(*                                                                         *)
(* DaemonRequests, for every finite set of connections, any frames they    *)
(* carry and every setting of the email body limits.                       *)
(*                                                                         *)
(* The composition, from the inductive invariants of its three parts: a    *)
(* part that stands still keeps its invariant, so the three hold together. *)
(***************************************************************************)
EXTENDS MCCalls, SequenceTheorems, FiniteSetTheorems, TLAPS

-----------------------------------------------------------------------------
(* The HTTP transport: the inductive invariant. *)

Places == {"idle", "connect", "lock", "maybe", "bootstrap", "rebootstrap", "refresh", "store",
           "forced", "post", "repost", "wait", "done"}
Backs == {"post", "repost", "bootstrap", "rebootstrap"}
CallOps == {"call", "list"}
HttpCaller == [at : Places, op : CallOps, id : Nat, stream : Nat, token : Nat,
               headers : Nat, rebuilt : BOOLEAN, back : Backs, end : Outcome, ran : Nat]
HttpWire == [kind : Transports, nextId : Nat \ {0}, sid : Nat, catalog : Nat, token : Nat,
             refreshable : BOOLEAN, due : BOOLEAN,
             refreshLock : HttpCallers \cup {NoCaller},
             connectLock : HttpCallers \cup {NoCaller}, session : Nat]
HttpRemote == [refresh : Nat, accepts : SUBSET Nat, catalog : Nat, sid : Nat, turns : Nat,
               lost : BOOLEAN]
Readers == {"runs", "ends", "finished"}
Stream == [reader : Readers, stray : BOOLEAN, pending : SUBSET Nat, answers : SUBSET Nat]

HttpTypeOK ==
    /\ wire \in HttpWire
    /\ caller \in [HttpCallers -> HttpCaller]
    /\ remote \in HttpRemote
    /\ streams \in Seq(Stream)

\* A caller on its way to a stream, or refreshing a token on that way, has the
\* connect lock.
Opening(place, back) ==
    \/ place \in {"bootstrap", "rebootstrap"}
    \/ place \in {"maybe", "refresh", "store", "forced"} /\ back \in {"bootstrap", "rebootstrap"}
OpenersLock ==
    \A c \in HttpCallers :
      /\ Opening(caller[c].at, caller[c].back) => wire.connectLock = c
      /\ caller[c].at \in {"idle", "connect", "lock"} => caller[c].back = "post"

\* While the lock is held the transport has no session, and a stream that is
\* read, and not by a stray reader, is the session's.
Serves(t) == t.reader = "runs" /\ ~t.stray
SessionIsRead ==
    /\ wire.connectLock # NoCaller => wire.session = 0
    /\ \A s \in DOMAIN streams : Serves(streams[s]) => s = wire.session

\* The server acts on a call when it is posted for the last time.
RunAtEnd ==
    \A c \in HttpCallers :
      caller[c].ran \in {0, 1} /\ (caller[c].ran = 1 => caller[c].at \in {"wait", "done"})

\* Between an exchange and its store one caller has the newest token, and no
\* other can exchange the one in memory; otherwise the memory has it, unless it
\* was lost on the way.
Storing(c) == caller[c].at \in {"store", "forced"}
NewestInHand ==
    /\ \A c \in HttpCallers :
         Storing(c) => caller[c].token = remote.refresh /\ wire.token < remote.refresh
    /\ \A c, d \in HttpCallers : Storing(c) /\ Storing(d) => c = d
    /\ remote.lost \/ wire.token = remote.refresh \/ \E c \in HttpCallers : Storing(c)

\* An id is used once.
IdsAreOwn ==
    /\ \A c \in HttpCallers : caller[c].id < wire.nextId
    /\ \A c, d \in HttpCallers : c # d /\ caller[c].id # 0 => caller[c].id # caller[d].id
    /\ \A c \in HttpCallers : caller[c].at = "wait" => caller[c].id # 0

HttpInv == /\ HttpTypeOK /\ OpenersLock /\ SessionIsRead /\ RunAtEnd /\ NewestInHand
           /\ IdsAreOwn
-----------------------------------------------------------------------------
(* What each action does, as far as the invariant goes. *)

\* The places callers go to, the operations and outcomes of their calls.
LEMMA PlaceNames ==
    /\ "idle" \in Places /\ "connect" \in Places /\ "lock" \in Places /\ "maybe" \in Places
    /\ "bootstrap" \in Places /\ "rebootstrap" \in Places /\ "refresh" \in Places
    /\ "store" \in Places /\ "forced" \in Places /\ "post" \in Places /\ "repost" \in Places
    /\ "wait" \in Places /\ "done" \in Places
    /\ "bootstrap" \in Backs /\ "rebootstrap" \in Backs /\ "post" \in Backs
    /\ "repost" \in Backs /\ Backs \subseteq Places
    /\ "call" \in CallOps /\ "list" \in CallOps
    /\ "none" \in Outcome /\ "result" \in Outcome /\ "error" \in Outcome
    /\ "runs" \in Readers /\ "ends" \in Readers /\ "finished" \in Readers
BY DEF Places, Backs, CallOps, Outcome, Readers

\* A fresh transport satisfies the invariant.
LEMMA HttpInitEstablishes == McpHttpInit => HttpInv
<1> SUFFICES ASSUME McpHttpInit PROVE HttpInv
  OBVIOUS
<1>1. wire \in HttpWire
  BY DEF McpHttpInit, HttpWire
<1>2. caller \in [HttpCallers -> HttpCaller]
  <2>1. NewCaller \in HttpCaller
    BY PlaceNames DEF NewCaller, HttpCaller
  <2> QED
    BY <2>1 DEF McpHttpInit
<1>3. remote \in HttpRemote
  BY DEF McpHttpInit, HttpRemote
<1>4. streams \in Seq(Stream)
  BY DEF McpHttpInit
<1>5. OpenersLock /\ RunAtEnd /\ IdsAreOwn
  BY DEF McpHttpInit, NewCaller, OpenersLock, Opening, RunAtEnd, IdsAreOwn
<1>6. SessionIsRead /\ NewestInHand
  BY DEF McpHttpInit, NewCaller, SessionIsRead, NewestInHand, Storing
<1> QED
  BY <1>1, <1>2, <1>3, <1>4, <1>5, <1>6 DEF HttpInv, HttpTypeOK

\* Streams stay a sequence of streams when one of them changes.
LEMMA ChangedStream ==
    ASSUME streams \in Seq(Stream), NEW s, NEW r \in Stream
    PROVE  [streams EXCEPT ![s] = r] \in Seq(Stream)
<1>1. PICK n \in Nat : streams \in [1..n -> Stream]
  BY SeqDef
<1>2. [streams EXCEPT ![s] = r] \in [1..n -> Stream]
  BY <1>1
<1> QED
  BY <1>2, SeqDef

\* What is registered on a stream and what waits on it do not tell whether it
\* is read.
SameReaders ==
    /\ streams' \in Seq(Stream) /\ DOMAIN streams' = DOMAIN streams
    /\ \A s \in DOMAIN streams : /\ streams'[s].reader = streams[s].reader
                                  /\ streams'[s].stray = streams[s].stray
LEMMA EntriesChange ==
    ASSUME streams \in Seq(Stream), NEW s, NEW p \in SUBSET Nat, NEW a \in SUBSET Nat,
           streams' \in {streams,
                         [streams EXCEPT ![s].pending = p],
                         [streams EXCEPT ![s].answers = a],
                         [streams EXCEPT ![s].answers = a, ![s].pending = p]}
    PROVE  SameReaders
<1>1. PICK n \in Nat : streams \in [1..n -> Stream]
  BY SeqDef
<1>2. /\ streams' \in [1..n -> Stream]
      /\ \A t \in 1..n : streams'[t].reader = streams[t].reader /\ streams'[t].stray = streams[t].stray
  <2>1. CASE streams' = streams \/ s \notin 1..n
    <3>1. streams' = streams
      BY <1>1, <2>1
    <3> QED
      BY <1>1, <3>1
  <2>2. CASE streams' # streams /\ s \in 1..n
    <3>1. streams[s] \in Stream
      BY <1>1, <2>2
    <3>2. PICK q \in SUBSET Nat, b \in SUBSET Nat :
            streams' = [streams EXCEPT ![s] = [reader |-> streams[s].reader, stray |-> streams[s].stray,
                                               pending |-> q, answers |-> b]]
      <4>1. CASE streams' = [streams EXCEPT ![s].pending = p]
        <5>1. [streams[s] EXCEPT !.pending = p]
                = [reader |-> streams[s].reader, stray |-> streams[s].stray, pending |-> p, answers |-> streams[s].answers]
          BY <3>1 DEF Stream
        <5> QED
          BY <3>1, <4>1, <5>1 DEF Stream
      <4>2. CASE streams' = [streams EXCEPT ![s].answers = a]
        <5>1. [streams[s] EXCEPT !.answers = a]
                = [reader |-> streams[s].reader, stray |-> streams[s].stray, pending |-> streams[s].pending, answers |-> a]
          BY <3>1 DEF Stream
        <5> QED
          BY <3>1, <4>2, <5>1 DEF Stream
      <4>3. CASE streams' = [streams EXCEPT ![s].answers = a, ![s].pending = p]
        <5>1. streams' = [streams EXCEPT ![s] = [reader |-> streams[s].reader, stray |-> streams[s].stray,
                                                 pending |-> p, answers |-> a]]
          BY <1>1, <2>2, <3>1, <4>3 DEF Stream
        <5> QED
          BY <5>1
      <4> QED
        BY <2>2, <4>1, <4>2, <4>3
    <3>3. [reader |-> streams[s].reader, stray |-> streams[s].stray, pending |-> q, answers |-> b] \in Stream
      BY <3>1 DEF Stream
    <3> QED
      BY <1>1, <2>2, <3>2, <3>3
  <2> QED
    BY <2>1, <2>2
<1> QED
  BY <1>1, <1>2, SeqDef DEF SameReaders

\* What a step does to one caller, to the transport and to the server, as far
\* as the invariant goes.
Becomes(c, at2, back2, id2, token2, ran2) ==
    /\ caller' \in [HttpCallers -> HttpCaller]
    /\ \A d \in HttpCallers \ {c} : caller'[d] = caller[d]
    /\ caller'[c].at = at2 /\ caller'[c].back = back2 /\ caller'[c].id = id2
    /\ caller'[c].token = token2 /\ caller'[c].ran = ran2
GoesTo(c, at2, back2) == Becomes(c, at2, back2, caller[c].id, caller[c].token, caller[c].ran)
WireBecomes(token2, lock2, session2, id2) ==
    /\ wire' \in HttpWire
    /\ wire'.token = token2 /\ wire'.connectLock = lock2 /\ wire'.session = session2
    /\ wire'.nextId = id2
SameWire == WireBecomes(wire.token, wire.connectLock, wire.session, wire.nextId)
SameRemote == remote' \in HttpRemote /\ remote'.refresh = remote.refresh /\ remote'.lost = remote.lost
Freed(c) == IF wire.connectLock = c THEN NoCaller ELSE wire.connectLock

LEMMA UnchangedEffects ==
    ASSUME HttpTypeOK
    PROVE  /\ wire' = wire => SameWire
           /\ remote' = remote => SameRemote
           /\ remote' = Turned => SameRemote
           /\ streams' = streams => SameReaders
<1>1. wire' = wire => SameWire
  BY DEF HttpTypeOK, SameWire, WireBecomes
<1>2. remote' = remote => SameRemote
  BY DEF HttpTypeOK, SameRemote
<1>3. remote' = Turned => SameRemote
  BY DEF HttpTypeOK, SameRemote, Turned, HttpRemote
<1> QED
  BY <1>1, <1>2, <1>3 DEF HttpTypeOK, SameReaders

LEMMA GoesEffect ==
    ASSUME HttpTypeOK, NEW c \in HttpCallers, NEW p \in Places, Goes(c, p)
    PROVE  GoesTo(c, p, caller[c].back)
BY DEF HttpTypeOK, HttpCaller, Goes, GoesTo, Becomes

LEMMA EndsEffect ==
    ASSUME HttpTypeOK, NEW c \in HttpCallers, NEW e \in Outcome, Ends(c, e)
    PROVE  GoesTo(c, "done", caller[c].back)
BY PlaceNames DEF HttpTypeOK, HttpCaller, Ends, GoesTo, Becomes

LEMMA TurnsEffect ==
    ASSUME HttpTypeOK, NEW c \in HttpCallers, NEW p \in Places, NEW q \in Backs,
           caller' = [caller EXCEPT ![c].at = p, ![c].back = q]
    PROVE  GoesTo(c, p, q)
BY DEF HttpTypeOK, HttpCaller, GoesTo, Becomes

LEMMA CarriesEffect ==
    ASSUME HttpTypeOK, NEW c \in HttpCallers
    PROVE  /\ Carries(c) \in [HttpCallers -> HttpCaller]
           /\ \A d \in HttpCallers \ {c} : Carries(c)[d] = caller[d]
           /\ Carries(c)[c].at = caller[c].at /\ Carries(c)[c].back = caller[c].back
           /\ Carries(c)[c].id = caller[c].id /\ Carries(c)[c].token = caller[c].token
           /\ Carries(c)[c].ran \in {caller[c].ran, caller[c].ran + 1}
<1>1. PICK n \in {caller[c].ran, caller[c].ran + 1} : Carries(c) = [caller EXCEPT ![c].ran = n]
  BY DEF Carries
<1>2. n \in Nat /\ caller \in [HttpCallers -> HttpCaller] /\ caller[c] \in HttpCaller
  BY <1>1 DEF HttpTypeOK, HttpCaller
<1>3. Carries(c)[c] = [caller[c] EXCEPT !.ran = n]
  BY <1>1, <1>2
<1>4. \A d \in HttpCallers \ {c} : Carries(c)[d] = caller[d]
  BY <1>1, <1>2
<1>5. [caller[c] EXCEPT !.ran = n] \in HttpCaller
  BY <1>2 DEF HttpCaller
<1>6. Carries(c) \in [HttpCallers -> HttpCaller]
  BY <1>1, <1>2, <1>5
<1> QED
  BY <1>1, <1>2, <1>3, <1>4, <1>6 DEF HttpCaller

LEMMA UnlockedEffect ==
    ASSUME HttpTypeOK, NEW c \in HttpCallers, wire' = Unlocked(c)
    PROVE  WireBecomes(wire.token, Freed(c), wire.session, wire.nextId)
BY DEF HttpTypeOK, HttpWire, Unlocked, WireBecomes, Freed

LEMMA CarriedEffect ==
    ASSUME HttpTypeOK, NEW c \in HttpCallers, NEW p \in Places, NEW e \in Outcome,
           \/ caller' = [Carries(c) EXCEPT ![c].at = p, ![c].end = e]
           \/ caller' = [Carries(c) EXCEPT ![c].at = p]
    PROVE  \E n \in {caller[c].ran, caller[c].ran + 1} :
             Becomes(c, p, caller[c].back, caller[c].id, caller[c].token, n)
<1>1. /\ Carries(c) \in [HttpCallers -> HttpCaller]
      /\ \A d \in HttpCallers \ {c} : Carries(c)[d] = caller[d]
      /\ Carries(c)[c].back = caller[c].back
      /\ Carries(c)[c].id = caller[c].id /\ Carries(c)[c].token = caller[c].token
      /\ Carries(c)[c].ran \in {caller[c].ran, caller[c].ran + 1}
  BY CarriesEffect
<1> QED
  BY <1>1 DEF HttpCaller, Becomes

\* The way to a stream: ensure_connected and what it opens.
LEMMA ConnectEffects ==
    ASSUME HttpTypeOK, NEW c \in HttpCallers
    PROVE  /\ CallTool(c) => /\ caller[c].at = "idle"
                             /\ \E p \in {"connect", "maybe"} : GoesTo(c, p, caller[c].back)
                             /\ SameWire /\ SameRemote /\ SameReaders
           /\ Connected(c) =>
                /\ caller[c].at = "connect" /\ SameRemote /\ SameReaders
                /\ \/ GoesTo(c, "maybe", caller[c].back) /\ SameWire
                   \/ /\ ~Live(wire.session) /\ GoesTo(c, "lock", caller[c].back)
                      /\ WireBecomes(wire.token, wire.connectLock, 0, wire.nextId)
           /\ ConnectLocked(c) =>
                /\ caller[c].at = "lock" /\ wire.connectLock = NoCaller
                /\ SameRemote /\ SameReaders
                /\ \/ GoesTo(c, "maybe", caller[c].back) /\ SameWire
                   \/ /\ ~Live(wire.session) /\ GoesTo(c, "maybe", "bootstrap")
                      /\ WireBecomes(wire.token, c, 0, wire.nextId)
<1>1. ASSUME CallTool(c)
      PROVE  \E p \in {"connect", "maybe"} : GoesTo(c, p, caller[c].back)
  <2>1. ASSUME NEW p \in Places, NEW o \in CallOps, NEW h \in Nat,
               caller' = [caller EXCEPT ![c].at = p, ![c].op = o, ![c].headers = h]
        PROVE  GoesTo(c, p, caller[c].back)
    BY <2>1 DEF HttpTypeOK, HttpCaller, GoesTo, Becomes
  <2>2. wire.catalog \in Nat
    BY DEF HttpTypeOK, HttpWire
  <2> QED
    BY <1>1, <2>1, <2>2, PlaceNames DEF CallTool
<1>2. [wire EXCEPT !.session = 0] \in HttpWire /\ [wire EXCEPT !.session = 0, !.connectLock = c] \in HttpWire
  BY DEF HttpTypeOK, HttpWire
<1>3. ASSUME wire' = [wire EXCEPT !.session = 0]
      PROVE  WireBecomes(wire.token, wire.connectLock, 0, wire.nextId)
  BY <1>2, <1>3 DEF HttpTypeOK, HttpWire, WireBecomes
<1>4. ASSUME wire' = [wire EXCEPT !.session = 0, !.connectLock = c]
      PROVE  WireBecomes(wire.token, c, 0, wire.nextId)
  BY <1>2, <1>4 DEF HttpTypeOK, HttpWire, WireBecomes
<1>5. ASSUME caller' = [caller EXCEPT ![c].at = "maybe", ![c].back = "bootstrap"]
      PROVE  GoesTo(c, "maybe", "bootstrap")
  BY <1>5, TurnsEffect, PlaceNames
<1> QED
  BY <1>1, <1>3, <1>4, <1>5, GoesEffect, UnchangedEffects, PlaceNames
  DEF CallTool, Connected, ConnectLocked

OneMoreReader ==
    /\ streams' \in Seq(Stream) /\ Len(streams') = Len(streams) + 1 /\ Len(streams) \in Nat
    /\ \A s \in 1..Len(streams) : streams'[s] = streams[s]

LEMMA ReaderStarts ==
    ASSUME HttpTypeOK, NEW r \in Stream, streams' = Append(streams, r)
    PROVE  OneMoreReader /\ streams'[Len(streams) + 1] = r
<1>1. streams \in Seq(Stream)
  BY DEF HttpTypeOK
<1> QED
  BY <1>1, AppendProperties, LenProperties DEF OneMoreReader

LEMMA BootstrapEffects ==
    ASSUME HttpTypeOK, NEW c \in HttpCallers, Bootstrap(c) \/ Rebootstrap(c)
    PROVE  /\ caller[c].at \in {"bootstrap", "rebootstrap"} /\ SameRemote
           /\ \/ /\ GoesTo(c, "maybe", "post") /\ OneMoreReader
                 /\ WireBecomes(wire.token, NoCaller, Len(streams) + 1, wire.nextId)
              \/ GoesTo(c, "refresh", "rebootstrap") /\ SameWire /\ SameReaders
              \/ /\ GoesTo(c, "done", caller[c].back) /\ SameReaders
                 /\ WireBecomes(wire.token, NoCaller, wire.session, wire.nextId)
<1>1. ASSUME streams' = Append(streams, NewStream)
      PROVE  OneMoreReader
  <2>1. NewStream \in Stream
    BY PlaceNames DEF Stream, NewStream
  <2> QED
    BY <1>1, <2>1, ReaderStarts
<1>2. ASSUME caller' = [caller EXCEPT ![c].at = "maybe", ![c].back = "post"]
      PROVE  GoesTo(c, "maybe", "post")
  BY <1>2, TurnsEffect, PlaceNames
<1>3. ASSUME caller' = [caller EXCEPT ![c].at = "refresh", ![c].back = "rebootstrap"]
      PROVE  GoesTo(c, "refresh", "rebootstrap")
  BY <1>3, TurnsEffect, PlaceNames
<1>4. ASSUME wire' = [wire EXCEPT !.connectLock = NoCaller]
      PROVE  WireBecomes(wire.token, NoCaller, wire.session, wire.nextId)
  BY <1>4 DEF HttpTypeOK, HttpWire, WireBecomes
<1>5. ASSUME wire' = [wire EXCEPT !.session = Len(streams) + 1, !.connectLock = NoCaller]
      PROVE  WireBecomes(wire.token, NoCaller, Len(streams) + 1, wire.nextId)
  <2>1. Len(streams) + 1 \in Nat
    BY LenProperties DEF HttpTypeOK
  <2> QED
    BY <1>5, <2>1 DEF HttpTypeOK, HttpWire, WireBecomes
<1>6. ASSUME Ends(c, "error")
      PROVE  GoesTo(c, "done", caller[c].back)
  BY <1>6, EndsEffect, PlaceNames
<1>7. CASE Bootstrap(c)
  BY <1>1, <1>2, <1>3, <1>4, <1>5, <1>6, <1>7, UnchangedEffects DEF Bootstrap, Opens, OpensNot
<1>8. CASE Rebootstrap(c)
  BY <1>1, <1>2, <1>4, <1>5, <1>6, <1>8, UnchangedEffects DEF Rebootstrap, Opens, OpensNot
<1> QED
  BY <1>7, <1>8

\* Tokens: an exchange, and what is done with what it brought.
Exchanged(c, to) ==
    \/ /\ wire.token = remote.refresh /\ SameWire
       /\ remote' \in HttpRemote /\ remote'.refresh = remote.refresh + 1
       /\ remote'.lost = remote.lost
       /\ Becomes(c, to, caller[c].back, caller[c].id, remote.refresh + 1, caller[c].ran)
    \/ /\ SameRemote /\ GoesTo(c, "done", caller[c].back)
       /\ WireBecomes(wire.token, Freed(c), wire.session, wire.nextId)
    \/ /\ wire.token = remote.refresh /\ GoesTo(c, "done", caller[c].back)
       /\ remote' \in HttpRemote /\ remote'.refresh = remote.refresh + 1 /\ remote'.lost
       /\ WireBecomes(wire.token, Freed(c), wire.session, wire.nextId)

LEMMA ExchangeEffect ==
    ASSUME HttpTypeOK, NEW c \in HttpCallers, NEW to \in Places, Exchange(c, to)
    PROVE  Exchanged(c, to)
<1>0. remote.refresh \in Nat
  BY DEF HttpTypeOK, HttpRemote
<1>1. Rotated \in HttpRemote /\ Rotated.refresh = remote.refresh + 1 /\ Rotated.lost = remote.lost
  <2>1. remote.accepts \cup {remote.refresh + 1} \in SUBSET Nat /\ remote.refresh + 1 \in Nat
    BY <1>0 DEF HttpTypeOK, HttpRemote
  <2>2. Rotated = [remote EXCEPT !.refresh = remote.refresh + 1,
                                 !.accepts = remote.accepts \cup {remote.refresh + 1}]
    BY DEF Rotated, HttpTypeOK, HttpRemote
  <2>3. ASSUME NEW n \in Nat, NEW a \in SUBSET Nat, Rotated = [remote EXCEPT !.refresh = n, !.accepts = a]
        PROVE  Rotated \in HttpRemote /\ Rotated.refresh = n /\ Rotated.lost = remote.lost
    BY <2>3 DEF HttpTypeOK, HttpRemote
  <2> QED
    BY <2>1, <2>2, <2>3
<1>2. CASE /\ wire.token = remote.refresh /\ remote' = Rotated /\ wire' = wire
           /\ caller' = [caller EXCEPT ![c].at = to, ![c].token = wire.token + 1]
  <2>1. ASSUME NEW n \in Nat, caller' = [caller EXCEPT ![c].at = to, ![c].token = n]
        PROVE  Becomes(c, to, caller[c].back, caller[c].id, n, caller[c].ran)
    BY <2>1 DEF HttpTypeOK, HttpCaller, Becomes
  <2>2. remote.refresh + 1 \in Nat
    BY <1>0
  <2> QED
    BY <1>1, <1>2, <2>1, <2>2, UnchangedEffects DEF Exchanged
<1>3. CASE /\ wire.token = remote.refresh /\ remote' = [Rotated EXCEPT !.lost = TRUE]
           /\ wire' = Unlocked(c) /\ Ends(c, "error")
  <2>1. remote' \in HttpRemote /\ remote'.refresh = remote.refresh + 1 /\ remote'.lost
    BY <1>1, <1>3 DEF HttpRemote
  <2> QED
    BY <1>3, <2>1, UnlockedEffect, EndsEffect, PlaceNames DEF Exchanged
<1>4. CASE wire' = Unlocked(c) /\ Ends(c, "error") /\ remote' = remote
  BY <1>4, UnlockedEffect, EndsEffect, UnchangedEffects, PlaceNames DEF Exchanged
<1> QED
  BY <1>2, <1>3, <1>4 DEF Exchange

LEMMA RefreshEffects ==
    ASSUME HttpTypeOK, NEW c \in HttpCallers
    PROVE  /\ MaybeRefreshAuthToken(c) =>
                /\ caller[c].at = "maybe" /\ SameReaders
                /\ \/ Exchanged(c, "store")
                   \/ GoesTo(c, caller[c].back, caller[c].back) /\ SameWire /\ SameRemote
           /\ ForceRefreshAuthToken(c) =>
                /\ caller[c].at = "refresh" /\ SameReaders
                /\ \/ Exchanged(c, "forced")
                   \/ caller' = caller /\ SameWire /\ SameRemote
           /\ StoreToken(c) =>
                /\ Storing(c) /\ SameReaders /\ SameRemote
                /\ GoesTo(c, caller[c].back, caller[c].back)
                /\ WireBecomes(caller[c].token, wire.connectLock, wire.session, wire.nextId)
           /\ PersistFails(c) =>
                /\ Storing(c) /\ SameReaders
                /\ remote' \in HttpRemote /\ remote'.refresh = remote.refresh /\ remote'.lost
                /\ GoesTo(c, "done", caller[c].back)
                /\ WireBecomes(wire.token, Freed(c), wire.session, wire.nextId)
<1>0. caller[c].back \in Places /\ caller[c].token \in Nat
  BY PlaceNames DEF HttpTypeOK, HttpCaller
<1>1. ASSUME MaybeRefreshAuthToken(c)
      PROVE  /\ caller[c].at = "maybe" /\ SameReaders
             /\ \/ Exchanged(c, "store")
                \/ GoesTo(c, caller[c].back, caller[c].back) /\ SameWire /\ SameRemote
  BY <1>0, <1>1, ExchangeEffect, GoesEffect, UnchangedEffects, PlaceNames
  DEF MaybeRefreshAuthToken
<1>2. ASSUME ForceRefreshAuthToken(c)
      PROVE  /\ caller[c].at = "refresh" /\ SameReaders
             /\ \/ Exchanged(c, "forced")
                \/ caller' = caller /\ SameWire /\ SameRemote
  <2>1. ASSUME wire' = [wire EXCEPT !.refreshLock = c] PROVE SameWire
    BY <2>1 DEF HttpTypeOK, HttpWire, SameWire, WireBecomes
  <2> QED
    BY <1>2, <2>1, ExchangeEffect, UnchangedEffects, PlaceNames DEF ForceRefreshAuthToken
<1>3. ASSUME StoreToken(c)
      PROVE  /\ Storing(c) /\ SameReaders /\ SameRemote
             /\ GoesTo(c, caller[c].back, caller[c].back)
             /\ WireBecomes(caller[c].token, wire.connectLock, wire.session, wire.nextId)
  <2>1. WireBecomes(caller[c].token, wire.connectLock, wire.session, wire.nextId)
    <3>1. PICK l \in HttpCallers \cup {NoCaller} :
            wire' = [wire EXCEPT !.token = caller[c].token, !.due = FALSE, !.refreshLock = l]
      BY <1>3 DEF StoreToken, HttpTypeOK, HttpWire
    <3> QED
      BY <1>0, <3>1 DEF HttpTypeOK, HttpWire, WireBecomes
  <2> QED
    BY <1>0, <1>3, <2>1, GoesEffect, UnchangedEffects DEF StoreToken, Storing
<1>4. ASSUME PersistFails(c)
      PROVE  /\ Storing(c) /\ SameReaders
             /\ remote' \in HttpRemote /\ remote'.refresh = remote.refresh /\ remote'.lost
             /\ GoesTo(c, "done", caller[c].back)
             /\ WireBecomes(wire.token, Freed(c), wire.session, wire.nextId)
  <2>1. remote' \in HttpRemote /\ remote'.refresh = remote.refresh /\ remote'.lost
    <3>1. Turned \in HttpRemote /\ Turned.refresh = remote.refresh
      BY DEF Turned, HttpTypeOK, HttpRemote
    <3>2. remote' = [Turned EXCEPT !.lost = TRUE]
      BY <1>4 DEF PersistFails
    <3> QED
      BY <3>1, <3>2 DEF HttpRemote
  <2> QED
    BY <1>4, <2>1, UnlockedEffect, EndsEffect, UnchangedEffects, PlaceNames
    DEF PersistFails, Storing
<1> QED
  BY <1>1, <1>2, <1>3, <1>4

\* Requests: what is posted, refused, lost, answered and awaited.
Ran(c, p) == \E n \in {caller[c].ran, caller[c].ran + 1} :
               Becomes(c, p, caller[c].back, caller[c].id, caller[c].token, n)

LEMMA ForgetsEffect ==
    ASSUME HttpTypeOK, NEW c \in HttpCallers, streams' = Forgets(c)
    PROVE  SameReaders
<1>1. CASE wire.kind # "sse"
  BY <1>1, UnchangedEffects DEF Forgets
<1>2. CASE wire.kind = "sse"
  <2> DEFINE s == caller[c].stream
             p == IF s \in DOMAIN streams THEN streams[s].pending \ {caller[c].id} ELSE {}
  <2>1. p \in SUBSET Nat
    <3>1. s \in DOMAIN streams => streams[s] \in Stream
      BY ElementOfSeq, LenProperties DEF HttpTypeOK
    <3> QED
      BY <3>1 DEF Stream
  <2>2. streams' = [streams EXCEPT ![s].pending = p]
    BY <1>2 DEF Forgets
  <2> HIDE DEF p, s
  <2> QED
    BY <2>1, <2>2, EntriesChange DEF HttpTypeOK
<1> QED
  BY <1>1, <1>2

LEMMA RequestEffects ==
    ASSUME HttpTypeOK, NEW c \in HttpCallers
    PROVE  /\ NewRequest(c) =>
                /\ caller[c].at = "post" /\ SameRemote /\ SameReaders
                /\ \/ GoesTo(c, "done", caller[c].back) /\ SameWire
                   \/ /\ Becomes(c, "post", caller[c].back, wire.nextId, caller[c].token,
                                 caller[c].ran)
                      /\ WireBecomes(wire.token, wire.connectLock, wire.session, wire.nextId + 1)
           /\ Unauthorized(c) =>
                /\ caller[c].at = "post" /\ SameWire /\ SameRemote /\ SameReaders
                /\ GoesTo(c, "refresh", "repost")
           /\ PostRefused(c) \/ AlreadyFailed(c) \/ AnswerTimesOut(c) =>
                /\ caller[c].at \in {"post", "repost", "wait"}
                /\ SameWire /\ SameRemote /\ SameReaders
                /\ GoesTo(c, "done", caller[c].back)
           /\ PostLost(c) \/ PostAnswered(c) =>
                /\ caller[c].at \in {"post", "repost"} /\ SameWire /\ SameRemote /\ SameReaders
                /\ Ran(c, "done")
           /\ PostAcknowledged(c) =>
                /\ caller[c].at \in {"post", "repost"} /\ caller[c].id # 0
                /\ SameWire /\ SameRemote /\ SameReaders /\ Ran(c, "wait")
           /\ CatalogListed(c) \/ HeaderMismatch(c) =>
                /\ caller[c].at \in {"post", "repost"} /\ SameWire /\ SameRemote /\ SameReaders
                /\ \/ GoesTo(c, "done", caller[c].back)
                   \/ Becomes(c, "maybe", "post", 0, caller[c].token, caller[c].ran)
<1>0. /\ wire.nextId \in Nat \ {0} /\ wire.session \in Nat /\ wire \in HttpWire
      /\ caller[c] \in HttpCaller /\ caller \in [HttpCallers -> HttpCaller]
      /\ remote \in HttpRemote /\ remote.catalog \in Nat /\ remote.sid \in Nat
  BY DEF HttpTypeOK, HttpWire, HttpCaller, HttpRemote
<1>1. ASSUME NewRequest(c)
      PROVE  /\ caller[c].at = "post" /\ SameRemote /\ SameReaders
             /\ \/ GoesTo(c, "done", caller[c].back) /\ SameWire
                \/ /\ Becomes(c, "post", caller[c].back, wire.nextId, caller[c].token,
                              caller[c].ran)
                   /\ WireBecomes(wire.token, wire.connectLock, wire.session, wire.nextId + 1)
  <2>1. caller[c].at = "post" /\ SameRemote
    BY <1>1, UnchangedEffects DEF NewRequest
  <2>2. CASE wire.kind = "sse" /\ wire.session = 0
    <3>1. Ends(c, "error") /\ wire' = wire /\ streams' = streams
      BY <1>1, <2>2 DEF NewRequest
    <3> QED
      BY <2>1, <3>1, EndsEffect, UnchangedEffects, PlaceNames
  <2>3. CASE ~(wire.kind = "sse" /\ wire.session = 0)
    <3>1. Becomes(c, "post", caller[c].back, wire.nextId, caller[c].token, caller[c].ran)
      <4>1. ASSUME NEW i \in Nat, NEW t \in Nat,
                   caller' = [caller EXCEPT ![c].id = i, ![c].stream = t]
            PROVE  Becomes(c, caller[c].at, caller[c].back, i, caller[c].token, caller[c].ran)
        BY <1>0, <4>1 DEF HttpCaller, Becomes
      <4> QED
        BY <1>0, <1>1, <2>1, <2>3, <4>1 DEF NewRequest
    <3>2. WireBecomes(wire.token, wire.connectLock, wire.session, wire.nextId + 1)
      <4>1. ASSUME NEW i \in Nat \ {0}, wire' = [wire EXCEPT !.nextId = i]
            PROVE  WireBecomes(wire.token, wire.connectLock, wire.session, i)
        BY <1>0, <4>1 DEF HttpWire, WireBecomes
      <4>2. wire.nextId + 1 \in Nat \ {0}
        BY <1>0
      <4>3. wire' = [wire EXCEPT !.nextId = wire.nextId + 1]
        BY <1>1, <2>3 DEF NewRequest, TakeHttpId
      <4> QED
        BY <4>1, <4>2, <4>3
    <3>3. SameReaders
      <4>1. CASE wire.kind # "sse"
        BY <1>1, <2>3, <4>1, UnchangedEffects DEF NewRequest
      <4>2. CASE wire.kind = "sse"
        <5> DEFINE s == wire.session
                   p == IF s \in DOMAIN streams THEN streams[s].pending \cup {wire.nextId} ELSE {}
        <5>1. p \in SUBSET Nat
          <6>1. s \in DOMAIN streams => streams[s] \in Stream
            BY ElementOfSeq, LenProperties DEF HttpTypeOK
          <6> QED
            BY <1>0, <6>1 DEF Stream
        <5>2. streams' = [streams EXCEPT ![s].pending = p]
          BY <1>1, <2>3, <4>2 DEF NewRequest
        <5> HIDE DEF p, s
        <5> QED
          BY <5>1, <5>2, EntriesChange DEF HttpTypeOK
      <4> QED
        BY <4>1, <4>2
    <3> QED
      BY <2>1, <3>1, <3>2, <3>3
  <2> QED
    BY <2>2, <2>3
<1>2. ASSUME Unauthorized(c)
      PROVE  /\ caller[c].at = "post" /\ SameWire /\ SameRemote /\ SameReaders
             /\ GoesTo(c, "refresh", "repost")
  <2>1. /\ caller[c].at = "post" /\ wire' = wire /\ remote' = remote /\ streams' = streams
        /\ caller' = [caller EXCEPT ![c].at = "refresh", ![c].back = "repost"]
    BY <1>2 DEF Unauthorized, MayRetry
  <2> QED
    BY <2>1, TurnsEffect, UnchangedEffects, PlaceNames
<1>3. ASSUME PostRefused(c) \/ AlreadyFailed(c) \/ AnswerTimesOut(c)
      PROVE  /\ caller[c].at \in {"post", "repost", "wait"}
             /\ SameWire /\ SameRemote /\ SameReaders
             /\ GoesTo(c, "done", caller[c].back)
  <2>1. /\ caller[c].at \in {"post", "repost", "wait"} /\ Ends(c, "error")
        /\ wire' = wire /\ remote' = remote
        /\ streams' = streams \/ streams' = Forgets(c)
    BY <1>3 DEF PostRefused, AlreadyFailed, AnswerTimesOut, Posting
  <2> QED
    BY <2>1, EndsEffect, UnchangedEffects, ForgetsEffect, PlaceNames
<1>4. ASSUME PostLost(c) \/ PostAnswered(c)
      PROVE  /\ caller[c].at \in {"post", "repost"} /\ SameWire /\ SameRemote /\ SameReaders
             /\ Ran(c, "done")
  <2>1. CASE PostLost(c)
    <3>1. /\ caller[c].at \in {"post", "repost"} /\ wire' = wire /\ remote' = Turned
          /\ streams' = Forgets(c)
          /\ \/ caller' = [Carries(c) EXCEPT ![c].at = "done", ![c].end = "error"]
             \/ caller' = [caller EXCEPT ![c].at = "done", ![c].end = "error"]
      BY <2>1 DEF PostLost, Posting
    <3>2. ASSUME Ends(c, "error") PROVE Ran(c, "done")
      BY <3>2, EndsEffect, PlaceNames DEF GoesTo, Ran
    <3>3. ASSUME caller' = [Carries(c) EXCEPT ![c].at = "done", ![c].end = "error"]
          PROVE  Ran(c, "done")
      BY <3>3, CarriedEffect, PlaceNames DEF Ran
    <3>4. Ran(c, "done")
      BY <3>1, <3>2, <3>3 DEF Ends
    <3> QED
      BY <3>1, <3>4, UnchangedEffects, ForgetsEffect
  <2>2. CASE PostAnswered(c)
    <3>1. SameWire
      <4>1. PICK i \in Nat : wire' = [wire EXCEPT !.sid = i]
        BY <1>0, <2>2 DEF PostAnswered, AdoptsSession, HttpWire
      <4> QED
        BY <1>0, <4>1 DEF SameWire, WireBecomes, HttpWire
    <3>2. /\ caller[c].at \in {"post", "repost"} /\ remote' = remote /\ streams' = streams
          /\ caller' = [Carries(c) EXCEPT ![c].at = "done", ![c].end = "result"]
      BY <2>2 DEF PostAnswered, Posting
    <3>3. Ran(c, "done")
      BY <3>2, CarriedEffect, PlaceNames DEF Ran
    <3> QED
      BY <3>1, <3>2, <3>3, UnchangedEffects
  <2> QED
    BY <1>4, <2>1, <2>2
<1>5. ASSUME PostAcknowledged(c)
      PROVE  /\ caller[c].at \in {"post", "repost"} /\ caller[c].id # 0
             /\ SameWire /\ SameRemote /\ SameReaders /\ Ran(c, "wait")
  <2>1. /\ caller[c].at \in {"post", "repost"} /\ caller[c].id # 0
        /\ wire' = wire /\ remote' = remote
        /\ caller' = [Carries(c) EXCEPT ![c].at = "wait"]
    BY <1>5 DEF PostAcknowledged, Posting
  <2>2. Ran(c, "wait")
    BY <2>1, CarriedEffect, PlaceNames DEF Ran
  <2>3. SameReaders
    <3> DEFINE s == caller[c].stream
               a == IF s \in DOMAIN streams THEN streams[s].answers \cup {caller[c].id} ELSE {}
    <3>1. a \in SUBSET Nat
      <4>1. s \in DOMAIN streams => streams[s] \in Stream
        BY ElementOfSeq, LenProperties DEF HttpTypeOK
      <4> QED
        BY <1>0, <4>1 DEF Stream, HttpCaller
    <3>2. streams' = streams \/ streams' = [streams EXCEPT ![s].answers = a]
      BY <1>5 DEF PostAcknowledged
    <3> HIDE DEF a, s
    <3> QED
      BY <3>1, <3>2, EntriesChange, UnchangedEffects DEF HttpTypeOK
  <2> QED
    BY <2>1, <2>2, <2>3, UnchangedEffects
<1>6. ASSUME CatalogListed(c) \/ HeaderMismatch(c)
      PROVE  /\ caller[c].at \in {"post", "repost"} /\ SameWire /\ SameRemote /\ SameReaders
             /\ \/ GoesTo(c, "done", caller[c].back)
                \/ Becomes(c, "maybe", "post", 0, caller[c].token, caller[c].ran)
  <2>1. CASE CatalogListed(c)
    <3>1. /\ caller[c].at \in {"post", "repost"} /\ remote' = remote /\ streams' = streams
          /\ caller' = [caller EXCEPT ![c].op = "call", ![c].at = "maybe", ![c].back = "post",
                                      ![c].id = 0, ![c].headers = remote.catalog]
          /\ wire' = [wire EXCEPT !.catalog = remote.catalog]
      BY <2>1 DEF CatalogListed, Posting
    <3>2. ASSUME NEW h \in Nat, wire' = [wire EXCEPT !.catalog = h] PROVE SameWire
      BY <1>0, <3>2 DEF HttpWire, SameWire, WireBecomes
    <3>3. ASSUME NEW o \in CallOps, NEW p \in Places, NEW q \in Backs, NEW h \in Nat,
                 caller' = [caller EXCEPT ![c].op = o, ![c].at = p, ![c].back = q,
                                          ![c].id = 0, ![c].headers = h]
          PROVE  Becomes(c, p, q, 0, caller[c].token, caller[c].ran)
      BY <1>0, <3>3 DEF HttpCaller, Becomes
    <3> QED
      BY <1>0, <3>1, <3>2, <3>3, UnchangedEffects, PlaceNames
  <2>2. CASE HeaderMismatch(c)
    <3>1. /\ caller[c].at \in {"post", "repost"} /\ wire' = wire
          /\ remote' = remote /\ streams' = streams
          /\ \/ Ends(c, "error")
             \/ caller' = [caller EXCEPT ![c].op = "list", ![c].at = "maybe",
                                         ![c].back = "post", ![c].id = 0, ![c].rebuilt = TRUE]
      BY <2>2 DEF HeaderMismatch, Posting
    <3>2. ASSUME NEW o \in CallOps, NEW p \in Places, NEW q \in Backs,
                 caller' = [caller EXCEPT ![c].op = o, ![c].at = p, ![c].back = q,
                                          ![c].id = 0, ![c].rebuilt = TRUE]
          PROVE  Becomes(c, p, q, 0, caller[c].token, caller[c].ran)
      BY <1>0, <3>2 DEF HttpCaller, Becomes
    <3>3. ASSUME caller' = [caller EXCEPT ![c].op = "list", ![c].at = "maybe",
                                         ![c].back = "post", ![c].id = 0, ![c].rebuilt = TRUE]
          PROVE  Becomes(c, "maybe", "post", 0, caller[c].token, caller[c].ran)
      BY <3>2, <3>3, PlaceNames
    <3> QED
      BY <3>1, <3>3, EndsEffect, UnchangedEffects, PlaceNames
  <2> QED
    BY <1>6, <2>1, <2>2
<1> QED
  BY <1>1, <1>2, <1>3, <1>4, <1>5, <1>6

\* Streams: an answer is read, a stream ends and its task after it.
FewerReaders ==
    /\ streams' \in Seq(Stream) /\ DOMAIN streams' = DOMAIN streams
    /\ \A s \in DOMAIN streams : Serves(streams'[s]) => Serves(streams[s])
WokenCallers ==
    /\ caller' \in [HttpCallers -> HttpCaller]
    /\ \A c \in HttpCallers :
         /\ caller'[c].at = caller[c].at \/ (caller[c].at = "wait" /\ caller'[c].at = "done")
         /\ caller'[c].back = caller[c].back /\ caller'[c].id = caller[c].id
         /\ caller'[c].token = caller[c].token /\ caller'[c].ran = caller[c].ran

LEMMA StreamEffects ==
    ASSUME HttpTypeOK, NEW s \in DOMAIN streams
    PROVE  /\ StreamEnds(s) => WokenCallers /\ SameWire /\ SameRemote /\ FewerReaders
           /\ ReaderFinishes(s) => WokenCallers /\ SameWire /\ SameRemote /\ FewerReaders
           /\ \A id \in streams[s].answers :
                ReadAnswer(s, id) => WokenCallers /\ SameWire /\ SameRemote /\ FewerReaders
<1>0. /\ caller \in [HttpCallers -> HttpCaller] /\ streams \in Seq(Stream)
      /\ streams[s] \in Stream
  BY ElementOfSeq, LenProperties DEF HttpTypeOK
<1>1. SameReaders => FewerReaders
  BY DEF SameReaders, FewerReaders, Serves
<1>2. caller' = caller => WokenCallers
  BY <1>0 DEF WokenCallers
<1>3. ASSUME NEW r \in Stream, r.reader # "runs", streams' = [streams EXCEPT ![s] = r]
      PROVE  FewerReaders
  <2>1. PICK n \in Nat : streams \in [1..n -> Stream]
    BY <1>0, SeqDef
  <2>2. streams' \in [1..n -> Stream]
    BY <1>3, <2>1
  <2> QED
    BY <1>3, <2>1, <2>2, SeqDef DEF FewerReaders, Serves
<1>4. ASSUME StreamEnds(s)
      PROVE  WokenCallers /\ SameWire /\ SameRemote /\ FewerReaders
  <2>1. SameWire /\ SameRemote
    BY <1>4, UnchangedEffects DEF StreamEnds
  <2>2. FewerReaders
    <3> DEFINE r == [streams[s] EXCEPT !.reader = "ends", !.pending = {}, !.answers = {}]
    <3>1. r \in Stream /\ r.reader # "runs"
      BY <1>0, PlaceNames DEF Stream
    <3>2. streams' = [streams EXCEPT ![s] = r]
      BY <1>0, <1>4 DEF StreamEnds
    <3> HIDE DEF r
    <3> QED
      BY <1>3, <3>1, <3>2
  <2>3. WokenCallers
    <3>1. ASSUME NEW c \in HttpCallers
          PROVE  \/ caller'[c] = caller[c]
                 \/ caller'[c] = [caller[c] EXCEPT !.end = "error"]
                 \/ /\ caller[c].at = "wait"
                    /\ caller'[c] = [caller[c] EXCEPT !.at = "done", !.end = "error"]
      BY <1>4 DEF StreamEnds
    <3>2. ASSUME NEW c \in HttpCallers
          PROVE  /\ caller'[c] \in HttpCaller
                 /\ caller'[c].at = caller[c].at \/ (caller[c].at = "wait" /\ caller'[c].at = "done")
                 /\ caller'[c].back = caller[c].back /\ caller'[c].id = caller[c].id
                 /\ caller'[c].token = caller[c].token /\ caller'[c].ran = caller[c].ran
      <4>0. caller[c] \in HttpCaller
        BY <1>0
      <4>1. CASE caller'[c] = caller[c]
        BY <4>0, <4>1
      <4>2. CASE caller'[c] = [caller[c] EXCEPT !.end = "error"]
        BY <4>0, <4>2, PlaceNames DEF HttpCaller
      <4>3. CASE /\ caller[c].at = "wait"
                 /\ caller'[c] = [caller[c] EXCEPT !.at = "done", !.end = "error"]
        BY <4>0, <4>3, PlaceNames DEF HttpCaller
      <4> QED
        BY <3>1, <4>1, <4>2, <4>3
    <3>3. caller' = [c \in HttpCallers |-> caller'[c]]
      BY <1>4 DEF StreamEnds
    <3>4. caller' \in [HttpCallers -> HttpCaller]
      BY <3>2, <3>3
    <3> QED
      BY <3>2, <3>4 DEF WokenCallers
  <2> QED
    BY <2>1, <2>2, <2>3
<1>5. ASSUME ReaderFinishes(s)
      PROVE  WokenCallers /\ SameWire /\ SameRemote /\ FewerReaders
  <2>1. FewerReaders
    <3>1. [streams[s] EXCEPT !.reader = "finished"] \in Stream
      BY <1>0, PlaceNames DEF Stream
    <3>2. [streams[s] EXCEPT !.reader = "finished"].reader # "runs"
      BY <1>0 DEF Stream
    <3>3. streams' = [streams EXCEPT ![s] = [streams[s] EXCEPT !.reader = "finished"]]
      BY <1>0, <1>5 DEF ReaderFinishes
    <3> QED
      BY <1>3, <3>1, <3>2, <3>3
  <2> QED
    BY <1>2, <1>5, <2>1, UnchangedEffects DEF ReaderFinishes
<1>6. ASSUME NEW id \in streams[s].answers, ReadAnswer(s, id)
      PROVE  WokenCallers /\ SameWire /\ SameRemote /\ FewerReaders
  <2>1. SameWire /\ SameRemote
    BY <1>6, UnchangedEffects DEF ReadAnswer
  <2>2. FewerReaders
    <3> DEFINE a == streams[s].answers \ {id}
               q == streams[s].pending \ {id}
    <3>1. a \in SUBSET Nat /\ q \in SUBSET Nat
      BY <1>0 DEF Stream
    <3>2. streams' = [streams EXCEPT ![s].answers = a, ![s].pending = q]
      BY <1>6 DEF ReadAnswer
    <3> HIDE DEF a, q
    <3> QED
      BY <1>0, <1>1, <3>1, <3>2, EntriesChange
  <2>3. WokenCallers
    <3>1. \/ caller' = caller
          \/ \E c \in HttpCallers : caller[c].at = "wait" /\ Ends(c, "result")
      BY <1>6 DEF ReadAnswer
    <3>2. ASSUME NEW c \in HttpCallers, caller[c].at = "wait", Ends(c, "result")
          PROVE  WokenCallers
      BY <3>2, EndsEffect, PlaceNames DEF GoesTo, Becomes, WokenCallers
    <3> QED
      BY <1>2, <3>1, <3>2
  <2> QED
    BY <2>1, <2>2, <2>3
<1> QED
  BY <1>4, <1>5, <1>6

\* The server's own steps.
LEMMA ServerEffects ==
    ASSUME HttpTypeOK, TokenExpires \/ CatalogChanges
    PROVE  WokenCallers /\ SameWire /\ SameRemote /\ FewerReaders
<1>1. /\ wire \in HttpWire /\ caller \in [HttpCallers -> HttpCaller]
      /\ remote \in HttpRemote /\ Turned \in HttpRemote
      /\ Turned.refresh = remote.refresh /\ Turned.lost = remote.lost
      /\ Turned.catalog \in Nat /\ Turned.sid \in Nat
  BY DEF HttpTypeOK, HttpRemote, Turned
<1>2. WokenCallers /\ FewerReaders
  BY <1>1, UnchangedEffects
  DEF TokenExpires, CatalogChanges, SameReaders, FewerReaders, Serves, WokenCallers
<1>3. SameWire
  <2>1. ASSUME NEW b \in BOOLEAN, wire' = [wire EXCEPT !.due = b] PROVE SameWire
    BY <1>1, <2>1 DEF HttpWire, SameWire, WireBecomes
  <2> QED
    BY <2>1, UnchangedEffects DEF TokenExpires, CatalogChanges
<1>4. SameRemote
  <2>1. ASSUME remote' = [Turned EXCEPT !.accepts = {}] PROVE SameRemote
    BY <1>1, <2>1 DEF HttpRemote, SameRemote
  <2>2. ASSUME NEW k \in Nat, NEW i \in Nat,
               remote' = [Turned EXCEPT !.catalog = k, !.sid = i]
        PROVE  SameRemote
    BY <1>1, <2>2 DEF HttpRemote, SameRemote
  <2>3. Turned.catalog + 1 \in Nat /\ Turned.sid + 1 \in Nat
    BY <1>1
  <2>4. CatalogChanges => remote' = [Turned EXCEPT !.catalog = Turned.catalog + 1,
                                                   !.sid = Turned.sid + 1]
    BY <1>1 DEF CatalogChanges
  <2> QED
    BY <2>1, <2>2, <2>3, <2>4 DEF TokenExpires
<1> QED
  BY <1>2, <1>3, <1>4

-----------------------------------------------------------------------------
(* The parts of the invariant, from what a step does. *)

\* A step of c leaves the connect lock, takes it when it is free or lets it go.
LEMMA LockKept ==
    ASSUME HttpInv, NEW c \in HttpCallers, NEW a, NEW b, NEW i, NEW t, NEW n,
           Becomes(c, a, b, i, t, n), wire'.connectLock = wire.connectLock \/ wire.connectLock \in {c, NoCaller},
           Opening(a, b) => wire'.connectLock = c,
           a \in {"idle", "connect", "lock"} => b = "post"
    PROVE  OpenersLock'
BY NoCallerAssumption DEF HttpInv, OpenersLock, Becomes

LEMMA RunsKept ==
    ASSUME HttpInv, NEW c \in HttpCallers, NEW a, NEW b, NEW i, NEW t, NEW n,
           Becomes(c, a, b, i, t, n), n \in {0, 1}, n = 1 => a \in {"wait", "done"}
    PROVE  RunAtEnd'
BY DEF HttpInv, RunAtEnd, Becomes

LEMMA IdsKept ==
    ASSUME HttpInv, NEW c \in HttpCallers, NEW a, NEW b, NEW i, NEW t, NEW n,
           Becomes(c, a, b, i, t, n), wire' \in HttpWire,
           \/ i \in {0, caller[c].id} /\ wire'.nextId = wire.nextId
           \/ i = wire.nextId /\ wire'.nextId = wire.nextId + 1,
           a = "wait" => i # 0
    PROVE  IdsAreOwn'
<1>1. /\ wire.nextId \in Nat \ {0}
      /\ \A d \in HttpCallers : caller[d].id \in Nat /\ caller[d].id < wire.nextId
  BY DEF HttpInv, HttpTypeOK, HttpWire, HttpCaller, IdsAreOwn
<1> QED
  BY <1>1 DEF HttpInv, IdsAreOwn, Becomes

\* The session goes only when nobody reads it, and comes only to who opened it.
LEMMA SessionKept ==
    ASSUME HttpInv, FewerReaders,
           wire'.connectLock # NoCaller => wire'.session = 0,
           wire'.session = wire.session \/ ~Live(wire.session)
    PROVE  SessionIsRead'
<1>1. \A s \in DOMAIN streams : s # 0
  BY LenProperties DEF HttpInv, HttpTypeOK
<1> QED
  BY <1>1 DEF HttpInv, SessionIsRead, FewerReaders, Live, Serves

LEMMA SessionOpened ==
    ASSUME HttpInv, OneMoreReader, wire.session = 0,
           wire'.connectLock = NoCaller, wire'.session = Len(streams) + 1
    PROVE  SessionIsRead'
<1>1. /\ DOMAIN streams = 1..Len(streams) /\ Len(streams) \in Nat
      /\ DOMAIN streams' = 1..(Len(streams) + 1)
  BY LenProperties DEF HttpInv, HttpTypeOK, OneMoreReader
<1>2. ASSUME NEW s \in DOMAIN streams', Serves(streams'[s]) PROVE s = Len(streams) + 1
  BY <1>1, <1>2 DEF HttpInv, SessionIsRead, OneMoreReader
<1> QED
  BY <1>2 DEF SessionIsRead

\* A stray reader is nobody's session.
LEMMA StrayKept ==
    ASSUME HttpInv, OneMoreReader, streams'[Len(streams) + 1].stray,
           wire'.connectLock # NoCaller => wire'.session = 0, wire'.session = wire.session
    PROVE  SessionIsRead'
<1>1. /\ DOMAIN streams = 1..Len(streams) /\ Len(streams) \in Nat
      /\ DOMAIN streams' = 1..(Len(streams) + 1)
  BY LenProperties DEF HttpInv, HttpTypeOK, OneMoreReader
<1>2. ASSUME NEW s \in DOMAIN streams', Serves(streams'[s]) PROVE s = wire.session
  BY <1>1, <1>2 DEF HttpInv, SessionIsRead, OneMoreReader, Serves
<1> QED
  BY <1>2 DEF SessionIsRead

\* Nobody exchanges or stores a token.
LEMMA TokensKept ==
    ASSUME HttpInv, NEW c \in HttpCallers, NEW a, NEW b, NEW i, NEW t, NEW n,
           Becomes(c, a, b, i, t, n), a \notin {"store", "forced"}, ~Storing(c),
           SameRemote, wire'.token = wire.token
    PROVE  NewestInHand'
<1>1. \A d \in HttpCallers : Storing(d)' <=> Storing(d)
  BY DEF Becomes, Storing
<1>2. \A d \in HttpCallers : Storing(d) => caller'[d] = caller[d]
  BY DEF Becomes
<1> QED
  BY <1>1, <1>2 DEF HttpInv, NewestInHand, SameRemote

\* One caller exchanges the token in memory for the next.
LEMMA TokenExchanged ==
    ASSUME HttpInv, NEW c \in HttpCallers, NEW a, NEW b, NEW i, NEW n, a \in {"store", "forced"},
           Becomes(c, a, b, i, remote.refresh + 1, n), wire.token = remote.refresh,
           wire'.token = wire.token, remote'.refresh = remote.refresh + 1
    PROVE  NewestInHand'
<1>1. remote.refresh \in Nat
  BY DEF HttpInv, HttpTypeOK, HttpRemote
<1>2. \A d \in HttpCallers : ~Storing(d)
  BY <1>1 DEF HttpInv, NewestInHand
<1>3. \A d \in HttpCallers : Storing(d)' <=> d = c
  BY <1>2 DEF Becomes, Storing
<1>4. caller'[c].token = remote.refresh + 1
  BY DEF Becomes
<1> QED
  BY <1>1, <1>3, <1>4 DEF NewestInHand

\* The token in memory is exchanged and the answer lost.
LEMMA TokenLost ==
    ASSUME HttpInv, NEW c \in HttpCallers, NEW a, NEW b, NEW i, NEW t, NEW n,
           Becomes(c, a, b, i, t, n), a \notin {"store", "forced"},
           wire.token = remote.refresh, remote'.lost
    PROVE  NewestInHand'
<1>1. \A d \in HttpCallers : ~Storing(d)
  BY DEF HttpInv, HttpTypeOK, HttpRemote, NewestInHand
<1>2. \A d \in HttpCallers : ~Storing(d)'
  BY <1>1 DEF Becomes, Storing
<1> QED
  BY <1>2 DEF NewestInHand

\* The caller that has the newest token stores it, or cannot.
LEMMA TokenStored ==
    ASSUME HttpInv, NEW c \in HttpCallers, NEW a, NEW b, NEW i, NEW t, NEW n, Storing(c),
           Becomes(c, a, b, i, t, n), a \notin {"store", "forced"},
           remote'.refresh = remote.refresh, wire'.token = caller[c].token \/ remote'.lost
    PROVE  NewestInHand'
<1>1. \A d \in HttpCallers : Storing(d) => d = c
  BY DEF HttpInv, NewestInHand
<1>2. \A d \in HttpCallers : ~Storing(d)'
  BY <1>1 DEF Becomes, Storing
<1> QED
  BY <1>2 DEF HttpInv, NewestInHand

\* A caller whose receiver is woken, or nobody, takes a step.
LEMMA WokenKeep ==
    ASSUME HttpInv, WokenCallers, SameWire, SameRemote, FewerReaders
    PROVE  HttpInv'
<1>1. HttpTypeOK'
  BY DEF HttpInv, HttpTypeOK, WokenCallers, SameWire, WireBecomes, SameRemote, FewerReaders
<1>2. OpenersLock'
  BY DEF HttpInv, OpenersLock, Opening, WokenCallers, SameWire, WireBecomes
<1>3. SessionIsRead'
  BY SessionKept DEF HttpInv, SessionIsRead, SameWire, WireBecomes
<1>4. RunAtEnd'
  BY DEF HttpInv, RunAtEnd, WokenCallers
<1>5. NewestInHand'
  <2>1. \A d \in HttpCallers : Storing(d)' <=> Storing(d)
    BY DEF WokenCallers, Storing
  <2> QED
    BY <2>1 DEF HttpInv, NewestInHand, WokenCallers, SameWire, WireBecomes, SameRemote
<1>6. IdsAreOwn'
  BY DEF HttpInv, IdsAreOwn, WokenCallers, SameWire, WireBecomes
<1> QED
  BY <1>1, <1>2, <1>3, <1>4, <1>5, <1>6 DEF HttpInv

LEMMA CallerKeeps ==
    ASSUME HttpInv, NEW c \in HttpCallers, CallerStep(c) \/ PersistFails(c) \/ PostLost(c) \/ CallerDropped(c)
    PROVE  HttpInv'
<1> DEFINE place == caller[c].at
           back == caller[c].back
           id == caller[c].id
           token == caller[c].token
           ran == caller[c].ran
<1>0. /\ HttpTypeOK /\ OpenersLock /\ SessionIsRead /\ RunAtEnd /\ NewestInHand /\ IdsAreOwn
      /\ caller[c] \in HttpCaller /\ back \in Backs /\ id \in Nat
      /\ \A s \in DOMAIN streams : s # 0
  BY LenProperties DEF HttpInv, HttpTypeOK, HttpCaller
<1>1. /\ ran \in {0, 1} /\ (ran = 1 => place \in {"wait", "done"})
      /\ Opening(place, back) => wire.connectLock = c
      /\ place \in {"idle", "connect", "lock"} => back = "post"
      /\ place = "wait" => id # 0
      /\ wire.connectLock # NoCaller => wire.session = 0
  BY <1>0 DEF RunAtEnd, OpenersLock, IdsAreOwn, SessionIsRead
\* What a step keeps when it changes the session and the tokens rightly.
<1>2. ASSUME NEW a, NEW b, NEW i, NEW t, NEW n, Becomes(c, a, b, i, t, n),
             wire' \in HttpWire, remote' \in HttpRemote, streams' \in Seq(Stream),
             SessionIsRead', NewestInHand',
             wire'.connectLock = wire.connectLock \/ wire.connectLock \in {c, NoCaller},
             Opening(a, b) => wire'.connectLock = c,
             a \in {"idle", "connect", "lock"} => b = "post",
             n \in {0, 1}, n = 1 => a \in {"wait", "done"},
             \/ i \in {0, id} /\ wire'.nextId = wire.nextId
             \/ i = wire.nextId /\ wire'.nextId = wire.nextId + 1,
             a = "wait" => i # 0
      PROVE  HttpInv'
  <2>1. HttpTypeOK'
    BY <1>2 DEF HttpTypeOK, Becomes
  <2>2. OpenersLock'
    BY <1>2, LockKept
  <2>3. RunAtEnd'
    BY <1>2, RunsKept
  <2>4. IdsAreOwn'
    BY <1>2, IdsKept
  <2> QED
    BY <1>2, <2>1, <2>2, <2>3, <2>4 DEF HttpInv
\* The common case: neither the session nor the tokens change.
<1>3. ASSUME NEW a, NEW b, NEW i, NEW t, NEW n, Becomes(c, a, b, i, t, n),
             SameWire, SameRemote, SameReaders, ~Storing(c), a \notin {"store", "forced"},
             Opening(a, b) => wire.connectLock = c,
             a \in {"idle", "connect", "lock"} => b = "post",
             n \in {0, 1}, n = 1 => a \in {"wait", "done"},
             i \in {0, id}, a = "wait" => i # 0
      PROVE  HttpInv'
  <2>1. /\ wire' \in HttpWire /\ wire'.connectLock = wire.connectLock
        /\ wire'.session = wire.session /\ wire'.token = wire.token
        /\ wire'.nextId = wire.nextId /\ remote' \in HttpRemote
        /\ streams' \in Seq(Stream) /\ FewerReaders
    BY <1>3 DEF SameWire, WireBecomes, SameRemote, SameReaders, FewerReaders, Serves
  <2>2. SessionIsRead'
    BY <1>1, <2>1, SessionKept
  <2>3. NewestInHand'
    BY <1>3, <2>1, TokensKept
  <2> QED
    BY <1>2, <1>3, <2>1, <2>2, <2>3
<1> HIDE DEF place, back, id, token, ran
<1>4. CASE CallTool(c)
  <2>1. PICK p \in {"connect", "maybe"} : GoesTo(c, p, back)
    BY <1>0, <1>4, ConnectEffects DEF back
  <2>2. place = "idle" /\ SameWire /\ SameRemote /\ SameReaders
    BY <1>0, <1>4, ConnectEffects DEF place
  <2> QED
    BY <1>1, <1>3, <2>1, <2>2 DEF GoesTo, Opening, Storing, place, back, id, ran
<1>5. CASE Connected(c)
  <2>0. place = "connect" /\ SameRemote /\ SameReaders
    BY <1>0, <1>5, ConnectEffects DEF place
  <2>1. CASE GoesTo(c, "maybe", back) /\ SameWire
    BY <1>1, <1>3, <2>0, <2>1 DEF GoesTo, Opening, Storing, place, back, id, ran
  <2>2. CASE /\ ~Live(wire.session) /\ GoesTo(c, "lock", back)
             /\ WireBecomes(wire.token, wire.connectLock, 0, wire.nextId)
    <3>1. /\ wire' \in HttpWire /\ wire'.connectLock = wire.connectLock /\ wire'.session = 0
          /\ wire'.token = wire.token /\ wire'.nextId = wire.nextId
          /\ remote' \in HttpRemote /\ streams' \in Seq(Stream) /\ FewerReaders
      BY <2>0, <2>2 DEF WireBecomes, SameRemote, SameReaders, FewerReaders, Serves
    <3>2. SessionIsRead'
      BY <2>2, <3>1, SessionKept
    <3>3. NewestInHand'
      BY <2>0, <2>2, <3>1, TokensKept DEF GoesTo, Storing, place
    <3> QED
      BY <1>1, <1>2, <2>0, <2>2, <3>1, <3>2, <3>3 DEF GoesTo, Opening, place, back, id, ran
  <2> QED
    BY <1>0, <1>5, <2>1, <2>2, ConnectEffects DEF back
<1>6. CASE ConnectLocked(c)
  <2>0. place = "lock" /\ wire.connectLock = NoCaller /\ SameRemote /\ SameReaders
    BY <1>0, <1>6, ConnectEffects DEF place
  <2>1. CASE GoesTo(c, "maybe", back) /\ SameWire
    BY <1>1, <1>3, <2>0, <2>1 DEF GoesTo, Opening, Storing, place, back, id, ran
  <2>2. CASE /\ ~Live(wire.session) /\ GoesTo(c, "maybe", "bootstrap")
             /\ WireBecomes(wire.token, c, 0, wire.nextId)
    <3>1. /\ wire' \in HttpWire /\ wire'.connectLock = c /\ wire'.session = 0
          /\ wire'.token = wire.token /\ wire'.nextId = wire.nextId
          /\ remote' \in HttpRemote /\ streams' \in Seq(Stream) /\ FewerReaders
      BY <2>0, <2>2 DEF WireBecomes, SameRemote, SameReaders, FewerReaders, Serves
    <3>2. SessionIsRead'
      BY <2>2, <3>1, SessionKept
    <3>3. NewestInHand'
      BY <2>0, <2>2, <3>1, TokensKept DEF GoesTo, Storing, place
    <3> QED
      BY <1>1, <1>2, <2>0, <2>2, <3>1, <3>2, <3>3 DEF GoesTo, Opening, place, back, id, ran
  <2> QED
    BY <1>0, <1>6, <2>1, <2>2, ConnectEffects DEF back
<1>7. CASE Bootstrap(c) \/ Rebootstrap(c)
  <2>0. place \in {"bootstrap", "rebootstrap"} /\ SameRemote /\ wire.connectLock = c
        /\ wire.session = 0
    <3>1. place \in {"bootstrap", "rebootstrap"} /\ SameRemote
      BY <1>0, <1>7, BootstrapEffects DEF place
    <3>2. wire.connectLock = c
      BY <1>1, <3>1 DEF Opening
    <3> QED
      BY <1>1, <3>1, <3>2, NoCallerAssumption
  <2>1. CASE /\ GoesTo(c, "maybe", "post") /\ OneMoreReader
             /\ WireBecomes(wire.token, NoCaller, Len(streams) + 1, wire.nextId)
    <3>1. /\ wire' \in HttpWire /\ wire'.connectLock = NoCaller
          /\ wire'.session = Len(streams) + 1
          /\ wire'.token = wire.token /\ wire'.nextId = wire.nextId
          /\ remote' \in HttpRemote /\ streams' \in Seq(Stream)
      BY <2>0, <2>1 DEF WireBecomes, SameRemote, OneMoreReader
    <3>2. SessionIsRead'
      BY <2>0, <2>1, <3>1, SessionOpened
    <3>3. NewestInHand'
      BY <2>0, <2>1, <3>1, TokensKept DEF GoesTo, Storing, place
    <3> QED
      BY <1>1, <1>2, <2>0, <2>1, <3>1, <3>2, <3>3 DEF GoesTo, Opening, place, id, ran
  <2>2. CASE GoesTo(c, "refresh", "rebootstrap") /\ SameWire /\ SameReaders
    BY <1>1, <1>3, <2>0, <2>2 DEF GoesTo, Opening, Storing, place, back, id, ran
  <2>3. CASE /\ GoesTo(c, "done", back) /\ SameReaders
             /\ WireBecomes(wire.token, NoCaller, wire.session, wire.nextId)
    <3>1. /\ wire' \in HttpWire /\ wire'.connectLock = NoCaller
          /\ wire'.session = wire.session
          /\ wire'.token = wire.token /\ wire'.nextId = wire.nextId
          /\ remote' \in HttpRemote /\ streams' \in Seq(Stream) /\ FewerReaders
      BY <2>0, <2>3 DEF WireBecomes, SameRemote, SameReaders, FewerReaders, Serves
    <3>2. SessionIsRead'
      BY <2>0, <3>1, SessionKept
    <3>3. NewestInHand'
      BY <2>0, <2>3, <3>1, TokensKept DEF GoesTo, Storing, place
    <3> QED
      BY <1>1, <1>2, <2>0, <2>3, <3>1, <3>2, <3>3 DEF GoesTo, Opening, place, back, id, ran
  <2> QED
    BY <1>0, <1>7, <2>1, <2>2, <2>3, BootstrapEffects DEF back
\* An exchange, on the way or after a refusal.
<1>8. ASSUME NEW to \in {"store", "forced"}, Exchanged(c, to), SameReaders,
             place \in {"maybe", "refresh"}
      PROVE  HttpInv'
  <2>0. ran = 0 /\ ~Storing(c) /\ streams' \in Seq(Stream) /\ FewerReaders
    BY <1>1, <1>8 DEF Storing, SameReaders, FewerReaders, Serves, place, ran
  <2>1. CASE /\ wire.token = remote.refresh /\ SameWire
             /\ remote' \in HttpRemote /\ remote'.refresh = remote.refresh + 1
             /\ remote'.lost = remote.lost
             /\ Becomes(c, to, back, id, remote.refresh + 1, ran)
    <3>1. /\ wire' \in HttpWire /\ wire'.connectLock = wire.connectLock
          /\ wire'.session = wire.session /\ wire'.token = wire.token
          /\ wire'.nextId = wire.nextId
      BY <2>1 DEF SameWire, WireBecomes
    <3>2. SessionIsRead'
      BY <1>1, <2>0, <3>1, SessionKept
    <3>3. NewestInHand'
      BY <1>8, <2>1, <3>1, TokenExchanged
    <3>4. Opening(to, back) => wire'.connectLock = c
      BY <1>1, <1>8, <3>1 DEF Opening
    <3> QED
      BY <1>2, <1>8, <2>0, <2>1, <3>1, <3>2, <3>3, <3>4
  <2>2. CASE /\ SameRemote /\ GoesTo(c, "done", back)
             /\ WireBecomes(wire.token, Freed(c), wire.session, wire.nextId)
    <3>1. /\ wire' \in HttpWire /\ wire'.connectLock = Freed(c)
          /\ wire'.session = wire.session
          /\ wire'.token = wire.token /\ wire'.nextId = wire.nextId
          /\ remote' \in HttpRemote
      BY <2>2 DEF WireBecomes, SameRemote
    <3>2. SessionIsRead'
      BY <1>1, <2>0, <3>1, SessionKept DEF Freed
    <3>3. NewestInHand'
      BY <2>0, <2>2, <3>1, TokensKept DEF GoesTo
    <3> QED
      BY <1>1, <1>2, <2>0, <2>2, <3>1, <3>2, <3>3 DEF GoesTo, Opening, Freed, id, ran
  <2>3. CASE /\ wire.token = remote.refresh /\ GoesTo(c, "done", back)
             /\ remote' \in HttpRemote /\ remote'.refresh = remote.refresh + 1 /\ remote'.lost
             /\ WireBecomes(wire.token, Freed(c), wire.session, wire.nextId)
    <3>1. /\ wire' \in HttpWire /\ wire'.connectLock = Freed(c)
          /\ wire'.session = wire.session
          /\ wire'.token = wire.token /\ wire'.nextId = wire.nextId
      BY <2>3 DEF WireBecomes
    <3>2. SessionIsRead'
      BY <1>1, <2>0, <3>1, SessionKept DEF Freed
    <3>3. NewestInHand'
      BY <2>3, TokenLost DEF GoesTo
    <3> QED
      BY <1>1, <1>2, <2>0, <2>3, <3>1, <3>2, <3>3 DEF GoesTo, Opening, Freed, id, ran
  <2> QED
    BY <1>8, <2>1, <2>2, <2>3 DEF Exchanged, back, id, ran
<1>9. CASE MaybeRefreshAuthToken(c)
  <2>1. place = "maybe" /\ SameReaders
    BY <1>0, <1>9, RefreshEffects DEF place
  <2>2. CASE GoesTo(c, back, back) /\ SameWire /\ SameRemote
    <3>1. /\ back \in {"post", "repost", "bootstrap", "rebootstrap"}
          /\ Opening(back, back) => wire.connectLock = c
      BY <1>0, <1>1, <2>1 DEF Opening, Backs
    <3>2. ran = 0 /\ ~Storing(c)
      BY <1>1, <2>1 DEF Storing, place
    <3> QED
      BY <1>1, <1>3, <2>1, <2>2, <3>1, <3>2 DEF GoesTo, place, id, ran
  <2> QED
    BY <1>0, <1>8, <1>9, <2>1, <2>2, RefreshEffects DEF back
<1>10. CASE ForceRefreshAuthToken(c)
  <2>1. place = "refresh" /\ SameReaders
    BY <1>0, <1>10, RefreshEffects DEF place
  <2>2. CASE caller' = caller /\ SameWire /\ SameRemote
    <3>1. WokenCallers /\ FewerReaders
      BY <1>0, <2>1, <2>2 DEF WokenCallers, SameReaders, FewerReaders, Serves, HttpTypeOK
    <3> QED
      BY <2>2, <3>1, WokenKeep
  <2> QED
    BY <1>0, <1>8, <1>10, <2>1, <2>2, RefreshEffects
<1>11. CASE StoreToken(c) \/ PersistFails(c)
  <2>0. Storing(c) /\ SameReaders /\ FewerReaders /\ place \in {"store", "forced"} /\ ran = 0
        /\ remote' \in HttpRemote /\ remote'.refresh = remote.refresh
    <3>1. Storing(c) /\ SameReaders /\ remote' \in HttpRemote /\ remote'.refresh = remote.refresh
      BY <1>0, <1>11, RefreshEffects DEF SameRemote
    <3> QED
      BY <1>1, <3>1 DEF Storing, SameReaders, FewerReaders, Serves, place, ran
  <2>1. CASE StoreToken(c)
    <3>0. GoesTo(c, back, back)
          /\ WireBecomes(caller[c].token, wire.connectLock, wire.session, wire.nextId)
      BY <1>0, <2>1, RefreshEffects DEF back
    <3>1. /\ wire' \in HttpWire /\ wire'.connectLock = wire.connectLock
          /\ wire'.session = wire.session /\ wire'.token = caller[c].token
          /\ wire'.nextId = wire.nextId /\ streams' \in Seq(Stream)
      BY <2>0, <3>0 DEF WireBecomes, SameReaders
    <3>2. SessionIsRead'
      BY <1>1, <2>0, <3>1, SessionKept
    <3>3. /\ back \in {"post", "repost", "bootstrap", "rebootstrap"}
          /\ Opening(back, back) => wire'.connectLock = c
      BY <1>0, <1>1, <2>0, <3>1 DEF Opening, Backs
    <3>4. NewestInHand'
      BY <2>0, <3>0, <3>1, <3>3, TokenStored DEF GoesTo
    <3> QED
      BY <1>2, <2>0, <3>0, <3>1, <3>2, <3>3, <3>4 DEF GoesTo, id, ran
  <2>2. CASE PersistFails(c)
    <3>0. remote'.lost /\ GoesTo(c, "done", back)
          /\ WireBecomes(wire.token, Freed(c), wire.session, wire.nextId)
      BY <1>0, <2>2, RefreshEffects DEF back
    <3>1. /\ wire' \in HttpWire /\ wire'.connectLock = Freed(c)
          /\ wire'.session = wire.session /\ wire'.token = wire.token
          /\ wire'.nextId = wire.nextId /\ streams' \in Seq(Stream)
      BY <2>0, <3>0 DEF WireBecomes, SameReaders
    <3>2. SessionIsRead'
      BY <1>1, <2>0, <3>1, SessionKept DEF Freed
    <3>3. NewestInHand'
      BY <2>0, <3>0, <3>1, TokenStored DEF GoesTo
    <3> QED
      BY <1>1, <1>2, <2>0, <3>0, <3>1, <3>2, <3>3 DEF GoesTo, Opening, Freed, id, ran
  <2> QED
    BY <1>11, <2>1, <2>2
<1>12. CASE NewRequest(c)
  <2>0. place = "post" /\ SameRemote /\ SameReaders /\ ran = 0 /\ ~Storing(c)
    BY <1>0, <1>1, <1>12, RequestEffects DEF Storing, place, ran
  <2>1. CASE GoesTo(c, "done", back) /\ SameWire
    BY <1>1, <1>3, <2>0, <2>1 DEF GoesTo, Opening, Storing, place, back, id, ran
  <2>2. CASE /\ Becomes(c, "post", back, wire.nextId, token, ran)
             /\ WireBecomes(wire.token, wire.connectLock, wire.session, wire.nextId + 1)
    <3>1. /\ wire' \in HttpWire /\ wire'.connectLock = wire.connectLock
          /\ wire'.session = wire.session /\ wire'.token = wire.token
          /\ wire'.nextId = wire.nextId + 1
          /\ remote' \in HttpRemote /\ streams' \in Seq(Stream) /\ FewerReaders
      BY <2>0, <2>2 DEF WireBecomes, SameRemote, SameReaders, FewerReaders, Serves
    <3>2. SessionIsRead'
      BY <1>1, <3>1, SessionKept
    <3>3. NewestInHand'
      BY <2>0, <2>2, <3>1, TokensKept
    <3> QED
      BY <1>1, <1>2, <2>0, <2>2, <3>1, <3>2, <3>3 DEF Opening
  <2> QED
    BY <1>0, <1>12, <2>1, <2>2, RequestEffects DEF back, token, ran
<1>13. CASE Unauthorized(c)
  <2>0. /\ place = "post" /\ SameWire /\ SameRemote /\ SameReaders
        /\ GoesTo(c, "refresh", "repost")
    BY <1>0, <1>13, RequestEffects DEF place
  <2> QED
    BY <1>1, <1>3, <2>0 DEF GoesTo, Opening, Storing, place, id, ran
<1>14. CASE PostRefused(c) \/ AlreadyFailed(c) \/ AnswerTimesOut(c)
  <2>0. /\ place \in {"post", "repost", "wait"} /\ SameWire /\ SameRemote /\ SameReaders
        /\ GoesTo(c, "done", back)
    BY <1>0, <1>14, RequestEffects DEF place, back
  <2> QED
    BY <1>1, <1>3, <2>0 DEF GoesTo, Opening, Storing, place, id, ran
<1>15. CASE PostLost(c) \/ PostAnswered(c)
  <2>0. place \in {"post", "repost"} /\ SameWire /\ SameRemote /\ SameReaders /\ Ran(c, "done")
    BY <1>0, <1>15, RequestEffects DEF place
  <2>1. PICK n \in {ran, ran + 1} : Becomes(c, "done", back, id, token, n)
    BY <2>0 DEF Ran, back, id, token, ran
  <2>2. n \in {0, 1} /\ ~Storing(c)
    BY <1>1, <2>0, <2>1 DEF Storing, place
  <2> QED
    BY <1>1, <1>3, <2>0, <2>1, <2>2 DEF Opening
<1>16. CASE PostAcknowledged(c)
  <2>0. place \in {"post", "repost"} /\ id # 0 /\ SameWire /\ SameRemote /\ SameReaders /\ Ran(c, "wait")
    BY <1>0, <1>16, RequestEffects DEF place, id
  <2>1. PICK n \in {ran, ran + 1} : Becomes(c, "wait", back, id, token, n)
    BY <2>0 DEF Ran, back, id, token, ran
  <2>2. n \in {0, 1} /\ ~Storing(c)
    BY <1>1, <2>0, <2>1 DEF Storing, place
  <2> QED
    BY <1>1, <1>3, <2>0, <2>1, <2>2 DEF Opening
<1>17. CASE CatalogListed(c) \/ HeaderMismatch(c)
  <2>0. /\ place \in {"post", "repost"} /\ SameWire /\ SameRemote /\ SameReaders
        /\ GoesTo(c, "done", back) \/ Becomes(c, "maybe", "post", 0, token, ran)
        /\ ran = 0 /\ ~Storing(c)
    BY <1>0, <1>1, <1>17, RequestEffects DEF place, back, token, ran, Storing
  <2>1. CASE GoesTo(c, "done", back)
    BY <1>1, <1>3, <2>0, <2>1 DEF GoesTo, Opening, id, ran
  <2>2. CASE Becomes(c, "maybe", "post", 0, token, ran)
    BY <1>1, <1>3, <2>0, <2>2 DEF Opening
  <2> QED
    BY <2>0, <2>1, <2>2
\* The caller's task is aborted.
<1>18. CASE CallerDropped(c)
  <2>1. WireBecomes(wire.token, Freed(c), wire.session, wire.nextId)
    BY <1>0, <1>18, UnlockedEffect DEF CallerDropped
  <2>2. /\ wire' \in HttpWire /\ wire'.connectLock = Freed(c)
        /\ wire'.session = wire.session
        /\ wire'.token = wire.token /\ wire'.nextId = wire.nextId
    BY <2>1 DEF WireBecomes
  <2>3. /\ remote' \in HttpRemote /\ remote'.refresh = remote.refresh
        /\ IF Storing(c) THEN remote'.lost ELSE remote'.lost = remote.lost
    <3>1. PICK b \in BOOLEAN : /\ remote' = [remote EXCEPT !.lost = b]
                               /\ IF Storing(c) THEN b ELSE b = remote.lost
      BY <1>0, <1>18 DEF CallerDropped, Storing, HttpTypeOK, HttpRemote
    <3> QED
      BY <1>0, <3>1 DEF HttpTypeOK, HttpRemote
  <2>4. PICK n \in {0, 1} : Becomes(c, "done", back, id, token, n)
    <3>1. CASE Ends(c, "error")
      BY <1>0, <1>1, <3>1, EndsEffect, PlaceNames DEF GoesTo, back, id, token, ran
    <3>2. CASE Posting(c) /\ caller' = [Carries(c) EXCEPT ![c].at = "done", ![c].end = "error"]
      <4>1. PICK n \in {ran, ran + 1} : Becomes(c, "done", back, id, token, n)
        BY <1>0, <3>2, CarriedEffect, PlaceNames DEF back, id, token, ran
      <4>2. ran = 0
        BY <1>1, <3>2 DEF Posting, place, ran
      <4> QED
        BY <4>1, <4>2
    <3> QED
      BY <1>18, <3>1, <3>2 DEF CallerDropped
  <2>5. streams' \in Seq(Stream) /\ SessionIsRead'
    <3>1. CASE streams' = streams
      <4>1. FewerReaders /\ streams' \in Seq(Stream)
        BY <1>0, <3>1 DEF FewerReaders, HttpTypeOK
      <4> QED
        BY <1>1, <2>2, <4>1, SessionKept DEF Freed
    <3>2. CASE streams' = Append(streams, [NewStream EXCEPT !.stray = TRUE])
      <4>0. [NewStream EXCEPT !.stray = TRUE] \in Stream /\ [NewStream EXCEPT !.stray = TRUE].stray
        BY PlaceNames DEF Stream, NewStream
      <4>1. OneMoreReader /\ streams'[Len(streams) + 1].stray
        BY <1>0, <3>2, <4>0, ReaderStarts
      <4> QED
        BY <1>1, <2>2, <4>1, StrayKept DEF Freed, OneMoreReader
    <3> QED
      BY <1>18, <3>1, <3>2 DEF CallerDropped
  <2>6. NewestInHand'
    <3>1. CASE Storing(c)
      BY <2>2, <2>3, <2>4, <3>1, TokenStored
    <3>2. CASE ~Storing(c)
      BY <2>2, <2>3, <2>4, <3>2, TokensKept DEF SameRemote
    <3> QED
      BY <3>1, <3>2
  <2> QED
    BY <1>1, <1>2, <2>2, <2>3, <2>4, <2>5, <2>6 DEF Opening, Freed, id
<1> QED
  BY <1>4, <1>5, <1>6, <1>7, <1>9, <1>10, <1>11, <1>12, <1>13, <1>14, <1>15, <1>16, <1>17, <1>18
  DEF CallerStep

\* Every step of a transport preserves the invariant.
LEMMA HttpNextPreserves == HttpInv /\ [McpHttpNext]_mcpHttpVars => HttpInv'
<1> SUFFICES ASSUME HttpInv, [McpHttpNext]_mcpHttpVars PROVE HttpInv'
  OBVIOUS
<1>0. HttpTypeOK
  BY DEF HttpInv
<1>1. CASE UNCHANGED mcpHttpVars
  <2>1. wire' = wire /\ caller' = caller /\ remote' = remote /\ streams' = streams
    BY <1>1 DEF mcpHttpVars
  <2>2. WokenCallers /\ SameWire /\ SameRemote /\ FewerReaders
    BY <1>0, <2>1, UnchangedEffects DEF WokenCallers, SameReaders, FewerReaders, Serves, HttpTypeOK
  <2> QED
    BY <2>2, WokenKeep
<1>2. CASE \E c \in HttpCallers : CallerStep(c) \/ PersistFails(c) \/ PostLost(c) \/ CallerDropped(c)
  BY <1>2, CallerKeeps
<1>3. CASE \E s \in DOMAIN streams : \/ StreamEnds(s) \/ ReaderFinishes(s)
                                     \/ \E id \in streams[s].answers : ReadAnswer(s, id)
  BY <1>0, <1>3, StreamEffects, WokenKeep
<1>4. CASE TokenExpires \/ CatalogChanges
  BY <1>0, <1>4, ServerEffects, WokenKeep
<1> QED
  BY <1>1, <1>2, <1>3, <1>4 DEF McpHttpNext

\* What the invariant says of calls over HTTP.
LEMMA HttpInvIsTrue == HttpInv => HttpCallsAreTrue
<1> SUFFICES ASSUME HttpInv PROVE HttpCallsAreTrue
  OBVIOUS
<1>1. OneSseReader
  <2> DEFINE R == {s \in DOMAIN streams : streams[s].reader = "runs" /\ ~streams[s].stray}
  <2>1. R \subseteq {wire.session}
    BY DEF HttpInv, SessionIsRead, Serves
  <2>2. Cardinality({wire.session}) = 1 /\ IsFiniteSet({wire.session})
    BY FS_Singleton
  <2>3. Cardinality(R) <= Cardinality({wire.session})
    BY <2>1, <2>2, FS_Subset
  <2> QED
    BY <2>2, <2>3 DEF OneSseReader
<1>2. CalledOnce
  BY DEF HttpInv, RunAtEnd, CalledOnce
<1>3. NewestTokenKept
  <2> DEFINE held == {wire.token} \cup {caller[c].token : c \in
                        {d \in HttpCallers : caller[d].at \in {"store", "forced"}}}
  <2>0. /\ wire.token \in Nat /\ remote.refresh \in Nat
        /\ \A c \in HttpCallers : caller[c].token \in Nat
    BY DEF HttpInv, HttpTypeOK, HttpWire, HttpCaller, HttpRemote
  <2>1. SUFFICES ASSUME ~remote.lost PROVE Max(held) = remote.refresh
    BY DEF NewestTokenKept
  <2>2. \A n \in held : n \in Nat /\ n <= remote.refresh
    <3>1. wire.token <= remote.refresh
      BY <2>0, <2>1 DEF HttpInv, NewestInHand
    <3>2. \A c \in HttpCallers : Storing(c) => caller[c].token = remote.refresh
      BY DEF HttpInv, NewestInHand
    <3> QED
      BY <2>0, <3>1, <3>2 DEF Storing
  <2>3. remote.refresh \in held
    BY <2>1 DEF HttpInv, NewestInHand, Storing
  <2> HIDE DEF held
  <2>4. \A x \in held : (\A y \in held : x >= y) => x = remote.refresh
    BY <2>0, <2>2, <2>3
  <2>5. \A y \in held : remote.refresh >= y
    BY <2>0, <2>2
  <2>6. Max(held) \in held /\ \A y \in held : Max(held) >= y
    BY <2>3, <2>5 DEF Max
  <2> QED
    BY <2>4, <2>6
<1>4. OwnEntry
  BY DEF HttpInv, IdsAreOwn, OwnEntry
<1> QED
  BY <1>1, <1>2, <1>3, <1>4 DEF HttpCallsAreTrue

-----------------------------------------------------------------------------
(* The transport alone. *)

\* The invariant holds in every state of a transport.
THEOREM HttpInvariance == McpHttpSpec => []HttpInv
<1>1. McpHttpInit => HttpInv
  BY HttpInitEstablishes
<1>2. HttpInv /\ [McpHttpNext]_mcpHttpVars => HttpInv'
  BY HttpNextPreserves
<1> QED
  BY <1>1, <1>2, PTL DEF McpHttpSpec

\* Whatever mix of expired tokens, 401s, refused headers, lost answers, ended
\* streams and aborted callers it meets, a transport has one reader besides
\* those that aborted callers left, carries a call out once, never loses the
\* newest refresh token to another caller and has an entry for each waiter.
THEOREM HttpCallsTrue == McpHttpSpec => []HttpCallsAreTrue
BY HttpInvariance, HttpInvIsTrue, PTL

-----------------------------------------------------------------------------
(* The stdio transport: the inductive invariant. *)

Kinds == {"request", "listen", "cancel", "initialized", "response", "note"}
Message == [kind : Kinds, id : Nat, serial : Nat]
Asks(m) == m.kind \in {"request", "listen"}

StdioTypeOK ==
    /\ next_id \in Nat \ {0} /\ serial \in Nat /\ sent \in Nat /\ sub \in Nat
    /\ outbox \in Seq(Message) /\ inbox \in Seq(Message) /\ pipe \in Seq(Message)
    /\ open \subseteq Message /\ arrived \subseteq Message /\ call \in Message
    /\ channels \subseteq Nat /\ notes \in Seq(Nat)
    /\ child \in {"running", "exited"} /\ writer \in {"up", "down"}

\* The table: a request is in it, or its response is at hand, or neither.
TableKept ==
    /\ channels \cup Ids(arrived) \subseteq {call.id, sub} \ {0}
    /\ channels \cap Ids(arrived) = {}
    /\ call.id = sub => sub = 0
    /\ call.id = 0 => call = NoCall
    /\ call.id < next_id /\ sub < next_id
    /\ ended # "none" => call = NoCall
    /\ phase # "ready" => sub = 0

\* An id in use is the id of one request only.
OwnTo(m, next, c) == m.id \in 1..(next - 1) /\ (m.id = c.id => m.serial = c.serial)
Own(m) == OwnTo(m, next_id, call)
MessagesOwned ==
    /\ \A i \in DOMAIN outbox : Asks(outbox[i]) => Own(outbox[i])
    /\ \A i \in DOMAIN inbox : Asks(inbox[i]) => Own(inbox[i])
    /\ \A i \in DOMAIN pipe : pipe[i].kind = "response" => Own(pipe[i])
    /\ \A m \in open : Asks(m) /\ Own(m)
    /\ \A m \in arrived : Own(m)

\* The writer ends only after the child, and a child that exited serves nothing.
EndsInOrder ==
    /\ writer = "down" => child = "exited"
    /\ child = "exited" => open = {}

\* What the child has yet to read, in order.
Queue == inbox \o outbox

\* A request is queued, open or answered: in one of these, once.
Answered == {pipe[k].id : k \in {j \in DOMAIN pipe : pipe[j].kind = "response"}} \cup Ids(arrived)
AskedIn(queue, opened, answered) ==
    /\ \A i, j \in DOMAIN queue :
         Asks(queue[i]) /\ Asks(queue[j]) /\ queue[i].id = queue[j].id => i = j
    /\ \A i \in DOMAIN queue, m \in opened : Asks(queue[i]) => queue[i].id # m.id
    /\ \A m, n \in opened : m.id = n.id => m = n
    /\ \A r \in answered : /\ \A i \in DOMAIN queue : Asks(queue[i]) => queue[i].id # r
                           /\ \A m \in opened : m.id # r
AskedOnce == AskedIn(Queue, open, Answered)

Listens(m) == m.kind = "listen"
Cancels(m, id) == m.kind = "cancel" /\ m.id = id

\* A listen request that is not the subscription's has its cancellation queued
\* behind it, and in front of the next listen request.
ListensIn(queue, opened, s) ==
    /\ \A m \in opened : Listens(m) =>
         m.id = s \/ \E j \in DOMAIN queue : Cancels(queue[j], m.id)
    /\ \A i \in DOMAIN queue : Listens(queue[i]) =>
         queue[i].id = s \/ \E j \in DOMAIN queue : i < j /\ Cancels(queue[j], queue[i].id)
    /\ \A i, j \in DOMAIN queue : i < j /\ Listens(queue[i]) /\ Listens(queue[j]) =>
         \E k \in DOMAIN queue : i < k /\ k < j /\ Cancels(queue[k], queue[i].id)
    /\ \A m \in opened, j \in DOMAIN queue : Listens(m) /\ Listens(queue[j]) =>
         \E k \in DOMAIN queue : k < j /\ Cancels(queue[k], m.id)
    /\ \A m, n \in opened : Listens(m) /\ Listens(n) => m = n
ListensInTurn == ListensIn(Queue, open, sub)

\* The notifications in the pipe are those from s + 1 to the last sent, in order,
\* and the buffer ends with s.
Notes(m) == m.kind = "note"
UnreadIn(s, p, last) ==
    /\ s <= last
    /\ \A i \in DOMAIN p : Notes(p[i]) => p[i].serial > s /\ p[i].serial <= last
    /\ \A i, j \in DOMAIN p : i < j /\ Notes(p[i]) /\ Notes(p[j]) => p[i].serial < p[j].serial
    /\ \A v \in Nat : s < v /\ v <= last => \E i \in DOMAIN p : Notes(p[i]) /\ p[i].serial = v
NotedTo(s, b) ==
    /\ b # <<>> => b[Len(b)] = s
    /\ \A k \in DOMAIN b : b[k] = b[1] + k - 1
NotesInOrder ==
    /\ \E s \in Nat : UnreadIn(s, pipe, sent) /\ NotedTo(s, notes)
    /\ \A i \in DOMAIN pipe : pipe[i].kind \in {"note", "response"}

StdioInv ==
    /\ StdioTypeOK /\ TableKept /\ MessagesOwned /\ EndsInOrder
    /\ child = "running" => AskedOnce /\ ListensInTurn
    /\ NotesInOrder /\ generation \in Nat

-----------------------------------------------------------------------------
(* Messages and sequences of them. *)

LEMMA MessageKinds ==
    /\ "request" \in Kinds /\ "listen" \in Kinds /\ "cancel" \in Kinds
    /\ "initialized" \in Kinds /\ "response" \in Kinds /\ "note" \in Kinds
BY DEF Kinds

LEMMA MessageFields ==
    /\ \A k \in Kinds, i \in Nat, n \in Nat :
         Msg(k, i, n) \in Message /\ Msg(k, i, n).kind = k /\ Msg(k, i, n).id = i
         /\ Msg(k, i, n).serial = n
    /\ \A m \in Message : /\ Reply(m) \in Message /\ Reply(m).kind = "response"
                           /\ Reply(m).id = m.id /\ Reply(m).serial = m.serial
                           /\ m.id \in Nat /\ m.serial \in Nat
    /\ NoCall \in Message /\ NoCall.id = 0
BY MessageKinds DEF Message, Msg, Reply, NoCall

LEMMA TailFacts ==
    ASSUME NEW S, NEW q \in Seq(S), q # <<>>
    PROVE  /\ Tail(q) \in Seq(S) /\ Len(q) \in Nat \ {0} /\ Len(Tail(q)) = Len(q) - 1
           /\ DOMAIN q = 1..Len(q) /\ DOMAIN Tail(q) = 1..(Len(q) - 1)
           /\ Head(q) = q[1] /\ Head(q) \in S
           /\ \A i \in DOMAIN Tail(q) : Tail(q)[i] = q[i + 1] /\ i + 1 \in DOMAIN q
<1>1. Len(q) \in Nat \ {0} /\ DOMAIN q = 1..Len(q)
  BY EmptySeq, LenProperties
<1>2. /\ Head(q) \in S /\ Tail(q) \in Seq(S) /\ Len(Tail(q)) = Len(q) - 1
      /\ \A i \in 1 .. Len(Tail(q)) : Tail(q)[i] = q[i+1]
  BY HeadTailProperties
<1>3. DOMAIN Tail(q) = 1..(Len(q) - 1)
  BY <1>1, <1>2, LenProperties
<1>4. Head(q) = q[1]
  OBVIOUS
<1> QED
  BY <1>1, <1>2, <1>3, <1>4

LEMMA AppendFacts ==
    ASSUME NEW S, NEW q \in Seq(S), NEW e \in S
    PROVE  /\ Append(q, e) \in Seq(S) /\ Len(q) \in Nat /\ Len(Append(q, e)) = Len(q) + 1
           /\ DOMAIN q = 1..Len(q) /\ DOMAIN Append(q, e) = 1..(Len(q) + 1)
           /\ \A i \in DOMAIN q : Append(q, e)[i] = q[i]
           /\ Append(q, e)[Len(q) + 1] = e
BY AppendProperties, LenProperties

\* What reading, writing and asking do to the queue.
LEMMA QueueReads ==
    ASSUME NEW a \in Seq(Message), NEW b \in Seq(Message), a # <<>>
    PROVE  Tail(a) \o b = Tail(a \o b) /\ a \o b # <<>> /\ Head(a \o b) = Head(a)
<1>1. /\ Len(a) \in Nat \ {0} /\ Tail(a) \in Seq(Message) /\ Len(Tail(a)) = Len(a) - 1
      /\ DOMAIN Tail(a) = 1..(Len(a) - 1) /\ Head(a) = a[1] /\ Len(b) \in Nat
      /\ \A i \in DOMAIN Tail(a) : Tail(a)[i] = a[i + 1]
  BY TailFacts, LenProperties
<1>2. /\ a \o b \in Seq(Message) /\ Len(a \o b) = Len(a) + Len(b)
      /\ \A i \in 1 .. Len(a) + Len(b) : (a \o b)[i] = IF i <= Len(a) THEN a[i] ELSE b[i - Len(a)]
  BY ConcatProperties
<1>3. a \o b # <<>>
  BY <1>1, <1>2, EmptySeq
<1>4. /\ Tail(a \o b) \in Seq(Message) /\ Len(Tail(a \o b)) = Len(a) + Len(b) - 1
      /\ \A i \in 1..(Len(a) + Len(b) - 1) : Tail(a \o b)[i] = (a \o b)[i + 1]
      /\ Head(a \o b) = (a \o b)[1]
  BY <1>1, <1>2, <1>3, TailFacts
<1>5. /\ Tail(a) \o b \in Seq(Message) /\ Len(Tail(a) \o b) = Len(a) - 1 + Len(b)
      /\ \A i \in 1 .. Len(a) - 1 + Len(b) :
           (Tail(a) \o b)[i] = IF i <= Len(a) - 1 THEN Tail(a)[i] ELSE b[i - (Len(a) - 1)]
  BY <1>1, ConcatProperties
<1>6. \A i \in 1..(Len(a) + Len(b) - 1) : Tail(a \o b)[i] = (Tail(a) \o b)[i]
  <2>1. SUFFICES ASSUME NEW i \in 1..(Len(a) + Len(b) - 1)
                 PROVE  Tail(a \o b)[i] = (Tail(a) \o b)[i]
    OBVIOUS
  <2>2. Tail(a \o b)[i] = IF i + 1 <= Len(a) THEN a[i + 1] ELSE b[i + 1 - Len(a)]
    BY <1>1, <1>2, <1>4
  <2>3. (Tail(a) \o b)[i] = IF i <= Len(a) - 1 THEN a[i + 1] ELSE b[i - (Len(a) - 1)]
    BY <1>1, <1>5
  <2>4. i + 1 - Len(a) = i - (Len(a) - 1) /\ (i + 1 <= Len(a) <=> i <= Len(a) - 1)
    BY <1>1
  <2> QED
    BY <2>2, <2>3, <2>4
<1>7. Tail(a) \o b = Tail(a \o b)
  BY <1>1, <1>4, <1>5, <1>6, SeqEqual
<1> QED
  BY <1>1, <1>2, <1>3, <1>4, <1>7

LEMMA QueueAsks ==
    ASSUME NEW a \in Seq(Message), NEW b \in Seq(Message), NEW m \in Message
    PROVE  a \o Append(b, m) = Append(a \o b, m)
<1>1. Append(b, m) = b \o <<m>> /\ <<m>> \in Seq(Message) /\ a \o b \in Seq(Message)
  BY AppendIsConcat, ConcatProperties
<1>2. Append(a \o b, m) = (a \o b) \o <<m>>
  BY <1>1, AppendIsConcat
<1> QED
  BY <1>1, <1>2, ConcatAssociative

LEMMA QueueWrites ==
    ASSUME NEW a \in Seq(Message), NEW b \in Seq(Message), b # <<>>
    PROVE  Append(a, Head(b)) \o Tail(b) = a \o b
<1>1. /\ Head(b) \in Message /\ Tail(b) \in Seq(Message) /\ <<Head(b)>> \in Seq(Message)
      /\ Len(b) \in Nat \ {0} /\ Len(Tail(b)) = Len(b) - 1 /\ Head(b) = b[1]
      /\ \A i \in 1..(Len(b) - 1) : Tail(b)[i] = b[i + 1]
  BY TailFacts
<1>2. <<Head(b)>> \o Tail(b) = b
  <2>1. /\ <<Head(b)>> \o Tail(b) \in Seq(Message)
        /\ Len(<<Head(b)>> \o Tail(b)) = 1 + (Len(b) - 1)
        /\ \A i \in 1..(1 + (Len(b) - 1)) :
             (<<Head(b)>> \o Tail(b))[i] = IF i <= 1 THEN <<Head(b)>>[i] ELSE Tail(b)[i - 1]
    <3>1. Len(<<Head(b)>>) = 1
      OBVIOUS
    <3> HIDE <1>1
    <3> QED
      BY <1>1, <3>1, ConcatProperties
  <2>2. \A i \in 1..Len(b) : (<<Head(b)>> \o Tail(b))[i] = b[i]
    <3>1. SUFFICES ASSUME NEW i \in 1..Len(b) PROVE (<<Head(b)>> \o Tail(b))[i] = b[i]
      OBVIOUS
    <3>2. CASE i = 1
      BY <1>1, <2>1, <3>2
    <3>3. CASE i # 1
      <4>1. i - 1 \in 1..(Len(b) - 1) /\ (i - 1) + 1 = i
        BY <1>1, <3>3
      <4> QED
        BY <1>1, <2>1, <3>3, <4>1
    <3> QED
      BY <3>2, <3>3
  <2>3. 1 + (Len(b) - 1) = Len(b)
    BY <1>1
  <2> QED
    BY <2>1, <2>2, <2>3, SeqEqual
<1>3. Append(a, Head(b)) = a \o <<Head(b)>>
  BY <1>1, AppendIsConcat
<1> QED
  BY <1>1, <1>2, <1>3, ConcatAssociative

-----------------------------------------------------------------------------
(* The first state. *)

LEMMA StdioInitEstablishes == StdioInit => StdioInv
<1> SUFFICES ASSUME StdioInit PROVE StdioInv
  OBVIOUS
<1>1. StdioTypeOK
  BY MessageFields DEF StdioInit, StdioTypeOK
<1>2. TableKept /\ EndsInOrder
  BY MessageFields DEF StdioInit, TableKept, EndsInOrder, Ids
<1>3. MessagesOwned
  BY DEF StdioInit, MessagesOwned
<1>4. AskedOnce /\ ListensInTurn
  <2>1. Queue = <<>> /\ open = {} /\ pipe = <<>> /\ arrived = {}
    BY ConcatEmptySeq DEF StdioInit, Queue
  <2> QED
    BY <2>1 DEF AskedOnce, AskedIn, Answered, Ids, ListensInTurn, ListensIn
<1>5. NotesInOrder
  BY DEF StdioInit, NotesInOrder, UnreadIn, NotedTo
<1>6. generation \in Nat
  BY DEF StdioInit
<1> QED
  BY <1>1, <1>2, <1>3, <1>4, <1>5, <1>6 DEF StdioInv

-----------------------------------------------------------------------------
(* Types. *)

LEMMA StdioTypesKept == ASSUME StdioTypeOK, StdioNext PROVE StdioTypeOK'
<1> USE DEF StdioTypeOK
<1>1. CASE StartCall
  <2>1. next_id + 1 \in Nat \ {0} /\ serial + 1 \in Nat /\ next_id \in Nat
    OBVIOUS
  <2>2. Msg("request", next_id, serial + 1) \in Message
        /\ Msg("request", next_id, serial + 1).id = next_id
    BY <2>1, MessageKinds, MessageFields
  <2>3. Append(outbox, Msg("request", next_id, serial + 1)) \in Seq(Message)
    BY <2>2, AppendFacts
  <2> QED
    BY <1>1, <2>1, <2>2, <2>3 DEF StartCall, TakeId, childVars
<1>2. CASE WriteMessage
  <2>1. Head(outbox) \in Message /\ Tail(outbox) \in Seq(Message)
    BY <1>2, TailFacts DEF WriteMessage
  <2>2. Append(inbox, Head(outbox)) \in Seq(Message) /\ Reply(Head(outbox)) \in Message
    BY <2>1, AppendFacts, MessageFields
  <2> QED
    BY <1>2, <2>1, <2>2 DEF WriteMessage
<1>3. CASE ReadMessage
  <2>1. Head(pipe) \in Message /\ Tail(pipe) \in Seq(Message) /\ Head(pipe).serial \in Nat
    BY <1>3, TailFacts, MessageFields DEF ReadMessage
  <2>2. Buffer(notes, Head(pipe).serial) \in Seq(Nat)
    <3>1. notes # <<>> => Tail(notes) \in Seq(Nat)
      BY TailFacts
    <3>2. Len(notes) >= NotificationLimit => notes # <<>>
      BY NotificationAssumption, EmptySeq
    <3> QED
      BY <2>1, <3>1, <3>2, AppendFacts DEF Buffer
  <2> QED
    BY <1>3, <2>1, <2>2 DEF ReadMessage
<1>4. CASE Expire
  BY <1>4, MessageFields DEF Expire, CallReturns, CallFails, End, Forget, childVars
<1>5. CASE Probed
  <2>1. call' = call /\ sub' = sub /\ serial' = serial /\ sent' = sent
    BY <1>5 DEF Probed, childVars
  <2>2. CASE next_id' = next_id /\ notes' = notes /\ UNCHANGED childVars /\ UNCHANGED wires
    BY <2>1, <2>2 DEF childVars, wires
  <2>3. CASE /\ child' = "running" /\ inbox' = <<>> /\ open' = {} /\ pipe' = <<>>
             /\ next_id' = 1 /\ channels' = {} /\ outbox' = <<>> /\ writer' = "up"
             /\ arrived' = {} /\ notes' = <<>>
    BY <2>1, <2>3
  <2> QED
    BY <1>5, <2>2, <2>3 DEF Probed
<1>6. CASE Initialized
  <2>1. Append(outbox, Msg("initialized", 0, 0)) \in Seq(Message)
    BY MessageFields, MessageKinds, AppendFacts
  <2> QED
    BY <1>6, <2>1 DEF Initialized, childVars
<1>7. Cancelled \in Seq(Message)
  BY MessageFields, MessageKinds, AppendFacts DEF Cancelled
<1>8. CASE StartSubscription
  <2>1. next_id + 1 \in Nat \ {0} /\ serial + 1 \in Nat /\ next_id \in Nat
    OBVIOUS
  <2>2. Msg("listen", next_id, serial + 1) \in Message
    BY <2>1, MessageKinds, MessageFields
  <2>3. Append(Cancelled, Msg("listen", next_id, serial + 1)) \in Seq(Message)
    BY <1>7, <2>2, AppendFacts
  <2>4. Dropped \subseteq Message
    BY DEF Dropped
  <2>5. sub' \in Nat
    BY <1>8, <2>1 DEF StartSubscription
  <2>6. outbox' \in Seq(Message)
    BY <1>8, <2>3 DEF StartSubscription
  <2>7. channels' \subseteq Nat
    BY <1>8, <2>1 DEF StartSubscription
  <2> QED
    BY <1>8, <2>1, <2>4, <2>5, <2>6, <2>7 DEF StartSubscription, TakeId, childVars
<1>9. CASE CancelSubscription \/ PollClosed
  <2>1. Dropped \subseteq Message
    BY DEF Dropped
  <2>2. channels' \subseteq Nat /\ sub' \in Nat
    <3>1. (channels' = channels \ {sub} \/ channels' = channels) /\ sub' = 0
      BY <1>9 DEF CancelSubscription, PollClosed
    <3> QED
      BY <3>1
  <2>4. arrived' \subseteq Message
    BY <1>9, <2>1 DEF CancelSubscription, PollClosed
  <2>3. outbox' \in Seq(Message)
    BY <1>7, <1>9 DEF CancelSubscription, PollClosed
  <2> QED
    BY <1>9, <2>2, <2>3, <2>4 DEF CancelSubscription, PollClosed, childVars
<1>10. CASE DrainNotes
  BY <1>10 DEF DrainNotes, wires, childVars
<1>11. CASE ChildReads
  <2>1. Head(inbox) \in Message /\ Tail(inbox) \in Seq(Message)
    BY <1>11, TailFacts DEF ChildReads
  <2> QED
    BY <1>11, <2>1 DEF ChildReads, wires
<1>12. CASE ChildNotifies
  <2>1. Msg("note", 0, sent + 1) \in Message /\ sent + 1 \in Nat
    BY MessageFields, MessageKinds
  <2>2. Append(pipe, Msg("note", 0, sent + 1)) \in Seq(Message)
    BY <2>1, AppendFacts
  <2> QED
    BY <1>12, <2>1, <2>2 DEF ChildNotifies, wires
<1>13. CASE ChildExits
  BY <1>13 DEF ChildExits, wires
<1>14. CASE \E m \in open : ChildAnswers(m)
  <2>1. PICK m \in open : ChildAnswers(m)
    BY <1>14
  <2>2. Append(pipe, Reply(m)) \in Seq(Message)
    BY <2>1, MessageFields, AppendFacts
  <2> QED
    BY <2>1, <2>2 DEF ChildAnswers, wires
<1> QED
  BY <1>1, <1>2, <1>3, <1>4, <1>5, <1>6, <1>8, <1>9, <1>10, <1>11, <1>12, <1>13, <1>14
  DEF StdioNext

-----------------------------------------------------------------------------
(* The table of pending requests. *)

\* A response goes into the channel of its id only.
LEMMA ResponseFiled ==
    ASSUME StdioTypeOK, TableKept, NEW m \in Message, m.id \in channels,
           channels' = channels \ {m.id}, arrived' = arrived \cup {m}, call' = call, sub' = sub,
           next_id' = next_id, ended' = ended, phase' = phase
    PROVE  TableKept'
<1>1. Ids(arrived') = Ids(arrived) \cup {m.id}
  BY DEF Ids
<1> QED
  BY <1>1 DEF TableKept

LEMMA TableKeeps == ASSUME StdioInv, StdioNext PROVE TableKept'
<1>0. StdioTypeOK /\ TableKept /\ call.id \in Nat /\ sub \in Nat /\ next_id \in Nat \ {0}
  BY MessageFields DEF StdioInv, StdioTypeOK
<1>1. CASE StartCall
  <2>1. CASE writer = "up"
    <3>1. /\ call' = Msg("request", next_id, serial + 1) /\ channels' = channels \cup {call'.id}
          /\ arrived' = arrived /\ sub' = sub /\ next_id' = next_id + 1 /\ phase' = phase
          /\ ended' = "none" /\ call = NoCall
      BY <1>1, <2>1 DEF StartCall, TakeId
    <3>2. call'.id = next_id /\ call.id = 0
      BY <3>1 DEF NoCall, Msg
    <3>3. Ids(arrived') = Ids(arrived)
      BY <3>1
    <3> QED
      BY <1>0, <3>1, <3>2, <3>3 DEF TableKept
  <2>2. CASE writer # "up"
    <3>1. /\ call' = call /\ call = NoCall /\ channels' = channels /\ arrived' = arrived
          /\ sub' = sub /\ next_id' = next_id + 1 /\ phase' = phase
      BY <1>1, <2>2 DEF StartCall, TakeId
    <3>2. Ids(arrived') = Ids(arrived)
      BY <3>1
    <3> QED
      BY <1>0, <3>1, <3>2 DEF TableKept
  <2> QED
    BY <2>1, <2>2
<1>2. ASSUME call' = call, channels' = channels, arrived' = arrived, sub' = sub,
             next_id' = next_id, phase' = phase, ended' = ended
      PROVE  TableKept'
  <2>1. Ids(arrived') = Ids(arrived)
    BY <1>2
  <2> QED
    BY <1>0, <1>2, <2>1 DEF TableKept
<1>3. CASE WriteMessage
  <2>1. Head(outbox) \in Message
    BY <1>0, <1>3, TailFacts DEF WriteMessage, StdioTypeOK
  <2>2. call' = call /\ sub' = sub /\ next_id' = next_id /\ phase' = phase /\ ended' = ended
    BY <1>3 DEF WriteMessage, client
  <2>3. CASE channels' = channels /\ arrived' = arrived
    BY <1>2, <2>2, <2>3
  <2>4. CASE /\ Head(outbox).id \in channels /\ channels' = channels \ {Head(outbox).id}
             /\ arrived' = arrived \cup {Reply(Head(outbox))}
    <3>1. Reply(Head(outbox)) \in Message /\ Reply(Head(outbox)).id = Head(outbox).id
      BY <2>1, MessageFields
    <3> QED
      BY <1>0, <2>2, <2>4, <3>1, ResponseFiled
  <2> QED
    BY <1>3, <2>3, <2>4 DEF WriteMessage
<1>4. CASE ReadMessage
  <2>1. Head(pipe) \in Message
    BY <1>0, <1>4, TailFacts DEF ReadMessage, StdioTypeOK
  <2>2. call' = call /\ sub' = sub /\ next_id' = next_id /\ phase' = phase /\ ended' = ended
    BY <1>4 DEF ReadMessage, client
  <2>3. CASE channels' = channels /\ arrived' = arrived
    BY <1>2, <2>2, <2>3
  <2>4. CASE /\ channels' = channels \ {Head(pipe).id}
             /\ arrived' = IF Head(pipe).id \in channels THEN arrived \cup {Head(pipe)} ELSE arrived
    <3>1. CASE Head(pipe).id \in channels
      BY <1>0, <2>1, <2>2, <2>4, <3>1, ResponseFiled
    <3>2. CASE Head(pipe).id \notin channels
      BY <1>2, <2>2, <2>4, <3>2
    <3> QED
      BY <3>1, <3>2
  <2> QED
    BY <1>4, <2>3, <2>4 DEF ReadMessage
<1>5. CASE CallReturns
  <2>1. /\ call' = NoCall /\ channels' = channels /\ arrived' = {m \in arrived : m.id # call.id}
        /\ sub' = sub /\ next_id' = next_id /\ phase' = phase /\ call.id \in Ids(arrived)
    BY <1>5 DEF CallReturns, End
  <2>2. Ids(arrived') = Ids(arrived) \ {call.id} /\ call'.id = 0
    BY <2>1, MessageFields DEF Ids
  <2> QED
    BY <1>0, <2>1, <2>2 DEF TableKept
<1>6. CASE CallFails
  <2>1. /\ call' = NoCall /\ channels' = channels \ {call.id} /\ arrived' = arrived
        /\ sub' = sub /\ next_id' = next_id /\ phase' = phase /\ call.id \notin Ids(arrived)
    BY <1>6 DEF CallFails, End, Forget
  <2>2. Ids(arrived') = Ids(arrived) /\ call'.id = 0
    BY <2>1, MessageFields
  <2> QED
    BY <1>0, <2>1, <2>2 DEF TableKept
<1>7. CASE Probed
  <2>0. /\ phase = "probe" /\ ended # "none" /\ ended' = "none" /\ call' = call /\ sub' = sub
        /\ call = NoCall /\ call.id = 0 /\ sub = 0
    BY <1>0, <1>7, MessageFields DEF Probed, TableKept
  <2>1. CASE next_id' = next_id /\ UNCHANGED wires
    <3>1. channels' = channels /\ arrived' = arrived /\ Ids(arrived') = Ids(arrived)
      BY <2>1 DEF wires
    <3> QED
      BY <1>0, <2>0, <2>1, <3>1 DEF TableKept
  <2>2. CASE next_id' = 1 /\ channels' = {} /\ arrived' = {}
    <3>1. Ids(arrived') = {}
      BY <2>2 DEF Ids
    <3> QED
      BY <1>0, <2>0, <2>2, <3>1 DEF TableKept
  <2> QED
    BY <1>7, <2>1, <2>2 DEF Probed
<1>8. CASE Initialized
  <2>1. /\ phase = "initialize" /\ ended # "none" /\ ended' = "none" /\ call' = call
        /\ sub' = sub /\ channels' = channels /\ arrived' = arrived /\ next_id' = next_id
        /\ Ids(arrived') = Ids(arrived) /\ sub = 0
    BY <1>0, <1>8 DEF Initialized, TableKept
  <2> QED
    BY <1>0, <2>1 DEF TableKept
<1>9. CASE StartSubscription
  <2>1. /\ phase = "ready" /\ call = NoCall /\ call.id = 0 /\ call' = call /\ ended' = ended
        /\ phase' = phase /\ next_id' = next_id + 1 /\ arrived' = {m \in arrived : m.id # sub}
        /\ \/ channels' = (channels \ {sub}) \cup {next_id} /\ sub' = next_id
           \/ channels' = channels \ {sub} /\ sub' = 0
    BY <1>9, MessageFields DEF StartSubscription, Free, TakeId, Dropped, client
  <2>2. Ids(arrived') = Ids(arrived) \ {sub}
    BY <2>1 DEF Ids
  <2>3. Ids(arrived') = {} /\ channels \ {sub} = {}
    BY <1>0, <2>1, <2>2 DEF TableKept
  <2> QED
    BY <1>0, <2>1, <2>3 DEF TableKept
<1>10. CASE CancelSubscription \/ PollClosed
  <2>1. /\ phase = "ready" /\ call = NoCall /\ call.id = 0 /\ call' = call /\ ended' = ended
        /\ phase' = phase /\ next_id' = next_id /\ arrived' = {m \in arrived : m.id # sub}
        /\ \/ channels' = channels \ {sub}
           \/ channels' = channels /\ sub \in Ids(arrived)
        /\ sub' = 0
    BY <1>10, MessageFields DEF CancelSubscription, PollClosed, Free, Dropped, client
  <2>2. Ids(arrived') = Ids(arrived) \ {sub}
    BY <2>1 DEF Ids
  <2>3. Ids(arrived') = {} /\ channels' = {}
    BY <1>0, <2>1, <2>2 DEF TableKept
  <2> QED
    BY <1>0, <2>1, <2>3 DEF TableKept
<1>11. CASE DrainNotes \/ ChildReads \/ ChildNotifies \/ ChildExits
            \/ \E m \in open : ChildAnswers(m)
  BY <1>2, <1>11 DEF DrainNotes, ChildReads, ChildNotifies, ChildExits, ChildAnswers, wires, client
<1> QED
  BY <1>1, <1>3, <1>4, <1>5, <1>6, <1>7, <1>8, <1>9, <1>10, <1>11 DEF StdioNext, Expire

-----------------------------------------------------------------------------
(* Messages and their requests. *)

LEMMA EndsKept == ASSUME StdioInv, StdioNext PROVE EndsInOrder'
<1>0. EndsInOrder /\ writer \in {"up", "down"} /\ child \in {"running", "exited"}
  BY DEF StdioInv, StdioTypeOK
<1>1. CASE StartCall \/ Expire \/ Initialized \/ StartSubscription \/ CancelSubscription \/ PollClosed
  BY <1>0, <1>1 DEF StartCall, Expire, CallReturns, CallFails, Initialized, StartSubscription,
     CancelSubscription, PollClosed, EndsInOrder, childVars
<1>2. CASE WriteMessage \/ ReadMessage \/ DrainNotes
  BY <1>0, <1>2 DEF WriteMessage, ReadMessage, DrainNotes, EndsInOrder, childVars, wires
<1>3. CASE Probed
  BY <1>0, <1>3 DEF Probed, EndsInOrder, childVars, wires
<1>4. CASE ChildReads \/ ChildNotifies \/ ChildExits \/ \E m \in open : ChildAnswers(m)
  BY <1>0, <1>4 DEF ChildReads, ChildNotifies, ChildExits, ChildAnswers, EndsInOrder, wires
<1> QED
  BY <1>1, <1>2, <1>3, <1>4 DEF StdioNext

\* Messages stay owned when ids are only ever used anew.
LEMMA StaysOwn ==
    ASSUME StdioTypeOK, next_id' = next_id \/ next_id' = next_id + 1,
           call' = call \/ call'.id = 0 \/ call'.id = next_id
    PROVE  \A m : OwnTo(m, next_id, call) => OwnTo(m, next_id', call')
BY DEF StdioTypeOK, OwnTo

\* All places at once: messages move, go, or are new and owned.
LEMMA OwnedKept ==
    ASSUME StdioTypeOK, StdioTypeOK', MessagesOwned,
           \A m : OwnTo(m, next_id, call) => OwnTo(m, next_id', call'),
           \A i \in DOMAIN outbox' :
             \/ ~Asks(outbox'[i]) \/ OwnTo(outbox'[i], next_id', call')
             \/ \E j \in DOMAIN outbox : outbox'[i] = outbox[j],
           \A i \in DOMAIN inbox' :
             (\E j \in DOMAIN inbox : inbox'[i] = inbox[j])
             \/ (\E j \in DOMAIN outbox : inbox'[i] = outbox[j]),
           \A i \in DOMAIN pipe' :
             \/ pipe'[i].kind = "note" \/ OwnTo(pipe'[i], next_id, call)
             \/ \E j \in DOMAIN pipe : pipe'[i] = pipe[j],
           \A m \in open' : m \in open \/ (Asks(m) /\ OwnTo(m, next_id, call)),
           \A m \in arrived' : m \in arrived \/ OwnTo(m, next_id, call)
    PROVE  MessagesOwned'
<1>1. \A i \in DOMAIN outbox' : Asks(outbox'[i]) => OwnTo(outbox'[i], next_id', call')
  BY DEF MessagesOwned, Own
<1>2. \A i \in DOMAIN inbox' : Asks(inbox'[i]) => OwnTo(inbox'[i], next_id', call')
  BY DEF MessagesOwned, Own
<1>3. \A i \in DOMAIN pipe' : pipe'[i].kind = "response" => OwnTo(pipe'[i], next_id', call')
  BY DEF MessagesOwned, Own
<1>4. /\ \A m \in open' : Asks(m) /\ OwnTo(m, next_id', call')
      /\ \A m \in arrived' : OwnTo(m, next_id', call')
  BY DEF MessagesOwned, Own
<1> QED
  BY <1>1, <1>2, <1>3, <1>4 DEF MessagesOwned, Own, Asks

LEMMA MessagesKeep == ASSUME StdioInv, StdioNext PROVE MessagesOwned'
<1>0. StdioTypeOK /\ StdioTypeOK' /\ MessagesOwned /\ TableKept
  BY StdioTypesKept DEF StdioInv
<1>a. outbox' = outbox =>
        \A i \in DOMAIN outbox' : \E j \in DOMAIN outbox : outbox'[i] = outbox[j]
  OBVIOUS
<1>b. inbox' = inbox =>
        \A i \in DOMAIN inbox' : \E j \in DOMAIN inbox : inbox'[i] = inbox[j]
  OBVIOUS
<1>c. pipe' = pipe =>
        \A i \in DOMAIN pipe' : \E j \in DOMAIN pipe : pipe'[i] = pipe[j]
  OBVIOUS
<1>d. ASSUME NEW m \in Message, outbox' = Append(outbox, m)
      PROVE  \A i \in DOMAIN outbox' :
               outbox'[i] = m \/ \E j \in DOMAIN outbox : outbox'[i] = outbox[j]
  BY <1>0, <1>d, AppendFacts DEF StdioTypeOK
<1>e. next_id' = next_id /\ call' = call =>
        \A m : OwnTo(m, next_id, call) => OwnTo(m, next_id', call')
  OBVIOUS
<1>1. CASE StartCall
  <2>1. next_id \in Nat \ {0} /\ serial \in Nat
    BY <1>0 DEF StdioTypeOK
  <2> DEFINE m == Msg("request", next_id, serial + 1)
  <2>2. m \in Message /\ m.id = next_id
    BY <2>1, MessageFields, MessageKinds
  <2> HIDE DEF m
  <2>3. /\ next_id' = next_id + 1 /\ arrived' = arrived /\ inbox' = inbox /\ pipe' = pipe
        /\ open' = open
        /\ \/ outbox' = Append(outbox, m) /\ call' = m
           \/ outbox' = outbox /\ call' = call
    BY <1>1 DEF StartCall, TakeId, childVars, m
  <2>4. call' = m => OwnTo(m, next_id', call')
    BY <2>1, <2>2, <2>3 DEF OwnTo
  <2>5. \A n : OwnTo(n, next_id, call) => OwnTo(n, next_id', call')
    BY <1>0, <2>2, <2>3, StaysOwn
  <2>6. \A i \in DOMAIN outbox' :
             \/ OwnTo(outbox'[i], next_id', call')
             \/ \E j \in DOMAIN outbox : outbox'[i] = outbox[j]
    BY <1>a, <1>d, <2>2, <2>3, <2>4
  <2> QED
    BY <1>0, <1>b, <1>c, <2>3, <2>5, <2>6, OwnedKept
<1>2. CASE WriteMessage
  <2>1. outbox # <<>> /\ outbox' = Tail(outbox) /\ next_id' = next_id /\ call' = call
        /\ pipe' = pipe /\ open' = open
    BY <1>2 DEF WriteMessage
  <2>2. /\ Head(outbox) = outbox[1] /\ 1 \in DOMAIN outbox /\ outbox[1] \in Message
        /\ \A i \in DOMAIN outbox' : \E j \in DOMAIN outbox : outbox'[i] = outbox[j]
    BY <1>0, <2>1, TailFacts DEF StdioTypeOK
  <2>3. \A i \in DOMAIN inbox' :
             (\E j \in DOMAIN inbox : inbox'[i] = inbox[j])
             \/ (\E j \in DOMAIN outbox : inbox'[i] = outbox[j])
    <3>1. ASSUME inbox' = Append(inbox, outbox[1])
          PROVE  \A i \in DOMAIN inbox' :
                   inbox'[i] = outbox[1] \/ \E j \in DOMAIN inbox : inbox'[i] = inbox[j]
      BY <1>0, <2>2, <3>1, AppendFacts DEF StdioTypeOK
    <3>2. inbox' = inbox \/ inbox' = Append(inbox, outbox[1])
      BY <1>2, <2>2 DEF WriteMessage
    <3> QED
      BY <1>b, <2>2, <3>1, <3>2
  <2>4. \A m \in arrived' : m \in arrived \/ OwnTo(m, next_id, call)
    <3>1. \/ arrived' = arrived
          \/ Asks(outbox[1]) /\ arrived' = arrived \cup {Reply(outbox[1])}
      BY <1>2, <2>2 DEF WriteMessage, Asks
    <3>2. Asks(outbox[1]) => OwnTo(outbox[1], next_id, call)
      BY <1>0, <2>2 DEF MessagesOwned, Own
    <3>3. Asks(outbox[1]) => OwnTo(Reply(outbox[1]), next_id, call)
      BY <2>2, <3>2, MessageFields DEF OwnTo
    <3> QED
      BY <3>1, <3>3
  <2> QED
    BY <1>0, <1>c, <1>e, <2>1, <2>2, <2>3, <2>4, OwnedKept
<1>3. CASE ReadMessage
  <2>1. /\ pipe # <<>> /\ pipe' = Tail(pipe) /\ next_id' = next_id /\ call' = call
        /\ inbox' = inbox /\ outbox' = outbox /\ open' = open
    BY <1>3 DEF ReadMessage
  <2>2. /\ Head(pipe) = pipe[1] /\ 1 \in DOMAIN pipe
        /\ \A i \in DOMAIN pipe' : \E j \in DOMAIN pipe : pipe'[i] = pipe[j]
    BY <1>0, <2>1, TailFacts DEF StdioTypeOK
  <2>3. \/ arrived' = arrived
        \/ pipe[1].kind = "response" /\ arrived' = arrived \cup {pipe[1]}
    BY <1>3, <2>2 DEF ReadMessage
  <2>4. pipe[1].kind = "response" => OwnTo(pipe[1], next_id, call)
    BY <1>0, <2>2 DEF MessagesOwned, Own
  <2>5. \A m \in arrived' : m \in arrived \/ OwnTo(m, next_id, call)
    BY <2>3, <2>4
  <2> QED
    BY <1>0, <1>a, <1>b, <1>e, <2>1, <2>2, <2>5, OwnedKept
<1>4. CASE Expire
  <2>1. /\ call' = NoCall /\ next_id' = next_id /\ outbox' = outbox /\ inbox' = inbox
        /\ pipe' = pipe /\ open' = open
    BY <1>4 DEF Expire, CallReturns, CallFails, End, childVars
  <2>2. arrived' \subseteq arrived
    BY <1>4 DEF Expire, CallReturns, CallFails
  <2>3. \A n : OwnTo(n, next_id, call) => OwnTo(n, next_id', call')
    BY <1>0, <2>1, StaysOwn, MessageFields
  <2> QED
    BY <1>0, <1>a, <1>b, <1>c, <2>1, <2>2, <2>3, OwnedKept
<1>5. CASE Probed
  <2>1. CASE next_id' = next_id /\ UNCHANGED childVars /\ UNCHANGED wires /\ call' = call
    <3>1. /\ outbox' = outbox /\ inbox' = inbox /\ pipe' = pipe /\ open' = open
          /\ arrived' = arrived
      BY <2>1 DEF childVars, wires
    <3> QED
      BY <1>0, <1>a, <1>b, <1>c, <1>e, <2>1, <3>1, OwnedKept
  <2>2. CASE inbox' = <<>> /\ open' = {} /\ pipe' = <<>> /\ outbox' = <<>> /\ arrived' = {}
    BY <2>2 DEF MessagesOwned
  <2> QED
    BY <1>5, <2>1, <2>2 DEF Probed
<1>6. CASE Initialized
  <2> DEFINE m == Msg("initialized", 0, 0)
  <2>1. m \in Message /\ ~Asks(m)
    BY MessageFields, MessageKinds DEF Asks
  <2>2. outbox' = outbox \/ outbox' = Append(outbox, m)
    BY <1>6 DEF Initialized
  <2> HIDE DEF m
  <2>3. /\ call' = call /\ next_id' = next_id /\ inbox' = inbox /\ pipe' = pipe
        /\ open' = open /\ arrived' = arrived
    BY <1>6 DEF Initialized, childVars
  <2>4. \A i \in DOMAIN outbox' :
             ~Asks(outbox'[i]) \/ \E j \in DOMAIN outbox : outbox'[i] = outbox[j]
    BY <1>a, <1>d, <2>1, <2>2
  <2> QED
    BY <1>0, <1>b, <1>c, <1>e, <2>3, <2>4, OwnedKept
<1>7. /\ Cancelled \in Seq(Message)
      /\ \A i \in DOMAIN Cancelled :
           ~Asks(Cancelled[i]) \/ \E j \in DOMAIN outbox : Cancelled[i] = outbox[j]
  <2> DEFINE m == Msg("cancel", sub, 0)
  <2>1. m \in Message /\ ~Asks(m)
    BY <1>0, MessageFields, MessageKinds DEF Asks, StdioTypeOK
  <2>2. Cancelled = outbox \/ Cancelled = Append(outbox, m)
    BY DEF Cancelled
  <2> HIDE DEF m
  <2>3. outbox \in Seq(Message)
    BY <1>0 DEF StdioTypeOK
  <2>4. CASE Cancelled = outbox
    BY <2>3, <2>4
  <2>5. CASE Cancelled = Append(outbox, m)
    <3>1. /\ Append(outbox, m) \in Seq(Message) /\ DOMAIN outbox = 1..Len(outbox)
          /\ DOMAIN Append(outbox, m) = 1..(Len(outbox) + 1) /\ Len(outbox) \in Nat
          /\ \A i \in DOMAIN outbox : Append(outbox, m)[i] = outbox[i]
          /\ Append(outbox, m)[Len(outbox) + 1] = m
      BY <2>1, <2>3, AppendFacts
    <3> QED
      BY <2>1, <2>5, <3>1
  <2> QED
    BY <2>2, <2>4, <2>5
<1>8. CASE StartSubscription
  <2>1. next_id \in Nat \ {0} /\ serial \in Nat
    BY <1>0 DEF StdioTypeOK
  <2> DEFINE m == Msg("listen", next_id, serial + 1)
  <2>2. m \in Message /\ m.id = next_id
    BY <2>1, MessageFields, MessageKinds
  <2> HIDE DEF m
  <2>3. /\ next_id' = next_id + 1 /\ inbox' = inbox /\ pipe' = pipe /\ open' = open
        /\ call' = call /\ call = NoCall
        /\ outbox' = Append(Cancelled, m) \/ outbox' = outbox
    BY <1>8 DEF StartSubscription, Free, TakeId, childVars, m
  <2>4. arrived' \subseteq arrived
    BY <1>8 DEF StartSubscription, Dropped
  <2>5. OwnTo(m, next_id', call')
    BY <2>1, <2>2, <2>3, MessageFields DEF OwnTo
  <2>6. \A n : OwnTo(n, next_id, call) => OwnTo(n, next_id', call')
    BY <1>0, <2>3, StaysOwn
  <2>7. \A i \in DOMAIN outbox' :
             \/ ~Asks(outbox'[i]) \/ OwnTo(outbox'[i], next_id', call')
             \/ \E j \in DOMAIN outbox : outbox'[i] = outbox[j]
    <3>1. ASSUME outbox' = Append(Cancelled, m)
          PROVE  \A i \in DOMAIN outbox' :
                   outbox'[i] = m \/ \E j \in DOMAIN Cancelled : outbox'[i] = Cancelled[j]
      BY <1>7, <2>2, <3>1, AppendFacts
    <3> QED
      BY <1>7, <1>a, <2>3, <2>5, <3>1
  <2> QED
    BY <1>0, <1>b, <1>c, <2>3, <2>4, <2>6, <2>7, OwnedKept
<1>9. CASE CancelSubscription \/ PollClosed
  <2>1. /\ next_id' = next_id /\ inbox' = inbox /\ pipe' = pipe /\ open' = open
        /\ call' = call /\ (outbox' = Cancelled \/ outbox' = outbox)
    BY <1>9 DEF CancelSubscription, PollClosed, childVars
  <2>2. arrived' \subseteq arrived
    BY <1>9 DEF CancelSubscription, PollClosed, Dropped
  <2>3. \A i \in DOMAIN outbox' :
             ~Asks(outbox'[i]) \/ \E j \in DOMAIN outbox : outbox'[i] = outbox[j]
    BY <1>7, <1>a, <2>1
  <2> QED
    BY <1>0, <1>b, <1>c, <1>e, <2>1, <2>2, <2>3, OwnedKept
<1>10. CASE DrainNotes \/ ChildExits
  <2>1. /\ call' = call /\ next_id' = next_id /\ inbox' = inbox /\ pipe' = pipe
        /\ outbox' = outbox /\ open' \subseteq open /\ arrived' = arrived
    BY <1>10 DEF DrainNotes, ChildExits, childVars, wires
  <2> QED
    BY <1>0, <1>a, <1>b, <1>c, <1>e, <2>1, OwnedKept
<1>11. CASE ChildReads
  <2>1. /\ inbox # <<>> /\ inbox' = Tail(inbox) /\ call' = call /\ next_id' = next_id
        /\ pipe' = pipe /\ outbox' = outbox /\ arrived' = arrived
    BY <1>11 DEF ChildReads, wires
  <2>2. /\ Head(inbox) = inbox[1] /\ 1 \in DOMAIN inbox
        /\ \A i \in DOMAIN inbox' : \E j \in DOMAIN inbox : inbox'[i] = inbox[j]
    BY <1>0, <2>1, TailFacts DEF StdioTypeOK
  <2>3. \A m \in open' : m \in open \/ (Asks(m) /\ m = inbox[1])
    BY <1>11, <2>2 DEF ChildReads, Asks
  <2>4. Asks(inbox[1]) => OwnTo(inbox[1], next_id, call)
    BY <1>0, <2>2 DEF MessagesOwned, Own
  <2>5. \A m \in open' : m \in open \/ (Asks(m) /\ OwnTo(m, next_id, call))
    BY <2>3, <2>4
  <2> QED
    BY <1>0, <1>a, <1>c, <1>e, <2>1, <2>2, <2>5, OwnedKept
<1>12. CASE ChildNotifies
  <2> DEFINE m == Msg("note", 0, sent + 1)
  <2>0. sent + 1 \in Nat /\ 0 \in Nat /\ pipe \in Seq(Message)
    BY <1>0 DEF StdioTypeOK
  <2>1. m \in Message /\ m.kind = "note"
    BY <2>0, MessageFields, MessageKinds
  <2>2. /\ call' = call /\ next_id' = next_id /\ inbox' = inbox /\ pipe' = Append(pipe, m)
        /\ outbox' = outbox /\ open' = open /\ arrived' = arrived
    BY <1>12 DEF ChildNotifies, wires
  <2> HIDE DEF m
  <2>3. \A i \in DOMAIN pipe' :
             pipe'[i].kind = "note" \/ \E j \in DOMAIN pipe : pipe'[i] = pipe[j]
    <3>1. /\ DOMAIN pipe = 1..Len(pipe) /\ Len(pipe) \in Nat
          /\ DOMAIN Append(pipe, m) = 1..(Len(pipe) + 1)
          /\ \A i \in DOMAIN pipe : Append(pipe, m)[i] = pipe[i]
          /\ Append(pipe, m)[Len(pipe) + 1] = m
      BY <2>0, <2>1, AppendFacts
    <3> QED
      BY <2>1, <2>2, <3>1
  <2> QED
    BY <1>0, <1>a, <1>b, <1>e, <2>2, <2>3, OwnedKept
<1>13. CASE \E m \in open : ChildAnswers(m)
  <2>0. PICK m \in open : ChildAnswers(m)
    BY <1>13
  <2>1. m \in Message /\ Reply(m) \in Message /\ OwnTo(m, next_id, call)
    BY <1>0, MessageFields DEF StdioTypeOK, MessagesOwned, Own
  <2>2. /\ call' = call /\ next_id' = next_id /\ inbox' = inbox /\ pipe' = Append(pipe, Reply(m))
        /\ outbox' = outbox /\ open' \subseteq open /\ arrived' = arrived
    BY <2>0 DEF ChildAnswers, wires
  <2>3. OwnTo(Reply(m), next_id, call)
    BY <2>1, MessageFields DEF OwnTo
  <2>4. \A i \in DOMAIN pipe' :
             OwnTo(pipe'[i], next_id, call) \/ \E j \in DOMAIN pipe : pipe'[i] = pipe[j]
    <3>0. pipe \in Seq(Message)
      BY <1>0 DEF StdioTypeOK
    <3>1. /\ DOMAIN pipe = 1..Len(pipe) /\ Len(pipe) \in Nat
          /\ DOMAIN pipe' = 1..(Len(pipe) + 1)
          /\ \A i \in DOMAIN pipe : pipe'[i] = pipe[i]
          /\ pipe'[Len(pipe) + 1] = Reply(m)
      BY <2>1, <2>2, <3>0, AppendFacts
    <3>2. \A i \in DOMAIN pipe' : pipe'[i] = Reply(m) \/ \E j \in DOMAIN pipe : pipe'[i] = pipe[j]
      BY <3>1
    <3> QED
      BY <2>3, <3>2
  <2> QED
    BY <1>0, <1>a, <1>b, <1>e, <2>2, <2>4, OwnedKept
<1> QED
  BY <1>1, <1>2, <1>3, <1>4, <1>5, <1>6, <1>8, <1>9, <1>10, <1>11, <1>12, <1>13 DEF StdioNext

-----------------------------------------------------------------------------
(* The queue: what reading, asking and answering do. *)

LEMMA AskedTail ==
    ASSUME NEW q \in Seq(Message), q # <<>>, NEW o, NEW R, AskedIn(q, o, R), NEW o2,
           \A m \in o2 : m \in o \/ (Asks(q[1]) /\ m = q[1])
    PROVE  AskedIn(Tail(q), o2, R)
<1>1. /\ Len(q) \in Nat \ {0} /\ DOMAIN q = 1..Len(q) /\ DOMAIN Tail(q) = 1..(Len(q) - 1)
      /\ \A i \in DOMAIN Tail(q) : Tail(q)[i] = q[i + 1] /\ i + 1 \in DOMAIN q /\ i + 1 # 1
      /\ 1 \in DOMAIN q
  BY TailFacts
<1>2. \A i, j \in DOMAIN Tail(q) : i + 1 = j + 1 => i = j
  BY <1>1
<1> HIDE <1>1
<1> QED
  BY <1>1, <1>2 DEF AskedIn

LEMMA AskedAppend ==
    ASSUME NEW q \in Seq(Message), NEW m \in Message, NEW o, NEW R, AskedIn(q, o, R),
           Asks(m) => /\ \A i \in DOMAIN q : Asks(q[i]) => q[i].id # m.id
                      /\ \A n \in o : n.id # m.id
                      /\ m.id \notin R
    PROVE  AskedIn(Append(q, m), o, R)
<1>1. /\ Len(q) \in Nat /\ DOMAIN q = 1..Len(q) /\ DOMAIN Append(q, m) = 1..(Len(q) + 1)
      /\ \A i \in DOMAIN q : Append(q, m)[i] = q[i]
      /\ Append(q, m)[Len(q) + 1] = m
  BY AppendFacts
<1>2. \A i \in DOMAIN Append(q, m) : i \in DOMAIN q \/ i = Len(q) + 1
  BY <1>1
<1> QED
  BY <1>1, <1>2 DEF AskedIn

LEMMA AskedAnswer ==
    ASSUME NEW q, NEW o, NEW R, NEW m \in o, AskedIn(q, o, R)
    PROVE  AskedIn(q, o \ {m}, R \cup {m.id})
BY DEF AskedIn

LEMMA AskedLess ==
    ASSUME NEW q, NEW o, NEW R, AskedIn(q, o, R), NEW o2 \in SUBSET o, NEW R2 \in SUBSET R
    PROVE  AskedIn(q, o2, R2)
BY DEF AskedIn

\* The child reads: a listen request finds no other open.
LEMMA ListensTail ==
    ASSUME NEW q \in Seq(Message), q # <<>>, NEW o, NEW s, ListensIn(q, o, s), NEW o2,
           \/ Asks(q[1]) /\ o2 = o \cup {q[1]}
           \/ q[1].kind = "cancel" /\ o2 = {m \in o : m.id # q[1].id}
           \/ ~Asks(q[1]) /\ q[1].kind # "cancel" /\ o2 = o
    PROVE  ListensIn(Tail(q), o2, s)
<1>1. /\ Len(q) \in Nat \ {0} /\ DOMAIN q = 1..Len(q) /\ DOMAIN Tail(q) = 1..(Len(q) - 1)
      /\ \A i \in DOMAIN Tail(q) : Tail(q)[i] = q[i + 1] /\ i + 1 \in DOMAIN q /\ 1 < i + 1
      /\ 1 \in DOMAIN q
  BY TailFacts
<1>2. \A j \in DOMAIN q : j # 1 => j - 1 \in DOMAIN Tail(q) /\ Tail(q)[j - 1] = q[j]
  BY <1>1
<1>3. Listens(q[1]) => Asks(q[1])
  BY DEF Listens, Asks
\* A listen request that is open now and was not before is the one read.
<1>4. \A m \in o2 : Listens(m) =>
         \/ m \in o /\ ~Cancels(q[1], m.id) /\ ~Listens(q[1])
         \/ m = q[1]
  <2>1. SUFFICES ASSUME NEW m \in o2, Listens(m), m # q[1]
                 PROVE  m \in o /\ ~Cancels(q[1], m.id) /\ ~Listens(q[1])
    OBVIOUS
  <2>2. m \in o
    BY <2>1
  <2>3. ~Listens(q[1])
    <3>1. SUFFICES ASSUME Listens(q[1]) PROVE FALSE
      OBVIOUS
    <3>2. PICK k \in DOMAIN q : k < 1
      BY <1>1, <2>1, <2>2, <3>1 DEF ListensIn
    <3> QED
      BY <1>1, <3>2
  <2>4. ~Cancels(q[1], m.id)
    BY <2>1, <2>2 DEF Cancels, Asks
  <2> QED
    BY <2>2, <2>3, <2>4
<1>5. \A m \in o2 : Listens(m) =>
         m.id = s \/ \E j \in DOMAIN Tail(q) : Cancels(Tail(q)[j], m.id)
  <2>1. SUFFICES ASSUME NEW m \in o2, Listens(m), m.id # s
                 PROVE  \E j \in DOMAIN Tail(q) : Cancels(Tail(q)[j], m.id)
    OBVIOUS
  <2>2. PICK j \in DOMAIN q : j # 1 /\ Cancels(q[j], m.id)
    BY <1>1, <1>4, <2>1 DEF ListensIn
  <2> QED
    BY <1>2, <2>2
<1>6. \A i \in DOMAIN Tail(q) : Listens(Tail(q)[i]) =>
         Tail(q)[i].id = s \/ \E j \in DOMAIN Tail(q) : i < j /\ Cancels(Tail(q)[j], Tail(q)[i].id)
  <2>1. SUFFICES ASSUME NEW i \in DOMAIN Tail(q), Listens(Tail(q)[i]), Tail(q)[i].id # s
                 PROVE  \E j \in DOMAIN Tail(q) : i < j /\ Cancels(Tail(q)[j], Tail(q)[i].id)
    OBVIOUS
  <2>2. PICK j \in DOMAIN q : i + 1 < j /\ Cancels(q[j], q[i + 1].id)
    BY <1>1, <2>1 DEF ListensIn
  <2>3. j # 1 /\ i < j - 1
    BY <1>1, <2>2
  <2> QED
    BY <1>1, <1>2, <2>2, <2>3
<1>7. \A i, j \in DOMAIN Tail(q) : i < j /\ Listens(Tail(q)[i]) /\ Listens(Tail(q)[j]) =>
         \E k \in DOMAIN Tail(q) : i < k /\ k < j /\ Cancels(Tail(q)[k], Tail(q)[i].id)
  <2>1. SUFFICES ASSUME NEW i \in DOMAIN Tail(q), NEW j \in DOMAIN Tail(q), i < j,
                        Listens(Tail(q)[i]), Listens(Tail(q)[j])
                 PROVE  \E k \in DOMAIN Tail(q) : i < k /\ k < j /\ Cancels(Tail(q)[k], Tail(q)[i].id)
    OBVIOUS
  <2>2. i + 1 < j + 1 /\ i + 1 \in DOMAIN q /\ j + 1 \in DOMAIN q
    BY <1>1, <2>1
  <2>3. PICK k \in DOMAIN q : i + 1 < k /\ k < j + 1 /\ Cancels(q[k], q[i + 1].id)
    BY <1>1, <2>1, <2>2 DEF ListensIn
  <2>4. k # 1 /\ i < k - 1 /\ k - 1 < j
    BY <1>1, <2>3
  <2> QED
    BY <1>1, <1>2, <2>3, <2>4
<1>8. \A m \in o2, j \in DOMAIN Tail(q) : Listens(m) /\ Listens(Tail(q)[j]) =>
         \E k \in DOMAIN Tail(q) : k < j /\ Cancels(Tail(q)[k], m.id)
  <2>1. SUFFICES ASSUME NEW m \in o2, NEW j \in DOMAIN Tail(q), Listens(m), Listens(Tail(q)[j])
                 PROVE  \E k \in DOMAIN Tail(q) : k < j /\ Cancels(Tail(q)[k], m.id)
    OBVIOUS
  <2>2. j + 1 \in DOMAIN q /\ 1 < j + 1 /\ Listens(q[j + 1])
    BY <1>1, <2>1
  <2>3. PICK k \in DOMAIN q : k # 1 /\ k < j + 1 /\ Cancels(q[k], m.id)
    <3>1. CASE m = q[1]
      <4>1. PICK k \in DOMAIN q : 1 < k /\ k < j + 1 /\ Cancels(q[k], q[1].id)
        BY <1>1, <2>1, <2>2, <3>1 DEF ListensIn
      <4> QED
        BY <3>1, <4>1
    <3>2. CASE m \in o /\ ~Cancels(q[1], m.id)
      <4>1. PICK k \in DOMAIN q : k < j + 1 /\ Cancels(q[k], m.id)
        BY <2>1, <2>2, <3>2 DEF ListensIn
      <4> QED
        BY <3>2, <4>1
    <3> QED
      BY <1>4, <2>1, <3>1, <3>2
  <2>4. k - 1 < j
    BY <1>1, <2>3
  <2> QED
    BY <1>2, <2>3, <2>4
<1>9. \A m, n \in o2 : Listens(m) /\ Listens(n) => m = n
  BY <1>4 DEF ListensIn
<1> QED
  BY <1>5, <1>6, <1>7, <1>8, <1>9 DEF ListensIn

\* What is appended that is no listen request: the subscription may end with it.
LEMMA ListensAppend ==
    ASSUME NEW q \in Seq(Message), NEW m \in Message, ~Listens(m), NEW o, NEW s, NEW s2,
           ListensIn(q, o, s), s2 = s \/ Cancels(m, s)
    PROVE  ListensIn(Append(q, m), o, s2)
<1>1. /\ Len(q) \in Nat /\ DOMAIN q = 1..Len(q) /\ DOMAIN Append(q, m) = 1..(Len(q) + 1)
      /\ \A i \in DOMAIN q : Append(q, m)[i] = q[i] /\ i < Len(q) + 1 /\ i \in DOMAIN Append(q, m)
      /\ Append(q, m)[Len(q) + 1] = m /\ Len(q) + 1 \in DOMAIN Append(q, m)
  BY AppendFacts
<1>2. \A i \in DOMAIN Append(q, m) : Listens(Append(q, m)[i]) => i \in DOMAIN q
  BY <1>1
<1>3. \A n \in o : Listens(n) =>
         n.id = s2 \/ \E j \in DOMAIN Append(q, m) : Cancels(Append(q, m)[j], n.id)
  BY <1>1 DEF ListensIn
<1>4. \A i \in DOMAIN Append(q, m) : Listens(Append(q, m)[i]) =>
         \/ Append(q, m)[i].id = s2
         \/ \E j \in DOMAIN Append(q, m) : i < j /\ Cancels(Append(q, m)[j], Append(q, m)[i].id)
  BY <1>1, <1>2 DEF ListensIn
<1>5. \A i, j \in DOMAIN Append(q, m) :
         i < j /\ Listens(Append(q, m)[i]) /\ Listens(Append(q, m)[j]) =>
         \E k \in DOMAIN Append(q, m) : i < k /\ k < j /\ Cancels(Append(q, m)[k], Append(q, m)[i].id)
  BY <1>1, <1>2 DEF ListensIn
<1>6. \A n \in o, j \in DOMAIN Append(q, m) : Listens(n) /\ Listens(Append(q, m)[j]) =>
         \E k \in DOMAIN Append(q, m) : k < j /\ Cancels(Append(q, m)[k], n.id)
  BY <1>1, <1>2 DEF ListensIn
<1> QED
  BY <1>3, <1>4, <1>5, <1>6 DEF ListensIn

\* The next listen request, when none is the subscription's.
LEMMA ListensAsk ==
    ASSUME NEW q \in Seq(Message), NEW m \in Message, Listens(m), NEW o, ListensIn(q, o, 0),
           \A n \in o : n.id # 0, \A i \in DOMAIN q : Listens(q[i]) => q[i].id # 0
    PROVE  ListensIn(Append(q, m), o, m.id)
<1>1. /\ Len(q) \in Nat /\ DOMAIN q = 1..Len(q) /\ DOMAIN Append(q, m) = 1..(Len(q) + 1)
      /\ \A i \in DOMAIN q : Append(q, m)[i] = q[i] /\ i < Len(q) + 1 /\ i \in DOMAIN Append(q, m)
      /\ Append(q, m)[Len(q) + 1] = m /\ Len(q) + 1 \in DOMAIN Append(q, m)
      /\ \A i \in DOMAIN Append(q, m) : i \in DOMAIN q \/ i = Len(q) + 1
      /\ \A i \in DOMAIN Append(q, m) : ~(Len(q) + 1 < i)
  BY AppendFacts
<1>2. ~Cancels(m, m.id)
  BY DEF Listens, Cancels
<1>3. \A n \in o : Listens(n) =>
         n.id = m.id \/ \E j \in DOMAIN Append(q, m) : Cancels(Append(q, m)[j], n.id)
  BY <1>1 DEF ListensIn
<1>4. \A i \in DOMAIN Append(q, m) : Listens(Append(q, m)[i]) =>
         \/ Append(q, m)[i].id = m.id
         \/ \E j \in DOMAIN Append(q, m) : i < j /\ Cancels(Append(q, m)[j], Append(q, m)[i].id)
  BY <1>1 DEF ListensIn
<1>5. \A i, j \in DOMAIN Append(q, m) :
         i < j /\ Listens(Append(q, m)[i]) /\ Listens(Append(q, m)[j]) =>
         \E k \in DOMAIN Append(q, m) : i < k /\ k < j /\ Cancels(Append(q, m)[k], Append(q, m)[i].id)
  <2>1. SUFFICES ASSUME NEW i \in DOMAIN Append(q, m), NEW j \in DOMAIN Append(q, m), i < j,
                        Listens(Append(q, m)[i]), Listens(Append(q, m)[j])
                 PROVE  \E k \in DOMAIN Append(q, m) :
                           i < k /\ k < j /\ Cancels(Append(q, m)[k], Append(q, m)[i].id)
    OBVIOUS
  <2>2. i \in DOMAIN q
    BY <1>1, <2>1
  <2>3. CASE j \in DOMAIN q
    BY <1>1, <2>1, <2>2, <2>3 DEF ListensIn
  <2>4. CASE j = Len(q) + 1
    BY <1>1, <2>1, <2>2, <2>4 DEF ListensIn
  <2> QED
    BY <1>1, <2>3, <2>4
<1>6. \A n \in o, j \in DOMAIN Append(q, m) : Listens(n) /\ Listens(Append(q, m)[j]) =>
         \E k \in DOMAIN Append(q, m) : k < j /\ Cancels(Append(q, m)[k], n.id)
  <2>1. SUFFICES ASSUME NEW n \in o, NEW j \in DOMAIN Append(q, m), Listens(n),
                        Listens(Append(q, m)[j])
                 PROVE  \E k \in DOMAIN Append(q, m) : k < j /\ Cancels(Append(q, m)[k], n.id)
    OBVIOUS
  <2>2. CASE j \in DOMAIN q
    BY <1>1, <2>1, <2>2 DEF ListensIn
  <2>3. CASE j = Len(q) + 1
    BY <1>1, <2>1, <2>3 DEF ListensIn
  <2> QED
    BY <1>1, <2>2, <2>3
<1> QED
  BY <1>3, <1>4, <1>5, <1>6 DEF ListensIn

LEMMA ListensClosed ==
    ASSUME NEW q, NEW o, NEW s, ListensIn(q, o, s), NEW o2 \in SUBSET o, NEW s2,
           s2 = s \/ (/\ \A m \in o : m.id # s
                     /\ \A i \in DOMAIN q : Asks(q[i]) => q[i].id # s)
    PROVE  ListensIn(q, o2, s2)
<1>1. \A i \in DOMAIN q : Listens(q[i]) => Asks(q[i])
  BY DEF Listens, Asks
<1> QED
  BY <1>1 DEF ListensIn

LEMMA QueueKept == ASSUME StdioInv, StdioNext, child' = "running" PROVE AskedOnce' /\ ListensInTurn'
<1>0. StdioTypeOK /\ StdioTypeOK' /\ MessagesOwned /\ TableKept /\ EndsInOrder
  BY StdioTypesKept DEF StdioInv
<1>t. /\ inbox \in Seq(Message) /\ outbox \in Seq(Message) /\ pipe \in Seq(Message)
      /\ next_id \in Nat \ {0} /\ serial \in Nat /\ sub \in Nat
      /\ open \subseteq Message /\ arrived \subseteq Message
  BY <1>0 DEF StdioTypeOK
<1>u. Queue \in Seq(Message)
  BY <1>t, ConcatProperties DEF Queue
<1>1. CASE Probed
  <2>1. CASE UNCHANGED childVars /\ UNCHANGED wires
    <3>1. /\ child = "running" /\ Queue' = Queue /\ open' = open /\ sub' = sub
          /\ Answered' = Answered
      BY <1>1, <2>1 DEF Probed, childVars, wires, Queue, Answered, Ids
    <3>2. AskedOnce /\ ListensInTurn
      BY <3>1 DEF StdioInv
    <3> QED
      BY <3>1, <3>2 DEF AskedOnce, ListensInTurn
  <2>2. CASE inbox' = <<>> /\ open' = {} /\ pipe' = <<>> /\ outbox' = <<>> /\ arrived' = {}
    <3>1. Queue' = <<>> /\ open' = {} /\ Answered' = {}
      BY <2>2, ConcatEmptySeq DEF Queue, Answered, Ids
    <3> QED
      BY <3>1 DEF AskedOnce, AskedIn, ListensInTurn, ListensIn
  <2> QED
    BY <1>1, <2>1, <2>2 DEF Probed
<1> SUFFICES ASSUME ~Probed PROVE AskedOnce' /\ ListensInTurn'
  BY <1>1
\* Only a new child runs that did not run before.
<1>2. child = "running" /\ ~ChildExits
  BY DEF StdioNext, StartCall, WriteMessage, ReadMessage, Expire, CallReturns, CallFails,
     Initialized, StartSubscription, CancelSubscription, PollClosed, DrainNotes, ChildReads,
     ChildNotifies, ChildExits, ChildAnswers, childVars
<1>3. AskedIn(Queue, open, Answered) /\ ListensIn(Queue, open, sub) /\ writer = "up"
  BY <1>0, <1>2 DEF StdioInv, AskedOnce, ListensInTurn, EndsInOrder, StdioTypeOK
\* Every id of the queue and of what is open and answered has been given out.
<1>4. /\ \A i \in DOMAIN Queue : Asks(Queue[i]) => Queue[i].id \in 1..(next_id - 1)
      /\ \A m \in open : m.id \in 1..(next_id - 1)
      /\ \A r \in Answered : r \in 1..(next_id - 1)
  <2>1. ASSUME NEW i \in DOMAIN Queue, Asks(Queue[i]) PROVE Queue[i].id \in 1..(next_id - 1)
    <3>1. /\ DOMAIN inbox = 1..Len(inbox) /\ DOMAIN outbox = 1..Len(outbox)
          /\ Len(inbox) \in Nat /\ Len(outbox) \in Nat /\ DOMAIN Queue = 1..Len(Queue)
          /\ Len(Queue) = Len(inbox) + Len(outbox)
          /\ Queue[i] = IF i <= Len(inbox) THEN inbox[i] ELSE outbox[i - Len(inbox)]
      <4>1. DOMAIN Queue = 1..Len(Queue) /\ Len(Queue) = Len(inbox) + Len(outbox)
        BY <1>t, <1>u, LenProperties, ConcatProperties DEF Queue
      <4>2. \A j \in 1..Len(inbox) + Len(outbox) :
              Queue[j] = IF j <= Len(inbox) THEN inbox[j] ELSE outbox[j - Len(inbox)]
        BY <1>t, ConcatProperties DEF Queue
      <4> QED
        BY <1>t, <4>1, <4>2, LenProperties
    <3>2. CASE i <= Len(inbox)
      BY <1>0, <2>1, <3>1, <3>2 DEF MessagesOwned, Own, OwnTo
    <3>3. CASE ~(i <= Len(inbox))
      <4>1. i - Len(inbox) \in DOMAIN outbox /\ Queue[i] = outbox[i - Len(inbox)]
        BY <3>1, <3>3
      <4> QED
        BY <1>0, <2>1, <4>1 DEF MessagesOwned, Own, OwnTo
    <3> QED
      BY <3>2, <3>3
  <2>2. \A m \in open : m.id \in 1..(next_id - 1)
    BY <1>0 DEF MessagesOwned, Own, OwnTo
  <2>3. \A r \in Answered : r \in 1..(next_id - 1)
    BY <1>0 DEF MessagesOwned, Own, OwnTo, Answered, Ids
  <2> QED
    BY <2>1, <2>2, <2>3
<1>5. ASSUME NEW m \in Message, m.id = next_id
      PROVE  /\ \A i \in DOMAIN Queue : Asks(Queue[i]) => Queue[i].id # m.id
             /\ \A n \in open : n.id # m.id
             /\ m.id \notin Answered
  BY <1>4, <1>5, <1>t
<1>6. ASSUME arrived' \subseteq arrived, pipe' = pipe
      PROVE  Answered' \in SUBSET Answered
  BY <1>6 DEF Answered, Ids
<1>7. CASE StartCall
  <2> DEFINE m == Msg("request", next_id, serial + 1)
  <2>1. serial + 1 \in Nat /\ next_id \in Nat
    BY <1>t
  <2>2. m \in Message /\ m.id = next_id /\ ~Listens(m)
    BY <2>1, MessageFields, MessageKinds DEF Listens
  <2>3. /\ outbox' = Append(outbox, m) /\ inbox' = inbox /\ open' = open /\ arrived' = arrived
        /\ pipe' = pipe /\ sub' = sub
    BY <1>3, <1>7 DEF StartCall, childVars
  <2> HIDE DEF m
  <2>4. Queue' = Append(Queue, m)
    BY <1>t, <2>2, <2>3, QueueAsks DEF Queue
  <2>5. Answered' = Answered
    BY <2>3 DEF Answered, Ids
  <2>6. AskedIn(Append(Queue, m), open, Answered)
    BY <1>3, <1>5, <1>u, <2>2, AskedAppend
  <2>7. ListensIn(Append(Queue, m), open, sub)
    BY <1>3, <1>u, <2>2, ListensAppend
  <2> QED
    BY <2>3, <2>4, <2>5, <2>6, <2>7 DEF AskedOnce, ListensInTurn
<1>8. CASE WriteMessage
  <2>1. /\ outbox # <<>> /\ outbox' = Tail(outbox) /\ inbox' = Append(inbox, Head(outbox))
        /\ arrived' = arrived /\ pipe' = pipe /\ open' = open /\ sub' = sub
    BY <1>2, <1>8 DEF WriteMessage
  <2>2. Queue' = Queue
    BY <1>t, <2>1, QueueWrites DEF Queue
  <2>3. Answered' = Answered
    BY <2>1 DEF Answered, Ids
  <2> QED
    BY <1>3, <2>1, <2>2, <2>3 DEF AskedOnce, ListensInTurn
<1>9. CASE ReadMessage
  <2>1. /\ pipe # <<>> /\ pipe' = Tail(pipe) /\ inbox' = inbox /\ outbox' = outbox /\ open' = open
        /\ sub' = sub
        /\ \/ arrived' = arrived
           \/ Head(pipe).kind = "response" /\ arrived' = arrived \cup {Head(pipe)}
    BY <1>9 DEF ReadMessage
  <2>2. Answered' \in SUBSET Answered
    <3>1. /\ Head(pipe) = pipe[1] /\ 1 \in DOMAIN pipe
          /\ \A i \in DOMAIN pipe' : \E j \in DOMAIN pipe : pipe'[i] = pipe[j]
      BY <1>t, <2>1, TailFacts
    <3> QED
      BY <2>1, <3>1 DEF Answered, Ids
  <2>3. Queue' = Queue
    BY <2>1 DEF Queue
  <2>4. AskedIn(Queue, open, Answered')
    BY <1>3, <2>2, AskedLess
  <2> QED
    BY <1>3, <2>1, <2>3, <2>4 DEF AskedOnce, ListensInTurn
<1>10. CASE Expire \/ DrainNotes
  <2>1. /\ outbox' = outbox /\ inbox' = inbox /\ pipe' = pipe /\ open' = open /\ sub' = sub
        /\ arrived' \subseteq arrived
    BY <1>10 DEF Expire, CallReturns, CallFails, DrainNotes, childVars, wires
  <2>2. Queue' = Queue
    BY <2>1 DEF Queue
  <2>3. AskedIn(Queue, open, Answered')
    BY <1>3, <1>6, <2>1, AskedLess
  <2> QED
    BY <1>3, <2>1, <2>2, <2>3 DEF AskedOnce, ListensInTurn
<1>11. CASE Initialized
  <2> DEFINE m == Msg("initialized", 0, 0)
  <2>1. m \in Message /\ ~Asks(m) /\ ~Listens(m)
    BY MessageFields, MessageKinds DEF Asks, Listens
  <2>2. /\ outbox' = outbox \/ outbox' = Append(outbox, m)
        /\ inbox' = inbox /\ pipe' = pipe /\ open' = open /\ sub' = sub /\ arrived' = arrived
    BY <1>11 DEF Initialized, childVars
  <2> HIDE DEF m
  <2>3. Queue' = Queue \/ Queue' = Append(Queue, m)
    <3>1. CASE outbox' = outbox
      BY <2>2, <3>1 DEF Queue
    <3>2. CASE outbox' = Append(outbox, m)
      <4>1. inbox \o Append(outbox, m) = Append(inbox \o outbox, m)
        BY <1>t, <2>1, QueueAsks
      <4> QED
        BY <2>2, <3>2, <4>1 DEF Queue
    <3> QED
      BY <2>2, <3>1, <3>2
  <2>4. Answered' = Answered
    BY <2>2 DEF Answered, Ids
  <2>5. AskedIn(Append(Queue, m), open, Answered) /\ ListensIn(Append(Queue, m), open, sub)
    BY <1>3, <1>u, <2>1, AskedAppend, ListensAppend
  <2> QED
    BY <1>3, <2>2, <2>3, <2>4, <2>5 DEF AskedOnce, ListensInTurn
\* The subscription is cancelled, if there is one.
<1>12. /\ Cancelled \in Seq(Message) /\ inbox \o Cancelled \in Seq(Message)
       /\ AskedIn(inbox \o Cancelled, open, Answered)
       /\ ListensIn(inbox \o Cancelled, open, 0)
       /\ \A i \in DOMAIN (inbox \o Cancelled) :
            Asks((inbox \o Cancelled)[i]) => (inbox \o Cancelled)[i].id \in 1..(next_id - 1)
  <2>1. CASE sub = 0
    <3>1. Cancelled = outbox /\ inbox \o Cancelled = Queue
      BY <2>1 DEF Cancelled, Queue
    <3> QED
      BY <1>3, <1>4, <1>t, <1>u, <2>1, <3>1
  <2>2. CASE sub # 0
    <3> DEFINE m == Msg("cancel", sub, 0)
    <3>1. m \in Message /\ ~Asks(m) /\ ~Listens(m) /\ Cancels(m, sub)
      BY <1>t, MessageFields, MessageKinds DEF Asks, Listens, Cancels
    <3>2. Cancelled = Append(outbox, m)
      BY <1>3, <2>2 DEF Cancelled
    <3> HIDE DEF m
    <3>3. inbox \o Cancelled = Append(Queue, m) /\ Cancelled \in Seq(Message)
      BY <1>t, <3>1, <3>2, QueueAsks, AppendFacts DEF Queue
    <3>4. AskedIn(Append(Queue, m), open, Answered) /\ ListensIn(Append(Queue, m), open, 0)
      BY <1>3, <1>u, <3>1, AskedAppend, ListensAppend
    <3>5. /\ Append(Queue, m) \in Seq(Message)
          /\ \A i \in DOMAIN Append(Queue, m) :
               Asks(Append(Queue, m)[i]) => Append(Queue, m)[i].id \in 1..(next_id - 1)
      <4>1. /\ Append(Queue, m) \in Seq(Message) /\ Len(Queue) \in Nat
            /\ DOMAIN Queue = 1..Len(Queue) /\ DOMAIN Append(Queue, m) = 1..(Len(Queue) + 1)
            /\ \A i \in DOMAIN Queue : Append(Queue, m)[i] = Queue[i]
            /\ Append(Queue, m)[Len(Queue) + 1] = m
        BY <1>u, <3>1, AppendFacts
      <4>2. \A i \in DOMAIN Append(Queue, m) : i \in DOMAIN Queue \/ i = Len(Queue) + 1
        BY <4>1
      <4> QED
        BY <1>4, <3>1, <4>1, <4>2
    <3> QED
      BY <3>3, <3>4, <3>5
  <2> QED
    BY <2>1, <2>2
<1>13. CASE StartSubscription
  <2> DEFINE m == Msg("listen", next_id, serial + 1)
             q == inbox \o Cancelled
  <2>1. serial + 1 \in Nat /\ next_id \in Nat
    BY <1>t
  <2>2. m \in Message /\ m.id = next_id /\ Listens(m)
    BY <2>1, MessageFields, MessageKinds DEF Listens
  <2>3. /\ outbox' = Append(Cancelled, m) /\ inbox' = inbox /\ open' = open
        /\ pipe' = pipe /\ sub' = next_id
    BY <1>3, <1>13 DEF StartSubscription, childVars
  <2>4. arrived' \subseteq arrived
    BY <1>13 DEF StartSubscription, Dropped
  <2>5. q \in Seq(Message)
    BY <1>12
  <2>6. /\ AskedIn(q, open, Answered) /\ ListensIn(q, open, 0)
        /\ \A i \in DOMAIN q : Asks(q[i]) => q[i].id \in 1..(next_id - 1)
    BY <1>12
  <2>7. Queue' = Append(q, m)
    BY <1>t, <1>12, <2>2, <2>3, QueueAsks DEF Queue
  <2> HIDE DEF m, q
  <2>8. \A i \in DOMAIN q : Asks(q[i]) => q[i].id # m.id /\ q[i].id # 0
    BY <1>t, <2>2, <2>6
  <2>9. AskedIn(Append(q, m), open, Answered)
    BY <1>5, <2>2, <2>5, <2>6, <2>8, AskedAppend
  <2>10. AskedIn(Append(q, m), open, Answered')
    BY <1>6, <2>3, <2>4, <2>9, AskedLess
  <2>11. (\A n \in open : n.id # 0) /\ \A i \in DOMAIN q : Listens(q[i]) => q[i].id # 0
    BY <1>4, <1>t, <2>8 DEF Listens, Asks
  <2>12. ListensIn(Append(q, m), open, m.id)
    BY <2>2, <2>5, <2>6, <2>11, ListensAsk
  <2> QED
    BY <2>2, <2>3, <2>7, <2>10, <2>12 DEF AskedOnce, ListensInTurn
<1>14. CASE CancelSubscription
  <2>1. /\ outbox' = Cancelled /\ inbox' = inbox /\ open' = open /\ pipe' = pipe /\ sub' = 0
    BY <1>14 DEF CancelSubscription, childVars
  <2>2. arrived' \subseteq arrived
    BY <1>14 DEF CancelSubscription, Dropped
  <2>3. AskedIn(inbox \o Cancelled, open, Answered')
    BY <1>6, <1>12, <2>1, <2>2, AskedLess
  <2>4. Queue' = inbox \o Cancelled
    BY <2>1 DEF Queue
  <2> QED
    BY <1>12, <2>1, <2>3, <2>4 DEF AskedOnce, ListensInTurn
\* The server ended the subscription: its request is answered, not open.
<1>15. CASE PollClosed
  <2>1. /\ outbox' = outbox /\ inbox' = inbox /\ open' = open /\ pipe' = pipe /\ sub' = 0
        /\ sub \in Ids(arrived)
    BY <1>15 DEF PollClosed, childVars
  <2>2. arrived' \subseteq arrived
    BY <1>15 DEF PollClosed, Dropped
  <2>3. Queue' = Queue
    BY <2>1 DEF Queue
  <2>4. AskedIn(Queue, open, Answered')
    BY <1>3, <1>6, <2>1, <2>2, AskedLess
  <2>5. sub \in Answered
    BY <2>1 DEF Answered
  <2>6. ListensIn(Queue, open, 0)
    <3>1. (\A m \in open : m.id # sub) /\ \A i \in DOMAIN Queue : Asks(Queue[i]) => Queue[i].id # sub
      BY <1>3, <2>5 DEF AskedIn
    <3> QED
      BY <1>3, <3>1, ListensClosed
  <2> QED
    BY <2>1, <2>3, <2>4, <2>6 DEF AskedOnce, ListensInTurn
<1>16. CASE ChildReads
  <2>1. /\ inbox # <<>> /\ inbox' = Tail(inbox) /\ outbox' = outbox /\ pipe' = pipe
        /\ arrived' = arrived /\ sub' = sub
    BY <1>16 DEF ChildReads, wires
  <2>2. Queue' = Tail(Queue) /\ Queue # <<>> /\ Head(inbox) = Queue[1]
    <3>1. Tail(inbox) \o outbox = Tail(Queue) /\ Queue # <<>> /\ Head(Queue) = Head(inbox)
      BY <1>t, <2>1, QueueReads DEF Queue
    <3> QED
      BY <1>u, <2>1, <3>1, TailFacts DEF Queue
  <2>3. \/ Asks(Queue[1]) /\ open' = open \cup {Queue[1]}
        \/ Queue[1].kind = "cancel" /\ open' = {m \in open : m.id # Queue[1].id}
        \/ ~Asks(Queue[1]) /\ Queue[1].kind # "cancel" /\ open' = open
    BY <1>16, <2>2 DEF ChildReads, Asks
  <2>4. \A m \in open' : m \in open \/ (Asks(Queue[1]) /\ m = Queue[1])
    BY <2>3
  <2>5. Answered' = Answered
    BY <2>1 DEF Answered, Ids
  <2>6. AskedIn(Tail(Queue), open', Answered)
    BY <1>3, <1>u, <2>2, <2>4, AskedTail
  <2>7. ListensIn(Tail(Queue), open', sub)
    BY <1>3, <1>u, <2>2, <2>3, ListensTail
  <2> QED
    BY <2>1, <2>2, <2>5, <2>6, <2>7 DEF AskedOnce, ListensInTurn
<1>17. CASE ChildNotifies
  <2> DEFINE m == Msg("note", 0, sent + 1)
  <2>1. sent + 1 \in Nat
    BY <1>0 DEF StdioTypeOK
  <2>2. m \in Message /\ m.kind = "note"
    BY <2>1, MessageFields, MessageKinds
  <2>3. /\ pipe' = Append(pipe, m) /\ open' = open /\ inbox' = inbox /\ outbox' = outbox
        /\ arrived' = arrived /\ sub' = sub
    BY <1>17 DEF ChildNotifies, wires
  <2> HIDE DEF m
  <2>4. Answered' \in SUBSET Answered
    <3>1. /\ DOMAIN pipe = 1..Len(pipe) /\ Len(pipe) \in Nat
          /\ DOMAIN Append(pipe, m) = 1..(Len(pipe) + 1)
          /\ \A i \in DOMAIN pipe : Append(pipe, m)[i] = pipe[i]
          /\ Append(pipe, m)[Len(pipe) + 1] = m
      BY <1>t, <2>2, AppendFacts
    <3>2. \A i \in DOMAIN pipe' : pipe'[i].kind = "response" => i \in DOMAIN pipe /\ pipe'[i] = pipe[i]
      BY <2>2, <2>3, <3>1
    <3> QED
      BY <2>3, <3>2 DEF Answered, Ids
  <2>5. Queue' = Queue
    BY <2>3 DEF Queue
  <2>6. AskedIn(Queue, open, Answered')
    BY <1>3, <2>4, AskedLess
  <2> QED
    BY <1>3, <2>3, <2>5, <2>6 DEF AskedOnce, ListensInTurn
<1>18. CASE \E m \in open : ChildAnswers(m)
  <2>0. PICK m \in open : ChildAnswers(m)
    BY <1>18
  <2>1. m \in Message /\ Reply(m) \in Message /\ Reply(m).id = m.id
    BY <1>t, MessageFields
  <2>2. /\ pipe' = Append(pipe, Reply(m)) /\ open' = open \ {m} /\ inbox' = inbox
        /\ outbox' = outbox /\ arrived' = arrived /\ sub' = sub
    BY <2>0 DEF ChildAnswers, wires
  <2>3. Answered' \in SUBSET (Answered \cup {m.id})
    <3>1. /\ DOMAIN pipe = 1..Len(pipe) /\ Len(pipe) \in Nat
          /\ DOMAIN Append(pipe, Reply(m)) = 1..(Len(pipe) + 1)
          /\ \A i \in DOMAIN pipe : Append(pipe, Reply(m))[i] = pipe[i]
          /\ Append(pipe, Reply(m))[Len(pipe) + 1] = Reply(m)
      BY <1>t, <2>1, AppendFacts
    <3>2. \A i \in DOMAIN pipe' : pipe'[i].id = m.id \/ (i \in DOMAIN pipe /\ pipe'[i] = pipe[i])
      BY <2>1, <2>2, <3>1
    <3> QED
      BY <2>2, <3>2 DEF Answered, Ids
  <2>4. Queue' = Queue
    BY <2>2 DEF Queue
  <2>5. AskedIn(Queue, open \ {m}, Answered \cup {m.id})
    BY <1>3, AskedAnswer
  <2>6. AskedIn(Queue, open \ {m}, Answered')
    BY <2>3, <2>5, AskedLess
  <2>7. ListensIn(Queue, open \ {m}, sub)
    BY <1>3, ListensClosed
  <2> QED
    BY <2>2, <2>4, <2>6, <2>7 DEF AskedOnce, ListensInTurn
<1> QED
  BY <1>2, <1>7, <1>8, <1>9, <1>10, <1>11, <1>13, <1>14, <1>15, <1>16, <1>17, <1>18 DEF StdioNext

-----------------------------------------------------------------------------
(* Notifications. *)

LEMMA UnreadAppend ==
    ASSUME NEW p \in Seq(Message), NEW s \in Nat, NEW last \in Nat, NEW m \in Message,
           UnreadIn(s, p, last), NEW to \in Nat,
           IF Notes(m) THEN m.serial = last + 1 /\ to = last + 1 ELSE to = last
    PROVE  UnreadIn(s, Append(p, m), to)
<1>1. /\ Append(p, m) \in Seq(Message) /\ Len(p) \in Nat
      /\ DOMAIN p = 1..Len(p) /\ DOMAIN Append(p, m) = 1..(Len(p) + 1)
      /\ \A i \in DOMAIN p : Append(p, m)[i] = p[i]
      /\ Append(p, m)[Len(p) + 1] = m
  BY AppendFacts
<1> DEFINE q == Append(p, m)
<1>2. /\ DOMAIN p \subseteq DOMAIN q /\ Len(p) + 1 \in DOMAIN q /\ q[Len(p) + 1] = m
      /\ \A i \in DOMAIN p : q[i] = p[i] /\ i < Len(p) + 1 /\ i \in Int
      /\ \A i \in DOMAIN q : i \in DOMAIN p \/ i = Len(p) + 1
  BY <1>1
<1>3. \A i \in DOMAIN p : p[i].serial \in Nat
  BY <1>1, MessageFields
<1>4. s <= last /\ last <= to
  BY DEF UnreadIn
<1> HIDE DEF q
<1>5. ASSUME NEW i \in DOMAIN q, Notes(q[i]) PROVE q[i].serial > s /\ q[i].serial <= to
  <2>1. CASE i \in DOMAIN p
    <3>1. p[i].serial > s /\ p[i].serial <= last /\ p[i].serial \in Nat /\ q[i] = p[i]
      BY <1>2, <1>3, <1>5, <2>1 DEF UnreadIn
    <3> QED
      BY <1>4, <3>1
  <2>2. CASE i = Len(p) + 1
    BY <1>2, <1>4, <1>5, <2>2
  <2> QED
    BY <1>2, <2>1, <2>2
<1>6. ASSUME NEW i \in DOMAIN q, NEW j \in DOMAIN q, i < j, Notes(q[i]), Notes(q[j])
      PROVE  q[i].serial < q[j].serial
  <2>1. i \in DOMAIN p
    BY <1>1, <1>2, <1>6
  <2>2. CASE j \in DOMAIN p
    BY <1>2, <1>6, <2>1, <2>2 DEF UnreadIn
  <2>3. CASE j = Len(p) + 1
    <3>1. q[j].serial = last + 1 /\ q[i] = p[i] /\ p[i].serial <= last /\ p[i].serial \in Nat
      BY <1>2, <1>3, <1>6, <2>1, <2>3 DEF UnreadIn
    <3> QED
      BY <3>1
  <2> QED
    BY <1>2, <2>2, <2>3
<1>7. ASSUME NEW v \in Nat, s < v, v <= to
      PROVE  \E i \in DOMAIN q : Notes(q[i]) /\ q[i].serial = v
  <2>1. CASE v <= last
    <3>1. PICK i \in DOMAIN p : Notes(p[i]) /\ p[i].serial = v
      BY <1>7, <2>1 DEF UnreadIn
    <3> QED
      BY <1>2, <3>1
  <2>2. CASE ~(v <= last)
    <3>1. Notes(m) /\ m.serial = v
      BY <1>7, <2>2
    <3> QED
      BY <1>2, <3>1
  <2> QED
    BY <2>1, <2>2
<1>8. s <= to
  BY <1>4
<1>9. UnreadIn(s, q, to)
  BY <1>5, <1>6, <1>7, <1>8 DEF UnreadIn
<1> QED
  BY <1>9 DEF q

\* The first notification unread is the one after the last read.
LEMMA UnreadTail ==
    ASSUME NEW p \in Seq(Message), p # <<>>, NEW s \in Nat, NEW last \in Nat,
           UnreadIn(s, p, last), NEW to \in Nat,
           to = IF Notes(Head(p)) THEN s + 1 ELSE s
    PROVE  UnreadIn(to, Tail(p), last) /\ (Notes(Head(p)) => Head(p).serial = s + 1)
<1>1. /\ Tail(p) \in Seq(Message) /\ Len(p) \in Nat \ {0}
      /\ DOMAIN p = 1..Len(p) /\ DOMAIN Tail(p) = 1..(Len(p) - 1) /\ Head(p) = p[1]
      /\ \A i \in DOMAIN Tail(p) : Tail(p)[i] = p[i + 1] /\ i + 1 \in DOMAIN p
  BY TailFacts
<1> DEFINE q == Tail(p)
<1>2. /\ \A i \in DOMAIN q : i \in Nat \ {0} /\ i + 1 \in DOMAIN p /\ q[i] = p[i + 1] /\ 1 < i + 1
      /\ \A i \in DOMAIN p : i = 1 \/ (i - 1 \in DOMAIN q /\ q[i - 1] = p[i])
      /\ 1 \in DOMAIN p
  <2>1. \A i \in DOMAIN p : i = 1 \/ (i - 1 \in DOMAIN q /\ (i - 1) + 1 = i)
    BY <1>1
  <2>2. 1 \in DOMAIN p /\ \A i \in DOMAIN q : i \in Nat \ {0} /\ 1 < i + 1
    BY <1>1
  <2> QED
    BY <1>1, <2>1, <2>2
<1>3. \A i \in DOMAIN p : p[i].serial \in Nat
  BY <1>1, MessageFields
<1>4. ASSUME Notes(p[1]) PROVE p[1].serial = s + 1
  <2>1. p[1].serial > s /\ p[1].serial <= last /\ p[1].serial \in Nat
    BY <1>2, <1>3, <1>4 DEF UnreadIn
  <2>2. s + 1 \in Nat /\ s < s + 1 /\ s + 1 <= last
    BY <2>1
  <2>3. PICK i \in DOMAIN p : Notes(p[i]) /\ p[i].serial = s + 1
    BY <2>2 DEF UnreadIn
  <2>4. i = 1 \/ 1 < i
    BY <1>1
  <2>5. 1 < i => p[1].serial < p[i].serial
    BY <1>2, <1>4, <2>3 DEF UnreadIn
  <2> QED
    BY <2>1, <2>3, <2>4, <2>5
<1>5. to <= last
  <2>1. Notes(p[1]) => p[1].serial <= last
    BY <1>2 DEF UnreadIn
  <2> QED
    BY <1>1, <1>4, <2>1 DEF UnreadIn
<1> HIDE DEF q
<1>6. ASSUME NEW i \in DOMAIN q, Notes(q[i]) PROVE q[i].serial > to /\ q[i].serial <= last
  <2>1. i + 1 \in DOMAIN p /\ q[i] = p[i + 1] /\ 1 < i + 1 /\ p[i + 1].serial \in Nat
    BY <1>2, <1>3
  <2>2. p[i + 1].serial > s /\ p[i + 1].serial <= last
    BY <1>6, <2>1 DEF UnreadIn
  <2>3. Notes(p[1]) => p[1].serial < p[i + 1].serial
    BY <1>2, <1>6, <2>1 DEF UnreadIn
  <2> QED
    BY <1>1, <1>4, <2>1, <2>2, <2>3
<1>7. ASSUME NEW i \in DOMAIN q, NEW j \in DOMAIN q, i < j, Notes(q[i]), Notes(q[j])
      PROVE  q[i].serial < q[j].serial
  <2>1. /\ i + 1 \in DOMAIN p /\ q[i] = p[i + 1] /\ j + 1 \in DOMAIN p /\ q[j] = p[j + 1]
        /\ i + 1 < j + 1
    BY <1>2, <1>7
  <2> QED
    BY <1>7, <2>1 DEF UnreadIn
<1>8. ASSUME NEW v \in Nat, to < v, v <= last
      PROVE  \E i \in DOMAIN q : Notes(q[i]) /\ q[i].serial = v
  <2>1. s < v
    BY <1>8
  <2>2. PICK i \in DOMAIN p : Notes(p[i]) /\ p[i].serial = v
    BY <1>8, <2>1 DEF UnreadIn
  <2>3. i # 1
    BY <1>1, <1>4, <1>8, <2>2
  <2> QED
    BY <1>2, <2>2, <2>3
<1>9. UnreadIn(to, q, last)
  BY <1>5, <1>6, <1>7, <1>8 DEF UnreadIn
<1> QED
  BY <1>1, <1>4, <1>9 DEF q

\* A notification pushes out the oldest and leaves no hole.
LEMMA BufferFacts ==
    ASSUME NEW b \in Seq(Nat), NEW s \in Nat, NotedTo(s, b)
    PROVE  /\ Buffer(b, s + 1) # <<>> /\ NotedTo(s + 1, Buffer(b, s + 1))
           /\ Buffer(b, s + 1)[Len(Buffer(b, s + 1))] = s + 1
<1> DEFINE c == IF Len(b) >= NotificationLimit THEN Tail(b) ELSE b
<1>1. Len(b) \in Nat /\ DOMAIN b = 1..Len(b) /\ \A k \in DOMAIN b : b[k] \in Nat
  BY LenProperties, ElementOfSeq
\* Both what stays and what is pushed out count up to s.
<1>2. c \in Seq(Nat) /\ \A k \in 1..Len(c) : c[k] = s - (Len(c) - k)
  <2>1. \A k \in DOMAIN b : b[k] = s - (Len(b) - k)
    <3>1. SUFFICES ASSUME NEW k \in DOMAIN b PROVE b[k] = s - (Len(b) - k)
      OBVIOUS
    <3>2. b # <<>> /\ Len(b) \in DOMAIN b /\ 1 \in DOMAIN b
      BY <1>1, EmptySeq
    <3>3. b[Len(b)] = s /\ b[Len(b)] = b[1] + Len(b) - 1 /\ b[k] = b[1] + k - 1
      BY <3>2 DEF NotedTo
    <3> QED
      BY <1>1, <3>2, <3>3
  <2>2. CASE Len(b) >= NotificationLimit
    <3>1. b # <<>>
      BY <1>1, <2>2, NotificationAssumption, EmptySeq
    <3>2. /\ Tail(b) \in Seq(Nat) /\ Len(Tail(b)) = Len(b) - 1 /\ DOMAIN Tail(b) = 1..(Len(b) - 1)
          /\ \A i \in DOMAIN Tail(b) : Tail(b)[i] = b[i + 1] /\ i + 1 \in DOMAIN b
      BY <3>1, TailFacts
    <3>3. ASSUME NEW k \in 1..(Len(b) - 1) PROVE Tail(b)[k] = s - ((Len(b) - 1) - k)
      <4>1. Tail(b)[k] = s - (Len(b) - (k + 1))
        BY <2>1, <3>2
      <4> QED
        BY <1>1, <4>1
    <3> QED
      BY <2>2, <3>2, <3>3
  <2>3. CASE ~(Len(b) >= NotificationLimit)
    BY <1>1, <2>1, <2>3
  <2> QED
    BY <2>2, <2>3
<1>3. Buffer(b, s + 1) = Append(c, s + 1)
  BY DEF Buffer
<1> HIDE DEF c
<1>4. /\ Append(c, s + 1) \in Seq(Nat) /\ Len(c) \in Nat /\ Len(Append(c, s + 1)) = Len(c) + 1
      /\ DOMAIN c = 1..Len(c) /\ DOMAIN Append(c, s + 1) = 1..(Len(c) + 1)
      /\ \A i \in DOMAIN c : Append(c, s + 1)[i] = c[i]
      /\ Append(c, s + 1)[Len(c) + 1] = s + 1
  BY <1>2, AppendFacts
<1>5. ASSUME NEW k \in 1..(Len(c) + 1) PROVE Append(c, s + 1)[k] = s + 1 - (Len(c) + 1 - k)
  <2>1. CASE k \in 1..Len(c)
    BY <1>2, <1>4, <2>1
  <2>2. CASE k = Len(c) + 1
    BY <1>4, <2>2
  <2> QED
    BY <1>4, <2>1, <2>2
<1>6. ASSUME NEW k \in 1..(Len(c) + 1) PROVE Append(c, s + 1)[k] = Append(c, s + 1)[1] + k - 1
  <2>1. 1 \in 1..(Len(c) + 1)
    BY <1>4
  <2>2. Append(c, s + 1)[1] = s + 1 - (Len(c) + 1 - 1)
    BY <1>5, <2>1
  <2> QED
    BY <1>4, <1>5, <2>2
<1>7. Append(c, s + 1) # <<>>
  BY <1>4, EmptySeq
<1> QED
  BY <1>3, <1>4, <1>6, <1>7 DEF NotedTo

\* What the reader does to the buffer.
LEMMA NoteRead ==
    ASSUME StdioInv, ReadMessage
    PROVE  /\ \E s \in Nat : UnreadIn(s, pipe', sent) /\ NotedTo(s, notes')
           /\ Notes(Head(pipe)) => /\ notes' # <<>> /\ notes'[Len(notes')] = Head(pipe).serial
                                   /\ \A k \in DOMAIN notes' : notes'[k] = notes'[1] + k - 1
<1>0. /\ pipe \in Seq(Message) /\ sent \in Nat /\ notes \in Seq(Nat) /\ pipe # <<>>
      /\ pipe' = Tail(pipe)
  BY DEF StdioInv, StdioTypeOK, ReadMessage
<1>1. PICK s \in Nat : UnreadIn(s, pipe, sent) /\ NotedTo(s, notes)
  BY DEF StdioInv, NotesInOrder
<1>2. CASE Notes(Head(pipe))
  <2>1. s + 1 \in Nat
    OBVIOUS
  <2>2. UnreadIn(s + 1, Tail(pipe), sent) /\ Head(pipe).serial = s + 1
    BY <1>0, <1>1, <1>2, <2>1, UnreadTail
  <2>3. notes' = Buffer(notes, s + 1)
    BY <1>2, <2>2 DEF ReadMessage, Notes
  <2>4. /\ notes' # <<>> /\ NotedTo(s + 1, notes')
        /\ notes'[Len(notes')] = s + 1
    BY <1>0, <1>1, <2>3, BufferFacts
  <2> QED
    BY <1>0, <2>1, <2>2, <2>4 DEF NotedTo
<1>3. CASE ~Notes(Head(pipe))
  <2>1. Head(pipe).kind = "response"
    <3>1. Head(pipe) = pipe[1] /\ 1 \in DOMAIN pipe
      BY <1>0, TailFacts
    <3> QED
      BY <1>3, <3>1 DEF StdioInv, NotesInOrder, Notes
  <2>2. notes' = notes
    BY <2>1 DEF ReadMessage
  <2>3. UnreadIn(s, Tail(pipe), sent)
    BY <1>0, <1>1, <1>3, UnreadTail
  <2> QED
    BY <1>0, <1>1, <1>3, <2>2, <2>3
<1> QED
  BY <1>2, <1>3

LEMMA NotesKept == ASSUME StdioInv, StdioNext PROVE NotesInOrder'
<1>0. /\ pipe \in Seq(Message) /\ sent \in Nat /\ notes \in Seq(Nat) /\ open \subseteq Message
  BY DEF StdioInv, StdioTypeOK
<1>1. PICK s \in Nat : UnreadIn(s, pipe, sent) /\ NotedTo(s, notes)
  BY DEF StdioInv, NotesInOrder
<1>2. \A i \in DOMAIN pipe : pipe[i].kind \in {"note", "response"}
  BY DEF StdioInv, NotesInOrder
<1>3. ASSUME NEW m \in Message, NEW to \in Nat, m.kind \in {"note", "response"},
             pipe' = Append(pipe, m), sent' = to, notes' = notes,
             IF Notes(m) THEN m.serial = sent + 1 /\ to = sent + 1 ELSE to = sent
      PROVE  NotesInOrder'
  <2>1. UnreadIn(s, Append(pipe, m), to)
    BY <1>0, <1>1, <1>3, UnreadAppend
  <2>2. /\ Len(pipe) \in Nat /\ DOMAIN pipe = 1..Len(pipe)
        /\ DOMAIN Append(pipe, m) = 1..(Len(pipe) + 1)
        /\ \A i \in DOMAIN pipe : Append(pipe, m)[i] = pipe[i]
        /\ Append(pipe, m)[Len(pipe) + 1] = m
    BY <1>0, AppendFacts
  <2>3. \A i \in DOMAIN Append(pipe, m) : i \in DOMAIN pipe \/ i = Len(pipe) + 1
    BY <2>2
  <2>4. \A i \in DOMAIN pipe' : pipe'[i].kind \in {"note", "response"}
    BY <1>2, <1>3, <2>2, <2>3
  <2> QED
    BY <1>1, <1>3, <2>1, <2>4 DEF NotesInOrder
<1>4. CASE ReadMessage
  <2>1. sent' = sent /\ pipe' = Tail(pipe) /\ pipe # <<>>
    BY <1>4 DEF ReadMessage
  <2>2. \A i \in DOMAIN pipe' : pipe'[i].kind \in {"note", "response"}
    BY <1>0, <1>2, <2>1, TailFacts
  <2>3. \E v \in Nat : UnreadIn(v, pipe', sent) /\ NotedTo(v, notes')
    BY <1>4, NoteRead
  <2> QED
    BY <2>1, <2>2, <2>3 DEF NotesInOrder
<1>5. CASE ChildNotifies
  <2>1. sent + 1 \in Nat
    BY <1>0
  <2>2. /\ Msg("note", 0, sent + 1) \in Message /\ Msg("note", 0, sent + 1).kind = "note"
        /\ Msg("note", 0, sent + 1).serial = sent + 1
    BY <2>1, MessageFields, MessageKinds
  <2>3. pipe' = Append(pipe, Msg("note", 0, sent + 1)) /\ sent' = sent + 1 /\ notes' = notes
    BY <1>5 DEF ChildNotifies
  <2> QED
    BY <1>3, <2>1, <2>2, <2>3 DEF Notes
<1>6. CASE \E m \in open : ChildAnswers(m)
  <2>0. PICK m \in open : ChildAnswers(m)
    BY <1>6
  <2>1. Reply(m) \in Message /\ Reply(m).kind = "response"
    BY <1>0, MessageFields
  <2>2. pipe' = Append(pipe, Reply(m)) /\ sent' = sent /\ notes' = notes
    BY <2>0 DEF ChildAnswers
  <2> QED
    BY <1>0, <1>3, <2>1, <2>2 DEF Notes
\* A new child starts with empty pipes: what the old one had sent is past.
<1>7. ASSUME pipe' = <<>>, notes' = <<>>, sent' = sent PROVE NotesInOrder'
  <2>1. UnreadIn(sent, <<>>, sent) /\ NotedTo(sent, <<>>)
    BY <1>0 DEF UnreadIn, NotedTo
  <2> QED
    BY <1>0, <1>7, <2>1 DEF NotesInOrder
<1>8. ASSUME pipe' = pipe, notes' \in {notes, <<>>}, sent' = sent PROVE NotesInOrder'
  <2>1. NotedTo(s, <<>>)
    BY DEF NotedTo
  <2>2. NotedTo(s, notes')
    BY <1>1, <1>8, <2>1
  <2> QED
    BY <1>1, <1>2, <1>8, <2>2 DEF NotesInOrder
<1>9. CASE Probed
  BY <1>7, <1>8, <1>9 DEF Probed, childVars
<1>10. CASE StartCall \/ WriteMessage \/ Expire \/ Initialized \/ StartSubscription
            \/ CancelSubscription \/ PollClosed \/ DrainNotes \/ ChildReads \/ ChildExits
  <2>1. pipe' = pipe /\ notes' \in {notes, <<>>} /\ sent' = sent
    BY <1>10 DEF StartCall, WriteMessage, Expire, CallReturns, CallFails, Initialized,
       StartSubscription, CancelSubscription, PollClosed, DrainNotes, ChildReads, ChildExits, childVars
  <2> QED
    BY <1>8, <2>1
<1> QED
  BY <1>4, <1>5, <1>6, <1>9, <1>10 DEF StdioNext

-----------------------------------------------------------------------------
(* The theorems. *)

LEMMA StdioNextPreserves == StdioInv /\ [StdioNext]_stdioVars => StdioInv'
<1>1. ASSUME StdioInv, StdioNext PROVE StdioInv'
  <2>1. StdioTypeOK'
    BY <1>1, StdioTypesKept DEF StdioInv
  <2>2. TableKept' /\ EndsInOrder'
    BY <1>1, TableKeeps, EndsKept DEF StdioInv
  <2>3. MessagesOwned'
    BY <1>1, MessagesKeep DEF StdioInv
  <2>4. child' = "running" => AskedOnce' /\ ListensInTurn'
    BY <1>1, QueueKept
  <2>5. NotesInOrder'
    BY <1>1, NotesKept
  <2>6. generation' \in Nat
    <3>1. generation' = generation \/ generation' = generation + 1
      BY <1>1 DEF StdioNext, StartCall, WriteMessage, ReadMessage, Expire, CallReturns, CallFails,
         Probed, Initialized, StartSubscription, CancelSubscription, PollClosed, DrainNotes,
         ChildReads, ChildNotifies, ChildExits, ChildAnswers, client
    <3> QED
      BY <1>1, <3>1 DEF StdioInv
  <2> QED
    BY <2>1, <2>2, <2>3, <2>4, <2>5, <2>6 DEF StdioInv
<1>2. ASSUME StdioInv, UNCHANGED stdioVars PROVE StdioInv'
  <2>1. /\ UNCHANGED <<phase, era, generation, ended, channels, outbox, writer, arrived>>
        /\ UNCHANGED <<child, inbox, open, pipe, sent, next_id, notes, call, sub, serial>>
    BY <1>2 DEF stdioVars, client, wires, childVars
  <2>2. StdioTypeOK'
    BY <1>2, <2>1 DEF StdioInv, StdioTypeOK
  <2>3. TableKept' /\ EndsInOrder'
    BY <1>2, <2>1 DEF StdioInv, TableKept, EndsInOrder, Ids
  <2>4. MessagesOwned'
    BY <1>2, <2>1 DEF StdioInv, MessagesOwned, Own
  <2>5. child' = "running" => AskedOnce' /\ ListensInTurn'
    <3>1. Queue' = Queue /\ Answered' = Answered
      BY <2>1 DEF Queue, Answered, Ids
    <3> QED
      BY <1>2, <2>1, <3>1 DEF StdioInv, AskedOnce, ListensInTurn
  <2>6. NotesInOrder'
    BY <1>2, <2>1 DEF StdioInv, NotesInOrder
  <2>7. generation' \in Nat
    BY <1>2, <2>1 DEF StdioInv
  <2> QED
    BY <2>2, <2>3, <2>4, <2>5, <2>6, <2>7 DEF StdioInv
<1> QED
  BY <1>1, <1>2

LEMMA StdioInvIsTrue == StdioInv => StdioCallsAreTrue
<1> SUFFICES ASSUME StdioInv PROVE StdioCallsAreTrue
  OBVIOUS
<1>1. NoChannelLeaks
  BY DEF StdioInv, TableKept, NoChannelLeaks
<1>2. OwnResponse
  BY DEF StdioInv, MessagesOwned, Own, OwnTo, OwnResponse
<1>3. OneListener
  <2> DEFINE L == {m \in open : m.kind = "listen"}
  <2>1. \A m, n \in L : m = n
    <3>1. CASE child = "running"
      BY <3>1 DEF StdioInv, ListensInTurn, ListensIn, Listens
    <3>2. CASE child = "exited"
      BY <3>2 DEF StdioInv, EndsInOrder
    <3> QED
      BY <3>1, <3>2 DEF StdioInv, StdioTypeOK
  <2> HIDE DEF L
  <2>2. Cardinality(L) <= 1
    <3>1. CASE L = {}
      BY <3>1, FS_EmptySet
    <3>2. CASE L # {}
      <4>1. PICK m \in L : TRUE
        BY <3>2
      <4>2. L = {m}
        BY <2>1, <4>1
      <4>3. Cardinality({m}) = 1
        BY FS_Singleton
      <4> QED
        BY <4>2, <4>3
    <3> QED
      BY <3>1, <3>2
  <2> QED
    BY <2>2 DEF OneListener, L
<1> QED
  BY <1>1, <1>2, <1>3 DEF StdioCallsAreTrue

\* Only the reader takes a message from the pipe of a child.
LEMMA NewestNotesStep ==
    StdioInv /\ [StdioNext]_stdioVars =>
      (pipe # <<>> /\ pipe' = Tail(pipe) /\ Head(pipe).kind = "note" /\ generation' = generation =>
         /\ notes' # <<>> /\ notes'[Len(notes')] = Head(pipe).serial
         /\ \A k \in DOMAIN notes' : notes'[k] = notes'[1] + k - 1)
<1> SUFFICES ASSUME StdioInv, [StdioNext]_stdioVars, pipe # <<>>, pipe' = Tail(pipe),
                    Head(pipe).kind = "note", generation' = generation
             PROVE  /\ notes' # <<>> /\ notes'[Len(notes')] = Head(pipe).serial
                    /\ \A k \in DOMAIN notes' : notes'[k] = notes'[1] + k - 1
  OBVIOUS
<1>1. pipe \in Seq(Message) /\ open \subseteq Message /\ sent \in Nat /\ generation \in Nat
  BY DEF StdioInv, StdioTypeOK
<1>2. Len(pipe') = Len(pipe) - 1 /\ Len(pipe) \in Nat
  BY <1>1, TailFacts
<1>3. CASE ReadMessage
  BY <1>3, NoteRead DEF Notes
<1>4. CASE ChildNotifies
  <2>1. sent + 1 \in Nat
    BY <1>1
  <2>2. Msg("note", 0, sent + 1) \in Message
    BY <2>1, MessageFields, MessageKinds
  <2>3. Len(Append(pipe, Msg("note", 0, sent + 1))) = Len(pipe) + 1
    BY <1>1, <2>2, AppendFacts
  <2>4. pipe' = Append(pipe, Msg("note", 0, sent + 1))
    BY <1>4 DEF ChildNotifies
  <2> QED
    BY <1>2, <2>3, <2>4
<1>5. CASE \E m \in open : ChildAnswers(m)
  <2>1. PICK m \in open : ChildAnswers(m)
    BY <1>5
  <2>2. Reply(m) \in Message
    BY <1>1, MessageFields
  <2>3. Len(Append(pipe, Reply(m))) = Len(pipe) + 1
    BY <1>1, <2>2, AppendFacts
  <2>4. pipe' = Append(pipe, Reply(m))
    BY <2>1 DEF ChildAnswers
  <2> QED
    BY <1>2, <2>3, <2>4
<1>6. CASE pipe' = pipe
  BY <1>2, <1>6
<1>7. CASE Probed
  BY <1>1, <1>6, <1>7 DEF Probed, childVars
<1>8. CASE StartCall \/ WriteMessage \/ Expire \/ Initialized \/ StartSubscription
            \/ CancelSubscription \/ PollClosed \/ DrainNotes \/ ChildReads \/ ChildExits
  <2>1. pipe' = pipe
    BY <1>8 DEF StartCall, WriteMessage, Expire, CallReturns, CallFails, Initialized,
       StartSubscription, CancelSubscription, PollClosed, DrainNotes, ChildReads, ChildExits, childVars
  <2> QED
    BY <1>6, <2>1
<1>9. CASE UNCHANGED stdioVars
  BY <1>6, <1>9 DEF stdioVars, childVars
<1> QED
  BY <1>3, <1>4, <1>5, <1>7, <1>8, <1>9 DEF StdioNext

\* The invariant holds of every behaviour of the client, its tasks and its child.
THEOREM StdioInvariance == StdioSpec => []StdioInv
<1>1. StdioInit => StdioInv
  BY StdioInitEstablishes
<1>2. StdioInv /\ [StdioNext]_stdioVars => StdioInv'
  BY StdioNextPreserves
<1> QED
  BY <1>1, <1>2, PTL DEF StdioSpec

\* However long a client lives, with timeouts, late responses, cancellations
\* and exits, its table of pending requests holds the call under way and the
\* subscription only, a call gets the response to itself, and the child serves
\* one listen request at most.
THEOREM StdioCallsTrue == StdioSpec => []StdioCallsAreTrue
BY StdioInvariance, StdioInvIsTrue, PTL

\* Whatever the limit of the buffer and however many notifications come, the
\* reader leaves the newest in it, in order and without a hole.
THEOREM NewestNotesKept == StdioSpec => NewestNotes
<1>1. StdioInv /\ [StdioNext]_stdioVars =>
        [pipe # <<>> /\ pipe' = Tail(pipe) /\ Head(pipe).kind = "note" /\ generation' = generation =>
           /\ notes' # <<>> /\ notes'[Len(notes')] = Head(pipe).serial
           /\ \A k \in DOMAIN notes' : notes'[k] = notes'[1] + k - 1]_stdioVars
  BY NewestNotesStep
<1> QED
  BY <1>1, StdioInvariance, PTL DEF StdioSpec, NewestNotes

-----------------------------------------------------------------------------
(* The daemon's requests: the inductive invariant. *)

Steps == {"closed", "read", "method", "global", "full", "queued", "waiting", "granted", "run", "done"}
OnConns(f) == f = [c \in Conns |-> f[c]]

ReqTypeOK ==
    /\ frame \in [Conns -> Frames \cup {Unused}]
    /\ at \in [Conns -> Steps]
    /\ OnConns(response) /\ OnConns(printed)
    /\ queued \subseteq Conns /\ granted \subseteq Conns /\ busy \subseteq Conns
    /\ stopping \in BOOLEAN

\* A connection that carries nothing is not handled.
UnusedIsClosed == \A c \in Conns : frame[c] = Unused => at[c] = "closed"

\* Only body reads wait for permits, and a connection holds what its place in
\* read_email_body says: a place in the queue until it runs on with its permit,
\* a permit of `global`, and then perhaps its source's.
PermitsFollowSteps ==
    \A c \in Conns :
      /\ at[c] \in {"global", "full", "queued", "waiting", "granted"}
           => frame[c].method = "email.body.read"
      /\ c \in queued <=> at[c] \in {"queued", "waiting"}
      /\ at[c] = "granted" \/ (at[c] = "run" /\ frame[c].method = "email.body.read") => c \in granted
      /\ c \in granted => \/ at[c] \in {"waiting", "granted"}
                          \/ at[c] = "run" /\ frame[c].method = "email.body.read"
      /\ c \in busy => at[c] = "run"

\* The permits of `global` are not exceeded, and who waits finds them all held.
GlobalBounded ==
    /\ Cardinality(granted) <= GlobalLimit
    /\ Waiters # {} => Cardinality(granted) >= GlobalLimit

\* The client has no code of the daemon's before the response, and there is
\* one response at the end.
AnsweredAtEnd ==
    \A c \in Conns :
      /\ at[c] # "done" => response[c] = <<>> /\ printed[c] \in {"none", "gave_up"}
      /\ at[c] = "done" => Len(response[c]) = 1

\* The source's limit, counted per source.
SourcesBounded == \A c \in busy : Cardinality(BusyFor(frame[c].source)) <= SourceLimit

ReqInv ==
    /\ ReqTypeOK
    /\ UnusedIsClosed
    /\ PermitsFollowSteps
    /\ AnsweredAtEnd
    /\ SourcesBounded
    /\ GlobalBounded
    /\ CodeKept
    /\ RetryIsHonest

-----------------------------------------------------------------------------
(* The operators of the wire. *)

\* The first response of a connection.
LEMMA FirstResponse ==
    ASSUME NEW r
    PROVE  Len(Append(<<>>, r)) = 1 /\ Append(<<>>, r)[1] = r
<1>1. <<>> \in Seq({r}) /\ r \in {r}
  OBVIOUS
<1> QED
  BY <1>1

\* An error whose kind the wire keeps is printed under its own code.
LEMMA CarriedKeepsCode ==
    ASSUME NEW e \in Carried
    PROVE  Printed(FromAnyhow(e)) = ErrorCode(e) /\ e # "ok"
<1>1. CASE e \in BodyCodes \cup BodyRetryable \cup AttachmentCodes
  <2>1. e \notin Uxc /\ e \notin {"json", "other", "none", "ok"}
    BY <1>1 DEF BodyCodes, BodyRetryable, AttachmentCodes, Uxc
  <2>2. FromAnyhow(e).data = e /\ FromAnyhow(e).code = -32030
    BY <2>1 DEF FromAnyhow, Wire
  <2> QED
    BY <2>1, <2>2 DEF Printed, ClientError
<1>2. CASE e \in Carried \ (BodyCodes \cup BodyRetryable \cup AttachmentCodes)
  <2>1. e \in {"ProtocolDetectionFailed", "UnsupportedProtocol", "SchemaRetrievalFailed",
               "OperationNotFound", "InvalidArguments", "ExecutionFailed", "OAuthRequired",
               "OAuthRefreshFailed", "OAuthScopeInsufficient", "NetworkError", "other"}
    BY <1>2 DEF Carried, Uxc
  <2>2. FromAnyhow(e).data = "none"
    BY <2>1 DEF FromAnyhow, Wire, Uxc
  <2>3. FromAnyhow(e).code = IF e = "other" THEN -32030 ELSE WireCode(e)
    BY <2>1 DEF FromAnyhow, Wire, Uxc
  <2>4. e # "ok"
    BY <2>1
  <2>5. CASE e \in {"ProtocolDetectionFailed", "UnsupportedProtocol"}
    <3>1. CASE e = "ProtocolDetectionFailed"
      BY <2>2, <2>3, <3>1 DEF WireCode, Printed, ClientError, ErrorCode
    <3>2. CASE e = "UnsupportedProtocol"
      BY <2>2, <2>3, <3>2 DEF WireCode, Printed, ClientError, ErrorCode
    <3> QED
      BY <2>5, <3>1, <3>2
  <2>6. CASE e = "OperationNotFound"
    BY <2>2, <2>3, <2>6 DEF WireCode, Printed, ClientError, ErrorCode
  <2>7. CASE e = "InvalidArguments"
    BY <2>2, <2>3, <2>7 DEF WireCode, Printed, ClientError, ErrorCode
  <2>8. CASE e = "OAuthRequired"
    BY <2>2, <2>3, <2>8 DEF WireCode, Printed, ClientError, ErrorCode
  <2>9. CASE e = "OAuthRefreshFailed"
    BY <2>2, <2>3, <2>9 DEF WireCode, Printed, ClientError, ErrorCode
  <2>10. CASE e = "OAuthScopeInsufficient"
    BY <2>2, <2>3, <2>10 DEF WireCode, Printed, ClientError, ErrorCode
  <2>11. CASE e \in {"SchemaRetrievalFailed", "ExecutionFailed", "NetworkError", "other"}
    <3>1. CASE e = "SchemaRetrievalFailed"
      BY <2>2, <2>3, <3>1 DEF WireCode, Printed, ClientError, ErrorCode
    <3>2. CASE e = "ExecutionFailed"
      BY <2>2, <2>3, <3>2 DEF WireCode, Printed, ClientError, ErrorCode
    <3>3. CASE e = "NetworkError"
      BY <2>2, <2>3, <3>3 DEF WireCode, Printed, ClientError, ErrorCode
    <3>4. CASE e = "other"
      BY <2>2, <2>3, <3>4 DEF WireCode, Printed, ClientError, ErrorCode
    <3> QED
      BY <2>11, <3>1, <3>2, <3>3, <3>4
  <2> QED
    BY <2>1, <2>4, <2>5, <2>6, <2>7, <2>8, <2>9, <2>10, <2>11
<1> QED
  BY <1>1, <1>2

\* An error that trying again cannot mend is not sent with a retryable code.
LEMMA RetryableIsHonest ==
    /\ \A e \in BodyCodes : ~Retryable(BodyError(e).data)
    /\ \A e \in AttachmentCodes : ~Retryable(AttachmentError(e).data)
    /\ ~Retryable("none")
<1>1. ASSUME NEW e \in BodyCodes PROVE ~Retryable(BodyError(e).data)
  BY DEF BodyError, Wire, Retryable, BodyCodes, BodyRetryable, AttachmentRetryable
<1>2. ASSUME NEW e \in AttachmentCodes PROVE ~Retryable(AttachmentError(e).data)
  BY DEF AttachmentError, Wire, Retryable, AttachmentCodes, BodyRetryable, AttachmentRetryable
<1> QED
  BY <1>1, <1>2 DEF Retryable, BodyRetryable, AttachmentRetryable

-----------------------------------------------------------------------------
(* Each action preserves the invariant. *)

\* Before anything is accepted nothing is handled.
LEMMA InitEstablishes == ReqInit => ReqInv
<1> SUFFICES ASSUME ReqInit PROVE ReqInv
  OBVIOUS
<1>1. ReqTypeOK
  BY DEF ReqInit, ReqTypeOK, OnConns, Steps
<1>2. UnusedIsClosed /\ PermitsFollowSteps /\ AnsweredAtEnd /\ SourcesBounded
  BY DEF ReqInit, UnusedIsClosed, PermitsFollowSteps, AnsweredAtEnd, SourcesBounded
<1>3. CodeKept /\ RetryIsHonest
  BY DEF ReqInit, CodeKept, RetryIsHonest
<1>4. GlobalBounded
  <2>1. Waiters = {} /\ Cardinality(granted) = 0
    BY FS_EmptySet DEF ReqInit, Waiters
  <2> QED
    BY <2>1, LimitsAssumption DEF GlobalBounded
<1> QED
  BY <1>1, <1>2, <1>3, <1>4 DEF ReqInv

\* The permits held are finitely many.
LEMMA GrantedFinite ==
    ASSUME ReqInv
    PROVE  /\ IsFiniteSet(granted) /\ Cardinality(granted) \in Nat
           /\ \A c : Cardinality(granted \cup {c})
                     = IF c \in granted THEN Cardinality(granted) ELSE Cardinality(granted) + 1
           /\ \A c : IsFiniteSet(granted \ {c}) /\ Cardinality(granted \ {c})
                     = IF c \in granted THEN Cardinality(granted) - 1 ELSE Cardinality(granted)
<1>1. IsFiniteSet(granted)
  BY ConnsAssumption, FS_Subset DEF ReqInv, ReqTypeOK
<1> QED
  BY <1>1, FS_CardinalityType, FS_AddElement, FS_RemoveElement

\* A step of c that keeps its permits or takes a free one.
LEMMA GlobalKept ==
    ASSUME ReqInv, NEW c \in Conns, NEW l, at' = [at EXCEPT ![c] = l],
           \/ granted' = granted /\ (l # "waiting" \/ Cardinality(granted) >= GlobalLimit)
           \/ granted' = granted \cup {c} /\ Cardinality(granted) < GlobalLimit
    PROVE  GlobalBounded'
<1>0. /\ at \in [Conns -> Steps] /\ Cardinality(granted) \in Nat
      /\ Cardinality(granted) <= GlobalLimit /\ GlobalLimit \in Nat
      /\ Waiters # {} => Cardinality(granted) >= GlobalLimit
  BY GrantedFinite, LimitsAssumption DEF ReqInv, ReqTypeOK, GlobalBounded
<1>1. CASE granted' = granted /\ (l # "waiting" \/ Cardinality(granted) >= GlobalLimit)
  <2>1. Waiters' \subseteq Waiters \/ Cardinality(granted) >= GlobalLimit
    BY <1>0, <1>1 DEF Waiters
  <2> QED
    BY <1>0, <1>1, <2>1 DEF GlobalBounded
<1>2. CASE granted' = granted \cup {c} /\ Cardinality(granted) < GlobalLimit
  <2>1. Waiters = {}
    BY <1>0, <1>2
  <2>2. Waiters' = {}
    BY <1>0, <1>2, <2>1 DEF Waiters
  <2>3. Cardinality(granted') <= GlobalLimit
    BY <1>0, <1>2, GrantedFinite
  <2> QED
    BY <2>2, <2>3 DEF GlobalBounded
<1> QED
  BY <1>1, <1>2

\* A permit that is given back goes to a waiter, if there is one.
LEMMA HandOverKeeps ==
    ASSUME ReqInv, NEW c \in Conns, at' = [at EXCEPT ![c] = "done"], HandOver(c)
    PROVE  /\ GlobalBounded' /\ granted' \subseteq Conns /\ c \notin granted'
           /\ \A d \in Conns \ {c} : d \in granted => d \in granted'
           /\ \A d \in granted' : d \in granted \/ at[d] = "waiting"
<1>0. /\ at \in [Conns -> Steps] /\ Cardinality(granted) \in Nat
      /\ Cardinality(granted) <= GlobalLimit /\ GlobalLimit \in Nat
      /\ Waiters # {} => Cardinality(granted) >= GlobalLimit
      /\ granted \subseteq Conns
  BY GrantedFinite, LimitsAssumption DEF ReqInv, ReqTypeOK, GlobalBounded
<1>1. CASE c \in granted /\ Waiters # {}
  <2>1. PICK w \in Waiters : granted' = (granted \ {c}) \cup {w}
    BY <1>1 DEF HandOver
  <2>2. w \in Conns /\ w \notin granted /\ at[w] = "waiting" /\ w # c
    BY <1>1, <2>1 DEF Waiters
  <2>3. Cardinality(granted') = Cardinality(granted)
    <3>1. IsFiniteSet(granted \ {c}) /\ Cardinality(granted \ {c}) = Cardinality(granted) - 1
      BY <1>1, GrantedFinite
    <3>2. w \notin granted \ {c}
      BY <2>2
    <3>3. Cardinality((granted \ {c}) \cup {w}) = Cardinality(granted \ {c}) + 1
      BY <3>1, <3>2, FS_AddElement
    <3> QED
      BY <1>0, <2>1, <3>1, <3>3
  <2>4. GlobalBounded'
    BY <1>0, <1>1, <2>3 DEF GlobalBounded
  <2> QED
    BY <1>0, <2>1, <2>2, <2>4
<1>2. CASE ~(c \in granted /\ Waiters # {})
  <2>1. granted' = granted \ {c}
    BY <1>2 DEF HandOver
  <2>2. Cardinality(granted') <= GlobalLimit
    <3>1. Cardinality(granted \ {c}) \in {Cardinality(granted), Cardinality(granted) - 1}
      BY GrantedFinite
    <3> QED
      BY <1>0, <2>1, <3>1
  <2>3. Waiters' # {} => Cardinality(granted') >= GlobalLimit
    <3>1. CASE c \in granted
      BY <1>0, <1>2, <2>1, <3>1 DEF Waiters
    <3>2. CASE c \notin granted
      <4>1. granted' = granted /\ Waiters' \subseteq Waiters
        BY <1>0, <2>1, <3>2 DEF Waiters
      <4> QED
        BY <1>0, <4>1
    <3> QED
      BY <3>1, <3>2
  <2> QED
    BY <1>0, <2>1, <2>2, <2>3 DEF GlobalBounded
<1> QED
  BY <1>1, <1>2

\* Giving source permits back never exceeds a limit.
LEMMA FewerBusy ==
    ASSUME ReqInv, UNCHANGED frame, busy' \subseteq busy
    PROVE  SourcesBounded'
<1> SUFFICES ASSUME NEW c \in busy'
             PROVE  Cardinality({d \in busy' : frame[d].source = frame[c].source}) <= SourceLimit
  BY DEF SourcesBounded, BusyFor
<1> DEFINE before == {d \in busy : frame[d].source = frame[c].source}
           after == {d \in busy' : frame[d].source = frame[c].source}
<1>1. IsFiniteSet(before)
  <2>1. before \in SUBSET Conns
    BY DEF ReqInv, ReqTypeOK
  <2> QED
    BY <2>1, ConnsAssumption, FS_Subset
<1>2. after \in SUBSET before
  OBVIOUS
<1>3. /\ Cardinality(after) <= Cardinality(before)
      /\ Cardinality(after) \in Nat /\ Cardinality(before) \in Nat
  BY <1>1, <1>2, FS_Subset, FS_CardinalityType
<1>4. Cardinality(before) <= SourceLimit
  BY DEF ReqInv, SourcesBounded, BusyFor
<1> QED
  BY <1>3, <1>4, LimitsAssumption

\* What the invariant asks of a response r to connection c.
Honest(c, r) ==
    /\ /\ Reached(c) /\ frame[c].method \in OtherMethods \cup {"email.send", "email.reply"}
       /\ frame[c].outcome \in Carried
       => Printed(r) = ErrorCode(frame[c].outcome)
    /\ Retryable(r.data) /\ r.data # "timeout"
       => /\ frame[c].method = "email.body.read" => frame[c].outcome \notin BodyCodes
          /\ frame[c].method = "email.attachment.get" => frame[c].outcome \notin AttachmentCodes

\* An honest response that takes the connection's permits with it.
LEMMA AnswerKeeps ==
    ASSUME ReqInv, NEW c \in Conns, NEW r, at[c] \notin {"done", "closed"}, Write(c, r),
           Release(c), UNCHANGED frame, stopping' \in BOOLEAN, Honest(c, r)
    PROVE  ReqInv'
<1>1. /\ response' = [response EXCEPT ![c] = Append(<<>>, r)]
      /\ response'[c] # <<>> /\ Len(response'[c]) = 1 /\ response'[c][1] = r
      /\ \A d \in Conns \ {c} : response'[d] = response[d]
  <2>1. response[c] = <<>> /\ OnConns(response)
    BY DEF ReqInv, AnsweredAtEnd, ReqTypeOK
  <2>2. response' = [response EXCEPT ![c] = Append(<<>>, r)]
    BY <2>1 DEF Write
  <2>3. response'[c] = Append(<<>>, r) /\ \A d \in Conns \ {c} : response'[d] = response[d]
    BY <2>1, <2>2 DEF OnConns
  <2> QED
    BY <2>2, <2>3, FirstResponse
<1>2. /\ printed'[c] \in {Printed(r), "gave_up"}
      /\ \A d \in Conns \ {c} : printed'[d] = printed[d]
  BY DEF Write, ReqInv, AnsweredAtEnd, ReqTypeOK, OnConns
<1>3. at' = [at EXCEPT ![c] = "done"] /\ at \in [Conns -> Steps]
  BY DEF Write, Goto, ReqInv, ReqTypeOK
<1>4. ReqTypeOK'
  <2>1. OnConns(response)' /\ OnConns(printed)'
    BY <1>1 DEF Write, OnConns, ReqInv, ReqTypeOK
  <2>2. at' \in [Conns -> Steps]
    BY <1>3 DEF Steps
  <2> QED
    BY <1>3, <2>1, <2>2, HandOverKeeps DEF ReqInv, ReqTypeOK, Release
<1>5. UnusedIsClosed' /\ PermitsFollowSteps' /\ GlobalBounded'
  <2>1. /\ GlobalBounded' /\ granted' \subseteq Conns /\ c \notin granted'
        /\ \A d \in Conns \ {c} : d \in granted => d \in granted'
        /\ \A d \in granted' : d \in granted \/ at[d] = "waiting"
    BY <1>3, HandOverKeeps DEF Release
  <2> QED
    BY <1>3, <2>1 DEF ReqInv, UnusedIsClosed, PermitsFollowSteps, Release
<1>6. AnsweredAtEnd'
  BY <1>1, <1>2, <1>3 DEF ReqInv, AnsweredAtEnd
<1>7. SourcesBounded'
  BY FewerBusy DEF Release
<1>8. CodeKept'
  BY <1>2 DEF Honest, ReqInv, CodeKept, Reached
<1>9. RetryIsHonest'
  BY <1>1 DEF Honest, ReqInv, RetryIsHonest
<1> QED
  BY <1>4, <1>5, <1>6, <1>7, <1>8, <1>9 DEF ReqInv

\* A connection without permits has none to give back.
LEMMA NothingToRelease ==
    ASSUME ReqInv, NEW c \in Conns, at[c] \in {"read", "method", "full"},
           UNCHANGED <<queued, granted, busy>>
    PROVE  Release(c)
BY DEF ReqInv, PermitsFollowSteps, Release, HandOver

\* A step of a handler that answers nothing keeps what has been answered.
LEMMA MoveKeeps ==
    ASSUME ReqInv, NEW c \in Conns, NEW l \in Steps \ {"done", "closed"},
           at[c] \notin {"done", "closed"}, Goto(c, l),
           UNCHANGED <<frame, response, printed, stopping>>
    PROVE  /\ at \in [Conns -> Steps] /\ at' \in [Conns -> Steps]
           /\ at' = [at EXCEPT ![c] = l]
           /\ OnConns(response)' /\ OnConns(printed)'
           /\ UnusedIsClosed' /\ AnsweredAtEnd' /\ CodeKept' /\ RetryIsHonest'
<1>1. at \in [Conns -> Steps] /\ at' \in [Conns -> Steps] /\ at' = [at EXCEPT ![c] = l]
  BY DEF Goto, ReqInv, ReqTypeOK
<1>2. UnusedIsClosed' /\ AnsweredAtEnd'
  BY <1>1 DEF ReqInv, UnusedIsClosed, AnsweredAtEnd
<1>3. CodeKept' /\ RetryIsHonest'
  BY DEF ReqInv, CodeKept, RetryIsHonest, Reached
<1> QED
  BY <1>1, <1>2, <1>3 DEF ReqInv, ReqTypeOK, OnConns

\* The accept loop starts from connections that hold nothing.
LEMMA AcceptKeeps ==
    ASSUME ReqInv, AcceptAll
    PROVE  ReqInv'
<1>1. \A c \in Conns : at[c] = "closed"
  BY DEF AcceptAll, ReqInv, UnusedIsClosed
<1>2. queued = {} /\ granted = {} /\ busy = {}
  BY <1>1 DEF ReqInv, ReqTypeOK, PermitsFollowSteps
<1>3. frame' \in [Conns -> Frames \cup {Unused}]
  BY LoadsAssumption DEF AcceptAll
<1>4. \A c \in Conns : at'[c] = IF frame'[c] = Unused THEN "closed" ELSE "read"
  BY DEF AcceptAll
<1>5. at' \in [Conns -> Steps]
  BY DEF AcceptAll, Steps
<1>6. \A c \in Conns : response'[c] = <<>> /\ printed'[c] \in {"none", "gave_up"}
  BY <1>1 DEF AcceptAll, ReqInv, AnsweredAtEnd
<1>7. ReqTypeOK'
  BY <1>3, <1>5 DEF AcceptAll, ReqInv, ReqTypeOK, OnConns
<1>10. GlobalBounded'
  <2>1. granted' = {} /\ Waiters' = {} /\ Cardinality(granted') = 0
    BY <1>2, <1>4, FS_EmptySet DEF AcceptAll, Waiters
  <2> QED
    BY <2>1, LimitsAssumption DEF GlobalBounded
<1>8. UnusedIsClosed' /\ PermitsFollowSteps' /\ AnsweredAtEnd' /\ SourcesBounded'
  BY <1>2, <1>4, <1>6
  DEF AcceptAll, UnusedIsClosed, PermitsFollowSteps, AnsweredAtEnd, SourcesBounded
<1>9. CodeKept' /\ RetryIsHonest'
  BY <1>6 DEF CodeKept, RetryIsHonest
<1> QED
  BY <1>7, <1>8, <1>9, <1>10 DEF ReqInv

\* A frame that is no request is answered as such, and never printed as the
\* outcome of a method.
LEMMA ReadKeeps ==
    ASSUME ReqInv, NEW c \in Conns, ReadRequest(c)
    PROVE  ReqInv'
<1>1. at[c] = "read" /\ UNCHANGED <<frame, queued, granted, busy, stopping>> /\ Release(c)
  BY NothingToRelease DEF ReadRequest
<1>2. stopping' \in BOOLEAN
  BY <1>1 DEF ReqInv, ReqTypeOK
<1>3. ASSUME NEW code, Write(c, Anonymous(code)), ~Reached(c)
      PROVE  ReqInv'
  <2>1. Honest(c, Anonymous(code))
    BY <1>3, RetryableIsHonest DEF Honest, Anonymous
  <2> QED
    BY <1>1, <1>2, <1>3, <2>1, AnswerKeeps
<1>4. ASSUME NEW code, Write(c, Wire(code, "none")), ~Reached(c)
      PROVE  ReqInv'
  <2>1. Honest(c, Wire(code, "none"))
    BY <1>4, RetryableIsHonest DEF Honest, Wire
  <2> QED
    BY <1>1, <1>2, <1>4, <2>1, AnswerKeeps
<1>5. CASE Goto(c, "method") /\ UNCHANGED <<response, printed>>
  <2>1. /\ at \in [Conns -> Steps] /\ at' \in [Conns -> Steps]
        /\ at' = [at EXCEPT ![c] = "method"]
        /\ OnConns(response)' /\ OnConns(printed)'
        /\ UnusedIsClosed' /\ AnsweredAtEnd' /\ CodeKept' /\ RetryIsHonest'
    <3>1. "method" \in Steps \ {"done", "closed"}
      BY DEF Steps
    <3> QED
      BY <1>1, <1>5, <3>1, MoveKeeps
  <2>2. ReqTypeOK' /\ PermitsFollowSteps'
    BY <1>1, <2>1 DEF ReqInv, ReqTypeOK, PermitsFollowSteps
  <2>3. SourcesBounded' /\ GlobalBounded'
    BY <1>1, <2>1, FewerBusy, GlobalKept
  <2> QED
    BY <2>1, <2>2, <2>3 DEF ReqInv
<1>6. CASE ~Readable(frame[c])
  <2>1. Write(c, Anonymous(-32700)) /\ ~Reached(c)
    BY <1>6 DEF ReadRequest, Reached
  <2> QED
    BY <1>3, <2>1
<1>7. CASE Readable(frame[c]) /\ ~frame[c].request
  <2>1. Write(c, Anonymous(-32600)) /\ ~Reached(c)
    BY <1>7 DEF ReadRequest, Reached
  <2> QED
    BY <1>3, <2>1
<1>8. CASE Readable(frame[c]) /\ frame[c].request /\ frame[c].version # "2.0"
  <2>1. Write(c, Wire(-32600, "none")) /\ ~Reached(c)
    BY <1>8 DEF ReadRequest, Reached
  <2> QED
    BY <1>4, <2>1
<1>9. CASE Readable(frame[c]) /\ frame[c].request /\ frame[c].version = "2.0"
  <2>1. Goto(c, "method") /\ UNCHANGED <<response, printed>>
    BY <1>9 DEF ReadRequest
  <2> QED
    BY <1>5, <2>1
<1> QED
  BY <1>6, <1>7, <1>8, <1>9

\* Methods without parameters.
LEMMA BareKeeps ==
    ASSUME ReqInv, NEW c \in Conns, BareMethod(c)
    PROVE  ReqInv'
<1>1. /\ at[c] = "method" /\ UNCHANGED <<frame, queued, granted, busy>> /\ Release(c)
      /\ frame[c].method \notin EmailMethods \cup OtherMethods
  BY NothingToRelease DEF BareMethod
<1>2. stopping' \in BOOLEAN
  BY DEF BareMethod, ReqInv, ReqTypeOK
<1>3. PICK r : Write(c, r)
  BY DEF BareMethod
<1>4. Honest(c, r)
  BY <1>1 DEF Honest, EmailMethods, OtherMethods
<1> QED
  BY <1>1, <1>2, <1>3, <1>4, AnswerKeeps

\* Parameters are checked before a permit is asked for.
LEMMA ParamsKeeps ==
    ASSUME ReqInv, NEW c \in Conns, CheckParams(c)
    PROVE  ReqInv'
<1>1. at[c] = "method" /\ UNCHANGED <<frame, queued, granted, busy, stopping>> /\ Release(c)
  BY NothingToRelease DEF CheckParams
<1>2. CASE frame[c].params \in {"missing", "invalid"}
  <2>1. Write(c, Wire(-32602, "none")) /\ ~Reached(c)
    BY <1>2 DEF CheckParams, Reached
  <2>2. Honest(c, Wire(-32602, "none"))
    BY <2>1, RetryableIsHonest DEF Honest, Wire
  <2>3. stopping' \in BOOLEAN
    BY <1>1 DEF ReqInv, ReqTypeOK
  <2> QED
    BY <1>1, <2>1, <2>2, <2>3, AnswerKeeps
<1>3. CASE frame[c].params \notin {"missing", "invalid"}
  <2> DEFINE l == IF frame[c].method = "email.body.read" THEN "global" ELSE "run"
  <2>1. Goto(c, l) /\ UNCHANGED <<response, printed>>
    BY <1>3 DEF CheckParams
  <2>2. l \in Steps \ {"done", "closed"}
    BY DEF Steps
  <2> HIDE DEF l
  <2>3. /\ at \in [Conns -> Steps] /\ at' \in [Conns -> Steps]
        /\ at' = [at EXCEPT ![c] = l]
        /\ OnConns(response)' /\ OnConns(printed)'
        /\ UnusedIsClosed' /\ AnsweredAtEnd' /\ CodeKept' /\ RetryIsHonest'
    BY <1>1, <2>1, <2>2, MoveKeeps
  <2>4. ReqTypeOK'
    BY <1>1, <2>3 DEF ReqInv, ReqTypeOK
  <2>5. PermitsFollowSteps'
    BY <1>1, <2>3 DEF ReqInv, PermitsFollowSteps, l
  <2>7. l # "waiting"
    BY DEF l
  <2>6. SourcesBounded' /\ GlobalBounded'
    BY <1>1, <2>3, <2>7, FewerBusy, GlobalKept
  <2> QED
    BY <2>3, <2>4, <2>5, <2>6 DEF ReqInv
<1> QED
  BY <1>2, <1>3

\* acquire_global gives a permit, a place, or a refusal that is final.
LEMMA GlobalKeeps ==
    ASSUME ReqInv, NEW c \in Conns, AcquireGlobal(c) \/ Enqueue(c) \/ Await(c) \/ Granted(c)
    PROVE  ReqInv'
<1>1. /\ at[c] \in {"global", "full", "queued", "waiting"} /\ UNCHANGED <<frame, busy, stopping>>
      /\ at[c] \in {"global", "full", "queued"} => c \notin granted
      /\ c \in queued <=> at[c] \in {"queued", "waiting"}
  BY DEF AcquireGlobal, Enqueue, Await, Granted, ReqInv, PermitsFollowSteps
<1>2. frame[c].method = "email.body.read"
  BY <1>1 DEF ReqInv, PermitsFollowSteps
<1>3. SourcesBounded'
  BY <1>1, FewerBusy
\* A step that moves on, with what it takes and what it gives back.
<1>4. ASSUME NEW l \in {"full", "queued", "waiting", "granted"}, Goto(c, l),
             UNCHANGED <<response, printed>>, GlobalBounded',
             granted' \in {granted, granted \cup {c}},
             c \in granted' => l \in {"waiting", "granted"}, l = "granted" => c \in granted',
             queued' = IF l \in {"queued", "waiting"} THEN queued \cup {c} ELSE queued \ {c}
      PROVE  ReqInv'
  <2>1. l \in Steps \ {"done", "closed"}
    BY <1>4 DEF Steps
  <2>2. /\ at \in [Conns -> Steps] /\ at' \in [Conns -> Steps]
        /\ at' = [at EXCEPT ![c] = l]
        /\ OnConns(response)' /\ OnConns(printed)'
        /\ UnusedIsClosed' /\ AnsweredAtEnd' /\ CodeKept' /\ RetryIsHonest'
    BY <1>1, <1>4, <2>1, MoveKeeps
  <2>3. ReqTypeOK'
    BY <1>1, <1>4, <2>2 DEF ReqInv, ReqTypeOK
  <2>4. PermitsFollowSteps'
    <3>1. ASSUME NEW d \in Conns \ {c}
          PROVE  /\ at'[d] = at[d] /\ d \in queued' <=> d \in queued
                 /\ d \in granted' <=> d \in granted
      BY <1>4, <2>2
    <3> QED
      BY <1>1, <1>2, <1>4, <2>2, <3>1 DEF ReqInv, PermitsFollowSteps
  <2> QED
    BY <1>3, <1>4, <2>2, <2>3, <2>4 DEF ReqInv
<1>5. CASE AcquireGlobal(c)
  <2>1. CASE Cardinality(granted) < GlobalLimit
    <3>1. /\ Goto(c, "granted") /\ granted' = granted \cup {c} /\ UNCHANGED <<response, printed>>
          /\ queued' = queued \ {c}
      BY <1>1, <1>5, <2>1 DEF AcquireGlobal
    <3>2. GlobalBounded'
      BY <2>1, <3>1, GlobalKept DEF Goto
    <3> QED
      BY <1>4, <3>1, <3>2
  <2>2. CASE ~(Cardinality(granted) < GlobalLimit)
    <3>1. /\ Goto(c, "full") /\ granted' = granted /\ UNCHANGED <<response, printed>>
          /\ queued' = queued \ {c}
      BY <1>1, <1>5, <2>2 DEF AcquireGlobal
    <3>2. GlobalBounded' /\ c \notin granted'
      BY <1>1, <1>5, <3>1, GlobalKept DEF Goto, AcquireGlobal
    <3> QED
      BY <1>4, <3>1, <3>2
  <2> QED
    BY <2>1, <2>2
<1>6. CASE Enqueue(c)
  <2>1. CASE Cardinality(queued) < QueueLimit
    <3>1. /\ Goto(c, "queued") /\ granted' = granted /\ UNCHANGED <<response, printed>>
          /\ queued' = queued \cup {c}
      BY <1>6, <2>1 DEF Enqueue
    <3>2. GlobalBounded' /\ c \notin granted'
      BY <1>1, <1>6, <3>1, GlobalKept DEF Goto, Enqueue
    <3> QED
      BY <1>4, <3>1, <3>2
  <2>2. CASE ~(Cardinality(queued) < QueueLimit)
    <3>1. /\ at[c] = "full" /\ Write(c, BodyError("resource_limit"))
          /\ UNCHANGED <<queued, granted>>
      BY <1>6, <2>2 DEF Enqueue
    <3>2. Release(c) /\ stopping' \in BOOLEAN
      BY <1>1, <3>1, NothingToRelease DEF ReqInv, ReqTypeOK
    <3>3. Honest(c, BodyError("resource_limit"))
      <4>1. "resource_limit" \in BodyCodes
        BY DEF BodyCodes
      <4>2. ~Retryable(BodyError("resource_limit").data)
        BY <4>1, RetryableIsHonest
      <4>3. frame[c].method \notin OtherMethods \cup {"email.send", "email.reply"}
        BY <1>2 DEF OtherMethods
      <4> QED
        BY <4>2, <4>3 DEF Honest
    <3> QED
      BY <1>1, <3>1, <3>2, <3>3, AnswerKeeps
  <2> QED
    BY <2>1, <2>2
<1>7. CASE Await(c)
  <2>1. /\ Goto(c, "waiting") /\ UNCHANGED <<response, printed>> /\ queued' = queued \cup {c}
        /\ granted' = IF Cardinality(granted) < GlobalLimit THEN granted \cup {c} ELSE granted
    BY <1>1, <1>7 DEF Await
  <2>2. GlobalBounded'
    <3>1. Cardinality(granted) \in Nat /\ GlobalLimit \in Nat
      BY GrantedFinite, LimitsAssumption
    <3>2. Cardinality(granted) < GlobalLimit \/ Cardinality(granted) >= GlobalLimit
      BY <3>1
    <3> QED
      BY <2>1, <3>1, <3>2, GlobalKept DEF Goto
  <2> QED
    BY <1>4, <2>1, <2>2
<1>8. CASE Granted(c)
  <2>1. /\ Goto(c, "granted") /\ UNCHANGED <<response, printed>> /\ queued' = queued \ {c}
        /\ granted' = granted /\ c \in granted
    BY <1>8 DEF Granted
  <2>2. GlobalBounded'
    BY <2>1, GlobalKept DEF Goto
  <2> QED
    BY <1>4, <2>1, <2>2
<1> QED
  BY <1>5, <1>6, <1>7, <1>8

\* A source's permit is taken below its limit, and no other source is counted.
LEMMA SourceKeeps ==
    ASSUME ReqInv, NEW c \in Conns, AcquireSource(c)
    PROVE  ReqInv'
<1>1. /\ at[c] = "granted" /\ Goto(c, "run")
      /\ UNCHANGED <<frame, response, printed, queued, granted, stopping>>
      /\ busy' \in {busy, busy \cup {c}}
      /\ "run" \in Steps \ {"done", "closed"}
  BY DEF AcquireSource, Steps
<1>2. /\ at \in [Conns -> Steps] /\ at' \in [Conns -> Steps]
      /\ at' = [at EXCEPT ![c] = "run"]
      /\ OnConns(response)' /\ OnConns(printed)'
      /\ UnusedIsClosed' /\ AnsweredAtEnd' /\ CodeKept' /\ RetryIsHonest'
  BY <1>1, MoveKeeps
<1>3. ReqTypeOK' /\ PermitsFollowSteps'
  BY <1>1, <1>2 DEF ReqInv, ReqTypeOK, PermitsFollowSteps
<1>5. GlobalBounded'
  BY <1>1, <1>2, GlobalKept
<1>4. SourcesBounded'
  <2>1. CASE busy' = busy
    BY <1>1, <2>1, FewerBusy
  <2>2. CASE busy' = busy \cup {c} /\ Cardinality(BusyFor(frame[c].source)) < SourceLimit
    <3> SUFFICES ASSUME NEW d \in busy'
                 PROVE  Cardinality({e \in busy' : frame[e].source = frame[d].source})
                          <= SourceLimit
      BY <1>1 DEF SourcesBounded, BusyFor
    <3> DEFINE before == {e \in busy : frame[e].source = frame[d].source}
               after == {e \in busy' : frame[e].source = frame[d].source}
    <3>1. IsFiniteSet(before)
      <4>1. before \in SUBSET Conns
        BY DEF ReqInv, ReqTypeOK
      <4> QED
        BY <4>1, ConnsAssumption, FS_Subset
    <3>2. CASE frame[d].source = frame[c].source
      <4>1. after = before \cup {c}
        BY <2>2, <3>2
      <4>2. Cardinality(before) < SourceLimit
        BY <2>2, <3>2 DEF BusyFor
      <4>3. Cardinality(before) \in Nat
        BY <3>1, FS_CardinalityType
      <4>4. Cardinality(after) \in {Cardinality(before), Cardinality(before) + 1}
        BY <3>1, <4>1, FS_AddElement
      <4> QED
        BY <4>2, <4>3, <4>4, LimitsAssumption
    <3>3. CASE frame[d].source # frame[c].source
      <4>1. after = before /\ d \in busy
        BY <2>2, <3>3
      <4> QED
        BY <4>1 DEF ReqInv, SourcesBounded, BusyFor
    <3> QED
      BY <3>2, <3>3
  <2> QED
    BY <2>1, <2>2 DEF AcquireSource
<1> QED
  BY <1>2, <1>3, <1>4, <1>5 DEF ReqInv

\* The work of a method ends with its outcome or at its deadline: the answer
\* says what happened, and the permits go with it.
LEMMA EndKeeps ==
    ASSUME ReqInv, NEW c \in Conns, Finish(c) \/ Deadline(c)
    PROVE  ReqInv'
<1>1. at[c] \in {"waiting", "granted", "run"} /\ UNCHANGED <<frame, stopping>> /\ Release(c)
  BY DEF Finish, Deadline
<1>2. stopping' \in BOOLEAN
  BY <1>1 DEF ReqInv, ReqTypeOK
<1> DEFINE m == frame[c].method
           e == frame[c].outcome
<1>3. ASSUME Finish(c), e = "ok" PROVE ReqInv'
  <2>1. Write(c, Result)
    BY <1>3 DEF Finish
  <2>2. Honest(c, Result)
    BY <1>3, CarriedKeepsCode, RetryableIsHonest DEF Honest, Result, Wire
  <2> QED
    BY <1>1, <1>2, <2>1, <2>2, AnswerKeeps
<1>4. ASSUME Finish(c), e # "ok" PROVE ReqInv'
  <2>1. Write(c, ErrorOf(m, e))
    BY <1>4 DEF Finish
  <2>2. Honest(c, ErrorOf(m, e))
    <3>1. CASE m = "email.body.read"
      <4>1. ErrorOf(m, e) = BodyError(e)
        BY <3>1 DEF ErrorOf
      <4>2. m \notin OtherMethods \cup {"email.send", "email.reply", "email.attachment.get"}
        BY <3>1 DEF OtherMethods
      <4> QED
        BY <4>1, <4>2, RetryableIsHonest DEF Honest
    <3>2. CASE m = "email.attachment.get"
      <4>1. ErrorOf(m, e) = AttachmentError(e)
        BY <3>2 DEF ErrorOf
      <4>2. m \notin OtherMethods \cup {"email.send", "email.reply", "email.body.read"}
        BY <3>2 DEF OtherMethods
      <4> QED
        BY <4>1, <4>2, RetryableIsHonest DEF Honest
    <3>3. CASE m \notin {"email.body.read", "email.attachment.get"}
      <4>1. ErrorOf(m, e) = FromAnyhow(e)
        BY <3>3 DEF ErrorOf
      <4> QED
        BY <3>3, <4>1, CarriedKeepsCode DEF Honest
    <3> QED
      BY <3>1, <3>2, <3>3
  <2> QED
    BY <1>1, <1>2, <2>1, <2>2, AnswerKeeps
<1>5. ASSUME Deadline(c) PROVE ReqInv'
  <2>1. Write(c, ErrorOf(m, "timeout")) /\ m \in {"email.body.read", "email.attachment.get"}
    BY <1>5 DEF Deadline
  <2>2. ErrorOf(m, "timeout").data = "timeout"
    BY <2>1
    DEF ErrorOf, BodyError, AttachmentError, Wire, BodyRetryable, AttachmentRetryable
  <2>3. m \notin OtherMethods \cup {"email.send", "email.reply"}
    BY <2>1 DEF OtherMethods
  <2>4. Honest(c, ErrorOf(m, "timeout"))
    BY <2>2, <2>3 DEF Honest
  <2> QED
    BY <1>1, <1>2, <2>1, <2>4, AnswerKeeps
<1> QED
  BY <1>3, <1>4, <1>5

\* A client that gave up prints no code of the daemon's.
LEMMA GiveUpKeeps ==
    ASSUME ReqInv, NEW c \in Conns, GiveUp(c)
    PROVE  ReqInv'
<1>1. \A d \in Conns : printed'[d] = IF d = c THEN "gave_up" ELSE printed[d]
  BY DEF GiveUp, ReqInv, ReqTypeOK, OnConns
<1>2. at[c] = "run" /\ UNCHANGED <<frame, at, response, queued, granted, busy, stopping>>
  BY DEF GiveUp
<1>3. ReqTypeOK'
  BY <1>2 DEF GiveUp, ReqInv, ReqTypeOK, OnConns
<1>4. UnusedIsClosed' /\ PermitsFollowSteps' /\ AnsweredAtEnd'
  BY <1>1, <1>2 DEF ReqInv, UnusedIsClosed, PermitsFollowSteps, AnsweredAtEnd
<1>5. SourcesBounded' /\ GlobalBounded'
  BY <1>2, FewerBusy DEF ReqInv, GlobalBounded, Waiters
<1>6. CodeKept' /\ RetryIsHonest'
  BY <1>1, <1>2 DEF ReqInv, CodeKept, RetryIsHonest, Reached
<1> QED
  BY <1>3, <1>4, <1>5, <1>6 DEF ReqInv

\* Every step preserves the invariant.
LEMMA ReqNextPreserves == ReqInv /\ [ReqNext]_reqVars => ReqInv'
<1> SUFFICES ASSUME ReqInv, [ReqNext]_reqVars PROVE ReqInv'
  OBVIOUS
<1>1. CASE AcceptAll
  BY <1>1, AcceptKeeps
<1>2. ASSUME NEW c \in Conns, HandlerStep(c) PROVE ReqInv'
  BY <1>2, ReadKeeps, BareKeeps, ParamsKeeps, GlobalKeeps, SourceKeeps, EndKeeps DEF HandlerStep
<1>3. ASSUME NEW c \in Conns, GiveUp(c) PROVE ReqInv'
  BY <1>3, GiveUpKeeps
<1>4. CASE UNCHANGED reqVars
  <2>1. SourcesBounded' /\ GlobalBounded'
    BY <1>4, FewerBusy DEF reqVars, ReqInv, GlobalBounded, Waiters
  <2>2. ReqTypeOK' /\ UnusedIsClosed' /\ PermitsFollowSteps' /\ AnsweredAtEnd'
    BY <1>4
    DEF reqVars, ReqInv, ReqTypeOK, OnConns, UnusedIsClosed, PermitsFollowSteps, AnsweredAtEnd
  <2>3. CodeKept'
    <3>1. frame' = frame /\ printed' = printed
      BY <1>4 DEF reqVars
    <3> QED
      BY <3>1 DEF ReqInv, CodeKept, Reached
  <2>4. RetryIsHonest'
    <3>1. frame' = frame /\ response' = response
      BY <1>4 DEF reqVars
    <3> QED
      BY <3>1 DEF ReqInv, RetryIsHonest
  <2> QED
    BY <2>1, <2>2, <2>3, <2>4 DEF ReqInv
<1> QED
  BY <1>1, <1>2, <1>3, <1>4 DEF ReqNext

-----------------------------------------------------------------------------
(* What the invariant says. *)

\* Permits, answers, codes and retry advice follow from the invariant.
LEMMA ReqInvIsTrue == ReqInv => RequestsAreTrue
<1> SUFFICES ASSUME ReqInv PROVE RequestsAreTrue
  OBVIOUS
<1>1. PermitsAreHeld
  BY DEF ReqInv, ReqTypeOK, PermitsFollowSteps, SourcesBounded, GlobalBounded, PermitsAreHeld
<1>2. AnsweredOnce
  <2> SUFFICES ASSUME NEW c \in Conns PROVE Len(response[c]) <= 1
    BY DEF AnsweredOnce
  <2>1. CASE response[c] = <<>>
    BY <2>1
  <2>2. CASE Len(response[c]) = 1
    BY <2>2
  <2> QED
    BY <2>1, <2>2 DEF ReqInv, AnsweredAtEnd
<1> QED
  BY <1>1, <1>2 DEF ReqInv, RequestsAreTrue

\* Whoever is refused finds as many reads in the queue as it has places: none
\* of them is held by a read that has run on or ended.
LEMMA FullWhenRefused ==
    ASSUME ReqInv, [ReqNext]_reqVars, NEW c \in Conns, at[c] = "full", at'[c] = "done"
    PROVE  Cardinality({d \in Conns : at[d] \in {"queued", "waiting"}}) >= QueueLimit
<1>1. ASSUME NEW d \in Conns, HandlerStep(d) \/ GiveUp(d), d # c PROVE FALSE
  <2>1. at'[c] = at[c]
    BY <1>1
    DEF HandlerStep, GiveUp, ReadRequest, BareMethod, CheckParams, AcquireGlobal, Enqueue, Await,
        Granted, AcquireSource, Finish, Deadline, Write, Goto, ReqInv, ReqTypeOK
  <2> QED
    BY <2>1
<1>2. ~AcceptAll /\ at' # at
  BY DEF AcceptAll, ReqInv, UnusedIsClosed
<1>3. HandlerStep(c)
  <2>1. ReqNext /\ ~GiveUp(c)
    BY <1>2 DEF reqVars, GiveUp
  <2> QED
    BY <1>1, <1>2, <2>1 DEF ReqNext
<1>4. Enqueue(c)
  BY <1>3
  DEF HandlerStep, ReadRequest, BareMethod, CheckParams, AcquireGlobal, Await, Granted,
      AcquireSource, Finish, Deadline
<1>5. ~(Cardinality(queued) < QueueLimit)
  BY <1>4 DEF Enqueue, Goto, ReqInv, ReqTypeOK
<1>6. queued = {d \in Conns : at[d] \in {"queued", "waiting"}}
  BY DEF ReqInv, ReqTypeOK, PermitsFollowSteps
<1>7. Cardinality(queued) \in Nat
  <2>1. IsFiniteSet(queued)
    BY ConnsAssumption, FS_Subset DEF ReqInv, ReqTypeOK
  <2> QED
    BY <2>1, FS_CardinalityType
<1> QED
  BY <1>5, <1>6, <1>7, LimitsAssumption

-----------------------------------------------------------------------------
(* The theorems. *)

\* The invariant holds throughout.
THEOREM ReqInvariance == ReqSpec => []ReqInv
BY InitEstablishes, ReqNextPreserves, PTL DEF ReqSpec

\* Of every number of requests that run at once, each gets at most one
\* response, holds permits only while it runs, is printed under the code its
\* error has, and is called retryable only when trying again can help
\* (handle_connection, EmailBodyLimiter, jsonrpc_error_from_anyhow).
THEOREM RequestsTrue == ReqSpec => []RequestsAreTrue
BY ReqInvariance, ReqInvIsTrue, PTL

\* acquire_global refuses only while every place in the queue is held by a read
\* that waits for its permit or has not yet run on with it.
THEOREM RefusedFull == ReqSpec => RefusedOnlyWhenFull
<1> DEFINE Full ==
      \A c \in Conns :
         at[c] = "full" /\ at'[c] = "done"
           => Cardinality({d \in Conns : at[d] \in {"queued", "waiting"}}) >= QueueLimit
<1>1. ReqInv /\ [ReqNext]_reqVars => [Full]_reqVars
  BY FullWhenRefused
<1> QED
  BY <1>1, ReqInvariance, PTL DEF ReqSpec, RefusedOnlyWhenFull

-----------------------------------------------------------------------------
(* The composition. *)

CallsInv == ReqInv /\ StdioInv /\ HttpInv

LEMMA CallsStepsApart ==
    [CallsNext]_callVars =>
      [ReqNext]_reqVars /\ [StdioNext]_stdioVars /\ [McpHttpNext]_mcpHttpVars
BY DEF CallsNext, callVars

\* The invariants of the daemon's requests, of the stdio client and of the HTTP
\* transport hold together in every behaviour of the composition.
THEOREM CallsInvariance == CallsSpec => []CallsInv
<1>1. CallsInit => CallsInv
  BY InitEstablishes, StdioInitEstablishes, HttpInitEstablishes DEF CallsInit, CallsInv
<1>2. CallsInv /\ [CallsNext]_callVars => CallsInv'
  BY CallsStepsApart, ReqNextPreserves, StdioNextPreserves, HttpNextPreserves DEF CallsInv
<1> QED
  BY <1>1, <1>2, PTL DEF CallsSpec

\* A request to the daemon gets one response with its own code, a body read
\* holds the permits it says and no more than the limits, for any set of
\* connections and any settings (handle_connection, EmailBodyLimiter).
THEOREM CallsRequestsTrue == CallsSpec => []RequestsAreTrue
<1>1. CallsInv => RequestsAreTrue
  BY ReqInvIsTrue DEF CallsInv
<1> QED
  BY <1>1, CallsInvariance, PTL

\* A call of an MCP server ends with its own answer, over a pipe and over HTTP,
\* for any number of callers, streams, requests and notifications.
THEOREM CallsMcpTrue == CallsSpec => []McpCallsAreTrue
<1>1. CallsInv => McpCallsAreTrue
  BY StdioInvIsTrue, HttpInvIsTrue DEF CallsInv, McpCallsAreTrue
<1> QED
  BY <1>1, CallsInvariance, PTL

\* No step refuses a body read while the queue has a place, and none loses the
\* newest notifications.
THEOREM CallStepsHold == CallsSpec => CallSteps
<1> DEFINE Full ==
      \A c \in Conns :
         at[c] = "full" /\ at'[c] = "done"
           => Cardinality({d \in Conns : at[d] \in {"queued", "waiting"}}) >= QueueLimit
    Newest ==
      pipe # <<>> /\ pipe' = Tail(pipe) /\ Head(pipe).kind = "note" /\ generation' = generation =>
         /\ notes' # <<>> /\ notes'[Len(notes')] = Head(pipe).serial
         /\ \A k \in DOMAIN notes' : notes'[k] = notes'[1] + k - 1
<1>1. CallsInv /\ [CallsNext]_callVars => [Full]_reqVars
  BY CallsStepsApart, FullWhenRefused DEF CallsInv
<1>2. CallsInv /\ [CallsNext]_callVars => [Newest]_stdioVars
  BY CallsStepsApart, NewestNotesStep DEF CallsInv
<1> QED
  BY <1>1, <1>2, CallsInvariance, PTL DEF CallsSpec, CallSteps, RefusedOnlyWhenFull, NewestNotes

=============================================================================
