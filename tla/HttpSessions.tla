----------------------------- MODULE HttpSessions -----------------------------
(***************************************************************************)
(* The daemon's cached MCP HTTP sessions (McpSessionManager.http, daemon.rs)*)
(* and the notification stream each of them keeps for its subscribers      *)
(* (McpHttpSession, McpHttpTransport).  Subscription jobs and tool calls   *)
(* share a session; a modern server is asked for one subscriptions/listen  *)
(* stream that covers every subscribed resource, and the stream is         *)
(* replaced whenever that set changes; a legacy server keeps the           *)
(* subscriptions itself and serves one GET event stream.                   *)
(*                                                                         *)
(* A step ends where the code awaits an answer or a mutex somebody may     *)
(* hold across an await (resource_subscription_ops).  Short critical       *)
(* sections that follow one another without an answer in between are one   *)
(* step.  All processes use one endpoint and one auth profile, hence one   *)
(* lookup key and one session key.                                         *)
(***************************************************************************)
EXTENDS Integers, Sequences, FiniteSets

CONSTANTS
  Jobs,          \* MCP resource subscription jobs
  Callers,       \* tool calls (invoke_mcp_execute)
  Casts,         \* the sets of processes that meet in one behaviour
  UriOf,         \* the resource each job subscribes to
  Eras,          \* protocol eras the server may speak
  ReadResource,  \* the jobs' read_resource option
  HistoryLimit,  \* MCP_NOTIFICATION_HISTORY_LIMIT
  BufferLimit,   \* MAX_BUFFERED_NOTIFICATIONS
  MaxSessions,   \* bound on the sessions ever connected
  MaxIds,        \* bound on the listen requests of one session
  MaxChunk,      \* bound on the notifications in one chunk of a stream
  Happenings,    \* what may happen: "update", "break", "refusal", "expiry", "abort"
  MaxHappenings  \* bound on how often, all kinds together

Procs    == Jobs \cup Callers
Uris     == {UriOf[j] : j \in Jobs}
Sessions == 1..MaxSessions

ASSUME HttpAssumption ==
  /\ UriOf \in [Jobs -> Uris] /\ Jobs \cap Callers = {}
  /\ IsFiniteSet(Jobs) /\ "free" \notin Procs
  /\ Casts \subseteq SUBSET Procs
  /\ Eras \subseteq {"modern", "legacy"}
  /\ ReadResource \in BOOLEAN
  /\ HistoryLimit \in Nat \ {0} /\ BufferLimit \in Nat \ {0}
  /\ MaxSessions \in Nat \ {0} /\ MaxIds \in Nat /\ MaxChunk \in Nat
  /\ Happenings \subseteq {"update", "break", "refusal", "expiry", "abort"}
  /\ MaxHappenings \in Nat

VARIABLES
  era,        \* transport.protocol_era(), fixed by the server
  http,       \* McpSessionManager.http: the session under the key, or 0
  lookup,     \* McpSessionManager.http_lookup holds the lookup key
  made,       \* sessions connected so far
  sweep,      \* cleanup_idle is between its two maps
  subs,       \* resource_subscriptions, a count per uri
  ops,        \* holder of resource_subscription_ops, or "free"
  sid,        \* McpHttpSession.subscription_id, 0 for None
  ack,        \* subscription_acknowledged
  fan,        \* SessionNotificationFanout: next_seq, notifications, stream_error
  next_id,    \* McpHttpTransport.next_id (for a legacy stream, a label of its reader)
  task,       \* event_stream_task: id of the reader it holds, 0 for None
  live,       \* readers running: [id, filter, greeted]
  terr,       \* event_stream_error is set
  buf,        \* McpHttpTransport.notifications
  server,     \* uris the legacy server has been subscribed to
  pc,         \* where each job or call is
  at,         \* the session each of them holds
  cursor,     \* a job's cursor in the fan-out
  todo,       \* notifications a job has read and not yet emitted
  seen,       \* sequence numbers a job has emitted
  rfilter,    \* filter read by the restart in progress
  rid,        \* request id of the restart in progress
  rback,      \* where the restart returns to
  cback,      \* where collect_pending_notifications returns to
  hurt,       \* sessions whose stream broke, was refused or was given up while it was
              \* being replaced (history)
  leaked,     \* sessions with a count that nobody gives back (history)
  used        \* how much has happened so far

mapvars  == <<http, lookup, made, sweep>>
sessvars == <<subs, ops, sid, ack, fan>>
wirevars == <<next_id, task, live, terr, buf, server>>
procvars == <<pc, at, cursor, todo, seen, rfilter, rid, rback, cback>>
vars     == <<era, mapvars, sessvars, wirevars, procvars, hurt, leaked, used>>

Modern == era = "modern"
NoSubs == [u \in Uris |-> 0]
Desired(s) == {u \in Uris : subs[s][u] > 0}   \* desired_mcp_subscription_filter
Goto(p, l) == pc' = [pc EXCEPT ![p] = l]
Happens(k) == k \in Happenings /\ used < MaxHappenings /\ used' = used + 1

Init ==
  /\ era \in Eras
  /\ http = 0 /\ lookup = FALSE /\ made = 0 /\ sweep = FALSE
  /\ subs = [s \in Sessions |-> NoSubs]
  /\ ops = [s \in Sessions |-> "free"]
  /\ sid = [s \in Sessions |-> 0] /\ ack = [s \in Sessions |-> FALSE]
  /\ fan = [s \in Sessions |-> [next |-> 0, items |-> <<>>, err |-> FALSE]]
  /\ next_id = [s \in Sessions |-> 1] /\ task = [s \in Sessions |-> 0]
  /\ live = [s \in Sessions |-> {}] /\ terr = [s \in Sessions |-> FALSE]
  /\ buf = [s \in Sessions |-> <<>>] /\ server = [s \in Sessions |-> {}]
  /\ (\E on \in Casts : pc = [p \in Procs |-> IF p \in on THEN "lookup" ELSE "closed"])
  /\ at = [p \in Procs |-> 0]
  /\ cursor = [p \in Procs |-> 0] /\ todo = [p \in Procs |-> <<>>]
  /\ seen = [p \in Procs |-> {}]
  /\ rfilter = [p \in Procs |-> {}] /\ rid = [p \in Procs |-> 0]
  /\ rback = [p \in Procs |-> ""] /\ cback = [p \in Procs |-> ""]
  /\ hurt = {} /\ leaked = {}
  /\ used = 0

(***************************************************************************)
(* Finding or making the session.                                          *)
(***************************************************************************)
\* Where a process goes once it holds a session.
Acquired(p) == IF p \in Jobs THEN "ensure" ELSE "call"

\* get_http_by_lookup_key, first the lookup table
GetByLookupKey(p) ==
  /\ pc[p] = "lookup"
  /\ Goto(p, IF lookup THEN "lookup_map" ELSE "create")
  /\ UNCHANGED <<era, hurt, leaked, mapvars, sessvars, wirevars, at, cursor, todo, seen,
                 rfilter, rid, rback, cback, used>>

\* ... then the map; a key that leads nowhere is removed
GetFromMap(p) ==
  /\ pc[p] = "lookup_map"
  /\ at' = [at EXCEPT ![p] = http]
  /\ lookup' = (lookup /\ http # 0)
  /\ Goto(p, IF http # 0 THEN Acquired(p) ELSE "create")
  /\ UNCHANGED <<era, hurt, leaked, http, made, sweep, sessvars, wirevars, cursor, todo, seen,
                 rfilter, rid, rback, cback, used>>

\* get_or_create_http: an existing session is shared, otherwise a transport is
\* connected while nothing says that a session is on its way
GetOrCreate(p) ==
  /\ pc[p] = "create"
  /\ IF http # 0
       THEN /\ at' = [at EXCEPT ![p] = http]
            /\ lookup' = TRUE
            /\ Goto(p, Acquired(p))
       ELSE Goto(p, "connect") /\ UNCHANGED <<at, lookup>>
  /\ UNCHANGED <<era, hurt, leaked, http, made, sweep, sessvars, wirevars, cursor, todo, seen,
                 rfilter, rid, rback, cback, used>>

\* initialize() and initialized() answered; the new session, which nobody else
\* has yet, opens its first listen stream
Connected(p) ==
  /\ pc[p] = "connect" /\ made < MaxSessions
  /\ made' = made + 1
  /\ at' = [at EXCEPT ![p] = made + 1]
  /\ rback' = [rback EXCEPT ![p] = "insert"]
  /\ Goto(p, IF Modern THEN "restart" ELSE "insert")
  /\ UNCHANGED <<era, hurt, leaked, http, lookup, sweep, sessvars, wirevars, cursor, todo,
                 seen, rfilter, rid, cback, used>>

\* the session cannot be connected: the job or the call fails
ConnectFailed(p) ==
  /\ pc[p] = "connect"
  /\ Happens("refusal")
  /\ Goto(p, "closed")
  /\ UNCHANGED <<era, hurt, leaked, mapvars, sessvars, wirevars, at, cursor, todo, seen,
                 rfilter, rid, rback, cback>>

\* the two inserts, over whatever another process has inserted meanwhile
InsertSession(p) ==
  /\ pc[p] = "insert"
  /\ http' = at[p] /\ lookup' = TRUE
  /\ Goto(p, Acquired(p))
  /\ UNCHANGED <<era, hurt, leaked, made, sweep, sessvars, wirevars, at, cursor, todo, seen,
                 rfilter, rid, rback, cback, used>>

\* cleanup_idle drops the cached session once last_used is old enough; whoever
\* holds the session keeps it
CleanupMap ==
  /\ http # 0 /\ ~sweep
  /\ http' = 0 /\ sweep' = TRUE
  /\ Happens("expiry")
  /\ UNCHANGED <<era, hurt, leaked, lookup, made, sessvars, wirevars, procvars>>

CleanupLookup ==
  /\ sweep
  /\ sweep' = FALSE /\ lookup' = FALSE
  /\ UNCHANGED <<era, hurt, leaked, http, made, sessvars, wirevars, procvars, used>>

(***************************************************************************)
(* restart_modern_subscription, called with or without the ops mutex.      *)
(***************************************************************************)
\* Fault for Aborted: the old reader is left running.
NotAborted(s) == live[s]
\* shutdown_event_stream: the readers that are left once the held one is aborted
Aborted(s) == {r \in live[s] : r.id # task[s]}

\* reads the filter; start_subscription aborts the reader it holds and takes an id
RestartBegin(p) ==
  LET s == at[p] IN
  /\ pc[p] = "restart" /\ next_id[s] <= MaxIds
  /\ rfilter' = [rfilter EXCEPT ![p] = Desired(s)]
  /\ rid' = [rid EXCEPT ![p] = next_id[s]]
  /\ next_id' = [next_id EXCEPT ![s] = @ + 1]
  /\ live' = [live EXCEPT ![s] = Aborted(s)]
  /\ task' = [task EXCEPT ![s] = 0]
  /\ Goto(p, "restart_post")
  /\ UNCHANGED <<era, hurt, leaked, mapvars, sessvars, terr, buf, server, at, cursor, todo,
                 seen, rback, cback, used>>

\* the server accepts: the error is cleared and a reader spawned over the handle
RestartOpened(p) ==
  LET s == at[p] IN
  /\ pc[p] = "restart_post"
  /\ terr' = [terr EXCEPT ![s] = FALSE]
  /\ live' = [live EXCEPT ![s] =
                @ \cup {[id |-> rid[p], filter |-> rfilter[p], greeted |-> FALSE]}]
  /\ task' = [task EXCEPT ![s] = rid[p]]
  /\ Goto(p, "restart_set")
  /\ UNCHANGED <<era, hurt, leaked, mapvars, sessvars, next_id, buf, server, at, cursor, todo,
                 seen, rfilter, rid, rback, cback, used>>

\* the session records the id and awaits its acknowledgement
RestartRecorded(p) ==
  LET s == at[p] IN
  /\ pc[p] = "restart_set"
  /\ sid' = [sid EXCEPT ![s] = rid[p]]
  /\ ack' = [ack EXCEPT ![s] = FALSE]
  /\ fan' = [fan EXCEPT ![s].err = FALSE]
  /\ ops' = IF rback[p] = "drain" THEN [ops EXCEPT ![s] = "free"] ELSE ops
  /\ Goto(p, CASE rback[p] = "insert" -> "insert"
               [] rback[p] = "collect" -> "collect_drain"
               [] OTHER -> "collect")
  /\ rfilter' = [rfilter EXCEPT ![p] = {}] /\ rid' = [rid EXCEPT ![p] = 0]
  /\ rback' = [rback EXCEPT ![p] = ""]
  /\ UNCHANGED <<era, hurt, leaked, mapvars, subs, wirevars, at, cursor, todo, seen,
                 cback, used>>

\* the listen request fails; what that means depends on who asked for it
RestartRefused(p) ==
  LET s == at[p] IN
  /\ pc[p] = "restart_post"
  /\ Happens("refusal")
  /\ hurt' = hurt \cup {s}
  /\ subs' = IF rback[p] = "ensure" THEN [subs EXCEPT ![s][UriOf[p]] = 0] ELSE subs
  /\ fan' = IF rback[p] \in {"drain", "collect"} THEN [fan EXCEPT ![s].err = TRUE] ELSE fan
  /\ ops' = IF rback[p] \in {"ensure", "drain", "release"}
              THEN [ops EXCEPT ![s] = "free"] ELSE ops
  /\ Goto(p, CASE rback[p] = "insert" -> "insert"
               [] rback[p] = "collect" -> "collect_drain"
               [] rback[p] = "drain" -> "polled"
               [] OTHER -> "closed")
  /\ rfilter' = [rfilter EXCEPT ![p] = {}] /\ rid' = [rid EXCEPT ![p] = 0]
  /\ rback' = [rback EXCEPT ![p] = ""]
  /\ UNCHANGED <<era, leaked, mapvars, sid, ack, wirevars, at, cursor, todo, seen,
                 cback>>

(***************************************************************************)
(* collect_pending_notifications.                                          *)
(***************************************************************************)
\* collect_pending_notifications restarts without taking the ops mutex itself
CollectReopens == "restart"

\* takes the transport's error; a modern stream is reopened on the spot
TakeStreamError(p) ==
  LET s == at[p] IN
  /\ pc[p] = "collect"
  /\ terr' = [terr EXCEPT ![s] = FALSE]
  /\ IF terr[s] /\ Modern
       THEN /\ rback' = [rback EXCEPT ![p] = "collect"]
            /\ Goto(p, CollectReopens) /\ UNCHANGED fan
       ELSE /\ fan' = IF terr[s] THEN [fan EXCEPT ![s].err = TRUE] ELSE fan
            /\ Goto(p, "collect_drain") /\ UNCHANGED rback
  /\ UNCHANGED <<era, hurt, leaked, mapvars, subs, ops, sid, ack, next_id, task, live, buf,
                 server, at, cursor, todo, seen, rfilter, rid, cback, used>>

\* accept_subscription_notification folded over what was drained: the items kept
\* and whether the active subscription is acknowledged by then
Accept(n, active, st) ==
  IF n.sub = 0 THEN [st EXCEPT !.kept = Append(@, n)]
  ELSE IF n.sub # active THEN st
  ELSE IF n.kind = "ack" THEN [st EXCEPT !.ack = TRUE]
  ELSE IF st.ack THEN [st EXCEPT !.kept = Append(@, n)] ELSE st

AcceptFirst(ns, active, acked) ==
  LET after[i \in 0..Len(ns)] == IF i = 0 THEN [ack |-> acked, kept |-> <<>>]
                                 ELSE Accept(ns[i], active, after[i - 1])
  IN  after
AcceptAll(ns, active, acked) == AcceptFirst(ns, active, acked)[Len(ns)]

\* SessionNotificationFanout::extend
Extend(f, ns) ==
  LET all == f.items \o [i \in 1..Len(ns) |-> [seq |-> f.next + i, n |-> ns[i]]]
      cut == IF Len(all) > HistoryLimit THEN Len(all) - HistoryLimit ELSE 0
  IN  [f EXCEPT !.next = @ + Len(ns), !.items = SubSeq(all, cut + 1, Len(all))]

\* drains the transport's buffer into the fan-out and returns to the caller
DrainBuffer(p) ==
  LET s == at[p]
      r == AcceptAll(buf[s], sid[s], ack[s]) IN
  /\ pc[p] = "collect_drain"
  /\ buf' = [buf EXCEPT ![s] = <<>>]
  /\ ack' = [ack EXCEPT ![s] = r.ack]
  /\ fan' = [fan EXCEPT ![s] = Extend(@, r.kept)]
  /\ ops' = IF cback[p] \in {"open", "closed"} /\ ops[s] = p
              THEN [ops EXCEPT ![s] = "free"] ELSE ops
  /\ Goto(p, cback[p])
  /\ cback' = [cback EXCEPT ![p] = ""]
  /\ UNCHANGED <<era, hurt, leaked, mapvars, subs, sid, next_id, task, live, terr, server, at,
                 cursor, todo, seen, rfilter, rid, rback, used>>

(***************************************************************************)
(* ensure_resource_subscription and release_resource_subscription.         *)
(***************************************************************************)
\* both wait for the mutex and keep it until they return
Ensure(p) ==
  LET s == at[p]  u == UriOf[p] IN
  /\ pc[p] = "ensure" /\ ops[s] = "free"
  /\ cback' = [cback EXCEPT ![p] = "open"]
  /\ \/ /\ subs[s][u] > 0
        /\ subs' = [subs EXCEPT ![s][u] = @ + 1]
        /\ Goto(p, "open") /\ UNCHANGED <<ops, fan, rback>>
     \/ /\ subs[s][u] = 0 /\ Modern
        /\ subs' = [subs EXCEPT ![s][u] = 1]
        /\ rback' = [rback EXCEPT ![p] = "ensure"]
        /\ ops' = [ops EXCEPT ![s] = p]
        /\ Goto(p, "restart") /\ UNCHANGED fan
     \/ /\ subs[s][u] = 0 /\ ~Modern
        /\ fan' = [fan EXCEPT ![s].err = FALSE]
        /\ ops' = [ops EXCEPT ![s] = p]
        /\ Goto(p, "subscribe") /\ UNCHANGED <<subs, rback>>
  /\ UNCHANGED <<era, hurt, leaked, mapvars, sid, ack, wirevars, at, cursor, todo, seen,
                 rfilter, rid, used>>

\* the legacy server answers resources/subscribe
Subscribed(p) ==
  LET s == at[p]  u == UriOf[p] IN
  /\ pc[p] = "subscribe"
  /\ server' = [server EXCEPT ![s] = @ \cup {u}]
  /\ subs' = [subs EXCEPT ![s][u] = 1]
  /\ Goto(p, "collect")
  /\ UNCHANGED <<era, hurt, leaked, mapvars, ops, sid, ack, fan, next_id, task, live, terr,
                 buf, at, cursor, todo, seen, rfilter, rid, rback, cback, used>>

SubscribeRefused(p) ==
  /\ pc[p] = "subscribe"
  /\ Happens("refusal")
  /\ ops' = [ops EXCEPT ![at[p]] = "free"]
  /\ Goto(p, "closed")
  /\ UNCHANGED <<era, hurt, leaked, mapvars, subs, sid, ack, fan, wirevars, at, cursor, todo,
                 seen, rfilter, rid, rback, cback>>

\* what release_resource_subscription leaves of a count
Dropped(n) == IF n = 0 THEN 0 ELSE n - 1

\* only the last holder unsubscribes
IsLast(n) == n = 1

Release(p) ==
  LET s == at[p]  u == UriOf[p]  last == IsLast(subs[s][u]) IN
  /\ pc[p] = "release" /\ ops[s] = "free"
  /\ subs' = [subs EXCEPT ![s][u] = Dropped(@)]
  /\ ops' = IF last THEN [ops EXCEPT ![s] = p] ELSE ops
  /\ cback' = [cback EXCEPT ![p] = "closed"]
  /\ rback' = [rback EXCEPT ![p] = "release"]
  /\ Goto(p, IF ~last THEN "closed" ELSE IF Modern THEN "restart" ELSE "unsubscribe")
  /\ UNCHANGED <<era, hurt, leaked, mapvars, sid, ack, fan, wirevars, at, cursor, todo, seen,
                 rfilter, rid, used>>

\* the legacy server answers resources/unsubscribe, or the request fails; either
\* way the event stream is shut down with the last subscription
Unsubscribed(p) ==
  LET s == at[p]  last == Desired(s) = {} IN
  /\ pc[p] = "unsubscribe"
  /\ \/ server' = [server EXCEPT ![s] = @ \ {UriOf[p]}] /\ UNCHANGED used
     \/ Happens("refusal") /\ UNCHANGED server
  /\ live' = IF last THEN [live EXCEPT ![s] = Aborted(s)] ELSE live
  /\ task' = IF last THEN [task EXCEPT ![s] = 0] ELSE task
  /\ fan' = IF last THEN [fan EXCEPT ![s].err = FALSE] ELSE fan
  /\ Goto(p, "collect")
  /\ UNCHANGED <<era, hurt, leaked, mapvars, subs, ops, sid, ack, next_id, terr, buf, at,
                 cursor, todo, seen, rfilter, rid, rback, cback>>

(***************************************************************************)
(* run_mcp_http_subscription_job: poll, emit, stop; and a tool call.       *)
(***************************************************************************)
\* notifications_since -> drain_pending_notifications; a modern stream that ended
\* is reopened under the ops mutex, a legacy one without it
Poll(p) ==
  LET s == at[p]  lost == terr[s] \/ sid[s] = 0 IN
  /\ pc[p] = "open"
  /\ cback' = [cback EXCEPT ![p] = "polled"]
  /\ \/ /\ Modern
        /\ terr' = [terr EXCEPT ![s] = FALSE]
        /\ Goto(p, IF lost THEN "drain" ELSE "collect")
     \/ /\ ~Modern
        /\ Goto(p, IF \E r \in live[s] : r.id = task[s] THEN "collect" ELSE "get_stream")
        /\ UNCHANGED terr
  /\ UNCHANGED <<era, hurt, leaked, mapvars, sessvars, next_id, task, live, buf, server, at,
                 cursor, todo, seen, rfilter, rid, rback, used>>

DrainLocks(p) ==
  LET s == at[p] IN
  /\ pc[p] = "drain" /\ ops[s] = "free"
  /\ ops' = [ops EXCEPT ![s] = p]
  /\ rback' = [rback EXCEPT ![p] = "drain"]
  /\ Goto(p, "restart")
  /\ UNCHANGED <<era, hurt, leaked, mapvars, subs, sid, ack, fan, wirevars, at, cursor, todo,
                 seen, rfilter, rid, cback, used>>

\* ensure_event_stream under the task mutex: one process opens, the others wait
\* and then find it running
GetStream(p) ==
  LET s == at[p]  running == \E r \in live[s] : r.id = task[s] IN
  /\ pc[p] = "get_stream"
  /\ \/ running /\ Goto(p, "collect") /\ UNCHANGED <<live, task, terr, next_id, fan, used>>
     \/ /\ ~running /\ next_id[s] <= MaxIds
        /\ live' = [live EXCEPT ![s] =
                      @ \cup {[id |-> next_id[s], filter |-> Uris, greeted |-> TRUE]}]
        /\ task' = [task EXCEPT ![s] = next_id[s]]
        /\ next_id' = [next_id EXCEPT ![s] = @ + 1]
        /\ terr' = [terr EXCEPT ![s] = FALSE]
        /\ Goto(p, "collect") /\ UNCHANGED <<fan, used>>
     \/ /\ ~running /\ Happens("refusal")
        /\ task' = [task EXCEPT ![s] = 0]
        /\ fan' = [fan EXCEPT ![s].err = TRUE]
        /\ Goto(p, "polled") /\ UNCHANGED <<live, terr, next_id>>
  /\ UNCHANGED <<era, hurt, leaked, mapvars, subs, ops, sid, ack, buf, server, at, cursor,
                 todo, seen, rfilter, rid, rback, cback>>

\* SessionNotificationFanout::since
SinceFirst(es, c) ==
  LET got[i \in 0..Len(es)] == IF i = 0 THEN <<>>
                               ELSE IF es[i].seq > c THEN Append(got[i - 1], es[i]) ELSE got[i - 1]
  IN  got
Since(f, c) == SinceFirst(f.items, c)[Len(f.items)]

\* the job advances its cursor; a stream error ends it before anything is emitted
Polled(p) ==
  LET f == fan[at[p]] IN
  /\ pc[p] = "polled"
  /\ cursor' = [cursor EXCEPT ![p] = f.next]
  /\ todo' = [todo EXCEPT ![p] = IF f.err THEN <<>> ELSE Since(f, cursor[p])]
  /\ Goto(p, IF f.err THEN "release" ELSE "emit")
  /\ UNCHANGED <<era, hurt, leaked, mapvars, sessvars, wirevars, at, seen, rfilter, rid,
                 rback, cback, used>>

\* emits one notification; read_resource collects on the way
Emit(p) ==
  /\ pc[p] = "emit"
  /\ IF todo[p] = <<>>
       THEN Goto(p, "open") /\ UNCHANGED <<seen, todo, cback>>
       ELSE /\ seen' = [seen EXCEPT ![p] = @ \cup {Head(todo[p]).seq}]
            /\ todo' = [todo EXCEPT ![p] = Tail(@)]
            /\ cback' = [cback EXCEPT ![p] = "emit"]
            /\ Goto(p, IF ReadResource THEN "collect" ELSE "emit")
  /\ UNCHANGED <<era, hurt, leaked, mapvars, sessvars, wirevars, at, cursor, rfilter, rid,
                 rback, used>>

\* a notification cannot be recorded: the loop ends and the job releases
EmitFailed(p) ==
  /\ pc[p] = "emit" /\ todo[p] # <<>>
  /\ Goto(p, "release")
  /\ UNCHANGED <<era, hurt, leaked, mapvars, sessvars, wirevars, at, cursor, todo, seen,
                 rfilter, rid, rback, cback, used>>

\* the select at the top of the loop, the only place that looks, sees a stop
Stop(p) ==
  /\ pc[p] = "open"
  /\ Goto(p, "release")
  /\ UNCHANGED <<era, hurt, leaked, mapvars, sessvars, wirevars, at, cursor, todo, seen,
                 rfilter, rid, rback, cback, used>>

\* the job has taken a count of its session that it has not given back
Counting(j) ==
  \/ pc[j] \in {"open", "drain", "get_stream", "polled", "emit", "release"}
  \/ /\ pc[j] \in {"collect", "collect_drain", "restart", "restart_post", "restart_set"}
     /\ cback[j] \in {"open", "polled", "emit"}

\* await_task_with_grace aborts a job at whatever it awaits, or the job fails to
\* record that it opened: it drops its locks and is gone without a release.  A
\* reader may be spawned whose handle is not kept yet, and a request on its way
\* may reach the server.
Leave(p) ==
  LET s == at[p]
      reader == [id |-> rid[p], filter |-> rfilter[p], greeted |-> FALSE]
  IN
  /\ p \in Jobs /\ pc[p] # "closed"
  /\ Happens("abort")
  /\ Goto(p, "closed")
  /\ ops' = [t \in Sessions |-> IF ops[t] = p THEN "free" ELSE ops[t]]
  /\ leaked' = IF Counting(p) THEN leaked \cup {s} ELSE leaked
  /\ hurt' = IF pc[p] \in {"restart", "restart_post", "restart_set"} THEN hurt \cup {s} ELSE hurt
  /\ \/ UNCHANGED <<live, server>>
     \/ /\ pc[p] = "restart_post"
        /\ live' = [live EXCEPT ![s] = @ \cup {reader}] /\ UNCHANGED server
     \/ /\ pc[p] = "subscribe"
        /\ server' = [server EXCEPT ![s] = @ \cup {UriOf[p]}] /\ UNCHANGED live
     \/ /\ pc[p] = "unsubscribe"
        /\ server' = [server EXCEPT ![s] = @ \ {UriOf[p]}] /\ UNCHANGED live
  /\ rfilter' = [rfilter EXCEPT ![p] = {}] /\ rid' = [rid EXCEPT ![p] = 0]
  /\ rback' = [rback EXCEPT ![p] = ""] /\ cback' = [cback EXCEPT ![p] = ""]
  /\ UNCHANGED <<era, mapvars, subs, sid, ack, fan, next_id, task, terr, buf, at, cursor,
                 todo, seen>>

\* call_tool answered, then collect_pending_notifications
Call(p) ==
  /\ pc[p] = "call"
  /\ cback' = [cback EXCEPT ![p] = "closed"]
  /\ Goto(p, "collect")
  /\ UNCHANGED <<era, hurt, leaked, mapvars, sessvars, wirevars, at, cursor, todo, seen,
                 rfilter, rid, rback, used>>

(***************************************************************************)
(* The server and the readers.                                             *)
(***************************************************************************)
\* push_notification, once for each of ns
Push(q, ns) ==
  LET all == q \o ns
      cut == IF Len(all) > BufferLimit THEN Len(all) - BufferLimit ELSE 0
  IN  SubSeq(all, cut + 1, Len(all))
Chunks == UNION {[1..n -> Uris] : n \in 1..MaxChunk}

\* the acknowledgement of a listen request, first on its stream
Acknowledge(s, r) ==
  /\ r \in live[s] /\ ~r.greeted
  /\ live' = [live EXCEPT ![s] = (@ \ {r}) \cup {[r EXCEPT !.greeted = TRUE]}]
  /\ buf' = [buf EXCEPT ![s] = Push(@, <<[sub |-> r.id, kind |-> "ack", uri |-> "none"]>>)]
  /\ UNCHANGED <<era, hurt, leaked, mapvars, sessvars, next_id, task, terr, server, procvars, used>>

\* resources change and a chunk of a stream that covers them says so
Update(s, r, us) ==
  LET cover == IF Modern THEN r.filter ELSE server[s]
      notes == [i \in 1..Len(us) |-> [sub |-> IF Modern THEN r.id ELSE 0, kind |-> "updated", uri |-> us[i]]]
  IN
  /\ Happens("update")
  /\ r \in live[s] /\ r.greeted
  /\ \A i \in 1..Len(us) : us[i] \in cover
  /\ buf' = [buf EXCEPT ![s] = Push(@, notes)]
  /\ UNCHANGED <<era, hurt, leaked, mapvars, sessvars, next_id, task, live, terr, server, procvars>>

\* run_streamable_event_reader ends: closed, unreadable or too large
Break(s, r) ==
  /\ r \in live[s]
  /\ live' = [live EXCEPT ![s] = @ \ {r}]
  /\ terr' = [terr EXCEPT ![s] = TRUE]
  /\ Happens("break")
  /\ hurt' = hurt \cup {s}
  /\ UNCHANGED <<era, leaked, mapvars, sessvars, next_id, task, buf, server, procvars>>

Step(p) ==
  \/ GetByLookupKey(p) \/ GetFromMap(p) \/ GetOrCreate(p) \/ Connected(p)
  \/ InsertSession(p)
  \/ RestartBegin(p) \/ RestartOpened(p) \/ RestartRecorded(p)
  \/ TakeStreamError(p) \/ DrainBuffer(p)
  \/ Ensure(p) \/ Subscribed(p)
  \/ Release(p) \/ Unsubscribed(p)
  \/ DrainLocks(p) \/ GetStream(p) \/ Polled(p) \/ Emit(p) \/ Call(p)

Environment ==
  \/ \E p \in Procs : \/ ConnectFailed(p) \/ RestartRefused(p) \/ SubscribeRefused(p) \/ EmitFailed(p)
                     \/ Poll(p) \/ Stop(p) \/ Leave(p)
  \/ \E s \in Sessions : \E r \in live[s] :
       \/ Acknowledge(s, r) \/ Break(s, r)
       \/ \E us \in Chunks : Update(s, r, us)
  \/ CleanupMap \/ CleanupLookup

Next == Environment \/ \E p \in Procs : Step(p)
HttpSpec == Init /\ [][Next]_vars

-----------------------------------------------------------------------------
\* jobs that hold their subscription: past ensure and not yet in release
Holding(s) == {j \in Jobs : at[j] = s /\ \/ pc[j] \in {"open", "drain", "get_stream", "polled", "emit"}
                                         \/ pc[j] \in {"collect", "collect_drain"} /\ cback[j] \in {"polled", "emit"}}
Restarting(s) == \E p \in Procs : at[p] = s /\ pc[p] \in {"restart", "restart_post", "restart_set", "drain"}
Watched(s) == {UriOf[j] : j \in Holding(s)}
Served(s) == IF Modern THEN \E r \in live[s] : r.id = sid[s] /\ Watched(s) \subseteq r.filter
                       ELSE Watched(s) \subseteq server[s]

\* As long as no stream of a session has broken, been refused or been given up
\* halfway by an aborted job, every resource a job is subscribed to is covered:
\* by the one listen stream whose id the session filters on (modern), or by the
\* server's own set (legacy) - whichever jobs joined or left the session
\* meanwhile, those that were aborted elsewhere and never released included, and
\* whether or not the session is still in the daemon's map
\* (ensure_resource_subscription and release_resource_subscription, daemon.rs).
\* An abort between the shutdown of the old stream and the new listen request
\* leaves the session without a stream, and nothing reopens it.
SubscribedWhileOpen ==
  \A s \in Sessions \ hurt : Watched(s) = {} \/ Restarting(s) \/ Served(s)

\* A session that is undisturbed keeps one reader: none is left running behind a
\* replaced task handle (start_subscription, http_transport.rs).
OneReader ==
  \A s \in Sessions \ hurt : Cardinality(live[s]) <= 1

\* What a subscriber's cursor has passed and it never emitted or queued has been
\* pushed out of the bounded history - or was thrown away when the job ended on
\* a stream error (SessionNotificationFanout::since and extend, daemon.rs).
NoSilentGap ==
  \A j \in Jobs :
    LET f == fan[at[j]]
        queued == {todo[j][i].seq : i \in DOMAIN todo[j]}
    IN  j \in Holding(at[j]) /\ at[j] # 0 =>
          \A q \in 1..cursor[j] : q \in seen[j] \cup queued \/ q <= f.next - Len(f.items)

\* A resource counts every job that holds it, so a release can not take away
\* another job's subscription; and it counts nobody else, unless a job was aborted
\* or failed before it could release: that count stays, and the resource is
\* never unsubscribed (resource_subscriptions, daemon.rs).
CountsHolders ==
  \A s \in Sessions, u \in Uris :
    LET holders == Cardinality({j \in Jobs : at[j] = s /\ UriOf[j] = u /\ Counting(j)})
    IN  subs[s][u] >= holders /\ (s \notin leaked => subs[s][u] = holders)

\* The holder of a session's ops mutex is never itself waiting for it, nor gone:
\* collecting notifications under the mutex, which may restart the stream, must
\* not take it again (collect_pending_notifications is called with and without
\* it, daemon.rs).
HolderMoves ==
  \A s \in Sessions : ops[s] # "free" =>
    at[ops[s]] = s /\ pc[ops[s]] \notin {"ensure", "release", "drain", "open", "polled", "emit", "closed"}

\* What the jobs and calls that share the sessions of an endpoint may rely on.
SessionsAreTrue == SubscribedWhileOpen /\ OneReader /\ NoSilentGap /\ CountsHolders /\ HolderMoves

=============================================================================
