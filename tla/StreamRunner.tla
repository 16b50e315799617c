----------------------------- MODULE StreamRunner -----------------------------
(***************************************************************************)
(* The runner of one managed source in stream mode, from the inside        *)
(* (run_managed_source, daemon.rs): an inner task runs the subscription    *)
(* and sends its events through a channel; the runner appends them to the  *)
(* stream, copies the task's view into the source's row, and restarts the  *)
(* task when it ends.  Beside them, a stop request waits for the runner    *)
(* with a grace period, and a status request reads the view.               *)
(*                                                                         *)
(* Locking runtime_view for one read or write is one step; guard_held says *)
(* that the runner keeps the lock across an await.                         *)
(***************************************************************************)
EXTENDS Integers, Sequences

CONSTANTS
  Capacity,        \* SUBSCRIPTION_EVENTS_MAX_LIMIT, the channel's capacity
  MaxEvents,       \* bound on the data events the upstream sends
  MaxRestarts,     \* bound on the times the runner restarts the task
  MaxStoreErrors   \* bound on the store operations that fail

ASSUME RunnerAssumption ==
  /\ Capacity \in Nat \ {0}
  /\ MaxEvents \in Nat /\ MaxRestarts \in Nat /\ MaxStoreErrors \in Nat

VARIABLES
  runner,       \* where run_managed_source is
  inner,        \* where the task it spawned is
  view,         \* status in runtime_view
  guard_held,   \* the runner holds runtime_view's mutex
  registered,   \* entry.runtime_view is set
  channel,      \* events on their way, 0 for one without a payload
  sent, stored, \* data events sent so far, and appended to the stream
  row,          \* status in managed_sources
  snapshot,     \* the status the runner is writing to the row
  unsynced,     \* runtime_view differs from last_synced_state
  stop,         \* stop_tx was told to stop
  stopper,      \* a stop request: idle, waiting or answered
  status,       \* a status request: idle or waiting
  restarts, store_errors

taskVars == <<inner, view, unsynced, channel, sent>>
storeVars == <<stored, row, store_errors>>
requestVars == <<stopper, status>>
vars == <<runner, guard_held, registered, snapshot, stop, restarts,
          taskVars, storeVars, requestVars>>

Statuses == {"starting", "running", "reconnecting", "stopped", "failed"}

\* Every variable has its type; the channel never holds more than fits.
TypeOK ==
  /\ runner \in {"loop", "read", "write", "note", "await", "final", "decide",
                 "reconnect", "backoff", "stop_sync", "exit", "ended", "aborted"}
  /\ inner \in {"connect", "open", "retry", "closing", "ending_ok", "ending_err", "done"}
  /\ view \in Statuses /\ snapshot \in Statuses \cup {"none"} /\ unsynced \in BOOLEAN
  /\ channel \in Seq(0..MaxEvents) /\ Len(channel) <= Capacity
  /\ sent \in 0..MaxEvents /\ stored \in Seq(1..MaxEvents)
  /\ row \in Statuses
  /\ guard_held \in BOOLEAN /\ registered \in BOOLEAN /\ stop \in BOOLEAN
  /\ stopper \in {"idle", "waiting", "answered"} /\ status \in {"idle", "waiting"}

Init ==
  /\ runner = "loop" /\ inner = "connect"
  /\ view = "starting" /\ snapshot = "none" /\ unsynced = TRUE
  /\ guard_held = FALSE /\ registered = TRUE
  /\ channel = <<>> /\ sent = 0 /\ stored = <<>> /\ row = "starting"
  /\ stop = FALSE /\ stopper = "idle" /\ status = "idle"
  /\ restarts = 0 /\ store_errors = 0

-----------------------------------------------------------------------------
(****************************** the inner task *****************************)

\* event_rx lives as long as the runner's future.
ReceiverGone == runner \in {"ended", "aborted"}

\* recorder.emit: waits for room in the channel, and counts the event in
\* written_events once it is there.
Emit(event) ==
  /\ Len(channel) < Capacity
  /\ channel' = Append(channel, event)
  /\ unsynced' = TRUE

SetStatus(s) == view' = s

runnerUnchanged ==
  UNCHANGED <<runner, guard_held, registered, snapshot, stop, restarts,
              storeVars, requestVars>>

\* A connection attempt succeeds, fails and will be retried, fails for good
\* because the credentials are refused, or fails in a way no retry handles.
InnerConnect ==
  /\ inner = "connect"
  /\ \/ ~ReceiverGone /\ Emit(0) /\ SetStatus("running") /\ inner' = "open"
     \/ ~ReceiverGone /\ Emit(0) /\ SetStatus("reconnecting") /\ inner' = "retry"
     \/ ~ReceiverGone /\ Emit(0) /\ SetStatus("failed") /\ inner' = "ending_err"
     \/ inner' = "ending_err" /\ UNCHANGED <<channel, view, unsynced>>
  /\ UNCHANGED sent
  /\ runnerUnchanged

\* A data event.
InnerEvent ==
  /\ inner = "open" /\ sent < MaxEvents /\ ~ReceiverGone
  /\ Emit(sent + 1)
  /\ sent' = sent + 1
  /\ UNCHANGED <<inner, view>>
  /\ runnerUnchanged

\* The connection is lost: the task reconnects, or ends with or without an
\* error, as the transport does.
InnerDrop ==
  /\ inner = "open"
  /\ \/ ~ReceiverGone /\ Emit(0) /\ SetStatus("reconnecting") /\ inner' = "retry"
     \/ inner' \in {"ending_ok", "ending_err"} /\ UNCHANGED <<channel, view, unsynced>>
  /\ UNCHANGED <<sent>>
  /\ runnerUnchanged

\* wait_for_stop_or_timeout between two attempts.
InnerRetry ==
  /\ inner = "retry"
  /\ inner' = IF stop THEN "closing" ELSE "connect"
  /\ UNCHANGED <<view, unsynced, channel, sent>>
  /\ runnerUnchanged

\* subscription_stop_requested wins a select.
InnerSeesStop ==
  /\ inner \in {"connect", "open"} /\ stop
  /\ inner' = "closing"
  /\ UNCHANGED <<view, unsynced, channel, sent>>
  /\ runnerUnchanged

\* close_subscription_as_stopped
InnerClose ==
  /\ inner = "closing"
  /\ \/ ~ReceiverGone /\ Emit(0) /\ SetStatus("stopped") /\ inner' = "ending_ok"
     \/ ReceiverGone /\ inner' = "ending_err" /\ UNCHANGED <<channel, view, unsynced>>
  /\ UNCHANGED <<sent>>
  /\ runnerUnchanged

\* run_stream_subscription_job has returned, and dropped event_tx.
SenderGone == inner \in {"ending_ok", "ending_err", "done"}

\* The end of spawn_managed_source_stream_task.
InnerEnd ==
  /\ inner \in {"ending_ok", "ending_err"}
  /\ SetStatus(IF view = "stopped" \/ inner = "ending_ok" THEN "stopped" ELSE "failed")
  /\ unsynced' = TRUE
  /\ inner' = "done"
  /\ UNCHANGED <<channel, sent>>
  /\ runnerUnchanged

-----------------------------------------------------------------------------
(******************************* the runner ********************************)

\* A store operation succeeds and writes s to the row, or fails.
WriteRow(s) == row' = s /\ UNCHANGED store_errors
StoreFails == store_errors < MaxStoreErrors /\ store_errors' = store_errors + 1

\* fail_managed_source, and the stop signal the runner sends itself.
Fails == StoreFails /\ row' = "failed" /\ stop' = TRUE

\* event_rx.recv() yields an event: a payload is appended to the stream.
RunnerRecv ==
  /\ runner = "loop" /\ channel # <<>>
  /\ channel' = Tail(channel)
  /\ \/ /\ stored' = IF Head(channel) = 0 THEN stored ELSE Append(stored, Head(channel))
        /\ runner' = "read"
        /\ UNCHANGED <<row, store_errors, stop>>
     \/ Head(channel) # 0 /\ Fails /\ runner' = "await" /\ UNCHANGED stored
  /\ UNCHANGED <<inner, view, unsynced, sent, guard_held, registered,
                 snapshot, restarts, requestVars>>

\* event_rx.recv() yields None: the sender is gone and the channel drained.
RunnerRecvNone ==
  /\ runner = "loop" /\ channel = <<>> /\ SenderGone
  /\ runner' = "await"
  /\ UNCHANGED <<guard_held, registered, snapshot, stop, restarts,
                 taskVars, storeVars, requestVars>>

\* The one-second tick, which syncs when the view has changed.
RunnerTick ==
  /\ runner = "loop" /\ unsynced
  /\ runner' = "read"
  /\ UNCHANGED <<guard_held, registered, snapshot, stop, restarts,
                 taskVars, storeVars, requestVars>>

RunnerSeesStop ==
  /\ runner = "loop" /\ stop
  /\ runner' = "await"
  /\ UNCHANGED <<guard_held, registered, snapshot, stop, restarts,
                 taskVars, storeVars, requestVars>>

\* sync_managed_source_state reads the view, and writes it to the row; the
\* state the next tick compares with is then read again.
SyncRead ==
  /\ runner = "read"
  /\ snapshot' = view
  /\ runner' = "write"
  /\ UNCHANGED <<guard_held, registered, stop, restarts, taskVars,
                 storeVars, requestVars>>

SyncWrite ==
  /\ runner = "write"
  /\ \/ WriteRow(snapshot) /\ runner' = "note" /\ UNCHANGED stop
     \/ Fails /\ runner' = "await"
  /\ snapshot' = "none"
  /\ UNCHANGED <<guard_held, registered, restarts, taskVars, stored,
                 requestVars>>

SyncNote ==
  /\ runner = "note"
  /\ unsynced' = FALSE
  /\ runner' = "loop"
  /\ UNCHANGED <<guard_held, registered, snapshot, stop, restarts, inner, view,
                 channel, sent, storeVars, requestVars>>

\* await_task_with_grace: the task has ended, or is aborted.
AwaitTask ==
  /\ runner = "await"
  /\ inner' = "done"
  /\ runner' = "final"
  /\ UNCHANGED <<view, unsynced, channel, sent, guard_held, registered,
                 snapshot, stop, restarts, storeVars, requestVars>>

\* The final sync of this task, whose status decides what follows.
FinalSync ==
  /\ runner = "final"
  /\ \/ WriteRow(view) /\ UNCHANGED stop
     \/ Fails
  /\ runner' = "decide"
  /\ UNCHANGED <<guard_held, registered, snapshot, restarts, taskVars,
                 stored, requestVars>>

Decide ==
  /\ runner = "decide"
  /\ \/ /\ stop \/ view = "stopped"
        /\ runner' = "exit"
        /\ UNCHANGED view
     \/ /\ ~stop /\ view # "stopped"
        /\ SetStatus("reconnecting")
        /\ runner' = "reconnect"
  /\ UNCHANGED <<guard_held, registered, snapshot, stop, restarts, inner, unsynced,
                 channel, sent, storeVars, requestVars>>

ReconnectSync ==
  /\ runner = "reconnect"
  /\ \/ WriteRow(view) /\ runner' = "backoff" /\ UNCHANGED stop
     \/ Fails /\ runner' = "exit"
  /\ UNCHANGED <<guard_held, registered, snapshot, restarts, taskVars,
                 stored, requestVars>>

\* wait_for_stop_or_timeout.  On a stop the runner locks the view and, still
\* holding it, calls sync_managed_source_state, which locks it again: no
\* step of the runner leads out of "stop_sync".  On the timeout a new task
\* is spawned with a new channel.
Backoff ==
  /\ runner = "backoff"
  /\ \/ /\ stop
        /\ SetStatus("stopped")
        /\ guard_held' = TRUE
        /\ runner' = "stop_sync"
        /\ UNCHANGED <<inner, channel, unsynced, restarts>>
     \/ /\ ~stop /\ restarts < MaxRestarts
        /\ restarts' = restarts + 1
        /\ runner' = "loop" /\ inner' = "connect"
        /\ channel' = <<>> /\ unsynced' = TRUE
        /\ UNCHANGED <<view, guard_held>>
  /\ UNCHANGED <<registered, snapshot, stop, sent, storeVars, requestVars>>

\* entry.runtime_view is taken back; a status request may be holding it.
RunnerExit ==
  /\ runner = "exit" /\ status = "idle"
  /\ registered' = FALSE
  /\ runner' = "ended"
  /\ UNCHANGED <<guard_held, snapshot, stop, restarts, taskVars,
                 storeVars, requestVars>>

-----------------------------------------------------------------------------
(*************************** stop and status ***************************)

StopRequest ==
  /\ stopper = "idle"
  /\ stopper' = "waiting"
  /\ stop' = TRUE
  /\ UNCHANGED <<runner, guard_held, registered, snapshot, restarts,
                 taskVars, storeVars, status>>

StopJoined ==
  /\ stopper = "waiting" /\ runner = "ended"
  /\ stopper' = "answered"
  /\ row' = "stopped"
  /\ UNCHANGED <<runner, guard_held, registered, snapshot, stop, restarts,
                 taskVars, stored, store_errors, status>>

\* The grace period is over: the runner is aborted where it is, and what it
\* holds is dropped; the inner task is not aborted with it.
StopAborts ==
  /\ stopper = "waiting" /\ runner # "ended"
  /\ stopper' = "answered"
  /\ runner' = "aborted" /\ guard_held' = FALSE
  /\ row' = "stopped"
  /\ UNCHANGED <<registered, snapshot, stop, restarts, taskVars, stored,
                 store_errors, status>>

\* build_status_view holds entry.runtime_view while it waits for the view.
StatusRequest ==
  /\ status = "idle" /\ registered
  /\ status' = "waiting"
  /\ UNCHANGED <<runner, guard_held, registered, snapshot, stop, restarts,
                 taskVars, storeVars, stopper>>

StatusAnswer ==
  /\ status = "waiting" /\ ~guard_held
  /\ status' = "idle"
  /\ UNCHANGED <<runner, guard_held, registered, snapshot, stop, restarts,
                 taskVars, storeVars, stopper>>

-----------------------------------------------------------------------------

InnerStep ==
  \/ InnerConnect \/ InnerEvent \/ InnerDrop \/ InnerRetry \/ InnerSeesStop
  \/ InnerClose \/ InnerEnd

RunnerStep ==
  \/ RunnerRecv \/ RunnerRecvNone \/ RunnerTick \/ RunnerSeesStop
  \/ SyncRead \/ SyncWrite \/ SyncNote \/ AwaitTask \/ FinalSync \/ Decide
  \/ ReconnectSync \/ Backoff \/ RunnerExit

StopStep == StopJoined \/ StopAborts

Next ==
  \/ InnerStep \/ RunnerStep
  \/ StopRequest \/ StopStep \/ StatusRequest \/ StatusAnswer

Spec == Init /\ [][Next]_vars

\* The runtime runs every task that can run; connection attempts and reads
\* have timeouts, and the grace period of a stop expires.
Fairness ==
  /\ WF_vars(InnerStep) /\ WF_vars(RunnerStep)
  /\ WF_vars(StopStep) /\ WF_vars(StatusAnswer)

FairSpec == Spec /\ Fairness

-----------------------------------------------------------------------------

\* Until somebody asks for a stop, no event is lost or reordered between the
\* connection and the stream, however often the connection or the task is
\* lost: the stream has the first events sent, in order, and the channel,
\* between events without a payload, the others, in order.
NothingLost ==
  ~stop => /\ stored = [i \in 1..Len(stored) |-> i]
           /\ {channel[k] : k \in DOMAIN channel} \ {0} = Len(stored) + 1 .. sent
           /\ \A k, l \in DOMAIN channel : k < l /\ channel[l] # 0 => channel[k] < channel[l]

\* A status request is answered, although the runner may wait for ever with
\* the view locked: only a stop leads there, and it aborts the runner.
StatusAnswered == status = "waiting" ~> status = "idle"
=============================================================================
