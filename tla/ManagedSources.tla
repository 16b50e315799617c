--------------------------- MODULE ManagedSources ---------------------------
(***************************************************************************)
(* ManagedSourceManager (daemon.rs): the handlers of source ensure, stop   *)
(* and delete, resume_all after a restart of the daemon, and one runner    *)
(* task per entry of the manager's map, all over the store of              *)
(* ManagedSourceStore.                                                     *)
(*                                                                         *)
(* A step ends at an await: every lock acquisition, store operation, fetch *)
(* and join is a step of its own, and steps of different handlers and      *)
(* runners interleave.  A process crash loses everything but the store.    *)
(***************************************************************************)
EXTENDS ManagedSourceStore

CONSTANTS
  Clients,         \* connections that issue requests
  Boot,            \* the task that runs resume_all when the daemon starts
  PollSpecs,       \* specs with mode = poll; the others are streams
  MaxItems,        \* bound on the items an upstream publishes
  MaxRuns,         \* bound on the run ids ever created
  MaxEntries,      \* bound on the entries ever created
  MaxRequests,     \* bound on the requests ever issued
  MaxCrashes,      \* bound on daemon restarts
  MaxInFlight,     \* bound on the handlers running at once
  LateWrites,      \* an aborted runner's store operation may still complete
  NoProc

ASSUME ManagerAssumption ==
  /\ Sources # {} /\ Specs # {} /\ IsFiniteSet(Clients)
  /\ Boot \notin Clients
  /\ NoProc \notin Clients \cup {Boot}
  /\ PollSpecs \subseteq Specs
  /\ MaxItems \in Nat /\ MaxEntries \in Nat
  /\ Runs = 1..MaxRuns
  /\ Checkpoints = 0..MaxItems
  /\ Payloads = [run : Runs, item : 1..MaxItems]
  /\ LateWrites \in BOOLEAN

Procs == Clients \cup {Boot}
EntryIds == 1..MaxEntries
NoEntry == 0
NoRun == 0

VARIABLES
  handler,     \* what each handler is doing, with its locals
  entries,     \* ManagedSourceManager.entries: source -> entry, or NoEntry
  entry,       \* every ManagedSourceEntry ever created, with its runner
  next_entry,  \* allocator of entries
  next_run,    \* allocator of run ids
  feed,        \* how many items each upstream has published
  last_op,     \* the last request for a source, once it is answered
  fresh_from,  \* next offset when the source's checkpoint was last cleared
  requests, crashes

managerVars == <<handler, entries, entry, next_entry, next_run>>
requestVars == <<feed, last_op, requests, crashes>>
envVars == <<requestVars, fresh_from>>
vars == <<storeVars, managerVars, envVars>>

HandlerPcs ==
  {"idle", "get", "upsert", "check", "insert", "set_task",
   "stop_get", "stop_lookup", "stop_signal", "stop_take", "stop_await",
   "stop_remove", "stop_clear", "stop_checkpoint",
   "delete_row", "delete_entry", "boot_load", "boot_next"}

\* A runner is finished (its JoinHandle is ready) when its pc is "dead" or
\* it was aborted; an aborted runner may have a store operation to complete.
WritePcs == {"append", "sync", "final", "failed", "event", "event_sync"}
RunnerPcs == WritePcs \cup {"start", "wait", "fetch", "stream", "exit", "dead"}

Handler ==
  [pc : HandlerPcs, op : {"ensure", "stop", "delete", "resume"}, s : Sources,
   spec : Specs, run : Runs \cup {NoRun}, x : EntryIds \cup {NoEntry},
   todo : SUBSET [s : Sources, spec : Specs, run : Runs]]

Entry ==
  [s : Sources, spec : Specs, run : Runs, stop : BOOLEAN,
   task : {"none", "set", "taken"}, holder : Procs \cup {NoProc},
   pc : RunnerPcs, aborted : BOOLEAN, cp : 0..MaxItems, got : 0..MaxItems,
   view : Statuses]

TypeOK ==
  /\ StoreTypeOK
  /\ handler \in [Procs -> Handler]
  /\ entries \in [Sources -> EntryIds \cup {NoEntry}]
  /\ next_entry \in 1..(MaxEntries + 1)
  /\ entry \in [1..(next_entry - 1) -> Entry]
  /\ next_run \in Nat \ {0}
  /\ feed \in [Sources -> 0..MaxItems]

Idle ==
  [pc |-> "idle", op |-> "stop", s |-> CHOOSE s \in Sources : TRUE,
   spec |-> CHOOSE spec \in Specs : TRUE, run |-> NoRun, x |-> NoEntry,
   todo |-> {}]

Init ==
  /\ StoreInit
  /\ handler = [p \in Procs |-> Idle]
  /\ entries = [s \in Sources |-> NoEntry]
  /\ entry = <<>>
  /\ next_entry = 1
  /\ next_run = 1
  /\ feed = [s \in Sources |-> 0]
  /\ last_op = [s \in Sources |-> "none"]
  /\ fresh_from = [s \in Sources |-> 1]
  /\ requests = 0
  /\ crashes = 0

At(p, pc) == handler[p].pc = pc

Goto(p, pc) == handler' = [handler EXCEPT ![p].pc = pc]

Busy == {p \in Procs : ~At(p, "idle")}

\* The request is answered.
Answer(p) ==
  /\ handler' = [handler EXCEPT ![p] = Idle]
  /\ last_op' = [last_op EXCEPT ![handler[p].s] = handler[p].op]
  /\ UNCHANGED <<feed, requests, crashes>>

CheckpointCleared(s) ==
  fresh_from' = [fresh_from EXCEPT ![s] = next_event_offset'[StreamIdOf[s]]]

\* Where ensure_runner_for_record returns to.
Ensured(p) ==
  IF p = Boot
  THEN /\ handler' = [handler EXCEPT ![p] = [Idle EXCEPT !.pc = "boot_next",
                           !.op = "resume", !.todo = handler[p].todo]]
       /\ UNCHANGED requestVars
  ELSE Answer(p)

-----------------------------------------------------------------------------
(******************************* the requests ******************************)

Request(c, op, s, spec) ==
  /\ At(c, "idle")
  /\ requests < MaxRequests
  /\ Cardinality(Busy) < MaxInFlight
  /\ requests' = requests + 1
  /\ last_op' = [last_op EXCEPT ![s] = "none"]
  /\ handler' = [handler EXCEPT
                   ![c] = [pc |-> IF op = "ensure" THEN "get" ELSE "stop_get",
                           op |-> op, s |-> s, spec |-> spec, run |-> NoRun,
                           x |-> NoEntry, todo |-> {}]]
  /\ UNCHANGED <<storeVars, entries, entry, next_entry, next_run, feed, crashes,
                 fresh_from>>

\* ensure: the row decides between a new source, reuse and replacement.
EnsureGet(p) ==
  LET s == handler[p].s
  IN  /\ At(p, "get")
      /\ \/ ~HasRow(s) /\ Goto(p, "upsert")
         \/ /\ HasRow(s)
            /\ managed_sources[s].spec = handler[p].spec
            /\ handler' = [handler EXCEPT ![p].pc = "check",
                                          ![p].run = managed_sources[s].run]
         \/ /\ HasRow(s)
            /\ managed_sources[s].spec # handler[p].spec
            /\ Goto(p, "stop_get")
      /\ UNCHANGED <<storeVars, entries, entry, next_entry, next_run, envVars>>

\* start_managed_source writes the row of a new run.
EnsureUpsert(p) ==
  /\ At(p, "upsert")
  /\ next_run \in Runs
  /\ UpsertSource(handler[p].s, handler[p].spec, next_run)
  /\ next_run' = next_run + 1
  /\ handler' = [handler EXCEPT ![p].pc = "check", ![p].run = next_run]
  /\ CheckpointCleared(handler[p].s)
  /\ UNCHANGED <<entries, entry, next_entry, requestVars>>

\* Fault for RunnerCheck: the map is not consulted.
RunnerCheckNothing(p) ==
  /\ At(p, "check")
  /\ Goto(p, "insert")
  /\ UNCHANGED <<storeVars, entries, entry, next_entry, next_run, envVars>>

\* ensure_runner_for_record: the map is looked up ...
RunnerCheck(p) ==
  /\ At(p, "check")
  /\ IF entries[handler[p].s] # NoEntry
     THEN Ensured(p)
     ELSE Goto(p, "insert") /\ UNCHANGED requestVars
  /\ UNCHANGED <<storeVars, entries, entry, next_entry, next_run, fresh_from>>

NewEntry(h) ==
  [s |-> h.s, spec |-> h.spec, run |-> h.run, stop |-> FALSE, task |-> "none",
   holder |-> NoProc, pc |-> "start", aborted |-> FALSE, cp |-> 0, got |-> 0,
   view |-> "starting"]

\* ... unlocked, locked again, and written; the runner is spawned ...
RunnerInsert(p) ==
  /\ At(p, "insert")
  /\ next_entry \in EntryIds
  /\ entries' = [entries EXCEPT ![handler[p].s] = next_entry]
  /\ entry' = Append(entry, NewEntry(handler[p]))
  /\ next_entry' = next_entry + 1
  /\ handler' = [handler EXCEPT ![p].pc = "set_task", ![p].x = next_entry]
  /\ UNCHANGED <<storeVars, next_run, envVars>>

\* ... and its join handle is put where stop_internal looks for it.
RunnerSetTask(p) ==
  LET x == handler[p].x
  IN  /\ At(p, "set_task")
      /\ entry[x].holder = NoProc
      /\ entry' = [entry EXCEPT ![x].task = "set"]
      /\ Ensured(p)
      /\ UNCHANGED <<storeVars, entries, next_entry, next_run, fresh_from>>

-----------------------------------------------------------------------------
(****************************** stop_internal ******************************)

\* What follows stop_internal in stop, delete and ensure.  Only stop hands
\* its error on.
AfterStop(p) ==
  \/ handler[p].op = "stop" /\ Answer(p)
  \/ handler[p].op = "delete" /\ Goto(p, "delete_row") /\ UNCHANGED requestVars
  \/ handler[p].op = "ensure" /\ Goto(p, "upsert") /\ UNCHANGED requestVars

StopGet(p) ==
  LET s == handler[p].s
  IN  /\ At(p, "stop_get")
      /\ IF HasRow(s)
         THEN /\ handler' = [handler EXCEPT ![p].pc = "stop_lookup",
                                            ![p].run = managed_sources[s].run]
              /\ UNCHANGED requestVars
         ELSE AfterStop(p)
      /\ UNCHANGED <<storeVars, entries, entry, next_entry, next_run, fresh_from>>

StopLookup(p) ==
  LET x == entries[handler[p].s]
  IN  /\ At(p, "stop_lookup")
      /\ IF x = NoEntry
         THEN Goto(p, "stop_clear")
         ELSE handler' = [handler EXCEPT ![p].pc = "stop_signal", ![p].x = x]
      /\ UNCHANGED <<storeVars, entries, entry, next_entry, next_run, envVars>>

\* signal_and_await_entry_task: stop_tx.send(true) ...
StopSignal(p) ==
  /\ At(p, "stop_signal")
  /\ entry' = [entry EXCEPT ![handler[p].x].stop = TRUE]
  /\ Goto(p, "stop_take")
  /\ UNCHANGED <<storeVars, entries, next_entry, next_run, envVars>>

\* ... then task.lock().await.take().  The guard of the scrutinee lives as
\* long as the if-let, so it is held while the task is awaited.
StopTake(p) ==
  LET x == handler[p].x
  IN  /\ At(p, "stop_take")
      /\ entry[x].holder = NoProc
      /\ IF entry[x].task = "set"
         THEN /\ entry' = [entry EXCEPT ![x].task = "taken", ![x].holder = p]
              /\ Goto(p, "stop_await")
         ELSE Goto(p, "stop_remove") /\ UNCHANGED entry
      /\ UNCHANGED <<storeVars, entries, next_entry, next_run, envVars>>

Finished(x) == entry[x].pc = "dead" \/ entry[x].aborted

\* await_task_with_grace: the runner ends in time ...
StopJoined(p) ==
  LET x == handler[p].x
  IN  /\ At(p, "stop_await")
      /\ Finished(x)
      /\ entry' = [entry EXCEPT ![x].holder = NoProc]
      /\ Goto(p, "stop_remove")
      /\ UNCHANGED <<storeVars, entries, next_entry, next_run, envVars>>

\* Aborting drops the runner's future at its await.  A store operation that
\* it was waiting for runs on the blocking pool and may still complete.
Abort(e) ==
  {[e EXCEPT !.pc = "dead", !.holder = NoProc]} \cup
  (IF LateWrites /\ e.pc \in WritePcs
   THEN {[e EXCEPT !.aborted = TRUE, !.holder = NoProc]}
   ELSE {})

\* Faults for StopAborts: the timeout does not abort; there is no timeout.
StopGivesUp(p) ==
  /\ At(p, "stop_await")
  /\ entry' = [entry EXCEPT ![handler[p].x].holder = NoProc]
  /\ Goto(p, "stop_remove")
  /\ UNCHANGED <<storeVars, entries, next_entry, next_run, envVars>>

StopWaits(p) == At(p, "stop_await") /\ Finished(handler[p].x) /\ UNCHANGED vars

\* ... or it is aborted.
StopAborts(p) ==
  LET x == handler[p].x
  IN  /\ At(p, "stop_await")
      /\ ~Finished(x)
      /\ \E e \in Abort(entry[x]) : entry' = [entry EXCEPT ![x] = e]
      /\ Goto(p, "stop_remove")
      /\ UNCHANGED <<storeVars, entries, next_entry, next_run, envVars>>

\* entries.remove(&identity_key): whatever entry the map holds by now.
StopRemove(p) ==
  /\ At(p, "stop_remove")
  /\ entries' = [entries EXCEPT ![handler[p].s] = NoEntry]
  /\ Goto(p, "stop_clear")
  /\ UNCHANGED <<storeVars, entry, next_entry, next_run, envVars>>

StopClear(p) ==
  /\ At(p, "stop_clear")
  /\ ClearSourceJob(handler[p].s, "stopped")
  /\ Goto(p, "stop_checkpoint")
  /\ UNCHANGED <<entries, entry, next_entry, next_run, envVars>>

StopCheckpoint(p) ==
  /\ At(p, "stop_checkpoint")
  /\ ClearPollCheckpoint(handler[p].s, handler[p].run)
  /\ CheckpointCleared(handler[p].s)
  /\ AfterStop(p)
  /\ UNCHANGED <<entries, entry, next_entry, next_run>>

DeleteRow(p) ==
  /\ At(p, "delete_row")
  /\ DeleteSource(handler[p].s)
  /\ Goto(p, "delete_entry")
  /\ UNCHANGED <<entries, entry, next_entry, next_run, envVars>>

DeleteEntry(p) ==
  /\ At(p, "delete_entry")
  /\ entries' = [entries EXCEPT ![handler[p].s] = NoEntry]
  /\ Answer(p)
  /\ UNCHANGED <<storeVars, entry, next_entry, next_run, fresh_from>>

-----------------------------------------------------------------------------
(************************** crash and resume_all ***************************)

\* The daemon process ends, by a crash or by "uxc daemon stop", and a new
\* one starts.  Nothing is stopped in an orderly way.
Crash ==
  /\ crashes < MaxCrashes
  /\ crashes' = crashes + 1
  /\ handler' = [p \in Procs |->
                   IF p = Boot
                   THEN [Idle EXCEPT !.pc = "boot_load", !.op = "resume"]
                   ELSE Idle]
  /\ entries' = [s \in Sources |-> NoEntry]
  /\ entry' = [x \in DOMAIN entry |->
                 [entry[x] EXCEPT !.pc = "dead", !.holder = NoProc]]
  /\ UNCHANGED <<storeVars, next_entry, next_run, feed, last_op, requests,
                 fresh_from>>

\* Fault for BootLoad: only rows that say "running" are resumed.
BootLoadRunning ==
  /\ At(Boot, "boot_load")
  /\ handler' =
       [handler EXCEPT
          ![Boot].pc = "boot_next",
          ![Boot].todo =
             {[s |-> s, spec |-> managed_sources[s].spec,
               run |-> managed_sources[s].run] :
                s \in {t \in Sources : HasRow(t)
                                       /\ managed_sources[t].status = "running"}}]
  /\ UNCHANGED <<storeVars, entries, entry, next_entry, next_run, envVars>>

\* resume_all: every row that does not say "stopped".
BootLoad ==
  /\ At(Boot, "boot_load")
  /\ handler' =
       [handler EXCEPT
          ![Boot].pc = "boot_next",
          ![Boot].todo =
             {[s |-> s, spec |-> managed_sources[s].spec,
               run |-> managed_sources[s].run] :
                s \in {t \in Sources : HasRow(t)
                                       /\ managed_sources[t].status # "stopped"}}]
  /\ UNCHANGED <<storeVars, entries, entry, next_entry, next_run, envVars>>

BootNext ==
  /\ At(Boot, "boot_next")
  /\ \/ /\ handler[Boot].todo = {}
        /\ handler' = [handler EXCEPT ![Boot] = Idle]
     \/ \E record \in handler[Boot].todo :
          handler' = [handler EXCEPT ![Boot] =
                        [handler[Boot] EXCEPT !.pc = "check", !.s = record.s,
                           !.spec = record.spec, !.run = record.run,
                           !.todo = @ \ {record}]]
  /\ UNCHANGED <<storeVars, entries, entry, next_entry, next_run, envVars>>

-----------------------------------------------------------------------------
(******************************* the runners *******************************)

Running(x, pc) == x \in DOMAIN entry /\ entry[x].pc = pc

RunnerGoto(x, pc) == entry' = [entry EXCEPT ![x].pc = pc]

\* The continuation of a store operation, unless the runner was aborted.
RunnerReturn(x, pc) == RunnerGoto(x, IF entry[x].aborted THEN "dead" ELSE pc)

runnerUnchanged == <<handler, next_entry, next_run, envVars>>

\* A poll runner restores its checkpoint; a stream runner subscribes and
\* will be pushed what is published from now on.  Either may fail.
RunnerStart(x) ==
  /\ Running(x, "start")
  /\ \/ /\ entry[x].spec \in PollSpecs
        /\ LET cp == LoadPollCheckpoint(entry[x].s, entry[x].run)
           IN  entry' = [entry EXCEPT ![x].pc = "wait", ![x].view = "running",
                           ![x].cp = IF cp = NoCheckpoint THEN 0 ELSE cp]
     \/ /\ entry[x].spec \notin PollSpecs
        /\ entry' = [entry EXCEPT ![x].pc = "stream", ![x].view = "running",
                                  ![x].cp = feed[entry[x].s]]
     \/ RunnerGoto(x, "failed")
  /\ UNCHANGED <<storeVars, entries, runnerUnchanged>>

\* wait_for_stop_or_timeout, and the check of stop_rx that follows it.
RunnerWake(x) ==
  /\ Running(x, "wait")
  /\ IF entry[x].stop
     THEN entry' = [entry EXCEPT ![x].pc = "final", ![x].view = "stopped"]
     ELSE RunnerGoto(x, "fetch")
  /\ UNCHANGED <<storeVars, entries, runnerUnchanged>>

\* The poll answers with everything published so far, fails and will be
\* retried, or cannot be processed.  Nothing bounds how long it takes.  A poll
\* that brings nothing new may yet change the checkpoint (its etag, the count
\* of 304 answers) and is then stored, with the run check, like any other.
RunnerFetch(x) ==
  /\ Running(x, "fetch")
  /\ \/ \E pc \in {"append", "sync"} :
          /\ pc = "sync" => feed[entry[x].s] = entry[x].cp
          /\ entry' = [entry EXCEPT ![x].got = feed[entry[x].s],
                                    ![x].view = "running", ![x].pc = pc]
     \/ entry' = [entry EXCEPT ![x].view = "reconnecting", ![x].pc = "sync"]
     \/ RunnerGoto(x, "failed")
  /\ UNCHANGED <<storeVars, entries, runnerUnchanged>>

\* The items of a poll that the checkpoint does not cover.
NewItems(x) ==
  [i \in 1..(entry[x].got - entry[x].cp) |->
     [run |-> entry[x].run, item |-> entry[x].cp + i]]

RunnerAppend(x) ==
  LET e == entry[x]
  IN  /\ Running(x, "append")
      /\ \/ /\ \E at \in Times :
                 AppendEventsAndStorePollCheckpoint(e.s, e.run, at, NewItems(x),
                                                    e.got)
            /\ entry' = [entry EXCEPT
                           ![x].pc = IF e.aborted THEN "dead" ELSE "sync",
                           ![x].cp = e.got]
         \/ /\ ~HasRun(e.s, e.run)
            /\ RunnerReturn(x, "failed")
            /\ UNCHANGED storeVars
      /\ UNCHANGED <<entries, runnerUnchanged>>

\* sync_managed_source_state, then back to the loop.
RunnerSync(x) ==
  /\ Running(x, "sync")
  /\ UpdateSourceRuntime(entry[x].s, entry[x].view)
  /\ RunnerReturn(x, "wait")
  /\ UNCHANGED <<entries, runnerUnchanged>>

\* The last sync, with status "stopped".
RunnerFinal(x) ==
  /\ Running(x, "final")
  /\ UpdateSourceRuntime(entry[x].s, entry[x].view)
  /\ RunnerReturn(x, "exit")
  /\ UNCHANGED <<entries, runnerUnchanged>>

\* fail_managed_source
RunnerFail(x) ==
  /\ Running(x, "failed")
  /\ ClearSourceJob(entry[x].s, "failed")
  /\ RunnerReturn(x, "exit")
  /\ UNCHANGED <<entries, runnerUnchanged>>

\* The runner takes its identity out of the map and ends.
RunnerExit(x) ==
  /\ Running(x, "exit")
  /\ entries' = [entries EXCEPT ![entry[x].s] = NoEntry]
  /\ RunnerGoto(x, "dead")
  /\ UNCHANGED <<storeVars, runnerUnchanged>>

\* A stream runner is pushed the next item, or sees the stop signal.
RunnerPushed(x) ==
  /\ Running(x, "stream")
  /\ \/ /\ entry[x].cp < feed[entry[x].s]
        /\ entry' = [entry EXCEPT ![x].pc = "event", ![x].cp = @ + 1]
     \/ /\ entry[x].stop
        /\ entry' = [entry EXCEPT ![x].pc = "final", ![x].view = "stopped"]
  /\ UNCHANGED <<storeVars, entries, runnerUnchanged>>

\* append_event takes the stream id alone.
RunnerEvent(x) ==
  LET e == entry[x]
  IN  /\ Running(x, "event")
      /\ \E at \in Times :
           AppendEvent(StreamIdOf[e.s], at, [run |-> e.run, item |-> e.cp])
      /\ RunnerReturn(x, "event_sync")
      /\ UNCHANGED <<managed_sources, entries, runnerUnchanged>>

RunnerEventSync(x) ==
  /\ Running(x, "event_sync")
  /\ UpdateSourceRuntime(entry[x].s, entry[x].view)
  /\ RunnerReturn(x, "stream")
  /\ UNCHANGED <<entries, runnerUnchanged>>

\* The upstream publishes an item.
Publish(s) ==
  /\ feed[s] < MaxItems
  /\ feed' = [feed EXCEPT ![s] = @ + 1]
  /\ UNCHANGED <<storeVars, managerVars, last_op, requests, crashes, fresh_from>>

-----------------------------------------------------------------------------

HandlerStep(p) ==
  \/ EnsureGet(p) \/ EnsureUpsert(p)
  \/ RunnerCheck(p) \/ RunnerInsert(p) \/ RunnerSetTask(p)
  \/ StopGet(p) \/ StopLookup(p) \/ StopSignal(p) \/ StopTake(p)
  \/ StopJoined(p) \/ StopAborts(p) \/ StopRemove(p)
  \/ StopClear(p) \/ StopCheckpoint(p)
  \/ DeleteRow(p) \/ DeleteEntry(p)

RunnerStep(x) ==
  \/ RunnerStart(x) \/ RunnerWake(x) \/ RunnerFetch(x) \/ RunnerAppend(x)
  \/ RunnerSync(x) \/ RunnerFinal(x) \/ RunnerFail(x) \/ RunnerExit(x)
  \/ RunnerPushed(x) \/ RunnerEvent(x) \/ RunnerEventSync(x)

Next ==
  \/ \E c \in Clients, s \in Sources :
       \/ \E spec \in Specs : Request(c, "ensure", s, spec)
       \/ \E op \in {"stop", "delete"} : Request(c, op, s, Idle.spec)
  \/ \E p \in Procs : HandlerStep(p)
  \/ \E x \in EntryIds : RunnerStep(x)
  \/ \E s \in Sources : Publish(s)
  \/ Crash \/ BootLoad \/ BootNext

Spec == Init /\ [][Next]_vars

\* Every handler keeps taking steps; the grace timer of a stop expires.
\* Nothing is assumed of the runners: a fetch may hang for ever.
Fairness == \A p \in Procs : WF_vars(HandlerStep(p))

FairSpec == Spec /\ Fairness

-----------------------------------------------------------------------------

Live(x) == entry[x].pc # "dead" /\ ~entry[x].aborted

Polled(run) ==
  \E x \in DOMAIN entry : entry[x].run = run /\ entry[x].spec \in PollSpecs

\* A stored checkpoint never runs ahead of the stream: every item it says
\* was handled is in the stream, whatever crashed, was aborted or ran twice.
CheckpointCovered ==
  \A s \in Sources :
    (HasRow(s) /\ managed_sources[s].checkpoint # NoCheckpoint) =>
      \A i \in 1..managed_sources[s].checkpoint :
        \E e \in stream_events[StreamIdOf[s]] :
          e.payload = [run |-> managed_sources[s].run, item |-> i]

\* Once a replacement run has polled an event into the stream, no poll of
\* the run it replaced is added any more.
PollRunsFenced ==
  \A st \in Streams : \A e, f \in stream_events[st] :
    (e.offset < f.offset /\ Polled(e.payload.run) /\ Polled(f.payload.run))
      => e.payload.run <= f.payload.run

\* Every request is answered, although stop and delete wait for a runner
\* that may be stuck in a fetch.
Answered == \A c \in Clients : ~At(c, "idle") ~> At(c, "idle")

\* "avoid orphaned duplicates": a runner nobody has told to stop is the one
\* the map names, so that a later stop, delete or ensure finds it.
NoOrphans ==
  \A x \in DOMAIN entry :
    (Live(x) /\ ~entry[x].stop) => entries[entry[x].s] = x

\* A stop or delete that was answered, and that no request followed, has
\* ended the source's runner, and its row says so across restarts.  This is
\* about a stop that does not overtake a write: the status update of a runner
\* aborted in the middle of it (await_task_with_grace) may land after stop's
\* own and say "running" again, which LateWrites = FALSE leaves out.
StopIsFinal ==
  \A s \in Sources :
    (Busy = {} /\ last_op[s] \in {"stop", "delete"}) =>
      /\ \A x \in DOMAIN entry : entry[x].s = s => ~Live(x)
      /\ HasRow(s) => managed_sources[s].status = "stopped"

\* While no request is being handled, a row that claims to be starting,
\* running or reconnecting has a live runner that the map names, also after
\* a crash in the middle of a request and the resumption that follows.
RowIsServed ==
  \A s \in Sources :
    (/\ Busy = {} /\ HasRow(s)
     /\ managed_sources[s].status \in {"starting", "running", "reconnecting"})
      => entries[s] # NoEntry /\ Live(entries[s])

\* Since its checkpoint was last cleared, no item of a polled source was
\* stored twice, across crashes and resumptions.
PolledOnce ==
  \A s \in Sources : \A e, f \in stream_events[StreamIdOf[s]] :
    (/\ e.payload = f.payload
     /\ Polled(e.payload.run)
     /\ e.offset >= fresh_from[s] /\ f.offset >= fresh_from[s]) => e = f
=============================================================================
