------------------------ MODULE ManagedSourcesProofs ------------------------
(***************************************************************************)
(* Theorems about ManagedSources, for any sources, specs, clients and      *)
(* bounds.                                                                 *)
(***************************************************************************)
EXTENDS ManagedSources, FiniteSetTheorems, SequenceTheorems, TLAPS

-----------------------------------------------------------------------------
(* The inductive invariant of the fence. *)

\* Run ids are given out once, each for one spec: the rows, the handlers that
\* are about to start a runner, the records a resumption still has to start and
\* the runners agree on it.
Known(run) == run < next_run
Placing(h) == h.pc \in {"check", "insert"}
RunsAgree(specOf) ==
  /\ \A s \in Sources : HasRow(s) =>
       Known(managed_sources[s].run) /\ specOf[managed_sources[s].run] = managed_sources[s].spec
  /\ \A p \in Procs : Placing(handler[p]) =>
       handler[p].run \in Runs /\ Known(handler[p].run) /\ specOf[handler[p].run] = handler[p].spec
  /\ \A p \in Procs : \A record \in handler[p].todo :
       Known(record.run) /\ specOf[record.run] = record.spec
  /\ \A x \in DOMAIN entry : Known(entry[x].run) /\ specOf[entry[x].run] = entry[x].spec
OneSpecPerRun == \E specOf \in [Runs -> Specs] : RunsAgree(specOf)

\* Where handlers and runners are in the middle of.
HandlersHaveEntries ==
  /\ \A p \in Procs :
       handler[p].pc \in {"set_task", "stop_signal", "stop_take", "stop_await"} =>
         handler[p].x \in DOMAIN entry
  /\ \A s \in Sources : entries[s] # NoEntry => entries[s] \in DOMAIN entry
Pushing == {"stream", "event", "event_sync"}
PushingRunners ==
  \A x \in DOMAIN entry :
    entry[x].pc \in Pushing => entry[x].spec \notin PollSpecs

\* A stream runner about to store an event has been pushed an item.
EventsCounted == \A x \in DOMAIN entry : entry[x].pc = "event" => entry[x].cp # 0

\* A stored event has an offset below the next and is of a run that has a
\* runner; a polled one is of the row's run or of one before it.
EventsKnown ==
  /\ \A s \in Sources : HasRow(s) => StreamExists(StreamIdOf[s])
  /\ \A st \in Streams : \A e \in stream_events[st] :
       /\ e.offset < next_event_offset[st]
       /\ \E x \in DOMAIN entry : entry[x].run = e.payload.run
  /\ \A s \in Sources : HasRow(s) =>
       \A e \in stream_events[StreamIdOf[s]] :
         Polled(e.payload.run) => e.payload.run <= managed_sources[s].run

FenceInv ==
  /\ TypeOK /\ HandlersHaveEntries /\ OneSpecPerRun /\ PushingRunners
  /\ EventsCounted
  /\ EventsKnown /\ PollRunsFenced

-----------------------------------------------------------------------------
(* The inductive invariant of the manager that handles one request at a time, *)
(* with no write of an aborted runner on its way.                             *)

Serial == MaxInFlight = 1 /\ LateWrites = FALSE

For(p, s) == handler[p].s = s
Stopping == {"stop_signal", "stop_take", "stop_await", "stop_remove"}
Placed == {"check", "insert", "set_task"}
Removed == {"stop_clear", "stop_checkpoint", "upsert", "delete_row", "delete_entry"}
Active(s) == HasRow(s) /\ managed_sources[s].status \in {"starting", "running", "reconnecting"}
Resumable(s) == \E record \in handler[Boot].todo : record.s = s

\* One handler is at work at most, and the resuming one only starts runners.
OneAtATime ==
  /\ \A p, q \in Procs : ~At(p, "idle") /\ ~At(q, "idle") => p = q
  /\ \A p \in Procs : p # Boot \/ At(p, "idle") =>
       handler[p].todo = {} /\ ~At(p, "boot_load") /\ ~At(p, "boot_next")
  /\ handler[Boot].pc \in Placed \cup {"idle", "boot_load", "boot_next"}

\* The map names every live runner, whose run is the one of the row.
RunnersNamed ==
  /\ \A x \in DOMAIN entry : ~entry[x].aborted
  /\ \A x \in DOMAIN entry : Live(x) =>
       entries[entry[x].s] = x /\ managed_sources[entry[x].s].run = entry[x].run
  /\ \A s \in Sources : entries[s] # NoEntry => entry[entries[s]].s = s /\ HasRow(s)

\* A runner that is about to end leaves a row that does not claim to run.
RunnersEnd ==
  /\ \A x \in DOMAIN entry : entry[x].pc = "final" => entry[x].view = "stopped"
  /\ \A x \in DOMAIN entry : entry[x].pc = "exit" => ~Active(entry[x].s)

\* The map names no dead runner, except one that is being removed.
MapNamesLive ==
  \A s \in Sources : entries[s] # NoEntry =>
    Live(entries[s]) \/ \E p \in Procs : At(p, "stop_remove") /\ For(p, s)

\* A runner's join handle is where stop looks for it, unless its handler is
\* about to put it there or has taken it.
TasksKept ==
  \A x \in DOMAIN entry : Live(x) =>
    \/ entry[x].task = "set"
    \/ entry[x].task = "none" /\ \E p \in Procs : At(p, "set_task") /\ handler[p].x = x
    \/ entry[x].task = "taken" /\ \E p \in Procs : At(p, "stop_await") /\ handler[p].x = x

\* What a handler has done so far.
InTurn(h) ==
  /\ h.pc \in Stopping =>
       /\ h.x \in DOMAIN entry /\ entry[h.x].s = h.s
       /\ entries[h.s] \in {h.x, NoEntry} /\ HasRow(h.s)
  /\ h.pc = "stop_remove" => ~Live(h.x)
  /\ h.pc = "insert" \/ h.pc \in Removed => entries[h.s] = NoEntry
  /\ h.pc \in Placed \cup {"stop_lookup"} => HasRow(h.s)
  /\ Placing(h) => h.run = managed_sources[h.s].run
  /\ h.pc \in {"stop_checkpoint", "delete_row", "upsert"} /\ HasRow(h.s) =>
       managed_sources[h.s].status = "stopped"
  /\ h.pc = "delete_entry" => ~HasRow(h.s)
  /\ h.pc = "delete_row" =>
       \A e \in stream_events[StreamIdOf[h.s]] :
         Polled(e.payload.run) => ~(e.offset >= fresh_from[h.s])
  /\ \A record \in h.todo :
       HasRow(record.s) /\ record.run = managed_sources[record.s].run
HandlersInTurn ==
  /\ \A p \in Procs : InTurn(handler[p])
  /\ \A p \in Procs : p # Boot /\ handler[p].pc \in Placed \cup {"get", "upsert"} =>
       handler[p].op = "ensure"

\* An answered stop or delete has left nothing that could start the source.
StoppedStays ==
  \A s \in Sources : last_op[s] \in {"stop", "delete"} =>
    /\ entries[s] = NoEntry
    /\ HasRow(s) => managed_sources[s].status = "stopped"
    /\ \A p \in Procs : handler[p].pc \notin {"idle", "boot_load", "boot_next"} => ~For(p, s)
    /\ ~Resumable(s)

\* A row that claims to run has a live runner, or one is on its way.
Served(s) ==
  \/ entries[s] # NoEntry /\ Live(entries[s])
  \/ At(Boot, "boot_load") \/ Resumable(s)
  \/ \E p \in Procs :
       For(p, s) /\ handler[p].pc \in {"check", "insert", "stop_remove", "stop_clear"}
RowsServed == \A s \in Sources : Active(s) => Served(s)

\* Since the checkpoint was cleared, the items polled are those it covers, each
\* once; the runner counts from it.
CheckpointOf(s) ==
  IF HasRow(s) /\ managed_sources[s].checkpoint # NoCheckpoint
  THEN managed_sources[s].checkpoint ELSE 0
Fresh(s, e) == e.offset >= fresh_from[s] /\ Polled(e.payload.run)
PolledTo ==
  /\ \A s \in Sources : CheckpointOf(s) <= feed[s]
  /\ \A s \in Sources : \A e \in stream_events[StreamIdOf[s]] : Fresh(s, e) =>
       /\ HasRow(s) /\ managed_sources[s].run = e.payload.run
       /\ e.payload.item <= CheckpointOf(s)
  /\ \A x \in DOMAIN entry :
       entry[x].pc \in {"wait", "fetch", "append", "sync"} =>
         entry[x].spec \in PollSpecs /\ entry[x].cp = CheckpointOf(entry[x].s)
  /\ \A x \in DOMAIN entry : entry[x].pc = "append" =>
       entry[x].cp <= entry[x].got /\ entry[x].got <= feed[entry[x].s]

SerialInv ==
  /\ DOMAIN last_op = Sources /\ DOMAIN fresh_from = Sources
  /\ OneAtATime /\ RunnersNamed /\ RunnersEnd /\ MapNamesLive /\ TasksKept
  /\ HandlersInTurn /\ StoppedStays /\ RowsServed /\ PolledTo /\ PolledOnce

-----------------------------------------------------------------------------
(* Types. *)

LEMMA HandlerNames ==
  /\ "idle" \in HandlerPcs /\ "get" \in HandlerPcs /\ "upsert" \in HandlerPcs
  /\ "check" \in HandlerPcs /\ "insert" \in HandlerPcs /\ "set_task" \in HandlerPcs
  /\ "stop_get" \in HandlerPcs /\ "stop_lookup" \in HandlerPcs /\ "stop_signal" \in HandlerPcs
  /\ "stop_take" \in HandlerPcs /\ "stop_await" \in HandlerPcs /\ "stop_remove" \in HandlerPcs
  /\ "stop_clear" \in HandlerPcs /\ "stop_checkpoint" \in HandlerPcs
  /\ "delete_row" \in HandlerPcs /\ "delete_entry" \in HandlerPcs
  /\ "boot_load" \in HandlerPcs /\ "boot_next" \in HandlerPcs
BY DEF HandlerPcs

LEMMA RunnerNames ==
  /\ "start" \in RunnerPcs /\ "wait" \in RunnerPcs /\ "fetch" \in RunnerPcs
  /\ "stream" \in RunnerPcs /\ "exit" \in RunnerPcs /\ "dead" \in RunnerPcs
  /\ "append" \in RunnerPcs /\ "sync" \in RunnerPcs /\ "final" \in RunnerPcs
  /\ "failed" \in RunnerPcs /\ "event" \in RunnerPcs /\ "event_sync" \in RunnerPcs
BY DEF RunnerPcs, WritePcs

LEMMA StatusNames ==
  /\ "starting" \in Statuses /\ "running" \in Statuses /\ "reconnecting" \in Statuses
  /\ "stopped" \in Statuses /\ "failed" \in Statuses
BY DEF Statuses

LEMMA IdleFields ==
  /\ Idle \in Handler /\ Idle.pc = "idle" /\ Idle.todo = {} /\ Idle.spec \in Specs
  /\ \A pc \in HandlerPcs, todo \in SUBSET [s : Sources, spec : Specs, run : Runs] :
       LET h == [Idle EXCEPT !.pc = pc, !.op = "resume", !.todo = todo]
       IN  h \in Handler /\ h.pc = pc /\ h.op = "resume" /\ h.todo = todo
<1>1. (CHOOSE s \in Sources : TRUE) \in Sources /\ (CHOOSE spec \in Specs : TRUE) \in Specs
  BY ManagerAssumption
<1>2. "idle" \in HandlerPcs /\ NoRun \in Runs \cup {NoRun} /\ NoEntry \in EntryIds \cup {NoEntry}
  BY HandlerNames
<1> QED
  BY <1>1, <1>2 DEF Idle, Handler

\* A handler moves, with or without a run and an entry.
LEMMA HandlerMoves ==
  ASSUME NEW h \in Handler, NEW pc \in HandlerPcs
  PROVE  /\ [h EXCEPT !.pc = pc] \in Handler
         /\ \A run \in Runs : [h EXCEPT !.pc = pc, !.run = run] \in Handler
         /\ \A x \in EntryIds : [h EXCEPT !.pc = pc, !.x = x] \in Handler
         /\ \A todo \in SUBSET [s : Sources, spec : Specs, run : Runs] :
              [h EXCEPT !.pc = pc, !.todo = todo] \in Handler
BY DEF Handler

\* The store.
LEMMA AppendTyped ==
  ASSUME StreamTypeOK, NEW st \in Streams, NEW at \in Times, NEW batch \in Seq(Payloads),
         next_event_offset[st] # 0, AppendRows(st, at, batch)
  PROVE  StreamTypeOK'
<1>1. Len(batch) \in Nat /\ next_event_offset[st] \in Nat \ {0}
  BY LenProperties DEF StreamTypeOK
<1>2. NewRows(st, at, batch) \subseteq EventRow
  <2>1. \A i \in 1..Len(batch) : batch[i] \in Payloads /\ next_event_offset[st] + i - 1 \in Nat \ {0}
    BY <1>1, ElementOfSeq
  <2> QED
    BY <2>1 DEF NewRows, EventRow
<1>3. next_event_offset' \in [Streams -> Nat]
  <2>1. next_event_offset[st] + Len(batch) \in Nat
    BY <1>1
  <2> QED
    BY <2>1 DEF AppendRows, StreamTypeOK
<1>4. \A rows : Retained(rows, at) \subseteq rows
  BY DEF Retained
<1>5. stream_events[st] \cup NewRows(st, at, batch) \subseteq EventRow
  BY <1>2 DEF StreamTypeOK
<1>6. stream_events' \in [Streams -> SUBSET EventRow]
  <2>1. stream_events'[st] \subseteq EventRow
    BY <1>4, <1>5 DEF AppendRows, StreamTypeOK
  <2> QED
    BY <2>1 DEF AppendRows, StreamTypeOK
<1> QED
  BY <1>3, <1>6 DEF StreamTypeOK

LEMMA StoreTyped ==
  ASSUME StoreTypeOK, NEW s \in Sources
  PROVE  /\ \A status \in Statuses : SetStatus(s, status) => StoreTypeOK'
         /\ \A spec \in Specs, run \in Runs : UpsertSource(s, spec, run) => StoreTypeOK'
         /\ \A run : ClearPollCheckpoint(s, run) => StoreTypeOK'
         /\ DeleteSource(s) => StoreTypeOK'
<1>1. StreamIdOf[s] \in Streams
  BY SourcesAssumption
<1>2. HasRow(s) => managed_sources[s] \in SourceRow
  BY DEF StoreTypeOK, HasRow
<1>3. ASSUME UNCHANGED streamVars PROVE StreamTypeOK'
  BY <1>3 DEF StoreTypeOK, StreamTypeOK, streamVars
<1>4. ASSUME NEW row \in SourceRow \cup {NoRow}, managed_sources' = [managed_sources EXCEPT ![s] = row]
      PROVE  managed_sources' \in [Sources -> SourceRow \cup {NoRow}]
  BY <1>4 DEF StoreTypeOK
<1>5. ASSUME NEW status \in Statuses, SetStatus(s, status) PROVE StoreTypeOK'
  <2>1. CASE HasRow(s)
    <3>1. [managed_sources[s] EXCEPT !.status = status] \in SourceRow
      BY <1>2, <2>1 DEF SourceRow
    <3>2. managed_sources' = [managed_sources EXCEPT ![s] = [managed_sources[s] EXCEPT !.status = status]]
      BY <1>5, <2>1 DEF SetStatus
    <3> QED
      BY <1>3, <1>4, <1>5, <3>1, <3>2 DEF SetStatus, StoreTypeOK
  <2>2. CASE ~HasRow(s)
    BY <1>3, <1>5, <2>2 DEF SetStatus, StoreTypeOK
  <2> QED
    BY <2>1, <2>2
<1>6. ASSUME NEW spec \in Specs, NEW run \in Runs, UpsertSource(s, spec, run) PROVE StoreTypeOK'
  <2>1. [spec |-> spec, run |-> run, status |-> "starting", checkpoint |-> NoCheckpoint] \in SourceRow
    BY StatusNames DEF SourceRow
  <2>2. StreamTypeOK'
    BY <1>1, <1>6 DEF UpsertSource, CreateStream, StoreTypeOK, StreamTypeOK
  <2> QED
    BY <1>4, <1>6, <2>1, <2>2 DEF UpsertSource, StoreTypeOK
<1>7. ASSUME NEW run, ClearPollCheckpoint(s, run) PROVE StoreTypeOK'
  <2>1. CASE HasRun(s, run)
    <3>1. [managed_sources[s] EXCEPT !.checkpoint = NoCheckpoint] \in SourceRow
      BY <1>2, <2>1 DEF SourceRow, HasRun
    <3>2. managed_sources' =
            [managed_sources EXCEPT ![s] = [managed_sources[s] EXCEPT !.checkpoint = NoCheckpoint]]
      BY <1>7, <2>1 DEF ClearPollCheckpoint
    <3> QED
      BY <1>3, <1>4, <1>7, <3>1, <3>2 DEF ClearPollCheckpoint, StoreTypeOK
  <2>2. CASE ~HasRun(s, run)
    BY <1>3, <1>7, <2>2 DEF ClearPollCheckpoint, StoreTypeOK
  <2> QED
    BY <2>1, <2>2
<1>8. ASSUME DeleteSource(s) PROVE StoreTypeOK'
  BY <1>3, <1>4, <1>8 DEF DeleteSource, StoreTypeOK
<1> QED
  BY <1>5, <1>6, <1>7, <1>8

\* What the handlers and the runners of a typed state have.
LEMMA TypedParts ==
  ASSUME TypeOK
  PROVE  /\ \A p \in Procs :
              /\ handler[p] \in Handler /\ handler[p].s \in Sources /\ handler[p].spec \in Specs
              /\ handler[p].todo \subseteq [s : Sources, spec : Specs, run : Runs]
              /\ handler[p].pc \in HandlerPcs
         /\ \A s \in Sources : HasRow(s) =>
              /\ managed_sources[s] \in SourceRow /\ managed_sources[s].run \in Runs
              /\ managed_sources[s].spec \in Specs
              /\ managed_sources[s].checkpoint \in Checkpoints \cup {NoCheckpoint}
         /\ next_entry \in Nat \ {0} /\ DOMAIN entry = 1..(next_entry - 1)
         /\ DOMAIN entry \subseteq EntryIds
         /\ \A x \in DOMAIN entry :
              /\ entry[x] \in Entry /\ entry[x].s \in Sources /\ entry[x].spec \in Specs
              /\ entry[x].run \in Runs /\ entry[x].cp \in 0..MaxItems /\ entry[x].got \in 0..MaxItems
              /\ entry[x].view \in Statuses /\ entry[x].aborted \in BOOLEAN
              /\ feed[entry[x].s] \in 0..MaxItems
         /\ Runs \subseteq Nat \ {0}
<1>1. \A h \in Handler : /\ h.s \in Sources /\ h.spec \in Specs /\ h.pc \in HandlerPcs
                         /\ h.todo \subseteq [s : Sources, spec : Specs, run : Runs]
  BY DEF Handler
<1>2. \A e \in Entry : /\ e.s \in Sources /\ e.spec \in Specs
                       /\ e.run \in Runs /\ e.cp \in 0..MaxItems /\ e.got \in 0..MaxItems
                       /\ e.view \in Statuses /\ e.aborted \in BOOLEAN
  BY DEF Entry
<1>3. \A s \in Sources : HasRow(s) =>
        /\ managed_sources[s] \in SourceRow /\ managed_sources[s].run \in Runs
        /\ managed_sources[s].spec \in Specs
        /\ managed_sources[s].checkpoint \in Checkpoints \cup {NoCheckpoint}
  BY DEF TypeOK, StoreTypeOK, HasRow, SourceRow
<1>4. /\ next_entry \in Nat \ {0} /\ DOMAIN entry = 1..(next_entry - 1)
      /\ DOMAIN entry \subseteq EntryIds
  BY ManagerAssumption DEF TypeOK, EntryIds
<1>5. \A x \in DOMAIN entry : entry[x] \in Entry
  BY DEF TypeOK
<1>6. Runs \subseteq Nat \ {0}
  BY ManagerAssumption
<1>7. \A p \in Procs : handler[p] \in Handler
  BY DEF TypeOK
<1>8. \A s \in Sources : feed[s] \in 0..MaxItems
  BY DEF TypeOK
<1> QED
  BY <1>1, <1>2, <1>3, <1>4, <1>5, <1>6, <1>7, <1>8

LEMMA HandlersTyped == ASSUME FenceInv, Next PROVE handler' \in [Procs -> Handler]
<1>0. TypeOK /\ handler \in [Procs -> Handler] /\ HandlersHaveEntries
  BY DEF FenceInv, TypeOK
<1>1. ASSUME NEW p \in Procs, NEW h \in Handler, handler' = [handler EXCEPT ![p] = h]
      PROVE  handler' \in [Procs -> Handler]
  BY <1>0, <1>1
<1>2. ASSUME NEW p \in Procs, NEW pc \in HandlerPcs, Goto(p, pc)
      PROVE  handler' \in [Procs -> Handler]
  <2>1. [handler[p] EXCEPT !.pc = pc] \in Handler
    BY <1>0, HandlerMoves
  <2>2. handler' = [handler EXCEPT ![p] = [handler[p] EXCEPT !.pc = pc]]
    BY <1>2 DEF Goto
  <2> QED
    BY <1>1, <2>1, <2>2
<1>3. ASSUME NEW p \in Procs, Answer(p) PROVE handler' \in [Procs -> Handler]
  BY <1>1, <1>3, IdleFields DEF Answer
<1>4. ASSUME NEW p \in Procs, Ensured(p) PROVE handler' \in [Procs -> Handler]
  <2>1. handler[p].todo \in SUBSET [s : Sources, spec : Specs, run : Runs]
    BY <1>0, TypedParts
  <2>2. [Idle EXCEPT !.pc = "boot_next", !.op = "resume", !.todo = handler[p].todo] \in Handler
    BY <2>1, IdleFields, HandlerNames
  <2> QED
    BY <1>1, <1>3, <1>4, <2>2 DEF Ensured
<1>5. ASSUME NEW p \in Procs, AfterStop(p) PROVE handler' \in [Procs -> Handler]
  BY <1>2, <1>3, <1>5, HandlerNames DEF AfterStop
<1>6. ASSUME NEW p \in Procs, NEW pc \in HandlerPcs, NEW run \in Runs,
             handler' = [handler EXCEPT ![p].pc = pc, ![p].run = run]
      PROVE  handler' \in [Procs -> Handler]
  <2>1. [handler[p] EXCEPT !.pc = pc, !.run = run] \in Handler
    BY <1>0, HandlerMoves
  <2>2. handler' = [handler EXCEPT ![p] = [handler[p] EXCEPT !.pc = pc, !.run = run]]
    BY <1>0, <1>6
  <2> QED
    BY <1>1, <2>1, <2>2
<1>7. ASSUME NEW p \in Procs, NEW pc \in HandlerPcs, NEW x \in EntryIds,
             handler' = [handler EXCEPT ![p].pc = pc, ![p].x = x]
      PROVE  handler' \in [Procs -> Handler]
  <2>1. [handler[p] EXCEPT !.pc = pc, !.x = x] \in Handler
    BY <1>0, HandlerMoves
  <2>2. handler' = [handler EXCEPT ![p] = [handler[p] EXCEPT !.pc = pc, !.x = x]]
    BY <1>0, <1>7
  <2> QED
    BY <1>1, <2>1, <2>2
<1>8. ASSUME NEW c \in Clients, NEW op \in {"ensure", "stop", "delete"}, NEW s \in Sources,
             NEW spec \in Specs, Request(c, op, s, spec)
      PROVE  handler' \in [Procs -> Handler]
  <2> DEFINE h == [pc |-> IF op = "ensure" THEN "get" ELSE "stop_get",
                   op |-> op, s |-> s, spec |-> spec, run |-> NoRun,
                   x |-> NoEntry, todo |-> {}]
  <2>1. (IF op = "ensure" THEN "get" ELSE "stop_get") \in HandlerPcs
    BY HandlerNames
  <2>2. h \in Handler
    BY <2>1 DEF Handler
  <2>3. handler' = [handler EXCEPT ![c] = h]
    BY <1>8 DEF Request
  <2> QED
    BY <1>1, <2>2, <2>3 DEF Procs
<1>9. ASSUME NEW p \in Procs, EnsureGet(p) PROVE handler' \in [Procs -> Handler]
  <2>1. handler[p].s \in Sources
    BY <1>0, TypedParts
  <2>2. CASE Goto(p, "upsert") \/ Goto(p, "stop_get")
    BY <1>2, <2>2, HandlerNames
  <2>3. CASE /\ HasRow(handler[p].s)
             /\ handler' = [handler EXCEPT ![p].pc = "check",
                                           ![p].run = managed_sources[handler[p].s].run]
    BY <1>0, <1>6, <2>1, <2>3, TypedParts, HandlerNames
  <2> QED
    BY <1>9, <2>2, <2>3 DEF EnsureGet
<1>10. ASSUME NEW p \in Procs, EnsureUpsert(p) PROVE handler' \in [Procs -> Handler]
  BY <1>6, <1>10, HandlerNames DEF EnsureUpsert
<1>11. ASSUME NEW p \in Procs, RunnerCheck(p) \/ RunnerSetTask(p) PROVE handler' \in [Procs -> Handler]
  BY <1>2, <1>4, <1>11, HandlerNames DEF RunnerCheck, RunnerSetTask
<1>12. ASSUME NEW p \in Procs, RunnerInsert(p) PROVE handler' \in [Procs -> Handler]
  BY <1>7, <1>12, HandlerNames DEF RunnerInsert
<1>13. ASSUME NEW p \in Procs, StopGet(p) PROVE handler' \in [Procs -> Handler]
  <2>1. handler[p].s \in Sources
    BY <1>0, TypedParts
  <2>2. CASE AfterStop(p)
    BY <1>5, <2>2
  <2>3. CASE /\ HasRow(handler[p].s)
             /\ handler' = [handler EXCEPT ![p].pc = "stop_lookup",
                                           ![p].run = managed_sources[handler[p].s].run]
    BY <1>0, <1>6, <2>1, <2>3, TypedParts, HandlerNames
  <2> QED
    BY <1>13, <2>2, <2>3 DEF StopGet
<1>14. ASSUME NEW p \in Procs, StopLookup(p) PROVE handler' \in [Procs -> Handler]
  <2>1. handler[p].s \in Sources /\ (entries[handler[p].s] # NoEntry => entries[handler[p].s] \in EntryIds)
    BY <1>0, TypedParts DEF TypeOK
  <2> QED
    BY <1>2, <1>7, <1>14, <2>1, HandlerNames DEF StopLookup
<1>15. ASSUME NEW p \in Procs,
              StopSignal(p) \/ StopTake(p) \/ StopJoined(p) \/ StopAborts(p) \/ StopRemove(p) \/ StopClear(p)
       PROVE  handler' \in [Procs -> Handler]
  BY <1>2, <1>15, HandlerNames DEF StopSignal, StopTake, StopJoined, StopAborts, StopRemove, StopClear
<1>16. ASSUME NEW p \in Procs, StopCheckpoint(p) \/ DeleteRow(p) \/ DeleteEntry(p)
       PROVE  handler' \in [Procs -> Handler]
  BY <1>2, <1>3, <1>5, <1>16, HandlerNames DEF StopCheckpoint, DeleteRow, DeleteEntry
<1>17. ASSUME Crash PROVE handler' \in [Procs -> Handler]
  <2>1. [Idle EXCEPT !.pc = "boot_load", !.op = "resume"] \in Handler
    BY IdleFields, HandlerNames DEF Handler
  <2> QED
    BY <1>17, <2>1, IdleFields DEF Crash
<1>18. Boot \in Procs
  BY DEF Procs
<1>19. ASSUME BootLoad PROVE handler' \in [Procs -> Handler]
  <2> DEFINE todo == {[s |-> s, spec |-> managed_sources[s].spec, run |-> managed_sources[s].run] :
                        s \in {u \in Sources : HasRow(u) /\ managed_sources[u].status # "stopped"}}
  <2>1. todo \in SUBSET [s : Sources, spec : Specs, run : Runs]
    BY <1>0, TypedParts
  <2>2. handler' = [handler EXCEPT ![Boot].pc = "boot_next", ![Boot].todo = todo]
    BY <1>19 DEF BootLoad
  <2> HIDE DEF todo
  <2>3. [handler[Boot] EXCEPT !.pc = "boot_next", !.todo = todo] \in Handler
    BY <1>0, <1>18, <2>1, HandlerMoves, HandlerNames
  <2>4. handler' = [handler EXCEPT ![Boot] = [handler[Boot] EXCEPT !.pc = "boot_next", !.todo = todo]]
    BY <1>0, <1>18, <2>2
  <2> QED
    BY <1>1, <1>18, <2>3, <2>4
<1>20. ASSUME BootNext PROVE handler' \in [Procs -> Handler]
  <2>1. CASE handler' = [handler EXCEPT ![Boot] = Idle]
    BY <1>1, <1>18, <2>1, IdleFields
  <2>2. ASSUME NEW record \in handler[Boot].todo,
               handler' = [handler EXCEPT ![Boot] =
                        [handler[Boot] EXCEPT !.pc = "check", !.s = record.s,
                           !.spec = record.spec, !.run = record.run,
                           !.todo = @ \ {record}]]
        PROVE  handler' \in [Procs -> Handler]
    <3> DEFINE h == [handler[Boot] EXCEPT !.pc = "check", !.s = record.s, !.spec = record.spec,
                                          !.run = record.run, !.todo = @ \ {record}]
    <3>1. record \in [s : Sources, spec : Specs, run : Runs] /\ handler[Boot] \in Handler
      BY <1>0, <1>18, TypedParts
    <3>2. record.s \in Sources /\ record.spec \in Specs /\ record.run \in Runs
      BY <3>1
    <3>3. h \in Handler
      BY <3>1, <3>2, HandlerNames DEF Handler
    <3>4. handler' = [handler EXCEPT ![Boot] = h]
      BY <2>2
    <3> HIDE DEF h
    <3> QED
      BY <1>1, <1>18, <3>3, <3>4
  <2> QED
    BY <1>20, <2>1, <2>2 DEF BootNext
<1>21. ASSUME NEW x \in EntryIds, RunnerStep(x) PROVE handler' = handler
  BY <1>21 DEF RunnerStep, RunnerStart, RunnerWake, RunnerFetch, RunnerAppend, RunnerSync,
     RunnerFinal, RunnerFail, RunnerExit, RunnerPushed, RunnerEvent, RunnerEventSync, runnerUnchanged
<1>22. ASSUME NEW s \in Sources, Publish(s) PROVE handler' = handler
  BY <1>22 DEF Publish, managerVars
<1>23. ASSUME NEW p \in Procs, HandlerStep(p) PROVE handler' \in [Procs -> Handler]
  BY <1>9, <1>10, <1>11, <1>12, <1>13, <1>14, <1>15, <1>16, <1>23 DEF HandlerStep
<1>24. ASSUME NEW c \in Clients, NEW s \in Sources,
              \/ \E spec \in Specs : Request(c, "ensure", s, spec)
              \/ \E op \in {"stop", "delete"} : Request(c, op, s, Idle.spec)
       PROVE  handler' \in [Procs -> Handler]
  <2>1. CASE \E spec \in Specs : Request(c, "ensure", s, spec)
    BY <1>8, <2>1
  <2>2. CASE \E op \in {"stop", "delete"} : Request(c, op, s, Idle.spec)
    <3>1. Idle.spec \in Specs
      BY IdleFields
    <3>2. PICK op \in {"stop", "delete"} : Request(c, op, s, Idle.spec)
      BY <2>2
    <3> QED
      BY <1>8, <3>1, <3>2
  <2> QED
    BY <1>24, <2>1, <2>2
<1> QED
  BY <1>0, <1>17, <1>19, <1>20, <1>21, <1>22, <1>23, <1>24 DEF Next

\* A runner keeps its source, its spec and its run, pushes if its spec does,
\* and counts the item of an event.
Moved(e, d) ==
  /\ e \in Entry /\ e.s = d.s /\ e.spec = d.spec /\ e.run = d.run
  /\ e.pc \in Pushing => d.pc \in Pushing \/ d.spec \notin PollSpecs
  /\ e.pc = "event" => e.cp # 0 \/ (d.pc = "event" /\ e.cp = d.cp)
MayGoto(d, pc) ==
  /\ pc \in RunnerPcs /\ pc # "event"
  /\ pc \in Pushing => d.pc \in Pushing \/ d.spec \notin PollSpecs

LEMMA QuietMoves ==
  ASSUME NEW d
  PROVE  /\ MayGoto(d, "wait") /\ MayGoto(d, "fetch") /\ MayGoto(d, "append") /\ MayGoto(d, "sync")
         /\ MayGoto(d, "final") /\ MayGoto(d, "failed") /\ MayGoto(d, "exit") /\ MayGoto(d, "dead")
BY RunnerNames DEF MayGoto, Pushing

LEMMA EntryMoves ==
  ASSUME NEW d \in Entry, NEW pc, MayGoto(d, pc), NEW view \in Statuses, NEW cp \in 0..MaxItems,
         NEW got \in 0..MaxItems
  PROVE  /\ Moved([d EXCEPT !.pc = pc], d)
         /\ Moved([d EXCEPT !.pc = pc, !.view = view], d)
         /\ Moved([d EXCEPT !.pc = pc, !.cp = cp], d)
         /\ Moved([d EXCEPT !.pc = pc, !.view = view, !.cp = cp], d)
         /\ Moved([d EXCEPT !.got = got, !.view = view, !.pc = pc], d)
         /\ Moved([d EXCEPT !.pc = pc, !.holder = NoProc], d)
BY DEF Entry, Moved, MayGoto

LEMMA PushMoves ==
  ASSUME NEW d \in Entry, d.pc \in Pushing, NEW cp \in 0..MaxItems, cp # 0
  PROVE  Moved([d EXCEPT !.pc = "event", !.cp = cp], d)
<1> DEFINE e == [d EXCEPT !.pc = "event", !.cp = cp]
<1>1. e \in Entry
  BY RunnerNames DEF Entry
<1>2. e.s = d.s /\ e.spec = d.spec /\ e.run = d.run /\ e.cp = cp
  BY DEF Entry
<1> HIDE DEF e
<1>3. Moved(e, d)
  BY <1>1, <1>2 DEF Moved
<1> QED
  BY <1>3 DEF e

LEMMA EntryHeld ==
  ASSUME NEW d \in Entry, NEW p \in Procs
  PROVE  /\ Moved([d EXCEPT !.task = "set"], d)
         /\ Moved([d EXCEPT !.stop = TRUE], d)
         /\ Moved([d EXCEPT !.task = "taken", !.holder = p], d)
         /\ Moved([d EXCEPT !.holder = NoProc], d)
         /\ Moved([d EXCEPT !.aborted = TRUE, !.holder = NoProc], d)
BY DEF Entry, Moved

\* A step of a runner changes its own entry.
LEMMA RunnerChangesOne ==
  ASSUME TypeOK, NEW x \in EntryIds, RunnerStep(x)
  PROVE  /\ x \in DOMAIN entry /\ next_entry' = next_entry
         /\ \E e : Moved(e, entry[x]) /\ entry' = [entry EXCEPT ![x] = e]
<1>1. x \in DOMAIN entry /\ next_entry' = next_entry
  BY DEF RunnerStep, RunnerStart, RunnerWake, RunnerFetch, RunnerAppend, RunnerSync,
     RunnerFinal, RunnerFail, RunnerExit, RunnerPushed, RunnerEvent, RunnerEventSync,
     runnerUnchanged, Running
<1> DEFINE d == entry[x]
<1>2. /\ d \in Entry /\ d.cp \in 0..MaxItems /\ d.got \in 0..MaxItems /\ d.s \in Sources
      /\ d.aborted \in BOOLEAN
      /\ feed[d.s] \in 0..MaxItems
  BY <1>1, TypedParts
<1> SUFFICES \E e : Moved(e, d) /\ entry' = [entry EXCEPT ![x] = e]
  BY <1>1
<1>3. ASSUME NEW pc, MayGoto(d, pc), RunnerGoto(x, pc)
      PROVE  \E e : Moved(e, d) /\ entry' = [entry EXCEPT ![x] = e]
  <2>1. Moved([d EXCEPT !.pc = pc], d)
    BY <1>2, <1>3, EntryMoves, StatusNames
  <2>2. entry' = [entry EXCEPT ![x] = [d EXCEPT !.pc = pc]]
    BY <1>3 DEF RunnerGoto
  <2> QED
    BY <2>1, <2>2
<1>4. ASSUME NEW pc, MayGoto(d, pc), RunnerReturn(x, pc)
      PROVE  \E e : Moved(e, d) /\ entry' = [entry EXCEPT ![x] = e]
  <2>1. MayGoto(d, "dead")
    BY QuietMoves
  <2> QED
    BY <1>3, <1>4, <2>1 DEF RunnerReturn
<1>5. MayGoto(d, "final") /\ MayGoto(d, "failed") /\ MayGoto(d, "fetch") /\ MayGoto(d, "wait")
      /\ MayGoto(d, "sync") /\ MayGoto(d, "append") /\ MayGoto(d, "exit") /\ MayGoto(d, "dead")
  BY QuietMoves
<1>6. CASE RunnerStart(x)
  <2> DEFINE load == LoadPollCheckpoint(d.s, d.run)
             cp == IF load = NoCheckpoint THEN 0 ELSE load
  <2>1. cp \in 0..MaxItems
    <3>1. 0 \in 0..MaxItems
      BY ManagerAssumption
    <3>2. load \in Checkpoints \cup {NoCheckpoint}
      BY <1>2, TypedParts DEF LoadPollCheckpoint, HasRun
    <3> QED
      BY <3>1, <3>2, ManagerAssumption
  <2>2. CASE RunnerGoto(x, "failed")
    BY <1>3, <1>5, <2>2
  <2>3. CASE /\ d.spec \in PollSpecs
             /\ entry' = [entry EXCEPT ![x].pc = "wait", ![x].view = "running", ![x].cp = cp]
    <3> HIDE DEF cp
    <3>1. entry' = [entry EXCEPT ![x] = [d EXCEPT !.pc = "wait", !.view = "running", !.cp = cp]]
      BY <1>1, <2>3
    <3>2. Moved([d EXCEPT !.pc = "wait", !.view = "running", !.cp = cp], d)
      BY <1>2, <1>5, <2>1, EntryMoves, StatusNames
    <3> QED
      BY <3>1, <3>2
  <2>4. CASE /\ d.spec \notin PollSpecs
             /\ entry' = [entry EXCEPT ![x].pc = "stream", ![x].view = "running", ![x].cp = feed[d.s]]
    <3>1. entry' = [entry EXCEPT ![x] = [d EXCEPT !.pc = "stream", !.view = "running", !.cp = feed[d.s]]]
      BY <1>1, <2>4
    <3>2. MayGoto(d, "stream")
      BY <2>4, RunnerNames DEF MayGoto
    <3>3. Moved([d EXCEPT !.pc = "stream", !.view = "running", !.cp = feed[d.s]], d)
      BY <1>2, <3>2, EntryMoves, StatusNames
    <3> QED
      BY <3>1, <3>3
  <2> QED
    BY <1>6, <2>2, <2>3, <2>4 DEF RunnerStart
<1>7. ASSUME entry' = [entry EXCEPT ![x].pc = "final", ![x].view = "stopped"]
      PROVE  \E e : Moved(e, d) /\ entry' = [entry EXCEPT ![x] = e]
  <2>1. entry' = [entry EXCEPT ![x] = [d EXCEPT !.pc = "final", !.view = "stopped"]]
    BY <1>1, <1>7
  <2>2. Moved([d EXCEPT !.pc = "final", !.view = "stopped"], d)
    BY <1>2, <1>5, EntryMoves, StatusNames
  <2> QED
    BY <2>1, <2>2
<1>8. CASE RunnerWake(x)
  BY <1>3, <1>5, <1>7, <1>8 DEF RunnerWake
<1>9. CASE RunnerFetch(x)
  <2>1. CASE RunnerGoto(x, "failed")
    BY <1>3, <1>5, <2>1
  <2>2. CASE entry' = [entry EXCEPT ![x].view = "reconnecting", ![x].pc = "sync"]
    <3>1. entry' = [entry EXCEPT ![x] = [d EXCEPT !.pc = "sync", !.view = "reconnecting"]]
      BY <1>1, <1>2, <2>2 DEF Entry
    <3>2. Moved([d EXCEPT !.pc = "sync", !.view = "reconnecting"], d)
      BY <1>2, <1>5, EntryMoves, StatusNames
    <3> QED
      BY <3>1, <3>2
  <2>3. ASSUME NEW pc \in {"append", "sync"},
               entry' = [entry EXCEPT ![x].got = feed[d.s], ![x].view = "running", ![x].pc = pc]
        PROVE  entry' = [entry EXCEPT ![x] = [d EXCEPT !.got = feed[d.s], !.view = "running",
                                                       !.pc = pc]]
               /\ Moved([d EXCEPT !.got = feed[d.s], !.view = "running", !.pc = pc], d)
    <3>1. entry' = [entry EXCEPT ![x] = [d EXCEPT !.got = feed[d.s], !.view = "running", !.pc = pc]]
      BY <1>1, <2>3
    <3>2. MayGoto(d, pc)
      BY <1>5
    <3>3. Moved([d EXCEPT !.got = feed[d.s], !.view = "running", !.pc = pc], d)
      BY <1>2, <3>2, EntryMoves, StatusNames
    <3> QED
      BY <3>1, <3>3
  <2> QED
    BY <1>9, <2>1, <2>2, <2>3 DEF RunnerFetch
<1>10. CASE RunnerAppend(x)
  <2>1. CASE RunnerReturn(x, "failed")
    BY <1>4, <1>5, <2>1
  <2>2. CASE entry' = [entry EXCEPT ![x].pc = IF d.aborted THEN "dead" ELSE "sync", ![x].cp = d.got]
    <3> DEFINE pc == IF d.aborted THEN "dead" ELSE "sync"
    <3>1. entry' = [entry EXCEPT ![x] = [d EXCEPT !.pc = pc, !.cp = d.got]]
      BY <1>1, <2>2
    <3>2. MayGoto(d, pc)
      BY <1>5
    <3> HIDE DEF pc
    <3>3. Moved([d EXCEPT !.pc = pc, !.cp = d.got], d)
      BY <1>2, <3>2, EntryMoves, StatusNames
    <3> QED
      BY <3>1, <3>3
  <2> QED
    BY <1>10, <2>1, <2>2 DEF RunnerAppend
<1>11. CASE RunnerSync(x) \/ RunnerFinal(x) \/ RunnerFail(x)
  BY <1>4, <1>5, <1>11 DEF RunnerSync, RunnerFinal, RunnerFail
<1>12. CASE RunnerExit(x)
  BY <1>3, <1>5, <1>12 DEF RunnerExit
<1>13. CASE RunnerPushed(x)
  <2>1. d.pc = "stream"
    BY <1>13 DEF RunnerPushed, Running
  <2>2. CASE /\ d.cp < feed[d.s]
             /\ entry' = [entry EXCEPT ![x].pc = "event", ![x].cp = @ + 1]
    <3>1. d.cp + 1 \in 0..MaxItems
      <4>1. ASSUME NEW a \in 0..MaxItems, NEW b \in 0..MaxItems, a < b PROVE a + 1 \in 0..MaxItems
        BY <4>1, ManagerAssumption
      <4> QED
        BY <1>2, <2>2, <4>1
    <3>2. entry' = [entry EXCEPT ![x] = [d EXCEPT !.pc = "event", !.cp = d.cp + 1]]
      BY <1>1, <2>2
    <3>3. Moved([d EXCEPT !.pc = "event", !.cp = d.cp + 1], d)
      <4>1. "event" \in RunnerPcs /\ d.cp + 1 # 0
        BY <1>2, RunnerNames
      <4>2. d.pc \in Pushing
        BY <2>1 DEF Pushing
      <4> QED
        BY <1>2, <3>1, <4>1, <4>2, PushMoves
    <3> QED
      BY <3>2, <3>3
  <2> QED
    BY <1>7, <1>13, <2>2 DEF RunnerPushed
<1>14. CASE RunnerEvent(x) \/ RunnerEventSync(x)
  <2>1. MayGoto(d, "event_sync") /\ MayGoto(d, "stream")
    BY <1>14, RunnerNames DEF RunnerEvent, RunnerEventSync, Running, Pushing, MayGoto
  <2> QED
    BY <1>4, <1>14, <2>1 DEF RunnerEvent, RunnerEventSync
<1> QED
  BY <1>6, <1>8, <1>9, <1>10, <1>11, <1>12, <1>13, <1>14 DEF RunnerStep

\* A step of a handler changes at most one entry, or appends one.
LEMMA HandlerChangesOne ==
  ASSUME FenceInv, NEW p \in Procs, HandlerStep(p), ~RunnerInsert(p)
  PROVE  /\ next_entry' = next_entry
         /\ \/ entry' = entry
            \/ \E x \in DOMAIN entry : \E e : Moved(e, entry[x]) /\ entry' = [entry EXCEPT ![x] = e]
<1>1. next_entry' = next_entry
  BY DEF HandlerStep, EnsureGet, EnsureUpsert, RunnerCheck, RunnerSetTask, StopGet, StopLookup,
     StopSignal, StopTake, StopJoined, StopAborts, StopRemove, StopClear, StopCheckpoint,
     DeleteRow, DeleteEntry
<1> DEFINE x == handler[p].x
           d == entry[x]
<1>2. CASE EnsureGet(p) \/ EnsureUpsert(p) \/ RunnerCheck(p) \/ StopGet(p) \/ StopLookup(p)
           \/ StopRemove(p) \/ StopClear(p) \/ StopCheckpoint(p) \/ DeleteRow(p) \/ DeleteEntry(p)
  <2>1. entry' = entry
    BY <1>2 DEF EnsureGet, EnsureUpsert, RunnerCheck, StopGet, StopLookup, StopRemove, StopClear,
       StopCheckpoint, DeleteRow, DeleteEntry
  <2> QED
    BY <1>1, <2>1
<1>3. ASSUME handler[p].pc \in {"set_task", "stop_signal", "stop_take", "stop_await"}
      PROVE  x \in DOMAIN entry /\ d \in Entry
  BY <1>3, TypedParts DEF FenceInv, HandlersHaveEntries
<1>4. CASE RunnerSetTask(p)
  <2>1. entry' = [entry EXCEPT ![x] = [d EXCEPT !.task = "set"]]
    BY <1>4 DEF RunnerSetTask
  <2>2. x \in DOMAIN entry /\ d \in Entry
    BY <1>3, <1>4 DEF RunnerSetTask, At
  <2>3. Moved([d EXCEPT !.task = "set"], d)
    BY <2>2, EntryHeld
  <2> QED
    BY <1>1, <2>1, <2>2, <2>3
<1>5. CASE StopSignal(p)
  <2>1. entry' = [entry EXCEPT ![x] = [d EXCEPT !.stop = TRUE]]
    BY <1>5 DEF StopSignal
  <2>2. x \in DOMAIN entry /\ d \in Entry
    BY <1>3, <1>5 DEF StopSignal, At
  <2>3. Moved([d EXCEPT !.stop = TRUE], d)
    BY <2>2, EntryHeld
  <2> QED
    BY <1>1, <2>1, <2>2, <2>3
<1>6. CASE StopTake(p)
  <2>1. \/ entry' = [entry EXCEPT ![x].task = "taken", ![x].holder = p]
        \/ entry' = entry
    BY <1>6 DEF StopTake
  <2>2. x \in DOMAIN entry /\ d \in Entry
    BY <1>3, <1>6 DEF StopTake, At
  <2>3. Moved([d EXCEPT !.task = "taken", !.holder = p], d)
    BY <2>2, EntryHeld
  <2>4. \/ entry' = [entry EXCEPT ![x] = [d EXCEPT !.task = "taken", !.holder = p]]
        \/ entry' = entry
    BY <2>1, <2>2
  <2> QED
    BY <1>1, <2>2, <2>3, <2>4
<1>7. CASE StopJoined(p)
  <2>1. entry' = [entry EXCEPT ![x] = [d EXCEPT !.holder = NoProc]]
    BY <1>7 DEF StopJoined
  <2>2. x \in DOMAIN entry /\ d \in Entry
    BY <1>3, <1>7 DEF StopJoined, At
  <2>3. Moved([d EXCEPT !.holder = NoProc], d)
    BY <2>2, EntryHeld
  <2> QED
    BY <1>1, <2>1, <2>2, <2>3
<1>8. CASE StopAborts(p)
  <2>1. PICK e \in Abort(d) : entry' = [entry EXCEPT ![x] = e]
    BY <1>8 DEF StopAborts
  <2>2. x \in DOMAIN entry /\ d \in Entry /\ MayGoto(d, "dead")
    BY <1>3, <1>8, QuietMoves DEF StopAborts, At
  <2>3. /\ Moved([d EXCEPT !.pc = "dead", !.holder = NoProc], d)
        /\ Moved([d EXCEPT !.aborted = TRUE, !.holder = NoProc], d)
    <3>1. 0 \in 0..MaxItems
      BY ManagerAssumption
    <3> QED
      BY <2>2, <3>1, EntryHeld, EntryMoves, StatusNames
  <2>4. Moved(e, d)
    BY <2>1, <2>3 DEF Abort
  <2> QED
    BY <1>1, <2>1, <2>2, <2>4
<1> QED
  BY <1>2, <1>4, <1>5, <1>6, <1>7, <1>8 DEF HandlerStep

LEMMA RunnersKept ==
  ASSUME FenceInv, Next
  PROVE  /\ next_entry' \in 1..(MaxEntries + 1) /\ entry' \in [1..(next_entry' - 1) -> Entry]
         /\ \A x \in DOMAIN entry : x \in DOMAIN entry' /\ Moved(entry'[x], entry[x])
         /\ \A x \in DOMAIN entry' : x \notin DOMAIN entry =>
              /\ x = next_entry
              /\ \E p \in Procs : RunnerInsert(p) /\ entry'[x] = NewEntry(handler[p])
<1>0. TypeOK /\ next_entry \in 1..(MaxEntries + 1) /\ next_entry \in Nat \ {0}
      /\ entry \in [1..(next_entry - 1) -> Entry] /\ DOMAIN entry = 1..(next_entry - 1)
      /\ \A x \in DOMAIN entry : entry[x] \in Entry
  BY TypedParts DEF FenceInv, TypeOK
<1>m. \A d \in Entry : Moved(d, d)
  BY DEF Moved
<1>1. ASSUME next_entry' = next_entry,
             \/ entry' = entry
             \/ \E x \in DOMAIN entry : \E e : Moved(e, entry[x]) /\ entry' = [entry EXCEPT ![x] = e]
      PROVE  /\ next_entry' \in 1..(MaxEntries + 1) /\ entry' \in [1..(next_entry' - 1) -> Entry]
             /\ \A x \in DOMAIN entry : Moved(entry'[x], entry[x])
             /\ DOMAIN entry' = DOMAIN entry
  <2>1. CASE entry' = entry
    BY <1>0, <1>1, <1>m, <2>1
  <2>2. ASSUME NEW x \in DOMAIN entry, NEW e, Moved(e, entry[x]), entry' = [entry EXCEPT ![x] = e]
        PROVE  /\ entry' \in [1..(next_entry' - 1) -> Entry]
               /\ \A y \in DOMAIN entry : Moved(entry'[y], entry[y])
               /\ DOMAIN entry' = DOMAIN entry
    <3>1. e \in Entry
      BY <2>2 DEF Moved
    <3>2. entry' \in [1..(next_entry' - 1) -> Entry]
      BY <1>0, <1>1, <2>2, <3>1
    <3>3. DOMAIN entry' = DOMAIN entry /\ \A y \in DOMAIN entry : entry'[y] = IF y = x THEN e ELSE entry[y]
      BY <2>2
    <3> QED
      BY <1>0, <1>m, <2>2, <3>2, <3>3
  <2> QED
    BY <1>0, <1>1, <2>1, <2>2
<1>2. ASSUME NEW p \in Procs, RunnerInsert(p)
      PROVE  /\ next_entry' \in 1..(MaxEntries + 1) /\ entry' \in [1..(next_entry' - 1) -> Entry]
             /\ DOMAIN entry' = 1..next_entry
             /\ \A x \in DOMAIN entry : entry'[x] = entry[x]
             /\ entry'[next_entry] = NewEntry(handler[p])
  <2>1. NewEntry(handler[p]) \in Entry
    <3>1. handler[p].run \in Runs
      BY <1>2 DEF FenceInv, OneSpecPerRun, RunsAgree, Placing, RunnerInsert, At
    <3>2. handler[p].s \in Sources /\ handler[p].spec \in Specs /\ 0 \in 0..MaxItems
      BY <1>0, TypedParts, ManagerAssumption
    <3> QED
      BY <3>1, <3>2, RunnerNames, StatusNames DEF NewEntry, Entry
  <2>2. /\ entry' = Append(entry, NewEntry(handler[p])) /\ next_entry' = next_entry + 1
        /\ next_entry \in 1..MaxEntries
    BY <1>2 DEF RunnerInsert, EntryIds
  <2>3. next_entry' \in 1..(MaxEntries + 1)
    BY <1>0, <2>2, ManagerAssumption
  <2>4. entry \in Seq(Entry) /\ Len(entry) = next_entry - 1
    <3>1. next_entry - 1 \in Nat
      BY <1>0
    <3> QED
      BY <1>0, <3>1
  <2>5. /\ Append(entry, NewEntry(handler[p])) \in Seq(Entry)
        /\ Len(Append(entry, NewEntry(handler[p]))) = Len(entry) + 1
        /\ \A i \in 1..Len(entry) : Append(entry, NewEntry(handler[p]))[i] = entry[i]
        /\ Append(entry, NewEntry(handler[p]))[Len(entry) + 1] = NewEntry(handler[p])
    BY <2>1, <2>4, AppendProperties
  <2>6. (next_entry - 1) + 1 = next_entry /\ next_entry' - 1 = next_entry
    BY <1>0, <2>2
  <2>7. entry' \in [1..next_entry -> Entry]
    <3>1. /\ DOMAIN Append(entry, NewEntry(handler[p])) = 1..next_entry
          /\ \A i \in 1..next_entry : Append(entry, NewEntry(handler[p]))[i] \in Entry
      BY <2>4, <2>5, <2>6, LenProperties, ElementOfSeq
    <3> QED
      BY <2>2, <2>4, <2>5, <2>6, LenProperties
  <2> QED
    BY <1>0, <2>2, <2>3, <2>4, <2>5, <2>6, <2>7
<1>3. CASE \E p \in Procs : RunnerInsert(p)
  <2>1. PICK p \in Procs : RunnerInsert(p)
    BY <1>3
  <2>2. \A x \in 1..next_entry : x \notin 1..(next_entry - 1) => x = next_entry
    BY <1>0
  <2>3. \A x \in 1..(next_entry - 1) : x \in 1..next_entry
    BY <1>0
  <2> QED
    BY <1>0, <1>2, <1>m, <2>1, <2>2, <2>3
<1>4. CASE Crash
  <2>1. next_entry' = next_entry
        /\ entry' = [x \in DOMAIN entry |-> [entry[x] EXCEPT !.pc = "dead", !.holder = NoProc]]
    BY <1>4 DEF Crash
  <2>2. \A d \in Entry : Moved([d EXCEPT !.pc = "dead", !.holder = NoProc], d)
    <3>1. 0 \in 0..MaxItems
      BY ManagerAssumption
    <3> QED
      BY <3>1, QuietMoves, EntryMoves, StatusNames
  <2>3. \A d \in Entry : [d EXCEPT !.pc = "dead", !.holder = NoProc] \in Entry
    BY <2>2 DEF Moved
  <2> QED
    BY <1>0, <2>1, <2>2, <2>3
<1>5. CASE ~Crash /\ ~\E p \in Procs : RunnerInsert(p)
  <2>1. /\ next_entry' = next_entry
        /\ \/ entry' = entry
           \/ \E x \in DOMAIN entry : \E e : Moved(e, entry[x]) /\ entry' = [entry EXCEPT ![x] = e]
    <3>1. ASSUME NEW p \in Procs, HandlerStep(p) PROVE <2>1!:
      BY <1>5, <3>1, HandlerChangesOne
    <3>2. ASSUME NEW x \in EntryIds, RunnerStep(x) PROVE <2>1!:
      BY <1>0, <3>2, RunnerChangesOne
    <3>3. ASSUME \/ BootLoad \/ BootNext
                 \/ \E c \in Clients, s \in Sources : \E op, spec : Request(c, op, s, spec)
                 \/ \E s \in Sources : Publish(s)
          PROVE  <2>1!:
      BY <3>3 DEF BootLoad, BootNext, Request, Publish, managerVars
    <3> QED
      BY <1>5, <3>1, <3>2, <3>3 DEF Next
  <2> QED
    BY <1>1, <2>1
<1> QED
  BY <1>3, <1>4, <1>5

\* The items of a poll are payloads of the runner's run.
LEMMA ItemsTyped ==
  ASSUME TypeOK, NEW x \in DOMAIN entry
  PROVE  /\ NewItems(x) \in Seq(Payloads)
         /\ \A i \in 1..Len(NewItems(x)) :
              NewItems(x)[i] = [run |-> entry[x].run, item |-> entry[x].cp + i]
         /\ Len(NewItems(x)) = IF entry[x].got >= entry[x].cp THEN entry[x].got - entry[x].cp ELSE 0
<1> DEFINE n == IF entry[x].got >= entry[x].cp THEN entry[x].got - entry[x].cp ELSE 0
<1>1. entry[x].run \in Runs /\ entry[x].cp \in 0..MaxItems /\ entry[x].got \in 0..MaxItems
  BY TypedParts
<1>2. n \in Nat /\ 1..(entry[x].got - entry[x].cp) = 1..n
  BY <1>1, ManagerAssumption
<1>3. NewItems(x) = [i \in 1..n |-> [run |-> entry[x].run, item |-> entry[x].cp + i]]
  BY <1>2 DEF NewItems
<1>4. ASSUME NEW i \in 1..n PROVE entry[x].cp + i \in 1..MaxItems
  BY <1>1, ManagerAssumption
<1>5. \A i \in 1..n : [run |-> entry[x].run, item |-> entry[x].cp + i] \in Payloads
  BY <1>1, <1>4, ManagerAssumption
<1> HIDE DEF n
<1>6. NewItems(x) \in [1..n -> Payloads]
  BY <1>3, <1>5
<1>7. NewItems(x) \in Seq(Payloads) /\ Len(NewItems(x)) = n
  BY <1>2, <1>6
<1> QED
  BY <1>3, <1>7 DEF n

LEMMA StoreTypesKept == ASSUME FenceInv, Next PROVE StoreTypeOK'
<1>0. TypeOK /\ StoreTypeOK /\ StreamTypeOK
  BY DEF FenceInv, TypeOK, StoreTypeOK
<1>1. ASSUME UNCHANGED storeVars PROVE StoreTypeOK'
  BY <1>0, <1>1 DEF storeVars, streamVars, StoreTypeOK, StreamTypeOK
<1>2. ASSUME NEW p \in Procs, EnsureUpsert(p) PROVE StoreTypeOK'
  BY <1>0, <1>2, StoreTyped, TypedParts DEF EnsureUpsert
<1>3. ASSUME NEW p \in Procs, StopClear(p) PROVE StoreTypeOK'
  BY <1>0, <1>3, StoreTyped, TypedParts, StatusNames DEF StopClear, ClearSourceJob
<1>4. ASSUME NEW p \in Procs, StopCheckpoint(p) \/ DeleteRow(p) PROVE StoreTypeOK'
  BY <1>0, <1>4, StoreTyped, TypedParts DEF StopCheckpoint, DeleteRow
<1>5. ASSUME NEW p \in Procs, HandlerStep(p),
             ~EnsureUpsert(p), ~StopClear(p), ~StopCheckpoint(p), ~DeleteRow(p)
      PROVE  UNCHANGED storeVars
  BY <1>5 DEF HandlerStep, EnsureGet, RunnerCheck, RunnerInsert, RunnerSetTask, StopGet, StopLookup,
     StopSignal, StopTake, StopJoined, StopAborts, StopRemove, DeleteEntry
<1>6. ASSUME NEW x \in EntryIds, RunnerSync(x) \/ RunnerFinal(x) \/ RunnerFail(x) \/ RunnerEventSync(x)
      PROVE  StoreTypeOK'
  <2>1. x \in DOMAIN entry
    BY <1>6 DEF RunnerSync, RunnerFinal, RunnerFail, RunnerEventSync, Running
  <2>2. entry[x].s \in Sources /\ entry[x].view \in Statuses
    BY <1>0, <2>1, TypedParts
  <2>3. SetStatus(entry[x].s, entry[x].view) \/ SetStatus(entry[x].s, "failed")
    BY <1>6 DEF RunnerSync, RunnerFinal, RunnerFail, RunnerEventSync, UpdateSourceRuntime, ClearSourceJob
  <2> QED
    BY <1>0, <2>2, <2>3, StoreTyped, StatusNames
<1>7. ASSUME NEW x \in EntryIds, RunnerAppend(x) PROVE StoreTypeOK'
  <2>1. x \in DOMAIN entry
    BY <1>7 DEF RunnerAppend, Running
  <2>2. /\ entry[x].s \in Sources /\ NewItems(x) \in Seq(Payloads) /\ entry[x].got \in 0..MaxItems
        /\ StreamIdOf[entry[x].s] \in Streams
    BY <1>0, <2>1, TypedParts, ItemsTyped, SourcesAssumption
  <2>3. CASE UNCHANGED storeVars
    BY <1>1, <2>3
  <2>4. ASSUME NEW at \in Times,
               AppendEventsAndStorePollCheckpoint(entry[x].s, entry[x].run, at, NewItems(x), entry[x].got)
        PROVE  StoreTypeOK'
    <3>1. HasRow(entry[x].s) /\ AppendRows(StreamIdOf[entry[x].s], at, NewItems(x))
      BY <2>4 DEF AppendEventsAndStorePollCheckpoint, HasRun
    <3>2. next_event_offset[StreamIdOf[entry[x].s]] # 0
      BY <2>2, <3>1 DEF FenceInv, EventsKnown, StreamExists
    <3>3. StreamTypeOK'
      BY <1>0, <2>2, <3>1, <3>2, AppendTyped
    <3>4. managed_sources[entry[x].s] \in SourceRow
      BY <1>0, <2>2, <3>1, TypedParts
    <3>5. [managed_sources[entry[x].s] EXCEPT !.checkpoint = entry[x].got] \in SourceRow
      BY <2>2, <3>4, ManagerAssumption DEF SourceRow
    <3>6. managed_sources' = [managed_sources EXCEPT ![entry[x].s] =
                                [managed_sources[entry[x].s] EXCEPT !.checkpoint = entry[x].got]]
      BY <2>4 DEF AppendEventsAndStorePollCheckpoint
    <3> QED
      BY <1>0, <3>3, <3>5, <3>6 DEF StoreTypeOK
  <2> QED
    BY <1>7, <2>3, <2>4 DEF RunnerAppend
<1>8. ASSUME NEW x \in EntryIds, RunnerEvent(x) PROVE StoreTypeOK'
  <2>1. x \in DOMAIN entry /\ entry[x].pc = "event" /\ managed_sources' = managed_sources
    BY <1>8 DEF RunnerEvent, Running
  <2>2. PICK at \in Times :
          AppendEvent(StreamIdOf[entry[x].s], at, [run |-> entry[x].run, item |-> entry[x].cp])
    BY <1>8 DEF RunnerEvent
  <2>3. StreamIdOf[entry[x].s] \in Streams /\ entry[x].run \in Runs /\ entry[x].cp \in 0..MaxItems
    BY <1>0, <2>1, TypedParts, SourcesAssumption
  <2>4. entry[x].cp # 0
    BY <2>1 DEF FenceInv, EventsCounted
  <2>5. [run |-> entry[x].run, item |-> entry[x].cp] \in Payloads
    <3>1. entry[x].cp \in 1..MaxItems
      BY <2>3, <2>4, ManagerAssumption
    <3> QED
      BY <2>3, <3>1, ManagerAssumption
  <2>6. <<[run |-> entry[x].run, item |-> entry[x].cp]>> \in Seq(Payloads)
    BY <2>5
  <2>7. StreamTypeOK'
    BY <1>0, <2>2, <2>3, <2>6, AppendTyped DEF AppendEvent, StreamExists
  <2> QED
    BY <1>0, <2>1, <2>7 DEF StoreTypeOK
<1>9. ASSUME NEW x \in EntryIds,
             RunnerStart(x) \/ RunnerWake(x) \/ RunnerFetch(x) \/ RunnerExit(x) \/ RunnerPushed(x)
      PROVE  UNCHANGED storeVars
  BY <1>9 DEF RunnerStart, RunnerWake, RunnerFetch, RunnerExit, RunnerPushed
<1>10. ASSUME \/ Crash \/ BootLoad \/ BootNext
              \/ \E c \in Clients, s \in Sources : \E op, spec : Request(c, op, s, spec)
              \/ \E s \in Sources : Publish(s)
       PROVE  UNCHANGED storeVars
  BY <1>10 DEF Crash, BootLoad, BootNext, Request, Publish
<1>11. ASSUME NEW x \in EntryIds, RunnerStep(x) PROVE StoreTypeOK'
  BY <1>1, <1>6, <1>7, <1>8, <1>9, <1>11 DEF RunnerStep
<1>12. ASSUME NEW p \in Procs, HandlerStep(p) PROVE StoreTypeOK'
  BY <1>1, <1>2, <1>3, <1>4, <1>5, <1>12
<1> QED
  BY <1>1, <1>10, <1>11, <1>12 DEF Next

\* A step clears the map's place of a source, puts a new entry in it, or clears
\* it all.
LEMMA MapChanges ==
  ASSUME FenceInv, Next
  PROVE  \/ entries' = entries
         \/ entries' = [s \in Sources |-> NoEntry]
         \/ \E s \in Sources : entries' = [entries EXCEPT ![s] = NoEntry]
         \/ \E p \in Procs : RunnerInsert(p) /\ entries' = [entries EXCEPT ![handler[p].s] = next_entry]
<1>0. TypeOK
  BY DEF FenceInv
<1>1. ASSUME NEW p \in Procs, HandlerStep(p)
      PROVE  \/ entries' = entries
             \/ entries' = [entries EXCEPT ![handler[p].s] = NoEntry]
             \/ RunnerInsert(p) /\ entries' = [entries EXCEPT ![handler[p].s] = next_entry]
  BY <1>1 DEF HandlerStep, EnsureGet, EnsureUpsert, RunnerCheck, RunnerInsert, RunnerSetTask, StopGet,
     StopLookup, StopSignal, StopTake, StopJoined, StopAborts, StopRemove, StopClear, StopCheckpoint,
     DeleteRow, DeleteEntry
<1>2. ASSUME NEW x \in EntryIds, RunnerStep(x)
      PROVE  x \in DOMAIN entry /\ (entries' = entries \/ entries' = [entries EXCEPT ![entry[x].s] = NoEntry])
  BY <1>2 DEF RunnerStep, RunnerStart, RunnerWake, RunnerFetch, RunnerAppend, RunnerSync,
     RunnerFinal, RunnerFail, RunnerExit, RunnerPushed, RunnerEvent, RunnerEventSync, Running
<1>3. ASSUME \/ BootLoad \/ BootNext
             \/ \E c \in Clients, s \in Sources : \E op, spec : Request(c, op, s, spec)
             \/ \E s \in Sources : Publish(s)
      PROVE  entries' = entries
  BY <1>3 DEF BootLoad, BootNext, Request, Publish, managerVars
<1>4. Crash => entries' = [s \in Sources |-> NoEntry]
  BY DEF Crash
<1>5. ASSUME NEW p \in Procs, HandlerStep(p)
      PROVE  \/ entries' = entries
             \/ \E s \in Sources : entries' = [entries EXCEPT ![s] = NoEntry]
             \/ \E q \in Procs : RunnerInsert(q) /\ entries' = [entries EXCEPT ![handler[q].s] = next_entry]
  <2>1. handler[p].s \in Sources
    BY <1>0, TypedParts
  <2> QED
    BY <1>1, <1>5, <2>1
<1>6. ASSUME NEW x \in EntryIds, RunnerStep(x)
      PROVE  entries' = entries \/ \E s \in Sources : entries' = [entries EXCEPT ![s] = NoEntry]
  <2>1. entry[x].s \in Sources
    BY <1>0, <1>2, <1>6, TypedParts
  <2> QED
    BY <1>2, <1>6, <2>1
<1> QED
  BY <1>3, <1>4, <1>5, <1>6 DEF Next

LEMMA TypesKept == ASSUME FenceInv, Next PROVE TypeOK'
<1>0. TypeOK
  BY DEF FenceInv
<1>1. StoreTypeOK'
  BY StoreTypesKept
<1>2. handler' \in [Procs -> Handler]
  BY HandlersTyped
<1>3. next_entry' \in 1..(MaxEntries + 1) /\ entry' \in [1..(next_entry' - 1) -> Entry]
  BY RunnersKept
<1>4. entries' \in [Sources -> EntryIds \cup {NoEntry}]
  <2>1. entries \in [Sources -> EntryIds \cup {NoEntry}]
    BY <1>0 DEF TypeOK
  <2>2. \A p \in Procs : RunnerInsert(p) => next_entry \in EntryIds
    BY DEF RunnerInsert
  <2> QED
    BY <2>1, <2>2, MapChanges
<1>5. next_run' \in Nat \ {0}
  <2>1. next_run' = next_run \/ next_run' = next_run + 1
    <3>1. \A p \in Procs : HandlerStep(p) => next_run' = next_run \/ next_run' = next_run + 1
      BY DEF HandlerStep, EnsureGet, EnsureUpsert, RunnerCheck, RunnerInsert, RunnerSetTask, StopGet,
         StopLookup, StopSignal, StopTake, StopJoined, StopAborts, StopRemove, StopClear,
         StopCheckpoint, DeleteRow, DeleteEntry
    <3>2. \A x \in EntryIds : RunnerStep(x) => next_run' = next_run
      BY DEF RunnerStep, RunnerStart, RunnerWake, RunnerFetch, RunnerAppend, RunnerSync,
         RunnerFinal, RunnerFail, RunnerExit, RunnerPushed, RunnerEvent, RunnerEventSync,
         runnerUnchanged
    <3>3. \/ Crash \/ BootLoad \/ BootNext
          \/ \E c \in Clients, s \in Sources : \E op, spec : Request(c, op, s, spec)
          \/ \E s \in Sources : Publish(s)
          => next_run' = next_run
      BY DEF Crash, BootLoad, BootNext, Request, Publish, managerVars
    <3> QED
      BY <3>1, <3>2, <3>3 DEF Next
  <2> QED
    BY <1>0, <2>1 DEF TypeOK
<1>6. feed' \in [Sources -> 0..MaxItems]
  <2>0. feed \in [Sources -> 0..MaxItems]
    BY <1>0 DEF TypeOK
  <2>1. ASSUME NEW s \in Sources, Publish(s) PROVE feed' \in [Sources -> 0..MaxItems]
    <3>1. feed[s] + 1 \in 0..MaxItems
      BY <2>0, <2>1, ManagerAssumption DEF Publish
    <3> QED
      BY <2>0, <2>1, <3>1 DEF Publish
  <2>2. \A p \in Procs : HandlerStep(p) => feed' = feed
    BY DEF HandlerStep, EnsureGet, EnsureUpsert, RunnerCheck, RunnerInsert, RunnerSetTask, StopGet,
       StopLookup, StopSignal, StopTake, StopJoined, StopAborts, StopRemove, StopClear,
       StopCheckpoint, DeleteRow, DeleteEntry, Ensured, AfterStop, Answer, envVars, requestVars
  <2>3. \A x \in EntryIds : RunnerStep(x) => feed' = feed
    BY DEF RunnerStep, RunnerStart, RunnerWake, RunnerFetch, RunnerAppend, RunnerSync,
       RunnerFinal, RunnerFail, RunnerExit, RunnerPushed, RunnerEvent, RunnerEventSync,
       runnerUnchanged, envVars, requestVars
  <2>4. \/ Crash \/ BootLoad \/ BootNext
        \/ \E c \in Clients, s \in Sources : \E op, spec : Request(c, op, s, spec)
        => feed' = feed
    BY DEF Crash, BootLoad, BootNext, Request, envVars, requestVars
  <2> QED
    BY <2>0, <2>1, <2>2, <2>3, <2>4 DEF Next
<1> QED
  BY <1>1, <1>2, <1>3, <1>4, <1>5, <1>6 DEF TypeOK

-----------------------------------------------------------------------------
(* The parts of the fence. *)

LEMMA EntriesStay == ASSUME FenceInv, Next PROVE HandlersHaveEntries'
<1>0. /\ TypeOK /\ TypeOK' /\ HandlersHaveEntries
      /\ handler \in [Procs -> Handler] /\ handler' \in [Procs -> Handler]
      /\ entries \in [Sources -> EntryIds \cup {NoEntry}]
  BY TypesKept DEF FenceInv, TypeOK
<1>1. DOMAIN entry \subseteq DOMAIN entry'
  BY RunnersKept
<1>i. ASSUME NEW p \in Procs, RunnerInsert(p) PROVE next_entry \in DOMAIN entry'
  <2>1. next_entry' = next_entry + 1 /\ next_entry \in Nat \ {0}
    BY <1>0, <1>i, TypedParts DEF RunnerInsert
  <2>2. DOMAIN entry' = 1..(next_entry' - 1)
    BY <1>0 DEF TypeOK
  <2> QED
    BY <2>1, <2>2
<1>2. \A s \in Sources : entries'[s] # NoEntry => entries'[s] \in DOMAIN entry'
  <2>1. CASE entries' = entries
    BY <1>0, <1>1, <2>1 DEF HandlersHaveEntries
  <2>2. CASE entries' = [s \in Sources |-> NoEntry]
    BY <2>2
  <2>3. ASSUME NEW s \in Sources, entries' = [entries EXCEPT ![s] = NoEntry]
        PROVE  \A u \in Sources : entries'[u] # NoEntry => entries'[u] \in DOMAIN entry'
    BY <1>0, <1>1, <2>3 DEF HandlersHaveEntries
  <2>4. ASSUME NEW p \in Procs, RunnerInsert(p), entries' = [entries EXCEPT ![handler[p].s] = next_entry]
        PROVE  \A u \in Sources : entries'[u] # NoEntry => entries'[u] \in DOMAIN entry'
    BY <1>0, <1>1, <1>i, <2>4 DEF HandlersHaveEntries
  <2> QED
    BY <2>1, <2>2, <2>3, <2>4, MapChanges
<1> DEFINE Holds == {"set_task", "stop_signal", "stop_take", "stop_await"}
\* A handler that did not move keeps its entry; one that did found it.
<1>3. ASSUME NEW p \in Procs, NEW h, handler' = [handler EXCEPT ![p] = h],
             h.pc \in Holds => h.x \in DOMAIN entry'
      PROVE  \A q \in Procs : handler'[q].pc \in Holds => handler'[q].x \in DOMAIN entry'
  <2>1. SUFFICES ASSUME NEW q \in Procs, handler'[q].pc \in Holds PROVE handler'[q].x \in DOMAIN entry'
    OBVIOUS
  <2>2. CASE q = p
    BY <1>0, <1>3, <2>1, <2>2
  <2>3. CASE q # p
    BY <1>0, <1>1, <1>3, <2>1, <2>3 DEF HandlersHaveEntries
  <2> QED
    BY <2>2, <2>3
<1>4. ASSUME NEW p \in Procs, NEW pc, Goto(p, pc), pc \in Holds => handler[p].pc \in Holds
      PROVE  \A q \in Procs : handler'[q].pc \in Holds => handler'[q].x \in DOMAIN entry'
  <2>1. handler' = [handler EXCEPT ![p] = [handler[p] EXCEPT !.pc = pc]]
    BY <1>4 DEF Goto
  <2>2. /\ [handler[p] EXCEPT !.pc = pc].pc = pc /\ [handler[p] EXCEPT !.pc = pc].x = handler[p].x
    BY <1>0 DEF Handler
  <2>3. pc \in Holds => handler[p].x \in DOMAIN entry'
    BY <1>0, <1>1, <1>4 DEF HandlersHaveEntries
  <2> QED
    BY <1>3, <2>1, <2>2, <2>3
<1>5. ASSUME NEW p \in Procs, handler' = [handler EXCEPT ![p] = Idle]
      PROVE  \A q \in Procs : handler'[q].pc \in Holds => handler'[q].x \in DOMAIN entry'
  <2>1. Idle.pc \notin Holds
    BY IdleFields
  <2> QED
    BY <1>3, <1>5, <2>1
<1>6. ASSUME NEW p \in Procs, Ensured(p)
      PROVE  \A q \in Procs : handler'[q].pc \in Holds => handler'[q].x \in DOMAIN entry'
  <2>1. CASE p = Boot
    <3> DEFINE h == [Idle EXCEPT !.pc = "boot_next", !.op = "resume", !.todo = handler[p].todo]
    <3>1. h.pc \notin Holds
      BY IdleFields DEF Idle
    <3>2. handler' = [handler EXCEPT ![p] = h]
      BY <1>6, <2>1 DEF Ensured
    <3> HIDE DEF h
    <3> QED
      BY <1>3, <3>1, <3>2
  <2>2. CASE p # Boot
    BY <1>5, <1>6, <2>2 DEF Ensured, Answer
  <2> QED
    BY <2>1, <2>2
<1>7. ASSUME NEW p \in Procs, AfterStop(p)
      PROVE  \A q \in Procs : handler'[q].pc \in Holds => handler'[q].x \in DOMAIN entry'
  BY <1>4, <1>5, <1>7 DEF AfterStop, Answer
<1>8. ASSUME NEW p \in Procs, NEW pc, NEW run, pc \notin Holds,
             handler' = [handler EXCEPT ![p].pc = pc, ![p].run = run]
      PROVE  \A q \in Procs : handler'[q].pc \in Holds => handler'[q].x \in DOMAIN entry'
  <2>1. handler' = [handler EXCEPT ![p] = [handler[p] EXCEPT !.pc = pc, !.run = run]]
    BY <1>0, <1>8
  <2>2. [handler[p] EXCEPT !.pc = pc, !.run = run].pc = pc
    BY <1>0 DEF Handler
  <2> QED
    BY <1>3, <1>8, <2>1, <2>2
<1>9. ASSUME NEW p \in Procs, NEW pc, NEW x \in DOMAIN entry',
             handler' = [handler EXCEPT ![p].pc = pc, ![p].x = x]
      PROVE  \A q \in Procs : handler'[q].pc \in Holds => handler'[q].x \in DOMAIN entry'
  <2>1. handler' = [handler EXCEPT ![p] = [handler[p] EXCEPT !.pc = pc, !.x = x]]
    BY <1>0, <1>9
  <2>2. [handler[p] EXCEPT !.pc = pc, !.x = x].x = x
    BY <1>0 DEF Handler
  <2> QED
    BY <1>3, <1>9, <2>1, <2>2
<1>10. ASSUME NEW p \in Procs, HandlerStep(p)
       PROVE  \A q \in Procs : handler'[q].pc \in Holds => handler'[q].x \in DOMAIN entry'
  <2>1. CASE EnsureGet(p) \/ EnsureUpsert(p)
    <3>1. \/ Goto(p, "upsert") \/ Goto(p, "stop_get")
          \/ \E run : handler' = [handler EXCEPT ![p].pc = "check", ![p].run = run]
      BY <2>1 DEF EnsureGet, EnsureUpsert
    <3>2. "upsert" \notin Holds /\ "stop_get" \notin Holds /\ "check" \notin Holds
      OBVIOUS
    <3> HIDE DEF Holds
    <3> QED
      BY <1>4, <1>8, <3>1, <3>2
  <2>2. CASE RunnerCheck(p) \/ RunnerSetTask(p)
    BY <1>4, <1>6, <2>2 DEF RunnerCheck, RunnerSetTask
  <2>3. CASE RunnerInsert(p)
    BY <1>9, <1>i, <2>3 DEF RunnerInsert
  <2>4. CASE StopGet(p)
    <3>1. \/ AfterStop(p)
          \/ \E run : handler' = [handler EXCEPT ![p].pc = "stop_lookup", ![p].run = run]
      BY <2>4 DEF StopGet
    <3>2. "stop_lookup" \notin Holds
      OBVIOUS
    <3> HIDE DEF Holds
    <3> QED
      BY <1>7, <1>8, <3>1, <3>2
  <2>5. CASE StopLookup(p)
    <3>1. entries[handler[p].s] # NoEntry => entries[handler[p].s] \in DOMAIN entry'
      BY <1>0, <1>1, TypedParts DEF HandlersHaveEntries
    <3> QED
      BY <1>4, <1>9, <2>5, <3>1 DEF StopLookup
  <2>6. CASE StopSignal(p) \/ StopTake(p)
    BY <1>4, <2>6 DEF StopSignal, StopTake, At
  <2>7. CASE StopJoined(p) \/ StopAborts(p) \/ StopRemove(p) \/ StopClear(p) \/ DeleteRow(p)
    BY <1>4, <2>7 DEF StopJoined, StopAborts, StopRemove, StopClear, DeleteRow
  <2>8. CASE StopCheckpoint(p) \/ DeleteEntry(p)
    BY <1>5, <1>7, <2>8 DEF StopCheckpoint, DeleteEntry, Answer
  <2> QED
    BY <1>10, <2>1, <2>2, <2>3, <2>4, <2>5, <2>6, <2>7, <2>8 DEF HandlerStep
<1>11. ASSUME handler' = handler
       PROVE  \A q \in Procs : handler'[q].pc \in Holds => handler'[q].x \in DOMAIN entry'
  BY <1>0, <1>1, <1>11 DEF HandlersHaveEntries
<1>12. ASSUME NEW x \in EntryIds, RunnerStep(x) PROVE handler' = handler
  BY <1>12 DEF RunnerStep, RunnerStart, RunnerWake, RunnerFetch, RunnerAppend, RunnerSync,
     RunnerFinal, RunnerFail, RunnerExit, RunnerPushed, RunnerEvent, RunnerEventSync, runnerUnchanged
<1>13. ASSUME NEW s \in Sources, Publish(s) PROVE handler' = handler
  BY <1>13 DEF Publish, managerVars
<1>14. ASSUME NEW c \in Clients, NEW s \in Sources, NEW op, NEW spec, Request(c, op, s, spec)
       PROVE  \A q \in Procs : handler'[q].pc \in Holds => handler'[q].x \in DOMAIN entry'
  <2> DEFINE h == [pc |-> IF op = "ensure" THEN "get" ELSE "stop_get", op |-> op, s |-> s,
                   spec |-> spec, run |-> NoRun, x |-> NoEntry, todo |-> {}]
  <2>1. h.pc \notin Holds /\ handler' = [handler EXCEPT ![c] = h]
    BY <1>14 DEF Request
  <2> HIDE DEF h
  <2> QED
    BY <1>3, <2>1 DEF Procs
<1>15. ASSUME Crash
       PROVE  \A q \in Procs : handler'[q].pc \in Holds => handler'[q].x \in DOMAIN entry'
  <2>1. [Idle EXCEPT !.pc = "boot_load", !.op = "resume"].pc = "boot_load"
    BY DEF Idle
  <2>2. \A q \in Procs : handler'[q].pc \in {"boot_load", "idle"}
    BY <1>15, <2>1, IdleFields DEF Crash
  <2> QED
    BY <2>2
<1>16. ASSUME BootLoad \/ BootNext
       PROVE  \A q \in Procs : handler'[q].pc \in Holds => handler'[q].x \in DOMAIN entry'
  <2>1. handler'[Boot].pc \notin Holds /\ \A q \in Procs : q # Boot => handler'[q] = handler[q]
    <3>1. Boot \in Procs /\ handler[Boot] \in Handler
      BY <1>0 DEF Procs
    <3>2. CASE BootLoad
      BY <1>0, <3>1, <3>2 DEF BootLoad, Handler
    <3>3. CASE BootNext
      <4>1. CASE handler' = [handler EXCEPT ![Boot] = Idle]
        BY <1>0, <3>1, <4>1, IdleFields
      <4>2. CASE \E record : handler' = [handler EXCEPT ![Boot] =
                        [handler[Boot] EXCEPT !.pc = "check", !.s = record.s,
                           !.spec = record.spec, !.run = record.run,
                           !.todo = @ \ {record}]]
        BY <1>0, <3>1, <4>2 DEF Handler
      <4> QED
        BY <3>3, <4>1, <4>2 DEF BootNext
    <3> QED
      BY <1>16, <3>2, <3>3
  <2> QED
    BY <1>0, <1>1, <2>1 DEF HandlersHaveEntries
<1>17. \A q \in Procs : handler'[q].pc \in Holds => handler'[q].x \in DOMAIN entry'
  BY <1>10, <1>11, <1>12, <1>13, <1>14, <1>15, <1>16 DEF Next
<1> QED
  BY <1>2, <1>17 DEF HandlersHaveEntries

-----------------------------------------------------------------------------
(* What a step does to the handlers. *)

Others(p) == \A q \in Procs : q # p => handler'[q] = handler[q]
SameJob(h, d) == h.op = d.op /\ h.s = d.s /\ h.spec = d.spec /\ h.todo = d.todo

SetRun(p, pc, run) == handler' = [handler EXCEPT ![p].pc = pc, ![p].run = run]
SetEntry(p, pc, x) == handler' = [handler EXCEPT ![p].pc = pc, ![p].x = x]

LEMMA HandlerSet ==
  ASSUME TypeOK, NEW p \in Procs, NEW h, handler' = [handler EXCEPT ![p] = h]
  PROVE  handler'[p] = h /\ Others(p)
BY DEF TypeOK, Others

LEMMA GotoMoves ==
  ASSUME TypeOK, NEW p \in Procs, NEW pc, Goto(p, pc)
  PROVE  /\ handler'[p].pc = pc /\ SameJob(handler'[p], handler[p])
         /\ handler'[p].run = handler[p].run /\ handler'[p].x = handler[p].x
         /\ Others(p)
<1>1. handler[p] \in Handler /\ handler' = [handler EXCEPT ![p] = [handler[p] EXCEPT !.pc = pc]]
  BY DEF TypeOK, Goto
<1>2. handler'[p] = [handler[p] EXCEPT !.pc = pc] /\ Others(p)
  BY <1>1, HandlerSet
<1> QED
  BY <1>1, <1>2 DEF Handler, SameJob

LEMMA RunMoves ==
  ASSUME TypeOK, NEW p \in Procs, NEW pc, NEW run, SetRun(p, pc, run)
  PROVE  /\ handler'[p].pc = pc /\ SameJob(handler'[p], handler[p])
         /\ handler'[p].run = run /\ handler'[p].x = handler[p].x
         /\ Others(p)
<1>0. handler[p] \in Handler
  BY DEF TypeOK
<1>1. handler' = [handler EXCEPT ![p] = [handler[p] EXCEPT !.pc = pc, !.run = run]]
  BY DEF TypeOK, SetRun
<1> DEFINE h == [handler[p] EXCEPT !.pc = pc, !.run = run]
<1>2. h.pc = pc /\ h.run = run /\ h.x = handler[p].x /\ SameJob(h, handler[p])
  BY <1>0 DEF Handler, SameJob
<1>3. handler' = [handler EXCEPT ![p] = h]
  BY <1>1
<1> HIDE DEF h
<1> QED
  BY <1>2, <1>3, HandlerSet

LEMMA EntryIdMoves ==
  ASSUME TypeOK, NEW p \in Procs, NEW pc, NEW x, SetEntry(p, pc, x)
  PROVE  /\ handler'[p].pc = pc /\ SameJob(handler'[p], handler[p])
         /\ handler'[p].run = handler[p].run /\ handler'[p].x = x
         /\ Others(p)
<1>0. handler[p] \in Handler
  BY DEF TypeOK
<1>1. handler' = [handler EXCEPT ![p] = [handler[p] EXCEPT !.pc = pc, !.x = x]]
  BY DEF TypeOK, SetEntry
<1> DEFINE h == [handler[p] EXCEPT !.pc = pc, !.x = x]
<1>2. h.pc = pc /\ h.run = handler[p].run /\ h.x = x /\ SameJob(h, handler[p])
  BY <1>0 DEF Handler, SameJob
<1>3. handler' = [handler EXCEPT ![p] = h]
  BY <1>1
<1> HIDE DEF h
<1> QED
  BY <1>2, <1>3, HandlerSet

LEMMA AnswerMoves ==
  ASSUME TypeOK, NEW p \in Procs, handler' = [handler EXCEPT ![p] = Idle]
  PROVE  handler'[p].pc = "idle" /\ handler'[p].todo = {} /\ Others(p)
<1>1. handler'[p] = Idle /\ Others(p)
  BY HandlerSet
<1> QED
  BY <1>1, IdleFields

LEMMA EnsuredMoves ==
  ASSUME TypeOK, NEW p \in Procs, Ensured(p)
  PROVE  /\ Others(p)
         /\ IF p = Boot
            THEN handler'[p].pc = "boot_next" /\ handler'[p].todo = handler[p].todo
            ELSE handler'[p].pc = "idle" /\ handler'[p].todo = {}
<1>1. CASE p = Boot
  <2> DEFINE h == [Idle EXCEPT !.pc = "boot_next", !.op = "resume", !.todo = handler[p].todo]
  <2>1. h.pc = "boot_next" /\ h.todo = handler[p].todo
    BY DEF Idle
  <2>2. handler' = [handler EXCEPT ![p] = h]
    BY <1>1 DEF Ensured
  <2> HIDE DEF h
  <2> QED
    BY <1>1, <2>1, <2>2, HandlerSet
<1>2. CASE p # Boot
  BY <1>2, AnswerMoves DEF Ensured, Answer
<1> QED
  BY <1>1, <1>2

LEMMA RequestMoves ==
  ASSUME TypeOK, NEW c \in Clients, NEW op, NEW s, NEW spec, Request(c, op, s, spec)
  PROVE  /\ c \in Procs /\ Others(c)
         /\ handler'[c].pc = IF op = "ensure" THEN "get" ELSE "stop_get"
         /\ handler'[c].op = op /\ handler'[c].s = s /\ handler'[c].spec = spec
         /\ handler'[c].todo = {}
<1> DEFINE h == [pc |-> IF op = "ensure" THEN "get" ELSE "stop_get", op |-> op, s |-> s,
                 spec |-> spec, run |-> NoRun, x |-> NoEntry, todo |-> {}]
<1>1. c \in Procs /\ handler' = [handler EXCEPT ![c] = h]
  BY DEF Request, Procs
<1>2. handler'[c] = h /\ Others(c)
  BY <1>1, HandlerSet
<1> QED
  BY <1>1, <1>2

LEMMA CrashMoves ==
  ASSUME TypeOK, Crash
  PROVE  /\ \A p \in Procs : handler'[p].todo = {} /\ handler'[p].pc \in {"idle", "boot_load"}
         /\ handler'[Boot].pc = "boot_load"
         /\ \A p \in Procs : p # Boot => handler'[p].pc = "idle"
<1>1. LET h == [Idle EXCEPT !.pc = "boot_load", !.op = "resume"]
      IN  h.pc = "boot_load" /\ h.todo = {}
  BY DEF Idle
<1> QED
  BY <1>1, IdleFields DEF Crash, Procs

\* The records a resumption has to start, from the rows that are not stopped.
LEMMA BootLoadMoves ==
  ASSUME TypeOK, BootLoad
  PROVE  /\ Boot \in Procs /\ Others(Boot) /\ handler'[Boot].pc = "boot_next"
         /\ \A record \in handler'[Boot].todo :
              /\ record.s \in Sources /\ HasRow(record.s)
              /\ managed_sources[record.s].status # "stopped"
              /\ record.run = managed_sources[record.s].run
              /\ record.spec = managed_sources[record.s].spec
         /\ \A s \in Sources : HasRow(s) /\ managed_sources[s].status # "stopped" =>
              \E record \in handler'[Boot].todo : record.s = s
<1> DEFINE todo == {[s |-> s, spec |-> managed_sources[s].spec, run |-> managed_sources[s].run] :
                      s \in {u \in Sources : HasRow(u) /\ managed_sources[u].status # "stopped"}}
<1>1. Boot \in Procs /\ handler[Boot] \in Handler
  BY DEF Procs, TypeOK
<1>2. handler' = [handler EXCEPT ![Boot].pc = "boot_next", ![Boot].todo = todo]
  BY DEF BootLoad
<1>3. /\ \A record \in todo :
              /\ record.s \in Sources /\ HasRow(record.s)
              /\ managed_sources[record.s].status # "stopped"
              /\ record.run = managed_sources[record.s].run
              /\ record.spec = managed_sources[record.s].spec
      /\ \A s \in Sources : HasRow(s) /\ managed_sources[s].status # "stopped" =>
           \E record \in todo : record.s = s
  <2>1. ASSUME NEW record \in todo
        PROVE  /\ record.s \in Sources /\ HasRow(record.s)
               /\ managed_sources[record.s].status # "stopped"
               /\ record.run = managed_sources[record.s].run
               /\ record.spec = managed_sources[record.s].spec
    <3>1. PICK s \in {u \in Sources : HasRow(u) /\ managed_sources[u].status # "stopped"} :
            record = [s |-> s, spec |-> managed_sources[s].spec, run |-> managed_sources[s].run]
      OBVIOUS
    <3>2. /\ record.s = s /\ record.spec = managed_sources[s].spec
          /\ record.run = managed_sources[s].run
      BY <3>1
    <3> QED
      BY <3>2
  <2>2. ASSUME NEW s \in Sources, HasRow(s), managed_sources[s].status # "stopped"
        PROVE  \E record \in todo : record.s = s
    <3>1. [s |-> s, spec |-> managed_sources[s].spec, run |-> managed_sources[s].run] \in todo
      BY <2>2
    <3> QED
      BY <3>1
  <2> QED
    BY <2>1, <2>2
<1> HIDE DEF todo
<1>4. handler' = [handler EXCEPT ![Boot] = [handler[Boot] EXCEPT !.pc = "boot_next", !.todo = todo]]
  BY <1>1, <1>2 DEF TypeOK
<1>5. handler'[Boot] = [handler[Boot] EXCEPT !.pc = "boot_next", !.todo = todo] /\ Others(Boot)
  BY <1>1, <1>4, HandlerSet
<1>6. handler'[Boot].pc = "boot_next" /\ handler'[Boot].todo = todo
  BY <1>1, <1>5 DEF Handler
<1> QED
  BY <1>1, <1>3, <1>5, <1>6

LEMMA BootNextMoves ==
  ASSUME TypeOK, BootNext
  PROVE  /\ Boot \in Procs /\ Others(Boot)
         /\ \/ handler[Boot].todo = {} /\ handler'[Boot].pc = "idle" /\ handler'[Boot].todo = {}
            \/ \E record \in handler[Boot].todo :
                 /\ handler'[Boot].pc = "check" /\ handler'[Boot].s = record.s
                 /\ handler'[Boot].spec = record.spec /\ handler'[Boot].run = record.run
                 /\ handler'[Boot].todo = handler[Boot].todo \ {record}
<1>1. Boot \in Procs /\ handler[Boot] \in Handler
  BY DEF Procs, TypeOK
<1>2. CASE handler[Boot].todo = {} /\ handler' = [handler EXCEPT ![Boot] = Idle]
  BY <1>1, <1>2, AnswerMoves
<1>3. ASSUME NEW record \in handler[Boot].todo,
             handler' = [handler EXCEPT ![Boot] =
                           [handler[Boot] EXCEPT !.pc = "check", !.s = record.s,
                              !.spec = record.spec, !.run = record.run,
                              !.todo = @ \ {record}]]
      PROVE  /\ Others(Boot)
             /\ handler'[Boot].pc = "check" /\ handler'[Boot].s = record.s
             /\ handler'[Boot].spec = record.spec /\ handler'[Boot].run = record.run
             /\ handler'[Boot].todo = handler[Boot].todo \ {record}
  <2> DEFINE h == [handler[Boot] EXCEPT !.pc = "check", !.s = record.s, !.spec = record.spec,
                                        !.run = record.run, !.todo = @ \ {record}]
  <2>1. /\ h.pc = "check" /\ h.s = record.s /\ h.spec = record.spec /\ h.run = record.run
        /\ h.todo = handler[Boot].todo \ {record}
    BY <1>1 DEF Handler
  <2>2. handler' = [handler EXCEPT ![Boot] = h]
    BY <1>3
  <2> HIDE DEF h
  <2> QED
    BY <1>1, <2>1, <2>2, HandlerSet
<1> QED
  BY <1>1, <1>2, <1>3 DEF BootNext

LEMMA RunnerLeavesHandlers ==
  /\ \A x \in EntryIds : RunnerStep(x) =>
       handler' = handler /\ next_run' = next_run /\ UNCHANGED envVars /\ next_entry' = next_entry
  /\ \A s \in Sources : Publish(s) => handler' = handler /\ next_run' = next_run
  /\ \A c \in Clients : \A op, s, spec : Request(c, op, s, spec) => next_run' = next_run
  /\ Crash \/ BootLoad \/ BootNext => next_run' = next_run
<1>1. \A x \in EntryIds : RunnerStep(x) =>
        handler' = handler /\ next_run' = next_run /\ UNCHANGED envVars /\ next_entry' = next_entry
  BY DEF RunnerStep, RunnerStart, RunnerWake, RunnerFetch, RunnerAppend, RunnerSync,
     RunnerFinal, RunnerFail, RunnerExit, RunnerPushed, RunnerEvent, RunnerEventSync, runnerUnchanged
<1>2. \A s \in Sources : Publish(s) => handler' = handler /\ next_run' = next_run
  BY DEF Publish, managerVars
<1>3. \A c \in Clients : \A op, s, spec : Request(c, op, s, spec) => next_run' = next_run
  BY DEF Request
<1>4. Crash \/ BootLoad \/ BootNext => next_run' = next_run
  BY DEF Crash, BootLoad, BootNext
<1> QED
  BY <1>1, <1>2, <1>3, <1>4

\* Where the run and the spec of a handler that starts a runner come from.
Comes(q) ==
  \/ /\ Placing(handler[q]) /\ handler'[q].run = handler[q].run
     /\ handler'[q].spec = handler[q].spec
  \/ \E s \in Sources : /\ HasRow(s) /\ handler'[q].run = managed_sources[s].run
                        /\ handler'[q].spec = managed_sources[s].spec
  \/ EnsureUpsert(q) /\ handler'[q].run = next_run /\ handler'[q].spec = handler[q].spec
  \/ \E record \in handler[q].todo :
       handler'[q].run = record.run /\ handler'[q].spec = record.spec

LEMMA PlacingFrom ==
  ASSUME TypeOK, Next, NEW q \in Procs, Placing(handler'[q])
  PROVE  Comes(q)
<1> USE DEF Placing, Comes
<1>0. CASE handler'[q] = handler[q]
  BY <1>0
<1> SUFFICES ASSUME handler'[q] # handler[q] PROVE Comes(q)
  BY <1>0
<1>1. ASSUME NEW p \in Procs, HandlerStep(p) PROVE Comes(q)
  <2>1. CASE EnsureGet(p)
    <3>1. CASE Goto(p, "upsert") \/ Goto(p, "stop_get")
      BY <3>1, GotoMoves DEF Others
    <3>2. CASE /\ HasRow(handler[p].s) /\ managed_sources[handler[p].s].spec = handler[p].spec
               /\ SetRun(p, "check", managed_sources[handler[p].s].run)
      <4>1. /\ handler'[p].run = managed_sources[handler[p].s].run
            /\ handler'[p].spec = handler[p].spec /\ Others(p)
        <5>1. /\ handler'[p].run = managed_sources[handler[p].s].run
              /\ SameJob(handler'[p], handler[p]) /\ Others(p)
          BY <3>2, RunMoves
        <5> QED
          BY <5>1 DEF SameJob
      <4>2. handler[p].s \in Sources
        BY TypedParts
      <4> QED
        BY <3>2, <4>1, <4>2 DEF Others
    <3> QED
      BY <2>1, <3>1, <3>2 DEF EnsureGet, SetRun
  <2>2. CASE EnsureUpsert(p)
    <3>1. SetRun(p, "check", next_run)
      BY <2>2 DEF EnsureUpsert, SetRun
    <3>2. handler'[p].run = next_run /\ handler'[p].spec = handler[p].spec /\ Others(p)
      <4>1. handler'[p].run = next_run /\ SameJob(handler'[p], handler[p]) /\ Others(p)
        BY <3>1, RunMoves
      <4> QED
        BY <4>1 DEF SameJob
    <3> QED
      BY <2>2, <3>2 DEF Others
  <2>3. CASE RunnerCheck(p)
    <3>1. CASE Ensured(p)
      BY <3>1, EnsuredMoves DEF Others
    <3>2. CASE Goto(p, "insert")
      <4>1. handler'[p].run = handler[p].run /\ handler'[p].spec = handler[p].spec /\ Others(p)
        BY <3>2, GotoMoves DEF SameJob
      <4> QED
        BY <2>3, <4>1 DEF RunnerCheck, At, Others
    <3> QED
      BY <2>3, <3>1, <3>2 DEF RunnerCheck
  <2>4. CASE RunnerInsert(p)
    <3>1. SetEntry(p, "set_task", next_entry)
      BY <2>4 DEF RunnerInsert, SetEntry
    <3>2. handler'[p].pc = "set_task" /\ Others(p)
      BY <3>1, EntryIdMoves
    <3> QED
      BY <3>2 DEF Others
  <2>5. CASE RunnerSetTask(p)
    BY <2>5, EnsuredMoves DEF Others, RunnerSetTask
  <2>6. CASE AfterStop(p)
    <3>1. CASE Answer(p)
      BY <3>1, AnswerMoves DEF Others, Answer
    <3>2. CASE Goto(p, "delete_row") \/ Goto(p, "upsert")
      BY <3>2, GotoMoves DEF Others
    <3> QED
      BY <2>6, <3>1, <3>2 DEF AfterStop
  <2>7. CASE StopGet(p)
    <3>1. CASE SetRun(p, "stop_lookup", managed_sources[handler[p].s].run)
      <4>1. handler'[p].pc = "stop_lookup" /\ Others(p)
        BY <3>1, RunMoves
      <4> QED
        BY <4>1 DEF Others
    <3> QED
      BY <2>6, <2>7, <3>1 DEF StopGet, SetRun
  <2>8. CASE StopLookup(p)
    <3>1. CASE Goto(p, "stop_clear")
      BY <3>1, GotoMoves DEF Others
    <3>2. CASE SetEntry(p, "stop_signal", entries[handler[p].s])
      <4>1. handler'[p].pc = "stop_signal" /\ Others(p)
        BY <3>2, EntryIdMoves
      <4> QED
        BY <4>1 DEF Others
    <3> QED
      BY <2>8, <3>1, <3>2 DEF StopLookup, SetEntry
  <2>9. CASE StopSignal(p) \/ StopTake(p) \/ StopJoined(p) \/ StopAborts(p) \/ StopRemove(p)
             \/ StopClear(p) \/ DeleteRow(p)
    <3>1. \E pc \in {"stop_take", "stop_await", "stop_remove", "stop_clear", "stop_checkpoint",
                     "delete_entry"} : Goto(p, pc)
      BY <2>9 DEF StopSignal, StopTake, StopJoined, StopAborts, StopRemove, StopClear, DeleteRow
    <3> QED
      BY <3>1, GotoMoves DEF Others
  <2>10. CASE StopCheckpoint(p)
    BY <2>6, <2>10 DEF StopCheckpoint
  <2>11. CASE DeleteEntry(p)
    BY <2>11, AnswerMoves DEF Others, DeleteEntry, Answer
  <2> QED
    BY <1>1, <2>1, <2>2, <2>3, <2>4, <2>5, <2>7, <2>8, <2>9, <2>10, <2>11 DEF HandlerStep
<1>2. ASSUME NEW c \in Clients, NEW s \in Sources, NEW op, NEW spec, Request(c, op, s, spec)
      PROVE  FALSE
  BY <1>2, RequestMoves DEF Others
<1>3. CASE Crash
  BY <1>3, CrashMoves
<1>4. CASE BootLoad
  BY <1>4, BootLoadMoves DEF Others
<1>5. CASE BootNext
  BY <1>5, BootNextMoves DEF Others
<1> QED
  BY <1>1, <1>2, <1>3, <1>4, <1>5, RunnerLeavesHandlers DEF Next

\* A resumption's records come from the rows.
LEMMA TodoFrom ==
  ASSUME TypeOK, Next, NEW q \in Procs, NEW record \in handler'[q].todo
  PROVE  \/ record \in handler[q].todo
         \/ /\ BootLoad /\ record.s \in Sources /\ HasRow(record.s)
            /\ record.run = managed_sources[record.s].run
            /\ record.spec = managed_sources[record.s].spec
<1>0. CASE handler'[q].todo \subseteq handler[q].todo
  BY <1>0
<1>1. ASSUME NEW p \in Procs, HandlerStep(p) PROVE handler'[q].todo \subseteq handler[q].todo
  <2>1. CASE \E pc : Goto(p, pc)
    BY <2>1, GotoMoves DEF Others, SameJob
  <2>2. CASE \E pc, run : SetRun(p, pc, run)
    BY <2>2, RunMoves DEF Others, SameJob
  <2>3. CASE \E pc, x : SetEntry(p, pc, x)
    BY <2>3, EntryIdMoves DEF Others, SameJob
  <2>4. CASE Answer(p)
    BY <2>4, AnswerMoves DEF Others, Answer
  <2>5. CASE Ensured(p)
    BY <2>5, EnsuredMoves DEF Others
  <2>6. AfterStop(p) => Answer(p) \/ \E pc : Goto(p, pc)
    BY DEF AfterStop
  <2>7. CASE EnsureGet(p) \/ EnsureUpsert(p)
    <3>1. (\E pc : Goto(p, pc)) \/ \E pc, run : SetRun(p, pc, run)
      BY <2>7 DEF EnsureGet, EnsureUpsert, SetRun
    <3> QED
      BY <2>1, <2>2, <3>1
  <2>8. CASE RunnerCheck(p) \/ RunnerSetTask(p)
    BY <2>1, <2>5, <2>8 DEF RunnerCheck, RunnerSetTask
  <2>9. CASE RunnerInsert(p) \/ StopLookup(p)
    <3>1. (\E pc : Goto(p, pc)) \/ \E pc, x : SetEntry(p, pc, x)
      BY <2>9 DEF RunnerInsert, StopLookup, SetEntry
    <3> QED
      BY <2>1, <2>3, <3>1
  <2>10. CASE StopGet(p)
    <3>1. AfterStop(p) \/ \E pc, run : SetRun(p, pc, run)
      BY <2>10 DEF StopGet, SetRun
    <3> QED
      BY <2>1, <2>2, <2>4, <2>6, <3>1
  <2>11. CASE StopSignal(p) \/ StopTake(p) \/ StopJoined(p) \/ StopAborts(p) \/ StopRemove(p)
              \/ StopClear(p) \/ DeleteRow(p)
    BY <2>1, <2>11 DEF StopSignal, StopTake, StopJoined, StopAborts, StopRemove, StopClear, DeleteRow
  <2>12. CASE StopCheckpoint(p) \/ DeleteEntry(p)
    BY <2>1, <2>4, <2>6, <2>12 DEF StopCheckpoint, DeleteEntry
  <2> QED
    BY <1>1, <2>7, <2>8, <2>9, <2>10, <2>11, <2>12 DEF HandlerStep
<1>2. ASSUME NEW c \in Clients, NEW s \in Sources, NEW op, NEW spec, Request(c, op, s, spec)
      PROVE  handler'[q].todo \subseteq handler[q].todo
  BY <1>2, RequestMoves DEF Others
<1>3. CASE Crash
  BY <1>3, CrashMoves
<1>4. CASE BootLoad
  <2>1. CASE q = Boot
    BY <1>4, <2>1, BootLoadMoves
  <2>2. CASE q # Boot
    BY <1>4, <2>2, BootLoadMoves DEF Others
  <2> QED
    BY <2>1, <2>2
<1>5. CASE BootNext
  <2>1. handler'[q].todo \subseteq handler[q].todo
    BY <1>5, BootNextMoves DEF Others
  <2> QED
    BY <1>0, <2>1
<1> QED
  BY <1>0, <1>1, <1>2, <1>3, <1>4, <1>5, RunnerLeavesHandlers DEF Next

\* The rows: a step keeps the run and the spec of a row, or an ensure writes a
\* row of a new run.
SameRow(s) ==
  /\ HasRow(s) /\ managed_sources'[s].run = managed_sources[s].run
  /\ managed_sources'[s].spec = managed_sources[s].spec
NewRow(s, p) ==
  /\ EnsureUpsert(p) /\ s = handler[p].s
  /\ managed_sources'[s].run = next_run /\ managed_sources'[s].spec = handler[p].spec

LEMMA RowsFrom ==
  ASSUME TypeOK, Next, NEW s \in Sources, HasRow(s)'
  PROVE  SameRow(s) \/ \E p \in Procs : NewRow(s, p)
<1>0. /\ managed_sources \in [Sources -> SourceRow \cup {NoRow}]
      /\ \A u \in Sources : HasRow(u) => managed_sources[u] \in SourceRow
  BY TypedParts DEF TypeOK, StoreTypeOK
<1>1. CASE managed_sources' = managed_sources
  BY <1>1 DEF HasRow, SameRow
<1>2. ASSUME NEW u \in Sources, NEW status, SetStatus(u, status)
      PROVE  SameRow(s)
  <2>1. CASE HasRow(u)
    <3>1. managed_sources' = [managed_sources EXCEPT ![u] = [managed_sources[u] EXCEPT !.status = status]]
      BY <1>2, <2>1 DEF SetStatus
    <3>2. LET row == [managed_sources[u] EXCEPT !.status = status]
          IN  row.run = managed_sources[u].run /\ row.spec = managed_sources[u].spec
      BY <1>0, <2>1 DEF SourceRow
    <3> DEFINE row == [managed_sources[u] EXCEPT !.status = status]
    <3>3. row.run = managed_sources[u].run /\ row.spec = managed_sources[u].spec
          /\ managed_sources' = [managed_sources EXCEPT ![u] = row]
      BY <3>1, <3>2
    <3> HIDE DEF row
    <3>4. managed_sources'[s] = IF s = u THEN row ELSE managed_sources[s]
      BY <1>0, <3>3
    <3> QED
      BY <2>1, <3>3, <3>4 DEF HasRow, SameRow
  <2>2. CASE ~HasRow(u)
    BY <1>2, <2>2 DEF SetStatus, HasRow, SameRow
  <2> QED
    BY <2>1, <2>2
<1>3. ASSUME NEW u \in Sources, NEW cp, HasRow(u),
             managed_sources' = [managed_sources EXCEPT ![u].checkpoint = cp]
      PROVE  SameRow(s)
  <2> DEFINE row == [managed_sources[u] EXCEPT !.checkpoint = cp]
  <2>1. managed_sources' = [managed_sources EXCEPT ![u] = row]
    BY <1>3
  <2>2. row.run = managed_sources[u].run /\ row.spec = managed_sources[u].spec
    BY <1>0, <1>3 DEF SourceRow
  <2> HIDE DEF row
  <2>3. managed_sources'[s] = IF s = u THEN row ELSE managed_sources[s]
    BY <1>0, <2>1
  <2> QED
    BY <1>3, <2>2, <2>3 DEF HasRow, SameRow
<1>4. ASSUME NEW p \in Procs, HandlerStep(p) PROVE SameRow(s) \/ \E q \in Procs : NewRow(s, q)
  <2>0. handler[p].s \in Sources
    BY TypedParts
  <2>1. CASE EnsureUpsert(p)
    <3> DEFINE row == [spec |-> handler[p].spec, run |-> next_run, status |-> "starting",
                       checkpoint |-> NoCheckpoint]
    <3>1. managed_sources' = [managed_sources EXCEPT ![handler[p].s] = row]
      BY <2>1 DEF EnsureUpsert, UpsertSource
    <3>2. row.run = next_run /\ row.spec = handler[p].spec
      OBVIOUS
    <3> HIDE DEF row
    <3>3. managed_sources'[s] = IF s = handler[p].s THEN row ELSE managed_sources[s]
      BY <1>0, <2>0, <3>1
    <3> QED
      BY <2>1, <3>2, <3>3 DEF HasRow, SameRow, NewRow
  <2>2. CASE StopClear(p)
    BY <1>2, <2>0, <2>2 DEF StopClear, ClearSourceJob
  <2>3. CASE StopCheckpoint(p)
    BY <1>1, <1>3, <2>0, <2>3 DEF StopCheckpoint, ClearPollCheckpoint, HasRun
  <2>4. CASE DeleteRow(p)
    <3>1. managed_sources'[s] = IF s = handler[p].s THEN NoRow ELSE managed_sources[s]
      BY <1>0, <2>0, <2>4 DEF DeleteRow, DeleteSource
    <3> QED
      BY <3>1 DEF HasRow, SameRow
  <2>5. CASE ~EnsureUpsert(p) /\ ~StopClear(p) /\ ~StopCheckpoint(p) /\ ~DeleteRow(p)
    <3>1. managed_sources' = managed_sources
      BY <1>4, <2>5 DEF HandlerStep, EnsureGet, RunnerCheck, RunnerInsert, RunnerSetTask, StopGet,
         StopLookup, StopSignal, StopTake, StopJoined, StopAborts, StopRemove, DeleteEntry, storeVars
    <3> QED
      BY <1>1, <3>1
  <2> QED
    BY <2>1, <2>2, <2>3, <2>4, <2>5
<1>5. ASSUME NEW x \in EntryIds, RunnerStep(x) PROVE SameRow(s) \/ \E q \in Procs : NewRow(s, q)
  <2>0. x \in DOMAIN entry /\ entry[x].s \in Sources
    BY <1>5, RunnerChangesOne, TypedParts
  <2>1. CASE RunnerSync(x) \/ RunnerFinal(x) \/ RunnerFail(x) \/ RunnerEventSync(x)
    BY <1>2, <2>0, <2>1 DEF RunnerSync, RunnerFinal, RunnerFail, RunnerEventSync,
       UpdateSourceRuntime, ClearSourceJob
  <2>2. CASE RunnerAppend(x)
    BY <1>1, <1>3, <2>0, <2>2 DEF RunnerAppend, AppendEventsAndStorePollCheckpoint, HasRun, storeVars
  <2>3. CASE RunnerStart(x) \/ RunnerWake(x) \/ RunnerFetch(x) \/ RunnerExit(x) \/ RunnerPushed(x)
             \/ RunnerEvent(x)
    BY <1>1, <2>3 DEF RunnerStart, RunnerWake, RunnerFetch, RunnerExit, RunnerPushed, RunnerEvent,
       storeVars
  <2> QED
    BY <1>5, <2>1, <2>2, <2>3 DEF RunnerStep
<1>6. ASSUME \/ Crash \/ BootLoad \/ BootNext
             \/ \E c \in Clients, u \in Sources : \E op, spec : Request(c, op, u, spec)
             \/ \E u \in Sources : Publish(u)
      PROVE  managed_sources' = managed_sources
  BY <1>6 DEF Crash, BootLoad, BootNext, Request, Publish, storeVars
<1> QED
  BY <1>1, <1>4, <1>5, <1>6 DEF Next

\* Run ids are given out by one upsert at a time.
LEMMA UpsertAlone ==
  ASSUME TypeOK, NEW p \in Procs, NEW q \in Procs, EnsureUpsert(p), EnsureUpsert(q)
  PROVE  p = q
<1>1. SetRun(p, "check", next_run) /\ SetRun(q, "check", next_run) /\ At(p, "upsert")
  BY DEF EnsureUpsert, SetRun
<1>2. handler'[p].pc = "check" /\ Others(q)
  BY <1>1, RunMoves
<1> QED
  BY <1>1, <1>2 DEF Others, At

LEMMA RunsGiven ==
  ASSUME Next
  PROVE  \/ next_run' = next_run /\ \A p \in Procs : ~EnsureUpsert(p)
         \/ \E p \in Procs : EnsureUpsert(p)
<1>1. \A p \in Procs : HandlerStep(p) => EnsureUpsert(p) \/ next_run' = next_run
  BY DEF HandlerStep, EnsureGet, RunnerCheck, RunnerInsert, RunnerSetTask, StopGet,
     StopLookup, StopSignal, StopTake, StopJoined, StopAborts, StopRemove, StopClear,
     StopCheckpoint, DeleteRow, DeleteEntry
<1> QED
  BY <1>1, RunnerLeavesHandlers DEF Next

LEMMA RunsStayOneSpec == ASSUME FenceInv, Next PROVE OneSpecPerRun'
<1>0. TypeOK /\ next_run \in Nat \ {0} /\ Runs \subseteq Nat \ {0}
  BY TypedParts DEF FenceInv, TypeOK
<1>1. PICK f \in [Runs -> Specs] : RunsAgree(f)
  BY DEF FenceInv, OneSpecPerRun
<1>2. PICK g \in [Runs -> Specs] :
        /\ \A run \in Runs : Known(run) => g[run] = f[run]
        /\ \A p \in Procs : EnsureUpsert(p) => next_run \in Runs /\ g[next_run] = handler[p].spec
  <2>1. CASE \A p \in Procs : ~EnsureUpsert(p)
    BY <2>1
  <2>2. CASE \E p \in Procs : EnsureUpsert(p)
    <3>1. PICK p \in Procs : EnsureUpsert(p)
      BY <2>2
    <3>2. next_run \in Runs /\ handler[p].spec \in Specs
      BY <1>0, <3>1, TypedParts DEF EnsureUpsert
    <3>3. \A q \in Procs : EnsureUpsert(q) => q = p
      BY <1>0, <3>1, UpsertAlone
    <3>4. \A run \in Runs : Known(run) => run # next_run
      BY <1>0 DEF Known
    <3>5. [f EXCEPT ![next_run] = handler[p].spec] \in [Runs -> Specs]
      BY <3>2
    <3> QED
      BY <3>2, <3>3, <3>4, <3>5
  <2> QED
    BY <2>1, <2>2
<1>3. /\ \A run \in Runs : Known(run) => Known(run)'
      /\ \A p \in Procs : EnsureUpsert(p) => next_run < next_run'
      /\ next_run' >= next_run
  <2>1. CASE next_run' = next_run /\ \A p \in Procs : ~EnsureUpsert(p)
    BY <1>0, <2>1 DEF Known
  <2>2. CASE \E p \in Procs : EnsureUpsert(p)
    <3>1. next_run' = next_run + 1
      BY <2>2 DEF EnsureUpsert
    <3>2. \A run \in Nat : run < next_run => run < next_run + 1
      BY <1>0
    <3>3. next_run < next_run + 1 /\ next_run + 1 >= next_run
      BY <1>0
    <3> QED
      BY <1>0, <3>1, <3>2, <3>3 DEF Known
  <2> QED
    BY <2>1, <2>2, RunsGiven
<1>k. \A run \in Runs : Known(run) => Known(run)' /\ g[run] = f[run]
  BY <1>2, <1>3
<1>4. ASSUME NEW s \in Sources, HasRow(s)'
      PROVE  Known(managed_sources[s].run)' /\ g[managed_sources'[s].run] = managed_sources'[s].spec
  <2>1. CASE SameRow(s)
    <3>1. managed_sources[s].run \in Runs
      BY <1>0, <2>1, TypedParts DEF SameRow
    <3>2. Known(managed_sources[s].run) /\ f[managed_sources[s].run] = managed_sources[s].spec
      BY <1>1, <2>1 DEF RunsAgree, SameRow
    <3>3. managed_sources[s].run < next_run' /\ g[managed_sources[s].run] = f[managed_sources[s].run]
      BY <1>k, <3>1, <3>2 DEF Known
    <3> QED
      BY <2>1, <3>2, <3>3 DEF Known, SameRow
  <2>2. ASSUME NEW p \in Procs, NewRow(s, p)
        PROVE  Known(managed_sources[s].run)' /\ g[managed_sources'[s].run] = managed_sources'[s].spec
    <3>1. next_run < next_run' /\ g[next_run] = handler[p].spec
      BY <1>2, <1>3, <2>2 DEF NewRow
    <3> QED
      BY <2>2, <3>1 DEF Known, NewRow
  <2> QED
    BY <1>0, <1>4, <2>1, <2>2, RowsFrom
<1> DEFINE Fits(q) == /\ handler'[q].run \in Runs /\ handler'[q].run < next_run'
                      /\ g[handler'[q].run] = handler'[q].spec
<1>5. ASSUME NEW q \in Procs, Placing(handler'[q])
      PROVE  Fits(q)
  <2>1. CASE /\ Placing(handler[q]) /\ handler'[q].run = handler[q].run
             /\ handler'[q].spec = handler[q].spec
    <3>1. handler[q].run \in Runs /\ Known(handler[q].run) /\ f[handler[q].run] = handler[q].spec
      BY <1>1, <2>1 DEF RunsAgree
    <3> QED
      BY <1>k, <2>1, <3>1 DEF Known
  <2>2. ASSUME NEW s \in Sources, HasRow(s), handler'[q].run = managed_sources[s].run,
               handler'[q].spec = managed_sources[s].spec
        PROVE  Fits(q)
    <3>1. /\ managed_sources[s].run \in Runs /\ Known(managed_sources[s].run)
          /\ f[managed_sources[s].run] = managed_sources[s].spec
      BY <1>0, <1>1, <2>2, TypedParts DEF RunsAgree
    <3> QED
      BY <1>k, <2>2, <3>1 DEF Known
  <2>3. CASE EnsureUpsert(q) /\ handler'[q].run = next_run /\ handler'[q].spec = handler[q].spec
    BY <1>2, <1>3, <2>3
  <2>4. ASSUME NEW record \in handler[q].todo, handler'[q].run = record.run,
               handler'[q].spec = record.spec
        PROVE  Fits(q)
    <3>1. record \in [s : Sources, spec : Specs, run : Runs]
      BY <1>0, TypedParts
    <3>2. record.run \in Runs /\ Known(record.run) /\ f[record.run] = record.spec
      BY <1>1, <3>1 DEF RunsAgree
    <3> QED
      BY <1>k, <2>4, <3>2 DEF Known
  <2> QED
    BY <1>0, <1>5, <2>1, <2>2, <2>3, <2>4, PlacingFrom DEF Comes
<1>6. ASSUME NEW q \in Procs, NEW record \in handler'[q].todo
      PROVE  record.run < next_run' /\ g[record.run] = record.spec
  <2>1. CASE record \in handler[q].todo
    <3>1. record \in [s : Sources, spec : Specs, run : Runs]
      BY <1>0, <2>1, TypedParts
    <3>2. record.run \in Runs /\ Known(record.run) /\ f[record.run] = record.spec
      BY <1>1, <2>1, <3>1 DEF RunsAgree
    <3> QED
      BY <1>k, <3>2 DEF Known
  <2>2. CASE /\ BootLoad /\ record.s \in Sources /\ HasRow(record.s)
             /\ record.run = managed_sources[record.s].run
             /\ record.spec = managed_sources[record.s].spec
    <3>1. /\ record.run \in Runs /\ Known(record.run) /\ f[record.run] = record.spec
      BY <1>0, <1>1, <2>2, TypedParts DEF RunsAgree
    <3> QED
      BY <1>k, <3>1 DEF Known
  <2> QED
    BY <1>0, <2>1, <2>2, TodoFrom
<1>7. ASSUME NEW x \in DOMAIN entry'
      PROVE  entry'[x].run < next_run' /\ g[entry'[x].run] = entry'[x].spec
  <2>1. CASE x \in DOMAIN entry
    <3>1. entry'[x].run = entry[x].run /\ entry'[x].spec = entry[x].spec
      BY <2>1, RunnersKept DEF Moved
    <3>2. entry[x].run \in Runs /\ Known(entry[x].run) /\ f[entry[x].run] = entry[x].spec
      BY <1>0, <1>1, <2>1, TypedParts DEF RunsAgree
    <3> QED
      BY <1>k, <3>1, <3>2 DEF Known
  <2>2. CASE x \notin DOMAIN entry
    <3>1. PICK p \in Procs : RunnerInsert(p) /\ entry'[x] = NewEntry(handler[p])
      BY <2>2, RunnersKept
    <3>2. entry'[x].run = handler[p].run /\ entry'[x].spec = handler[p].spec
      BY <3>1 DEF NewEntry
    <3>3. Placing(handler[p])
      BY <3>1 DEF RunnerInsert, At, Placing
    <3>4. handler[p].run \in Runs /\ Known(handler[p].run) /\ f[handler[p].run] = handler[p].spec
      BY <1>1, <3>3 DEF RunsAgree
    <3> QED
      BY <1>k, <3>2, <3>4 DEF Known
  <2> QED
    BY <2>1, <2>2
<1>8. RunsAgree(g)'
  BY <1>4, <1>5, <1>6, <1>7 DEF RunsAgree, Known
<1> QED
  BY <1>8 DEF OneSpecPerRun
LEMMA RunnersStayCounted == ASSUME FenceInv, Next PROVE PushingRunners' /\ EventsCounted'
<1>1. ASSUME NEW x \in DOMAIN entry'
      PROVE  /\ entry'[x].pc \in Pushing => entry'[x].spec \notin PollSpecs
             /\ entry'[x].pc = "event" => entry'[x].cp # 0
  <2>1. CASE x \in DOMAIN entry
    <3>1. Moved(entry'[x], entry[x])
      BY <2>1, RunnersKept
    <3>2. entry[x].pc \in Pushing => entry[x].spec \notin PollSpecs
      BY <2>1 DEF FenceInv, PushingRunners
    <3>3. entry[x].pc = "event" => entry[x].cp # 0
      BY <2>1 DEF FenceInv, EventsCounted
    <3> QED
      BY <3>1, <3>2, <3>3 DEF Moved
  <2>2. CASE x \notin DOMAIN entry
    <3>1. \E p \in Procs : entry'[x] = NewEntry(handler[p])
      BY <2>2, RunnersKept
    <3>2. entry'[x].pc = "start"
      BY <3>1 DEF NewEntry
    <3> QED
      BY <3>2 DEF Pushing
  <2> QED
    BY <2>1, <2>2
<1> QED
  BY <1>1 DEF PushingRunners, EventsCounted

\* What a runner appends to its source's stream.
Appends(x, batch) ==
  /\ \E at \in Times : AppendRows(StreamIdOf[entry[x].s], at, batch)
  /\ \/ RunnerAppend(x) /\ HasRun(entry[x].s, entry[x].run) /\ batch = NewItems(x)
     \/ /\ RunnerEvent(x) /\ StreamExists(StreamIdOf[entry[x].s])
        /\ batch = <<[run |-> entry[x].run, item |-> entry[x].cp]>>

LEMMA StreamsFrom ==
  ASSUME FenceInv, Next
  PROVE  \/ UNCHANGED streamVars
         \/ \E p \in Procs : EnsureUpsert(p) /\ CreateStream(StreamIdOf[handler[p].s])
         \/ \E x \in DOMAIN entry : \E batch : Appends(x, batch)
<1>0. TypeOK
  BY DEF FenceInv
<1>1. ASSUME NEW p \in Procs, HandlerStep(p)
      PROVE  \/ UNCHANGED streamVars
             \/ EnsureUpsert(p) /\ CreateStream(StreamIdOf[handler[p].s])
  BY <1>1 DEF HandlerStep, EnsureGet, EnsureUpsert, RunnerCheck, RunnerInsert, RunnerSetTask, StopGet,
     StopLookup, StopSignal, StopTake, StopJoined, StopAborts, StopRemove, StopClear, StopCheckpoint,
     DeleteRow, DeleteEntry, storeVars, UpsertSource, ClearSourceJob, SetStatus, ClearPollCheckpoint,
     DeleteSource
<1>2. ASSUME NEW x \in EntryIds, RunnerStep(x)
      PROVE  \/ UNCHANGED streamVars
             \/ \E y \in DOMAIN entry : \E batch : Appends(y, batch)
  <2>0. x \in DOMAIN entry
    BY <1>0, <1>2, RunnerChangesOne
  <2>1. CASE RunnerAppend(x)
    <3>1. CASE UNCHANGED storeVars
      BY <3>1 DEF storeVars
    <3>2. CASE \E at \in Times :
                 AppendEventsAndStorePollCheckpoint(entry[x].s, entry[x].run, at, NewItems(x),
                                                    entry[x].got)
      <4>1. Appends(x, NewItems(x))
        BY <2>1, <3>2 DEF AppendEventsAndStorePollCheckpoint, Appends
      <4> QED
        BY <2>0, <4>1
    <3> QED
      BY <2>1, <3>1, <3>2 DEF RunnerAppend
  <2>2. CASE RunnerEvent(x)
    <3>1. Appends(x, <<[run |-> entry[x].run, item |-> entry[x].cp]>>)
      BY <2>2 DEF RunnerEvent, AppendEvent, Appends
    <3> QED
      BY <2>0, <3>1
  <2>3. CASE ~RunnerAppend(x) /\ ~RunnerEvent(x)
    BY <1>2, <2>3 DEF RunnerStep, RunnerStart, RunnerWake, RunnerFetch, RunnerSync, RunnerFinal,
       RunnerFail, RunnerExit, RunnerPushed, RunnerEventSync, UpdateSourceRuntime, ClearSourceJob,
       SetStatus, storeVars
  <2> QED
    BY <2>1, <2>2, <2>3
<1>3. ASSUME \/ Crash \/ BootLoad \/ BootNext
             \/ \E c \in Clients, u \in Sources : \E op, spec : Request(c, op, u, spec)
             \/ \E u \in Sources : Publish(u)
      PROVE  UNCHANGED streamVars
  BY <1>3 DEF Crash, BootLoad, BootNext, Request, Publish, storeVars
<1> QED
  BY <1>1, <1>2, <1>3 DEF Next

\* Appending adds events from the next offset on and removes none but old ones.
LEMMA AppendedRows ==
  ASSUME FenceInv, NEW x \in DOMAIN entry, NEW batch, Appends(x, batch)
  PROVE  LET st == StreamIdOf[entry[x].s]
         IN  /\ st \in Streams /\ next_event_offset[st] # 0
             /\ next_event_offset'[st] = next_event_offset[st] + Len(batch) /\ Len(batch) \in Nat
             /\ \A u \in Streams : u # st =>
                  /\ next_event_offset'[u] = next_event_offset[u]
                  /\ stream_events'[u] = stream_events[u]
             /\ \A e \in stream_events'[st] :
                  \/ e \in stream_events[st]
                  \/ \E i \in 1..Len(batch) :
                       /\ e.offset = next_event_offset[st] + i - 1
                       /\ e.payload = batch[i] /\ e.payload.run = entry[x].run
             /\ \A i \in 1..Len(batch) : batch[i].run = entry[x].run
<1> DEFINE st == StreamIdOf[entry[x].s]
<1>0. TypeOK /\ StreamTypeOK /\ entry[x].s \in Sources /\ st \in Streams
  BY TypedParts, SourcesAssumption DEF FenceInv, TypeOK, StoreTypeOK
<1>1. PICK at \in Times : AppendRows(st, at, batch)
  BY DEF Appends
<1>2. next_event_offset[st] # 0
  <2>1. HasRow(entry[x].s) => StreamExists(st)
    BY <1>0 DEF FenceInv, EventsKnown
  <2> QED
    BY <2>1 DEF Appends, HasRun, StreamExists
<1>3. Len(batch) \in Nat /\ \A i \in 1..Len(batch) : batch[i].run = entry[x].run
  <2>1. CASE batch = NewItems(x)
    <3>1. batch \in Seq(Payloads)
      BY <1>0, <2>1, ItemsTyped
    <3>2. \A i \in 1..Len(batch) : batch[i] = [run |-> entry[x].run, item |-> entry[x].cp + i]
      BY <1>0, <2>1, ItemsTyped
    <3>3. Len(batch) \in Nat
      BY <3>1, LenProperties
    <3>4. \A i : [run |-> entry[x].run, item |-> entry[x].cp + i].run = entry[x].run
      OBVIOUS
    <3> QED
      BY <3>2, <3>3, <3>4
  <2>2. CASE batch = <<[run |-> entry[x].run, item |-> entry[x].cp]>>
    BY <2>2
  <2> QED
    BY <2>1, <2>2 DEF Appends
<1>4. next_event_offset' = [next_event_offset EXCEPT ![st] = @ + Len(batch)]
      /\ \E new : /\ stream_events' = [stream_events EXCEPT ![st] = new]
                  /\ new \subseteq stream_events[st] \cup NewRows(st, at, batch)
  BY <1>1 DEF AppendRows, Retained
<1>5. PICK new : /\ stream_events' = [stream_events EXCEPT ![st] = new]
                 /\ new \subseteq stream_events[st] \cup NewRows(st, at, batch)
  BY <1>4
<1>6. \A e \in NewRows(st, at, batch) :
        \E i \in 1..Len(batch) :
          e.offset = next_event_offset[st] + i - 1 /\ e.payload = batch[i]
  BY DEF NewRows
<1>7. stream_events'[st] = new /\ \A u \in Streams : u # st => stream_events'[u] = stream_events[u]
  BY <1>0, <1>5 DEF StreamTypeOK
<1>8. /\ next_event_offset'[st] = next_event_offset[st] + Len(batch)
      /\ \A u \in Streams : u # st => next_event_offset'[u] = next_event_offset[u]
  BY <1>0, <1>4 DEF StreamTypeOK
<1>9. \A e \in new : \/ e \in stream_events[st]
                     \/ \E i \in 1..Len(batch) :
                          /\ e.offset = next_event_offset[st] + i - 1
                          /\ e.payload = batch[i] /\ e.payload.run = entry[x].run
  BY <1>3, <1>5, <1>6
<1> HIDE DEF st
<1>10. /\ st \in Streams /\ next_event_offset[st] # 0
       /\ next_event_offset'[st] = next_event_offset[st] + Len(batch) /\ Len(batch) \in Nat
       /\ \A u \in Streams : u # st =>
            /\ next_event_offset'[u] = next_event_offset[u]
            /\ stream_events'[u] = stream_events[u]
       /\ \A e \in stream_events'[st] :
            \/ e \in stream_events[st]
            \/ \E i \in 1..Len(batch) :
                 /\ e.offset = next_event_offset[st] + i - 1
                 /\ e.payload = batch[i] /\ e.payload.run = entry[x].run
       /\ \A i \in 1..Len(batch) : batch[i].run = entry[x].run
  BY <1>0, <1>2, <1>3, <1>7, <1>8, <1>9
<1> QED
  BY <1>10 DEF st

\* Whether a run that has a runner polls does not change.
LEMMA PolledKept ==
  ASSUME FenceInv, Next, NEW x \in DOMAIN entry, NEW run, entry[x].run = run, Polled(run)'
  PROVE  Polled(run) /\ entry[x].spec \in PollSpecs
<1>1. x \in DOMAIN entry' /\ entry'[x].run = run /\ entry'[x].spec = entry[x].spec
  BY RunnersKept DEF Moved
<1>2. PICK g \in [Runs -> Specs] : RunsAgree(g)'
  BY RunsStayOneSpec DEF OneSpecPerRun
<1>3. PICK y \in DOMAIN entry' : entry'[y].run = run /\ entry'[y].spec \in PollSpecs
  BY DEF Polled
<1>4. entry'[x].spec = g[run] /\ entry'[y].spec = g[run]
  BY <1>1, <1>2, <1>3 DEF RunsAgree
<1> QED
  BY <1>1, <1>3, <1>4 DEF Polled

\* An event of a new state is an old one, or the runner x has just added it.
Added(x, batch, st, e) ==
  /\ Appends(x, batch) /\ st = StreamIdOf[entry[x].s] /\ e.payload.run = entry[x].run
  /\ \E i \in 1..Len(batch) :
       e.offset = next_event_offset[st] + i - 1 /\ e.payload = batch[i]

LEMMA EventsFrom ==
  ASSUME FenceInv, Next, NEW st \in Streams
  PROVE  /\ next_event_offset'[st] >= next_event_offset[st]
         /\ \A e \in stream_events'[st] :
              \/ e \in stream_events[st]
              \/ \E x \in DOMAIN entry : \E batch : Added(x, batch, st, e)
<1>0. next_event_offset \in [Streams -> Nat] /\ TypeOK
  BY DEF FenceInv, TypeOK, StoreTypeOK, StreamTypeOK
<1>1. CASE UNCHANGED streamVars
  BY <1>0, <1>1 DEF streamVars
<1>2. ASSUME NEW p \in Procs, EnsureUpsert(p), CreateStream(StreamIdOf[handler[p].s])
      PROVE  stream_events' = stream_events /\ next_event_offset'[st] >= next_event_offset[st]
  <2>1. StreamIdOf[handler[p].s] \in Streams
    BY <1>0, TypedParts, SourcesAssumption
  <2> QED
    BY <1>0, <1>2, <2>1 DEF CreateStream
<1>3. ASSUME NEW x \in DOMAIN entry, NEW batch, Appends(x, batch) 
      PROVE  /\ next_event_offset'[st] >= next_event_offset[st]
             /\ \A e \in stream_events'[st] :
                  \/ e \in stream_events[st]
                  \/ \E y \in DOMAIN entry : \E b : Added(y, b, st, e)
  <2>1. CASE st = StreamIdOf[entry[x].s]
    <3>1. /\ next_event_offset'[st] = next_event_offset[st] + Len(batch) /\ Len(batch) \in Nat
          /\ \A e \in stream_events'[st] :
               \/ e \in stream_events[st]
               \/ \E i \in 1..Len(batch) :
                    /\ e.offset = next_event_offset[st] + i - 1
                    /\ e.payload = batch[i] /\ e.payload.run = entry[x].run
      BY <1>3, <2>1, AppendedRows
    <3>2. next_event_offset'[st] >= next_event_offset[st]
      BY <1>0, <3>1
    <3> QED
      BY <1>3, <2>1, <3>1, <3>2 DEF Added
  <2>2. CASE st # StreamIdOf[entry[x].s]
    <3>1. next_event_offset'[st] = next_event_offset[st] /\ stream_events'[st] = stream_events[st]
      BY <1>3, <2>2, AppendedRows
    <3> QED
      BY <1>0, <3>1
  <2> QED
    BY <2>1, <2>2
<1> QED
  BY <1>1, <1>2, <1>3, StreamsFrom

\* Before and after: an event that was stored has a runner of its run.
LEMMA EventRuns ==
  ASSUME FenceInv, Next, NEW st \in Streams, NEW e \in stream_events'[st]
  PROVE  /\ \E x \in DOMAIN entry : entry[x].run = e.payload.run
         /\ \A b \in {e.payload.run} : Polled(b)' => Polled(b)
<1>1. PICK x \in DOMAIN entry : entry[x].run = e.payload.run
  BY EventsFrom DEF Added, FenceInv, EventsKnown
<1> QED
  BY <1>1, PolledKept

LEMMA EventsStayKnown == ASSUME FenceInv, Next PROVE EventsKnown'
<1>0. /\ TypeOK /\ next_event_offset \in [Streams -> Nat] /\ EventsKnown
      /\ \A s \in Sources : StreamIdOf[s] \in Streams
      /\ StreamTypeOK' /\ stream_events \in [Streams -> SUBSET EventRow]
  BY TypesKept, SourcesAssumption DEF FenceInv, TypeOK, StoreTypeOK, StreamTypeOK
<1>1. ASSUME NEW s \in Sources, HasRow(s)' PROVE StreamExists(StreamIdOf[s])'
  <2>1. CASE SameRow(s)
    <3>1. next_event_offset[StreamIdOf[s]] # 0
      BY <1>0, <2>1 DEF EventsKnown, SameRow, StreamExists
    <3>2. next_event_offset'[StreamIdOf[s]] >= next_event_offset[StreamIdOf[s]]
      BY <1>0, EventsFrom
    <3>3. \A a, b \in Nat : a # 0 /\ b >= a => b # 0
      OBVIOUS
    <3>4. next_event_offset'[StreamIdOf[s]] \in Nat /\ next_event_offset[StreamIdOf[s]] \in Nat
      BY <1>0 DEF StreamTypeOK
    <3> QED
      BY <3>1, <3>2, <3>3, <3>4 DEF StreamExists
  <2>2. ASSUME NEW p \in Procs, NewRow(s, p) PROVE StreamExists(StreamIdOf[s])'
    <3>1. CreateStream(StreamIdOf[s])
      BY <2>2 DEF NewRow, EnsureUpsert, UpsertSource
    <3>2. next_event_offset'[StreamIdOf[s]] # 0
      BY <1>0, <3>1 DEF CreateStream
    <3> QED
      BY <3>2 DEF StreamExists
  <2> QED
    BY <1>0, <1>1, <2>1, <2>2, RowsFrom
<1>2. ASSUME NEW st \in Streams, NEW e \in stream_events'[st]
      PROVE  /\ e.offset < next_event_offset'[st]
             /\ \E x \in DOMAIN entry' : entry'[x].run = e.payload.run
  <2>1. \E x \in DOMAIN entry' : entry'[x].run = e.payload.run
    BY EventRuns, RunnersKept DEF Moved
  <2>2. e.offset \in Nat /\ next_event_offset[st] \in Nat /\ next_event_offset'[st] \in Nat
    BY <1>0 DEF StreamTypeOK, EventRow
  <2>3. CASE e \in stream_events[st]
    <3>1. e.offset < next_event_offset[st]
      BY <1>0, <2>3 DEF EventsKnown
    <3>2. next_event_offset'[st] >= next_event_offset[st]
      BY EventsFrom
    <3>3. \A a, b, c \in Nat : a < b /\ c >= b => a < c
      OBVIOUS
    <3> QED
      BY <2>1, <2>2, <3>1, <3>2, <3>3
  <2>4. ASSUME NEW x \in DOMAIN entry, NEW batch, Added(x, batch, st, e)
        PROVE  e.offset < next_event_offset'[st]
    <3>1. PICK i \in 1..Len(batch) : e.offset = next_event_offset[st] + i - 1
      BY <2>4 DEF Added
    <3>2. next_event_offset'[st] = next_event_offset[st] + Len(batch) /\ Len(batch) \in Nat
      BY <2>4, AppendedRows DEF Added
    <3> QED
      BY <2>2, <3>1, <3>2
  <2> QED
    BY <2>1, <2>3, <2>4, EventsFrom
<1>3. ASSUME NEW s \in Sources, HasRow(s)', NEW e \in stream_events'[StreamIdOf[s]], Polled(e.payload.run)'
      PROVE  e.payload.run <= managed_sources'[s].run
  <2> DEFINE run == e.payload.run
  <2>0. StreamIdOf[s] \in Streams
    BY <1>0
  <2>1. PICK x \in DOMAIN entry : entry[x].run = run
    BY <2>0, EventRuns
  <2>2. Polled(run) /\ entry[x].spec \in PollSpecs
    <3> HIDE DEF run
    <3>1. Polled(run)'
      BY <1>3 DEF run
    <3> QED
      BY <2>1, <3>1, PolledKept
  <2>3. run \in Nat /\ next_run \in Nat
    BY <1>0, <2>1, TypedParts DEF TypeOK
  <2>4. run < next_run
    BY <2>1 DEF FenceInv, OneSpecPerRun, RunsAgree, Known
  <2>5. ASSUME NEW p \in Procs, NewRow(s, p) PROVE run <= managed_sources'[s].run
    <3>1. managed_sources'[s].run = next_run
      BY <2>5 DEF NewRow
    <3> QED
      BY <2>3, <2>4, <3>1
  <2>6. CASE SameRow(s)
    <3>0. managed_sources'[s].run = managed_sources[s].run /\ HasRow(s)
      BY <2>6 DEF SameRow
    <3>1. CASE e \in stream_events[StreamIdOf[s]]
      BY <1>0, <2>2, <3>0, <3>1 DEF EventsKnown
    <3>2. ASSUME NEW y \in DOMAIN entry, NEW batch, Added(y, batch, StreamIdOf[s], e)
          PROVE  run <= managed_sources'[s].run
      <4>1. entry[y].s = s /\ entry[y].run = run
        BY <1>0, <3>2, TypedParts, SourcesAssumption DEF Added
      <4>2. entry[y].spec \in PollSpecs
        <5> HIDE DEF run
        <5>1. Polled(run)'
          BY <1>3 DEF run
        <5> QED
          BY <4>1, <5>1, PolledKept
      <4>3. ~RunnerEvent(y)
        BY <4>2 DEF RunnerEvent, Running, FenceInv, PushingRunners, Pushing
      <4>4. HasRun(s, run)
        BY <3>2, <4>1, <4>3 DEF Added, Appends
      <4> QED
        BY <2>3, <3>0, <4>4 DEF HasRun
    <3> QED
      BY <2>0, <3>1, <3>2, EventsFrom
  <2> QED
    BY <1>0, <1>3, <2>5, <2>6, RowsFrom
<1> QED
  BY <1>1, <1>2, <1>3 DEF EventsKnown

LEMMA PollsStayFenced == ASSUME FenceInv, Next PROVE PollRunsFenced'
<1>0. /\ TypeOK /\ next_event_offset \in [Streams -> Nat] /\ EventsKnown /\ PollRunsFenced
      /\ StreamTypeOK'
  BY TypesKept DEF FenceInv, TypeOK, StoreTypeOK, StreamTypeOK
<1>1. SUFFICES ASSUME NEW st \in Streams, NEW e \in stream_events'[st], NEW f \in stream_events'[st],
                      e.offset < f.offset, Polled(e.payload.run)', Polled(f.payload.run)'
               PROVE  e.payload.run <= f.payload.run
  BY DEF PollRunsFenced
<1>2. Polled(e.payload.run) /\ Polled(f.payload.run)
  BY <1>1, EventRuns
<1>3. e.offset \in Nat /\ f.offset \in Nat /\ next_event_offset[st] \in Nat
  BY <1>0 DEF StreamTypeOK, EventRow
<1>4. CASE e \in stream_events[st] /\ f \in stream_events[st]
  BY <1>0, <1>1, <1>2, <1>4 DEF PollRunsFenced
<1>5. ASSUME NEW x \in DOMAIN entry, NEW batch, Added(x, batch, st, e), f \in stream_events[st]
      PROVE  FALSE
  <2>1. PICK i \in 1..Len(batch) : e.offset = next_event_offset[st] + i - 1
    BY <1>5 DEF Added
  <2>2. f.offset < next_event_offset[st] /\ Len(batch) \in Nat
    BY <1>0, <1>5, AppendedRows DEF EventsKnown, Added
  <2> QED
    BY <1>1, <1>3, <2>1, <2>2
<1>6. ASSUME NEW y \in DOMAIN entry, NEW batch, Added(y, batch, st, f) PROVE e.payload.run <= f.payload.run
  <2>1. entry[y].run = f.payload.run /\ st = StreamIdOf[entry[y].s] /\ entry[y].s \in Sources
        /\ entry[y].run \in Nat
    BY <1>0, <1>6, TypedParts DEF Added
  <2>2. entry[y].spec \in PollSpecs
    BY <1>1, <2>1, PolledKept
  <2>3. ~RunnerEvent(y)
    BY <2>2 DEF RunnerEvent, Running, FenceInv, PushingRunners, Pushing
  <2>4. HasRun(entry[y].s, entry[y].run)
    BY <1>6, <2>3 DEF Added, Appends
  <2>5. CASE e \in stream_events[st]
    BY <1>0, <1>2, <2>1, <2>4, <2>5 DEF EventsKnown, HasRun
  <2>6. ASSUME NEW x \in DOMAIN entry, NEW b, Added(x, b, st, e)
        PROVE  e.payload.run = f.payload.run
    <3>1. st = StreamIdOf[entry[x].s] /\ entry[x].run = e.payload.run /\ entry[x].s \in Sources
      BY <1>0, <2>6, TypedParts DEF Added
    <3>2. entry[x].s = entry[y].s
      BY <2>1, <3>1, SourcesAssumption
    <3>3. entry[x].spec \in PollSpecs
      BY <1>1, <3>1, PolledKept
    <3>4. ~RunnerEvent(x)
      BY <3>3 DEF RunnerEvent, Running, FenceInv, PushingRunners, Pushing
    <3>5. HasRun(entry[x].s, entry[x].run)
      BY <2>6, <3>4 DEF Added, Appends
    <3> QED
      BY <2>1, <2>4, <3>1, <3>2, <3>5 DEF HasRun
  <2> QED
    BY <2>1, <2>5, <2>6, EventsFrom
<1> QED
  BY <1>4, <1>5, <1>6, EventsFrom

-----------------------------------------------------------------------------
(* The fence holds. *)

LEMMA FenceStart == Init => FenceInv
<1> SUFFICES ASSUME Init PROVE FenceInv
  OBVIOUS
<1>1. StoreTypeOK
  BY DEF Init, StoreInit, StreamInit, StoreTypeOK, StreamTypeOK
<1>2. handler \in [Procs -> Handler] /\ \A p \in Procs : handler[p] = Idle
  BY IdleFields DEF Init
<1>3. entry = <<>> /\ next_entry = 1 /\ DOMAIN entry = {} /\ 1..(next_entry - 1) = {}
  BY DEF Init
<1>4. entry \in [1..(next_entry - 1) -> Entry] /\ next_entry \in 1..(MaxEntries + 1)
  BY <1>3, ManagerAssumption
<1>5. /\ entries \in [Sources -> EntryIds \cup {NoEntry}] /\ feed \in [Sources -> 0..MaxItems]
      /\ next_run \in Nat \ {0}
  BY ManagerAssumption DEF Init
<1>6. TypeOK
  BY <1>1, <1>2, <1>4, <1>5 DEF TypeOK
<1>7. HandlersHaveEntries
  BY <1>2, IdleFields DEF Init, HandlersHaveEntries
<1>8. OneSpecPerRun
  <2>1. PICK spec : spec \in Specs
    BY ManagerAssumption
  <2>2. [run \in Runs |-> spec] \in [Runs -> Specs]
    BY <2>1
  <2>3. \A s \in Sources : ~HasRow(s)
    BY DEF Init, StoreInit, HasRow
  <2>4. \A p \in Procs : ~Placing(handler[p]) /\ handler[p].todo = {}
    BY <1>2, IdleFields DEF Placing
  <2> DEFINE f == [run \in Runs |-> spec]
  <2> HIDE DEF f
  <2>5. RunsAgree(f)
    BY <1>3, <2>3, <2>4 DEF RunsAgree
  <2> QED
    BY <2>2, <2>5 DEF OneSpecPerRun, f
<1>9. PushingRunners /\ EventsCounted
  BY <1>3 DEF PushingRunners, EventsCounted
<1>10. EventsKnown /\ PollRunsFenced
  BY DEF Init, StoreInit, StreamInit, EventsKnown, PollRunsFenced, HasRow
<1> QED
  BY <1>6, <1>7, <1>8, <1>9, <1>10 DEF FenceInv

LEMMA FenceStutter == FenceInv /\ UNCHANGED vars => FenceInv'
<1> SUFFICES ASSUME FenceInv, UNCHANGED vars PROVE FenceInv'
  OBVIOUS
<1> USE DEF vars, storeVars, streamVars, managerVars, envVars, requestVars
<1>1. TypeOK'
  BY DEF FenceInv, TypeOK, StoreTypeOK, StreamTypeOK
<1>2. HandlersHaveEntries' /\ PushingRunners' /\ EventsCounted'
  BY DEF FenceInv, HandlersHaveEntries, PushingRunners, EventsCounted
<1>3. OneSpecPerRun'
  BY DEF FenceInv, OneSpecPerRun, RunsAgree, Known, HasRow
<1>4. EventsKnown' /\ PollRunsFenced'
  BY DEF FenceInv, EventsKnown, PollRunsFenced, Polled, HasRow, StreamExists
<1> QED
  BY <1>1, <1>2, <1>3, <1>4 DEF FenceInv

\* The inductive invariant of the fence: every handler, runner, row and event
\* is typed, run ids name one spec each, and no step breaks the order of polls.
THEOREM FenceInvariance == Spec => []FenceInv
<1>1. Init => FenceInv
  BY FenceStart
<1>2. FenceInv /\ [Next]_vars => FenceInv'
  <2> SUFFICES ASSUME FenceInv, [Next]_vars PROVE FenceInv'
    OBVIOUS
  <2>1. CASE Next
    BY <2>1, TypesKept, EntriesStay, RunsStayOneSpec, RunnersStayCounted, EventsStayKnown,
       PollsStayFenced DEF FenceInv
  <2>2. CASE UNCHANGED vars
    BY <2>2, FenceStutter
  <2> QED
    BY <2>1, <2>2
<1> QED
  BY <1>1, <1>2, PTL DEF Spec

\* Whatever requests, crashes and late writes interleave, the manager's state
\* keeps its types.
THEOREM ManagerTypeCorrect == Spec => []TypeOK
<1>1. FenceInv => TypeOK
  BY DEF FenceInv
<1> QED
  BY <1>1, FenceInvariance, PTL

\* append_events_and_store_poll_checkpoint's run check fences polls: once a
\* replacement run has polled into a stream, no poll of the run it replaced is
\* added any more, for any number of clients, sources, crashes and late writes.
THEOREM PollsFenced == Spec => []PollRunsFenced
<1>1. FenceInv => PollRunsFenced
  BY DEF FenceInv
<1> QED
  BY <1>1, FenceInvariance, PTL

-----------------------------------------------------------------------------
(* What the steps of a handler do, place by place. *)

Moves(p, pc) == handler'[p].pc = pc /\ SameJob(handler'[p], handler[p]) /\ Others(p)
KeepRows == managed_sources' = managed_sources
KeepStreams == next_event_offset' = next_event_offset /\ stream_events' = stream_events
KeepRunners == entries' = entries /\ entry' = entry
KeepOps == feed' = feed /\ last_op' = last_op /\ fresh_from' = fresh_from
KeepAll == KeepRows /\ KeepStreams /\ KeepRunners /\ KeepOps

\* Rows of other sources stay as they are.
OtherRows(s) == \A u \in Sources : u # s => managed_sources'[u] = managed_sources[u]
OtherPlaces(s) == \A u \in Sources : u # s => entries'[u] = entries[u]
SameRunner(e, d) ==
  /\ e.s = d.s /\ e.spec = d.spec /\ e.run = d.run /\ e.aborted = d.aborted
  /\ e.pc = d.pc /\ e.cp = d.cp /\ e.got = d.got /\ e.view = d.view
EndedRunner(e, d) ==
  e.s = d.s /\ e.spec = d.spec /\ e.run = d.run /\ e.aborted = d.aborted /\ e.pc = "dead"
OneRunner(x) ==
  /\ x \in DOMAIN entry /\ DOMAIN entry' = DOMAIN entry
  /\ \A y \in DOMAIN entry : y # x => entry'[y] = entry[y]

LEMMA RowEffects ==
  ASSUME TypeOK, NEW s \in Sources
  PROVE  /\ \A status \in Statuses : SetStatus(s, status) =>
              /\ OtherRows(s) /\ (HasRow(s)' <=> HasRow(s)) /\ KeepStreams
              /\ HasRow(s) =>
                   /\ managed_sources'[s].status = status
                   /\ managed_sources'[s].run = managed_sources[s].run
                   /\ managed_sources'[s].checkpoint = managed_sources[s].checkpoint
         /\ DeleteSource(s) => OtherRows(s) /\ ~HasRow(s)' /\ KeepStreams
         /\ \A run : ClearPollCheckpoint(s, run) =>
              /\ OtherRows(s) /\ (HasRow(s)' <=> HasRow(s)) /\ KeepStreams
              /\ HasRow(s) =>
                   /\ managed_sources'[s].status = managed_sources[s].status
                   /\ managed_sources'[s].run = managed_sources[s].run
                   /\ \/ managed_sources'[s].checkpoint = NoCheckpoint
                      \/ managed_sources'[s].checkpoint = managed_sources[s].checkpoint
         /\ \A cp \in Checkpoints :
              HasRow(s) /\ managed_sources' = [managed_sources EXCEPT ![s].checkpoint = cp] =>
                /\ OtherRows(s) /\ HasRow(s)'
                /\ managed_sources'[s].status = managed_sources[s].status
                /\ managed_sources'[s].run = managed_sources[s].run
                /\ managed_sources'[s].checkpoint = cp
<1>0. /\ managed_sources \in [Sources -> SourceRow \cup {NoRow}]
      /\ HasRow(s) => managed_sources[s] \in SourceRow
  BY TypedParts DEF TypeOK, StoreTypeOK
<1>1. ASSUME NEW row, managed_sources' = [managed_sources EXCEPT ![s] = row]
      PROVE  OtherRows(s) /\ managed_sources'[s] = row
  BY <1>0, <1>1 DEF OtherRows
<1>2. ASSUME KeepRows PROVE OtherRows(s) /\ (HasRow(s)' <=> HasRow(s))
  BY <1>2 DEF OtherRows, KeepRows, HasRow
<1>3. ASSUME NEW status \in Statuses, SetStatus(s, status)
      PROVE  /\ OtherRows(s) /\ (HasRow(s)' <=> HasRow(s)) /\ KeepStreams
             /\ HasRow(s) =>
                  /\ managed_sources'[s].status = status
                  /\ managed_sources'[s].run = managed_sources[s].run
                  /\ managed_sources'[s].checkpoint = managed_sources[s].checkpoint
  <2>0. KeepStreams
    BY <1>3 DEF SetStatus, KeepStreams, streamVars
  <2>1. CASE HasRow(s)
    <3> DEFINE row == [managed_sources[s] EXCEPT !.status = status]
    <3>1. managed_sources' = [managed_sources EXCEPT ![s] = row]
      BY <1>3, <2>1 DEF SetStatus
    <3>2. /\ row.status = status /\ row.run = managed_sources[s].run
          /\ row.checkpoint = managed_sources[s].checkpoint
      BY <1>0, <2>1 DEF SourceRow
    <3>3. row \in SourceRow
      BY <1>0, <2>1 DEF SourceRow
    <3> HIDE DEF row
    <3> QED
      BY <1>1, <2>0, <2>1, <3>1, <3>2, <3>3, RowAssumption DEF HasRow
  <2>2. CASE ~HasRow(s)
    BY <1>2, <1>3, <2>0, <2>2 DEF SetStatus, KeepRows
  <2> QED
    BY <2>1, <2>2
<1>4. ASSUME DeleteSource(s) PROVE OtherRows(s) /\ ~HasRow(s)' /\ KeepStreams
  BY <1>1, <1>4 DEF DeleteSource, KeepStreams, streamVars, HasRow
<1>5. ASSUME NEW cp \in Checkpoints \cup {NoCheckpoint}, HasRow(s),
             managed_sources' = [managed_sources EXCEPT ![s].checkpoint = cp]
      PROVE  /\ OtherRows(s) /\ HasRow(s)'
             /\ managed_sources'[s].status = managed_sources[s].status
             /\ managed_sources'[s].run = managed_sources[s].run
             /\ managed_sources'[s].checkpoint = cp
  <2> DEFINE row == [managed_sources[s] EXCEPT !.checkpoint = cp]
  <2>1. managed_sources' = [managed_sources EXCEPT ![s] = row]
    BY <1>5
  <2>2. /\ row.checkpoint = cp /\ row.run = managed_sources[s].run
        /\ row.status = managed_sources[s].status
    BY <1>0, <1>5 DEF SourceRow
  <2>3. row \in SourceRow
    BY <1>0, <1>5 DEF SourceRow
  <2> HIDE DEF row
  <2> QED
    BY <1>1, <2>1, <2>2, <2>3, RowAssumption DEF HasRow
<1>6. ASSUME NEW run, ClearPollCheckpoint(s, run)
      PROVE  /\ OtherRows(s) /\ (HasRow(s)' <=> HasRow(s)) /\ KeepStreams
             /\ HasRow(s) =>
                  /\ managed_sources'[s].status = managed_sources[s].status
                  /\ managed_sources'[s].run = managed_sources[s].run
                  /\ \/ managed_sources'[s].checkpoint = NoCheckpoint
                     \/ managed_sources'[s].checkpoint = managed_sources[s].checkpoint
  <2>0. KeepStreams
    BY <1>6 DEF ClearPollCheckpoint, KeepStreams, streamVars
  <2>1. CASE HasRun(s, run)
    <3>1. HasRow(s) /\ managed_sources' = [managed_sources EXCEPT ![s].checkpoint = NoCheckpoint]
      BY <1>6, <2>1 DEF ClearPollCheckpoint, HasRun
    <3> QED
      BY <1>5, <2>0, <3>1
  <2>2. CASE ~HasRun(s, run)
    <3>1. KeepRows
      BY <1>6, <2>2 DEF ClearPollCheckpoint, KeepRows
    <3> QED
      BY <1>2, <2>0, <3>1 DEF KeepRows
  <2> QED
    BY <2>1, <2>2
<1> QED
  BY <1>3, <1>4, <1>5, <1>6

LEMMA RunnerEffects ==
  ASSUME TypeOK, NEW x \in DOMAIN entry, NEW p
  PROVE  /\ entry' = [entry EXCEPT ![x].task = "set"] =>
              OneRunner(x) /\ SameRunner(entry'[x], entry[x]) /\ entry'[x].task = "set"
         /\ entry' = [entry EXCEPT ![x].stop = TRUE] =>
              OneRunner(x) /\ SameRunner(entry'[x], entry[x]) /\ entry'[x].task = entry[x].task
         /\ entry' = [entry EXCEPT ![x].holder = NoProc] =>
              OneRunner(x) /\ SameRunner(entry'[x], entry[x]) /\ entry'[x].task = entry[x].task
         /\ entry' = [entry EXCEPT ![x].task = "taken", ![x].holder = p] =>
              OneRunner(x) /\ SameRunner(entry'[x], entry[x]) /\ entry'[x].task = "taken"
         /\ entry' = [entry EXCEPT ![x] = [entry[x] EXCEPT !.pc = "dead", !.holder = NoProc]] =>
              OneRunner(x) /\ EndedRunner(entry'[x], entry[x])
<1>0. entry[x] \in Entry
  BY TypedParts
<1>1. ASSUME NEW e, entry' = [entry EXCEPT ![x] = e] PROVE OneRunner(x) /\ entry'[x] = e
  BY <1>1 DEF OneRunner
<1>2. /\ SameRunner([entry[x] EXCEPT !.task = "set"], entry[x])
      /\ SameRunner([entry[x] EXCEPT !.stop = TRUE], entry[x])
      /\ SameRunner([entry[x] EXCEPT !.holder = NoProc], entry[x])
      /\ SameRunner([entry[x] EXCEPT !.task = "taken", !.holder = p], entry[x])
  BY <1>0 DEF Entry, SameRunner
<1>3. /\ [entry[x] EXCEPT !.task = "set"].task = "set"
      /\ [entry[x] EXCEPT !.stop = TRUE].task = entry[x].task
      /\ [entry[x] EXCEPT !.holder = NoProc].task = entry[x].task
      /\ [entry[x] EXCEPT !.task = "taken", !.holder = p].task = "taken"
  BY <1>0 DEF Entry
<1>4. EndedRunner([entry[x] EXCEPT !.pc = "dead", !.holder = NoProc], entry[x])
  BY <1>0 DEF Entry, EndedRunner
<1>5. ASSUME entry' = [entry EXCEPT ![x].task = "set"]
      PROVE  OneRunner(x) /\ SameRunner(entry'[x], entry[x]) /\ entry'[x].task = "set"
  BY <1>1, <1>2, <1>3, <1>5
<1>6. ASSUME entry' = [entry EXCEPT ![x].stop = TRUE]
      PROVE  OneRunner(x) /\ SameRunner(entry'[x], entry[x]) /\ entry'[x].task = entry[x].task
  BY <1>1, <1>2, <1>3, <1>6
<1>7. ASSUME entry' = [entry EXCEPT ![x].holder = NoProc]
      PROVE  OneRunner(x) /\ SameRunner(entry'[x], entry[x]) /\ entry'[x].task = entry[x].task
  BY <1>1, <1>2, <1>3, <1>7
<1>8. ASSUME entry' = [entry EXCEPT ![x].task = "taken", ![x].holder = p]
      PROVE  OneRunner(x) /\ SameRunner(entry'[x], entry[x]) /\ entry'[x].task = "taken"
  <2>1. entry' = [entry EXCEPT ![x] = [entry[x] EXCEPT !.task = "taken", !.holder = p]]
    BY <1>8
  <2> QED
    BY <1>1, <1>2, <1>3, <2>1
<1>9. ASSUME entry' = [entry EXCEPT ![x] = [entry[x] EXCEPT !.pc = "dead", !.holder = NoProc]]
      PROVE  OneRunner(x) /\ EndedRunner(entry'[x], entry[x])
  BY <1>1, <1>4, <1>9
<1> QED
  BY <1>5, <1>6, <1>7, <1>8, <1>9

-----------------------------------------------------------------------------
(* The parts of the serial invariant that a handler's step leaves alone. *)

LEMMA Alone ==
  ASSUME SerialInv, NEW p \in Procs, ~At(p, "idle")
  PROVE  /\ \A q \in Procs : q # p => handler[q].pc = "idle" /\ handler[q].todo = {}
         /\ p # Boot => /\ handler[p].todo = {} /\ handler[p].pc \notin {"boot_load", "boot_next"}
                        /\ handler[Boot].pc = "idle" /\ handler[Boot].todo = {}
         /\ p = Boot => handler[p].pc \in Placed \cup {"boot_load", "boot_next"}
<1>1. OneAtATime /\ Boot \in Procs
  BY DEF SerialInv, Procs
<1>2. \A q \in Procs : q # p => handler[q].pc = "idle"
  BY <1>1 DEF OneAtATime, At
<1> QED
  BY <1>1, <1>2 DEF OneAtATime, At

LEMMA OneStays ==
  ASSUME SerialInv, NEW p \in Procs, ~At(p, "idle"), Others(p),
         p # Boot => handler'[p].todo = {} /\ handler'[p].pc \notin {"boot_load", "boot_next"},
         p = Boot => \/ handler'[p].pc \in Placed \cup {"boot_load", "boot_next"}
                     \/ handler'[p].pc = "idle" /\ handler'[p].todo = {}
  PROVE  OneAtATime'
<1>1. \A q \in Procs : q # p => handler'[q].pc = "idle" /\ handler'[q].todo = {}
  BY Alone DEF Others
<1>2. Boot \in Procs
  BY DEF Procs
<1>3. \A q \in Procs, r \in Procs : handler'[q].pc # "idle" /\ handler'[r].pc # "idle" => q = r
  BY <1>1
<1>4. "idle" \notin Placed /\ "boot_load" \notin Placed /\ "boot_next" \notin Placed
  BY DEF Placed
<1>5. \A q \in Procs : q # Boot \/ handler'[q].pc = "idle" =>
        handler'[q].todo = {} /\ handler'[q].pc # "boot_load" /\ handler'[q].pc # "boot_next"
  BY <1>1, <1>4
<1>6. handler'[Boot].pc \in Placed \cup {"idle", "boot_load", "boot_next"}
  BY <1>1, <1>2
<1> QED
  BY <1>3, <1>5, <1>6 DEF OneAtATime, At

LEMMA MovesOne ==
  ASSUME SerialInv, NEW p \in Procs, ~At(p, "idle"), NEW pc, Moves(p, pc),
         pc \notin {"boot_load", "boot_next"},
         handler[p].pc \in Placed => pc \in Placed,
         handler[p].pc \notin {"boot_load", "boot_next"}
  PROVE  OneAtATime'
<1>1. p # Boot => handler'[p].todo = {} /\ handler'[p].pc \notin {"boot_load", "boot_next"}
  BY Alone DEF Moves, SameJob
<1>2. p = Boot => handler'[p].pc \in Placed \cup {"boot_load", "boot_next"}
  BY Alone DEF Moves
<1> QED
  BY <1>1, <1>2, OneStays DEF Moves

LEMMA RunnersStay ==
  ASSUME SerialInv, KeepRows, KeepStreams, entries' = entries, feed' = feed,
         fresh_from' = fresh_from, DOMAIN entry' = DOMAIN entry,
         \A x \in DOMAIN entry : SameRunner(entry'[x], entry[x]), HandlersHaveEntries
  PROVE  RunnersNamed' /\ RunnersEnd' /\ PolledTo' /\ PolledOnce'
<1>1. \A s : (HasRow(s)' <=> HasRow(s)) /\ managed_sources'[s] = managed_sources[s]
  BY DEF KeepRows, HasRow
<1>2. \A x \in DOMAIN entry : entry[x].s = entry'[x].s /\ (Live(x)' <=> Live(x))
  BY DEF SameRunner, Live
<1>3. \A run : Polled(run)' <=> Polled(run)
  BY DEF Polled, SameRunner
<1>4. \A s : (Active(s)' <=> Active(s)) /\ CheckpointOf(s)' = CheckpointOf(s)
  BY <1>1 DEF Active, CheckpointOf
<1>5. RunnersNamed'
  BY <1>1, <1>2 DEF SerialInv, RunnersNamed, SameRunner, HandlersHaveEntries
<1>6. RunnersEnd'
  BY <1>2, <1>4 DEF SerialInv, RunnersEnd, SameRunner
<1>7. PolledTo'
  BY <1>1, <1>2, <1>3, <1>4 DEF SerialInv, PolledTo, SameRunner, Fresh, KeepStreams
<1>8. PolledOnce'
  BY <1>3 DEF SerialInv, PolledOnce, KeepStreams
<1> QED
  BY <1>5, <1>6, <1>7, <1>8

LEMMA StoppedMoves ==
  ASSUME SerialInv, NEW p \in Procs, handler[p].pc \notin {"idle", "boot_load", "boot_next"},
         NEW pc, Moves(p, pc), last_op' = last_op, OtherRows(handler[p].s), OtherPlaces(handler[p].s)
  PROVE  StoppedStays'
<1> SUFFICES ASSUME NEW s \in Sources, last_op[s] \in {"stop", "delete"}
             PROVE  /\ entries'[s] = NoEntry
                    /\ HasRow(s)' => managed_sources'[s].status = "stopped"
                    /\ \A q \in Procs : handler'[q].pc \notin {"idle", "boot_load", "boot_next"} =>
                         handler'[q].s # s
                    /\ \A record \in handler'[Boot].todo : record.s # s
  BY DEF StoppedStays, For, Resumable
<1>1. s # handler[p].s
  BY DEF SerialInv, StoppedStays, For
<1>2. entries'[s] = entries[s] /\ managed_sources'[s] = managed_sources[s]
  BY <1>1 DEF OtherRows, OtherPlaces
<1>3. handler'[Boot].todo = handler[Boot].todo
  BY DEF Moves, SameJob, Others, Procs
<1>4. \A q \in Procs : q # p => handler'[q] = handler[q]
  BY DEF Moves, Others
<1>5. handler'[p].s = handler[p].s
  BY DEF Moves, SameJob
<1>6. /\ entries[s] = NoEntry
      /\ HasRow(s) => managed_sources[s].status = "stopped"
      /\ \A q \in Procs : handler[q].pc \notin {"idle", "boot_load", "boot_next"} => handler[q].s # s
      /\ \A record \in handler[Boot].todo : record.s # s
  BY DEF SerialInv, StoppedStays, For, Resumable
<1> QED
  BY <1>1, <1>2, <1>3, <1>4, <1>5, <1>6 DEF HasRow

\* The answer to a request.
Answers(p) ==
  /\ Others(p) /\ handler'[p].pc = "idle" /\ handler'[p].todo = {} /\ feed' = feed
  /\ DOMAIN last_op' = Sources /\ last_op'[handler[p].s] = handler[p].op
  /\ \A u \in Sources : u # handler[p].s => last_op'[u] = last_op[u]

LEMMA AnswerAnswers ==
  ASSUME TypeOK, SerialInv, NEW p \in Procs, Answer(p)
  PROVE  Answers(p)
<1>1. handler'[p].pc = "idle" /\ handler'[p].todo = {} /\ Others(p)
  BY AnswerMoves DEF Answer
<1>2. handler[p].s \in Sources /\ DOMAIN last_op = Sources
  BY TypedParts DEF SerialInv
<1> QED
  BY <1>1, <1>2 DEF Answer, Answers

LEMMA AnswerStays ==
  ASSUME SerialInv, NEW p \in Procs, ~At(p, "idle"), p # Boot, Answers(p),
         OtherRows(handler[p].s), OtherPlaces(handler[p].s),
         handler[p].op \in {"stop", "delete"} =>
           /\ entries'[handler[p].s] = NoEntry
           /\ \/ managed_sources'[handler[p].s] = NoRow
              \/ managed_sources'[handler[p].s].status = "stopped"
  PROVE  OneAtATime' /\ StoppedStays' /\ HandlersInTurn' /\ DOMAIN last_op' = Sources
<1>0. /\ \A q \in Procs : handler'[q].pc = "idle" /\ handler'[q].todo = {}
      /\ Boot \in Procs
  BY Alone DEF Answers, Others, Procs
<1>1. OneAtATime'
  BY <1>0 DEF OneAtATime, At
<1>2. HandlersInTurn'
  BY <1>0 DEF HandlersInTurn, InTurn, Stopping, Removed, Placed, Placing
<1>3. StoppedStays'
  <2> SUFFICES ASSUME NEW s \in Sources, last_op'[s] \in {"stop", "delete"}
               PROVE  /\ entries'[s] = NoEntry
                      /\ HasRow(s)' => managed_sources'[s].status = "stopped"
    BY <1>0 DEF StoppedStays, Resumable
  <2>1. CASE s = handler[p].s
    BY <2>1 DEF Answers, HasRow
  <2>2. CASE s # handler[p].s
    BY <2>2 DEF Answers, OtherRows, OtherPlaces, SerialInv, StoppedStays, HasRow
  <2> QED
    BY <2>1, <2>2
<1> QED
  BY <1>1, <1>2, <1>3 DEF Answers

\* Before a handler's step, but for a few places, runners are named and kept.
LEMMA Settled ==
  ASSUME SerialInv, NEW p \in Procs, ~At(p, "idle"),
         handler[p].pc \notin {"set_task", "stop_await", "stop_remove"}
  PROVE  /\ \A u \in Sources : entries[u] # NoEntry => Live(entries[u])
         /\ \A x \in DOMAIN entry : Live(x) => entry[x].task = "set"
<1>1. \A q \in Procs : handler[q].pc \notin {"set_task", "stop_await", "stop_remove"}
  BY Alone
<1> QED
  BY <1>1 DEF SerialInv, MapNamesLive, TasksKept, At

LEMMA SettledStays ==
  ASSUME SerialInv, HandlersHaveEntries, NEW p \in Procs, ~At(p, "idle"),
         handler[p].pc \notin {"set_task", "stop_await", "stop_remove"}, KeepRunners
  PROVE  MapNamesLive' /\ TasksKept'
<1>1. \A u \in Sources : entries[u] # NoEntry => Live(entries[u])
  BY Settled
<1>2. \A x \in DOMAIN entry : Live(x) => entry[x].task = "set"
  BY Settled
<1> QED
  BY <1>1, <1>2 DEF MapNamesLive, TasksKept, KeepRunners, Live

LEMMA ServedStays ==
  ASSUME SerialInv, NEW p \in Procs,
         handler[p].pc \notin {"idle", "boot_load", "boot_next", "check", "insert", "stop_remove",
                               "stop_clear"},
         Others(p), p = Boot => handler'[p].todo = handler[p].todo,
         \A u \in Sources : Active(u)' => Active(u),
         \A u \in Sources : entries[u] # NoEntry /\ Live(entries[u]) =>
           entries'[u] = entries[u] /\ Live(entries[u])'
  PROVE  RowsServed'
<1> SUFFICES ASSUME NEW u \in Sources, Active(u)' PROVE Served(u)'
  BY DEF RowsServed
<1>0. Boot \in Procs
  BY DEF Procs
<1>1. Served(u)
  BY DEF SerialInv, RowsServed
<1>2. ~At(Boot, "boot_load") /\ (p # Boot => handler[Boot].todo = {})
  BY <1>0, Alone DEF At
<1>3. \A q \in Procs : handler[q].pc \notin {"check", "insert", "stop_remove", "stop_clear"}
  BY Alone DEF At
<1>4. CASE entries[u] # NoEntry /\ Live(entries[u])
  <2>1. entries'[u] = entries[u] /\ Live(entries[u])'
    BY <1>4
  <2> QED
    BY <1>4, <2>1 DEF Served
<1>5. CASE Resumable(u)
  <2>1. p = Boot /\ handler'[Boot].todo = handler[Boot].todo
    BY <1>2, <1>5 DEF Resumable
  <2> QED
    BY <1>5, <2>1 DEF Served, Resumable
<1> QED
  BY <1>1, <1>2, <1>3, <1>4, <1>5 DEF Served

LEMMA OneInTurn ==
  ASSUME SerialInv, NEW p \in Procs, ~At(p, "idle"), Others(p), InTurn(handler[p])',
         p # Boot /\ handler'[p].pc \in Placed \cup {"get", "upsert"} => handler'[p].op = "ensure"
  PROVE  HandlersInTurn'
<1>1. \A q \in Procs : q # p => handler'[q].pc = "idle" /\ handler'[q].todo = {}
  BY Alone DEF Others
<1>2. \A q \in Procs : q # p => InTurn(handler[q])'
  BY <1>1 DEF InTurn, Stopping, Removed, Placed, Placing
<1>3. "idle" \notin Placed \cup {"get", "upsert"}
  BY DEF Placed
<1>4. \A q \in Procs : q # Boot /\ handler'[q].pc \in Placed \cup {"get", "upsert"} =>
        handler'[q].op = "ensure"
  BY <1>1, <1>3
<1>5. \A q \in Procs : InTurn(handler[q])'
  BY <1>2
<1> QED
  BY <1>4, <1>5 DEF HandlersInTurn

\* A step that only moves its handler.
QuietParts ==
  /\ DOMAIN last_op = Sources /\ DOMAIN fresh_from = Sources
  /\ OneAtATime /\ RunnersNamed /\ RunnersEnd /\ StoppedStays /\ PolledTo /\ PolledOnce

LEMMA QuietStep ==
  ASSUME FenceInv, SerialInv, NEW p \in Procs,
         handler[p].pc \notin {"idle", "boot_load", "boot_next"}, KeepAll, NEW pc, Moves(p, pc),
         pc \notin {"boot_load", "boot_next"}, handler[p].pc \in Placed => pc \in Placed
  PROVE  QuietParts'
<1>0. KeepRows /\ KeepStreams /\ KeepRunners /\ KeepOps /\ ~At(p, "idle")
  BY DEF KeepAll, At
<1>1. OneAtATime'
  BY <1>0, MovesOne
<1>2. StoppedStays'
  <2>1. OtherRows(handler[p].s) /\ OtherPlaces(handler[p].s) /\ last_op' = last_op
    BY <1>0 DEF KeepRows, KeepRunners, KeepOps, OtherRows, OtherPlaces
  <2> QED
    BY <2>1, StoppedMoves
<1>3. RunnersNamed' /\ RunnersEnd' /\ PolledTo' /\ PolledOnce'
  <2>1. \A x \in DOMAIN entry : SameRunner(entry[x], entry[x])
    BY DEF SameRunner
  <2>2. HandlersHaveEntries
    BY DEF FenceInv
  <2> QED
    BY <1>0, <2>1, <2>2, RunnersStay DEF KeepRunners, KeepOps
<1> QED
  BY <1>0, <1>1, <1>2, <1>3 DEF QuietParts, KeepOps, SerialInv

LEMMA SerialEnsureGet == ASSUME FenceInv, SerialInv, NEW p \in Procs, EnsureGet(p) PROVE SerialInv'
<1> DEFINE s == handler[p].s
<1>0. /\ TypeOK /\ HandlersHaveEntries /\ At(p, "get") /\ ~At(p, "idle") /\ s \in Sources
      /\ handler[p].pc = "get"
  BY TypedParts DEF FenceInv, EnsureGet, At
<1>1. KeepAll
  BY DEF EnsureGet, KeepAll, KeepRows, KeepStreams, KeepRunners, KeepOps, storeVars, streamVars,
     envVars, requestVars
<1>2. PICK pc \in {"upsert", "check", "stop_get"} :
        /\ Moves(p, pc)
        /\ pc = "upsert" => ~HasRow(s)
        /\ pc = "check" => HasRow(s) /\ handler'[p].run = managed_sources[s].run
  <2>1. CASE ~HasRow(s) /\ Goto(p, "upsert")
    BY <1>0, <2>1, GotoMoves DEF Moves
  <2>2. CASE Goto(p, "stop_get")
    BY <1>0, <2>2, GotoMoves DEF Moves
  <2>3. CASE HasRow(s) /\ SetRun(p, "check", managed_sources[s].run)
    <3>1. Moves(p, "check") /\ handler'[p].run = managed_sources[s].run
      BY <1>0, <2>3, RunMoves DEF Moves
    <3> QED
      BY <2>3, <3>1
  <2> QED
    BY <2>1, <2>2, <2>3 DEF EnsureGet, SetRun
<1>3. QuietParts'
  <2>1. "get" \notin Placed
    BY DEF Placed
  <2> QED
    BY <1>0, <1>1, <1>2, <2>1, QuietStep
<1>4. MapNamesLive' /\ TasksKept'
  BY <1>0, <1>1, SettledStays DEF KeepAll
<1>5. RowsServed'
  <2>1. \A u \in Sources : Active(u)' => Active(u)
    BY <1>1 DEF KeepAll, KeepRows, Active, HasRow
  <2>2. \A u \in Sources : entries[u] # NoEntry /\ Live(entries[u]) =>
          entries'[u] = entries[u] /\ Live(entries[u])'
    BY <1>1 DEF KeepAll, KeepRunners, Live
  <2>3. Others(p) /\ handler'[p].todo = handler[p].todo
    BY <1>2 DEF Moves, SameJob
  <2> QED
    BY <1>0, <2>1, <2>2, <2>3, ServedStays
<1>6. HandlersInTurn'
  <2>1. handler'[p].s = s /\ handler'[p].todo = handler[p].todo /\ handler'[p].op = handler[p].op
        /\ Others(p) /\ handler'[p].pc = pc
    BY <1>2 DEF Moves, SameJob
  <2>2. handler[p].op = "ensure" \/ p = Boot
    BY <1>0 DEF SerialInv, HandlersInTurn
  <2>3. ~HasRow(s) => entries[s] = NoEntry
    BY <1>0 DEF SerialInv, RunnersNamed
  <2>4. \A record \in handler[p].todo :
          HasRow(record.s) /\ record.run = managed_sources[record.s].run
    BY DEF SerialInv, HandlersInTurn, InTurn
  <2>5. InTurn(handler[p])'
    BY <1>1, <1>2, <2>1, <2>3, <2>4 DEF InTurn, Stopping, Removed, Placed, Placing, KeepAll, KeepRows,
       KeepRunners, HasRow
  <2> QED
    BY <1>0, <2>1, <2>2, <2>5, OneInTurn
<1> QED
  BY <1>3, <1>4, <1>5, <1>6 DEF QuietParts, SerialInv

LEMMA ServedOthers ==
  ASSUME SerialInv, NEW p \in Procs, handler[p].pc \notin {"idle", "boot_load", "boot_next"},
         Others(p), p = Boot => handler'[p].todo = handler[p].todo,
         NEW s \in Sources, s = handler[p].s,
         \A u \in Sources : u # s /\ Active(u)' => Active(u),
         \A u \in Sources : u # s /\ entries[u] # NoEntry /\ Live(entries[u]) =>
           entries'[u] = entries[u] /\ Live(entries[u])',
         Active(s)' => Served(s)'
  PROVE  RowsServed'
<1> SUFFICES ASSUME NEW u \in Sources, u # s, Active(u)' PROVE Served(u)'
  BY DEF RowsServed
<1>0. Boot \in Procs
  BY DEF Procs
<1>1. Served(u)
  BY DEF SerialInv, RowsServed
<1>2. ~At(Boot, "boot_load") /\ (p # Boot => handler[Boot].todo = {})
  BY <1>0, Alone DEF At
<1>3. \A q \in Procs : handler[q].pc \in {"check", "insert", "stop_remove", "stop_clear"} => ~For(q, u)
  BY Alone DEF At, For
<1>4. CASE entries[u] # NoEntry /\ Live(entries[u])
  <2>1. entries'[u] = entries[u] /\ Live(entries[u])'
    BY <1>4
  <2> QED
    BY <1>4, <2>1 DEF Served
<1>5. CASE Resumable(u)
  <2>1. p = Boot /\ handler'[Boot].todo = handler[Boot].todo
    BY <1>2, <1>5 DEF Resumable
  <2> QED
    BY <1>5, <2>1 DEF Served, Resumable
<1> QED
  BY <1>1, <1>2, <1>3, <1>4, <1>5 DEF Served

\* Where ensure_runner_for_record returns to.
EnsuredParts == DOMAIN last_op = Sources /\ OneAtATime /\ StoppedStays /\ HandlersInTurn

LEMMA EnsuredStays ==
  ASSUME FenceInv, SerialInv, NEW p \in Procs, handler[p].pc \in Placed, Ensured(p), KeepRows,
         entries' = entries
  PROVE  /\ EnsuredParts' /\ Others(p) /\ feed' = feed
         /\ p = Boot => handler'[p].todo = handler[p].todo
<1>0. TypeOK /\ ~At(p, "idle") /\ handler[p].pc \notin {"idle", "boot_load", "boot_next"}
      /\ Boot \in Procs
  BY DEF FenceInv, Placed, At, Procs
<1>1. OtherRows(handler[p].s) /\ OtherPlaces(handler[p].s)
  BY DEF KeepRows, OtherRows, OtherPlaces
<1>2. CASE p # Boot
  <2>1. Answers(p)
    BY <1>0, <1>2, AnswerAnswers DEF Ensured
  <2>2. handler[p].op = "ensure"
    BY <1>2 DEF SerialInv, HandlersInTurn
  <2>3. OneAtATime' /\ StoppedStays' /\ HandlersInTurn' /\ DOMAIN last_op' = Sources
    BY <1>0, <1>1, <1>2, <2>1, <2>2, AnswerStays
  <2> QED
    BY <1>2, <2>1, <2>3 DEF Answers, EnsuredParts
<1>3. CASE p = Boot
  <2>1. Others(p) /\ handler'[p].pc = "boot_next" /\ handler'[p].todo = handler[p].todo
    BY <1>0, <1>3, EnsuredMoves
  <2>2. feed' = feed /\ last_op' = last_op
    BY <1>3 DEF Ensured, requestVars
  <2>3. OneAtATime'
    BY <1>0, <1>3, <2>1, OneStays
  <2>4. HandlersInTurn'
    <3>1. \A record \in handler[p].todo :
            HasRow(record.s) /\ record.run = managed_sources[record.s].run
      BY DEF SerialInv, HandlersInTurn, InTurn
    <3>2. InTurn(handler[p])'
      BY <2>1, <3>1 DEF InTurn, Stopping, Removed, Placed, Placing, KeepRows, HasRow
    <3> QED
      BY <1>0, <1>3, <2>1, <3>2, OneInTurn
  <2>5. StoppedStays'
    <3>1. \A q \in Procs : handler'[q].pc \in {"idle", "boot_next"}
      BY <1>0, <1>3, <2>1, Alone DEF Others
    <3>2. \A u : Resumable(u)' <=> Resumable(u)
      BY <1>3, <2>1 DEF Resumable
    <3> QED
      BY <2>2, <3>1, <3>2 DEF SerialInv, StoppedStays, KeepRows, HasRow
  <2> QED
    BY <1>3, <2>1, <2>2, <2>3, <2>4, <2>5 DEF EnsuredParts, SerialInv
<1> QED
  BY <1>2, <1>3

LEMMA SerialRunnerCheck == ASSUME FenceInv, SerialInv, NEW p \in Procs, RunnerCheck(p) PROVE SerialInv'
<1>0. PICK s \in Sources : s = handler[p].s
  BY TypedParts DEF FenceInv
<1>1. /\ TypeOK /\ HandlersHaveEntries /\ ~At(p, "idle") /\ handler[p].pc = "check"
      /\ handler[p].pc \in Placed /\ KeepRows /\ KeepStreams /\ KeepRunners
      /\ fresh_from' = fresh_from
  BY DEF FenceInv, RunnerCheck, At, Placed, KeepRows, KeepStreams, KeepRunners, storeVars, streamVars
<1>2. MapNamesLive' /\ TasksKept'
  BY <1>1, SettledStays
<1>a. \A u \in Sources : Active(u)' => Active(u)
  BY <1>1 DEF KeepRows, Active, HasRow
<1>b. \A u \in Sources : entries[u] # NoEntry /\ Live(entries[u]) =>
        entries'[u] = entries[u] /\ Live(entries[u])'
  BY <1>1 DEF KeepRunners, Live
<1>3. CASE entries[s] # NoEntry /\ Ensured(p)
  <2>1. /\ EnsuredParts' /\ Others(p) /\ feed' = feed
        /\ p = Boot => handler'[p].todo = handler[p].todo
    BY <1>1, <1>3, EnsuredStays DEF KeepRunners
  <2>2. Live(entries[s])
    BY <1>1, <1>3, Settled
  <2>3. Served(s)'
    BY <1>b, <1>3, <2>2 DEF Served
  <2>4. RowsServed'
    BY <1>0, <1>1, <1>a, <1>b, <2>1, <2>3, ServedOthers
  <2>5. RunnersNamed' /\ RunnersEnd' /\ PolledTo' /\ PolledOnce'
    <3>1. \A x \in DOMAIN entry : SameRunner(entry[x], entry[x])
      BY DEF SameRunner
    <3> QED
      BY <1>1, <2>1, <3>1, RunnersStay DEF KeepRunners
  <2> QED
    BY <1>1, <1>2, <2>1, <2>4, <2>5 DEF EnsuredParts, SerialInv
<1>4. CASE entries[s] = NoEntry /\ Goto(p, "insert") /\ UNCHANGED requestVars
  <2>1. Moves(p, "insert") /\ handler'[p].run = handler[p].run
    BY <1>1, <1>4, GotoMoves DEF Moves
  <2>2. KeepAll
    BY <1>1, <1>4 DEF KeepAll, KeepOps, requestVars
  <2>3. QuietParts'
    <3>1. "insert" \in Placed
      BY DEF Placed
    <3> QED
      BY <1>1, <2>1, <2>2, <3>1, QuietStep
  <2>4. /\ handler'[p].s = s /\ handler'[p].todo = handler[p].todo /\ handler'[p].op = handler[p].op
        /\ Others(p) /\ handler'[p].pc = "insert"
    BY <1>0, <2>1 DEF Moves, SameJob
  <2>5. Served(s)'
    BY <2>4 DEF Served, For
  <2>6. RowsServed'
    BY <1>0, <1>1, <1>a, <1>b, <2>4, <2>5, ServedOthers
  <2>7. HandlersInTurn'
    <3>1. InTurn(handler[p]) /\ (p # Boot => handler[p].op = "ensure")
      BY <1>1 DEF SerialInv, HandlersInTurn
    <3>2. InTurn(handler[p])'
      BY <1>0, <1>1, <1>4, <2>1, <2>4, <3>1 DEF InTurn, Stopping, Removed, Placed, Placing, KeepRows,
         KeepRunners, HasRow
    <3> QED
      BY <1>1, <2>4, <3>1, <3>2, OneInTurn
  <2> QED
    BY <1>2, <2>3, <2>6, <2>7 DEF QuietParts, SerialInv
<1> QED
  BY <1>0, <1>3, <1>4 DEF RunnerCheck

\* A handler moves on and writes nothing else.
LEMMA QuietSerial ==
  ASSUME FenceInv, SerialInv, NEW p \in Procs, NEW pc,
         handler[p].pc \in {"stop_get", "stop_lookup", "stop_take"},
         KeepAll, Moves(p, pc), pc \notin {"boot_load", "boot_next"}, InTurn(handler[p])',
         p # Boot /\ pc \in Placed \cup {"get", "upsert"} => handler[p].op = "ensure"
  PROVE  SerialInv'
<1>0. /\ HandlersHaveEntries /\ ~At(p, "idle") /\ handler[p].pc \notin Placed
      /\ KeepRows /\ KeepRunners /\ Others(p) /\ handler'[p].todo = handler[p].todo
      /\ handler'[p].pc = pc /\ handler'[p].op = handler[p].op
  BY DEF FenceInv, At, Placed, KeepAll, Moves, SameJob
<1>1. QuietParts'
  BY <1>0, QuietStep
<1>2. MapNamesLive' /\ TasksKept'
  BY <1>0, SettledStays
<1>3. RowsServed'
  <2>1. \A u \in Sources : Active(u)' => Active(u)
    BY <1>0 DEF KeepRows, Active, HasRow
  <2>2. \A u \in Sources : entries[u] # NoEntry /\ Live(entries[u]) =>
          entries'[u] = entries[u] /\ Live(entries[u])'
    BY <1>0 DEF KeepRunners, Live
  <2> QED
    BY <1>0, <2>1, <2>2, ServedStays
<1>4. HandlersInTurn'
  BY <1>0, OneInTurn
<1> QED
  BY <1>1, <1>2, <1>3, <1>4 DEF QuietParts, SerialInv

\* A request is answered and nothing else is written.
LEMMA QuietAnswer ==
  ASSUME FenceInv, SerialInv, NEW p \in Procs, handler[p].pc \in {"stop_get", "delete_entry"},
         Answer(p), KeepRows, KeepStreams, KeepRunners, fresh_from' = fresh_from,
         NEW s \in Sources, s = handler[p].s, entries[s] = NoEntry, ~HasRow(s)
  PROVE  SerialInv'
<1>0. /\ TypeOK /\ HandlersHaveEntries /\ ~At(p, "idle") /\ p # Boot
  <2>1. TypeOK /\ HandlersHaveEntries /\ ~At(p, "idle")
    BY DEF FenceInv, At
  <2> QED
    BY <2>1, Alone DEF Placed
<1>1. Answers(p)
  BY <1>0, AnswerAnswers
<1>2. Others(p) /\ handler'[p].todo = {} /\ handler'[p].pc = "idle" /\ feed' = feed
  BY <1>1 DEF Answers
<1>3. OneAtATime' /\ StoppedStays' /\ HandlersInTurn' /\ DOMAIN last_op' = Sources
  <2>1. OtherRows(handler[p].s) /\ OtherPlaces(handler[p].s)
    BY DEF KeepRows, KeepRunners, OtherRows, OtherPlaces
  <2>2. entries'[handler[p].s] = NoEntry /\ managed_sources'[handler[p].s] = NoRow
    BY DEF KeepRows, KeepRunners, HasRow
  <2> QED
    BY <1>0, <1>1, <2>1, <2>2, AnswerStays
<1>4. RunnersNamed' /\ RunnersEnd' /\ PolledTo' /\ PolledOnce'
  <2>1. \A x \in DOMAIN entry : SameRunner(entry[x], entry[x])
    BY DEF SameRunner
  <2> QED
    BY <1>0, <1>2, <2>1, RunnersStay DEF KeepRunners
<1>5. MapNamesLive' /\ TasksKept'
  BY <1>0, SettledStays
<1>6. RowsServed'
  <2>1. \A u \in Sources : Active(u)' => Active(u)
    BY DEF KeepRows, Active, HasRow
  <2>2. \A u \in Sources : entries[u] # NoEntry /\ Live(entries[u]) =>
          entries'[u] = entries[u] /\ Live(entries[u])'
    BY DEF KeepRunners, Live
  <2> QED
    BY <1>0, <1>2, <2>1, <2>2, ServedStays
<1> QED
  BY <1>3, <1>4, <1>5, <1>6 DEF SerialInv

LEMMA SerialStopGet == ASSUME FenceInv, SerialInv, NEW p \in Procs, StopGet(p) PROVE SerialInv'
<1>0. PICK s \in Sources : s = handler[p].s
  BY TypedParts DEF FenceInv
<1>1. /\ TypeOK /\ HandlersHaveEntries /\ ~At(p, "idle") /\ handler[p].pc = "stop_get"
      /\ KeepRows /\ KeepStreams /\ KeepRunners /\ fresh_from' = fresh_from
  BY DEF FenceInv, StopGet, At, KeepRows, KeepStreams, KeepRunners, storeVars, streamVars
<1>2. ASSUME UNCHANGED requestVars PROVE KeepAll
  BY <1>1, <1>2 DEF KeepAll, KeepOps, requestVars
<1>3. \A record \in handler[p].todo :
        HasRow(record.s) /\ record.run = managed_sources[record.s].run
  BY DEF SerialInv, HandlersInTurn, InTurn
<1>4. ASSUME NEW pc, Moves(p, pc)
      PROVE  /\ handler'[p].pc = pc /\ handler'[p].s = s /\ handler'[p].todo = handler[p].todo
             /\ handler'[p].op = handler[p].op
  BY <1>0, <1>4 DEF Moves, SameJob
<1>5. CASE HasRow(s)
  <2>1. SetRun(p, "stop_lookup", managed_sources[s].run) /\ KeepAll
    BY <1>0, <1>2, <1>5 DEF StopGet, SetRun
  <2>2. Moves(p, "stop_lookup")
    BY <1>1, <2>1, RunMoves DEF Moves
  <2>3. InTurn(handler[p])'
    BY <1>1, <1>3, <1>4, <1>5, <2>2 DEF InTurn, Stopping, Removed, Placed, Placing, KeepRows, HasRow
  <2>4. "stop_lookup" \notin Placed
    BY DEF Placed
  <2> QED
    BY <1>1, <2>1, <2>2, <2>3, <2>4, QuietSerial
<1>6. CASE ~HasRow(s)
  <2>0. entries[s] = NoEntry
    BY <1>6 DEF SerialInv, RunnersNamed
  <2>1. CASE handler[p].op = "stop" /\ Answer(p)
    BY <1>0, <1>1, <1>6, <2>0, <2>1, QuietAnswer
  <2>2. CASE handler[p].op = "delete" /\ Goto(p, "delete_row") /\ UNCHANGED requestVars
    <3>1. KeepAll /\ Moves(p, "delete_row")
      BY <1>1, <1>2, <2>2, GotoMoves DEF Moves
    <3>2. \A e \in stream_events[StreamIdOf[s]] : Polled(e.payload.run) => ~(e.offset >= fresh_from[s])
      BY <1>6 DEF SerialInv, PolledTo, Fresh
    <3>3. \A run : Polled(run)' <=> Polled(run)
      BY <1>1 DEF Polled, KeepRunners
    <3>4. \A e \in stream_events'[StreamIdOf[s]] :
            Polled(e.payload.run)' => ~(e.offset >= fresh_from'[s])
      BY <1>1, <3>2, <3>3 DEF KeepStreams
    <3>5. InTurn(handler[p])'
      BY <1>1, <1>3, <1>4, <1>6, <2>0, <3>1, <3>4 DEF InTurn, Stopping, Removed, Placed, Placing,
         KeepRows, KeepRunners, HasRow
    <3>6. "delete_row" \notin Placed
      BY DEF Placed
    <3> QED
      BY <1>1, <3>1, <3>5, <3>6, QuietSerial
  <2>3. CASE handler[p].op = "ensure" /\ Goto(p, "upsert") /\ UNCHANGED requestVars
    <3>1. KeepAll /\ Moves(p, "upsert")
      BY <1>1, <1>2, <2>3, GotoMoves DEF Moves
    <3>2. InTurn(handler[p])'
      BY <1>1, <1>3, <1>4, <1>6, <2>0, <3>1 DEF InTurn, Stopping, Removed, Placed, Placing,
         KeepRows, KeepRunners, HasRow
    <3> QED
      BY <1>1, <2>3, <3>1, <3>2, QuietSerial
  <2> QED
    BY <1>0, <1>6, <2>1, <2>2, <2>3 DEF StopGet, AfterStop
<1> QED
  BY <1>5, <1>6

LEMMA SerialStopLookup == ASSUME FenceInv, SerialInv, NEW p \in Procs, StopLookup(p) PROVE SerialInv'
<1>0. PICK s \in Sources : s = handler[p].s
  BY TypedParts DEF FenceInv
<1>1. TypeOK /\ HandlersHaveEntries /\ ~At(p, "idle") /\ handler[p].pc = "stop_lookup"
  BY DEF FenceInv, StopLookup, At
<1>2. KeepAll
  BY DEF StopLookup, KeepAll, KeepRows, KeepStreams, KeepRunners, KeepOps, storeVars, streamVars,
     envVars, requestVars
<1>3. /\ entries[s] # NoEntry => entries[s] \in DOMAIN entry /\ entry[entries[s]].s = s
      /\ \A record \in handler[p].todo :
           HasRow(record.s) /\ record.run = managed_sources[record.s].run
  BY <1>0, <1>1 DEF SerialInv, HandlersInTurn, InTurn, RunnersNamed, HandlersHaveEntries
<1>4. ASSUME NEW pc, Moves(p, pc)
      PROVE  /\ handler'[p].pc = pc /\ handler'[p].s = s /\ handler'[p].todo = handler[p].todo
             /\ handler'[p].op = handler[p].op
  BY <1>0, <1>4 DEF Moves, SameJob
<1>5. HasRow(s)
  BY <1>0, <1>1 DEF SerialInv, HandlersInTurn, InTurn
<1>6. CASE entries[s] = NoEntry
  <2>1. Moves(p, "stop_clear")
    BY <1>0, <1>1, <1>6, GotoMoves DEF StopLookup, Moves
  <2>2. InTurn(handler[p])'
    BY <1>2, <1>3, <1>4, <1>6, <2>1 DEF InTurn, Stopping, Removed, Placed, Placing, KeepAll, KeepRows,
       KeepRunners, HasRow
  <2>3. "stop_clear" \notin Placed
    BY DEF Placed
  <2> QED
    BY <1>1, <1>2, <2>1, <2>2, <2>3, QuietSerial
<1>7. CASE entries[s] # NoEntry
  <2>1. SetEntry(p, "stop_signal", entries[s])
    BY <1>0, <1>7 DEF StopLookup, SetEntry
  <2>2. Moves(p, "stop_signal") /\ handler'[p].x = entries[s]
    BY <1>1, <2>1, EntryIdMoves DEF Moves
  <2>3. InTurn(handler[p])'
    BY <1>2, <1>3, <1>4, <1>5, <1>7, <2>2 DEF InTurn, Stopping, Removed, Placed, Placing, KeepAll,
       KeepRows, KeepRunners, HasRow
  <2>4. "stop_signal" \notin Placed
    BY DEF Placed
  <2> QED
    BY <1>1, <1>2, <2>2, <2>3, <2>4, QuietSerial
<1> QED
  BY <1>6, <1>7

-----------------------------------------------------------------------------
(* stop_internal under the serial invariant. *)

\* A handler touches what a runner's entry holds beside its state.
LEMMA TouchedStays ==
  ASSUME FenceInv, SerialInv, NEW p \in Procs, NEW pc, NEW x,
         handler[p].pc \in {"stop_signal", "stop_take", "stop_await"}, Moves(p, pc),
         pc \in Stopping, KeepRows, KeepStreams, KeepOps, entries' = entries, OneRunner(x),
         SameRunner(entry'[x], entry[x])
  PROVE  QuietParts' /\ RowsServed' /\ \A y \in DOMAIN entry : Live(y)' <=> Live(y)
<1>0. /\ HandlersHaveEntries /\ ~At(p, "idle") /\ handler[p].pc \notin Placed
      /\ handler[p].pc \notin {"idle", "boot_load", "boot_next"}
      /\ pc \notin {"boot_load", "boot_next"} /\ Others(p) /\ handler'[p].todo = handler[p].todo
  BY DEF FenceInv, At, Placed, Moves, SameJob, Stopping
<1>1. OneAtATime'
  BY <1>0, MovesOne
<1>2. StoppedStays'
  <2>1. OtherRows(handler[p].s) /\ OtherPlaces(handler[p].s) /\ last_op' = last_op
    BY DEF KeepRows, KeepOps, OtherRows, OtherPlaces
  <2> QED
    BY <1>0, <2>1, StoppedMoves
<1>3. \A y \in DOMAIN entry : SameRunner(entry'[y], entry[y])
  BY DEF OneRunner, SameRunner
<1>4. RunnersNamed' /\ RunnersEnd' /\ PolledTo' /\ PolledOnce'
  BY <1>0, <1>3, RunnersStay DEF KeepOps, OneRunner
<1>5. \A y \in DOMAIN entry : Live(y)' <=> Live(y)
  BY <1>3 DEF SameRunner, Live
<1>6. RowsServed'
  <2>1. \A u \in Sources : Active(u)' => Active(u)
    BY DEF KeepRows, Active, HasRow
  <2>2. \A u \in Sources : entries[u] # NoEntry => entries[u] \in DOMAIN entry
    BY <1>0 DEF HandlersHaveEntries
  <2>3. \A u \in Sources : entries[u] # NoEntry /\ Live(entries[u]) =>
          entries'[u] = entries[u] /\ Live(entries[u])'
    BY <1>5, <2>2
  <2> QED
    BY <1>0, <2>1, <2>3, ServedStays
<1> QED
  BY <1>1, <1>2, <1>4, <1>5, <1>6 DEF QuietParts, SerialInv, KeepOps

LEMMA StopTurn ==
  ASSUME SerialInv, NEW p \in Procs, NEW pc, NEW x, handler[p].pc \in Stopping, Moves(p, pc),
         pc \in Stopping, x = handler[p].x, handler'[p].x = x, KeepRows, entries' = entries,
         DOMAIN entry' = DOMAIN entry, entry'[x].s = entry[x].s, pc = "stop_remove" => ~Live(x)'
  PROVE  HandlersInTurn'
<1>0. PICK s : s = handler[p].s
  OBVIOUS
<1>1. /\ x \in DOMAIN entry /\ entry[x].s = s
      /\ entries[s] \in {x, NoEntry} /\ HasRow(s)
      /\ \A record \in handler[p].todo :
           HasRow(record.s) /\ record.run = managed_sources[record.s].run
  BY <1>0 DEF SerialInv, HandlersInTurn, InTurn
<1>2. /\ handler'[p].pc = pc /\ handler'[p].s = s /\ handler'[p].todo = handler[p].todo
      /\ Others(p)
  BY <1>0 DEF Moves, SameJob
<1>3. /\ handler[p].pc # "idle" /\ pc \notin Removed /\ pc \notin Placed
      /\ pc \notin {"insert", "stop_lookup", "check", "delete_row", "delete_entry", "upsert", "get",
                    "stop_checkpoint"}
  BY DEF Stopping, Removed, Placed
<1>4. InTurn(handler[p])'
  BY <1>1, <1>2, <1>3 DEF InTurn, Placing, KeepRows, HasRow
<1> QED
  BY <1>2, <1>3, <1>4, OneInTurn DEF At

LEMMA SerialStopSignal == ASSUME FenceInv, SerialInv, NEW p \in Procs, StopSignal(p) PROVE SerialInv'
<1> DEFINE x == handler[p].x
<1>0. /\ TypeOK /\ HandlersHaveEntries /\ ~At(p, "idle") /\ handler[p].pc = "stop_signal"
      /\ x \in DOMAIN entry /\ "stop_take" \in Stopping /\ "stop_signal" \in Stopping
  BY DEF FenceInv, StopSignal, At, HandlersHaveEntries, Stopping
<1>1. KeepRows /\ KeepStreams /\ KeepOps /\ entries' = entries
  BY DEF StopSignal, KeepRows, KeepStreams, KeepOps, storeVars, streamVars, envVars, requestVars
<1>2. Moves(p, "stop_take") /\ handler'[p].x = x
  BY <1>0, GotoMoves DEF StopSignal, Moves
<1>3. OneRunner(x) /\ SameRunner(entry'[x], entry[x]) /\ entry'[x].task = entry[x].task
  BY <1>0, RunnerEffects DEF StopSignal
<1>4. QuietParts' /\ RowsServed' /\ \A y \in DOMAIN entry : Live(y)' <=> Live(y)
  BY <1>0, <1>1, <1>2, <1>3, TouchedStays
<1>5. HandlersInTurn'
  BY <1>0, <1>1, <1>2, <1>3, StopTurn DEF OneRunner, SameRunner
<1>6. MapNamesLive' /\ TasksKept'
  <2>1. /\ \A u \in Sources : entries[u] # NoEntry => Live(entries[u])
        /\ \A y \in DOMAIN entry : Live(y) => entry[y].task = "set"
    BY <1>0, Settled
  <2>2. \A u \in Sources : entries'[u] # NoEntry => entries[u] \in DOMAIN entry /\ Live(entries[u])'
    BY <1>0, <1>1, <1>4, <2>1 DEF HandlersHaveEntries
  <2>3. \A y \in DOMAIN entry' : Live(y)' => entry'[y].task = "set"
    BY <1>3, <1>4, <2>1 DEF OneRunner
  <2> QED
    BY <1>1, <2>2, <2>3 DEF MapNamesLive, TasksKept
<1> QED
  BY <1>4, <1>5, <1>6 DEF QuietParts, SerialInv

LEMMA SerialStopTake == ASSUME FenceInv, SerialInv, NEW p \in Procs, StopTake(p) PROVE SerialInv'
<1>x. PICK x : x = handler[p].x
  OBVIOUS
<1>0. /\ TypeOK /\ HandlersHaveEntries /\ ~At(p, "idle") /\ handler[p].pc = "stop_take"
      /\ x \in DOMAIN entry /\ "stop_take" \in Stopping /\ "stop_await" \in Stopping
      /\ "stop_remove" \in Stopping
  BY <1>x DEF FenceInv, StopTake, At, HandlersHaveEntries, Stopping
<1>1. KeepRows /\ KeepStreams /\ KeepOps /\ entries' = entries
  BY DEF StopTake, KeepRows, KeepStreams, KeepOps, storeVars, streamVars, envVars, requestVars
<1>2. /\ \A u \in Sources : entries[u] # NoEntry => Live(entries[u])
      /\ \A y \in DOMAIN entry : Live(y) => entry[y].task = "set"
  BY <1>0, Settled
<1>3. CASE entry[x].task = "set"
  <2>1. entry' = [entry EXCEPT ![x].task = "taken", ![x].holder = p] /\ Goto(p, "stop_await")
    BY <1>x, <1>3 DEF StopTake
  <2>2. Moves(p, "stop_await") /\ handler'[p].x = x
    BY <1>x, <1>0, <2>1, GotoMoves DEF Moves
  <2>3. OneRunner(x) /\ SameRunner(entry'[x], entry[x]) /\ entry'[x].task = "taken"
    BY <1>0, <2>1, RunnerEffects
  <2>4. QuietParts' /\ RowsServed' /\ \A y \in DOMAIN entry : Live(y)' <=> Live(y)
    BY <1>0, <1>1, <2>2, <2>3, TouchedStays
  <2>5. HandlersInTurn'
    BY <1>x, <1>0, <1>1, <2>2, <2>3, StopTurn DEF OneRunner, SameRunner
  <2>6. MapNamesLive'
    <3>1. \A u \in Sources : entries'[u] # NoEntry => entries[u] \in DOMAIN entry /\ Live(entries[u])'
      BY <1>0, <1>1, <1>2, <2>4 DEF HandlersHaveEntries
    <3> QED
      BY <1>1, <3>1 DEF MapNamesLive
  <2>7. TasksKept'
    <3>1. \A y \in DOMAIN entry' : y # x /\ Live(y)' => entry'[y].task = "set"
      BY <1>2, <2>3, <2>4 DEF OneRunner
    <3>2. At(p, "stop_await")' /\ handler'[p].x = x
      BY <2>2 DEF Moves, At
    <3> QED
      BY <2>3, <3>1, <3>2 DEF TasksKept
  <2> QED
    BY <2>4, <2>5, <2>6, <2>7 DEF QuietParts, SerialInv
<1>4. CASE entry[x].task # "set"
  <2>1. Goto(p, "stop_remove") /\ entry' = entry
    BY <1>x, <1>4 DEF StopTake
  <2>2. Moves(p, "stop_remove") /\ handler'[p].x = x
    BY <1>x, <1>0, <2>1, GotoMoves DEF Moves
  <2>3. ~Live(x)
    BY <1>0, <1>2, <1>4
  <2>4. HandlersInTurn'
    BY <1>x, <1>0, <1>1, <2>1, <2>2, <2>3, StopTurn DEF Live
  <2>5. InTurn(handler[p])'
    BY <2>4 DEF HandlersInTurn
  <2>6. KeepAll
    BY <1>1, <2>1 DEF KeepAll, KeepRunners
  <2>7. "stop_remove" \notin Placed
    BY DEF Placed
  <2> QED
    BY <1>0, <2>2, <2>5, <2>6, <2>7, QuietSerial
<1> QED
  BY <1>3, <1>4

LEMMA SerialStopJoined == ASSUME FenceInv, SerialInv, NEW p \in Procs, StopJoined(p) PROVE SerialInv'
<1>x. PICK x : x = handler[p].x
  OBVIOUS
<1>0. /\ TypeOK /\ HandlersHaveEntries /\ ~At(p, "idle") /\ handler[p].pc = "stop_await"
      /\ x \in DOMAIN entry /\ "stop_await" \in Stopping /\ "stop_remove" \in Stopping
  BY <1>x DEF FenceInv, StopJoined, At, HandlersHaveEntries, Stopping
<1>1. KeepRows /\ KeepStreams /\ KeepOps /\ entries' = entries
  BY DEF StopJoined, KeepRows, KeepStreams, KeepOps, storeVars, streamVars, envVars, requestVars
<1>2. Moves(p, "stop_remove") /\ handler'[p].x = x
  BY <1>x, <1>0, GotoMoves DEF StopJoined, Moves
<1>3. OneRunner(x) /\ SameRunner(entry'[x], entry[x]) /\ entry'[x].task = entry[x].task
  BY <1>x, <1>0, RunnerEffects DEF StopJoined
<1>4. QuietParts' /\ RowsServed' /\ \A y \in DOMAIN entry : Live(y)' <=> Live(y)
  BY <1>0, <1>1, <1>2, <1>3, TouchedStays
<1>5. ~Live(x)
  BY <1>x DEF StopJoined, Finished, Live
<1>6. HandlersInTurn'
  <2>1. ~Live(x)'
    BY <1>0, <1>4, <1>5
  <2> QED
    BY <1>x, <1>0, <1>1, <1>2, <1>3, <2>1, StopTurn DEF OneRunner, SameRunner
<1>7. MapNamesLive' /\ TasksKept'
  <2>0. \A q \in Procs : ~At(q, "stop_remove") /\ ~At(q, "set_task") /\ (At(q, "stop_await") => q = p)
    BY <1>0, Alone DEF At
  <2>1. /\ \A u \in Sources : entries[u] # NoEntry => Live(entries[u])
        /\ \A y \in DOMAIN entry : y # x /\ Live(y) => entry[y].task = "set"
    BY <1>x, <2>0 DEF SerialInv, MapNamesLive, TasksKept
  <2>2. \A u \in Sources : entries'[u] # NoEntry => entries[u] \in DOMAIN entry /\ Live(entries[u])'
    BY <1>0, <1>1, <1>4, <2>1 DEF HandlersHaveEntries
  <2>3. \A y \in DOMAIN entry' : Live(y)' => entry'[y].task = "set"
    BY <1>3, <1>4, <1>5, <2>1 DEF OneRunner
  <2> QED
    BY <1>1, <2>2, <2>3 DEF MapNamesLive, TasksKept
<1> QED
  BY <1>4, <1>6, <1>7 DEF QuietParts, SerialInv

\* Runners are left as they are or ended.
LEMMA RunnersEnded ==
  ASSUME SerialInv, KeepRows, KeepStreams, feed' = feed, fresh_from' = fresh_from,
         DOMAIN entry' = DOMAIN entry,
         \A y \in DOMAIN entry : SameRunner(entry'[y], entry[y]) \/ EndedRunner(entry'[y], entry[y])
  PROVE  RunnersEnd' /\ PolledTo' /\ PolledOnce'
<1>1. \A s : (HasRow(s)' <=> HasRow(s)) /\ managed_sources'[s] = managed_sources[s]
  BY DEF KeepRows, HasRow
<1>2. \A y \in DOMAIN entry : entry'[y].s = entry[y].s /\ entry'[y].run = entry[y].run
                              /\ entry'[y].spec = entry[y].spec
  BY DEF SameRunner, EndedRunner
<1>3. \A run : Polled(run)' <=> Polled(run)
  BY <1>2 DEF Polled
<1>4. \A s : (Active(s)' <=> Active(s)) /\ CheckpointOf(s)' = CheckpointOf(s)
  BY <1>1 DEF Active, CheckpointOf
<1>5. RunnersEnd'
  BY <1>2, <1>4 DEF SerialInv, RunnersEnd, SameRunner, EndedRunner
<1>6. PolledTo'
  <2>1. \A s \in Sources : CheckpointOf(s)' <= feed'[s]
    BY <1>4 DEF SerialInv, PolledTo
  <2>2. \A s \in Sources : \A e \in stream_events'[StreamIdOf[s]] : Fresh(s, e)' =>
          /\ HasRow(s)' /\ managed_sources'[s].run = e.payload.run
          /\ e.payload.item <= CheckpointOf(s)'
    BY <1>1, <1>3, <1>4 DEF SerialInv, PolledTo, Fresh, KeepStreams
  <2>3. \A y \in DOMAIN entry : entry'[y].pc \in {"wait", "fetch", "append", "sync"} =>
          /\ entry[y].spec \in PollSpecs /\ entry'[y].cp = CheckpointOf(entry[y].s)
          /\ entry'[y].pc = "append" =>
               entry'[y].cp <= entry'[y].got /\ entry'[y].got <= feed[entry[y].s]
    BY DEF SerialInv, PolledTo, SameRunner, EndedRunner
  <2>4. \A y \in DOMAIN entry : CheckpointOf(entry[y].s)' = CheckpointOf(entry[y].s)
    BY <1>2, <1>4
  <2> QED
    BY <1>2, <2>1, <2>2, <2>3, <2>4 DEF PolledTo
<1>7. PolledOnce'
  BY <1>3 DEF SerialInv, PolledOnce, KeepStreams
<1> QED
  BY <1>5, <1>6, <1>7

LEMMA SerialStopAborts ==
  ASSUME Serial, FenceInv, SerialInv, NEW p \in Procs, StopAborts(p)
  PROVE  SerialInv'
<1>s. PICK s \in Sources : s = handler[p].s
  BY TypedParts DEF FenceInv
<1>x. PICK x : x = handler[p].x
  OBVIOUS
<1>0. /\ TypeOK /\ HandlersHaveEntries /\ ~At(p, "idle") /\ handler[p].pc = "stop_await"
      /\ x \in DOMAIN entry /\ "stop_await" \in Stopping /\ "stop_remove" \in Stopping
      /\ handler[p].pc \notin Placed
  BY <1>x DEF FenceInv, StopAborts, At, HandlersHaveEntries, Stopping, Placed
<1>1. KeepRows /\ KeepStreams /\ KeepOps /\ entries' = entries
  BY DEF StopAborts, KeepRows, KeepStreams, KeepOps, storeVars, streamVars, envVars, requestVars
<1>2. Moves(p, "stop_remove") /\ handler'[p].x = x
  BY <1>x, <1>0, GotoMoves DEF StopAborts, Moves
<1>3. OneRunner(x) /\ EndedRunner(entry'[x], entry[x])
  <2>1. Abort(entry[x]) = {[entry[x] EXCEPT !.pc = "dead", !.holder = NoProc]}
    BY DEF Abort, Serial
  <2>2. entry' = [entry EXCEPT ![x] = [entry[x] EXCEPT !.pc = "dead", !.holder = NoProc]]
    BY <1>x, <2>1 DEF StopAborts
  <2> QED
    BY <1>0, <2>2, RunnerEffects
<1>4. /\ ~Live(x)' /\ \A y \in DOMAIN entry : y # x => (Live(y)' <=> Live(y))
      /\ \A y \in DOMAIN entry : entry'[y].s = entry[y].s /\ entry'[y].run = entry[y].run
                                 /\ entry'[y].aborted = entry[y].aborted
      /\ \A y \in DOMAIN entry : Live(y)' => Live(y)
  BY <1>3 DEF Live, OneRunner, EndedRunner
<1>5. RunnersEnd' /\ PolledTo' /\ PolledOnce'
  <2>1. \A y \in DOMAIN entry : SameRunner(entry'[y], entry[y]) \/ EndedRunner(entry'[y], entry[y])
    BY <1>3 DEF OneRunner, SameRunner
  <2> QED
    BY <1>1, <1>3, <2>1, RunnersEnded DEF KeepOps, OneRunner
<1>6. RunnersNamed'
  <2>1. \A u : HasRow(u)' <=> HasRow(u)
    BY <1>1 DEF KeepRows, HasRow
  <2>2. \A y \in DOMAIN entry' : y \in DOMAIN entry
    BY <1>3 DEF OneRunner
  <2> QED
    BY <1>0, <1>1, <1>4, <2>1, <2>2 DEF SerialInv, RunnersNamed, KeepRows, HandlersHaveEntries
<1>7. OneAtATime'
  BY <1>0, <1>2, MovesOne
<1>8. StoppedStays'
  <2>1. OtherRows(handler[p].s) /\ OtherPlaces(handler[p].s) /\ last_op' = last_op
    BY <1>1 DEF KeepRows, KeepOps, OtherRows, OtherPlaces
  <2> QED
    BY <1>0, <1>2, <2>1, StoppedMoves
<1>9. HandlersInTurn'
  BY <1>x, <1>0, <1>1, <1>2, <1>3, <1>4, StopTurn DEF OneRunner
<1>10. handler'[p].pc = "stop_remove" /\ handler'[p].s = s /\ handler'[p].todo = handler[p].todo
       /\ Others(p)
  BY <1>s, <1>2 DEF Moves, SameJob
<1>11. \A u \in Sources : u # s /\ entries[u] # NoEntry => entries[u] # x /\ entries[u] \in DOMAIN entry
  <2>1. entry[x].s = s
    BY <1>s, <1>x, <1>0 DEF SerialInv, HandlersInTurn, InTurn
  <2> QED
    BY <1>0, <2>1 DEF SerialInv, RunnersNamed, HandlersHaveEntries
<1>12. RowsServed'
  <2>1. \A u \in Sources : u # s /\ Active(u)' => Active(u)
    BY <1>1 DEF KeepRows, Active, HasRow
  <2>2. \A u \in Sources : u # s /\ entries[u] # NoEntry /\ Live(entries[u]) =>
          entries'[u] = entries[u] /\ Live(entries[u])'
    BY <1>1, <1>4, <1>11
  <2>3. Served(s)'
    BY <1>10 DEF Served, For
  <2> QED
    BY <1>s, <1>0, <1>10, <2>1, <2>2, <2>3, ServedOthers
<1>13. MapNamesLive' /\ TasksKept'
  <2>0. \A q \in Procs : ~At(q, "stop_remove") /\ ~At(q, "set_task") /\ (At(q, "stop_await") => q = p)
    BY <1>0, Alone DEF At
  <2>1. /\ \A u \in Sources : entries[u] # NoEntry => Live(entries[u])
        /\ \A y \in DOMAIN entry : y # x /\ Live(y) => entry[y].task = "set"
    BY <1>x, <2>0 DEF SerialInv, MapNamesLive, TasksKept
  <2>2. \A u \in Sources : u # s /\ entries'[u] # NoEntry => Live(entries[u])'
    BY <1>1, <1>4, <1>11, <2>1
  <2>3. At(p, "stop_remove")' /\ For(p, s)'
    BY <1>10 DEF At, For
  <2>4. \A y \in DOMAIN entry' : Live(y)' => entry'[y].task = "set"
    BY <1>3, <1>4, <2>1 DEF OneRunner
  <2> QED
    BY <1>1, <2>2, <2>3, <2>4 DEF MapNamesLive, TasksKept
<1> QED
  BY <1>1, <1>5, <1>6, <1>7, <1>8, <1>9, <1>12, <1>13 DEF SerialInv, KeepOps

LEMMA SerialStopRemove == ASSUME FenceInv, SerialInv, NEW p \in Procs, StopRemove(p) PROVE SerialInv'
<1>s. PICK s \in Sources : s = handler[p].s
  BY TypedParts DEF FenceInv
<1>0. /\ TypeOK /\ HandlersHaveEntries /\ ~At(p, "idle") /\ handler[p].pc = "stop_remove"
      /\ handler[p].pc \in Stopping /\ handler[p].pc \notin Placed /\ "stop_clear" \notin Placed
  BY DEF FenceInv, StopRemove, At, Stopping, Placed
<1>1. KeepRows /\ KeepStreams /\ KeepOps /\ entry' = entry
  BY DEF StopRemove, KeepRows, KeepStreams, KeepOps, storeVars, streamVars, envVars, requestVars
<1>2. Moves(p, "stop_clear")
  BY <1>0, GotoMoves DEF StopRemove, Moves
<1>3. handler'[p].pc = "stop_clear" /\ handler'[p].s = s /\ handler'[p].todo = handler[p].todo
      /\ Others(p)
  BY <1>s, <1>2 DEF Moves, SameJob
<1>4. OtherPlaces(s) /\ entries'[s] = NoEntry
  BY <1>s, <1>0 DEF StopRemove, OtherPlaces, TypeOK
<1>5. RunnersEnd' /\ PolledTo' /\ PolledOnce'
  <2>1. \A y \in DOMAIN entry : SameRunner(entry'[y], entry[y])
    BY <1>1 DEF SameRunner
  <2> QED
    BY <1>1, <2>1, RunnersEnded DEF KeepOps
<1>6. \A y \in DOMAIN entry : Live(y) => entry[y].s # s
  <2>1. entries[s] \in {handler[p].x, NoEntry} /\ ~Live(handler[p].x)
    BY <1>s, <1>0 DEF SerialInv, HandlersInTurn, InTurn
  <2>2. \A y \in DOMAIN entry : y # NoEntry
    BY <1>0, TypedParts DEF EntryIds, NoEntry
  <2> QED
    BY <2>1, <2>2 DEF SerialInv, RunnersNamed
<1>7. RunnersNamed'
  <2>1. \A u : HasRow(u)' <=> HasRow(u)
    BY <1>1 DEF KeepRows, HasRow
  <2>2. \A y : Live(y)' <=> Live(y)
    BY <1>1 DEF Live
  <2>3. \A y \in DOMAIN entry : entry[y].s \in Sources
    BY <1>0, TypedParts
  <2>4. \A y \in DOMAIN entry : Live(y)' =>
          entries'[entry[y].s] = y /\ managed_sources'[entry[y].s].run = entry[y].run
    BY <1>1, <1>4, <1>6, <2>2, <2>3 DEF SerialInv, RunnersNamed, KeepRows, OtherPlaces
  <2>5. \A u \in Sources : entries'[u] # NoEntry => entry[entries'[u]].s = u /\ HasRow(u)'
    BY <1>4, <2>1 DEF SerialInv, RunnersNamed, OtherPlaces
  <2> QED
    BY <1>1, <2>4, <2>5 DEF SerialInv, RunnersNamed
<1>8. OneAtATime'
  BY <1>0, <1>2, MovesOne
<1>9. StoppedStays'
  <2>1. OtherRows(handler[p].s) /\ OtherPlaces(handler[p].s) /\ last_op' = last_op
    BY <1>s, <1>1, <1>4 DEF KeepRows, KeepOps, OtherRows
  <2> QED
    BY <1>0, <1>2, <2>1, StoppedMoves
<1>10. HandlersInTurn'
  <2>1. \A record \in handler[p].todo :
          HasRow(record.s) /\ record.run = managed_sources[record.s].run
    BY DEF SerialInv, HandlersInTurn, InTurn
  <2>2. InTurn(handler[p])'
    BY <1>1, <1>3, <1>4, <2>1 DEF InTurn, Stopping, Removed, Placed, Placing, KeepRows, HasRow
  <2> QED
    BY <1>0, <1>3, <2>2, OneInTurn
<1>11. RowsServed'
  <2>1. \A u \in Sources : u # s /\ Active(u)' => Active(u)
    BY <1>1 DEF KeepRows, Active, HasRow
  <2>2. \A u \in Sources : u # s /\ entries[u] # NoEntry /\ Live(entries[u]) =>
          entries'[u] = entries[u] /\ Live(entries[u])'
    BY <1>1, <1>4 DEF Live, OtherPlaces
  <2>3. Served(s)'
    BY <1>3 DEF Served, For
  <2> QED
    BY <1>s, <1>0, <1>3, <2>1, <2>2, <2>3, ServedOthers
<1>12. MapNamesLive' /\ TasksKept'
  <2>0. \A q \in Procs : ~At(q, "set_task") /\ ~At(q, "stop_await") /\ (At(q, "stop_remove") => q = p)
    BY <1>0, Alone DEF At
  <2>1. /\ \A u \in Sources : u # s /\ entries[u] # NoEntry => Live(entries[u])
        /\ \A y \in DOMAIN entry : Live(y) => entry[y].task = "set"
    BY <1>s, <2>0 DEF SerialInv, MapNamesLive, TasksKept, For
  <2>2. \A u \in Sources : entries'[u] # NoEntry => entries'[u] = entries[u] /\ Live(entries[u])'
    BY <1>1, <1>4, <2>1 DEF Live, OtherPlaces
  <2>3. \A y \in DOMAIN entry' : Live(y)' => entry'[y].task = "set"
    BY <1>1, <2>1 DEF Live
  <2> QED
    BY <2>2, <2>3 DEF MapNamesLive, TasksKept
<1> QED
  BY <1>1, <1>5, <1>7, <1>8, <1>9, <1>10, <1>11, <1>12 DEF SerialInv, KeepOps

-----------------------------------------------------------------------------
(* Writes of a row under the serial invariant. *)

RowsAlike ==
  \A u \in Sources : /\ HasRow(u)' <=> HasRow(u)
                     /\ HasRow(u) => managed_sources'[u].run = managed_sources[u].run
                     /\ CheckpointOf(u)' = CheckpointOf(u)
SameRun(e, d) == e.s = d.s /\ e.spec = d.spec /\ e.run = d.run /\ e.aborted = d.aborted
Polling == {"wait", "fetch", "append", "sync"}

LEMMA StatusKeeps ==
  ASSUME TypeOK, NEW s \in Sources, NEW status \in Statuses, SetStatus(s, status)
  PROVE  /\ RowsAlike /\ OtherRows(s) /\ KeepStreams
         /\ HasRow(s) => managed_sources'[s].status = status
<1>1. /\ OtherRows(s) /\ (HasRow(s)' <=> HasRow(s)) /\ KeepStreams
      /\ HasRow(s) =>
           /\ managed_sources'[s].status = status
           /\ managed_sources'[s].run = managed_sources[s].run
           /\ managed_sources'[s].checkpoint = managed_sources[s].checkpoint
  BY RowEffects
<1>2. \A u \in Sources : u # s => managed_sources'[u] = managed_sources[u]
  BY <1>1 DEF OtherRows
<1>3. RowsAlike
  BY <1>1, <1>2 DEF RowsAlike, CheckpointOf, HasRow
<1> QED
  BY <1>1, <1>3

LEMMA RowsKeptAlike == ASSUME KeepRows PROVE RowsAlike
BY DEF KeepRows, RowsAlike, CheckpointOf, HasRow

\* Statuses of rows and places of runners change, their runs do not.
LEMMA AlikeStays ==
  ASSUME FenceInv, SerialInv, RowsAlike, KeepStreams, fresh_from' = fresh_from,
         \A u \in Sources : feed[u] <= feed'[u] /\ feed'[u] \in Int, DOMAIN entry' = DOMAIN entry,
         \A y \in DOMAIN entry : SameRun(entry'[y], entry[y]),
         \A y \in DOMAIN entry :
           /\ entry'[y].pc \in Polling =>
                entry[y].spec \in PollSpecs /\ entry'[y].cp = CheckpointOf(entry[y].s)
           /\ entry'[y].pc = "append" =>
                entry'[y].cp <= entry'[y].got /\ entry'[y].got <= feed'[entry[y].s]
  PROVE  PolledTo' /\ PolledOnce'
<1>1. \A y \in DOMAIN entry : /\ entry'[y].s = entry[y].s /\ entry'[y].run = entry[y].run
                              /\ entry'[y].spec = entry[y].spec /\ entry[y].s \in Sources
  BY TypedParts DEF SameRun, FenceInv
<1>2. \A run : Polled(run)' <=> Polled(run)
  BY <1>1 DEF Polled
<1>3. \A u \in Sources : CheckpointOf(u) \in Int /\ feed[u] \in Int
  <2>1. \A u \in Sources : HasRow(u) => managed_sources[u].checkpoint \in Checkpoints \cup {NoCheckpoint}
    BY TypedParts DEF FenceInv
  <2>2. \A u \in Sources : feed[u] \in Int
    BY ManagerAssumption DEF FenceInv, TypeOK
  <2> QED
    BY <2>1, <2>2, ManagerAssumption DEF CheckpointOf
<1>4. \A u \in Sources : CheckpointOf(u)' <= feed'[u]
  BY <1>3 DEF SerialInv, PolledTo, RowsAlike
<1>5. \A u \in Sources : \A e \in stream_events'[StreamIdOf[u]] : Fresh(u, e)' =>
        /\ HasRow(u)' /\ managed_sources'[u].run = e.payload.run
        /\ e.payload.item <= CheckpointOf(u)'
  BY <1>2 DEF SerialInv, PolledTo, Fresh, KeepStreams, RowsAlike
<1>6. \A y \in DOMAIN entry : CheckpointOf(entry[y].s)' = CheckpointOf(entry[y].s)
  <2> SUFFICES ASSUME NEW y \in DOMAIN entry PROVE CheckpointOf(entry[y].s)' = CheckpointOf(entry[y].s)
    OBVIOUS
  <2>1. PICK u \in Sources : u = entry[y].s /\ u = entry'[y].s
    BY <1>1
  <2> QED
    BY <2>1 DEF RowsAlike
<1>7. PolledTo'
  BY <1>1, <1>4, <1>5, <1>6 DEF PolledTo, Polling
<1>8. PolledOnce'
  BY <1>2 DEF SerialInv, PolledOnce, KeepStreams
<1> QED
  BY <1>7, <1>8

\* Runners whose source has no entry in the map are dead.
LEMMA NoneLive ==
  ASSUME FenceInv, SerialInv, NEW s \in Sources, entries[s] = NoEntry
  PROVE  /\ \A y \in DOMAIN entry : Live(y) => entry[y].s # s
         /\ \A y \in DOMAIN entry : entry[y].pc # "dead" => entry[y].s # s
<1>1. \A y \in DOMAIN entry : y # NoEntry
  BY TypedParts DEF EntryIds, NoEntry, FenceInv
<1>2. \A y \in DOMAIN entry : entry[y].pc # "dead" => Live(y)
  BY DEF SerialInv, RunnersNamed, Live
<1> QED
  BY <1>1, <1>2 DEF SerialInv, RunnersNamed

\* The row of a source without a runner is written, and none of its events
\* counts any more.
LEMMA RowAloneStays ==
  ASSUME FenceInv, SerialInv, NEW s \in Sources, entries[s] = NoEntry, KeepRunners, OtherRows(s),
         stream_events' = stream_events, feed' = feed, CheckpointOf(s)' <= feed[s],
         \A u \in Sources : u # s => fresh_from'[u] = fresh_from[u],
         \A e \in stream_events[StreamIdOf[s]] :
           Polled(e.payload.run) => ~(e.offset >= fresh_from'[s])
  PROVE  RunnersNamed' /\ RunnersEnd' /\ PolledTo' /\ PolledOnce'
<1>1. \A y \in DOMAIN entry : entry[y].pc # "dead" => entry[y].s # s
  BY NoneLive
<1>2. \A u \in Sources : u # s => /\ HasRow(u)' <=> HasRow(u)
                                  /\ managed_sources'[u] = managed_sources[u]
                                  /\ CheckpointOf(u)' = CheckpointOf(u)
                                  /\ Active(u)' <=> Active(u)
  BY DEF OtherRows, HasRow, CheckpointOf, Active
<1>3. \A run : Polled(run)' <=> Polled(run)
  BY DEF Polled, KeepRunners
<1>4. \A y \in DOMAIN entry : entry[y].s \in Sources
  BY TypedParts DEF FenceInv
<1>5. \A y \in DOMAIN entry : Live(y)' <=> Live(y)
  BY DEF Live, KeepRunners
<1>6. RunnersNamed'
  <2>1. \A y \in DOMAIN entry : Live(y)' =>
          entries'[entry[y].s] = y /\ managed_sources'[entry[y].s].run = entry[y].run
    BY <1>1, <1>2, <1>4, <1>5 DEF SerialInv, RunnersNamed, KeepRunners, Live
  <2>2. \A u \in Sources : entries'[u] # NoEntry => entry[entries'[u]].s = u /\ HasRow(u)'
    BY <1>2 DEF SerialInv, RunnersNamed, KeepRunners
  <2>3. \A y \in DOMAIN entry : ~entry[y].aborted
    BY DEF SerialInv, RunnersNamed
  <2> QED
    BY <2>1, <2>2, <2>3 DEF RunnersNamed, KeepRunners
<1>a. \A y \in DOMAIN entry : entry[y].pc # "dead" =>
        (Active(entry[y].s)' <=> Active(entry[y].s)) /\ CheckpointOf(entry[y].s)' = CheckpointOf(entry[y].s)
  <2> SUFFICES ASSUME NEW y \in DOMAIN entry, entry[y].pc # "dead"
               PROVE  /\ Active(entry[y].s)' <=> Active(entry[y].s)
                      /\ CheckpointOf(entry[y].s)' = CheckpointOf(entry[y].s)
    OBVIOUS
  <2>1. PICK u \in Sources : u = entry[y].s /\ u # s /\ u = entry'[y].s
    BY <1>1, <1>4 DEF KeepRunners
  <2> QED
    BY <1>2, <2>1
<1>7. RunnersEnd'
  BY <1>a DEF SerialInv, RunnersEnd, KeepRunners
<1>8. PolledTo'
  <2>1. \A u \in Sources : CheckpointOf(u)' <= feed'[u]
    BY <1>2 DEF SerialInv, PolledTo
  <2>2. \A u \in Sources : \A e \in stream_events'[StreamIdOf[u]] : Fresh(u, e)' =>
          /\ HasRow(u)' /\ managed_sources'[u].run = e.payload.run
          /\ e.payload.item <= CheckpointOf(u)'
    BY <1>2, <1>3 DEF SerialInv, PolledTo, Fresh
  <2> QED
    BY <1>a, <2>1, <2>2 DEF SerialInv, PolledTo, KeepRunners
<1>9. PolledOnce'
  BY <1>3 DEF SerialInv, PolledOnce
<1> QED
  BY <1>6, <1>7, <1>8, <1>9

LEMMA SerialStopClear == ASSUME FenceInv, SerialInv, NEW p \in Procs, StopClear(p) PROVE SerialInv'
<1>s. PICK s \in Sources : s = handler[p].s
  BY TypedParts DEF FenceInv
<1>0. /\ TypeOK /\ HandlersHaveEntries /\ ~At(p, "idle") /\ handler[p].pc = "stop_clear"
      /\ handler[p].pc \notin Placed /\ "stop_checkpoint" \notin Placed /\ handler[p].pc \in Removed
      /\ p # Boot
  <2>1. /\ TypeOK /\ HandlersHaveEntries /\ ~At(p, "idle") /\ handler[p].pc = "stop_clear"
        /\ "stop_clear" \notin Placed /\ "stop_checkpoint" \notin Placed /\ "stop_clear" \in Removed
    BY DEF FenceInv, StopClear, At, Placed, Removed
  <2> QED
    BY <2>1, Alone
<1>1. KeepRunners /\ KeepOps
  BY DEF StopClear, KeepRunners, KeepOps, envVars, requestVars
<1>2. Moves(p, "stop_checkpoint")
  BY <1>0, GotoMoves DEF StopClear, Moves
<1>3. handler'[p].pc = "stop_checkpoint" /\ handler'[p].s = s /\ handler'[p].todo = {} /\ Others(p)
  BY <1>s, <1>0, <1>2, Alone DEF Moves, SameJob
<1>4. /\ RowsAlike /\ OtherRows(s) /\ KeepStreams
      /\ HasRow(s) => managed_sources'[s].status = "stopped"
  BY <1>s, <1>0, StatusKeeps, StatusNames DEF StopClear, ClearSourceJob
<1>5. entries[s] = NoEntry
  BY <1>s, <1>0 DEF SerialInv, HandlersInTurn, InTurn
<1>6. PolledTo' /\ PolledOnce'
  <2>1. \A y \in DOMAIN entry : SameRun(entry'[y], entry[y])
    BY <1>1 DEF KeepRunners, SameRun
  <2>2. \A y \in DOMAIN entry :
           /\ entry'[y].pc \in Polling =>
                entry[y].spec \in PollSpecs /\ entry'[y].cp = CheckpointOf(entry[y].s)
           /\ entry'[y].pc = "append" =>
                entry'[y].cp <= entry'[y].got /\ entry'[y].got <= feed'[entry[y].s]
    BY <1>1 DEF SerialInv, PolledTo, KeepRunners, KeepOps, Polling
  <2>3. \A u \in Sources : feed[u] <= feed'[u] /\ feed'[u] \in Int
    BY <1>0, <1>1, ManagerAssumption DEF KeepOps, TypeOK
  <2> QED
    BY <1>1, <1>4, <2>1, <2>2, <2>3, AlikeStays DEF KeepRunners, KeepOps
<1>7. \A u \in Sources : Active(u)' => Active(u) /\ u # s
  BY <1>4 DEF Active, OtherRows, HasRow, RowsAlike
<1>8. RunnersNamed' /\ RunnersEnd'
  <2>1. \A y : Live(y)' <=> Live(y)
    BY <1>1 DEF Live, KeepRunners
  <2>2. \A y \in DOMAIN entry : entry[y].s \in Sources /\ y # NoEntry
    BY <1>0, TypedParts DEF EntryIds, NoEntry
  <2>3. \A y \in DOMAIN entry : Live(y)' =>
          entries[entry[y].s] = y /\ managed_sources'[entry[y].s].run = entry[y].run
    BY <1>4, <2>1, <2>2 DEF SerialInv, RunnersNamed, RowsAlike
  <2>4. \A u \in Sources : entries[u] # NoEntry => entry[entries[u]].s = u /\ HasRow(u)'
    BY <1>4 DEF SerialInv, RunnersNamed, RowsAlike
  <2>5. RunnersNamed'
    BY <1>1, <2>3, <2>4 DEF SerialInv, RunnersNamed, KeepRunners
  <2>6. \A y \in DOMAIN entry : entry[y].pc = "exit" => ~Active(entry[y].s)'
    <3> SUFFICES ASSUME NEW y \in DOMAIN entry, entry[y].pc = "exit" PROVE ~Active(entry[y].s)'
      OBVIOUS
    <3>1. PICK u \in Sources : u = entry[y].s /\ u = entry'[y].s
      BY <1>1, <2>2 DEF KeepRunners
    <3>2. ~Active(u)
      BY <3>1 DEF SerialInv, RunnersEnd
    <3> QED
      BY <1>7, <3>1, <3>2
  <2> QED
    BY <1>1, <2>5, <2>6 DEF SerialInv, RunnersEnd, KeepRunners
<1>9. OneAtATime'
  BY <1>0, <1>2, MovesOne
<1>10. StoppedStays'
  <2>1. OtherRows(handler[p].s) /\ OtherPlaces(handler[p].s) /\ last_op' = last_op
    BY <1>s, <1>1, <1>4 DEF KeepRunners, KeepOps, OtherPlaces
  <2> QED
    BY <1>0, <1>2, <2>1, StoppedMoves
<1>11. HandlersInTurn'
  <2>1. InTurn(handler[p])'
    BY <1>1, <1>3, <1>4, <1>5 DEF InTurn, Stopping, Removed, Placed, Placing, KeepRunners, HasRow, RowsAlike
  <2> QED
    BY <1>0, <1>3, <2>1, OneInTurn
<1>12. RowsServed'
  <2>1. \A u \in Sources : u # s /\ entries[u] # NoEntry /\ Live(entries[u]) =>
          entries'[u] = entries[u] /\ Live(entries[u])'
    BY <1>1 DEF Live, KeepRunners
  <2> QED
    BY <1>s, <1>0, <1>3, <1>7, <2>1, ServedOthers
<1>13. MapNamesLive' /\ TasksKept'
  BY <1>0, <1>1, SettledStays
<1> QED
  BY <1>1, <1>6, <1>8, <1>9, <1>10, <1>11, <1>12, <1>13 DEF SerialInv, KeepOps

\* A handler writes the row of a source whose runner is gone, and moves on.
LEMMA RowAloneSerial ==
  ASSUME FenceInv, SerialInv, NEW p \in Procs, NEW s \in Sources, s = handler[p].s, p # Boot,
         handler[p].pc \in {"stop_checkpoint", "delete_row"}, KeepRunners, OtherRows(s),
         RunnersNamed', RunnersEnd', PolledTo', PolledOnce', DOMAIN fresh_from' = Sources,
         Active(s)' => Active(s), DOMAIN last_op' = Sources, OneAtATime', StoppedStays',
         HandlersInTurn', Others(p)
  PROVE  SerialInv'
<1>0. ~At(p, "idle") /\ HandlersHaveEntries
  BY DEF FenceInv, At
<1>1. \A u \in Sources : Active(u)' => Active(u)
  BY DEF OtherRows, Active, HasRow
<1>2. RowsServed'
  <2>1. \A u \in Sources : entries[u] # NoEntry /\ Live(entries[u]) =>
          entries'[u] = entries[u] /\ Live(entries[u])'
    BY DEF Live, KeepRunners
  <2> QED
    BY <1>1, <2>1, ServedStays
<1>3. MapNamesLive' /\ TasksKept'
  BY <1>0, SettledStays
<1> QED
  BY <1>2, <1>3 DEF SerialInv

LEMMA SerialStopCheckpoint ==
  ASSUME FenceInv, SerialInv, NEW p \in Procs, StopCheckpoint(p)
  PROVE  SerialInv'
<1>s. PICK s \in Sources : s = handler[p].s
  BY TypedParts DEF FenceInv
<1>0. /\ TypeOK /\ ~At(p, "idle") /\ handler[p].pc = "stop_checkpoint"
      /\ handler[p].pc \notin Placed /\ handler[p].pc \in Removed /\ p # Boot
  <2>1. /\ TypeOK /\ ~At(p, "idle") /\ handler[p].pc = "stop_checkpoint"
        /\ "stop_checkpoint" \notin Placed /\ "stop_checkpoint" \in Removed
    BY DEF FenceInv, StopCheckpoint, At, Placed, Removed
  <2> QED
    BY <2>1, Alone
<1>1. KeepRunners /\ entries[s] = NoEntry /\ (HasRow(s) => managed_sources[s].status = "stopped")
  BY <1>s, <1>0 DEF StopCheckpoint, KeepRunners, SerialInv, HandlersInTurn, InTurn
<1>2. /\ OtherRows(s) /\ (HasRow(s)' <=> HasRow(s)) /\ KeepStreams
      /\ HasRow(s) =>
           /\ managed_sources'[s].status = managed_sources[s].status
           /\ \/ managed_sources'[s].checkpoint = NoCheckpoint
              \/ managed_sources'[s].checkpoint = managed_sources[s].checkpoint
  BY <1>s, <1>0, RowEffects DEF StopCheckpoint
<1>3. feed' = feed
  BY DEF StopCheckpoint, AfterStop, Answer, requestVars
<1>4. /\ DOMAIN fresh_from' = Sources /\ fresh_from'[s] = next_event_offset[StreamIdOf[s]]
      /\ \A u \in Sources : u # s => fresh_from'[u] = fresh_from[u]
  BY <1>s, <1>2 DEF StopCheckpoint, CheckpointCleared, SerialInv, KeepStreams
<1>5. \A e \in stream_events[StreamIdOf[s]] : ~(e.offset >= fresh_from'[s])
  <2>1. StreamIdOf[s] \in Streams
    BY SourcesAssumption
  <2>2. \A e \in stream_events[StreamIdOf[s]] : e.offset \in Int /\ e.offset < next_event_offset[StreamIdOf[s]]
    BY <1>0, <2>1 DEF FenceInv, EventsKnown, TypeOK, StoreTypeOK, StreamTypeOK, EventRow
  <2>3. next_event_offset[StreamIdOf[s]] \in Int
    BY <1>0, <2>1 DEF TypeOK, StoreTypeOK, StreamTypeOK
  <2> QED
    BY <1>4, <2>2, <2>3
<1>6. CheckpointOf(s)' <= feed[s]
  <2>1. feed[s] \in Nat
    BY <1>0, ManagerAssumption DEF TypeOK
  <2>2. CheckpointOf(s) <= feed[s]
    BY DEF SerialInv, PolledTo
  <2>3. CheckpointOf(s)' = 0 \/ CheckpointOf(s)' = CheckpointOf(s)
    BY <1>2 DEF CheckpointOf
  <2> QED
    BY <2>1, <2>2, <2>3
<1>7. RunnersNamed' /\ RunnersEnd' /\ PolledTo' /\ PolledOnce'
  BY <1>1, <1>2, <1>3, <1>4, <1>5, <1>6, RowAloneStays DEF KeepStreams
<1>8. Active(s)' => Active(s)
  BY <1>2 DEF Active
<1>9. OtherRows(handler[p].s) /\ OtherPlaces(handler[p].s)
  BY <1>s, <1>1, <1>2 DEF KeepRunners, OtherPlaces
<1>10. HasRow(s)' => managed_sources'[s].status = "stopped"
  BY <1>1, <1>2
<1>11. CASE handler[p].op = "stop" /\ Answer(p)
  <2>1. Answers(p)
    BY <1>0, <1>11, AnswerAnswers
  <2>2. entries'[handler[p].s] = NoEntry
        /\ (managed_sources'[handler[p].s] = NoRow \/ managed_sources'[handler[p].s].status = "stopped")
    BY <1>s, <1>1, <1>10 DEF KeepRunners, HasRow
  <2>3. OneAtATime' /\ StoppedStays' /\ HandlersInTurn' /\ DOMAIN last_op' = Sources
    BY <1>0, <1>9, <2>1, <2>2, AnswerStays
  <2>4. Others(p)
    BY <2>1 DEF Answers
  <2> QED
    BY <1>s, <1>0, <1>1, <1>2, <1>4, <1>7, <1>8, <2>3, <2>4, RowAloneSerial
<1>12. ASSUME NEW pc \in {"delete_row", "upsert"}, Goto(p, pc), UNCHANGED requestVars,
              pc = "upsert" => handler[p].op = "ensure"
       PROVE  SerialInv'
  <2>1. Moves(p, pc)
    BY <1>0, <1>12, GotoMoves DEF Moves
  <2>2. last_op' = last_op
    BY <1>12 DEF requestVars
  <2>3. OneAtATime'
    BY <1>0, <2>1, MovesOne
  <2>4. StoppedStays'
    BY <1>0, <1>9, <2>1, <2>2, StoppedMoves
  <2>5. handler'[p].pc = pc /\ handler'[p].s = s /\ handler'[p].todo = {} /\ Others(p)
        /\ handler'[p].op = handler[p].op
    BY <1>s, <1>0, <2>1, Alone DEF Moves, SameJob
  <2>6. \A e \in stream_events'[StreamIdOf[s]] : Polled(e.payload.run)' => ~(e.offset >= fresh_from'[s])
    BY <1>2, <1>5 DEF KeepStreams
  <2>7. InTurn(handler[p])'
    BY <1>1, <1>10, <2>5, <2>6 DEF InTurn, Stopping, Removed, Placed, Placing, KeepRunners
  <2>8. "delete_row" \notin Placed \cup {"get", "upsert"}
    BY DEF Placed
  <2>9. HandlersInTurn'
    BY <1>0, <1>12, <2>5, <2>7, <2>8, OneInTurn
  <2>10. DOMAIN last_op' = Sources
    BY <2>2 DEF SerialInv
  <2> QED
    BY <1>s, <1>0, <1>1, <1>2, <1>4, <1>7, <1>8, <2>3, <2>4, <2>5, <2>9, <2>10, RowAloneSerial
<1> QED
  BY <1>11, <1>12 DEF StopCheckpoint, AfterStop

LEMMA SerialDeleteRow == ASSUME FenceInv, SerialInv, NEW p \in Procs, DeleteRow(p) PROVE SerialInv'
<1>s. PICK s \in Sources : s = handler[p].s
  BY TypedParts DEF FenceInv
<1>0. /\ TypeOK /\ ~At(p, "idle") /\ handler[p].pc = "delete_row"
      /\ handler[p].pc \notin Placed /\ handler[p].pc \in Removed /\ p # Boot
  <2>1. /\ TypeOK /\ ~At(p, "idle") /\ handler[p].pc = "delete_row"
        /\ "delete_row" \notin Placed /\ "delete_row" \in Removed
    BY DEF FenceInv, DeleteRow, At, Placed, Removed
  <2> QED
    BY <2>1, Alone
<1>1. /\ KeepRunners /\ KeepOps /\ entries[s] = NoEntry
      /\ \A e \in stream_events[StreamIdOf[s]] : Polled(e.payload.run) => ~(e.offset >= fresh_from[s])
  BY <1>s, <1>0 DEF DeleteRow, KeepRunners, KeepOps, SerialInv, HandlersInTurn, InTurn, envVars, requestVars
<1>2. OtherRows(s) /\ ~HasRow(s)' /\ KeepStreams
  BY <1>s, <1>0, RowEffects DEF DeleteRow
<1>3. CheckpointOf(s)' <= feed[s]
  <2>1. feed[s] \in Nat
    BY <1>0, ManagerAssumption DEF TypeOK
  <2>2. CheckpointOf(s)' = 0
    BY <1>2 DEF CheckpointOf
  <2> QED
    BY <2>1, <2>2
<1>4. RunnersNamed' /\ RunnersEnd' /\ PolledTo' /\ PolledOnce'
  BY <1>1, <1>2, <1>3, RowAloneStays DEF KeepStreams, KeepOps
<1>5. Moves(p, "delete_entry")
  BY <1>0, GotoMoves DEF DeleteRow, Moves
<1>6. handler'[p].pc = "delete_entry" /\ handler'[p].s = s /\ handler'[p].todo = {} /\ Others(p)
  BY <1>s, <1>0, <1>5, Alone DEF Moves, SameJob
<1>7. OneAtATime'
  BY <1>0, <1>5, MovesOne
<1>8. StoppedStays'
  <2>1. OtherRows(handler[p].s) /\ OtherPlaces(handler[p].s) /\ last_op' = last_op
    BY <1>s, <1>1, <1>2 DEF KeepRunners, KeepOps, OtherPlaces
  <2> QED
    BY <1>0, <1>5, <2>1, StoppedMoves
<1>9. HandlersInTurn'
  <2>1. InTurn(handler[p])'
    BY <1>1, <1>2, <1>6 DEF InTurn, Stopping, Removed, Placed, Placing, KeepRunners
  <2>2. "delete_entry" \notin Placed \cup {"get", "upsert"}
    BY DEF Placed
  <2> QED
    BY <1>0, <1>6, <2>1, <2>2, OneInTurn
<1>10. ~Active(s)' /\ DOMAIN last_op' = Sources /\ DOMAIN fresh_from' = Sources
  BY <1>1, <1>2 DEF Active, KeepOps, SerialInv
<1> QED
  BY <1>s, <1>0, <1>1, <1>2, <1>4, <1>6, <1>7, <1>8, <1>9, <1>10, RowAloneSerial

LEMMA SerialDeleteEntry == ASSUME FenceInv, SerialInv, NEW p \in Procs, DeleteEntry(p) PROVE SerialInv'
<1>s. PICK s \in Sources : s = handler[p].s
  BY TypedParts DEF FenceInv
<1>0. TypeOK /\ handler[p].pc = "delete_entry" /\ handler[p].pc \in Removed
  BY DEF FenceInv, DeleteEntry, At, Removed
<1>1. entries[s] = NoEntry /\ ~HasRow(s)
  BY <1>s, <1>0 DEF SerialInv, HandlersInTurn, InTurn
<1>2. entries' = entries
  BY <1>s, <1>0, <1>1 DEF DeleteEntry, TypeOK
<1>3. KeepRows /\ KeepStreams /\ KeepRunners /\ fresh_from' = fresh_from /\ Answer(p)
  BY <1>2 DEF DeleteEntry, KeepRows, KeepStreams, KeepRunners, storeVars, streamVars
<1> QED
  BY <1>s, <1>0, <1>1, <1>3, QuietAnswer

-----------------------------------------------------------------------------
(* Starting a runner under the serial invariant. *)

LEMMA UpsertEffects ==
  ASSUME TypeOK, NEW s \in Sources, NEW spec \in Specs, NEW run \in Runs, UpsertSource(s, spec, run)
  PROVE  /\ OtherRows(s) /\ HasRow(s)' /\ managed_sources'[s].run = run /\ CheckpointOf(s)' = 0
         /\ stream_events' = stream_events
         /\ next_event_offset'[StreamIdOf[s]] >= next_event_offset[StreamIdOf[s]]
         /\ next_event_offset'[StreamIdOf[s]] \in Int
<1> DEFINE row == [spec |-> spec, run |-> run, status |-> "starting", checkpoint |-> NoCheckpoint]
<1>1. row \in SourceRow /\ row.run = run /\ row.checkpoint = NoCheckpoint
  BY StatusNames DEF SourceRow
<1>2. managed_sources \in [Sources -> SourceRow \cup {NoRow}]
  BY DEF TypeOK, StoreTypeOK
<1>3. managed_sources' = [managed_sources EXCEPT ![s] = row] /\ CreateStream(StreamIdOf[s])
  BY DEF UpsertSource
<1> HIDE DEF row
<1>4. OtherRows(s) /\ managed_sources'[s] = row
  BY <1>2, <1>3 DEF OtherRows
<1>5. HasRow(s)' /\ CheckpointOf(s)' = 0
  BY <1>1, <1>4, RowAssumption DEF HasRow, CheckpointOf
<1>6. StreamIdOf[s] \in Streams /\ next_event_offset \in [Streams -> Nat]
  BY SourcesAssumption DEF TypeOK, StoreTypeOK, StreamTypeOK
<1>7. /\ stream_events' = stream_events
      /\ next_event_offset'[StreamIdOf[s]] >= next_event_offset[StreamIdOf[s]]
      /\ next_event_offset'[StreamIdOf[s]] \in Int
  BY <1>3, <1>6 DEF CreateStream
<1> QED
  BY <1>1, <1>4, <1>5, <1>7

LEMMA SerialEnsureUpsert == ASSUME FenceInv, SerialInv, NEW p \in Procs, EnsureUpsert(p) PROVE SerialInv'
<1>s. PICK s \in Sources : s = handler[p].s
  BY TypedParts DEF FenceInv
<1>0. /\ TypeOK /\ HandlersHaveEntries /\ ~At(p, "idle") /\ handler[p].pc = "upsert"
      /\ handler[p].pc \notin Placed /\ handler[p].pc \in Removed /\ p # Boot /\ "check" \in Placed
  <2>1. /\ TypeOK /\ HandlersHaveEntries /\ ~At(p, "idle") /\ handler[p].pc = "upsert"
        /\ "upsert" \notin Placed /\ "upsert" \in Removed /\ "check" \in Placed
    BY DEF FenceInv, EnsureUpsert, At, Placed, Removed
  <2> QED
    BY <2>1, Alone
<1>1. /\ KeepRunners /\ feed' = feed /\ last_op' = last_op /\ entries[s] = NoEntry
      /\ handler[p].op = "ensure"
  BY <1>s, <1>0 DEF EnsureUpsert, KeepRunners, SerialInv, HandlersInTurn, InTurn, requestVars
<1>2. /\ OtherRows(s) /\ HasRow(s)' /\ managed_sources'[s].run = next_run /\ CheckpointOf(s)' = 0
      /\ stream_events' = stream_events
      /\ next_event_offset'[StreamIdOf[s]] >= next_event_offset[StreamIdOf[s]]
      /\ next_event_offset'[StreamIdOf[s]] \in Int
  <2>1. handler[p].spec \in Specs
    BY <1>0, TypedParts
  <2> QED
    BY <1>s, <1>0, <2>1, UpsertEffects DEF EnsureUpsert
<1>3. /\ DOMAIN fresh_from' = Sources /\ fresh_from'[s] = next_event_offset'[StreamIdOf[s]]
      /\ \A u \in Sources : u # s => fresh_from'[u] = fresh_from[u]
  BY <1>s DEF EnsureUpsert, CheckpointCleared, SerialInv
<1>4. \A e \in stream_events[StreamIdOf[s]] : ~(e.offset >= fresh_from'[s])
  <2>1. StreamIdOf[s] \in Streams
    BY SourcesAssumption
  <2>2. \A e \in stream_events[StreamIdOf[s]] :
          e.offset \in Int /\ e.offset < next_event_offset[StreamIdOf[s]]
    BY <1>0, <2>1 DEF FenceInv, EventsKnown, TypeOK, StoreTypeOK, StreamTypeOK, EventRow
  <2>3. next_event_offset[StreamIdOf[s]] \in Int
    BY <1>0, <2>1 DEF TypeOK, StoreTypeOK, StreamTypeOK
  <2> QED
    BY <1>2, <1>3, <2>2, <2>3
<1>5. RunnersNamed' /\ RunnersEnd' /\ PolledTo' /\ PolledOnce'
  <2>1. CheckpointOf(s)' <= feed[s]
    BY <1>0, <1>2, ManagerAssumption DEF TypeOK
  <2> QED
    BY <1>1, <1>2, <1>3, <1>4, <2>1, RowAloneStays
<1>6. SetRun(p, "check", next_run)
  BY DEF EnsureUpsert, SetRun
<1>7. Moves(p, "check") /\ handler'[p].run = next_run
  BY <1>0, <1>6, RunMoves DEF Moves
<1>8. /\ handler'[p].pc = "check" /\ handler'[p].s = s /\ handler'[p].todo = {} /\ Others(p)
      /\ handler'[p].op = "ensure"
  BY <1>s, <1>0, <1>1, <1>7, Alone DEF Moves, SameJob
<1>9. OneAtATime'
  BY <1>0, <1>7, MovesOne
<1>10. StoppedStays'
  <2>1. OtherRows(handler[p].s) /\ OtherPlaces(handler[p].s)
    BY <1>s, <1>1, <1>2 DEF KeepRunners, OtherPlaces
  <2> QED
    BY <1>0, <1>1, <1>7, <2>1, StoppedMoves
<1>11. HandlersInTurn'
  <2>1. InTurn(handler[p])'
    BY <1>2, <1>7, <1>8 DEF InTurn, Stopping, Removed, Placed, Placing
  <2> QED
    BY <1>0, <1>8, <2>1, OneInTurn
<1>12. RowsServed'
  <2>1. \A u \in Sources : u # s /\ Active(u)' => Active(u)
    BY <1>2 DEF Active, OtherRows, HasRow
  <2>2. \A u \in Sources : u # s /\ entries[u] # NoEntry /\ Live(entries[u]) =>
          entries'[u] = entries[u] /\ Live(entries[u])'
    BY <1>1 DEF Live, KeepRunners
  <2>3. Served(s)'
    BY <1>8 DEF Served, For
  <2> QED
    BY <1>s, <1>0, <1>8, <2>1, <2>2, <2>3, ServedOthers
<1>13. MapNamesLive' /\ TasksKept'
  BY <1>0, <1>1, SettledStays
<1> QED
  BY <1>1, <1>3, <1>5, <1>9, <1>10, <1>11, <1>12, <1>13 DEF SerialInv

LEMMA SerialRunnerSetTask ==
  ASSUME FenceInv, SerialInv, NEW p \in Procs, RunnerSetTask(p)
  PROVE  SerialInv'
<1>x. PICK x : x = handler[p].x
  OBVIOUS
<1>0. /\ TypeOK /\ HandlersHaveEntries /\ ~At(p, "idle") /\ handler[p].pc = "set_task"
      /\ x \in DOMAIN entry /\ handler[p].pc \in Placed
  BY <1>x DEF FenceInv, RunnerSetTask, At, HandlersHaveEntries, Placed
<1>1. KeepRows /\ KeepStreams /\ fresh_from' = fresh_from /\ entries' = entries /\ Ensured(p)
  BY DEF RunnerSetTask, KeepRows, KeepStreams, storeVars, streamVars
<1>2. OneRunner(x) /\ SameRunner(entry'[x], entry[x]) /\ entry'[x].task = "set"
  BY <1>x, <1>0, RunnerEffects DEF RunnerSetTask
<1>3. /\ EnsuredParts' /\ Others(p) /\ feed' = feed
      /\ p = Boot => handler'[p].todo = handler[p].todo
  BY <1>0, <1>1, EnsuredStays
<1>4. \A y \in DOMAIN entry : SameRunner(entry'[y], entry[y])
  BY <1>2 DEF OneRunner, SameRunner
<1>5. RunnersNamed' /\ RunnersEnd' /\ PolledTo' /\ PolledOnce'
  BY <1>0, <1>1, <1>2, <1>3, <1>4, RunnersStay DEF OneRunner
<1>6. \A y \in DOMAIN entry : Live(y)' <=> Live(y)
  BY <1>4 DEF SameRunner, Live
<1>7. RowsServed'
  <2>1. \A u \in Sources : Active(u)' => Active(u)
    BY <1>1 DEF KeepRows, Active, HasRow
  <2>2. \A u \in Sources : entries[u] # NoEntry /\ Live(entries[u]) =>
          entries'[u] = entries[u] /\ Live(entries[u])'
    BY <1>0, <1>1, <1>6 DEF HandlersHaveEntries
  <2> QED
    BY <1>0, <1>3, <2>1, <2>2, ServedStays
<1>8. MapNamesLive' /\ TasksKept'
  <2>0. \A q \in Procs : ~At(q, "stop_remove") /\ ~At(q, "stop_await") /\ (At(q, "set_task") => q = p)
    BY <1>0, Alone DEF At
  <2>1. /\ \A u \in Sources : entries[u] # NoEntry => Live(entries[u])
        /\ \A y \in DOMAIN entry : y # x /\ Live(y) => entry[y].task = "set"
    BY <1>x, <2>0 DEF SerialInv, MapNamesLive, TasksKept
  <2>2. \A u \in Sources : entries'[u] # NoEntry => Live(entries[u])'
    BY <1>0, <1>1, <1>6, <2>1 DEF HandlersHaveEntries
  <2>3. \A y \in DOMAIN entry' : Live(y)' => entry'[y].task = "set"
    BY <1>2, <1>6, <2>1 DEF OneRunner
  <2> QED
    BY <1>1, <2>2, <2>3 DEF MapNamesLive, TasksKept
<1> QED
  BY <1>1, <1>3, <1>5, <1>7, <1>8 DEF EnsuredParts, SerialInv

LEMMA SerialRunnerInsert ==
  ASSUME FenceInv, SerialInv, NEW p \in Procs, RunnerInsert(p)
  PROVE  SerialInv'
<1>s. PICK s \in Sources : s = handler[p].s
  BY TypedParts DEF FenceInv
<1>x. PICK x : x = next_entry
  OBVIOUS
<1>0. /\ TypeOK /\ HandlersHaveEntries /\ ~At(p, "idle") /\ handler[p].pc = "insert"
      /\ handler[p].pc \in Placed /\ "set_task" \in Placed
  BY DEF FenceInv, RunnerInsert, At, Placed
<1>1. KeepRows /\ KeepStreams /\ KeepOps
  BY DEF RunnerInsert, KeepRows, KeepStreams, KeepOps, storeVars, streamVars, envVars, requestVars
<1>2. /\ entries[s] = NoEntry /\ HasRow(s) /\ handler[p].run = managed_sources[s].run
      /\ \A record \in handler[p].todo :
           HasRow(record.s) /\ record.run = managed_sources[record.s].run
      /\ p # Boot => handler[p].op = "ensure"
  BY <1>s, <1>0 DEF SerialInv, HandlersInTurn, InTurn, Placing
<1>3. OtherPlaces(s) /\ entries'[s] = x
  BY <1>s, <1>x, <1>0 DEF RunnerInsert, OtherPlaces, TypeOK
<1>4. /\ x \notin DOMAIN entry /\ x # NoEntry /\ DOMAIN entry' = DOMAIN entry \cup {x}
      /\ \A y \in DOMAIN entry : entry'[y] = entry[y]
      /\ entry'[x] = NewEntry(handler[p])
  <2>1. next_entry \in Nat \ {0} /\ DOMAIN entry = 1..(next_entry - 1) /\ entry \in [1..(next_entry - 1) -> Entry]
    BY <1>0, TypedParts DEF TypeOK
  <2>2. entry \in Seq(Entry) /\ Len(entry) = next_entry - 1
    BY <2>1, SeqDef DEF TypeOK
  <2>3. entry' = Append(entry, NewEntry(handler[p]))
    BY DEF RunnerInsert
  <2>4. /\ \A i \in 1..Len(entry) : entry'[i] = entry[i]
        /\ entry'[Len(entry) + 1] = NewEntry(handler[p]) /\ DOMAIN entry' = 1..(Len(entry) + 1)
    BY <2>2, <2>3
  <2> QED
    BY <1>x, <2>1, <2>2, <2>4 DEF NoEntry
<1>5. /\ entry'[x].s = s /\ entry'[x].run = handler[p].run /\ entry'[x].pc = "start"
      /\ ~entry'[x].aborted /\ entry'[x].task = "none" /\ entry'[x].spec = handler[p].spec
  BY <1>s, <1>4 DEF NewEntry
<1>6. \A y \in DOMAIN entry : (Live(y)' <=> Live(y)) /\ (Live(y) => entry[y].s # s)
      /\ y # x /\ entry[y].s \in Sources
  <2>1. \A y \in DOMAIN entry : Live(y) => entry[y].s # s
    BY <1>2, NoneLive
  <2> QED
    BY <1>0, <1>4, <2>1, TypedParts DEF Live
<1>7. Live(x)'
  BY <1>5 DEF Live
<1>8. SetEntry(p, "set_task", x)
  BY <1>x DEF RunnerInsert, SetEntry
<1>9. Moves(p, "set_task") /\ handler'[p].x = x
  BY <1>0, <1>8, EntryIdMoves DEF Moves
<1>10. /\ handler'[p].pc = "set_task" /\ handler'[p].s = s /\ handler'[p].todo = handler[p].todo
       /\ Others(p) /\ handler'[p].op = handler[p].op
  BY <1>s, <1>9 DEF Moves, SameJob
<1>11. \A u \in Sources : \A e \in stream_events[StreamIdOf[u]] :
         Polled(e.payload.run)' => Polled(e.payload.run)
  <2>1. Next
    BY DEF Next, HandlerStep
  <2> SUFFICES ASSUME NEW u \in Sources, NEW e \in stream_events[StreamIdOf[u]], Polled(e.payload.run)'
               PROVE  Polled(e.payload.run)
    OBVIOUS
  <2>2. StreamIdOf[u] \in Streams
    BY SourcesAssumption
  <2>3. PICK run : run = e.payload.run
    OBVIOUS
  <2>4. PICK y \in DOMAIN entry : entry[y].run = run
    BY <2>2, <2>3 DEF FenceInv, EventsKnown
  <2>5. Polled(run)'
    BY <2>3
  <2> QED
    BY <2>1, <2>3, <2>4, <2>5, PolledKept
<1>12. \A u : (HasRow(u)' <=> HasRow(u)) /\ (Active(u)' <=> Active(u))
              /\ CheckpointOf(u)' = CheckpointOf(u) /\ managed_sources'[u] = managed_sources[u]
  BY <1>1 DEF KeepRows, HasRow, Active, CheckpointOf
<1>13. RunnersNamed'
  <2>1. \A y \in DOMAIN entry' : Live(y)' =>
          entries'[entry'[y].s] = y /\ managed_sources'[entry'[y].s].run = entry'[y].run
    BY <1>2, <1>3, <1>4, <1>5, <1>6, <1>12 DEF SerialInv, RunnersNamed, OtherPlaces
  <2>2. \A u \in Sources : entries'[u] # NoEntry => entry'[entries'[u]].s = u /\ HasRow(u)'
    <3>1. \A u \in Sources : entries[u] # NoEntry => entries[u] \in DOMAIN entry
      BY <1>0 DEF HandlersHaveEntries
    <3> QED
      BY <1>2, <1>3, <1>4, <1>5, <1>12, <3>1 DEF SerialInv, RunnersNamed, OtherPlaces
  <2>3. \A y \in DOMAIN entry' : ~entry'[y].aborted
    BY <1>4, <1>5 DEF SerialInv, RunnersNamed
  <2> QED
    BY <2>1, <2>2, <2>3 DEF RunnersNamed
<1>14. RunnersEnd'
  BY <1>4, <1>5, <1>12 DEF SerialInv, RunnersEnd
<1>15. PolledTo'
  <2>1. \A u \in Sources : CheckpointOf(u)' <= feed'[u]
    BY <1>1, <1>12 DEF SerialInv, PolledTo, KeepOps
  <2>2. \A u \in Sources : \A e \in stream_events'[StreamIdOf[u]] : Fresh(u, e)' =>
          /\ HasRow(u)' /\ managed_sources'[u].run = e.payload.run
          /\ e.payload.item <= CheckpointOf(u)'
    BY <1>1, <1>11, <1>12 DEF SerialInv, PolledTo, Fresh, KeepStreams, KeepOps
  <2>3. \A y \in DOMAIN entry' : entry'[y].pc \in Polling => y \in DOMAIN entry
    BY <1>4, <1>5 DEF Polling
  <2>4. \A y \in DOMAIN entry : CheckpointOf(entry[y].s)' = CheckpointOf(entry[y].s)
    BY <1>4, <1>12
  <2> QED
    BY <1>1, <1>4, <2>1, <2>2, <2>3, <2>4 DEF SerialInv, PolledTo, KeepOps, Polling
<1>16. PolledOnce'
  BY <1>1, <1>11 DEF SerialInv, PolledOnce, KeepStreams, KeepOps
<1>17. OneAtATime'
  BY <1>0, <1>9, MovesOne
<1>18. StoppedStays'
  <2>1. OtherRows(handler[p].s) /\ OtherPlaces(handler[p].s) /\ last_op' = last_op
    BY <1>s, <1>1, <1>3 DEF KeepRows, KeepOps, OtherRows
  <2> QED
    BY <1>0, <1>9, <2>1, StoppedMoves
<1>19. HandlersInTurn'
  <2>1. InTurn(handler[p])'
    BY <1>2, <1>10, <1>12 DEF InTurn, Stopping, Removed, Placed, Placing
  <2> QED
    BY <1>0, <1>2, <1>10, <2>1, OneInTurn
<1>20. RowsServed'
  <2>1. \A u \in Sources : u # s /\ entries[u] # NoEntry /\ Live(entries[u]) =>
          entries'[u] = entries[u] /\ Live(entries[u])'
    BY <1>0, <1>3, <1>6 DEF OtherPlaces, HandlersHaveEntries
  <2>2. Served(s)'
    BY <1>3, <1>4, <1>7 DEF Served
  <2> QED
    BY <1>s, <1>0, <1>10, <1>12, <2>1, <2>2, ServedOthers
<1>21. MapNamesLive' /\ TasksKept'
  <2>1. /\ \A u \in Sources : entries[u] # NoEntry => Live(entries[u])
        /\ \A y \in DOMAIN entry : Live(y) => entry[y].task = "set"
    BY <1>0, Settled
  <2>2. \A u \in Sources : entries'[u] # NoEntry => Live(entries[u])' \/ u = s
    BY <1>0, <1>3, <1>6, <2>1 DEF OtherPlaces, HandlersHaveEntries
  <2>3. MapNamesLive'
    BY <1>3, <1>7, <2>2 DEF MapNamesLive, OtherPlaces
  <2>4. \A y \in DOMAIN entry : Live(y)' => entry'[y].task = "set"
    BY <1>4, <1>6, <2>1
  <2>5. At(p, "set_task")' /\ handler'[p].x = x
    BY <1>9, <1>10 DEF At
  <2>6. TasksKept'
    BY <1>4, <1>5, <2>4, <2>5 DEF TasksKept
  <2> QED
    BY <2>3, <2>6
<1> QED
  BY <1>1, <1>13, <1>14, <1>15, <1>16, <1>17, <1>18, <1>19, <1>20, <1>21 DEF SerialInv, KeepOps

-----------------------------------------------------------------------------
(* Requests, restarts and the upstream under the serial invariant. *)

LEMMA SerialRequest ==
  ASSUME Serial, FenceInv, SerialInv, NEW c \in Clients, NEW op \in {"ensure", "stop", "delete"},
         NEW s \in Sources, NEW spec, Request(c, op, s, spec)
  PROVE  SerialInv'
<1>0. TypeOK /\ HandlersHaveEntries /\ c # Boot /\ Boot \in Procs /\ c \in Procs
  BY ManagerAssumption DEF FenceInv, Procs
<1>1. \A p \in Procs : handler[p].pc = "idle" /\ handler[p].todo = {}
  <2>1. IsFiniteSet(Procs)
    BY ManagerAssumption, FS_AddElement DEF Procs
  <2>2. Busy \subseteq Procs
    BY DEF Busy
  <2>3. IsFiniteSet(Busy)
    BY <2>1, <2>2, FS_Subset
  <2>4. Cardinality(Busy) \in Nat /\ Cardinality(Busy) < 1
    BY <2>3, FS_CardinalityType DEF Request, Serial
  <2>5. Cardinality(Busy) = 0
    BY <2>4
  <2>6. Busy = {}
    BY <2>3, <2>5, FS_EmptySet
  <2>7. \A p \in Procs : At(p, "idle")
    BY <2>6 DEF Busy
  <2> QED
    BY <2>7 DEF SerialInv, OneAtATime, At
<1>2. /\ Others(c) /\ handler'[c].pc \in {"get", "stop_get"} /\ handler'[c].s = s
      /\ handler'[c].todo = {} /\ handler'[c].op = op /\ (handler'[c].pc = "get" => op = "ensure")
  BY <1>0, RequestMoves
<1>3. /\ KeepRows /\ KeepStreams /\ KeepRunners /\ feed' = feed /\ fresh_from' = fresh_from
      /\ DOMAIN last_op' = Sources /\ last_op'[s] = "none"
      /\ \A u \in Sources : u # s => last_op'[u] = last_op[u]
  BY DEF Request, KeepRows, KeepStreams, KeepRunners, storeVars, streamVars, SerialInv
<1>4. \A p \in Procs : /\ p # c => handler'[p].pc = "idle"
                       /\ handler'[p].todo = {}
  BY <1>1, <1>2 DEF Others
<1>5. OneAtATime'
  <2>1. \A p, q \in Procs : handler'[p].pc # "idle" /\ handler'[q].pc # "idle" => p = q
    BY <1>4
  <2>2. \A p \in Procs : handler'[p].pc # "boot_load" /\ handler'[p].pc # "boot_next"
    BY <1>2, <1>4
  <2> QED
    BY <1>0, <1>4, <2>1, <2>2 DEF OneAtATime, At
<1>6. HandlersInTurn'
  <2>1. \A p \in Procs : handler'[p].pc \in {"idle", "get", "stop_get"}
    BY <1>2, <1>4
  <2>2. \A p \in Procs : InTurn(handler[p])'
    BY <1>4, <2>1 DEF InTurn, Stopping, Removed, Placed, Placing
  <2>3. \A p \in Procs : p # Boot /\ handler'[p].pc \in Placed \cup {"get", "upsert"} =>
          handler'[p].op = "ensure"
    BY <1>2, <1>4 DEF Placed
  <2> QED
    BY <2>2, <2>3 DEF HandlersInTurn
<1>7. StoppedStays'
  <2> SUFFICES ASSUME NEW u \in Sources, last_op'[u] \in {"stop", "delete"}
               PROVE  /\ entries'[u] = NoEntry
                      /\ HasRow(u)' => managed_sources'[u].status = "stopped"
                      /\ \A q \in Procs : handler'[q].pc \notin {"idle", "boot_load", "boot_next"} =>
                           handler'[q].s # u
                      /\ \A record \in handler'[Boot].todo : record.s # u
    BY DEF StoppedStays, For, Resumable
  <2>1. u # s /\ last_op[u] \in {"stop", "delete"}
    BY <1>3
  <2> QED
    BY <1>0, <1>2, <1>3, <1>4, <2>1 DEF SerialInv, StoppedStays, KeepRows, KeepRunners, HasRow
<1>8. RunnersNamed' /\ RunnersEnd' /\ PolledTo' /\ PolledOnce'
  <2>1. \A x \in DOMAIN entry : SameRunner(entry[x], entry[x])
    BY DEF SameRunner
  <2> QED
    BY <1>0, <1>3, <2>1, RunnersStay DEF KeepRunners
<1>9. MapNamesLive' /\ TasksKept'
  <2>1. /\ \A u \in Sources : entries[u] # NoEntry => Live(entries[u])
        /\ \A x \in DOMAIN entry : Live(x) => entry[x].task = "set"
    BY <1>1 DEF SerialInv, MapNamesLive, TasksKept, At
  <2> QED
    BY <1>3, <2>1 DEF MapNamesLive, TasksKept, KeepRunners, Live
<1>10. RowsServed'
  <2>1. \A u \in Sources : Active(u) => entries[u] # NoEntry /\ Live(entries[u])
    BY <1>0, <1>1 DEF SerialInv, RowsServed, Served, Resumable, At
  <2>2. \A u \in Sources : Active(u)' => entries'[u] # NoEntry /\ Live(entries[u])'
    BY <1>3, <2>1 DEF KeepRows, KeepRunners, Active, HasRow, Live
  <2> QED
    BY <2>2 DEF RowsServed, Served
<1> QED
  BY <1>3, <1>5, <1>6, <1>7, <1>8, <1>9, <1>10 DEF SerialInv

LEMMA SerialCrash == ASSUME FenceInv, SerialInv, Crash PROVE SerialInv'
<1>0. TypeOK /\ Boot \in Procs
  BY DEF FenceInv, Procs
<1>1. /\ \A p \in Procs : handler'[p].todo = {} /\ handler'[p].pc \in {"idle", "boot_load"}
      /\ handler'[Boot].pc = "boot_load"
      /\ \A p \in Procs : p # Boot => handler'[p].pc = "idle"
  BY <1>0, CrashMoves
<1>2. /\ KeepRows /\ KeepStreams /\ KeepOps
      /\ \A u \in Sources : entries'[u] = NoEntry
  BY DEF Crash, KeepRows, KeepStreams, KeepOps, storeVars, streamVars
<1>3. DOMAIN entry' = DOMAIN entry /\ \A x \in DOMAIN entry : EndedRunner(entry'[x], entry[x])
  <2>1. \A d \in Entry : EndedRunner([d EXCEPT !.pc = "dead", !.holder = NoProc], d)
    BY DEF Entry, EndedRunner
  <2>2. \A x \in DOMAIN entry : entry[x] \in Entry
    BY <1>0, TypedParts
  <2>3. entry' = [x \in DOMAIN entry |-> [entry[x] EXCEPT !.pc = "dead", !.holder = NoProc]]
    BY DEF Crash
  <2> QED
    BY <2>1, <2>2, <2>3
<1>4. RunnersEnd' /\ PolledTo' /\ PolledOnce'
  BY <1>2, <1>3, RunnersEnded DEF KeepOps
<1>5. \A x \in DOMAIN entry' : ~Live(x)' /\ ~entry'[x].aborted
  BY <1>3 DEF EndedRunner, Live, SerialInv, RunnersNamed
<1>6. RunnersNamed' /\ MapNamesLive' /\ TasksKept'
  BY <1>2, <1>5 DEF RunnersNamed, MapNamesLive, TasksKept
<1>7. OneAtATime'
  <2>1. \A p, q \in Procs : handler'[p].pc # "idle" /\ handler'[q].pc # "idle" => p = q
    BY <1>1
  <2>2. \A p \in Procs : p # Boot \/ handler'[p].pc = "idle" =>
          handler'[p].pc # "boot_load" /\ handler'[p].pc # "boot_next"
    BY <1>1
  <2> QED
    BY <1>0, <1>1, <2>1, <2>2 DEF OneAtATime, At
<1>8. HandlersInTurn'
  <2>1. \A p \in Procs : InTurn(handler[p])'
    BY <1>1 DEF InTurn, Stopping, Removed, Placed, Placing
  <2>2. \A p \in Procs : handler'[p].pc \notin Placed \cup {"get", "upsert"}
    BY <1>1 DEF Placed
  <2> QED
    BY <2>1, <2>2 DEF HandlersInTurn
<1>9. StoppedStays'
  BY <1>0, <1>1, <1>2 DEF SerialInv, StoppedStays, Resumable, KeepRows, KeepOps, HasRow
<1>10. RowsServed'
  BY <1>1 DEF RowsServed, Served, At
<1> QED
  BY <1>2, <1>4, <1>6, <1>7, <1>8, <1>9, <1>10 DEF SerialInv, KeepOps

LEMMA BootStays ==
  ASSUME FenceInv, SerialInv, handler[Boot].pc \in {"boot_load", "boot_next"}, KeepAll
  PROVE  /\ RunnersNamed' /\ RunnersEnd' /\ PolledTo' /\ PolledOnce' /\ MapNamesLive' /\ TasksKept'
         /\ DOMAIN last_op' = Sources /\ DOMAIN fresh_from' = Sources
         /\ Boot \in Procs /\ ~At(Boot, "idle")
         /\ \A u : /\ (HasRow(u)' <=> HasRow(u)) /\ (Active(u)' <=> Active(u))
                   /\ managed_sources'[u] = managed_sources[u] /\ entries'[u] = entries[u]
                   /\ (Live(u)' <=> Live(u))
<1>0. HandlersHaveEntries /\ KeepRows /\ KeepStreams /\ KeepRunners /\ KeepOps /\ Boot \in Procs
      /\ ~At(Boot, "idle")
  BY DEF FenceInv, KeepAll, Procs, At
<1>1. MapNamesLive' /\ TasksKept'
  BY <1>0, SettledStays
<1>2. RunnersNamed' /\ RunnersEnd' /\ PolledTo' /\ PolledOnce'
  <2>1. \A x \in DOMAIN entry : SameRunner(entry[x], entry[x])
    BY DEF SameRunner
  <2> QED
    BY <1>0, <2>1, RunnersStay DEF KeepRunners, KeepOps
<1>3. \A u : /\ (HasRow(u)' <=> HasRow(u)) /\ (Active(u)' <=> Active(u))
             /\ managed_sources'[u] = managed_sources[u] /\ entries'[u] = entries[u]
             /\ (Live(u)' <=> Live(u))
  BY <1>0 DEF KeepRows, KeepRunners, HasRow, Active, Live
<1> QED
  BY <1>0, <1>1, <1>2, <1>3 DEF SerialInv, KeepOps

LEMMA SerialBootLoad == ASSUME FenceInv, SerialInv, BootLoad PROVE SerialInv'
<1>0. TypeOK /\ handler[Boot].pc = "boot_load"
  BY DEF FenceInv, BootLoad, At
<1>1. KeepAll
  BY DEF BootLoad, KeepAll, KeepRows, KeepStreams, KeepRunners, KeepOps, storeVars, streamVars,
     envVars, requestVars
<1>2. /\ RunnersNamed' /\ RunnersEnd' /\ PolledTo' /\ PolledOnce' /\ MapNamesLive' /\ TasksKept'
      /\ DOMAIN last_op' = Sources /\ DOMAIN fresh_from' = Sources
      /\ Boot \in Procs /\ ~At(Boot, "idle")
      /\ \A u : /\ (HasRow(u)' <=> HasRow(u)) /\ (Active(u)' <=> Active(u))
                /\ managed_sources'[u] = managed_sources[u] /\ entries'[u] = entries[u]
                /\ (Live(u)' <=> Live(u))
  BY <1>0, <1>1, BootStays
<1>3. /\ Others(Boot) /\ handler'[Boot].pc = "boot_next"
      /\ \A record \in handler'[Boot].todo :
           /\ record.s \in Sources /\ HasRow(record.s)
           /\ managed_sources[record.s].status # "stopped"
           /\ record.run = managed_sources[record.s].run
      /\ \A s \in Sources : HasRow(s) /\ managed_sources[s].status # "stopped" =>
           \E record \in handler'[Boot].todo : record.s = s
  BY <1>0, BootLoadMoves
<1>4. OneAtATime'
  BY <1>2, <1>3, OneStays
<1>5. HandlersInTurn'
  <2>1. InTurn(handler[Boot])'
    BY <1>1, <1>3 DEF InTurn, Stopping, Removed, Placed, Placing, KeepAll, KeepRows, HasRow
  <2> QED
    BY <1>2, <1>3, <2>1, OneInTurn
<1>6. StoppedStays'
  <2>1. \A q \in Procs : handler'[q].pc \in {"idle", "boot_next"}
    BY <1>2, <1>3, Alone DEF Others
  <2>2. \A u \in Sources : last_op'[u] \in {"stop", "delete"} =>
          /\ entries'[u] = NoEntry
          /\ HasRow(u)' => managed_sources'[u].status = "stopped"
          /\ \A record \in handler'[Boot].todo : record.s # u
    BY <1>1, <1>2, <1>3 DEF SerialInv, StoppedStays, KeepAll, KeepOps
  <2> QED
    BY <2>1, <2>2 DEF StoppedStays, Resumable
<1>7. RowsServed'
  BY <1>2, <1>3 DEF RowsServed, Served, Resumable, Active
<1> QED
  BY <1>2, <1>4, <1>5, <1>6, <1>7 DEF SerialInv

LEMMA SerialBootNext == ASSUME FenceInv, SerialInv, BootNext PROVE SerialInv'
<1>0. TypeOK /\ handler[Boot].pc = "boot_next"
  BY DEF FenceInv, BootNext, At
<1>1. KeepAll
  BY DEF BootNext, KeepAll, KeepRows, KeepStreams, KeepRunners, KeepOps, storeVars, streamVars,
     envVars, requestVars
<1>2. /\ RunnersNamed' /\ RunnersEnd' /\ PolledTo' /\ PolledOnce' /\ MapNamesLive' /\ TasksKept'
      /\ DOMAIN last_op' = Sources /\ DOMAIN fresh_from' = Sources
      /\ Boot \in Procs /\ ~At(Boot, "idle")
      /\ \A u : /\ (HasRow(u)' <=> HasRow(u)) /\ (Active(u)' <=> Active(u))
                /\ managed_sources'[u] = managed_sources[u] /\ entries'[u] = entries[u]
                /\ (Live(u)' <=> Live(u))
  BY <1>0, <1>1, BootStays
<1>3. \A record \in handler[Boot].todo :
        HasRow(record.s) /\ record.run = managed_sources[record.s].run
  BY <1>2 DEF SerialInv, HandlersInTurn, InTurn
<1>4. \A u \in Sources : last_op'[u] \in {"stop", "delete"} =>
        /\ entries'[u] = NoEntry
        /\ HasRow(u)' => managed_sources'[u].status = "stopped"
        /\ \A record \in handler[Boot].todo : record.s # u
  BY <1>1, <1>2 DEF SerialInv, StoppedStays, KeepAll, KeepOps, Resumable
<1>5. \A u \in Sources : Active(u) =>
        \/ entries[u] # NoEntry /\ Live(entries[u])
        \/ \E record \in handler[Boot].todo : record.s = u
  <2>1. \A q \in Procs : handler[q].pc \notin {"check", "insert", "stop_remove", "stop_clear"}
    BY <1>0, <1>2, Alone
  <2> QED
    BY <1>0, <2>1 DEF SerialInv, RowsServed, Served, At, Resumable
<1>l. \A u \in Sources : entries[u] # NoEntry /\ Live(entries[u]) => entries'[u] # NoEntry /\ Live(entries[u])'
  BY <1>1 DEF KeepAll, KeepRunners, Live
<1>6. Others(Boot)
  BY <1>0, BootNextMoves
<1>7. \A q \in Procs : q # Boot => handler'[q].pc = "idle"
  BY <1>2, <1>6, Alone DEF Others
<1>8. CASE handler[Boot].todo = {} /\ handler'[Boot].pc = "idle" /\ handler'[Boot].todo = {}
  <2>1. OneAtATime'
    BY <1>2, <1>6, <1>8, OneStays
  <2>2. HandlersInTurn'
    <3>1. InTurn(handler[Boot])'
      BY <1>8 DEF InTurn, Stopping, Removed, Placed, Placing
    <3> QED
      BY <1>2, <1>6, <1>8, <3>1, OneInTurn
  <2>3. StoppedStays'
    <3>1. \A q \in Procs : handler'[q].pc = "idle"
      BY <1>7, <1>8
    <3> QED
      BY <1>4, <1>8, <3>1 DEF StoppedStays, Resumable
  <2>4. RowsServed'
    <3>1. \A u \in Sources : Active(u)' => entries'[u] # NoEntry /\ Live(entries[u])'
      BY <1>2, <1>5, <1>8, <1>l
    <3> QED
      BY <3>1 DEF RowsServed, Served
  <2> QED
    BY <1>2, <2>1, <2>2, <2>3, <2>4 DEF SerialInv
<1>9. ASSUME NEW record \in handler[Boot].todo, handler'[Boot].pc = "check",
             handler'[Boot].s = record.s, handler'[Boot].run = record.run,
             handler'[Boot].todo = handler[Boot].todo \ {record}
      PROVE  SerialInv'
  <2>0. "check" \in Placed
    BY DEF Placed
  <2>1. OneAtATime'
    BY <1>2, <1>6, <1>9, <2>0, OneStays
  <2>2. HandlersInTurn'
    <3>1. InTurn(handler[Boot])'
      <4>1. \A d : HasRow(d)' <=> HasRow(d)
        BY <1>2
      <4>2. HasRow(handler[Boot].s)' /\ handler'[Boot].run = managed_sources'[handler'[Boot].s].run
        BY <1>1, <1>3, <1>9 DEF KeepAll, KeepRows, HasRow
      <4>3. \A d \in handler'[Boot].todo : HasRow(d.s)' /\ d.run = managed_sources'[d.s].run
        BY <1>1, <1>3, <1>9 DEF KeepAll, KeepRows, HasRow
      <4> QED
        BY <1>9, <4>2, <4>3 DEF InTurn, Stopping, Removed, Placed, Placing
    <3> QED
      BY <1>2, <1>6, <1>9, <3>1, OneInTurn
  <2>3. StoppedStays'
    <3> SUFFICES ASSUME NEW u \in Sources, last_op'[u] \in {"stop", "delete"}
                 PROVE  /\ \A q \in Procs : handler'[q].pc \notin {"idle", "boot_load", "boot_next"} =>
                             handler'[q].s # u
                        /\ \A d \in handler'[Boot].todo : d.s # u
      BY <1>4 DEF StoppedStays, For, Resumable
    <3> QED
      BY <1>4, <1>7, <1>9
  <2>4. RowsServed'
    <3> SUFFICES ASSUME NEW u \in Sources, Active(u)' PROVE Served(u)'
      BY DEF RowsServed
    <3>1. CASE entries[u] # NoEntry /\ Live(entries[u])
      BY <1>l, <3>1 DEF Served
    <3>2. CASE record.s = u
      BY <1>2, <1>9, <3>2 DEF Served, For
    <3>3. ASSUME NEW d \in handler[Boot].todo, d.s = u, record.s # u PROVE Served(u)'
      BY <1>9, <3>3 DEF Served, Resumable
    <3> QED
      BY <1>2, <1>5, <3>1, <3>2, <3>3
  <2> QED
    BY <1>2, <2>1, <2>2, <2>3, <2>4 DEF SerialInv
<1> QED
  BY <1>0, <1>8, <1>9, BootNextMoves

\* Only the upstream moves, or nothing.
LEMMA FeedStays ==
  ASSUME FenceInv, SerialInv, handler' = handler, KeepRows, KeepStreams, KeepRunners,
         last_op' = last_op, fresh_from' = fresh_from,
         \A u \in Sources : feed[u] <= feed'[u] /\ feed'[u] \in Int
  PROVE  SerialInv'
<1>0. DOMAIN last_op' = Sources /\ DOMAIN fresh_from' = Sources
  BY DEF SerialInv
<1>1. OneAtATime'
  BY DEF SerialInv, OneAtATime, At
<1>2. \A u : /\ (HasRow(u)' <=> HasRow(u)) /\ (Active(u)' <=> Active(u)) /\ (Live(u)' <=> Live(u))
             /\ managed_sources'[u] = managed_sources[u] /\ CheckpointOf(u)' = CheckpointOf(u)
             /\ (Polled(u)' <=> Polled(u)) /\ (Resumable(u)' <=> Resumable(u))
  BY DEF KeepRows, KeepRunners, HasRow, Active, Live, CheckpointOf, Polled, Resumable
<1>3. RunnersNamed'
  BY <1>2 DEF SerialInv, RunnersNamed, KeepRunners
<1>4. RunnersEnd'
  BY <1>2 DEF SerialInv, RunnersEnd, KeepRunners
<1>5. MapNamesLive' /\ TasksKept'
  BY <1>2 DEF SerialInv, MapNamesLive, TasksKept, KeepRunners, Live, At, For
<1>6. HandlersInTurn'
  BY <1>2 DEF SerialInv, HandlersInTurn, InTurn, KeepRunners, KeepStreams, Live, HasRow, KeepRows, Placing, Polled
<1>7. StoppedStays'
  BY <1>2 DEF SerialInv, StoppedStays, KeepRunners, For
<1>8. RowsServed'
  BY <1>2 DEF SerialInv, RowsServed, Served, KeepRunners, For, At, Live
<1>9. PolledTo' /\ PolledOnce'
  <2>1. \A y \in DOMAIN entry : SameRun(entry'[y], entry[y])
    BY DEF KeepRunners, SameRun
  <2>2. \A y \in DOMAIN entry :
           /\ entry'[y].pc \in Polling =>
                entry[y].spec \in PollSpecs /\ entry'[y].cp = CheckpointOf(entry[y].s)
           /\ entry'[y].pc = "append" =>
                entry'[y].cp <= entry'[y].got /\ entry'[y].got <= feed'[entry[y].s]
    <3>1. \A y \in DOMAIN entry :
            entry[y].s \in Sources /\ entry[y].got \in Int /\ feed[entry[y].s] \in Int
      BY TypedParts, ManagerAssumption DEF FenceInv
    <3> QED
      BY <3>1 DEF SerialInv, PolledTo, KeepRunners, Polling
  <2> QED
    BY <2>1, <2>2, AlikeStays, RowsKeptAlike DEF KeepRunners
<1> QED
  BY <1>0, <1>1, <1>3, <1>4, <1>5, <1>6, <1>7, <1>8, <1>9 DEF SerialInv

LEMMA SerialPublish == ASSUME FenceInv, SerialInv, NEW s \in Sources, Publish(s) PROVE SerialInv'
<1>1. /\ handler' = handler /\ KeepRows /\ KeepStreams /\ KeepRunners
      /\ last_op' = last_op /\ fresh_from' = fresh_from
  BY DEF Publish, KeepRows, KeepStreams, KeepRunners, storeVars, streamVars, managerVars
<1>2. \A u \in Sources : feed[u] <= feed'[u] /\ feed'[u] \in Int
  BY ManagerAssumption DEF FenceInv, TypeOK, Publish
<1> QED
  BY <1>1, <1>2, FeedStays

LEMMA SerialStutter == ASSUME FenceInv, SerialInv, UNCHANGED vars PROVE SerialInv'
<1>1. /\ handler' = handler /\ KeepRows /\ KeepStreams /\ KeepRunners
      /\ last_op' = last_op /\ fresh_from' = fresh_from /\ feed' = feed
  BY DEF vars, KeepRows, KeepStreams, KeepRunners, storeVars, streamVars, managerVars, envVars, requestVars
<1>2. \A u \in Sources : feed[u] <= feed'[u] /\ feed'[u] \in Int
  BY <1>1, ManagerAssumption DEF FenceInv, TypeOK
<1> QED
  BY <1>1, <1>2, FeedStays

LEMMA SerialStart == Init => SerialInv
<1> SUFFICES ASSUME Init PROVE SerialInv
  OBVIOUS
<1>a. \A p \in Procs : handler[p] = Idle
  BY DEF Init
<1>b. DOMAIN entry = {} /\ Boot \in Procs
  BY DEF Init, Procs
<1>c. /\ \A s \in Sources : entries[s] = NoEntry
      /\ \A s \in Sources : last_op[s] = "none" /\ feed[s] = 0
      /\ DOMAIN last_op = Sources /\ DOMAIN fresh_from = Sources
  BY DEF Init
<1>d. /\ \A s \in Sources : ~HasRow(s)
      /\ \A st \in Streams : stream_events[st] = {}
  BY DEF Init, StoreInit, StreamInit, HasRow
<1>0. /\ \A p \in Procs : handler[p].pc = "idle" /\ handler[p].todo = {}
      /\ Boot \in Procs /\ DOMAIN entry = {} /\ \A s \in Sources : entries[s] = NoEntry
      /\ \A s \in Sources : ~HasRow(s) /\ last_op[s] = "none" /\ feed[s] = 0
      /\ DOMAIN last_op = Sources /\ DOMAIN fresh_from = Sources
      /\ \A st \in Streams : stream_events[st] = {}
  BY <1>a, <1>b, <1>c, <1>d, IdleFields
<1>1. OneAtATime
  BY <1>0 DEF OneAtATime, At
<1>2. RunnersNamed /\ RunnersEnd /\ MapNamesLive /\ TasksKept
  BY <1>0 DEF RunnersNamed, RunnersEnd, MapNamesLive, TasksKept
<1>3. HandlersInTurn
  BY <1>0 DEF HandlersInTurn, InTurn, Stopping, Removed, Placed, Placing
<1>4. StoppedStays /\ RowsServed
  BY <1>0 DEF StoppedStays, RowsServed, Active
<1>5. \A s \in Sources : stream_events[StreamIdOf[s]] = {}
  BY <1>0, SourcesAssumption
<1>6. PolledTo /\ PolledOnce
  BY <1>0, <1>5 DEF PolledTo, PolledOnce, CheckpointOf
<1> QED
  BY <1>0, <1>1, <1>2, <1>3, <1>4, <1>6 DEF SerialInv

-----------------------------------------------------------------------------
(* The runners under the serial invariant. *)

Becomes(x, pc, view, cp, got) ==
  /\ OneRunner(x) /\ SameRun(entry'[x], entry[x]) /\ entry'[x].task = entry[x].task
  /\ entry'[x].pc = pc /\ entry'[x].view = view /\ entry'[x].cp = cp /\ entry'[x].got = got
Fields(e, d, pc, view, cp, got) ==
  SameRun(e, d) /\ e.task = d.task /\ e.pc = pc /\ e.view = view /\ e.cp = cp /\ e.got = got

LEMMA EntryFields ==
  ASSUME NEW d \in Entry, NEW pc, NEW view, NEW cp, NEW got
  PROVE  /\ Fields([d EXCEPT !.pc = pc], d, pc, d.view, d.cp, d.got)
         /\ Fields([d EXCEPT !.pc = pc, !.view = view], d, pc, view, d.cp, d.got)
         /\ Fields([d EXCEPT !.view = view, !.pc = pc], d, pc, view, d.cp, d.got)
         /\ Fields([d EXCEPT !.pc = pc, !.cp = cp], d, pc, d.view, cp, d.got)
         /\ Fields([d EXCEPT !.pc = pc, !.view = view, !.cp = cp], d, pc, view, cp, d.got)
         /\ Fields([d EXCEPT !.got = got, !.view = view, !.pc = pc], d, pc, view, d.cp, got)
BY DEF Entry, Fields, SameRun

LEMMA EntryBecomes ==
  ASSUME TypeOK, NEW x \in DOMAIN entry, NEW pc, NEW view, NEW cp, NEW got
  PROVE  /\ entry' = [entry EXCEPT ![x].pc = pc] =>
              Becomes(x, pc, entry[x].view, entry[x].cp, entry[x].got)
         /\ entry' = [entry EXCEPT ![x].pc = pc, ![x].view = view] =>
              Becomes(x, pc, view, entry[x].cp, entry[x].got)
         /\ entry' = [entry EXCEPT ![x].view = view, ![x].pc = pc] =>
              Becomes(x, pc, view, entry[x].cp, entry[x].got)
         /\ entry' = [entry EXCEPT ![x].pc = pc, ![x].cp = cp] =>
              Becomes(x, pc, entry[x].view, cp, entry[x].got)
         /\ entry' = [entry EXCEPT ![x].pc = pc, ![x].view = view, ![x].cp = cp] =>
              Becomes(x, pc, view, cp, entry[x].got)
         /\ entry' = [entry EXCEPT ![x].got = got, ![x].view = view, ![x].pc = pc] =>
              Becomes(x, pc, view, entry[x].cp, got)
<1>0. entry[x] \in Entry
  BY TypedParts
<1>1. ASSUME NEW e, NEW v, NEW c, NEW g, entry' = [entry EXCEPT ![x] = e],
             Fields(e, entry[x], pc, v, c, g)
      PROVE  Becomes(x, pc, v, c, g)
  <2>1. OneRunner(x) /\ entry'[x] = e
    BY <1>1 DEF OneRunner
  <2> QED
    BY <1>1, <2>1 DEF Becomes, Fields
<1>2. ASSUME entry' = [entry EXCEPT ![x].pc = pc]
      PROVE  Becomes(x, pc, entry[x].view, entry[x].cp, entry[x].got)
  <2>1. entry' = [entry EXCEPT ![x] = [entry[x] EXCEPT !.pc = pc]]
    BY <1>2
  <2> QED
    BY <1>0, <1>1, <2>1, EntryFields
<1>3. ASSUME entry' = [entry EXCEPT ![x].pc = pc, ![x].view = view]
      PROVE  Becomes(x, pc, view, entry[x].cp, entry[x].got)
  <2>1. entry' = [entry EXCEPT ![x] = [entry[x] EXCEPT !.pc = pc, !.view = view]]
    BY <1>3
  <2> QED
    BY <1>0, <1>1, <2>1, EntryFields
<1>4. ASSUME entry' = [entry EXCEPT ![x].view = view, ![x].pc = pc]
      PROVE  Becomes(x, pc, view, entry[x].cp, entry[x].got)
  <2>1. entry' = [entry EXCEPT ![x] = [entry[x] EXCEPT !.view = view, !.pc = pc]]
    BY <1>4
  <2> QED
    BY <1>0, <1>1, <2>1, EntryFields
<1>5. ASSUME entry' = [entry EXCEPT ![x].pc = pc, ![x].cp = cp]
      PROVE  Becomes(x, pc, entry[x].view, cp, entry[x].got)
  <2>1. entry' = [entry EXCEPT ![x] = [entry[x] EXCEPT !.pc = pc, !.cp = cp]]
    BY <1>5
  <2> QED
    BY <1>0, <1>1, <2>1, EntryFields
<1>6. ASSUME entry' = [entry EXCEPT ![x].pc = pc, ![x].view = view, ![x].cp = cp]
      PROVE  Becomes(x, pc, view, cp, entry[x].got)
  <2>1. entry' = [entry EXCEPT ![x] = [entry[x] EXCEPT !.pc = pc, !.view = view, !.cp = cp]]
    BY <1>6
  <2> QED
    BY <1>0, <1>1, <2>1, EntryFields
<1>7. ASSUME entry' = [entry EXCEPT ![x].got = got, ![x].view = view, ![x].pc = pc]
      PROVE  Becomes(x, pc, view, entry[x].cp, got)
  <2>1. entry' = [entry EXCEPT ![x] = [entry[x] EXCEPT !.got = got, !.view = view, !.pc = pc]]
    BY <1>7
  <2> QED
    BY <1>0, <1>1, <2>1, EntryFields
<1> QED
  BY <1>2, <1>3, <1>4, <1>5, <1>6, <1>7

\* A runner that is not dead: the map names it, and the row is of its run.
LEMMA RunnerAt ==
  ASSUME FenceInv, SerialInv, NEW x \in DOMAIN entry, entry[x].pc # "dead"
  PROVE  /\ ~entry[x].aborted /\ Live(x) /\ x # NoEntry /\ entry[x].s \in Sources
         /\ entries[entry[x].s] = x /\ HasRow(entry[x].s)
         /\ managed_sources[entry[x].s].run = entry[x].run
         /\ HasRun(entry[x].s, entry[x].run)
         /\ \A y \in DOMAIN entry : y # x /\ entry[y].pc # "dead" => entry[y].s # entry[x].s
<1>1. x # NoEntry /\ entry[x].s \in Sources
  BY TypedParts DEF FenceInv, EntryIds, NoEntry
<1>2. \A y \in DOMAIN entry : entry[y].pc # "dead" => ~entry[y].aborted /\ Live(y)
  BY DEF SerialInv, RunnersNamed, Live
<1>3. \A y \in DOMAIN entry : entry[y].pc # "dead" => entries[entry[y].s] = y
  BY <1>2 DEF SerialInv, RunnersNamed
<1>4. HasRow(entry[x].s) /\ managed_sources[entry[x].s].run = entry[x].run
  BY <1>1, <1>2, <1>3 DEF SerialInv, RunnersNamed
<1> QED
  BY <1>1, <1>2, <1>3, <1>4 DEF HasRun

\* A step of a runner that goes on: what is left to show is its own place, its
\* row and its events.
LEMMA RunnerSerial ==
  ASSUME FenceInv, SerialInv, NEW x \in DOMAIN entry, NEW s \in Sources, s = entry[x].s,
         entry[x].pc # "dead", OneRunner(x), SameRun(entry'[x], entry[x]), entry'[x].pc # "dead",
         entry'[x].task = entry[x].task, entries' = entries, handler' = handler,
         last_op' = last_op, fresh_from' = fresh_from,
         OtherRows(s), HasRow(s)', managed_sources'[s].run = managed_sources[s].run,
         entry'[x].pc = "final" => entry'[x].view = "stopped",
         entry'[x].pc = "exit" => ~Active(s)',
         \A u \in Sources : u # s => stream_events'[StreamIdOf[u]] = stream_events[StreamIdOf[u]],
         PolledTo', PolledOnce'
  PROVE  SerialInv'
<1>0. /\ Live(x) /\ entries[s] = x /\ x # NoEntry /\ HasRow(s) /\ HandlersHaveEntries
      /\ \A y \in DOMAIN entry : y # x /\ entry[y].pc # "dead" => entry[y].s # s
  BY RunnerAt DEF FenceInv
<1>1. /\ DOMAIN entry' = DOMAIN entry
      /\ \A y \in DOMAIN entry : /\ SameRun(entry'[y], entry[y]) /\ entry'[y].task = entry[y].task
                                 /\ y # x => entry'[y] = entry[y]
  BY DEF OneRunner, SameRun
<1>2. \A y \in DOMAIN entry : Live(y)' <=> Live(y)
  BY <1>0, <1>1 DEF Live, SameRun
<1>3. \A y \in DOMAIN entry : /\ entry'[y].s = entry[y].s /\ entry'[y].run = entry[y].run
                              /\ entry'[y].spec = entry[y].spec /\ entry'[y].aborted = entry[y].aborted
                              /\ entry[y].s \in Sources
  BY <1>1, TypedParts DEF SameRun, FenceInv
<1>4. \A u \in Sources : /\ HasRow(u)' <=> HasRow(u)
                         /\ managed_sources'[u].run = managed_sources[u].run
                         /\ u # s => managed_sources'[u] = managed_sources[u]
  BY <1>0 DEF OtherRows, HasRow
<1>5. \A u \in Sources : u # s => (Active(u)' <=> Active(u))
  BY <1>4 DEF Active
<1>6. \A run : Polled(run)' <=> Polled(run)
  BY <1>1, <1>3 DEF Polled
<1>7. RunnersNamed'
  <2>1. \A u \in Sources : entries[u] # NoEntry => entries[u] \in DOMAIN entry
    BY <1>0 DEF HandlersHaveEntries
  <2> QED
    BY <1>1, <1>2, <1>3, <1>4, <2>1 DEF SerialInv, RunnersNamed
<1>8. RunnersEnd'
  <2>1. \A y \in DOMAIN entry : entry'[y].pc = "final" => entry'[y].view = "stopped"
    BY <1>1 DEF SerialInv, RunnersEnd
  <2>2. ASSUME NEW y \in DOMAIN entry, entry'[y].pc = "exit" PROVE ~Active(entry[y].s)'
    <3>1. PICK u \in Sources : u = entry[y].s /\ u = entry'[y].s
      BY <1>3
    <3>2. CASE y = x
      BY <2>2, <3>1, <3>2
    <3>3. CASE y # x
      <4>1. u # s /\ ~Active(u)
        BY <1>0, <1>1, <2>2, <3>1, <3>3 DEF SerialInv, RunnersEnd
      <4> QED
        BY <1>5, <3>1, <4>1
    <3> QED
      BY <3>2, <3>3
  <2> QED
    BY <1>1, <2>1, <2>2 DEF RunnersEnd
<1>9. MapNamesLive'
  <2>1. \A u \in Sources : entries[u] # NoEntry => (Live(entries[u])' <=> Live(entries[u]))
    BY <1>0, <1>2 DEF HandlersHaveEntries
  <2> QED
    BY <2>1 DEF SerialInv, MapNamesLive, At, For
<1>10. TasksKept'
  BY <1>1, <1>2 DEF SerialInv, TasksKept, At
<1>11. OneAtATime'
  BY DEF SerialInv, OneAtATime, At
<1>12. StoppedStays'
  <2>1. \A u \in Sources : last_op[u] \in {"stop", "delete"} => u # s
    BY <1>0 DEF SerialInv, StoppedStays
  <2> QED
    BY <1>4, <2>1 DEF SerialInv, StoppedStays, Resumable, For
<1>13. RowsServed'
  <2> SUFFICES ASSUME NEW u \in Sources, Active(u)' PROVE Served(u)'
    BY DEF RowsServed
  <2>1. Served(u)
    BY <1>0, <1>5 DEF SerialInv, RowsServed, Served
  <2>2. entries[u] # NoEntry => (Live(entries[u])' <=> Live(entries[u]))
    BY <1>0, <1>2 DEF HandlersHaveEntries
  <2> QED
    BY <2>1, <2>2 DEF Served, Resumable, At, For
<1>14. HandlersInTurn'
  <2> SUFFICES ASSUME NEW p \in Procs PROVE InTurn(handler[p])'
    BY DEF SerialInv, HandlersInTurn
  <2>0. PICK h : h = handler[p]
    OBVIOUS
  <2>1. InTurn(h) /\ h.s \in Sources /\ \A record \in h.todo : record.s \in Sources
    BY <2>0, TypedParts DEF SerialInv, HandlersInTurn, FenceInv
  <2>2. h.pc \in {"stop_checkpoint", "delete_row", "upsert"} => h.s # s
    BY <1>0, <2>1 DEF InTurn, Removed
  <2>3. h.pc = "stop_remove" => ~Live(h.x)'
    BY <1>2, <2>1 DEF InTurn, Stopping
  <2>4. h.pc = "delete_row" =>
          \A e \in stream_events'[StreamIdOf[h.s]] :
            Polled(e.payload.run)' => ~(e.offset >= fresh_from'[h.s])
    <3>1. h.pc = "delete_row" =>
            /\ stream_events'[StreamIdOf[h.s]] = stream_events[StreamIdOf[h.s]]
            /\ \A e \in stream_events[StreamIdOf[h.s]] :
                 Polled(e.payload.run) => ~(e.offset >= fresh_from[h.s])
      BY <2>1, <2>2 DEF InTurn
    <3> QED
      BY <1>6, <3>1
  <2>5. h.pc \in Stopping =>
          /\ h.x \in DOMAIN entry' /\ entry'[h.x].s = h.s
          /\ entries'[h.s] \in {h.x, NoEntry} /\ HasRow(h.s)'
    BY <1>1, <1>3, <1>4, <2>1 DEF InTurn
  <2>6. /\ h.pc \in {"stop_checkpoint", "delete_row", "upsert"} /\ HasRow(h.s)' =>
             managed_sources'[h.s].status = "stopped"
        /\ h.pc = "delete_entry" => ~HasRow(h.s)'
        /\ h.pc \in Placed \cup {"stop_lookup"} => HasRow(h.s)'
        /\ Placing(h) => h.run = managed_sources'[h.s].run
        /\ h.pc = "insert" \/ h.pc \in Removed => entries'[h.s] = NoEntry
    BY <1>4, <2>1, <2>2 DEF InTurn
  <2>7. \A record \in h.todo : HasRow(record.s)' /\ record.run = managed_sources'[record.s].run
    BY <1>4, <2>1 DEF InTurn
  <2>8. InTurn(h)'
    BY <2>3, <2>4, <2>5, <2>6, <2>7 DEF InTurn
  <2> QED
    BY <2>0, <2>8
<1> QED
  BY <1>7, <1>8, <1>9, <1>10, <1>11, <1>12, <1>13, <1>14 DEF SerialInv

\* A runner goes on; its row keeps its run and its checkpoint, and no event is
\* stored.
LEMMA RunnerGoes ==
  ASSUME FenceInv, SerialInv, NEW x \in DOMAIN entry, NEW s \in Sources, s = entry[x].s,
         entry[x].pc # "dead", NEW pc, NEW view, NEW cp, NEW got, Becomes(x, pc, view, cp, got),
         pc # "dead", entries' = entries, handler' = handler, last_op' = last_op, feed' = feed,
         fresh_from' = fresh_from, RowsAlike, OtherRows(s), KeepStreams,
         pc = "final" => view = "stopped", pc = "exit" => ~Active(s)',
         pc \in Polling => entry[x].spec \in PollSpecs /\ cp = CheckpointOf(s),
         pc = "append" => cp <= got /\ got <= feed[s]
  PROVE  SerialInv'
<1>0. /\ OneRunner(x) /\ SameRun(entry'[x], entry[x]) /\ entry'[x].task = entry[x].task
      /\ entry'[x].pc = pc /\ entry'[x].view = view /\ entry'[x].cp = cp /\ entry'[x].got = got
  BY DEF Becomes
<1>1. PolledTo' /\ PolledOnce'
  <2>1. DOMAIN entry' = DOMAIN entry /\ \A y \in DOMAIN entry : SameRun(entry'[y], entry[y])
    BY <1>0 DEF OneRunner, SameRun
  <2>2. ASSUME NEW y \in DOMAIN entry
        PROVE  /\ entry'[y].pc \in Polling =>
                    entry[y].spec \in PollSpecs /\ entry'[y].cp = CheckpointOf(entry[y].s)
               /\ entry'[y].pc = "append" =>
                    entry'[y].cp <= entry'[y].got /\ entry'[y].got <= feed'[entry[y].s]
    <3>1. CASE y = x
      BY <1>0, <3>1
    <3>2. CASE y # x
      BY <1>0, <3>2 DEF OneRunner, SerialInv, PolledTo, Polling
    <3> QED
      BY <3>1, <3>2
  <2>3. \A u \in Sources : feed[u] <= feed'[u] /\ feed'[u] \in Int
    BY ManagerAssumption DEF FenceInv, TypeOK
  <2> QED
    BY <2>1, <2>2, <2>3, AlikeStays
<1>2. HasRow(s)' /\ managed_sources'[s].run = managed_sources[s].run
  BY RunnerAt DEF RowsAlike
<1>3. \A u \in Sources : u # s => stream_events'[StreamIdOf[u]] = stream_events[StreamIdOf[u]]
  BY DEF KeepStreams
<1> QED
  BY <1>0, <1>1, <1>2, <1>3, RunnerSerial

\* What every runner's step leaves alone.
RunnerLeaves ==
  handler' = handler /\ last_op' = last_op /\ feed' = feed /\ fresh_from' = fresh_from

\* Steps that write nothing but the runner.
LEMMA RunnerQuiet ==
  ASSUME FenceInv, SerialInv, NEW x \in DOMAIN entry, NEW s \in Sources, s = entry[x].s,
         entry[x].pc # "dead", NEW pc, NEW view, NEW cp, NEW got, Becomes(x, pc, view, cp, got),
         pc # "dead", pc # "exit", entries' = entries, RunnerLeaves, KeepRows, KeepStreams,
         pc = "final" => view = "stopped",
         pc \in Polling => entry[x].spec \in PollSpecs /\ cp = CheckpointOf(s),
         pc = "append" => cp <= got /\ got <= feed[s]
  PROVE  SerialInv'
<1>1. RowsAlike /\ OtherRows(s)
  BY RowsKeptAlike DEF KeepRows, OtherRows
<1> QED
  BY <1>1, RunnerGoes DEF RunnerLeaves

LEMMA SerialRunnerStart == ASSUME FenceInv, SerialInv, NEW x, RunnerStart(x) PROVE SerialInv'
<1>0. x \in DOMAIN entry /\ entry[x].pc = "start" /\ TypeOK
  BY DEF RunnerStart, Running, FenceInv
<1>s. PICK s \in Sources : s = entry[x].s
  BY <1>0, TypedParts
<1>1. RunnerLeaves /\ KeepRows /\ KeepStreams /\ entries' = entries
  BY DEF RunnerStart, runnerUnchanged, RunnerLeaves, KeepRows, KeepStreams, storeVars, streamVars,
     envVars, requestVars
<1>2. "failed" \notin Polling /\ "stream" \notin Polling
  BY DEF Polling
<1>3. ASSUME entry[x].spec \in PollSpecs,
             NEW cp, cp = LoadPollCheckpoint(entry[x].s, entry[x].run),
             entry' = [entry EXCEPT ![x].pc = "wait", ![x].view = "running",
                         ![x].cp = IF cp = NoCheckpoint THEN 0 ELSE cp]
      PROVE  SerialInv'
  <2>1. HasRun(s, entry[x].run) /\ HasRow(s)
    BY <1>s, <1>0, RunnerAt
  <2>2. (IF cp = NoCheckpoint THEN 0 ELSE cp) = CheckpointOf(s)
    BY <1>s, <1>3, <2>1 DEF LoadPollCheckpoint, CheckpointOf
  <2>3. entry' = [entry EXCEPT ![x].pc = "wait", ![x].view = "running", ![x].cp = CheckpointOf(s)]
    BY <1>3, <2>2
  <2>4. Becomes(x, "wait", "running", CheckpointOf(s), entry[x].got)
    BY <1>0, <2>3, EntryBecomes
  <2> QED
    BY <1>s, <1>0, <1>1, <1>3, <2>4, RunnerQuiet
<1>4. ASSUME entry' = [entry EXCEPT ![x].pc = "stream", ![x].view = "running",
                                    ![x].cp = feed[entry[x].s]]
      PROVE  SerialInv'
  <2>1. Becomes(x, "stream", "running", feed[entry[x].s], entry[x].got)
    BY <1>0, <1>4, EntryBecomes
  <2> QED
    BY <1>s, <1>0, <1>1, <1>2, <2>1, RunnerQuiet
<1>5. ASSUME RunnerGoto(x, "failed") PROVE SerialInv'
  <2>1. Becomes(x, "failed", entry[x].view, entry[x].cp, entry[x].got)
    BY <1>0, <1>5, EntryBecomes DEF RunnerGoto
  <2> QED
    BY <1>s, <1>0, <1>1, <1>2, <2>1, RunnerQuiet
<1> QED
  BY <1>3, <1>4, <1>5 DEF RunnerStart

LEMMA SerialRunnerWake == ASSUME FenceInv, SerialInv, NEW x, RunnerWake(x) PROVE SerialInv'
<1>0. x \in DOMAIN entry /\ entry[x].pc = "wait" /\ TypeOK
  BY DEF RunnerWake, Running, FenceInv
<1>s. PICK s \in Sources : s = entry[x].s
  BY <1>0, TypedParts
<1>1. RunnerLeaves /\ KeepRows /\ KeepStreams /\ entries' = entries
  BY DEF RunnerWake, runnerUnchanged, RunnerLeaves, KeepRows, KeepStreams, storeVars, streamVars,
     envVars, requestVars
<1>2. "final" \notin Polling /\ entry[x].spec \in PollSpecs /\ entry[x].cp = CheckpointOf(s)
  BY <1>s, <1>0 DEF Polling, SerialInv, PolledTo
<1>3. ASSUME entry' = [entry EXCEPT ![x].pc = "final", ![x].view = "stopped"] PROVE SerialInv'
  <2>1. Becomes(x, "final", "stopped", entry[x].cp, entry[x].got)
    BY <1>0, <1>3, EntryBecomes
  <2> QED
    BY <1>s, <1>0, <1>1, <1>2, <2>1, RunnerQuiet
<1>4. ASSUME RunnerGoto(x, "fetch") PROVE SerialInv'
  <2>1. Becomes(x, "fetch", entry[x].view, entry[x].cp, entry[x].got)
    BY <1>0, <1>4, EntryBecomes DEF RunnerGoto
  <2> QED
    BY <1>s, <1>0, <1>1, <1>2, <2>1, RunnerQuiet
<1> QED
  BY <1>3, <1>4 DEF RunnerWake

LEMMA SerialRunnerFetch == ASSUME FenceInv, SerialInv, NEW x, RunnerFetch(x) PROVE SerialInv'
<1>0. x \in DOMAIN entry /\ entry[x].pc = "fetch" /\ TypeOK
  BY DEF RunnerFetch, Running, FenceInv
<1>s. PICK s \in Sources : s = entry[x].s
  BY <1>0, TypedParts
<1>1. RunnerLeaves /\ KeepRows /\ KeepStreams /\ entries' = entries
  BY DEF RunnerFetch, runnerUnchanged, RunnerLeaves, KeepRows, KeepStreams, storeVars, streamVars,
     envVars, requestVars
<1>2. /\ "failed" \notin Polling /\ entry[x].spec \in PollSpecs /\ entry[x].cp = CheckpointOf(s)
      /\ CheckpointOf(s) <= feed[s] /\ feed[s] <= feed[s]
  BY <1>s, <1>0, ManagerAssumption DEF Polling, SerialInv, PolledTo, TypeOK
<1>3. ASSUME NEW pc \in {"sync", "append"},
             entry' = [entry EXCEPT ![x].got = feed[entry[x].s], ![x].view = "running", ![x].pc = pc]
      PROVE  SerialInv'
  <2>1. Becomes(x, pc, "running", entry[x].cp, feed[entry[x].s])
    BY <1>0, <1>3, EntryBecomes
  <2> QED
    BY <1>s, <1>0, <1>1, <1>2, <2>1, RunnerQuiet
<1>4. ASSUME entry' = [entry EXCEPT ![x].view = "reconnecting", ![x].pc = "sync"] PROVE SerialInv'
  <2>1. Becomes(x, "sync", "reconnecting", entry[x].cp, entry[x].got)
    BY <1>0, <1>4, EntryBecomes
  <2> QED
    BY <1>s, <1>0, <1>1, <1>2, <2>1, RunnerQuiet
<1>5. ASSUME RunnerGoto(x, "failed") PROVE SerialInv'
  <2>1. Becomes(x, "failed", entry[x].view, entry[x].cp, entry[x].got)
    BY <1>0, <1>5, EntryBecomes DEF RunnerGoto
  <2> QED
    BY <1>s, <1>0, <1>1, <1>2, <2>1, RunnerQuiet
<1> QED
  BY <1>3, <1>4, <1>5 DEF RunnerFetch

LEMMA SerialRunnerPushed == ASSUME FenceInv, SerialInv, NEW x, RunnerPushed(x) PROVE SerialInv'
<1>0. x \in DOMAIN entry /\ entry[x].pc = "stream" /\ TypeOK
  BY DEF RunnerPushed, Running, FenceInv
<1>s. PICK s \in Sources : s = entry[x].s
  BY <1>0, TypedParts
<1>1. RunnerLeaves /\ KeepRows /\ KeepStreams /\ entries' = entries
  BY DEF RunnerPushed, runnerUnchanged, RunnerLeaves, KeepRows, KeepStreams, storeVars, streamVars,
     envVars, requestVars
<1>2. "final" \notin Polling /\ "event" \notin Polling
  BY DEF Polling
<1>3. ASSUME entry' = [entry EXCEPT ![x].pc = "final", ![x].view = "stopped"] PROVE SerialInv'
  <2>1. Becomes(x, "final", "stopped", entry[x].cp, entry[x].got)
    BY <1>0, <1>3, EntryBecomes
  <2> QED
    BY <1>s, <1>0, <1>1, <1>2, <2>1, RunnerQuiet
<1>4. ASSUME entry' = [entry EXCEPT ![x].pc = "event", ![x].cp = entry[x].cp + 1] PROVE SerialInv'
  <2>1. Becomes(x, "event", entry[x].view, entry[x].cp + 1, entry[x].got)
    BY <1>0, <1>4, EntryBecomes
  <2> QED
    BY <1>s, <1>0, <1>1, <1>2, <2>1, RunnerQuiet
<1> QED
  BY <1>3, <1>4 DEF RunnerPushed

\* Steps that write the status of the row.
LEMMA RunnerMirrors ==
  ASSUME FenceInv, SerialInv, NEW x \in DOMAIN entry, NEW s \in Sources, s = entry[x].s,
         entry[x].pc # "dead", NEW status \in Statuses, SetStatus(s, status), NEW pc,
         RunnerReturn(x, pc), pc # "dead", pc # "final", entries' = entries, RunnerLeaves,
         pc = "exit" => status \in {"stopped", "failed"},
         pc \in Polling => entry[x].pc \in Polling, pc # "append"
  PROVE  SerialInv'
<1>0. TypeOK /\ HasRow(s) /\ ~entry[x].aborted
  BY RunnerAt DEF FenceInv
<1>1. entry' = [entry EXCEPT ![x].pc = pc]
  BY <1>0 DEF RunnerReturn, RunnerGoto
<1>2. Becomes(x, pc, entry[x].view, entry[x].cp, entry[x].got)
  BY <1>0, <1>1, EntryBecomes
<1>3. RowsAlike /\ OtherRows(s) /\ KeepStreams /\ managed_sources'[s].status = status
  BY <1>0, StatusKeeps
<1>4. pc = "exit" => ~Active(s)'
  BY <1>3 DEF Active
<1>5. pc \in Polling => entry[x].spec \in PollSpecs /\ entry[x].cp = CheckpointOf(s)
  BY DEF SerialInv, PolledTo, Polling
<1> QED
  BY <1>2, <1>3, <1>4, <1>5, RunnerGoes DEF RunnerLeaves

LEMMA SerialRunnerSyncs ==
  ASSUME FenceInv, SerialInv, NEW x,
         RunnerSync(x) \/ RunnerFinal(x) \/ RunnerFail(x) \/ RunnerEventSync(x)
  PROVE  SerialInv'
<1>0. x \in DOMAIN entry /\ entry[x].pc # "dead" /\ TypeOK
  BY DEF RunnerSync, RunnerFinal, RunnerFail, RunnerEventSync, Running, FenceInv
<1>s. PICK s \in Sources : s = entry[x].s
  BY <1>0, TypedParts
<1>1. RunnerLeaves /\ entries' = entries
  BY DEF RunnerSync, RunnerFinal, RunnerFail, RunnerEventSync, runnerUnchanged, RunnerLeaves,
     envVars, requestVars
<1>2. entry[x].view \in Statuses /\ "failed" \in Statuses
  BY <1>0, TypedParts, StatusNames
<1>3. CASE RunnerSync(x)
  <2>1. /\ entry[x].pc = "sync" /\ SetStatus(s, entry[x].view) /\ RunnerReturn(x, "wait")
        /\ entry[x].pc \in Polling
    BY <1>s, <1>3 DEF RunnerSync, UpdateSourceRuntime, Running, Polling
  <2> QED
    BY <1>s, <1>0, <1>1, <1>2, <2>1, RunnerMirrors
<1>4. CASE RunnerFinal(x)
  <2>1. /\ entry[x].pc = "final" /\ SetStatus(s, entry[x].view) /\ RunnerReturn(x, "exit")
        /\ "exit" \notin Polling
    BY <1>s, <1>4 DEF RunnerFinal, UpdateSourceRuntime, Running, Polling
  <2>2. entry[x].view = "stopped"
    BY <1>0, <2>1 DEF SerialInv, RunnersEnd
  <2> QED
    BY <1>s, <1>0, <1>1, <1>2, <2>1, <2>2, RunnerMirrors
<1>5. CASE RunnerFail(x)
  <2>1. SetStatus(s, "failed") /\ RunnerReturn(x, "exit") /\ "exit" \notin Polling
    BY <1>s, <1>5 DEF RunnerFail, ClearSourceJob, Polling
  <2> QED
    BY <1>s, <1>0, <1>1, <1>2, <2>1, RunnerMirrors
<1>6. CASE RunnerEventSync(x)
  <2>1. /\ SetStatus(s, entry[x].view) /\ RunnerReturn(x, "stream") /\ "stream" \notin Polling
    BY <1>s, <1>6 DEF RunnerEventSync, UpdateSourceRuntime, Polling
  <2> QED
    BY <1>s, <1>0, <1>1, <1>2, <2>1, RunnerMirrors
<1> QED
  BY <1>3, <1>4, <1>5, <1>6

AddedRow(s, at, batch, e) ==
  \E i \in 1..Len(batch) :
    e = [offset |-> next_event_offset[StreamIdOf[s]] + i - 1, at |-> at, payload |-> batch[i]]

LEMMA RowsAdded ==
  ASSUME TypeOK, NEW s \in Sources, NEW at, NEW batch, AppendRows(StreamIdOf[s], at, batch)
  PROVE  /\ \A u \in Sources : u # s => stream_events'[StreamIdOf[u]] = stream_events[StreamIdOf[u]]
         /\ \A e \in stream_events'[StreamIdOf[s]] :
              \/ e \in stream_events[StreamIdOf[s]]
              \/ AddedRow(s, at, batch, e)
<1>1. /\ StreamIdOf \in [Sources -> Streams]
      /\ \A u \in Sources : u # s => StreamIdOf[u] # StreamIdOf[s]
  BY SourcesAssumption
<1>2. stream_events \in [Streams -> SUBSET EventRow]
  BY DEF TypeOK, StoreTypeOK, StreamTypeOK
<1>3. \A rows : Retained(rows, at) \subseteq rows
  BY DEF Retained
<1>4. \A u \in Sources : u # s => stream_events'[StreamIdOf[u]] = stream_events[StreamIdOf[u]]
  BY <1>1, <1>2 DEF AppendRows
<1>5. stream_events'[StreamIdOf[s]] \subseteq
        stream_events[StreamIdOf[s]] \cup NewRows(StreamIdOf[s], at, batch)
  BY <1>1, <1>2, <1>3 DEF AppendRows
<1> QED
  BY <1>4, <1>5 DEF NewRows, AddedRow

\* A poll's items are stored, with the checkpoint that covers them.
LEMMA AppendStays ==
  ASSUME FenceInv, SerialInv, NEW x \in DOMAIN entry, NEW s \in Sources, s = entry[x].s,
         entry[x].pc = "append", NEW at,
         AppendEventsAndStorePollCheckpoint(s, entry[x].run, at, NewItems(x), entry[x].got),
         Becomes(x, "sync", entry[x].view, entry[x].got, entry[x].got), RunnerLeaves
  PROVE  /\ PolledTo' /\ PolledOnce' /\ OtherRows(s) /\ HasRow(s)'
         /\ managed_sources'[s].run = managed_sources[s].run
         /\ \A u \in Sources : u # s => stream_events'[StreamIdOf[u]] = stream_events[StreamIdOf[u]]
<1> DEFINE got == entry[x].got
           cp == entry[x].cp
           run == entry[x].run
<1>0. /\ TypeOK /\ HasRow(s) /\ managed_sources[s].run = run
      /\ \A y \in DOMAIN entry : y # x /\ entry[y].pc # "dead" => entry[y].s # s
  BY RunnerAt DEF FenceInv
<1>1. got \in Int /\ cp \in Int /\ got \in Checkpoints /\ feed[s] \in Int
  BY <1>0, TypedParts, ManagerAssumption
<1>2. /\ entry[x].spec \in PollSpecs /\ cp = CheckpointOf(s) /\ cp <= got /\ got <= feed[s]
  BY DEF SerialInv, PolledTo
<1>3. /\ OtherRows(s) /\ HasRow(s)' /\ managed_sources'[s].run = managed_sources[s].run
      /\ managed_sources'[s].checkpoint = got
  BY <1>0, <1>1, RowEffects DEF AppendEventsAndStorePollCheckpoint
<1>4. CheckpointOf(s)' = got /\ \A u \in Sources : u # s => CheckpointOf(u)' = CheckpointOf(u)
  BY <1>1, <1>3, SourcesAssumption DEF CheckpointOf, OtherRows, HasRow
<1>5. /\ \A u \in Sources : u # s => stream_events'[StreamIdOf[u]] = stream_events[StreamIdOf[u]]
      /\ \A e \in stream_events'[StreamIdOf[s]] :
           \/ e \in stream_events[StreamIdOf[s]]
           \/ AddedRow(s, at, NewItems(x), e)
  BY <1>0, RowsAdded DEF AppendEventsAndStorePollCheckpoint
<1>6. /\ Len(NewItems(x)) = got - cp
      /\ \A i \in 1..Len(NewItems(x)) : NewItems(x)[i] = [run |-> run, item |-> cp + i]
  BY <1>0, <1>1, <1>2, ItemsTyped
<1>7. \A e \in stream_events'[StreamIdOf[s]] :
        \/ e \in stream_events[StreamIdOf[s]]
        \/ \E i \in 1..(got - cp) :
             e = [offset |-> next_event_offset[StreamIdOf[s]] + i - 1, at |-> at,
                  payload |-> [run |-> run, item |-> cp + i]]
  BY <1>5, <1>6 DEF AddedRow
<1>8. /\ DOMAIN entry' = DOMAIN entry
      /\ \A y \in DOMAIN entry : /\ entry'[y].s = entry[y].s /\ entry'[y].run = entry[y].run
                                 /\ entry'[y].spec = entry[y].spec /\ entry[y].s \in Sources
                                 /\ y # x => entry'[y] = entry[y]
  BY <1>0, TypedParts DEF Becomes, OneRunner, SameRun
<1>9. \A r : Polled(r)' <=> Polled(r)
  BY <1>8 DEF Polled
<1>10. \A e \in stream_events[StreamIdOf[s]] : Fresh(s, e) =>
         e.payload.run = run /\ e.payload.item <= cp /\ e.payload.item \in Int
  <2>1. \A e \in stream_events[StreamIdOf[s]] : e.payload \in Payloads
    BY <1>0, SourcesAssumption DEF TypeOK, StoreTypeOK, StreamTypeOK, EventRow
  <2>2. \A e \in stream_events[StreamIdOf[s]] : e.payload.item \in Int
    BY <2>1, ManagerAssumption
  <2> QED
    BY <1>0, <1>2, <2>2 DEF SerialInv, PolledTo
<1>11. \A u \in Sources : CheckpointOf(u)' <= feed'[u]
  BY <1>2, <1>4 DEF SerialInv, PolledTo, RunnerLeaves
<1>12. ASSUME NEW u \in Sources, NEW e \in stream_events'[StreamIdOf[u]], Fresh(u, e)'
       PROVE  /\ HasRow(u)' /\ managed_sources'[u].run = e.payload.run
              /\ e.payload.item <= CheckpointOf(u)'
  <2>0. Polled(e.payload.run) /\ e.offset >= fresh_from[u]
    BY <1>9, <1>12 DEF Fresh, RunnerLeaves
  <2>1. CASE u # s
    <3>1. e \in stream_events[StreamIdOf[u]] /\ Fresh(u, e)
      BY <1>5, <2>0, <2>1 DEF Fresh
    <3>2. managed_sources'[u] = managed_sources[u]
      BY <1>3, <2>1 DEF OtherRows
    <3> QED
      BY <1>4, <2>1, <3>1, <3>2 DEF SerialInv, PolledTo, HasRow
  <2>2. CASE u = s /\ e \in stream_events[StreamIdOf[s]]
    <3>1. Fresh(s, e)
      BY <2>0, <2>2 DEF Fresh
    <3>2. e.payload.run = run /\ e.payload.item <= cp /\ e.payload.item \in Int
      BY <1>10, <2>2, <3>1
    <3>3. e.payload.item <= got
      BY <1>1, <1>2, <3>2
    <3> QED
      BY <1>0, <1>3, <1>4, <2>2, <3>2, <3>3
  <2>3. ASSUME u = s, NEW i \in 1..(got - cp),
               e = [offset |-> next_event_offset[StreamIdOf[s]] + i - 1, at |-> at,
                    payload |-> [run |-> run, item |-> cp + i]]
        PROVE  /\ HasRow(u)' /\ managed_sources'[u].run = e.payload.run
               /\ e.payload.item <= CheckpointOf(u)'
    <3>1. e.payload.run = run /\ e.payload.item = cp + i
      BY <2>3
    <3>2. cp + i <= got
      BY <1>1
    <3> QED
      BY <1>0, <1>3, <1>4, <2>3, <3>1, <3>2
  <2> QED
    BY <1>7, <1>12, <2>1, <2>2, <2>3
<1>13. ASSUME NEW y \in DOMAIN entry, entry'[y].pc \in Polling
       PROVE  /\ entry'[y].spec \in PollSpecs /\ entry'[y].cp = CheckpointOf(entry[y].s)'
              /\ entry'[y].pc = "append" =>
                   entry'[y].cp <= entry'[y].got /\ entry'[y].got <= feed'[entry'[y].s]
  <2>0. PICK u \in Sources : u = entry[y].s /\ u = entry'[y].s
    BY <1>8
  <2>1. CASE y = x
    BY <1>2, <1>4, <1>8, <2>0, <2>1 DEF Becomes
  <2>2. CASE y # x
    <3>1. entry[y].pc \in Polling /\ entry'[y] = entry[y] /\ u # s
      BY <1>0, <1>8, <1>13, <2>0, <2>2 DEF Polling
    <3> QED
      BY <1>4, <2>0, <3>1 DEF SerialInv, PolledTo, Polling, RunnerLeaves
  <2> QED
    BY <2>1, <2>2
<1>14. PolledTo'
  <2>1. \A y \in DOMAIN entry' : entry'[y].pc = "append" => entry'[y].pc \in Polling
    BY DEF Polling
  <2>2. \A y \in DOMAIN entry' : entry'[y].pc \in Polling =>
          /\ entry'[y].spec \in PollSpecs /\ entry'[y].cp = CheckpointOf(entry[y].s)'
          /\ entry'[y].pc = "append" =>
               entry'[y].cp <= entry'[y].got /\ entry'[y].got <= feed'[entry'[y].s]
    BY <1>8, <1>13
  <2>3. \A u \in Sources : \A e \in stream_events'[StreamIdOf[u]] : Fresh(u, e)' =>
          /\ HasRow(u)' /\ managed_sources'[u].run = e.payload.run
          /\ e.payload.item <= CheckpointOf(u)'
    BY <1>12
  <2> QED
    BY <1>11, <2>1, <2>2, <2>3 DEF PolledTo, Polling
<1>15. PolledOnce'
  <2> SUFFICES ASSUME NEW u \in Sources, NEW e \in stream_events'[StreamIdOf[u]],
                      NEW f \in stream_events'[StreamIdOf[u]], e.payload = f.payload,
                      Polled(e.payload.run)', e.offset >= fresh_from'[u], f.offset >= fresh_from'[u]
               PROVE  e = f
    BY DEF PolledOnce
  <2>0. /\ Polled(e.payload.run) /\ e.offset >= fresh_from[u] /\ f.offset >= fresh_from[u]
        /\ Polled(f.payload.run)
    BY <1>9 DEF RunnerLeaves
  <2>1. CASE e \in stream_events[StreamIdOf[u]] /\ f \in stream_events[StreamIdOf[u]]
    BY <2>0, <2>1 DEF SerialInv, PolledOnce
  <2>2. CASE u # s
    BY <1>5, <2>1, <2>2
  <2>3. ASSUME NEW d \in stream_events[StreamIdOf[s]], u = s, Polled(d.payload.run),
               d.offset >= fresh_from[s], NEW i \in 1..(got - cp)
        PROVE  d.payload # [run |-> run, item |-> cp + i]
    <3>1. Fresh(s, d)
      BY <2>3 DEF Fresh
    <3>2. d.payload.item <= cp /\ d.payload.item \in Int
      BY <1>10, <3>1
    <3>3. d.payload.item # cp + i
      BY <1>1, <3>2
    <3> QED
      BY <3>3
  <2>4. ASSUME u = s, NEW i \in 1..(got - cp), NEW j \in 1..(got - cp),
               e = [offset |-> next_event_offset[StreamIdOf[s]] + i - 1, at |-> at,
                    payload |-> [run |-> run, item |-> cp + i]],
               f = [offset |-> next_event_offset[StreamIdOf[s]] + j - 1, at |-> at,
                    payload |-> [run |-> run, item |-> cp + j]]
        PROVE  e = f
    <3>1. e.payload.item = cp + i /\ f.payload.item = cp + j
      BY <2>4
    <3>2. cp + i = cp + j
      BY <3>1
    <3>3. i = j
      BY <1>1, <3>2
    <3> QED
      BY <2>4, <3>3
  <2>5. CASE u = s
    <3>1. CASE e \in stream_events[StreamIdOf[s]] /\ f \in stream_events[StreamIdOf[s]]
      BY <2>1, <2>5, <3>1
    <3>2. CASE e \in stream_events[StreamIdOf[s]] /\ f \notin stream_events[StreamIdOf[s]]
      <4>1. PICK i \in 1..(got - cp) :
              f = [offset |-> next_event_offset[StreamIdOf[s]] + i - 1, at |-> at,
                   payload |-> [run |-> run, item |-> cp + i]]
        BY <1>7, <2>5, <3>2
      <4>2. f.payload = [run |-> run, item |-> cp + i]
        BY <4>1
      <4> QED
        BY <2>0, <2>3, <2>5, <3>2, <4>2
    <3>3. CASE f \in stream_events[StreamIdOf[s]] /\ e \notin stream_events[StreamIdOf[s]]
      <4>1. PICK i \in 1..(got - cp) :
              e = [offset |-> next_event_offset[StreamIdOf[s]] + i - 1, at |-> at,
                   payload |-> [run |-> run, item |-> cp + i]]
        BY <1>7, <2>5, <3>3
      <4>2. e.payload = [run |-> run, item |-> cp + i]
        BY <4>1
      <4> QED
        BY <2>0, <2>3, <2>5, <3>3, <4>2
    <3>4. CASE e \notin stream_events[StreamIdOf[s]] /\ f \notin stream_events[StreamIdOf[s]]
      <4>1. PICK i \in 1..(got - cp) :
              e = [offset |-> next_event_offset[StreamIdOf[s]] + i - 1, at |-> at,
                   payload |-> [run |-> run, item |-> cp + i]]
        BY <1>7, <2>5, <3>4
      <4>2. PICK j \in 1..(got - cp) :
              f = [offset |-> next_event_offset[StreamIdOf[s]] + j - 1, at |-> at,
                   payload |-> [run |-> run, item |-> cp + j]]
        BY <1>7, <2>5, <3>4
      <4> QED
        BY <2>4, <2>5, <4>1, <4>2
    <3> QED
      BY <3>1, <3>2, <3>3, <3>4
  <2> QED
    BY <2>2, <2>5
<1> QED
  BY <1>3, <1>5, <1>14, <1>15

LEMMA SerialRunnerAppend == ASSUME FenceInv, SerialInv, NEW x, RunnerAppend(x) PROVE SerialInv'
<1>0. x \in DOMAIN entry /\ entry[x].pc = "append" /\ TypeOK
  BY DEF RunnerAppend, Running, FenceInv
<1>s. PICK s \in Sources : s = entry[x].s
  BY <1>0, TypedParts
<1>1. RunnerLeaves /\ entries' = entries
  BY DEF RunnerAppend, runnerUnchanged, RunnerLeaves, envVars, requestVars
<1>2. HasRun(s, entry[x].run) /\ ~entry[x].aborted
  BY <1>s, <1>0, RunnerAt
<1>3. PICK at \in Times :
        AppendEventsAndStorePollCheckpoint(s, entry[x].run, at, NewItems(x), entry[x].got)
  BY <1>s, <1>2 DEF RunnerAppend
<1>4. entry' = [entry EXCEPT ![x].pc = "sync", ![x].cp = entry[x].got]
  BY <1>s, <1>2 DEF RunnerAppend
<1>5. Becomes(x, "sync", entry[x].view, entry[x].got, entry[x].got)
  BY <1>0, <1>4, EntryBecomes
<1>6. /\ PolledTo' /\ PolledOnce' /\ OtherRows(s) /\ HasRow(s)'
      /\ managed_sources'[s].run = managed_sources[s].run
      /\ \A u \in Sources : u # s => stream_events'[StreamIdOf[u]] = stream_events[StreamIdOf[u]]
  BY <1>s, <1>0, <1>1, <1>3, <1>5, AppendStays
<1>7. /\ OneRunner(x) /\ SameRun(entry'[x], entry[x]) /\ entry'[x].task = entry[x].task
      /\ entry'[x].pc = "sync"
  BY <1>5 DEF Becomes
<1> QED
  BY <1>s, <1>0, <1>1, <1>6, <1>7, RunnerSerial DEF RunnerLeaves

\* What a stream runner stores is of no poll.
LEMMA SerialRunnerEvent == ASSUME FenceInv, SerialInv, NEW x, RunnerEvent(x) PROVE SerialInv'
<1>0. x \in DOMAIN entry /\ entry[x].pc = "event" /\ TypeOK
  BY DEF RunnerEvent, Running, FenceInv
<1>s. PICK s \in Sources : s = entry[x].s
  BY <1>0, TypedParts
<1>1. RunnerLeaves /\ entries' = entries /\ KeepRows
  BY DEF RunnerEvent, runnerUnchanged, RunnerLeaves, envVars, requestVars, KeepRows
<1>2. HasRow(s) /\ ~entry[x].aborted
  BY <1>s, <1>0, RunnerAt
<1>3. Becomes(x, "event_sync", entry[x].view, entry[x].cp, entry[x].got)
  <2>1. entry' = [entry EXCEPT ![x].pc = "event_sync"]
    BY <1>2 DEF RunnerEvent, RunnerReturn, RunnerGoto
  <2> QED
    BY <1>0, <2>1, EntryBecomes
<1>4. /\ OneRunner(x) /\ SameRun(entry'[x], entry[x]) /\ entry'[x].task = entry[x].task
      /\ entry'[x].pc = "event_sync"
  BY <1>3 DEF Becomes
<1>5. PICK at \in Times :
        AppendRows(StreamIdOf[s], at, <<[run |-> entry[x].run, item |-> entry[x].cp]>>)
  BY <1>s DEF RunnerEvent, AppendEvent
<1>6. /\ \A u \in Sources : u # s => stream_events'[StreamIdOf[u]] = stream_events[StreamIdOf[u]]
      /\ \A e \in stream_events'[StreamIdOf[s]] :
           e \in stream_events[StreamIdOf[s]] \/ e.payload.run = entry[x].run
  <2> DEFINE batch == <<[run |-> entry[x].run, item |-> entry[x].cp]>>
  <2>1. \A i \in 1..Len(batch) : batch[i].run = entry[x].run
    OBVIOUS
  <2>2. AppendRows(StreamIdOf[s], at, batch)
    BY <1>5
  <2> HIDE DEF batch
  <2>3. /\ \A u \in Sources : u # s => stream_events'[StreamIdOf[u]] = stream_events[StreamIdOf[u]]
        /\ \A e \in stream_events'[StreamIdOf[s]] :
             \/ e \in stream_events[StreamIdOf[s]]
             \/ AddedRow(s, at, batch, e)
    BY <1>0, <2>2, RowsAdded
  <2> QED
    BY <2>1, <2>3 DEF AddedRow
<1>7. /\ DOMAIN entry' = DOMAIN entry
      /\ \A y \in DOMAIN entry : /\ entry'[y].s = entry[y].s /\ entry'[y].run = entry[y].run
                                 /\ entry'[y].spec = entry[y].spec
                                 /\ y # x => entry'[y] = entry[y]
  BY <1>4 DEF OneRunner, SameRun
<1>8. \A r : Polled(r)' <=> Polled(r)
  BY <1>7 DEF Polled
<1>9. ~Polled(entry[x].run)
  <2>1. PICK g \in [Runs -> Specs] : RunsAgree(g)
    BY DEF FenceInv, OneSpecPerRun
  <2>2. \A y \in DOMAIN entry : entry[y].run = entry[x].run => entry[y].spec = entry[x].spec
    BY <1>0, <2>1 DEF RunsAgree
  <2>3. entry[x].spec \notin PollSpecs
    BY <1>0 DEF FenceInv, PushingRunners, Pushing
  <2> QED
    BY <2>2, <2>3 DEF Polled
<1>10. \A u \in Sources : \A e \in stream_events'[StreamIdOf[u]] :
         Polled(e.payload.run)' => e \in stream_events[StreamIdOf[u]] /\ Polled(e.payload.run)
  BY <1>6, <1>8, <1>9
<1>11. \A u : (HasRow(u)' <=> HasRow(u)) /\ managed_sources'[u] = managed_sources[u]
              /\ CheckpointOf(u)' = CheckpointOf(u)
  BY <1>1 DEF KeepRows, HasRow, CheckpointOf
<1>12. PolledTo'
  <2>1. \A u \in Sources : CheckpointOf(u)' <= feed'[u]
    BY <1>1, <1>11 DEF SerialInv, PolledTo, RunnerLeaves
  <2>2. \A u \in Sources : \A e \in stream_events'[StreamIdOf[u]] : Fresh(u, e)' =>
          /\ HasRow(u)' /\ managed_sources'[u].run = e.payload.run
          /\ e.payload.item <= CheckpointOf(u)'
    BY <1>1, <1>10, <1>11 DEF SerialInv, PolledTo, Fresh, RunnerLeaves
  <2>3. \A y \in DOMAIN entry : CheckpointOf(entry[y].s)' = CheckpointOf(entry[y].s)
    BY <1>7, <1>11
  <2>4. \A y \in DOMAIN entry : entry'[y].pc \in Polling \/ entry'[y].pc = "append" =>
          entry'[y] = entry[y]
    BY <1>4, <1>7 DEF Polling
  <2> QED
    BY <1>1, <1>7, <2>1, <2>2, <2>3, <2>4 DEF SerialInv, PolledTo, Polling, RunnerLeaves
<1>13. PolledOnce'
  BY <1>1, <1>10 DEF SerialInv, PolledOnce, RunnerLeaves
<1>14. OtherRows(s) /\ HasRow(s)' /\ managed_sources'[s].run = managed_sources[s].run
  BY <1>1, <1>2 DEF KeepRows, OtherRows, HasRow
<1> QED
  BY <1>s, <1>0, <1>1, <1>4, <1>6, <1>12, <1>13, <1>14, RunnerSerial DEF RunnerLeaves

LEMMA SerialRunnerExit == ASSUME FenceInv, SerialInv, NEW x, RunnerExit(x) PROVE SerialInv'
<1>0. x \in DOMAIN entry /\ entry[x].pc = "exit" /\ TypeOK /\ HandlersHaveEntries
  BY DEF RunnerExit, Running, FenceInv
<1>s. PICK s \in Sources : s = entry[x].s
  BY <1>0, TypedParts
<1>1. RunnerLeaves /\ KeepRows /\ KeepStreams
  BY DEF RunnerExit, runnerUnchanged, RunnerLeaves, KeepRows, KeepStreams, storeVars, streamVars,
     envVars, requestVars
<1>2. Becomes(x, "dead", entry[x].view, entry[x].cp, entry[x].got)
  BY <1>0, EntryBecomes DEF RunnerExit, RunnerGoto
<1>3. OtherPlaces(s) /\ entries'[s] = NoEntry
  BY <1>s, <1>0 DEF RunnerExit, OtherPlaces, TypeOK
<1>4. /\ entries[s] = x /\ x # NoEntry /\ ~Active(s)
      /\ \A y \in DOMAIN entry : y # x /\ entry[y].pc # "dead" => entry[y].s # s
  BY <1>s, <1>0, RunnerAt DEF SerialInv, RunnersEnd
<1>5. /\ DOMAIN entry' = DOMAIN entry
      /\ \A y \in DOMAIN entry : /\ entry'[y].s = entry[y].s /\ entry'[y].run = entry[y].run
                                 /\ entry'[y].spec = entry[y].spec /\ entry'[y].task = entry[y].task
                                 /\ entry'[y].aborted = entry[y].aborted /\ entry[y].s \in Sources
                                 /\ y # x => entry'[y] = entry[y]
      /\ entry'[x].pc = "dead"
  BY <1>0, <1>2, TypedParts DEF Becomes, OneRunner, SameRun
<1>6. RunnersEnd' /\ PolledTo' /\ PolledOnce'
  <2>1. \A y \in DOMAIN entry : SameRunner(entry'[y], entry[y]) \/ EndedRunner(entry'[y], entry[y])
    BY <1>5 DEF SameRunner, EndedRunner
  <2> QED
    BY <1>1, <1>5, <2>1, RunnersEnded DEF RunnerLeaves
<1>7. \A y \in DOMAIN entry : Live(y)' => Live(y) /\ y # x /\ entry[y].s # s
  BY <1>4, <1>5 DEF Live
<1>8. \A y \in DOMAIN entry : y # x => (Live(y)' <=> Live(y))
  BY <1>5 DEF Live
<1>9. \A u : /\ (HasRow(u)' <=> HasRow(u)) /\ (Active(u)' <=> Active(u))
             /\ managed_sources'[u] = managed_sources[u] /\ (Resumable(u)' <=> Resumable(u))
  BY <1>1 DEF KeepRows, HasRow, Active, Resumable, RunnerLeaves
<1>10. \A u \in Sources : u # s /\ entries[u] # NoEntry => entries[u] # x /\ entries[u] \in DOMAIN entry
  BY <1>s, <1>0 DEF SerialInv, RunnersNamed, HandlersHaveEntries
<1>11. RunnersNamed'
  <2>1. \A y \in DOMAIN entry' : Live(y)' =>
          entries'[entry'[y].s] = y /\ managed_sources'[entry'[y].s].run = entry'[y].run
    BY <1>3, <1>5, <1>7, <1>9 DEF SerialInv, RunnersNamed, OtherPlaces
  <2>2. \A u \in Sources : entries'[u] # NoEntry => entry'[entries'[u]].s = u /\ HasRow(u)'
    BY <1>3, <1>5, <1>9, <1>10 DEF SerialInv, RunnersNamed, OtherPlaces
  <2>3. \A y \in DOMAIN entry' : ~entry'[y].aborted
    BY <1>5 DEF SerialInv, RunnersNamed
  <2> QED
    BY <2>1, <2>2, <2>3 DEF RunnersNamed
<1>12. MapNamesLive'
  <2>1. \A u \in Sources : entries'[u] # NoEntry =>
          u # s /\ entries'[u] = entries[u] /\ (Live(entries[u])' <=> Live(entries[u]))
    BY <1>3, <1>8, <1>10 DEF OtherPlaces
  <2> QED
    BY <1>1, <2>1 DEF SerialInv, MapNamesLive, At, For, RunnerLeaves
<1>13. TasksKept'
  BY <1>1, <1>5, <1>7 DEF SerialInv, TasksKept, At, RunnerLeaves
<1>14. OneAtATime'
  BY <1>1 DEF SerialInv, OneAtATime, At, RunnerLeaves
<1>15. StoppedStays'
  BY <1>1, <1>3, <1>9 DEF SerialInv, StoppedStays, For, RunnerLeaves, OtherPlaces
<1>16. RowsServed'
  <2> SUFFICES ASSUME NEW u \in Sources, Active(u)' PROVE Served(u)'
    BY DEF RowsServed
  <2>1. u # s /\ Served(u)
    BY <1>4, <1>9 DEF SerialInv, RowsServed
  <2>2. entries'[u] = entries[u] /\ (entries[u] # NoEntry => (Live(entries[u])' <=> Live(entries[u])))
    BY <1>3, <1>8, <1>10, <2>1 DEF OtherPlaces
  <2> QED
    BY <1>1, <1>9, <2>1, <2>2 DEF Served, At, For, RunnerLeaves
<1>17. HandlersInTurn'
  <2> SUFFICES ASSUME NEW p \in Procs PROVE InTurn(handler[p])'
    BY <1>1 DEF SerialInv, HandlersInTurn, RunnerLeaves
  <2>0. PICK h : h = handler[p]
    OBVIOUS
  <2>1. InTurn(h) /\ h.s \in Sources
    BY <1>0, <2>0, TypedParts DEF SerialInv, HandlersInTurn
  <2>2. \A r : Polled(r)' <=> Polled(r)
    BY <1>5 DEF Polled
  <2>3. entries'[h.s] \in {entries[h.s], NoEntry}
    BY <1>3, <2>1 DEF OtherPlaces
  <2>4. h.pc = "stop_remove" => ~Live(h.x)'
    BY <1>7, <2>1 DEF InTurn, Stopping
  <2>5. h.pc \in Stopping =>
          /\ h.x \in DOMAIN entry' /\ entry'[h.x].s = h.s
          /\ entries'[h.s] \in {h.x, NoEntry} /\ HasRow(h.s)'
    BY <1>5, <1>9, <2>1, <2>3 DEF InTurn
  <2>6. h.pc = "insert" \/ h.pc \in Removed => entries'[h.s] = NoEntry
    BY <2>1, <2>3 DEF InTurn
  <2>7. h.pc = "delete_row" =>
          \A e \in stream_events'[StreamIdOf[h.s]] :
            Polled(e.payload.run)' => ~(e.offset >= fresh_from'[h.s])
    BY <1>1, <2>1, <2>2 DEF InTurn, KeepStreams, RunnerLeaves
  <2>8. /\ h.pc \in {"stop_checkpoint", "delete_row", "upsert"} /\ HasRow(h.s)' =>
             managed_sources'[h.s].status = "stopped"
        /\ h.pc = "delete_entry" => ~HasRow(h.s)'
        /\ h.pc \in Placed \cup {"stop_lookup"} => HasRow(h.s)'
        /\ Placing(h) => h.run = managed_sources'[h.s].run
        /\ \A record \in h.todo : HasRow(record.s)' /\ record.run = managed_sources'[record.s].run
    BY <1>9, <2>1 DEF InTurn
  <2>9. InTurn(h)'
    BY <2>4, <2>5, <2>6, <2>7, <2>8 DEF InTurn
  <2> QED
    BY <1>1, <2>0, <2>9 DEF RunnerLeaves
<1> QED
  BY <1>1, <1>6, <1>11, <1>12, <1>13, <1>14, <1>15, <1>16, <1>17 DEF SerialInv, RunnerLeaves

-----------------------------------------------------------------------------
(* The theorems of the manager that handles one request at a time. *)

LEMMA SerialStep == ASSUME Serial, FenceInv, SerialInv, Next PROVE SerialInv'
<1>1. ASSUME NEW p \in Procs, HandlerStep(p) PROVE SerialInv'
  BY <1>1, SerialEnsureGet, SerialEnsureUpsert, SerialRunnerCheck, SerialRunnerInsert,
     SerialRunnerSetTask, SerialStopGet, SerialStopLookup, SerialStopSignal, SerialStopTake,
     SerialStopJoined, SerialStopAborts, SerialStopRemove, SerialStopClear, SerialStopCheckpoint,
     SerialDeleteRow, SerialDeleteEntry DEF HandlerStep
<1>2. ASSUME NEW x, RunnerStep(x) PROVE SerialInv'
  BY <1>2, SerialRunnerStart, SerialRunnerWake, SerialRunnerFetch, SerialRunnerAppend,
     SerialRunnerSyncs, SerialRunnerExit, SerialRunnerPushed, SerialRunnerEvent DEF RunnerStep
<1>3. ASSUME NEW c \in Clients, NEW s \in Sources,
             \/ \E spec \in Specs : Request(c, "ensure", s, spec)
             \/ \E op \in {"stop", "delete"} : Request(c, op, s, Idle.spec)
      PROVE  SerialInv'
  <2>1. PICK op \in {"ensure", "stop", "delete"} : \E spec : Request(c, op, s, spec)
    BY <1>3
  <2>2. PICK spec : Request(c, op, s, spec)
    BY <2>1
  <2> QED
    BY <2>2, SerialRequest
<1> QED
  BY <1>1, <1>2, <1>3, SerialPublish, SerialCrash, SerialBootLoad, SerialBootNext DEF Next

\* With one request handled at a time and no write of an aborted runner on its
\* way, the serial invariant holds across requests, runners and restarts.
THEOREM SerialInvariance == ASSUME Serial PROVE Spec => []SerialInv
<1>1. Init => FenceInv /\ SerialInv
  BY FenceStart, SerialStart
<1>2. FenceInv /\ SerialInv /\ [Next]_vars => (FenceInv /\ SerialInv)'
  <2> SUFFICES ASSUME FenceInv, SerialInv, [Next]_vars PROVE FenceInv' /\ SerialInv'
    OBVIOUS
  <2>1. CASE Next
    BY <2>1, SerialStep, TypesKept, EntriesStay, RunsStayOneSpec, RunnersStayCounted,
       EventsStayKnown, PollsStayFenced DEF FenceInv
  <2>2. CASE UNCHANGED vars
    BY <2>2, SerialStutter, FenceStutter
  <2> QED
    BY <2>1, <2>2
<1> QED
  BY <1>1, <1>2, PTL DEF Spec

\* "avoid orphaned duplicates": a runner nobody has told to stop is the one the
\* manager's map names, so a later stop, delete or ensure finds it.
THEOREM OrphansNone == ASSUME Serial PROVE Spec => []NoOrphans
<1>1. SerialInv => NoOrphans
  BY DEF SerialInv, RunnersNamed, NoOrphans
<1> QED
  BY <1>1, SerialInvariance, PTL

\* While no request is being handled, a row that claims to be starting, running
\* or reconnecting has a live runner that the map names.
THEOREM RowsAreServed == ASSUME Serial PROVE Spec => []RowIsServed
<1>1. SerialInv => RowIsServed
  <2> SUFFICES ASSUME SerialInv, NEW s \in Sources, Busy = {}, Active(s)
               PROVE  entries[s] # NoEntry /\ Live(entries[s])
    BY DEF RowIsServed, Active
  <2>1. \A p \in Procs : handler[p].pc = "idle" /\ handler[p].todo = {}
    BY DEF Busy, At, SerialInv, OneAtATime
  <2>2. Boot \in Procs
    BY DEF Procs
  <2> QED
    BY <2>1, <2>2 DEF SerialInv, RowsServed, Served, Resumable, At
<1> QED
  BY <1>1, SerialInvariance, PTL

\* Since its checkpoint was last cleared, no item of a polled source was stored
\* twice, across crashes and resumptions.
THEOREM ItemsPolledOnce == ASSUME Serial PROVE Spec => []PolledOnce
<1>1. SerialInv => PolledOnce
  BY DEF SerialInv
<1> QED
  BY <1>1, SerialInvariance, PTL

=============================================================================
