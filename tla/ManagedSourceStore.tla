------------------------- MODULE ManagedSourceStore -------------------------
(***************************************************************************)
(* The whole store: StreamStore and the table managed_sources, with every  *)
(* operation of ManagedSourceStore that writes it.  A source stands for    *)
(* one (namespace, source_key) pair.  Columns that only carry timestamps   *)
(* and counters to the user are left out.                                  *)
(***************************************************************************)
EXTENDS StreamStore

CONSTANTS
  Sources,               \* managed source identities
  StreamIdOf,            \* managed_stream_id: the digest of an identity
  Specs,                 \* normalized spec keys
  Runs,                  \* run ids
  Checkpoints,           \* contents of poll_checkpoint_json
  NoRow,                 \* "select ... optional()" found nothing
  NoCheckpoint           \* poll_checkpoint_json is null

\* managed_stream_id keeps 64 bits of a SHA-256 digest of the identity; two
\* identities of one installation are taken to have different digests.
ASSUME SourcesAssumption ==
  /\ StreamIdOf \in [Sources -> Streams]
  /\ \A s, t \in Sources : StreamIdOf[s] = StreamIdOf[t] => s = t
  /\ NoCheckpoint \notin Checkpoints

VARIABLES
  managed_sources     \* identity -> row, or NoRow

storeVars == <<managed_sources, streamVars>>

Statuses == {"starting", "running", "reconnecting", "stopped", "failed"}

SourceRow ==
  [spec : Specs, run : Runs, status : Statuses,
   checkpoint : Checkpoints \cup {NoCheckpoint}]

ASSUME RowAssumption == NoRow \notin SourceRow

\* A source row is either absent or complete.
StoreTypeOK ==
  /\ StreamTypeOK
  /\ managed_sources \in [Sources -> SourceRow \cup {NoRow}]

StoreInit ==
  /\ StreamInit
  /\ managed_sources = [s \in Sources |-> NoRow]

HasRow(s) == managed_sources[s] # NoRow

\* Fault for HasRun: "and run_id = ?3" is missing.
HasAnyRun(s, run) == HasRow(s)

HasRun(s, run) == HasRow(s) /\ managed_sources[s].run = run

\* upsert_source(record, create_stream = true): the row is replaced, its
\* checkpoint cleared, and the stream row is inserted unless it exists.
UpsertSource(s, spec, run) ==
  /\ managed_sources' =
       [managed_sources EXCEPT ![s] =
          [spec |-> spec, run |-> run, status |-> "starting",
           checkpoint |-> NoCheckpoint]]
  /\ CreateStream(StreamIdOf[s])

\* The effect of "update managed_sources set status ... where namespace and
\* source_key": no run id is compared, and no row is no error.
SetStatus(s, status) ==
  /\ managed_sources' =
       IF HasRow(s) THEN [managed_sources EXCEPT ![s].status = status]
                    ELSE managed_sources
  /\ UNCHANGED streamVars

\* update_source_runtime: a runner mirrors its view of itself into its row.
UpdateSourceRuntime(s, status) == SetStatus(s, status)

\* clear_source_job: stop, fail and resume write a final status.
ClearSourceJob(s, status) == SetStatus(s, status)

\* The stream and its events stay.
DeleteSource(s) ==
  /\ managed_sources' = [managed_sources EXCEPT ![s] = NoRow]
  /\ UNCHANGED streamVars

\* Fault for LoadPollCheckpoint: the stored checkpoint is not restored.
LoadNoCheckpoint(s, run) == NoCheckpoint

LoadPollCheckpoint(s, run) ==
  IF HasRun(s, run) THEN managed_sources[s].checkpoint ELSE NoCheckpoint

ClearPollCheckpoint(s, run) ==
  /\ managed_sources' =
       IF HasRun(s, run)
       THEN [managed_sources EXCEPT ![s].checkpoint = NoCheckpoint]
       ELSE managed_sources
  /\ UNCHANGED streamVars

\* Fault for AppendEventsAndStorePollCheckpoint: the checkpoint is committed
\* before the events, which a crash may then lose.
StorePollCheckpointThenAppend(s, run, at, batch, checkpoint) ==
  /\ HasRun(s, run)
  /\ managed_sources' = [managed_sources EXCEPT ![s].checkpoint = checkpoint]
  /\ AppendRows(StreamIdOf[s], at, batch) \/ UNCHANGED streamVars

\* append_events_and_store_poll_checkpoint, in one transaction: it fails
\* unless the row still belongs to this run.
AppendEventsAndStorePollCheckpoint(s, run, at, batch, checkpoint) ==
  /\ HasRun(s, run)
  /\ managed_sources' = [managed_sources EXCEPT ![s].checkpoint = checkpoint]
  /\ AppendRows(StreamIdOf[s], at, batch)
=============================================================================
