----------------------------- MODULE StreamStore -----------------------------
(***************************************************************************)
(* The event half of the SQLite store behind managed sources               *)
(* (managed_source_streams.rs): the tables event_streams and stream_events *)
(* and every operation of ManagedSourceStore that reads or writes them.    *)
(* An operation runs under the store's gate, in one immediate transaction  *)
(* or one statement, so it is one atomic step here: a crash or an abort    *)
(* can only fall between two operations.                                   *)
(***************************************************************************)
EXTENDS Integers, Sequences, FiniteSets

CONSTANTS
  Streams,               \* stream ids
  Payloads,              \* raw event payloads
  Times,                 \* wall clock readings, in seconds
  RetentionMaxRows,      \* DEFAULT_RETENTION_MAX_ROWS
  RetentionMaxAgeSecs    \* DEFAULT_RETENTION_MAX_AGE_SECS

ASSUME StoreAssumption ==
  /\ Times \subseteq Nat
  /\ RetentionMaxRows \in Nat \ {0}
  /\ RetentionMaxAgeSecs \in Nat

VARIABLES
  next_event_offset,  \* event_streams: stream -> next offset, 0 if no row
  stream_events       \* stream -> set of rows of stream_events

streamVars == <<next_event_offset, stream_events>>

EventRow == [offset : Nat \ {0}, at : Times, payload : Payloads]

\* Every stream has a next offset and finitely many rows, each with an
\* offset (from 1), a timestamp and a payload.
StreamTypeOK ==
  /\ next_event_offset \in [Streams -> Nat]
  /\ stream_events \in [Streams -> SUBSET EventRow]

StreamInit ==
  /\ next_event_offset = [st \in Streams |-> 0]
  /\ stream_events = [st \in Streams |-> {}]

StreamExists(st) == next_event_offset[st] # 0

\* upsert_source_tx(create_stream = true): "insert or ignore" of the stream
\* row.  delete_source leaves the stream row and its events alone.
CreateStream(st) ==
  /\ next_event_offset' =
       [next_event_offset EXCEPT ![st] = IF @ = 0 THEN 1 ELSE @]
  /\ UNCHANGED stream_events

-----------------------------------------------------------------------------
(******************************** appending ********************************)

\* Fault for NewRows: offsets counted from 0.
NewRowsFromZero(st, at, batch) ==
  {[offset |-> next_event_offset[st] + i - 2, at |-> at, payload |-> batch[i]] :
     i \in 1..Len(batch)}

\* The rows that inserting the payloads of batch at time at adds.
NewRows(st, at, batch) ==
  {[offset |-> next_event_offset[st] + i - 1, at |-> at, payload |-> batch[i]] :
     i \in 1..Len(batch)}

\* now_unix.saturating_sub(retention_max_age_secs)
Cutoff(now) == IF now > RetentionMaxAgeSecs THEN now - RetentionMaxAgeSecs ELSE 0

\* Fault for Retained: "order by offset desc".
RetainedOldest(rows, now) ==
  LET fresh == {e \in rows : e.at >= Cutoff(now)}
  IN  {e \in fresh :
         Cardinality({f \in fresh : f.offset < e.offset}) < RetentionMaxRows}

\* apply_retention_tx: rows older than the cutoff go first, then, when more
\* than retention_max_rows are left, the ones with the lowest offsets.
Retained(rows, now) ==
  LET fresh == {e \in rows : e.at >= Cutoff(now)}
  IN  {e \in fresh :
         Cardinality({f \in fresh : f.offset > e.offset}) < RetentionMaxRows}

\* Fault for AppendRows: the offset advances by one whatever was inserted.
AppendRowsByOne(st, at, batch) ==
  /\ next_event_offset' = [next_event_offset EXCEPT ![st] = @ + 1]
  /\ stream_events' =
       [stream_events EXCEPT
          ![st] = IF batch = <<>>
                  THEN @
                  ELSE Retained(@ \cup NewRows(st, at, batch), at)]

\* The loop of append_events_and_store_poll_checkpoint, and append_event
\* with a batch of one.  Retention runs only when something was inserted.
AppendRows(st, at, batch) ==
  /\ next_event_offset' = [next_event_offset EXCEPT ![st] = @ + Len(batch)]
  /\ stream_events' =
       [stream_events EXCEPT
          ![st] = IF batch = <<>>
                  THEN @
                  ELSE Retained(@ \cup NewRows(st, at, batch), at)]

\* append_event fails when the stream has no row; it looks at no other table.
AppendEvent(st, at, payload) ==
  /\ StreamExists(st)
  /\ AppendRows(st, at, <<payload>>)

\* Also used for a stream without rows, where nothing is deleted.
TrimStreamBefore(st, before_offset) ==
  /\ stream_events' =
       [stream_events EXCEPT ![st] = {e \in @ : e.offset >= before_offset}]
  /\ UNCHANGED next_event_offset

-----------------------------------------------------------------------------
(********************************* reading *********************************)

\* Fault for CursorOutOfRange: >= for >.
CursorNotBelowLatest(st, after_offset) ==
  /\ stream_events[st] # {}
  /\ \A e \in stream_events[st] : e.offset <= after_offset

\* read_stream: a cursor beyond the newest row is rejected, but only when
\* the stream holds a row at all.
CursorOutOfRange(st, after_offset) ==
  /\ stream_events[st] # {}
  /\ \A e \in stream_events[st] : e.offset < after_offset

\* Fault for Select: "order by offset desc".
SelectNewest(st, after_offset, limit) ==
  LET later == {e \in stream_events[st] : e.offset > after_offset}
  IN  {e \in later : Cardinality({f \in later : f.offset > e.offset}) < limit}

\* "where offset > after order by offset asc limit n".
Select(st, after_offset, limit) ==
  LET later == {e \in stream_events[st] : e.offset > after_offset}
  IN  {e \in later : Cardinality({f \in later : f.offset < e.offset}) < limit}

\* One row more than the limit is fetched, and cut off again, to tell
\* whether there are more.
Page(st, after_offset, limit) == Select(st, after_offset, limit)

\* Fault for HasMore: the extra row is not fetched.
HasMoreOfPage(st, after_offset, limit) ==
  Cardinality(Select(st, after_offset, limit)) > limit

HasMore(st, after_offset, limit) ==
  Cardinality(Select(st, after_offset, limit + 1)) > limit

\* Fault for NextAfterOffset: the request's cursor is echoed.
NextAfterOffsetEcho(page, after_offset, next) == next = after_offset

\* events.last().map(offset).unwrap_or(after_offset)
NextAfterOffset(page, after_offset, next) ==
  \/ page = {} /\ next = after_offset
  \/ \E last \in page : /\ \A e \in page : e.offset <= last.offset
                        /\ next = last.offset
=============================================================================
