---------------------------- MODULE StreamReaders ----------------------------
(***************************************************************************)
(* Clients that page through an event stream ("uxc stream read") while     *)
(* runners append to it, retention deletes from it and "uxc stream trim"   *)
(* deletes from it.  A client keeps only the next_after_offset of its last *)
(* page; the daemon keeps nothing about it.                                *)
(***************************************************************************)
EXTENDS StreamStore

CONSTANTS
  Readers,       \* clients
  StreamOf,      \* the stream each of them reads
  Batches,       \* what one poll may append
  Offsets,       \* after_offset and before_offset values clients send
  Limits,        \* limit values clients send
  MaxLimit,      \* MANAGED_STREAM_EVENTS_MAX_LIMIT
  MaxEvents      \* bound on the events ever appended to a stream

ASSUME ReadersAssumption ==
  /\ StreamOf \in [Readers -> Streams]
  /\ Batches \subseteq Seq(Payloads) \ {<<>>}
  /\ Offsets \subseteq Nat
  /\ Limits \subseteq Nat
  /\ MaxLimit \in Nat \ {0}

VARIABLES
  open,       \* readers that hold a cursor
  start,      \* where a reader's pass over the stream started
  cursor,     \* next_after_offset of its last page
  anchored,   \* the cursor is 0 or was handed out with a row
  seen,       \* the rows its pages held
  log         \* history: everything ever appended to a stream, in order

readerVars == <<open, start, cursor, anchored, seen>>
vars == <<streamVars, readerVars, log>>

Entry == [at : Times, payload : Payloads]

Entries(at, batch) == [i \in 1..Len(batch) |-> [at |-> at, payload |-> batch[i]]]

\* The tables and the readers' cursors have the types of their columns.
TypeOK ==
  /\ StreamTypeOK
  /\ open \in SUBSET Readers
  /\ start \in [Readers -> Nat]
  /\ cursor \in [Readers -> Nat]
  /\ anchored \in [Readers -> BOOLEAN]
  /\ seen \in [Readers -> SUBSET EventRow]
  /\ log \in [Streams -> Seq(Entry)]

Init ==
  /\ StreamInit
  /\ open = {}
  /\ start = [r \in Readers |-> 0]
  /\ cursor = [r \in Readers |-> 0]
  /\ anchored = [r \in Readers |-> FALSE]
  /\ seen = [r \in Readers |-> {}]
  /\ log = [st \in Streams |-> <<>>]

-----------------------------------------------------------------------------

\* The first ensure of a source.
Create(st) ==
  /\ CreateStream(st)
  /\ UNCHANGED <<readerVars, log>>

\* One event of a stream-mode runner.
AppendOne(st, at, payload) ==
  /\ Len(log[st]) < MaxEvents
  /\ AppendEvent(st, at, payload)
  /\ log' = [log EXCEPT ![st] = @ \o Entries(at, <<payload>>)]
  /\ UNCHANGED readerVars

\* The events of one poll.  An empty poll changes no stream.
AppendPoll(st, at, batch) ==
  /\ Len(log[st]) + Len(batch) <= MaxEvents
  /\ StreamExists(st)
  /\ AppendRows(st, at, batch)
  /\ log' = [log EXCEPT ![st] = @ \o Entries(at, batch)]
  /\ UNCHANGED readerVars

\* stream_trim
Trim(st, before_offset) ==
  /\ TrimStreamBefore(st, before_offset)
  /\ UNCHANGED <<readerVars, log>>

\* A client starts a pass at an offset of its choice.
Open(r, after_offset) ==
  /\ r \notin open
  /\ open' = open \cup {r}
  /\ start' = [start EXCEPT ![r] = after_offset]
  /\ cursor' = [cursor EXCEPT ![r] = after_offset]
  /\ anchored' = [anchored EXCEPT ![r] = after_offset = 0]
  /\ seen' = [seen EXCEPT ![r] = {}]
  /\ UNCHANGED <<streamVars, log>>

\* request.limit.clamp(1, MANAGED_STREAM_EVENTS_MAX_LIMIT)
ClampLimit(limit) ==
  IF limit < 1 THEN 1 ELSE IF limit > MaxLimit THEN MaxLimit ELSE limit

\* stream_read: a page, and the cursor to continue from.
Read(r, limit) ==
  LET page == Page(StreamOf[r], cursor[r], ClampLimit(limit))
  IN  /\ r \in open
      /\ ~CursorOutOfRange(StreamOf[r], cursor[r])
      /\ \E next \in {cursor[r]} \cup {e.offset : e \in page} :
           /\ NextAfterOffset(page, cursor[r], next)
           /\ cursor' = [cursor EXCEPT ![r] = next]
      /\ anchored' = [anchored EXCEPT ![r] = @ \/ page # {}]
      /\ seen' = [seen EXCEPT ![r] = @ \cup page]
      /\ UNCHANGED <<streamVars, open, start, log>>

\* stream_read answers cursor_out_of_range: the client has lost its place
\* and must start again.
ReadRejected(r) ==
  /\ r \in open
  /\ CursorOutOfRange(StreamOf[r], cursor[r])
  /\ open' = open \ {r}
  /\ UNCHANGED <<streamVars, start, cursor, anchored, seen, log>>

Next ==
  \/ \E st \in Streams :
       \/ Create(st)
       \/ \E at \in Times, payload \in Payloads : AppendOne(st, at, payload)
       \/ \E at \in Times, batch \in Batches : AppendPoll(st, at, batch)
       \/ \E before_offset \in Offsets : Trim(st, before_offset)
  \/ \E r \in Readers :
       \/ \E after_offset \in Offsets : Open(r, after_offset)
       \/ \E limit \in Limits : Read(r, limit)
       \/ ReadRejected(r)

Spec == Init /\ [][Next]_vars

\* A client that has opened a pass keeps asking for the next page.
Fairness == \A r \in Readers : WF_vars(\E limit \in Limits : Read(r, limit))

FairSpec == Spec /\ Fairness

-----------------------------------------------------------------------------

\* Retention and appends never delete the newest event of a stream, so what
\* is left of a stream that holds any event at all includes the newest one.
LatestRetained ==
  \A st \in Streams :
    stream_events[st] # {} =>
      \E e \in stream_events[st] : e.offset = next_event_offset[st] - 1

\* read_stream never answers cursor_out_of_range to a cursor it handed out
\* itself, whatever was trimmed or expired since: the rejection is reserved
\* for cursors the client made up.
AnchoredNeverRejected ==
  \A r \in open : anchored[r] => ~CursorOutOfRange(StreamOf[r], cursor[r])

\* Paging skips nothing: every event between the start of a pass and its
\* cursor that the store still holds was on one of the pass's pages.
NoSilentGap ==
  \A r \in Readers :
    {e \in stream_events[StreamOf[r]] :
       e.offset > start[r] /\ e.offset <= cursor[r]} \subseteq seen[r]

\* An offset names one event for ever: what is stored under it, and what any
\* reader ever received under it, is what was appended as the offset-th
\* event of the stream, across trims, expiry and deletion of the source.
OffsetsIdentifyEvents ==
  /\ \A st \in Streams : \A e \in stream_events[st] :
       /\ e.offset \in 1..Len(log[st])
       /\ log[st][e.offset] = [at |-> e.at, payload |-> e.payload]
  /\ \A r \in Readers : \A e \in seen[r] :
       /\ e.offset \in 1..Len(log[StreamOf[r]])
       /\ log[StreamOf[r]][e.offset] = [at |-> e.at, payload |-> e.payload]

\* A page without has_more leaves nothing behind it: the client that stops
\* paging there has everything that was stored when the page was cut.
LastPageIsLast ==
  [][\A r \in Readers, limit \in Limits :
       (Read(r, limit) /\ ~HasMore(StreamOf[r], cursor[r], ClampLimit(limit)))
         => \A e \in stream_events[StreamOf[r]] : e.offset <= cursor'[r]]_vars

\* The store implements an append-only log.
EL == INSTANCE EventLog WITH
        live <- [st \in Streams |-> {e.offset : e \in stream_events[st]}],
        Batches <- {Entries(at, batch) : at \in Times,
                      batch \in Batches \cup {<<p>> : p \in Payloads}}

ImplementsEventLog == EL!Spec

\* A reader that holds a cursor of the store and keeps reading gets past
\* every stored event, however many are appended meanwhile.
ReaderCatchesUp ==
  \A r \in Readers : \A n \in 1..MaxEvents :
    (/\ r \in open
     /\ anchored[r]
     /\ \E e \in stream_events[StreamOf[r]] : e.offset = n)
      ~> (cursor[r] >= n \/ \A e \in stream_events[StreamOf[r]] : e.offset # n)
=============================================================================
