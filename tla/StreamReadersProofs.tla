------------------------- MODULE StreamReadersProofs -------------------------
(***************************************************************************)
(* Theorems about StreamReaders, for every set of readers, streams,        *)
(* payloads and clock readings and every retention setting.                *)
(***************************************************************************)
EXTENDS StreamReaders, FiniteSetTheorems, SequenceTheorems, WellFoundedInduction, TLAPS

-----------------------------------------------------------------------------
(* The inductive invariant. *)

\* Tables are finite, which counting rows (count( * ), limit) relies on.
FiniteRows == \A st \in Streams : IsFiniteSet(stream_events[st])

\* next_event_offset counts what was ever appended, not what is left.
OffsetsCount ==
  \A st \in Streams :
    \/ next_event_offset[st] = Len(log[st]) + 1
    \/ next_event_offset[st] = 0 /\ log[st] = <<>>

\* A cursor the store handed out is the offset of an event that was
\* appended; one the client made up has not moved since.
CursorsBehindLog ==
  \A r \in Readers :
    /\ start[r] <= cursor[r]
    /\ anchored[r] => cursor[r] <= Len(log[StreamOf[r]])
    /\ ~anchored[r] => cursor[r] = start[r]

IInv ==
  /\ TypeOK
  /\ FiniteRows
  /\ OffsetsCount
  /\ CursorsBehindLog
  /\ OffsetsIdentifyEvents
  /\ LatestRetained
  /\ NoSilentGap

-----------------------------------------------------------------------------
(* The operators of the store. *)

\* Retention never deletes a row that is newest by offset and not older than
\* the cutoff.
LEMMA RetainedKeepsNewest ==
  ASSUME NEW rows \in SUBSET EventRow, NEW now \in Times, NEW top \in rows,
         top.at >= Cutoff(now),
         \A e \in rows : e.offset <= top.offset
  PROVE  top \in Retained(rows, now)
<1> DEFINE fresh == {e \in rows : e.at >= Cutoff(now)}
<1>1. {f \in fresh : f.offset > top.offset} = {}
  BY DEF EventRow
<1>2. Cardinality({f \in fresh : f.offset > top.offset}) < RetentionMaxRows
  BY <1>1, FS_EmptySet, StoreAssumption
<1> QED
  BY <1>2 DEF Retained

\* Retention only deletes.
LEMMA RetainedSubset ==
  ASSUME NEW rows, NEW now
  PROVE  Retained(rows, now) \subseteq rows
BY DEF Retained

\* An event is never older than the cutoff computed from its own time.
LEMMA CutoffNotAfter ==
  ASSUME NEW now \in Times
  PROVE  now >= Cutoff(now)
BY StoreAssumption DEF Cutoff

\* A batch becomes finitely many rows with the offsets that follow.
LEMMA NewRowsProperties ==
  ASSUME NEW st \in Streams, NEW at \in Times, NEW batch \in Seq(Payloads),
         next_event_offset[st] \in Nat \ {0}
  PROVE  /\ NewRows(st, at, batch) \subseteq EventRow
         /\ IsFiniteSet(NewRows(st, at, batch))
         /\ \A e \in NewRows(st, at, batch) :
              /\ e.offset - next_event_offset[st] + 1 \in 1..Len(batch)
              /\ e.at = at
              /\ e.payload = batch[e.offset - next_event_offset[st] + 1]
<1> DEFINE row(i) == [offset |-> next_event_offset[st] + i - 1, at |-> at,
                      payload |-> batch[i]]
           f == [i \in 1..Len(batch) |-> row(i)]
<1>1. \A i \in 1..Len(batch) : row(i) \in EventRow
  BY DEF EventRow
<1>2. IsFiniteSet(1..Len(batch))
  BY FS_Interval
<1>3. f \in Surjection(1..Len(batch), NewRows(st, at, batch))
  BY DEF Surjection, NewRows
<1>4. IsFiniteSet(NewRows(st, at, batch))
  BY <1>2, <1>3, FS_Surjection
<1>5. ASSUME NEW e \in NewRows(st, at, batch)
      PROVE  /\ e.offset - next_event_offset[st] + 1 \in 1..Len(batch)
             /\ e.at = at
             /\ e.payload = batch[e.offset - next_event_offset[st] + 1]
  <2>1. PICK i \in 1..Len(batch) : e = row(i)
    BY DEF NewRows
  <2>2. e.offset - next_event_offset[st] + 1 = i
    BY <2>1
  <2> QED
    BY <2>1, <2>2
<1> QED
  BY <1>1, <1>4, <1>5 DEF NewRows

\* "limit n" cuts a page off from the top: whatever lies between the cursor
\* and a row of the page is on the page.
LEMMA PageHasNoGap ==
  ASSUME NEW st \in Streams, NEW after \in Nat, NEW limit \in Nat,
         stream_events[st] \subseteq EventRow,
         IsFiniteSet(stream_events[st]),
         NEW last \in Page(st, after, limit), NEW e \in stream_events[st],
         e.offset > after, e.offset <= last.offset
  PROVE  e \in Page(st, after, limit)
<1> DEFINE later == {f \in stream_events[st] : f.offset > after}
           below(g) == {f \in later : f.offset < g.offset}
<1>1. last \in later /\ Cardinality(below(last)) < limit
  BY DEF Page, Select
<1>2. IsFiniteSet(below(last))
  <2>1. below(last) \in SUBSET stream_events[st]
    OBVIOUS
  <2> QED
    BY <2>1, FS_Subset
<1>3. below(e) \in SUBSET below(last)
  BY <1>1 DEF EventRow
<1>4. /\ Cardinality(below(e)) <= Cardinality(below(last))
      /\ Cardinality(below(e)) \in Nat
      /\ Cardinality(below(last)) \in Nat
  BY <1>2, <1>3, FS_Subset, FS_CardinalityType
<1>5. Cardinality(below(e)) < limit
  BY <1>1, <1>4
<1> QED
  BY <1>5 DEF Page, Select

\* Of some offsets there is a least.
LEMMA LeastOffset ==
  ASSUME NEW T \in SUBSET Nat, T # {}
  PROVE  \E x \in T : \A y \in T : x <= y
<1> DEFINE R == OpToRel(<, Nat)
<1>1. IsWellFoundedOn(R, Nat)
  BY NatLessThanWellFounded
<1>2. R = {p \in Nat \X Nat : p[1] < p[2]}
  BY DEF OpToRel
<1> HIDE DEF R
<1>3. PICK x \in T : \A y \in T : ~ (<<y, x>> \in R)
  BY <1>1, WFMin
<1>4. \A y \in T : x <= y
  <2> SUFFICES ASSUME NEW y \in T PROVE x <= y
    OBVIOUS
  <2>1. <<y, x>> \in Nat \X Nat /\ <<y, x>>[1] = y /\ <<y, x>>[2] = x
    OBVIOUS
  <2>2. ~ (<<y, x>>[1] < <<y, x>>[2])
    BY <2>1, <1>2, <1>3
  <2> QED
    BY <2>1, <2>2
<1> QED
  BY <1>4

\* The row fetched beyond the limit is there when the page leaves one out: the
\* first row it leaves out has a page of rows in front of it.
LEMMA LastPageIsAll ==
  ASSUME NEW st \in Streams, NEW after \in Nat, NEW limit \in Nat,
         stream_events[st] \subseteq EventRow,
         IsFiniteSet(stream_events[st]),
         ~HasMore(st, after, limit),
         NEW e \in stream_events[st], e.offset > after
  PROVE  e \in Page(st, after, limit)
<1> DEFINE later == {f \in stream_events[st] : f.offset > after}
           below(g) == {f \in later : f.offset < g.offset}
           left == {f \in later : ~(Cardinality(below(f)) < limit)}
           fetched == Select(st, after, limit + 1)
<1>1. IsFiniteSet(later) /\ IsFiniteSet(fetched)
  <2>1. later \in SUBSET stream_events[st] /\ fetched \in SUBSET stream_events[st]
    BY DEF Select
  <2> QED
    BY <2>1, FS_Subset
<1>2. fetched = {f \in later : Cardinality(below(f)) < limit + 1}
  BY DEF Select
<1>3. ASSUME NEW f \in later
      PROVE  IsFiniteSet(below(f)) /\ Cardinality(below(f)) \in Nat
  <2>1. below(f) \in SUBSET later
    OBVIOUS
  <2> QED
    BY <1>1, <2>1, FS_Subset, FS_CardinalityType
<1>4. Cardinality(fetched) \in Nat /\ Cardinality(fetched) <= limit
  BY <1>1, FS_CardinalityType DEF HasMore
<1>5. ASSUME left # {} PROVE FALSE
  <2>1. {f.offset : f \in left} \in SUBSET Nat /\ {f.offset : f \in left} # {}
    BY <1>5 DEF EventRow
  <2>2. PICK first \in left : \A f \in left : first.offset <= f.offset
    <3> HIDE DEF left
    <3>1. PICK x \in {f.offset : f \in left} : \A y \in {f.offset : f \in left} : x <= y
      BY <2>1, LeastOffset
    <3>2. PICK first \in left : first.offset = x
      BY <3>1
    <3> QED
      BY <3>1, <3>2
  <2>3. first \in later /\ Cardinality(below(first)) \in Nat /\ IsFiniteSet(below(first))
    BY <2>2, <1>3
  <2>4. Cardinality(below(first)) >= limit
    BY <2>2, <2>3
  <2>5. below(first) \in SUBSET fetched
    <3> SUFFICES ASSUME NEW f \in below(first) PROVE f \in fetched
      OBVIOUS
    <3>1. f \in later /\ f.offset < first.offset /\ Cardinality(below(f)) \in Nat
      BY <1>3
    <3>2. f \notin left
      BY <2>2, <2>3, <3>1 DEF EventRow
    <3> QED
      BY <1>2, <3>1, <3>2
  <2>6. Cardinality(below(first)) <= Cardinality(fetched)
    BY <1>1, <2>5, FS_Subset
  <2>7. first \in fetched /\ first \notin below(first)
    <3>1. Cardinality(below(first)) = limit
      BY <1>4, <2>3, <2>4, <2>6
    <3> QED
      BY <1>2, <2>3, <3>1 DEF EventRow
  <2>8. below(first) # fetched
    BY <2>7
  <2>9. Cardinality(below(first)) # Cardinality(fetched)
    BY <1>1, <2>5, <2>8, FS_Subset
  <2> QED
    BY <1>4, <2>3, <2>4, <2>6, <2>9
<1>6. e \in later /\ e \notin left
  BY <1>5
<1> QED
  BY <1>6 DEF Page, Select

-----------------------------------------------------------------------------
(* Each action preserves the invariant. *)

\* The empty store with no readers satisfies the invariant.
LEMMA InitEstablishes == Init => IInv
<1> SUFFICES ASSUME Init PROVE IInv
  OBVIOUS
<1>1. TypeOK
  BY DEF Init, StreamInit, TypeOK, StreamTypeOK
<1>2. FiniteRows
  BY FS_EmptySet DEF Init, StreamInit, FiniteRows
<1>3. OffsetsCount /\ CursorsBehindLog
  BY ReadersAssumption DEF Init, StreamInit, OffsetsCount, CursorsBehindLog
<1>4. OffsetsIdentifyEvents /\ LatestRetained /\ NoSilentGap
  BY ReadersAssumption
  DEF Init, StreamInit, OffsetsIdentifyEvents, LatestRetained, NoSilentGap
<1> QED
  BY <1>1, <1>2, <1>3, <1>4 DEF IInv

\* A row's offset lies within the log, and a stream that has rows exists.
LEMMA RowBounds ==
  ASSUME IInv, NEW st \in Streams, NEW e \in stream_events[st]
  PROVE  /\ e \in EventRow
         /\ e.offset \in Nat \ {0}
         /\ Len(log[st]) \in Nat
         /\ e.offset <= Len(log[st])
         /\ next_event_offset[st] = Len(log[st]) + 1
<1>1. e \in EventRow /\ log[st] \in Seq(Entry)
  BY DEF IInv, TypeOK, StreamTypeOK
<1>2. e.offset \in Nat \ {0} /\ Len(log[st]) \in Nat
  BY <1>1 DEF EventRow
<1>3. e.offset \in 1..Len(log[st])
  BY DEF IInv, OffsetsIdentifyEvents
<1>4. log[st] # <<>>
  BY <1>2, <1>3
<1>5. next_event_offset[st] = Len(log[st]) + 1
  BY <1>4 DEF IInv, OffsetsCount
<1> QED
  BY <1>1, <1>2, <1>3, <1>5

\* Creating a stream (the first ensure of a source) preserves the invariant.
LEMMA CreatePreserves ==
  ASSUME IInv, NEW st \in Streams, Create(st)
  PROVE  IInv'
<1> USE DEF IInv, Create, CreateStream, readerVars
<1>1. TypeOK'
  BY DEF TypeOK, StreamTypeOK
<1>2. FiniteRows'
  BY DEF FiniteRows
<1>3. OffsetsCount'
  BY DEF OffsetsCount, TypeOK, StreamTypeOK
<1>4. CursorsBehindLog'
  BY DEF CursorsBehindLog
<1>5. OffsetsIdentifyEvents' /\ NoSilentGap'
  BY DEF OffsetsIdentifyEvents, NoSilentGap
<1>6. LatestRetained'
  <2> SUFFICES ASSUME NEW t \in Streams, NEW e \in stream_events[t]
               PROVE  next_event_offset'[t] = next_event_offset[t]
    BY DEF LatestRetained
  <2>1. next_event_offset[t] # 0
    BY RowBounds
  <2> QED
    BY <2>1 DEF TypeOK, StreamTypeOK
<1> QED
  BY <1>1, <1>2, <1>3, <1>4, <1>5, <1>6

\* A trim preserves the invariant: it deletes from the bottom.
LEMMA TrimPreserves ==
  ASSUME IInv, NEW st \in Streams, NEW before_offset \in Offsets,
         Trim(st, before_offset)
  PROVE  IInv'
<1> USE DEF IInv, Trim, TrimStreamBefore, readerVars
<1>1. \A t \in Streams : stream_events'[t] \subseteq stream_events[t]
  BY DEF TypeOK, StreamTypeOK
<1>2. TypeOK'
  BY DEF TypeOK, StreamTypeOK
<1>3. FiniteRows'
  BY <1>1, FS_Subset DEF FiniteRows
<1>4. OffsetsCount' /\ CursorsBehindLog'
  BY DEF OffsetsCount, CursorsBehindLog
<1>5. OffsetsIdentifyEvents'
  BY <1>1 DEF OffsetsIdentifyEvents
<1>6. NoSilentGap'
  BY <1>1, ReadersAssumption DEF NoSilentGap
<1>7. LatestRetained'
  <2> SUFFICES ASSUME NEW t \in Streams, NEW e \in stream_events'[t]
               PROVE  \E f \in stream_events'[t] :
                        f.offset = next_event_offset[t] - 1
    BY DEF LatestRetained
  <2>1. PICK f \in stream_events[t] : f.offset = next_event_offset[t] - 1
    BY <1>1 DEF LatestRetained
  <2>2. e.offset <= f.offset
    BY <1>1, <2>1, RowBounds
  <2>3. before_offset \in Nat
    BY ReadersAssumption
  <2>4. CASE t = st
    <3>1. f.offset >= before_offset
      BY <2>2, <2>3, <2>4 DEF TypeOK, StreamTypeOK, EventRow
    <3> QED
      BY <2>1, <2>4, <3>1 DEF TypeOK, StreamTypeOK
  <2>5. CASE t # st
    BY <2>1, <2>5 DEF TypeOK, StreamTypeOK
  <2> QED
    BY <2>4, <2>5
<1> QED
  BY <1>2, <1>3, <1>4, <1>5, <1>6, <1>7

\* Appending the events of a poll, or one event, preserves the invariant:
\* the new offsets are above every cursor and the newest row survives
\* retention.
LEMMA AppendPreserves ==
  ASSUME IInv, NEW st \in Streams, NEW at \in Times,
         NEW batch \in Seq(Payloads), batch # <<>>,
         StreamExists(st),
         AppendRows(st, at, batch),
         log' = [log EXCEPT ![st] = @ \o Entries(at, batch)],
         UNCHANGED readerVars
  PROVE  IInv'
<1> DEFINE n == next_event_offset[st]
           new == NewRows(st, at, batch)
           all == stream_events[st] \cup new
<1> USE DEF IInv
<1>1. /\ n = Len(log[st]) + 1
      /\ n \in Nat \ {0}
      /\ log[st] \in Seq(Entry)
      /\ stream_events[st] \subseteq EventRow
  BY DEF OffsetsCount, StreamExists, TypeOK, StreamTypeOK
<1>2. /\ new \subseteq EventRow
      /\ IsFiniteSet(new)
      /\ \A e \in new : /\ e.offset - n + 1 \in 1..Len(batch)
                        /\ e.at = at
                        /\ e.payload = batch[e.offset - n + 1]
  BY <1>1, NewRowsProperties
<1>3. /\ stream_events' = [stream_events EXCEPT ![st] = Retained(all, at)]
      /\ next_event_offset' = [next_event_offset EXCEPT ![st] = n + Len(batch)]
  BY DEF AppendRows
<1>4. Retained(all, at) \subseteq all
  BY RetainedSubset
<1>5. /\ Entries(at, batch) \in Seq(Entry)
      /\ Len(Entries(at, batch)) = Len(batch)
      /\ \A i \in 1..Len(batch) :
           Entries(at, batch)[i] = [at |-> at, payload |-> batch[i]]
  BY DEF Entries, Entry
<1>6. /\ log' \in [Streams -> Seq(Entry)]
      /\ Len(log'[st]) = Len(log[st]) + Len(batch)
      /\ \A i \in 1..Len(log[st]) : log'[st][i] = log[st][i]
      /\ \A i \in 1..Len(batch) :
           log'[st][Len(log[st]) + i] = [at |-> at, payload |-> batch[i]]
  <2> DEFINE b == Entries(at, batch)
  <2>1. log'[st] = log[st] \o b
    BY DEF TypeOK
  <2> HIDE DEF b
  <2>2. b \in Seq(Entry) /\ Len(b) = Len(batch)
    BY <1>5 DEF b
  <2>3. /\ log[st] \o b \in Seq(Entry)
        /\ Len(log[st] \o b) = Len(log[st]) + Len(b)
        /\ \A i \in 1..(Len(log[st]) + Len(b)) :
             (log[st] \o b)[i] = IF i <= Len(log[st]) THEN log[st][i]
                                ELSE b[i - Len(log[st])]
    BY <1>1, <2>2, ConcatProperties
  <2>4. log' \in [Streams -> Seq(Entry)]
    BY <2>3 DEF TypeOK, b
  <2>5. \A i \in 1..Len(log[st]) : log'[st][i] = log[st][i]
    BY <1>1, <2>1, <2>2, <2>3
  <2>6. ASSUME NEW i \in 1..Len(batch)
        PROVE  log'[st][Len(log[st]) + i] = [at |-> at, payload |-> batch[i]]
    <3>1. Len(log[st]) \in Nat /\ Len(b) \in Nat
      BY <1>1, <2>2
    <3>2. log'[st][Len(log[st]) + i] = b[i]
      BY <2>1, <2>2, <2>3, <3>1
    <3> QED
      BY <1>5, <3>2 DEF b
  <2> QED
    BY <2>1, <2>2, <2>3, <2>4, <2>5, <2>6
<1>7. Len(batch) \in Nat \ {0} /\ Len(log[st]) \in Nat
  BY <1>1
<1>. HIDE DEF n, new, all
<1>15. \A t \in Streams \ {st} :
         /\ log'[t] = log[t]
         /\ stream_events'[t] = stream_events[t]
         /\ next_event_offset'[t] = next_event_offset[t]
  BY <1>3 DEF TypeOK, StreamTypeOK
<1>16. /\ stream_events'[st] = Retained(all, at)
       /\ next_event_offset'[st] = n + Len(batch)
  BY <1>3 DEF TypeOK, StreamTypeOK
<1>8. TypeOK'
  <2>1. n + Len(batch) \in Nat
    BY <1>1, <1>7
  <2>2. Retained(all, at) \subseteq EventRow
    BY <1>1, <1>2, <1>4 DEF all
  <2>3. StreamTypeOK'
    BY <1>3, <2>1, <2>2 DEF TypeOK, StreamTypeOK
  <2> QED
    BY <1>6, <2>3 DEF TypeOK, readerVars
<1>9. FiniteRows'
  <2>1. IsFiniteSet(all)
    BY <1>2, FS_Union DEF FiniteRows, all
  <2>2. IsFiniteSet(Retained(all, at))
    BY <1>4, <2>1, FS_Subset
  <2> QED
    BY <1>15, <1>16, <2>2 DEF FiniteRows
<1>10. OffsetsCount'
  <2>1. next_event_offset'[st] = Len(log'[st]) + 1
    BY <1>1, <1>6, <1>7, <1>16
  <2> QED
    BY <1>15, <2>1 DEF OffsetsCount
<1>11. CursorsBehindLog'
  BY <1>1, <1>6, <1>7, ReadersAssumption DEF CursorsBehindLog, TypeOK, readerVars
<1>12. OffsetsIdentifyEvents'
  <2>1. ASSUME NEW e \in all
        PROVE  /\ e.offset \in 1..Len(log'[st])
               /\ log'[st][e.offset] = [at |-> e.at, payload |-> e.payload]
    <3>1. CASE e \in stream_events[st]
      BY <1>6, <1>7, <3>1 DEF OffsetsIdentifyEvents
    <3>2. CASE e \in new
      <4> DEFINE i == e.offset - n + 1
      <4>1. i \in 1..Len(batch) /\ e.at = at /\ e.payload = batch[i]
        BY <1>2, <3>2
      <4>2. e.offset = Len(log[st]) + i
        BY <1>1, <1>2, <3>2 DEF EventRow
      <4> HIDE DEF i
      <4> QED
        BY <1>1, <1>6, <1>7, <4>1, <4>2
    <3> QED
      BY <3>1, <3>2 DEF all
  <2>2. \A t \in Streams : \A e \in stream_events'[t] :
          /\ e.offset \in 1..Len(log'[t])
          /\ log'[t][e.offset] = [at |-> e.at, payload |-> e.payload]
    <3> SUFFICES ASSUME NEW t \in Streams, NEW e \in stream_events'[t]
                 PROVE  /\ e.offset \in 1..Len(log'[t])
                        /\ log'[t][e.offset] =
                             [at |-> e.at, payload |-> e.payload]
      OBVIOUS
    <3>1. CASE t = st
      BY <1>4, <1>16, <2>1, <3>1
    <3>2. CASE t # st
      BY <1>15, <3>2 DEF OffsetsIdentifyEvents
    <3> QED
      BY <3>1, <3>2
  <2>3. \A r \in Readers : \A e \in seen[r] :
          /\ e.offset \in 1..Len(log'[StreamOf[r]])
          /\ log'[StreamOf[r]][e.offset] = [at |-> e.at, payload |-> e.payload]
    <3> SUFFICES ASSUME NEW r \in Readers, NEW e \in seen[r]
                 PROVE  /\ e.offset \in 1..Len(log'[StreamOf[r]])
                        /\ log'[StreamOf[r]][e.offset] =
                             [at |-> e.at, payload |-> e.payload]
      OBVIOUS
    <3>1. /\ e.offset \in 1..Len(log[StreamOf[r]])
          /\ log[StreamOf[r]][e.offset] = [at |-> e.at, payload |-> e.payload]
      BY DEF OffsetsIdentifyEvents
    <3>2. CASE StreamOf[r] = st
      BY <1>6, <1>7, <3>1, <3>2
    <3>3. CASE StreamOf[r] # st
      BY <1>15, <3>1, <3>3, ReadersAssumption
    <3> QED
      BY <3>2, <3>3
  <2> QED
    BY <2>2, <2>3 DEF OffsetsIdentifyEvents, readerVars
<1>13. LatestRetained'
  <2> DEFINE top == [offset |-> n + Len(batch) - 1, at |-> at,
                     payload |-> batch[Len(batch)]]
  <2>1. top \in new
    <3>1. Len(batch) \in 1..Len(batch)
      BY <1>7
    <3> QED
      BY <3>1, Zenon DEF NewRows, new, n
  <2>2. \A e \in all : e.offset <= top.offset
    <3> SUFFICES ASSUME NEW e \in all
                 PROVE  e.offset <= n + Len(batch) - 1
      OBVIOUS
    <3>1. CASE e \in stream_events[st]
      BY <1>1, <1>7, <3>1, RowBounds
    <3>2. CASE e \in new
      BY <1>1, <1>2, <1>7, <3>2 DEF EventRow
    <3> QED
      BY <3>1, <3>2 DEF all
  <2>3. top.at >= Cutoff(at)
    BY CutoffNotAfter
  <2> HIDE DEF top
  <2>4. top \in Retained(all, at)
    <3>1. all \subseteq EventRow /\ top \in all
      BY <1>1, <1>2, <2>1 DEF all
    <3> QED
      BY <2>2, <2>3, <3>1, RetainedKeepsNewest
  <2>5. top.offset = n + Len(batch) - 1
    BY DEF top
  <2> QED
    <3> SUFFICES ASSUME NEW t \in Streams, stream_events'[t] # {}
                 PROVE  \E e \in stream_events'[t] :
                          e.offset = next_event_offset'[t] - 1
      BY DEF LatestRetained
    <3>1. CASE t = st
      <4>1. top \in stream_events'[t]
        BY <1>16, <2>4, <3>1
      <4>2. next_event_offset'[t] = n + Len(batch)
        BY <1>16, <3>1
      <4> QED
        BY <1>1, <1>7, <2>5, <4>1, <4>2
    <3>2. CASE t # st
      BY <1>15, <3>2 DEF LatestRetained
    <3> QED
      BY <3>1, <3>2
<1>14. NoSilentGap'
  <2> SUFFICES ASSUME NEW r \in Readers, NEW e \in stream_events'[StreamOf[r]],
                      e.offset > start[r], e.offset <= cursor[r]
               PROVE  e \in seen[r]
    BY DEF NoSilentGap, readerVars
  <2>1. e \in stream_events[StreamOf[r]] \/ (StreamOf[r] = st /\ e \in new)
    BY <1>4, <1>15, <1>16, ReadersAssumption DEF all
  <2>2. ~(StreamOf[r] = st /\ e \in new)
    <3> SUFFICES ASSUME StreamOf[r] = st, e \in new PROVE FALSE
      OBVIOUS
    <3>1. e.offset > Len(log[st])
      BY <1>1, <1>2 DEF EventRow
    <3>2. cursor[r] <= Len(log[st]) \/ cursor[r] = start[r]
      BY DEF CursorsBehindLog
    <3> QED
      BY <1>1, <1>2, <3>1, <3>2 DEF TypeOK, EventRow
  <2> QED
    BY <2>1, <2>2 DEF NoSilentGap
<1> QED
  BY <1>8, <1>9, <1>10, <1>11, <1>12, <1>13, <1>14

\* Starting a pass preserves the invariant.
LEMMA OpenPreserves ==
  ASSUME IInv, NEW r \in Readers, NEW after_offset \in Offsets,
         Open(r, after_offset)
  PROVE  IInv'
<1> USE DEF IInv, Open, streamVars
<1>1. after_offset \in Nat
  BY ReadersAssumption
<1>2. TypeOK'
  BY <1>1 DEF TypeOK, StreamTypeOK
<1>3. FiniteRows' /\ OffsetsCount' /\ LatestRetained'
  BY DEF FiniteRows, OffsetsCount, LatestRetained
<1>4. CursorsBehindLog'
  <2>1. Len(log[StreamOf[r]]) \in Nat
    BY ReadersAssumption DEF TypeOK
  <2> QED
    <3> SUFFICES ASSUME NEW q \in Readers
                 PROVE  /\ start'[q] <= cursor'[q]
                        /\ anchored'[q] => cursor'[q] <= Len(log[StreamOf[q]])
                        /\ ~anchored'[q] => cursor'[q] = start'[q]
      BY DEF CursorsBehindLog
    <3>1. CASE q = r
      <4>1. /\ start'[r] = after_offset
            /\ cursor'[r] = after_offset
        BY DEF TypeOK
      <4>2. anchored'[r] => after_offset = 0
        BY Zenon DEF TypeOK
      <4> QED
        BY <1>1, <2>1, <3>1, <4>1, <4>2
    <3>2. CASE q # r
      <4>1. /\ start'[q] = start[q]
            /\ cursor'[q] = cursor[q]
            /\ anchored'[q] = anchored[q]
        BY <3>2 DEF TypeOK
      <4> QED
        BY <4>1 DEF CursorsBehindLog
    <3> QED
      BY <3>1, <3>2
<1>5. OffsetsIdentifyEvents'
  BY DEF OffsetsIdentifyEvents, TypeOK
<1>6. NoSilentGap'
  <2> SUFFICES ASSUME NEW q \in Readers, NEW e \in stream_events[StreamOf[q]],
                      e.offset > start'[q], e.offset <= cursor'[q]
               PROVE  e \in seen'[q]
    BY DEF NoSilentGap
  <2>1. e.offset \in Nat
    BY RowBounds, ReadersAssumption
  <2>2. q # r
    BY <1>1, <2>1 DEF TypeOK
  <2> QED
    BY <2>2 DEF NoSilentGap, TypeOK
<1> QED
  BY <1>2, <1>3, <1>4, <1>5, <1>6

\* A page, with its cursor, preserves the invariant.
LEMMA ReadPreserves ==
  ASSUME IInv, NEW r \in Readers, NEW limit \in Limits, Read(r, limit)
  PROVE  IInv'
<1> DEFINE st == StreamOf[r]
           lim == ClampLimit(limit)
           page == Page(st, cursor[r], lim)
<1>1. st \in Streams /\ cursor[r] \in Nat /\ lim \in Nat
  BY ReadersAssumption DEF IInv, TypeOK, ClampLimit
<1>2. PICK next \in {cursor[r]} \cup {e.offset : e \in page} :
        /\ NextAfterOffset(page, cursor[r], next)
        /\ cursor' = [cursor EXCEPT ![r] = next]
  BY DEF Read
<1>3. /\ anchored' = [anchored EXCEPT ![r] = anchored[r] \/ page # {}]
      /\ seen' = [seen EXCEPT ![r] = seen[r] \cup page]
      /\ UNCHANGED <<streamVars, open, start, log>>
  BY DEF Read
<1>4. /\ page \subseteq stream_events[st]
      /\ \A e \in page : e.offset > cursor[r]
  BY DEF Page, Select
<1>5. \A last \in page, e \in stream_events[st] :
        (e.offset > cursor[r] /\ e.offset <= last.offset) => e \in page
  <2>1. stream_events[st] \subseteq EventRow /\ IsFiniteSet(stream_events[st])
    BY <1>1 DEF IInv, TypeOK, StreamTypeOK, FiniteRows
  <2> QED
    BY <1>1, <2>1, PageHasNoGap
<1> HIDE DEF st, lim, page
<1>6. \/ page = {} /\ next = cursor[r]
      \/ \E last \in page : next = last.offset
  BY <1>2 DEF NextAfterOffset
<1>7. next \in Nat /\ next >= cursor[r]
  BY <1>1, <1>4, <1>6, RowBounds
<1> USE DEF IInv, streamVars
<1>8. TypeOK'
  <2>1. page \subseteq EventRow
    BY <1>1, <1>4 DEF TypeOK, StreamTypeOK
  <2> QED
    BY <1>2, <1>3, <1>7, <2>1 DEF TypeOK, StreamTypeOK
<1>9. FiniteRows' /\ OffsetsCount' /\ LatestRetained'
  BY <1>3 DEF FiniteRows, OffsetsCount, LatestRetained
<1>10. CursorsBehindLog'
  <2>1. page # {} => next <= Len(log[st])
    BY <1>1, <1>4, <1>6, RowBounds
  <2>2. /\ start[r] <= next
        /\ (anchored[r] \/ page # {}) => next <= Len(log[st])
        /\ ~(anchored[r] \/ page # {}) => next = start[r]
    BY <1>1, <1>6, <1>7, <2>1 DEF CursorsBehindLog, TypeOK, st
  <2> QED
    BY <1>2, <1>3, <2>2 DEF CursorsBehindLog, TypeOK, st
<1>11. OffsetsIdentifyEvents'
  <2>1. \A e \in page : /\ e.offset \in 1..Len(log[StreamOf[r]])
                        /\ log[StreamOf[r]][e.offset] =
                             [at |-> e.at, payload |-> e.payload]
    BY <1>1, <1>4 DEF OffsetsIdentifyEvents, st
  <2> QED
    BY <1>3, <2>1 DEF OffsetsIdentifyEvents, TypeOK
<1>12. NoSilentGap'
  <2> SUFFICES ASSUME NEW q \in Readers, NEW e \in stream_events[StreamOf[q]],
                      e.offset > start[q], e.offset <= cursor'[q]
               PROVE  e \in seen'[q]
    BY <1>3 DEF NoSilentGap
  <2>1. e.offset \in Nat
    BY RowBounds, ReadersAssumption
  <2>2. CASE q # r
    BY <1>2, <1>3, <2>2 DEF NoSilentGap, TypeOK
  <2>3. CASE q = r
    <3>1. cursor'[r] = next /\ seen'[r] = seen[r] \cup page
      BY <1>2, <1>3 DEF TypeOK
    <3>2. CASE e.offset <= cursor[r]
      BY <2>3, <3>1, <3>2 DEF NoSilentGap
    <3>3. CASE e.offset > cursor[r]
      BY <1>1, <1>5, <1>6, <2>1, <2>3, <3>1, <3>3 DEF st
    <3> QED
      BY <1>1, <2>1, <3>2, <3>3
  <2> QED
    BY <2>2, <2>3
<1> QED
  BY <1>8, <1>9, <1>10, <1>11, <1>12

\* Every step of the system preserves the invariant.
LEMMA NextPreserves == IInv /\ [Next]_vars => IInv'
<1> SUFFICES ASSUME IInv, [Next]_vars PROVE IInv'
  OBVIOUS
<1>1. ASSUME NEW st \in Streams, Create(st) PROVE IInv'
  BY <1>1, CreatePreserves
<1>2. ASSUME NEW st \in Streams, NEW at \in Times, NEW payload \in Payloads,
             AppendOne(st, at, payload)
      PROVE  IInv'
  <2>1. <<payload>> \in Seq(Payloads) /\ <<payload>> # <<>>
    OBVIOUS
  <2> QED
    BY <1>2, <2>1, AppendPreserves DEF AppendOne, AppendEvent
<1>3. ASSUME NEW st \in Streams, NEW at \in Times, NEW batch \in Batches,
             AppendPoll(st, at, batch)
      PROVE  IInv'
  <2>1. batch \in Seq(Payloads) /\ batch # <<>>
    BY ReadersAssumption
  <2> QED
    BY <1>3, <2>1, AppendPreserves DEF AppendPoll
<1>4. ASSUME NEW st \in Streams, NEW before_offset \in Offsets,
             Trim(st, before_offset)
      PROVE  IInv'
  BY <1>4, TrimPreserves
<1>5. ASSUME NEW r \in Readers, NEW after_offset \in Offsets,
             Open(r, after_offset)
      PROVE  IInv'
  BY <1>5, OpenPreserves
<1>6. ASSUME NEW r \in Readers, NEW limit \in Limits, Read(r, limit)
      PROVE  IInv'
  BY <1>6, ReadPreserves
<1> DEFINE core == <<streamVars, start, cursor, anchored, seen, log>>
<1>7. ASSUME UNCHANGED core, open' \subseteq open PROVE IInv'
  BY <1>7 DEF IInv, streamVars, TypeOK, StreamTypeOK, EventRow, FiniteRows,
    OffsetsCount, CursorsBehindLog, OffsetsIdentifyEvents, LatestRetained,
    NoSilentGap
<1>8. ASSUME NEW r \in Readers, ReadRejected(r) PROVE IInv'
  BY <1>7, <1>8 DEF ReadRejected
<1>9. CASE UNCHANGED vars
  BY <1>7, <1>9 DEF vars, readerVars
<1> QED
  BY <1>1, <1>2, <1>3, <1>4, <1>5, <1>6, <1>8, <1>9 DEF Next

-----------------------------------------------------------------------------
(* What the invariant gives. *)

\* The inductive invariant holds in every reachable state.
THEOREM Invariance == Spec => []IInv
<1> QED
  BY InitEstablishes, NextPreserves, PTL DEF Spec

\* Rows, offsets and cursors keep the types of their columns.
THEOREM TypeCorrect == Spec => []TypeOK
<1>1. IInv => TypeOK
  BY DEF IInv
<1> QED
  BY <1>1, Invariance, PTL

\* As long as a stream holds any event it holds its newest one.
THEOREM NewestSurvives == Spec => []LatestRetained
<1>1. IInv => LatestRetained
  BY DEF IInv
<1> QED
  BY <1>1, Invariance, PTL

\* Paging through a stream skips no stored event.
THEOREM PagingIsComplete == Spec => []NoSilentGap
<1>1. IInv => NoSilentGap
  BY DEF IInv
<1> QED
  BY <1>1, Invariance, PTL

\* An offset is never used for two events.
THEOREM OffsetsAreNames == Spec => []OffsetsIdentifyEvents
<1>1. IInv => OffsetsIdentifyEvents
  BY DEF IInv
<1> QED
  BY <1>1, Invariance, PTL

\* cursor_out_of_range is never the answer to a cursor of the store's own.
THEOREM OwnCursorsAccepted == Spec => []AnchoredNeverRejected
<1>1. IInv => AnchoredNeverRejected
  <2> SUFFICES ASSUME IInv, NEW r \in open, anchored[r],
                      stream_events[StreamOf[r]] # {}
               PROVE  \E e \in stream_events[StreamOf[r]] :
                        ~(e.offset < cursor[r])
    BY DEF AnchoredNeverRejected, CursorOutOfRange
  <2>1. r \in Readers /\ StreamOf[r] \in Streams /\ cursor[r] \in Nat
    BY ReadersAssumption DEF IInv, TypeOK
  <2>2. PICK e \in stream_events[StreamOf[r]] :
          e.offset = next_event_offset[StreamOf[r]] - 1
    BY <2>1 DEF IInv, LatestRetained
  <2>3. /\ e.offset \in Nat
        /\ e.offset = Len(log[StreamOf[r]])
    BY <2>1, <2>2, RowBounds
  <2>4. cursor[r] <= Len(log[StreamOf[r]])
    BY <2>1 DEF IInv, CursorsBehindLog
  <2> QED
    BY <2>1, <2>3, <2>4
<1> QED
  BY <1>1, Invariance, PTL

\* A page without has_more ends at the last row stored when it was cut, since
\* list_stream_events fetches a row more than it returns.
THEOREM LastPagesAreLast == Spec => LastPageIsLast
<1>1. IInv /\ [Next]_vars =>
        [\A r \in Readers, limit \in Limits :
           (Read(r, limit) /\ ~HasMore(StreamOf[r], cursor[r], ClampLimit(limit)))
             => \A e \in stream_events[StreamOf[r]] : e.offset <= cursor'[r]]_vars
  <2> SUFFICES ASSUME IInv, NEW r \in Readers, NEW limit \in Limits, Read(r, limit),
                      ~HasMore(StreamOf[r], cursor[r], ClampLimit(limit)),
                      NEW e \in stream_events[StreamOf[r]]
               PROVE  e.offset <= cursor'[r]
    OBVIOUS
  <2> DEFINE st == StreamOf[r]
             lim == ClampLimit(limit)
             page == Page(st, cursor[r], lim)
  <2>1. st \in Streams /\ cursor \in [Readers -> Nat] /\ cursor[r] \in Nat /\ lim \in Nat
    BY ReadersAssumption DEF IInv, TypeOK, ClampLimit
  <2>2. PICK next \in {cursor[r]} \cup {f.offset : f \in page} :
          /\ NextAfterOffset(page, cursor[r], next)
          /\ cursor' = [cursor EXCEPT ![r] = next]
    BY DEF Read
  <2>3. stream_events[st] \subseteq EventRow /\ IsFiniteSet(stream_events[st])
    BY <2>1 DEF IInv, TypeOK, StreamTypeOK, FiniteRows
  <2>4. e.offset \in Nat /\ (e.offset > cursor[r] => e \in page)
    BY <2>1, <2>3, LastPageIsAll DEF EventRow
  <2>5. cursor'[r] = next
    BY <2>1, <2>2
  <2>6. page = {} => next = cursor[r]
    BY <2>2 DEF NextAfterOffset
  <2>7. page \subseteq EventRow /\ \A f \in page : f.offset > cursor[r]
    BY <2>3 DEF Page, Select
  <2> HIDE DEF page, lim, st
  <2>8. \A f \in page : f.offset <= next
    BY <2>2 DEF NextAfterOffset
  <2>9. page # {} => next > cursor[r] /\ next \in Nat
    BY <2>2, <2>7, <2>1 DEF NextAfterOffset, EventRow
  <2> QED
    BY <2>1, <2>4, <2>5, <2>6, <2>8, <2>9
<1> QED
  BY <1>1, Invariance, PTL DEF Spec, LastPageIsLast

-----------------------------------------------------------------------------
(* The store implements EventLog. *)

LiveOffsets == [st \in Streams |-> {e.offset : e \in stream_events[st]}]

\* An append is an append of the log that may forget older entries.
LEMMA AppendRefines ==
  ASSUME IInv, IInv', NEW st \in Streams, NEW at \in Times,
         NEW batch \in Seq(Payloads), batch # <<>>,
         StreamExists(st),
         AppendRows(st, at, batch),
         log' = [log EXCEPT ![st] = @ \o Entries(at, batch)]
  PROVE  EL!Extend(st, Entries(at, batch))
<1> DEFINE keep == {e.offset : e \in stream_events'[st]}
           new == NewRows(st, at, batch)
<1>1. /\ next_event_offset[st] = Len(log[st]) + 1
      /\ next_event_offset[st] \in Nat \ {0}
      /\ Len(log[st]) \in Nat
  BY DEF IInv, OffsetsCount, StreamExists, TypeOK, StreamTypeOK
<1>2. /\ stream_events' =
           [stream_events EXCEPT ![st] = Retained(stream_events[st] \cup new, at)]
      /\ next_event_offset'[st] = next_event_offset[st] + Len(batch)
  BY DEF AppendRows, IInv, TypeOK, StreamTypeOK
<1>3. stream_events'[st] \subseteq stream_events[st] \cup new
  BY <1>2, RetainedSubset DEF IInv, TypeOK, StreamTypeOK
<1>4. Len(batch) \in Nat \ {0}
  OBVIOUS
<1>5. Entries(at, batch) # <<>>
  <2>1. Len(Entries(at, batch)) = Len(batch)
    BY DEF Entries
  <2> QED
    BY <1>4, <2>1
<1>6. Len(log'[st]) = Len(log[st]) + Len(batch)
  <2>1. next_event_offset'[st] # 0
    BY <1>1, <1>2, <1>4
  <2>2. next_event_offset'[st] = Len(log'[st]) + 1
    BY <2>1 DEF IInv, OffsetsCount
  <2>3. Len(log'[st]) \in Nat
    BY DEF IInv, TypeOK
  <2> QED
    BY <1>1, <1>2, <1>4, <2>2, <2>3
<1>7. keep \subseteq LiveOffsets[st] \cup (Len(log[st]) + 1)..Len(log'[st])
  <2> SUFFICES ASSUME NEW e \in stream_events'[st], e \notin stream_events[st]
               PROVE  e.offset \in (Len(log[st]) + 1)..Len(log'[st])
    BY DEF LiveOffsets
  <2>1. e \in new
    BY <1>3
  <2>2. e \in EventRow /\ e.offset - next_event_offset[st] + 1 \in 1..Len(batch)
    BY <1>1, <2>1, NewRowsProperties
  <2> QED
    BY <1>1, <1>4, <1>6, <2>2 DEF EventRow
<1>8. Len(log'[st]) \in keep
  <2> DEFINE top == [offset |-> next_event_offset[st] + Len(batch) - 1,
                     at |-> at, payload |-> batch[Len(batch)]]
             all == stream_events[st] \cup new
  <2>1. top \in new
    <3>1. Len(batch) \in 1..Len(batch)
      BY <1>4
    <3> QED
      BY <3>1, Zenon DEF NewRows
  <2>2. all \subseteq EventRow
    BY <1>1, NewRowsProperties DEF IInv, TypeOK, StreamTypeOK
  <2>3. \A e \in all : e.offset <= top.offset
    <3>1. \A e \in stream_events[st] : e.offset <= top.offset
      BY <1>1, <1>4, RowBounds
    <3>2. \A e \in new : e.offset <= top.offset
      BY <1>1, <1>4, <2>2, NewRowsProperties DEF EventRow
    <3> QED
      BY <3>1, <3>2
  <2>4. top.at >= Cutoff(at)
    BY CutoffNotAfter
  <2>5. top.offset = Len(log'[st])
    BY <1>1, <1>4, <1>6
  <2> HIDE DEF top, all
  <2>6. top \in Retained(all, at)
    BY <2>1, <2>2, <2>3, <2>4, RetainedKeepsNewest DEF all
  <2>7. top \in stream_events'[st]
    BY <1>2, <2>6 DEF all, IInv, TypeOK, StreamTypeOK
  <2> QED
    BY <2>5, <2>7
<1>9. LiveOffsets' = [LiveOffsets EXCEPT ![st] = keep]
  BY <1>2 DEF LiveOffsets, IInv, TypeOK, StreamTypeOK
<1> HIDE DEF keep
<1> QED
  BY <1>5, <1>7, <1>8, <1>9 DEF EL!Extend, EL!Newest, LiveOffsets

\* A trim forgets entries of the log, all of them or all but newer ones.
LEMMA TrimRefines ==
  ASSUME IInv, IInv', NEW st \in Streams, NEW before_offset \in Offsets,
         Trim(st, before_offset)
  PROVE  EL!Forget(st)
<1> DEFINE keep == {e.offset : e \in stream_events'[st]}
<1>1. /\ stream_events' =
           [stream_events EXCEPT
              ![st] = {e \in stream_events[st] : e.offset >= before_offset}]
      /\ UNCHANGED log
  BY DEF Trim, TrimStreamBefore
<1>2. keep \subseteq LiveOffsets[st]
  BY <1>1 DEF LiveOffsets, IInv, TypeOK, StreamTypeOK
<1>3. keep # {} => Len(log[st]) \in keep
  <2> SUFFICES ASSUME stream_events'[st] # {} PROVE Len(log[st]) \in keep
    OBVIOUS
  <2>1. PICK e \in stream_events'[st] : e.offset = next_event_offset'[st] - 1
    BY DEF IInv, LatestRetained
  <2>2. e \in stream_events[st] /\ next_event_offset'[st] = next_event_offset[st]
    BY <1>1 DEF Trim, TrimStreamBefore, IInv, TypeOK, StreamTypeOK
  <2>3. e.offset = Len(log[st])
    BY <2>1, <2>2, RowBounds
  <2> QED
    BY <2>3
<1>4. LiveOffsets' = [LiveOffsets EXCEPT ![st] = keep]
  BY <1>1 DEF LiveOffsets, IInv, TypeOK, StreamTypeOK
<1> HIDE DEF keep
<1> QED
  BY <1>1, <1>2, <1>3, <1>4 DEF EL!Forget, EL!Newest, LiveOffsets

\* The store, with retention, trims and readers, implements an append-only
\* log in which offsets are positions and only old entries are forgotten.
THEOREM StoreImplementsEventLog == Spec => ImplementsEventLog
<1>1. Init => EL!Init
  BY DEF Init, StreamInit, EL!Init
<1>2. IInv /\ IInv' /\ [Next]_vars => [EL!Next]_(EL!vars)
  <2> SUFFICES ASSUME IInv, IInv', [Next]_vars PROVE [EL!Next]_(EL!vars)
    OBVIOUS
  <2> DEFINE appended == {Entries(at, batch) : at \in Times,
                            batch \in Batches \cup {<<p>> : p \in Payloads}}
  <2>1. ASSUME UNCHANGED <<stream_events, log>> PROVE UNCHANGED EL!vars
    BY <2>1 DEF EL!vars
  <2>2. ASSUME NEW st \in Streams, Create(st) PROVE UNCHANGED EL!vars
    BY <2>1, <2>2 DEF Create, CreateStream
  <2>3. ASSUME NEW st \in Streams, NEW at \in Times, NEW payload \in Payloads,
               AppendOne(st, at, payload)
        PROVE  EL!Next
    <3>1. <<payload>> \in Seq(Payloads) /\ <<payload>> # <<>>
      OBVIOUS
    <3>2. EL!Extend(st, Entries(at, <<payload>>))
      BY <2>3, <3>1, AppendRefines DEF AppendOne, AppendEvent
    <3>3. Entries(at, <<payload>>) \in appended
      OBVIOUS
    <3> QED
      BY <3>2, <3>3 DEF EL!Next
  <2>4. ASSUME NEW st \in Streams, NEW at \in Times, NEW batch \in Batches,
               AppendPoll(st, at, batch)
        PROVE  EL!Next
    <3>1. batch \in Seq(Payloads) /\ batch # <<>>
      BY ReadersAssumption
    <3>2. EL!Extend(st, Entries(at, batch))
      BY <2>4, <3>1, AppendRefines DEF AppendPoll
    <3>3. Entries(at, batch) \in appended
      OBVIOUS
    <3> QED
      BY <3>2, <3>3 DEF EL!Next
  <2>5. ASSUME NEW st \in Streams, NEW before_offset \in Offsets,
               Trim(st, before_offset)
        PROVE  EL!Next
    BY <2>5, TrimRefines DEF EL!Next
  <2>6. ASSUME NEW r \in Readers, NEW after_offset \in Offsets,
               Open(r, after_offset)
        PROVE  UNCHANGED EL!vars
    BY <2>1, <2>6 DEF Open, streamVars
  <2>7. ASSUME NEW r \in Readers, NEW limit \in Limits, Read(r, limit)
        PROVE  UNCHANGED EL!vars
    BY <2>1, <2>7 DEF Read, streamVars
  <2>8. ASSUME NEW r \in Readers, ReadRejected(r) PROVE UNCHANGED EL!vars
    BY <2>1, <2>8 DEF ReadRejected, streamVars
  <2>9. CASE UNCHANGED vars
    BY <2>1, <2>9 DEF vars, streamVars
  <2> QED
    BY <2>2, <2>3, <2>4, <2>5, <2>6, <2>7, <2>8, <2>9 DEF Next
<1> QED
  BY <1>1, <1>2, Invariance, PTL DEF Spec, ImplementsEventLog, EL!Spec
=============================================================================
