------------------------------ MODULE EventLog ------------------------------
(***************************************************************************)
(* What the event store promises its readers: every stream is an           *)
(* append-only log whose n-th entry has offset n for ever; entries may be  *)
(* forgotten but never change, and as long as the store remembers any      *)
(* entry it remembers the newest.                                          *)
(***************************************************************************)
EXTENDS Integers, Sequences

CONSTANTS
  Streams,
  Batches       \* the sequences of entries that one step may append

VARIABLES
  log,          \* stream -> everything ever appended
  live          \* stream -> offsets that can still be read

vars == <<log, live>>

Newest(entries) == Len(entries)

Init ==
  /\ log = [st \in Streams |-> <<>>]
  /\ live = [st \in Streams |-> {}]

\* New entries get the offsets after the newest one.  Old ones may be
\* forgotten in the same step, and so may new ones, but not the newest.
Extend(st, batch) ==
  /\ batch # <<>>
  /\ log' = [log EXCEPT ![st] = @ \o batch]
  /\ \E keep \in SUBSET (live[st] \cup (Len(log[st]) + 1)..Len(log'[st])) :
       /\ Newest(log'[st]) \in keep
       /\ live' = [live EXCEPT ![st] = keep]

Forget(st) ==
  /\ \E keep \in SUBSET live[st] :
       /\ keep # {} => Newest(log[st]) \in keep
       /\ live' = [live EXCEPT ![st] = keep]
  /\ UNCHANGED log

Next ==
  \E st \in Streams :
    \/ \E batch \in Batches : Extend(st, batch)
    \/ Forget(st)

Spec == Init /\ [][Next]_vars
=============================================================================
