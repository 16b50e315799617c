--------------------------- MODULE MCStreamReaders ---------------------------
(* Constants for model-checking StreamReaders. *)
EXTENDS StreamReaders

CONSTANTS s1, r1, p1, p2

MCStreams == {s1}
MCReaders == {r1}
MCStreamOf == [r \in MCReaders |-> s1]
MCPayloads == {p1, p2}
MCBatches == {<<p1, p2>>}
\* With RetentionMaxAgeSecs = 1: a reading below the age, where the cutoff
\* saturates, and two between which an event expires.
MCTimes == {1, 3}
MCOffsets == {0, 2, 4}
MCLimits == {0, 1, 3}
=============================================================================
