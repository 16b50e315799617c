-------------------------- MODULE MCManagedSources --------------------------
(* Constants for model-checking ManagedSources. *)
EXTENDS ManagedSources

CONSTANTS s1, c1, c2, poll1, poll2, push

OneSource == {s1}
OneStream == {<<"stream", s1>>}
StreamIds == [s \in {s1} |-> <<"stream", s>>]
OneClient == {c1}
TwoClients == {c1, c2}
TwoPollSpecs == {poll1, poll2}
OnePollSpec == {poll1}
PollAndPush == {poll1, push}
MCRuns == 1..MaxRuns
MCCheckpoints == 0..MaxItems
MCPayloads == [run : MCRuns, item : 1..MaxItems]
OneTime == {1}
=============================================================================
