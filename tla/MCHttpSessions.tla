---------------------------- MODULE MCHttpSessions ----------------------------
(***************************************************************************)
(* The HTTP sessions of an endpoint under two jobs on the same or on       *)
(* different resources, and under a job and a tool call.                   *)
(***************************************************************************)
EXTENDS HttpSessions, TLC
CONSTANTS j1, j2, j3, k1, ua, ub

MCUriOf == j1 :> ua @@ j2 :> ub @@ j3 :> ua
=============================================================================
