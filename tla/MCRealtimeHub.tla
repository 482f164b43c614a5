---------------------------- MODULE MCRealtimeHub ----------------------------
(***************************************************************************)
(* A small instance of RealtimeHub for TLC.                                *)
(***************************************************************************)
EXTENDS RealtimeHub, TLC

CONSTANTS c1, c2, u1, u2

\* Two users with a connection each.
MCUserOf == c1 :> u1 @@ c2 :> u2
=============================================================================
