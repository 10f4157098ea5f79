---------------------------- MODULE MCHeartBeat ----------------------------
(***************************************************************************)
(* Model checking HeartBeat with two sessions, so that the ping() of one    *)
(* can hold up the other, and a retry count of 1 or 2 for 12.               *)
(***************************************************************************)
EXTENDS HeartBeat

=============================================================================
