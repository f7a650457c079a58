---------------------------- MODULE MCSupervisor ----------------------------
(***************************************************************************)
(* Supervisor for TLC: connections are model values.  Liveness is checked  *)
(* with the safety properties, so connections are not treated as           *)
(* symmetric.                                                              *)
(***************************************************************************)
EXTENDS Supervisor
=============================================================================
