------------------------------ MODULE MCDaemon ------------------------------
(***************************************************************************)
(* Daemon for TLC: servers and connections are model values.  Liveness is  *)
(* checked with the safety properties, so neither are treated as           *)
(* symmetric.                                                              *)
(***************************************************************************)
EXTENDS Daemon
=============================================================================
