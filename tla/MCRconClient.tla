---------------------------- MODULE MCRconClient ----------------------------
(***************************************************************************)
(* RconClient for TLC.                                                     *)
(***************************************************************************)
EXTENDS RconClient
=============================================================================
