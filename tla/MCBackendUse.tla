---------------------------- MODULE MCBackendUse ----------------------------
(***************************************************************************)
(* BackendUse for TLC: both kinds of player inspection, which Init         *)
(* chooses. Liveness is checked with the safety properties, so connections *)
(* are not treated as symmetric.                                           *)
(***************************************************************************)
EXTENDS BackendUse
=============================================================================
