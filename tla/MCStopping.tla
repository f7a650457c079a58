----------------------------- MODULE MCStopping -----------------------------
(***************************************************************************)
(* Stopping for TLC.  In MCStopping.cfg command_timeout exceeds the margin *)
(* by two ticks, so that the watchdog can fire in the grace period and in  *)
(* every other stage.  In MCStoppingExample.cfg a tick is five seconds and *)
(* the timeouts are those of config.example.toml; MCStoppingForeign.cfg is *)
(* the smallest instance with a startup timeout and a delivery.            *)
(***************************************************************************)
EXTENDS Stopping
=============================================================================
