---------------------------- MODULE MCCliSupervisor ----------------------------
(* Small instances of CliSupervisor for TLC: d is the daemon, e the desktop. *)
EXTENDS CliSupervisor

CONSTANTS d, e
=============================================================================
