-------------------------- MODULE MCEventCollection --------------------------
(* A small instance: an append-only source with two event keys in use and a  *)
(* session-total source, cron's process and one a user starts.               *)
EXTENDS EventCollection

CONSTANTS claude, copilot

MCRegistry == <<claude, copilot>>
=============================================================================
