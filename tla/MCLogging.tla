----------------------------- MODULE MCLogging -----------------------------
(* An instance of Logging for TLC. *)
EXTENDS Logging
=============================================================================
