---------------------------- MODULE MCHandshake ----------------------------
(* Constant values for TLC. *)
EXTENDS Handshake

Own == [c \in Clients |-> c]
TwoNames == [c \in Clients |-> IF c = "c3" THEN "other" ELSE "name"]
=============================================================================
