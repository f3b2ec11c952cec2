----------------------------- MODULE MCSession -----------------------------
(* Instances of Session for TLC: the commands a session may use. *)
EXTENDS Session

SyncCommands == AllCommands \ {"get"}
LoginAndGet == {"login", "get"}
LoginGetEcho == {"login", "get", "echo"}
=============================================================================
