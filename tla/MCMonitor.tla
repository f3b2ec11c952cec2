----------------------------- MODULE MCMonitor -----------------------------
(* An instance of Monitor for TLC: the master and a responder of a worker. *)
EXTENDS Monitor, TLC

CONSTANTS master, responder
TwoThreads == {master, responder}
Owner == master :> 0 @@ responder :> 1
Ids == master :> <<0, 0>> @@ responder :> <<1, 1>>
OkAndDown == {2, -1}
=============================================================================
