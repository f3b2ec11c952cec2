----------------------------- MODULE MCSqlPipe -----------------------------
(* Instances of SqlPipe for TLC. *)
EXTENDS SqlPipe

CONSTANTS w1, w2
TwoWorkers == {w1, w2}
BeyondLimit == 1 .. Limit + 1
=============================================================================
