----------------------------- MODULE MCStorage -----------------------------
(* An instance of Storage for TLC: the home of root is the beginning of the *)
(* other one.                                                               *)
EXTENDS Storage, TLC

CONSTANTS w1, w2
TwoWorkers == {w1, w2}
TwoNames == {"root", "bob"}
Prefixes == {<<"root", "root">>, <<"bob", "bob">>, <<"root", "bob">>}
WorkerSymmetry == Permutations(TwoWorkers)
=============================================================================
