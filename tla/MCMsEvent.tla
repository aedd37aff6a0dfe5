----------------------------- MODULE MCMsEvent ------------------------------
(* Instances of MsEvent for TLC.                                           *)
EXTENDS MsEvent, TLC

CONSTANTS f1, f2, d1, d2

OneEvent == {<<f1, d1>>}
TwoEvents == {<<f1, d1>>, <<f2, d2>>}

WorkerSymmetry == Permutations(Workers)
=============================================================================
