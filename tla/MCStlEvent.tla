----------------------------- MODULE MCStlEvent -----------------------------
(* Instances of StlEvent for TLC: how the event is made, and who makes     *)
(* which calls.                                                            *)
EXTENDS StlEvent, Sequences, TLC

CONSTANTS t1, t2, t3

Case(manual, again, c1, c2, c3) ==
  [manual |-> manual, initial |-> FALSE, again |-> again,
   calls |-> t1 :> c1 @@ t2 :> c2 @@ t3 :> c3]

UsualCases ==
  { Case(TRUE, FALSE, {"set", "reset"}, {"wait", "waitto"}, {"wait"}),
    Case(FALSE, TRUE, {"set"}, {"set", "waitto"}, {"wait"}),
    Case(TRUE, FALSE, {"shot"}, {"wait"}, {"wait"}) }

(* They are what the proofs assume.                                        *)
ASSUME UsualAssumption == \A c \in UsualCases : UsualCase(c)

OneThread == {Case(TRUE, FALSE, {"set", "reset", "shot"}, {}, {})}
=============================================================================
