----------------------------- MODULE MCReplayLock -----------------------------
(* Two tabs; the first has two cycles that may overlap. *)
EXTENDS ReplayLock

CONSTANTS ta, tb, a1, a2, b1

TwoTabs == {ta, tb}
ThreeCycles == {a1, a2, b1}
TabOfThree == [c \in ThreeCycles |-> IF c = b1 THEN tb ELSE ta]
=============================================================================
