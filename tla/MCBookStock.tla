------------------------------ MODULE MCBookStock -----------------------------
(* Two students; the first has two reservations. *)
EXTENDS BookStock, TLC

CONSTANTS r1, r2, r3, ana, bea, w1, w2

Two == {r1, r2}
Three == {r1, r2, r3}
SameStudent == [r \in Two |-> ana]
TwoStudents == [r \in Three |-> IF r = r3 THEN bea ELSE ana]
Pair == {w1, w2}
Edits == {[total |-> 3, reserved |-> 0, arriving |-> FALSE],
          [total |-> 1, reserved |-> 1, arriving |-> TRUE]}
Symmetry == Permutations(Pair) \cup Permutations(Two)
=============================================================================
