---------------------------- MODULE MCOfflineQueue ----------------------------
(* Instances of OfflineQueue for TLC. *)
EXTENDS OfflineQueue, TLC

(* A reservation is made offline and then completed by a sale: both are of  *)
(* high priority.                                                           *)
ReservationWeight == <<0, 0>>
ReservationNeeds == <<{}, {1}>>
ReservationKey == <<"reservation", "sale">>

(* A student is added offline and then sold a book: the sale, of high       *)
(* priority, depends on the student, of low priority.                       *)
SaleWeight == <<2, 0>>
SaleNeeds == <<{}, {1}>>
SaleKey == <<"student", "sale">>

(* A student is edited, a receipt is archived and the student is edited     *)
(* again: the second edit supersedes the first, and none depends on another. *)
EditWeight == <<2, 0, 2>>
EditNeeds == <<{}, {}, {}>>
EditKey == <<"student", "receipt", "student">>

Symmetry == Permutations(Cycles)
=============================================================================
