-------------------------------- MODULE MCLedger --------------------------------
(* Instances of Ledger for TLC. *)
EXTENDS Ledger

\* Each day is a month of its own.
OneDayMonths == [d \in Days |-> d]
=============================================================================
