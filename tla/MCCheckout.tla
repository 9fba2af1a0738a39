------------------------------ MODULE MCCheckout ------------------------------
(* Values for the runs of Checkout. *)
EXTENDS Checkout, TLC

=============================================================================
