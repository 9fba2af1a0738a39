---------------------------- MODULE MCStudentWallet ----------------------------
(* Values for the run of StudentWallet: a sale is paid by the wallet, or leaves *)
(* a debt, or changes nothing; an overpayment is to the wallet what a return is. *)
EXTENDS StudentWallet, TLC

SaleChanges == {-1, 0}

=============================================================================
