------------------------------ MODULE MCLedger ------------------------------
(* Small instances of Ledger.                                              *)
EXTENDS Ledger

MCAmounts == {-2, -1, 2}
=============================================================================
