----------------------------- MODULE MCDpdkTx ------------------------------
(* DpdkTx for TLC. *)
EXTENDS DpdkTx
=============================================================================
