--------------------------- MODULE MCMlx5TxQueue ----------------------------
(* Mlx5TxQueue for TLC. *)
EXTENDS Mlx5TxQueue
=============================================================================
