------------------------------ MODULE MCMlx5Rx ------------------------------
(* Mlx5Rx for TLC. *)
EXTENDS Mlx5Rx
=============================================================================
