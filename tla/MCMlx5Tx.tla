------------------------------ MODULE MCMlx5Tx ------------------------------
(* Mlx5Tx, with the contract it implements, for TLC. *)
EXTENDS Mlx5TxImpl, TLC

Symmetry == Permutations(Frames)

\* Bounds: one frame is sent in ordinary entries only, where more frames than
\* blocks are needed to fill the ring past its end.  All packets have one length
\* there, or none: with nothing inlined, ordinary entries are all of one size.
Spare == CHOOSE f \in Frames : TRUE
Short == CHOOSE l \in Lens : l # 0 /\ \A m \in Lens \ {0} : l <= m

Bounded(d) == IF mode = "single" THEN d.len \in {0, Short} ELSE d.frame # Spare

MCNext == Next /\ \A i \in DOMAIN todo' : Bounded(todo'[i])

MCFairSpec == Init /\ [][MCNext]_vars /\ Fairness
=============================================================================
