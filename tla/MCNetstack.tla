----------------------------- MODULE MCNetstack -----------------------------
(***************************************************************************)
(* Netstack and NetNeigh for TLC.  They share no variable: a behaviour is  *)
(* one of the stack's life or one of the neighbor table, as `part' says.   *)
(***************************************************************************)
EXTENDS Netstack, NetNeigh

VARIABLE part
vars == <<part, netVars, neighVars>>

MCInit ==
    /\ part \in {"life", "neighbors"}
    /\ NetInit /\ (part = "neighbors" => ~direct)
    /\ NeighInit

MCNext ==
    /\ UNCHANGED part
    /\ \/ part = "life" /\ NetNext /\ UNCHANGED neighVars
       \/ part = "neighbors" /\ NeighNext /\ UNCHANGED netVars

MCSpec == MCInit /\ [][MCNext]_vars /\ NetFairness
=============================================================================
