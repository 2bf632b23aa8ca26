-------------------------------- MODULE MCAfp --------------------------------
(***************************************************************************)
(* The AF_PACKET queues and the frame pool for TLC.  A device's queues     *)
(* share no state but the region, and each draws on a pool of its own: a   *)
(* behaviour is one of a transmit queue, of a receive queue or of a pool.  *)
(***************************************************************************)
EXTENDS AfpTx, AfpRx, FramePool

VARIABLE part
mcVars == <<part, txVars, rxVars, vars>>

MCInit ==
    /\ part \in {"transmit", "receive", "pool"}
    /\ TxInit /\ RxInit /\ Init
    /\ part = "transmit" \/ ~gso
    /\ part = "receive" \/ ~chain
    /\ part = "pool" \/ ~(checked \/ trusted)

MCNext ==
    /\ UNCHANGED part
    /\ \/ part = "transmit" /\ TxNext /\ UNCHANGED <<rxVars, vars>>
       \/ part = "receive" /\ RxNext /\ UNCHANGED <<txVars, vars>>
       \/ part = "pool" /\ Next /\ UNCHANGED <<txVars, rxVars>>

MCSpec == MCInit /\ [][MCNext]_mcVars /\ RxFairness
=============================================================================
