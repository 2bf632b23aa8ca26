----------------------------- MODULE Mlx5TxImpl -----------------------------
(***************************************************************************)
(* The mlx5 send ring keeps the contract of the TxQueue interface.         *)
(***************************************************************************)
EXTENDS Mlx5Tx

\* The NIC may still read what it has not executed, published or not; what it
\* has executed waits in the slot ring for a completion to account for it.
Contract == INSTANCE TxContract WITH
    held <- out, nic <- NicWillRead,
    finished <- InFlightFrames \ NicWillRead, dead <- failed

\* Every step of the ring and of its NIC is a step the interface allows, or
\* none of its concern: a frame passes from the caller to the NIC when its
\* entry is written, is finished when the entry is executed or flushed, and
\* comes back only then and only through Complete; a ring that has failed
\* accepts nothing again.
KeepsTxContract == Contract!Spec
=============================================================================
