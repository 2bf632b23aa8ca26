------------------------------- MODULE MCDpdk -------------------------------
(***************************************************************************)
(* The DPDK backend for TLC.  A queue lives within one open device, and a  *)
(* receive and a transmit queue share no frame list, ring or lock: a       *)
(* behaviour is one of a receive queue, one of a transmit queue, or one of *)
(* the goroutines that open and close the device.                          *)
(***************************************************************************)
EXTENDS DpdkRx, DpdkTx, DpdkDevice

VARIABLE part
mcVars == <<part, vars, txVars, devVars>>

\* What a part leaves alone stays at one of its initial states.
MCInit ==
    /\ part \in {"receive", "transmit", "device"}
    /\ Init /\ NewTx /\ DevInit
    /\ txClosed = (part # "transmit")
    /\ txClosed => habit = "sender" /\ thresh = 1
    /\ part = "device" \/ coexists

\* The goroutines are alike: it is the first that calls Open first.
FirstUser == CHOOSE u \in Users : TRUE
FirstOpens == opens = 0 => \A u \in Users \ {FirstUser} : dev'[u] = dev[u]

MCNext ==
    /\ UNCHANGED part
    /\ \/ part = "receive" /\ Next /\ UNCHANGED <<txVars, devVars>>
       \/ part = "transmit" /\ TxNext /\ UNCHANGED <<vars, devVars>>
       \/ part = "device" /\ DevNext /\ FirstOpens /\ UNCHANGED <<vars, txVars>>

MCSpec == MCInit /\ [][MCNext]_mcVars /\ Fairness /\ TxFairness
=============================================================================
