----------------------------- MODULE TxContract -----------------------------
(***************************************************************************)
(* What the TxQueue interface (queue.go) promises of the frames that pass  *)
(* through any transmit queue.  A frame is with the caller (or the queue's *)
(* pool), or accepted: the NIC may still read it, or has finished with it. *)
(***************************************************************************)
CONSTANT Frames

VARIABLES
    held,      \* with the caller or the pool
    nic,       \* accepted, and the NIC may still read it
    finished,  \* accepted, transmitted or failed, and not yet handed back
    dead       \* the queue is out of service

vars == <<held, nic, finished, dead>>

Init == held = Frames /\ nic = {} /\ finished = {} /\ dead = FALSE

\* Transmit accepts some frames: "Frames in the accepted prefix now belong to
\* the NIC"; nothing revives a queue that has failed.
Transmit ==
    /\ ~dead
    /\ \E S \in SUBSET held :
          held' = held \ S /\ nic' = nic \cup S
    /\ UNCHANGED <<finished, dead>>

\* The NIC is through with some of them, in success or failure.
Finish ==
    /\ \E S \in SUBSET nic :
          nic' = nic \ S /\ finished' = finished \cup S
    /\ UNCHANGED <<held, dead>>

\* Complete and Reclaim hand back "frames whose transmission has finished", and
\* nothing else does; it is there that a failure may be found.
HandBack ==
    /\ \E S \in SUBSET finished :
          finished' = finished \ S /\ held' = held \cup S
    /\ dead' \in {dead, TRUE} /\ UNCHANGED nic

\* "Err reports that the queue is out of service".
Fail == dead' = TRUE /\ UNCHANGED <<held, nic, finished>>

Next == Transmit \/ Finish \/ HandBack \/ Fail

Spec == Init /\ [][Next]_vars
=============================================================================
