-------------------------------- MODULE AfpRx --------------------------------
(***************************************************************************)
(* The AF_PACKET receive queue (afpacket/rxqueue.go) over its TPACKET_V3   *)
(* ring (afpacket/tpacket.go).                                             *)
(*                                                                         *)
(* The kernel fills the ring's blocks in turn and hands each over whole;   *)
(* Receive copies packets out into frames of the pool and hands a block    *)
(* back once it is empty.  A packet is abstracted to its place in the      *)
(* order of arrival, to what Receive must do with it and to whether its    *)
(* header says that it is the last of its block (tp_next_offset is zero);  *)
(* the cursor (frameOff and numPkts) to the packets left in the block.     *)
(*                                                                         *)
(* The goroutine that owns the queue receives and polls; any goroutine may *)
(* close it while the owner polls, but not while it receives.              *)
(***************************************************************************)
EXTENDS Integers, FiniteSets, Sequences, FiniteSetsExt

CONSTANTS
    NFrames,     \* the frames of this queue's pool
    BlockNr,     \* blocks of the ring
    PerBlock,    \* bound: packets of one block
    BigNeeds,    \* the frames a "big" packet needs
    Kinds,       \* kinds of packet, out of RxKinds
    HiddenKinds, \* bound: kinds of packet behind a frame that ends its block
    MaxReceive,  \* bound: the largest max a caller gives
    MaxPackets   \* bound: packets that arrive

\* It fits a frame; it needs BigNeeds of them; the kernel clipped it; its
\* header or its extent lies outside the block.
RxKinds == {"fits", "big", "clipped", "bad"}

ASSUME AfpRxAssumption ==
    /\ NFrames \in Nat /\ BlockNr \in Nat \ {0} /\ PerBlock \in Nat \ {0}
    /\ BigNeeds \in Nat \ {0, 1} /\ Kinds \subseteq RxKinds
    /\ MaxReceive \in Nat /\ MaxPackets \in Nat

VARIABLES
    chain,     \* opened WithMultiBuffer
    block,     \* [status, pkts] of each block
    filling,   \* the block the kernel fills next
    arrived,   \* how many packets have arrived
    draining,  \* the block being drained
    left,      \* the packets left in it, once it has been looked at
    partly,    \* pending: it is partly drained and must not be re-read
    rxFree,    \* how many frames are in the pool
    rxHeld,    \* how many the caller has received and not recycled
    rc,        \* the Receive in progress
    cont,      \* which slots of it continue into the next
    got,       \* history: the packets handed to the caller
    counted,   \* history: the packets counted oversize instead
    unreached, \* history: the packets behind a frame that ends their block
    poll,      \* where the owner is in Poll
    mu,        \* ringMu: who holds it
    rxClosed, mapped, mem, wrote, wakeOpen,
    closing    \* where Close is
ringVars == <<block, filling, arrived, draining, left, partly, unreached>>
readVars == <<rxFree, rxHeld, rc, cont, got, counted>>
pollVars == <<poll, mu>>
stopVars == <<rxClosed, mapped, mem, wrote, wakeOpen, closing>>
rxVars == <<chain, ringVars, readVars, pollVars, stopVars>>

Blocks == 0 .. BlockNr - 1
Slots == 1 .. MaxReceive
NotReceiving == [at |-> "idle"]

RxInit ==
    /\ chain \in BOOLEAN
    /\ block = [b \in Blocks |-> [status |-> "kernel", pkts |-> <<>>]]
    /\ filling = 0 /\ arrived = 0
    /\ draining = 0 /\ left = <<>> /\ partly = FALSE
    /\ rxFree = NFrames /\ rxHeld = 0 /\ rc = NotReceiving
    /\ cont = [i \in Slots |-> FALSE] /\ got = <<>> /\ counted = {}
    /\ unreached = {}
    /\ poll = "no" /\ mu = "free"
    /\ rxClosed = FALSE /\ mapped = TRUE /\ mem = TRUE /\ wrote = FALSE
    /\ wakeOpen = TRUE /\ closing = "no"

(***************************************************************************)
(* The kernel retires a block: it fills the next one it owns and hands it  *)
(* over.  When the reader has it, packets are dropped and counted there.   *)
(* A block whose headers are wrong may end in its middle: with a frame     *)
(* whose next offset is zero, or with a bad one, whose next offset is not  *)
(* to be believed.                                                         *)
(***************************************************************************)
Hidden(hs, i) == \E j \in 1 .. i - 1 : hs[j].last

Headers ==
    {hs \in UNION {[1 .. n -> [kind : Kinds, last : BOOLEAN]] : n \in 1 .. PerBlock} :
        \A i \in DOMAIN hs :
            /\ i = Len(hs) \/ hs[i].kind = "bad" => hs[i].last
            /\ Hidden(hs, i) => hs[i].kind \in HiddenKinds}

Retire(hs) ==
    /\ mapped /\ block[filling].status = "kernel"
    /\ arrived + Len(hs) <= MaxPackets
    /\ block' = [block EXCEPT ![filling] =
           [status |-> "user",
            pkts |-> [i \in DOMAIN hs |->
                         [id |-> arrived + i, kind |-> hs[i].kind, last |-> hs[i].last]]]]
    /\ filling' = (filling + 1) % BlockNr
    /\ arrived' = arrived + Len(hs)
    /\ unreached' = unreached \cup
           {arrived + i : i \in {j \in DOMAIN hs : Hidden(hs, j)}}
    /\ UNCHANGED <<chain, draining, left, partly, readVars, pollVars, stopVars>>

(***************************************************************************)
(* Receive.                                                                *)
(***************************************************************************)
Receive(max) ==
    /\ rc = NotReceiving /\ poll = "no" /\ ~rxClosed
    /\ rc' = [at |-> "blocks", max |-> max, out |-> <<>>, slots |-> 0]
    /\ cont' = [i \in Slots |-> FALSE]
    /\ UNCHANGED <<chain, ringVars, rxFree, rxHeld, got, counted, pollVars, stopVars>>

Out == Len(rc.out)

\* The frames beyond what was delivered go back; the rest are the caller's.
GiveBack ==
    /\ rc' = NotReceiving
    /\ rxHeld' = rxHeld + Out /\ rxFree' = rxFree + (rc.slots - Out)

\* The ring is dry, or the batch is full.
ReadEnds ==
    /\ rc.at = "blocks"
    /\ Out = rc.max \/ block[draining].status = "kernel"
    /\ GiveBack
    /\ UNCHANGED <<chain, ringVars, cont, got, counted, pollVars, stopVars>>

\* Variant: a block partly drained is looked at from its start again.
TakeBlockAfresh ==
    /\ rc.at = "blocks" /\ Out < rc.max /\ block[draining].status = "user"
    /\ left' = block[draining].pkts
    /\ partly' = FALSE /\ rc' = [rc EXCEPT !.at = "packets"]
    /\ UNCHANGED <<chain, block, filling, arrived, unreached, draining, rxFree, rxHeld, cont,
                   got, counted, pollVars, stopVars>>

TakeBlock ==
    /\ rc.at = "blocks" /\ Out < rc.max /\ block[draining].status = "user"
    /\ left' = IF partly THEN left ELSE block[draining].pkts
    /\ partly' = FALSE /\ rc' = [rc EXCEPT !.at = "packets"]
    /\ UNCHANGED <<chain, block, filling, arrived, unreached, draining, rxFree, rxHeld, cont,
                   got, counted, pollVars, stopVars>>

\* The inner loop ended with the block empty: it is the kernel's again.
ReleaseBlock ==
    /\ rc.at = "packets" /\ left = <<>>
    /\ block' = [block EXCEPT ![draining].status = "kernel"]
    /\ draining' = (draining + 1) % BlockNr
    /\ rc' = [rc EXCEPT !.at = "blocks"]
    /\ UNCHANGED <<chain, filling, arrived, unreached, left, partly, rxFree, rxHeld, cont, got,
                   counted, pollVars, stopVars>>

\* The slots dst can give a frame in all.
Gives == rc.slots + rxFree

\* dst called for every slot up to n: a frame is popped for each new one.
TakeFrames(n) ==
    LET new == Max({0, n - rc.slots})
    IN  /\ rxFree' = rxFree - new
        /\ rc' = [rc EXCEPT !.slots = @ + new]

AtPacket(kinds) ==
    /\ rc.at = "packets" /\ left # <<>> /\ Out < rc.max
    /\ Head(left).kind \in kinds

\* The batch is full, or no frame is free for even the first slot of the next
\* packet: the rest of the block waits for the next call.
NoRoom ==
    /\ rc.at = "packets" /\ left # <<>>
    /\ Out = rc.max \/ (Head(left).kind # "bad" /\ Gives = Out)
    /\ partly' = TRUE /\ GiveBack
    /\ UNCHANGED <<chain, block, filling, arrived, unreached, draining, left, cont, got,
                   counted, pollVars, stopVars>>

\* A frame that is not inside the block: it is counted, and what is behind it is
\* neither read nor counted.
BadFrame ==
    /\ AtPacket({"bad"})
    /\ counted' = counted \cup {Head(left).id}
    /\ left' = <<>>
    /\ UNCHANGED <<chain, block, filling, arrived, unreached, draining, partly, rxFree, rxHeld,
                   rc, cont, got, pollVars, stopVars>>

\* The cursor moves on: a frame that says it is the last ends the block, whatever
\* the count of packets says.
Advance == left' = IF Head(left).last THEN <<>> ELSE Tail(left)

Skip ==
    /\ counted' = counted \cup {Head(left).id} /\ Advance
    /\ UNCHANGED <<block, filling, arrived, unreached, draining, partly, rxHeld, cont, got>>

\* Clipped by the kernel, or too big for a frame without chaining: the frame
\* taken for the slot stays for the next packet.
Oversize ==
    /\ AtPacket({"clipped"} \cup IF chain THEN {} ELSE {"big"})
    /\ Gives > Out /\ TakeFrames(Out + 1) /\ Skip
    /\ UNCHANGED <<chain, pollVars, stopVars>>

Pieces(p, n) == [i \in 1 .. n |-> [id |-> p.id, piece |-> i, of |-> n]]

\* The packet of n frames is placed, and the cursor moves on.
Place(n, marks) ==
    LET new == Max({0, Out + n - rc.slots})
    IN  /\ rxFree' = rxFree - new
        /\ rc' = [rc EXCEPT !.slots = @ + new, !.out = @ \o Pieces(Head(left), n)]
        /\ cont' = [i \in Slots |-> IF i \in Out + 1 .. Out + n THEN marks[i - Out]
                                                              ELSE cont[i]]
        /\ got' = Append(got, Head(left).id) /\ Advance
        /\ UNCHANGED <<block, filling, arrived, unreached, draining, partly, rxHeld, counted>>

\* It fits one frame: lens and offs are written, cont is not.
Copy ==
    /\ AtPacket({"fits"}) /\ Gives > Out
    /\ Place(1, <<cont[Out + 1]>>)
    /\ UNCHANGED <<chain, pollVars, stopVars>>

Chained == chain /\ AtPacket({"big"}) /\ Gives > Out

Spread ==
    /\ Chained /\ Out + BigNeeds <= Min({rc.max, Gives})
    /\ Place(BigNeeds, [i \in 1 .. BigNeeds |-> i < BigNeeds])
    /\ UNCHANGED <<chain, pollVars, stopVars>>

\* Variant: a slot is marked as it is filled, whether or not the rest follows.
MarksAsFilled(n) ==
    cont' = [i \in Slots |-> (i \in Out + 1 .. n) \/ cont[i]]

\* A chain that cannot be finished marks no slot.
Marks(n) == UNCHANGED cont

\* spread ran out of slots before anything was delivered: no call of this size
\* takes the packet, so it is counted and stepped over.
BatchTooSmall ==
    /\ Chained /\ Out + BigNeeds > rc.max /\ rc.max <= Gives /\ Out = 0
    /\ TakeFrames(rc.max) /\ Marks(rc.max)
    /\ counted' = counted \cup {Head(left).id} /\ Advance
    /\ UNCHANGED <<chain, block, filling, arrived, unreached, draining, partly, rxHeld, got,
                   pollVars, stopVars>>

\* It ran out of slots with work already done, or of frames: the packet stays.
SpreadLater ==
    /\ Chained /\ Out + BigNeeds > Min({rc.max, Gives})
    /\ Gives < rc.max \/ Out > 0
    /\ Marks(Min({rc.max, Gives}))
    /\ partly' = TRUE /\ GiveBack
    /\ UNCHANGED <<chain, block, filling, arrived, unreached, draining, left, got, counted,
                   pollVars, stopVars>>

Recycle(n) ==
    /\ rc = NotReceiving /\ poll = "no" /\ n \in 1 .. rxHeld
    /\ rxHeld' = rxHeld - n /\ rxFree' = rxFree + n
    /\ UNCHANGED <<chain, ringVars, rc, cont, got, counted, pollVars, stopVars>>

(***************************************************************************)
(* Poll.  ready looks at the ring under ringMu; poll(2) then waits on the  *)
(* socket and on the eventfd `wake'.                                       *)
(***************************************************************************)
MovePoll(from, to) ==
    /\ poll = from /\ poll' = to
    /\ UNCHANGED <<chain, ringVars, readVars, stopVars>>

Poll == ~rxClosed /\ rc = NotReceiving /\ MovePoll("no", "lock") /\ UNCHANGED mu

\* Variant: ready does not take ringMu.
ReadyUnlocked == MovePoll("lock", "look") /\ UNCHANGED mu

ReadyLock == mu = "free" /\ mu' = "owner" /\ MovePoll("lock", "look")

\* The ring is gone, or the cursor says what is left; otherwise the block's
\* header is read.
ReadyGone == ~mem /\ MovePoll("look", "none") /\ mu' = "free"
ReadyPartly == mem /\ partly /\ MovePoll("look", "no") /\ mu' = "free"
ReadyLook == mem /\ ~partly /\ MovePoll("look", "header") /\ UNCHANGED mu

ReadyHeader ==
    /\ mu' = "free"
    /\ MovePoll("header", IF block[draining].status = "user" THEN "no" ELSE "none")

\* A zero timeout returns, and a wait whose deadline has passed.
PollReturns == MovePoll("none", "no") /\ UNCHANGED mu

\* poll(2) refuses a descriptor that is closed by the time it is entered.
PollEnters ==
    /\ MovePoll("none", IF wakeOpen THEN "asleep" ELSE "no")
    /\ UNCHANGED mu

\* It wakes for a block, for the eventfd, for a timeout or for nothing.  The
\* queue closed, or the eventfd readable, ends the wait; a timeout may too.
PollWakes(why) ==
    /\ CASE why = "block" -> block[draining].status = "user" \/ partly
         [] why = "wake" -> wrote
         [] OTHER -> TRUE
    /\ \/ MovePoll("asleep", "lock") /\ ~rxClosed /\ ~wrote /\ why # "timeout"
       \/ MovePoll("asleep", "no") /\ (rxClosed \/ wrote \/ why = "timeout")
    /\ UNCHANGED mu

\* EINTR, which poll(2) reports only when no descriptor is ready: it is entered
\* again without a look at the ring.
PollInterrupted ==
    /\ ~wrote /\ block[draining].status = "kernel"
    /\ MovePoll("asleep", "none") /\ UNCHANGED mu

(***************************************************************************)
(* Close, from any goroutine.                                              *)
(***************************************************************************)
MoveClose(from, to) ==
    /\ closing = from /\ closing' = to
    /\ UNCHANGED <<chain, ringVars, readVars, poll>>

\* Not while the owner is part-way through Receive, which the caller must see to.
CloseSwaps ==
    /\ rc = NotReceiving /\ rxClosed' = TRUE /\ MoveClose("no", "wake")
    /\ UNCHANGED <<mu, mapped, mem, wrote, wakeOpen>>

\* Variant: the poller is not woken.
CloseWakesNobody ==
    MoveClose("wake", "lock") /\ UNCHANGED <<mu, rxClosed, mapped, mem, wrote, wakeOpen>>

CloseWakes ==
    /\ wrote' = TRUE /\ MoveClose("wake", "lock")
    /\ UNCHANGED <<mu, rxClosed, mapped, mem, wakeOpen>>

CloseLocks ==
    /\ mu = "free" /\ mu' = "closer" /\ MoveClose("lock", "unmap")
    /\ UNCHANGED <<rxClosed, mapped, mem, wrote, wakeOpen>>

\* munmap, then mem = nil.
CloseUnmaps ==
    /\ mapped' = FALSE /\ MoveClose("unmap", "forget")
    /\ UNCHANGED <<mu, rxClosed, mem, wrote, wakeOpen>>
CloseForgets ==
    /\ mem' = FALSE /\ mu' = "free" /\ MoveClose("forget", "wakefd")
    /\ UNCHANGED <<rxClosed, mapped, wrote, wakeOpen>>
CloseWakeFd ==
    /\ wakeOpen' = FALSE /\ MoveClose("wakefd", "done")
    /\ UNCHANGED <<mu, rxClosed, mapped, mem, wrote>>

Reading ==
    \/ \E max \in 1 .. MaxReceive : Receive(max)
    \/ ReadEnds \/ TakeBlock \/ ReleaseBlock \/ NoRoom \/ BadFrame \/ Oversize
    \/ Copy \/ Spread \/ BatchTooSmall \/ SpreadLater
    \/ \E n \in 1 .. NFrames : Recycle(n)
Readying == ReadyLock \/ ReadyGone \/ ReadyPartly \/ ReadyLook \/ ReadyHeader
Polling == Poll \/ PollReturns \/ Readying \/ PollEnters \/ PollInterrupted
             \/ PollWakes("block") \/ PollWakes("wake") \/ PollWakes("timeout")
             \/ PollWakes("nothing")
ClosingRx == CloseSwaps \/ CloseWakes \/ CloseLocks \/ CloseUnmaps
               \/ CloseForgets \/ CloseWakeFd

RxNext ==
    \/ \E hs \in Headers : Retire(hs)
    \/ Reading \/ Polling \/ ClosingRx

\* The owner's goroutine and Close run on; poll(2) returns once the eventfd is
\* readable.  Nothing says a packet, a signal or a timeout ever comes.
RxFairness ==
    /\ WF_rxVars(Readying \/ PollEnters \/ PollWakes("wake"))
    /\ WF_rxVars(CloseWakes \/ CloseLocks \/ CloseUnmaps \/ CloseForgets \/ CloseWakeFd)

RxSpec == RxInit /\ [][RxNext]_rxVars /\ RxFairness

(***************************************************************************)
(* Properties.                                                             *)
(***************************************************************************)

\* The packets of the ring that have not been dealt with.
Waiting ==
    LET looked == partly \/ rc.at = "packets"
        ids(ps) == {ps[i].id : i \in DOMAIN ps}
    IN  (IF looked THEN ids(left) ELSE {})
          \cup UNION {ids(block[b].pkts) : b \in
                 {d \in Blocks : block[d].status = "user" /\ ~(looked /\ d = draining)}}

\* Every packet that arrived waits in the ring, or was handed over once and in
\* order, or was counted as skipped, but for those the headers of their block hide:
\* behind a frame outside the block, or one that says it is the last, nothing is
\* delivered or counted (advance and the two early exits of read).  So whatever a
\* batch too small, a pool run dry, a chain that did not fit or a bad frame does to
\* the cursor in the middle of a block, no packet is read twice, overwritten by the
\* kernel or passed over.  Every frame is free, with the caller or in a slot of the
\* call: one taken for a slot that produced nothing goes back.
ReceiveAccounts ==
    /\ Waiting \cup Range(got) \cup counted \cup unreached = 1 .. arrived
    /\ (Range(got) \cup counted) \cap (Waiting \cup unreached) = {}
    /\ Range(got) \cap counted = {}
    /\ \A i \in 1 .. Len(got) - 1 : got[i] < got[i + 1]
    /\ rxFree + rxHeld + (IF rc = NotReceiving THEN 0 ELSE rc.slots) = NFrames

\* A slot says the packet continues exactly when the next slot holds its next
\* piece, also after a chain that was begun in those slots and given up.
ContinuesIfWhole ==
    rc # NotReceiving =>
        \A i \in 1 .. Out : cont[i] <=> rc.out[i].piece < rc.out[i].of

\* Poll never reads the ring Close has unmapped, however they interleave.
NoUnmappedRead == poll = "header" => mapped

\* A goroutine in Poll when the queue is closed gets out of it.
PollEnds == rxClosed ~> poll = "no"
=============================================================================
