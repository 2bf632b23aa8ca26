------------------------------ MODULE Netstack ------------------------------
(***************************************************************************)
(* The life of a TCP stack over a packetio.Device (netstack/stack.go,      *)
(* endpoint.go, rx.go, tx.go) and of gVisor's fifo queueing discipline     *)
(* beneath it: New, the receive goroutines, the goroutines that transmit,  *)
(* and Close.  Other stacks may be made on the same device before and      *)
(* after; packets are not told apart.                                      *)
(***************************************************************************)
EXTENDS Integers, FiniteSets

CONSTANTS
    RxQ, TxQ,  \* the device's queues; each stands for its goroutine too
    Writers,   \* goroutines of a stack that send: timers, connections
    Closers,   \* goroutines that call Close
    QLen,      \* Config.TxQueueLen
    BatchSize  \* fifo.BatchSize

ASSUME NetstackAssumption ==
    QLen \in Nat \ {0} /\ BatchSize \in Nat \ {0} /\ TxQ # {}

VARIABLES
    inUse,    \* the device is in inUse.devs
    other,    \* another stack on the device, between its claim and its release
    up,       \* New: "no", "claimed", "nic" (created, disabled), "up", "failing", "failed"
    direct,   \* Config.DirectTx
    rx,       \* a receive loop: "off", "top" of the loop, in "poll", at "work" on a batch, "replied"
    rxStop,
    attached, \* ep.dispatcher # nil
    txClosed,
    wr,       \* a goroutine that sends a packet: where it is, and the queue
    qmu,      \* who holds each txQueue.mu, None if nobody
    queue,    \* packets in each fifo queue
    disp,     \* a fifo dispatcher: "off", "fetch", "drain", "exited"
    newPacket, closeWaker,
    qdClosed, \* discipline.closed
    smu,      \* gVisor's stack lock is held for writing
    once,     \* where the body of closeOnce.Do is: "free" before, "done" after
    close,    \* the callers of Close: "no", "called", "returned"
    fenced    \* queues whose lock the running ep.Close has taken and given back

newVars == <<inUse, other, up, direct>>
rxVars == <<rx, rxStop, attached>>
txVars == <<txClosed, wr, qmu>>
fifoVars == <<queue, disp, newPacket, closeWaker, qdClosed>>
closeVars == <<smu, once, close, fenced>>
netVars == <<newVars, rxVars, txVars, fifoVars, closeVars>>

None == "none"
OwnClose == "New"        \* New, when it closes the stack it could not bring up
AllClosers == Closers \cup {OwnClose}
Closer == "closer"       \* whichever caller of Close runs the body
Senders == Writers \cup RxQ \cup TxQ \cup {Closer}
Quiet == [at |-> "idle", q |-> None]
Smaller(a, b) == IF a <= b THEN a ELSE b

\* Each goroutine is one of these only.
ASSUME GoroutinesAssumption ==
    /\ Writers \cap RxQ = {} /\ RxQ \cap TxQ = {} /\ Closer \notin Writers \cup RxQ
    /\ None \notin Senders

NetInit ==
    /\ inUse = FALSE /\ other = FALSE
    /\ up = "no"
    /\ direct \in BOOLEAN
    /\ rx = [r \in RxQ |-> "off"]
    /\ rxStop = FALSE /\ attached = FALSE /\ txClosed = FALSE
    /\ wr = [x \in Senders |-> Quiet]
    /\ qmu = [q \in TxQ |-> None]
    /\ queue = [q \in TxQ |-> 0]
    /\ disp = [q \in TxQ |-> "off"]
    /\ newPacket = [q \in TxQ |-> FALSE] /\ closeWaker = newPacket
    /\ qdClosed = FALSE /\ smu = FALSE
    /\ once = "free"
    /\ close = [c \in AllClosers |-> "no"]
    /\ fenced = {}

-----------------------------------------------------------------------------
(* New *)

Claim ==
    /\ up = "no"
    /\ up' = IF inUse THEN "failed" ELSE "claimed"
    /\ inUse' = TRUE
    /\ UNCHANGED <<other, direct, rxVars, txVars, fifoVars, closeVars>>

\* The claim and the release of another stack on the device.
OtherStack ==
    /\ \/ ~inUse /\ inUse' = TRUE /\ other' = TRUE
       \/ other /\ inUse' = FALSE /\ other' = FALSE
    /\ UNCHANGED <<up, direct, rxVars, txVars, fifoVars, closeVars>>

\* newEndpoint or configureTCP fails: there is no goroutine to stop yet.
EarlyFailure ==
    /\ up = "claimed"
    /\ up' = "failed"
    /\ inUse' = FALSE
    /\ UNCHANGED <<other, direct, rxVars, txVars, fifoVars, closeVars>>

\* fifo.New starts a dispatcher per transmit queue; creating the NIC attaches the endpoint, which
\* starts the receive loops.  On a fresh gVisor stack CreateNICWithOptions has no error to return.
CreateNIC ==
    /\ up = "claimed"
    /\ up' = "nic"
    /\ attached' = TRUE
    /\ rxStop' = FALSE
    /\ rx' = [r \in RxQ |-> "top"]
    /\ disp' = [q \in TxQ |-> IF direct THEN "off" ELSE "fetch"]
    /\ UNCHANGED <<inUse, other, direct, txVars, queue, newPacket, closeWaker, qdClosed, closeVars>>

EnableNIC ==
    /\ up = "nic"
    /\ up' = "up"
    /\ UNCHANGED <<inUse, other, direct, rxVars, txVars, fifoVars, closeVars>>

\* Variant: released as on the early paths, before Close.
LateFailureReleasing ==
    /\ up = "nic"
    /\ up' = "failing"
    /\ inUse' = FALSE
    /\ close' = [close EXCEPT ![OwnClose] = "called"]
    /\ UNCHANGED <<other, direct, rxVars, txVars, fifoVars, smu, once, fenced>>

\* configureNIC or EnableNIC fails: New closes the stack itself.
LateFailure ==
    /\ up = "nic"
    /\ up' = "failing"
    /\ close' = [close EXCEPT ![OwnClose] = "called"]
    /\ UNCHANGED <<inUse, other, direct, rxVars, txVars, fifoVars, smu, once, fenced>>

-----------------------------------------------------------------------------
(* The receive loops *)

MoveRx(r, to) ==
    /\ rx' = [rx EXCEPT ![r] = to]
    /\ UNCHANGED <<newVars, rxStop, attached, txVars, fifoVars, closeVars>>

RxTop(r) == rx[r] = "top" /\ MoveRx(r, IF rxStop THEN "off" ELSE "poll")

\* Poll returns, with packets or without, or fails: then the loop ends.
RxPolled(r) == rx[r] = "poll" /\ \E to \in {"work", "off"} : MoveRx(r, to)

\* Delivering, learning and afterBatch need the stack's lock for reading, and may send.
RxWorked(r) ==
    /\ rx[r] \in {"work", "replied"} /\ wr[r] = Quiet /\ ~smu
    /\ MoveRx(r, "top")

-----------------------------------------------------------------------------
(* Sending *)

MoveWr(x, at, q) == wr' = [wr EXCEPT ![x] = [at |-> at, q |-> q]]

MaySend(x) ==
    \/ x \in Writers /\ up = "up"
    \/ x \in RxQ /\ up = "up" /\ rx[x] = "work" /\ ~smu
    \/ x = Closer /\ once = "abort"

\* nic.writePacket: DirectTx goes to WritePackets, else the discipline's first test of closed.
\* One reply stands for those of a batch, one reset for those of the connections.
WritePacket(x, q) ==
    /\ x \notin TxQ /\ MaySend(x) /\ wr[x] = Quiet
    /\ direct \/ ~qdClosed
    /\ MoveWr(x, IF direct THEN "lock" ELSE "push", q)
    /\ rx' = IF x \in RxQ THEN [rx EXCEPT ![x] = "replied"] ELSE rx
    /\ once' = IF x = Closer THEN "aborted" ELSE once
    /\ UNCHANGED <<newVars, rxStop, attached, txClosed, qmu, fifoVars, smu, close, fenced>>

\* What discipline.WritePacket tests under the dispatcher's lock: closed again, and room.
\* Variant: closed tested before the lock only.
AdmitsOnRoom(q) == queue[q] < QLen
Admits(q) == ~qdClosed /\ queue[q] < QLen

Push(x) ==
    LET q == wr[x].q
        ok == Admits(q)
    IN
    /\ wr[x].at = "push"
    /\ queue' = [queue EXCEPT ![q] = IF ok THEN @ + 1 ELSE @]
    /\ wr' = [wr EXCEPT ![x] = IF ok THEN [at |-> "wake", q |-> q] ELSE Quiet]
    /\ UNCHANGED <<newVars, rxVars, txClosed, qmu, disp, newPacket, closeWaker, qdClosed, closeVars>>

Wake(x) ==
    /\ wr[x].at = "wake"
    /\ newPacket' = [newPacket EXCEPT ![wr[x].q] = TRUE]
    /\ wr' = [wr EXCEPT ![x] = Quiet]
    /\ UNCHANGED <<newVars, rxVars, txClosed, qmu, queue, disp, closeWaker, qdClosed, closeVars>>

\* WritePackets takes the queue's lock, ...
Lock(x) ==
    LET q == wr[x].q IN
    /\ wr[x].at = "lock" /\ qmu[q] = None
    /\ qmu' = [qmu EXCEPT ![q] = x]
    /\ MoveWr(x, "check", q)
    /\ UNCHANGED <<newVars, rxVars, txClosed, fifoVars, closeVars>>

\* ... returns if transmit is closed, ...
Check(x) ==
    LET q == wr[x].q IN
    /\ wr[x].at = "check"
    /\ IF txClosed
       THEN wr' = [wr EXCEPT ![x] = Quiet] /\ qmu' = [qmu EXCEPT ![q] = None]
       ELSE MoveWr(x, "send", q) /\ UNCHANGED qmu
    /\ UNCHANGED <<newVars, rxVars, txClosed, fifoVars, closeVars>>

\* ... and is in the queue until the batch is sent, refused, or given up at the deadline.
Sent(x) ==
    /\ wr[x].at = "send"
    /\ qmu' = [qmu EXCEPT ![wr[x].q] = None]
    /\ wr' = [wr EXCEPT ![x] = Quiet]
    /\ UNCHANGED <<newVars, rxVars, txClosed, fifoVars, closeVars>>

-----------------------------------------------------------------------------
(* dispatchLoop *)

FetchPacket(q) ==
    /\ disp[q] = "fetch" /\ newPacket[q]
    /\ newPacket' = [newPacket EXCEPT ![q] = FALSE]
    /\ disp' = [disp EXCEPT ![q] = "drain"]
    /\ UNCHANGED <<newVars, rxVars, txVars, queue, closeWaker, qdClosed, closeVars>>

\* One batch after another goes to WritePackets until the queue is empty.
Drain(q) ==
    /\ disp[q] = "drain" /\ wr[q] = Quiet
    /\ queue' = [queue EXCEPT ![q] = @ - Smaller(@, BatchSize)]
    /\ IF queue[q] = 0
       THEN disp' = [disp EXCEPT ![q] = "fetch"] /\ UNCHANGED wr
       ELSE MoveWr(q, "lock", q) /\ UNCHANGED disp
    /\ UNCHANGED <<newVars, rxVars, txClosed, qmu, newPacket, closeWaker, qdClosed, closeVars>>

FetchClose(q) ==
    /\ disp[q] = "fetch" /\ closeWaker[q]
    /\ queue' = [queue EXCEPT ![q] = 0]
    /\ disp' = [disp EXCEPT ![q] = "exited"]
    /\ UNCHANGED <<newVars, rxVars, txVars, newPacket, closeWaker, qdClosed, closeVars>>

-----------------------------------------------------------------------------
(* Close *)

LoopsOff == \A r \in RxQ : rx[r] = "off"

CallClose(c) ==
    /\ c \in Closers /\ up = "up" /\ close[c] = "no"
    /\ close' = [close EXCEPT ![c] = "called"]
    /\ UNCHANGED <<newVars, rxVars, txVars, fifoVars, smu, once, fenced>>

\* Variant: Destroy without stopReceive.
EnterOnceDestroying ==
    /\ once = "free" /\ \E c \in AllClosers : close[c] = "called"
    /\ once' = "abort"
    /\ UNCHANGED <<newVars, rxVars, txVars, fifoVars, smu, close, fenced>>

\* closeOnce.Do: the first caller goes in, with stopReceive; all wait for the body to be done.
EnterOnce ==
    /\ once = "free" /\ \E c \in AllClosers : close[c] = "called"
    /\ rxStop' = (rxStop \/ attached)
    /\ once' = "stop"
    /\ UNCHANGED <<newVars, rx, attached, txVars, fifoVars, smu, close, fenced>>

\* stopReceive ends when the loops have.
Stopped ==
    /\ once = "stop" /\ LoopsOff
    /\ attached' = FALSE
    /\ once' = "abort"
    /\ UNCHANGED <<newVars, rx, rxStop, txVars, fifoVars, smu, close, fenced>>

\* Destroy resets the connections (MaySend).  Then Wait takes the stack's lock and removes the NIC,
\* which closes the discipline ...
CloseQDisc ==
    /\ once \in {"abort", "aborted"} /\ wr[Closer] = Quiet /\ ~smu
    /\ smu' = TRUE
    /\ qdClosed' = TRUE
    /\ closeWaker' = [q \in TxQ |-> TRUE]
    /\ once' = "detach"
    /\ UNCHANGED <<newVars, rxVars, txVars, queue, disp, newPacket, close, fenced>>

\* ... and waits for the dispatchers, then detaches the endpoint, which stops the loops if they run, ...
Detach ==
    /\ once = "detach"
    /\ \A q \in TxQ : disp[q] \in {"off", "exited"}
    /\ rxStop' = (rxStop \/ attached)
    /\ once' = "detached"
    /\ UNCHANGED <<newVars, rx, attached, txVars, fifoVars, smu, close, fenced>>

\* ... releases the lock, and closes the endpoint, which closes transmit.
CloseTx ==
    /\ once = "detached" /\ LoopsOff
    /\ attached' = FALSE
    /\ smu' = FALSE
    /\ txClosed' = TRUE
    /\ once' = "fence"
    /\ UNCHANGED <<newVars, rx, rxStop, wr, qmu, fifoVars, close, fenced>>

\* endpoint.Close takes each queue's lock in turn, to wait for a writer that was past the test.
\* Variant: no lock taken.
NotWaited(q) == TRUE
Unlocked(q) == qmu[q] = None

Fence(q) ==
    /\ once \in {"fence", "fence2"} /\ q \notin fenced /\ Unlocked(q)
    /\ fenced' = fenced \cup {q}
    /\ UNCHANGED <<newVars, rxVars, txVars, fifoVars, smu, once, close>>

\* Destroy is over; Stack.Close closes the endpoint once more.
CloseAgain ==
    /\ once = "fence" /\ fenced = TxQ
    /\ fenced' = {}
    /\ once' = "fence2"
    /\ UNCHANGED <<newVars, rxVars, txVars, fifoVars, smu, close>>

Release ==
    /\ once = "fence2" /\ fenced = TxQ
    /\ inUse' = FALSE
    /\ once' = "done"
    /\ UNCHANGED <<other, up, direct, rxVars, txVars, fifoVars, smu, close, fenced>>

CloseReturns(c) ==
    /\ close[c] = "called" /\ once = "done"
    /\ close' = [close EXCEPT ![c] = "returned"]
    /\ up' = IF c = OwnClose THEN "failed" ELSE up
    /\ UNCHANGED <<inUse, other, direct, rxVars, txVars, fifoVars, smu, once, fenced>>

-----------------------------------------------------------------------------

Making == Claim \/ EarlyFailure \/ CreateNIC \/ EnableNIC \/ LateFailure
Receiving(r) == RxTop(r) \/ RxPolled(r) \/ RxWorked(r)
Sending(x) == Push(x) \/ Wake(x) \/ Lock(x) \/ Check(x) \/ Sent(x)
Dispatching(q) == FetchPacket(q) \/ Drain(q) \/ FetchClose(q)
Closing ==
    \/ EnterOnce \/ Stopped \/ CloseQDisc \/ Detach \/ CloseTx
    \/ \E q \in TxQ : Fence(q)
    \/ CloseAgain \/ Release

NetNext ==
    \/ Making \/ OtherStack
    \/ \E r \in RxQ : Receiving(r)
    \/ \E x \in Senders, q \in TxQ : WritePacket(x, q)
    \/ \E x \in Senders : Sending(x)
    \/ \E q \in TxQ : Dispatching(q)
    \/ \E c \in Closers : CallClose(c)
    \/ Closing
    \/ \E c \in AllClosers : CloseReturns(c)

\* The steps of one goroutine, what it is asked to do apart.
Goroutine(x) ==
    \/ Sending(x)
    \/ x \in RxQ /\ Receiving(x)
    \/ x \in TxQ /\ Dispatching(x)
    \/ x = Closer /\ (Closing \/ \E c \in AllClosers : CloseReturns(c))

\* The Go scheduler runs every goroutine that can run: Poll returns within pollTimeout and a batch is
\* given up after ringWait.  Fairness is strong because a sync.Mutex that others keep taking hands
\* itself to whoever has waited long enough.  Nobody has to make a stack, send or call Close.
NetFairness == \A x \in Senders : SF_netVars(Goroutine(x))

NetSpec == NetInit /\ [][NetNext]_netVars /\ NetFairness

-----------------------------------------------------------------------------

\* A goroutine of the stack is inside a queue of the device.
Inside ==
    \/ \E r \in RxQ : rx[r] \in {"poll", "work", "replied"}
    \/ \E x \in Senders : wr[x].at = "send"

\* "when Close returns nothing is inside a queue of the device and the device may be closed"
\* (stack.go:313): not the loops, not a dispatcher, not a writer that tested txClosed in time; nor
\* after a New that failed.
NothingInsideAfterClose ==
    (up = "failed" \/ \E c \in AllClosers : close[c] = "returned") => ~Inside

\* Two stacks are never inside the queues of one device (stack.go:50): a claim is given up by the
\* stack that holds it, and only when its goroutines are out.
OneStackDrives == Inside => inUse /\ ~other

\* A dispatcher that has ended leaves its queue empty for good, so no packet buffer is held there
\* (fifo.go:104-110 against 136-147).
NothingStranded == \A q \in TxQ : disp[q] = "exited" => queue[q] = 0

\* Close always returns: it waits for the loops before it holds the lock they need (stack.go:318),
\* and for the dispatchers and the writers, none of which waits for it.
CloseEnds == \A c \in AllClosers : close[c] = "called" ~> close[c] = "returned"

=============================================================================
