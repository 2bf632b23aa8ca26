------------------------------ MODULE NetProofs -----------------------------
(***************************************************************************)
(* Theorems about the life of a netstack Stack (Netstack) and about its    *)
(* neighbor table (NetNeigh), for any number of queues, goroutines,        *)
(* callers of Close, addresses and table sizes.                            *)
(***************************************************************************)
EXTENDS Netstack, NetNeigh, TLAPS

-----------------------------------------------------------------------------
(* The inductive invariant of the stack's life.                            *)

NetTypes ==
    /\ up \in {"no", "claimed", "nic", "up", "failing", "failed"}
    /\ rx \in [RxQ -> {"off", "top", "poll", "work", "replied"}]
    /\ wr \in [Senders -> {Quiet} \cup [at : {"push", "wake", "lock", "check", "send"}, q : TxQ]]
    /\ qmu \in [TxQ -> Senders \cup {None}]
    /\ queue \in [TxQ -> Nat]
    /\ disp \in [TxQ -> {"off", "fetch", "drain", "exited"}]
    /\ closeWaker \in [TxQ -> BOOLEAN]
    /\ once \in {"free", "stop", "abort", "aborted", "detach", "detached",
                 "fence", "fence2", "done"}
    /\ close \in [AllClosers -> {"no", "called", "returned"}]
    /\ fenced \subseteq TxQ

Uncalled == \A c \in AllClosers : close[c] = "no"
AtRest ==
    /\ LoopsOff /\ Uncalled
    /\ \A x \in Senders : wr[x] = Quiet
    /\ \A q \in TxQ : disp[q] = "off"

\* How far New has got against how far Close has got: before the NIC is created
\* nothing runs and nobody has called Close; the body of Close runs only for a
\* stack that came up or is being given up, and a stack given up has either
\* never started or been closed to the end.
LifeInv ==
    /\ once = "free" /\ up \in {"no", "claimed", "failed"} => AtRest
    /\ up = "nic" => Uncalled
    /\ once # "free" => up \in {"up", "failing", "failed"}
    /\ up = "failed" => once \in {"free", "done"}
    /\ \A c \in AllClosers : close[c] = "returned" => once = "done"

\* What each stage of the body of Close has put behind it: the loops, then new
\* senders, then the senders that were past the test of txClosed.
TxInv ==
    /\ once \notin {"free", "stop"} => LoopsOff
    /\ once \in {"fence", "fence2", "done"} => txClosed
    /\ once \notin {"fence", "fence2", "done"} => fenced = {}
    /\ \A x \in Senders : wr[x].at \in {"check", "send"} => qmu[wr[x].q] = x
    /\ once = "fence" => \A x \in Senders : wr[x].at = "send" => wr[x].q \notin fenced
    /\ once \in {"fence2", "done"} => \A x \in Senders : wr[x].at # "send"

\* The device belongs to the stack from its claim to the end of Close.
ClaimInv ==
    /\ other => inUse
    /\ up \in {"claimed", "nic", "up", "failing"} /\ once # "done" => inUse /\ ~other

\* A dispatcher leaves only once the discipline admits nothing any more.
FifoInv ==
    \A q \in TxQ : /\ closeWaker[q] => qdClosed
                   /\ disp[q] = "exited" => qdClosed /\ queue[q] = 0

NetInv == NetTypes /\ LifeInv /\ TxInv /\ ClaimInv /\ FifoInv

LEMMA NetInitInv == NetInit => NetInv
<1> SUFFICES ASSUME NetInit PROVE NetInv
  OBVIOUS
<1>1. NetTypes
  <2>1. 0 \in Nat
    OBVIOUS
  <2> QED BY Zenon, <2>1 DEF NetInit, NetTypes
<1>2. LifeInv
  BY Zenon DEF NetInit, LifeInv, AtRest, Uncalled, LoopsOff
<1>3. TxInv
  BY Zenon DEF NetInit, TxInv, Quiet
<1>4. ClaimInv /\ FifoInv
  BY Zenon DEF NetInit, ClaimInv, FifoInv
<1> QED BY Zenon, <1>1, <1>2, <1>3, <1>4 DEF NetInv

-----------------------------------------------------------------------------
(* Types. *)

LEMMA MakingTyped ==
    ASSUME NetTypes, Making \/ OtherStack
    PROVE  NetTypes'
BY DEF Making, OtherStack, Claim, EarlyFailure, CreateNIC, EnableNIC, LateFailure,
             NetTypes, AllClosers, rxVars, txVars, fifoVars, closeVars

LEMMA ReceivingTyped ==
    ASSUME NetTypes, NEW r \in RxQ, Receiving(r)
    PROVE  NetTypes'
BY DEF Receiving, RxTop, RxPolled, RxWorked, MoveRx,
             NetTypes, newVars, txVars, fifoVars, closeVars

\* Where a sender may be.
LEMMA Places ==
    ASSUME NetTypes, NEW x \in Senders
    PROVE  /\ wr[x] = Quiet \/ wr[x].at \in {"push", "wake", "lock", "check", "send"}
           /\ wr[x].at = "idle" \/ wr[x].q \in TxQ
BY DEF NetTypes, Quiet

LEMMA MoveWrTyped ==
    ASSUME NetTypes, NEW x \in Senders, NEW q \in TxQ,
           NEW at \in {"push", "wake", "lock", "check", "send"},
           wr' = [wr EXCEPT ![x] = Quiet] \/ MoveWr(x, at, q)
    PROVE  wr' \in [Senders -> {Quiet} \cup [at : {"push", "wake", "lock", "check", "send"},
                                              q : TxQ]]
BY DEF NetTypes, MoveWr

LEMMA SendingTyped ==
    ASSUME NetTypes, NEW x \in Senders, Sending(x)
    PROVE  NetTypes'
<1>1. CASE Push(x)
  <2>1. wr[x].q \in TxQ
    BY <1>1, Places DEF Push
  <2> QED BY <1>1, <2>1 DEF Push, NetTypes, newVars, rxVars, closeVars
<1>2. CASE Wake(x)
  BY <1>2 DEF Wake, NetTypes, newVars, rxVars, closeVars
<1>3. CASE Lock(x) \/ Check(x) \/ Sent(x)
  <2>1. wr[x].q \in TxQ
    BY <1>3, Places DEF Lock, Check, Sent
  <2> QED BY <1>3, <2>1
          DEF Lock, Check, Sent, MoveWr, NetTypes, newVars, rxVars, fifoVars, closeVars
<1> QED BY <1>1, <1>2, <1>3 DEF Sending

LEMMA WritingTyped ==
    ASSUME NetTypes, NEW x \in Senders, NEW q \in TxQ, WritePacket(x, q)
    PROVE  NetTypes'
BY DEF WritePacket, MoveWr, NetTypes, newVars, fifoVars

LEMMA DispatchingTyped ==
    ASSUME NetTypes, NEW q \in TxQ, Dispatching(q)
    PROVE  NetTypes'
<1>1. CASE Drain(q)
  <2>1. q \in Senders
    BY DEF Senders
  <2>2. queue[q] - Smaller(queue[q], BatchSize) \in Nat
    BY NetstackAssumption DEF NetTypes, Smaller
  <2> QED BY <1>1, <2>1, <2>2 DEF Drain, MoveWr, NetTypes, newVars, rxVars, closeVars
<1>2. CASE FetchPacket(q) \/ FetchClose(q)
  BY <1>2 DEF FetchPacket, FetchClose, NetTypes, newVars, rxVars, txVars, closeVars
<1> QED BY <1>1, <1>2 DEF Dispatching

LEMMA ClosingTyped ==
    ASSUME NetTypes, Closing
    PROVE  NetTypes'
<1>1. CASE EnterOnce \/ Stopped \/ CloseQDisc
  BY Zenon, <1>1 DEF EnterOnce, Stopped, CloseQDisc, NetTypes, newVars, rxVars, txVars, fifoVars
<1>2. CASE Detach \/ CloseTx \/ CloseAgain \/ Release
  BY <1>2 DEF Detach, CloseTx, CloseAgain, Release, NetTypes, newVars, rxVars, txVars, fifoVars
<1>3. CASE \E q \in TxQ : Fence(q)
  BY <1>3 DEF Fence, NetTypes, newVars, rxVars, txVars, fifoVars
<1> QED BY <1>1, <1>2, <1>3 DEF Closing

LEMMA CallsTyped ==
    ASSUME NetTypes,
           \/ \E c \in Closers : CallClose(c)
           \/ \E c \in AllClosers : CloseReturns(c)
           \/ UNCHANGED netVars
    PROVE  NetTypes'
<1>1. CASE \E c \in Closers : CallClose(c)
  BY <1>1 DEF CallClose, NetTypes, AllClosers, newVars, rxVars, txVars, fifoVars
<1>2. CASE \E c \in AllClosers : CloseReturns(c)
  BY <1>2 DEF CloseReturns, NetTypes, rxVars, txVars, fifoVars
<1>3. CASE UNCHANGED netVars
  BY <1>3 DEF netVars, NetTypes, newVars, rxVars, txVars, fifoVars, closeVars
<1> QED BY <1>1, <1>2, <1>3

LEMMA NetTyped ==
    ASSUME NetTypes, [NetNext]_netVars
    PROVE  NetTypes'
BY MakingTyped, ReceivingTyped, SendingTyped, WritingTyped, DispatchingTyped, ClosingTyped,
   CallsTyped
   DEF NetNext

-----------------------------------------------------------------------------
(* The fifo queues. *)

LEMMA FifoKept ==
    ASSUME NetTypes, FifoInv, [NetNext]_netVars
    PROVE  FifoInv'
<1>1. CASE Making
  BY <1>1 DEF Making, Claim, EarlyFailure, CreateNIC, EnableNIC, LateFailure, FifoInv, fifoVars
<1>2. CASE \E x \in Senders : Push(x)
  <2> PICK x \in Senders : Push(x)
    BY <1>2
  <2>1. wr[x].q \in TxQ
    BY Places DEF Push
  <2> QED BY <2>1 DEF Push, Admits, FifoInv, NetTypes
<1>3. CASE \E x \in Senders : Wake(x)
  BY <1>3 DEF Wake, FifoInv
<1>4. CASE \E q \in TxQ : Dispatching(q)
  <2> PICK q \in TxQ : Dispatching(q)
    BY <1>4
  <2>1. CASE Drain(q)
    BY <2>1 DEF Drain, FifoInv, NetTypes
  <2>2. CASE FetchPacket(q) \/ FetchClose(q)
    BY <2>2 DEF FetchPacket, FetchClose, FifoInv, NetTypes
  <2> QED BY <2>1, <2>2 DEF Dispatching
<1>5. CASE CloseQDisc
  BY <1>5 DEF CloseQDisc, FifoInv
<1>6. CASE UNCHANGED fifoVars
  BY <1>6 DEF FifoInv, fifoVars
<1>7. CASE \E r \in RxQ : Receiving(r)
  BY <1>6, <1>7 DEF Receiving, RxTop, RxPolled, RxWorked, MoveRx
<1>8. CASE \E x \in Senders : Lock(x) \/ Check(x) \/ Sent(x) \/ \E q \in TxQ : WritePacket(x, q)
  BY <1>6, <1>8 DEF Lock, Check, Sent, WritePacket
<1>9. CASE \/ EnterOnce \/ Stopped \/ Detach \/ CloseTx \/ CloseAgain \/ Release \/ OtherStack
           \/ \E q \in TxQ : Fence(q)
  BY <1>6, <1>9 DEF EnterOnce, Stopped, Detach, CloseTx, CloseAgain, Release, OtherStack, Fence
<1>10. CASE \/ \E c \in Closers : CallClose(c)
            \/ \E c \in AllClosers : CloseReturns(c)
            \/ UNCHANGED netVars
  BY <1>6, <1>10 DEF CallClose, CloseReturns, netVars
<1> QED BY <1>1, <1>2, <1>3, <1>4, <1>5, <1>7, <1>8, <1>9, <1>10 DEF NetNext, Sending, Closing

-----------------------------------------------------------------------------
(* The claim on the device. *)

LEMMA ClaimKept ==
    ASSUME NetTypes, LifeInv, ClaimInv, [NetNext]_netVars
    PROVE  ClaimInv'
<1>1. CASE Making
  BY <1>1 DEF Making, Claim, EarlyFailure, CreateNIC, EnableNIC, LateFailure,
              ClaimInv, LifeInv, closeVars
<1>2. CASE OtherStack
  BY <1>2 DEF OtherStack, ClaimInv, closeVars
<1>3. CASE Release
  BY <1>3 DEF Release, ClaimInv, LifeInv
<1>4. CASE \E c \in AllClosers : CloseReturns(c)
  BY <1>4 DEF CloseReturns, ClaimInv
<1>5. CASE UNCHANGED newVars /\ (once = "done" => once' = "done")
  BY <1>5 DEF newVars, ClaimInv
<1>6. CASE \E r \in RxQ : Receiving(r)
  BY <1>5, <1>6 DEF Receiving, RxTop, RxPolled, RxWorked, MoveRx, closeVars
<1>7. CASE \E x \in Senders : Sending(x)
  BY Zenon, <1>5, <1>7 DEF Sending, Push, Wake, Lock, Check, Sent, closeVars
<1>8. CASE \E x \in Senders, q \in TxQ : WritePacket(x, q)
  BY <1>5, <1>8, GoroutinesAssumption DEF WritePacket, MaySend
<1>9. CASE \E q \in TxQ : Dispatching(q)
  BY Zenon, <1>5, <1>9 DEF Dispatching, FetchPacket, Drain, FetchClose, closeVars
<1>10. CASE \/ EnterOnce \/ Stopped \/ CloseQDisc \/ Detach \/ CloseTx \/ CloseAgain
            \/ \E q \in TxQ : Fence(q)
  BY <1>5, <1>10 DEF EnterOnce, Stopped, CloseQDisc, Detach, CloseTx, CloseAgain, Fence
<1>11. CASE (\E c \in Closers : CallClose(c)) \/ UNCHANGED netVars
  BY <1>5, <1>11 DEF CallClose, netVars, closeVars
<1> QED BY <1>1, <1>2, <1>3, <1>4, <1>6, <1>7, <1>8, <1>9, <1>10, <1>11 DEF NetNext, Closing

-----------------------------------------------------------------------------
(* New against Close. *)

LEMMA LifeMaking ==
    ASSUME NetTypes, LifeInv, Making
    PROVE  LifeInv'
<1>1. CASE Claim \/ EarlyFailure
  BY <1>1 DEF Claim, EarlyFailure, LifeInv, AtRest, Uncalled, LoopsOff,
              rxVars, txVars, fifoVars, closeVars
<1>2. CASE CreateNIC
  BY Zenon, <1>2 DEF CreateNIC, LifeInv, AtRest, Uncalled, closeVars
<1>3. CASE EnableNIC
  BY <1>3 DEF EnableNIC, LifeInv, Uncalled, closeVars
<1>4. CASE LateFailure
  BY <1>4 DEF LateFailure, LifeInv, Uncalled, NetTypes, AllClosers
<1> QED BY <1>1, <1>2, <1>3, <1>4 DEF Making

\* A step that starts nothing, neither in New nor in Close, breaks nothing.
LEMMA LifeFrame ==
    ASSUME LifeInv, AtRest => AtRest', up' = up, close' = close,
           once' = once
    PROVE  LifeInv'
BY DEF LifeInv, Uncalled, AtRest

LEMMA LifeRunning ==
    ASSUME NetTypes, LifeInv,
           \/ OtherStack \/ UNCHANGED netVars
           \/ \E r \in RxQ : Receiving(r)
           \/ \E x \in Senders : Sending(x)
           \/ \E x \in Senders, q \in TxQ : WritePacket(x, q)
           \/ \E q \in TxQ : Dispatching(q)
    PROVE  LifeInv'
<1>1. CASE OtherStack \/ UNCHANGED netVars
  BY Zenon, <1>1, LifeFrame DEF OtherStack, netVars, newVars, rxVars, txVars, fifoVars, closeVars,
                         AtRest, LoopsOff, Uncalled
<1>2. CASE \E r \in RxQ : Receiving(r)
  <2>1. ~AtRest
    BY Zenon, <1>2 DEF Receiving, RxTop, RxPolled, RxWorked, AtRest, LoopsOff
  <2>2. up' = up /\ close' = close /\ once' = once
    BY Zenon, <1>2 DEF Receiving, RxTop, RxPolled, RxWorked, MoveRx, newVars, closeVars
  <2> QED BY <2>1, <2>2, LifeFrame
<1>3. CASE \E x \in Senders : Sending(x)
  <2> PICK x \in Senders : Sending(x)
    BY <1>3
  <2>1. wr[x].at # "idle"
    BY Zenon DEF Sending, Push, Wake, Lock, Check, Sent
  <2>3. ~AtRest
    BY <2>1 DEF AtRest, Quiet
  <2>2. up' = up /\ close' = close /\ once' = once
    BY Zenon DEF Sending, Push, Wake, Lock, Check, Sent, newVars, closeVars
  <2> QED BY <2>2, <2>3, LifeFrame
<1>4. CASE \E x \in Senders, q \in TxQ : WritePacket(x, q)
  <2> PICK x \in Senders, q \in TxQ : WritePacket(x, q)
    BY <1>4
  <2>1. up' = up /\ close' = close /\ MaySend(x)
        /\ once' = IF x = Closer THEN "aborted" ELSE once
    BY DEF WritePacket, newVars
  <2>2. CASE x # Closer
    <3>1. up = "up" /\ once' = once
      BY <2>1, <2>2 DEF MaySend
    <3> QED BY <2>1, <3>1 DEF LifeInv, Uncalled
  <2>3. CASE x = Closer
    <3>1. once = "abort"
      BY <2>1, <2>3, GoroutinesAssumption DEF MaySend
    <3> QED BY <2>1, <2>3, <3>1 DEF LifeInv, Uncalled
  <2> QED BY <2>2, <2>3
<1>5. CASE \E q \in TxQ : Dispatching(q)
  <2> PICK q \in TxQ : Dispatching(q)
    BY <1>5
  <2>1. ~AtRest
    BY Zenon DEF Dispatching, Drain, FetchPacket, FetchClose, AtRest
  <2>2. up' = up /\ close' = close /\ once' = once
    BY Zenon DEF Dispatching, Drain, FetchPacket, FetchClose, newVars, closeVars
  <2> QED BY <2>1, <2>2, LifeFrame
<1> QED BY <1>1, <1>2, <1>3, <1>4, <1>5

LEMMA LifeClosing ==
    ASSUME NetTypes, LifeInv,
           \/ Closing \/ \E c \in Closers : CallClose(c)
           \/ \E c \in AllClosers : CloseReturns(c)
    PROVE  LifeInv'
<1>1. CASE EnterOnce
  <2>1. up \in {"up", "failing"} /\ once = "free"
    BY <1>1 DEF EnterOnce, LifeInv, AtRest, Uncalled, NetTypes
  <2>2. up' = up /\ close' = close /\ once' = "stop"
    BY <1>1 DEF EnterOnce, newVars
  <2> QED BY <2>1, <2>2 DEF LifeInv
<1>2. CASE \/ Stopped \/ CloseQDisc \/ Detach \/ CloseTx \/ CloseAgain \/ Release
           \/ \E q \in TxQ : Fence(q)
  <2>1. once \notin {"free", "done"} /\ once' # "free" /\ up' = up /\ close' = close
    BY Zenon, <1>2 DEF Stopped, CloseQDisc, Detach, CloseTx, CloseAgain, Release, Fence, newVars
  <2> QED BY <2>1 DEF LifeInv
<1>3. CASE \E c \in Closers : CallClose(c)
  BY <1>3 DEF CallClose, LifeInv, NetTypes, AllClosers, newVars
<1>4. CASE \E c \in AllClosers : CloseReturns(c)
  BY <1>4 DEF CloseReturns, LifeInv, Uncalled, NetTypes
<1> QED BY <1>1, <1>2, <1>3, <1>4 DEF Closing

LEMMA LifeKept ==
    ASSUME NetTypes, LifeInv, [NetNext]_netVars
    PROVE  LifeInv'
BY LifeMaking, LifeRunning, LifeClosing DEF NetNext

-----------------------------------------------------------------------------
(* The stages of Close. *)

\* A step that leaves Close where it is keeps the stages' facts if it starts no
\* loop, holds the locks it should, and sends nothing behind the fence.
LEMMA TxFrame ==
    ASSUME TxInv, once' = once, fenced' = fenced, txClosed' = txClosed, LoopsOff => LoopsOff',
           \A x \in Senders : wr'[x].at \in {"check", "send"} => qmu'[wr'[x].q] = x,
           \A x \in Senders : wr'[x].at = "send" => wr'[x] = wr[x] \/ ~txClosed
    PROVE  TxInv'
BY DEF TxInv

LEMMA TxMaking ==
    ASSUME NetTypes, LifeInv, TxInv, Making \/ OtherStack \/ UNCHANGED netVars
    PROVE  TxInv'
<1>1. wr' = wr /\ qmu' = qmu /\ txClosed' = txClosed /\ once' = once /\ fenced' = fenced
  BY Zenon DEF Making, Claim, EarlyFailure, CreateNIC, EnableNIC, LateFailure, OtherStack, netVars,
         txVars, closeVars
<1>2. CASE CreateNIC
  <2>1. once = "free"
    BY <1>2 DEF CreateNIC, LifeInv
  <2> QED BY Zenon, <1>1, <2>1 DEF TxInv
<1>3. CASE ~CreateNIC
  <2>1. rx' = rx
    BY <1>3 DEF Making, Claim, EarlyFailure, EnableNIC, LateFailure, OtherStack, netVars, rxVars
  <2> QED BY Zenon, <1>1, <2>1 DEF TxInv, LoopsOff
<1> QED BY <1>2, <1>3

LEMMA TxReceiving ==
    ASSUME NetTypes, TxInv, NEW r \in RxQ, Receiving(r)
    PROVE  TxInv'
<1>1. /\ wr' = wr /\ qmu' = qmu /\ txClosed' = txClosed /\ once' = once /\ fenced' = fenced
      /\ ~LoopsOff
  BY Zenon DEF Receiving, RxTop, RxPolled, RxWorked, MoveRx, LoopsOff, txVars, closeVars
<1> QED BY Zenon, <1>1 DEF TxInv

LEMMA TxWriting ==
    ASSUME NetTypes, TxInv, NEW x \in Senders, NEW q \in TxQ, WritePacket(x, q)
    PROVE  TxInv'
<1>1. /\ wr' = [wr EXCEPT ![x] = [at |-> IF direct THEN "lock" ELSE "push", q |-> q]]
      /\ qmu' = qmu /\ txClosed' = txClosed /\ fenced' = fenced
  BY DEF WritePacket, MoveWr
<1>2. LoopsOff => LoopsOff'
  BY GoroutinesAssumption DEF WritePacket, MaySend, LoopsOff
<1>3. once' = once \/ (once = "abort" /\ once' = "aborted")
  BY GoroutinesAssumption DEF WritePacket, MaySend
<1>4. \A y \in Senders : wr'[y].at \in {"check", "send"} => wr'[y] = wr[y]
  BY <1>1 DEF NetTypes
<1> QED BY <1>1, <1>2, <1>3, <1>4 DEF TxInv

LEMMA TxSending ==
    ASSUME NetTypes, TxInv, NEW x \in Senders, Sending(x)
    PROVE  TxInv'
<1>1. once' = once /\ fenced' = fenced /\ txClosed' = txClosed /\ rx' = rx
  BY Zenon DEF Sending, Push, Wake, Lock, Check, Sent, closeVars, rxVars
<1>2. LoopsOff => LoopsOff'
  BY <1>1 DEF LoopsOff
<1>3. CASE Push(x) \/ Wake(x)
  <2>1. qmu' = qmu /\ \A y \in Senders : wr'[y].at \in {"check", "send"} => wr'[y] = wr[y]
    BY <1>3 DEF Push, Wake, NetTypes, Quiet
  <2> QED BY Zenon, <1>1, <1>2, <2>1, TxFrame DEF TxInv
<1>4. CASE Lock(x)
  <2>1. wr[x].q \in TxQ
    BY Zenon, <1>4, Places DEF Lock
  <2>2. /\ wr' = [wr EXCEPT ![x] = [at |-> "check", q |-> wr[x].q]]
        /\ qmu' = [qmu EXCEPT ![wr[x].q] = x] /\ qmu[wr[x].q] = None
    BY <1>4 DEF Lock, MoveWr
  <2>3. \A y \in Senders : wr'[y].at \in {"check", "send"} => qmu'[wr'[y].q] = y
    BY <2>1, <2>2, GoroutinesAssumption, Places DEF TxInv, NetTypes
  <2>4. \A y \in Senders : wr'[y].at = "send" => wr'[y] = wr[y]
    BY <2>2 DEF NetTypes
  <2> QED BY Zenon, <1>1, <1>2, <2>3, <2>4, TxFrame
<1>5. CASE Check(x) /\ ~txClosed
  <2>1. /\ wr' = [wr EXCEPT ![x] = [at |-> "send", q |-> wr[x].q]] /\ qmu' = qmu
        /\ wr[x].at = "check"
    BY <1>5 DEF Check, MoveWr
  <2>2. \A y \in Senders : wr'[y].at \in {"check", "send"} => qmu'[wr'[y].q] = y
    BY <2>1 DEF TxInv, NetTypes
  <2> QED BY <1>1, <1>2, <1>5, <2>2, TxFrame
<1>6. CASE (Check(x) /\ txClosed) \/ Sent(x)
  <2>1. /\ wr' = [wr EXCEPT ![x] = Quiet] /\ qmu' = [qmu EXCEPT ![wr[x].q] = None]
        /\ wr[x].at \in {"check", "send"}
    BY <1>6 DEF Check, Sent
  <2>2. wr[x].q \in TxQ /\ qmu[wr[x].q] = x
    BY <2>1, Places DEF TxInv, Quiet
  <2>3. \A y \in Senders : wr'[y].at \in {"check", "send"} => y # x /\ wr'[y] = wr[y]
    BY <2>1 DEF NetTypes, Quiet
  <2>4. \A y \in Senders : wr'[y].at \in {"check", "send"} => qmu'[wr'[y].q] = y
    BY <2>1, <2>2, <2>3, Places DEF TxInv, NetTypes, Quiet
  <2> QED BY <1>1, <1>2, <2>3, <2>4, TxFrame
<1> QED BY <1>3, <1>4, <1>5, <1>6 DEF Sending

LEMMA TxDispatching ==
    ASSUME NetTypes, TxInv, NEW q \in TxQ, Dispatching(q)
    PROVE  TxInv'
<1>1. /\ once' = once /\ fenced' = fenced /\ txClosed' = txClosed /\ rx' = rx /\ qmu' = qmu
      /\ wr' = wr \/ wr' = [wr EXCEPT ![q] = [at |-> "lock", q |-> q]]
  BY Zenon DEF Dispatching, Drain, FetchPacket, FetchClose, MoveWr, closeVars, rxVars, txVars
<1>2. \A y \in Senders : wr'[y].at \in {"check", "send"} => wr'[y] = wr[y]
  BY <1>1 DEF NetTypes
<1> QED BY Zenon, <1>1, <1>2, TxFrame DEF TxInv, LoopsOff

LEMMA TxClosing ==
    ASSUME NetTypes, TxInv,
           \/ Closing \/ \E c \in Closers : CallClose(c)
           \/ \E c \in AllClosers : CloseReturns(c)
    PROVE  TxInv'
<1>1. CASE EnterOnce \/ Stopped \/ CloseQDisc \/ Detach
  <2>1. /\ wr' = wr /\ qmu' = qmu /\ txClosed' = txClosed /\ rx' = rx /\ fenced' = fenced
    BY <1>1 DEF EnterOnce, Stopped, CloseQDisc, Detach, txVars, rxVars
  <2>2. /\ once \in {"free", "stop", "abort", "aborted", "detach"}
        /\ once' \in {"stop", "abort", "detach", "detached"}
        /\ once' # "stop" => LoopsOff
    BY Zenon, <1>1 DEF EnterOnce, Stopped, CloseQDisc, Detach, TxInv
  <2> QED BY Zenon, <2>1, <2>2 DEF TxInv, LoopsOff
<1>2. CASE CloseTx
  <2>1. /\ wr' = wr /\ qmu' = qmu /\ txClosed' /\ rx' = rx /\ fenced' = fenced
        /\ once = "detached" /\ once' = "fence"
    BY <1>2 DEF CloseTx
  <2> QED BY Zenon, <2>1 DEF TxInv, LoopsOff
<1>3. CASE \E q \in TxQ : Fence(q)
  <2> PICK q \in TxQ : Fence(q)
    BY <1>3
  <2>1. /\ wr' = wr /\ qmu' = qmu /\ txClosed' = txClosed /\ rx' = rx /\ once' = once
        /\ fenced' = fenced \cup {q} /\ qmu[q] = None /\ once \in {"fence", "fence2"}
    BY DEF Fence, Unlocked, txVars, rxVars
  <2>2. \A x \in Senders : wr[x].at = "send" => wr[x].q # q
    BY Zenon, <2>1, GoroutinesAssumption DEF TxInv
  <2> QED BY Zenon, <2>1, <2>2 DEF TxInv, LoopsOff
<1>4. CASE CloseAgain
  <2>1. \A x \in Senders : wr[x].at # "send"
    BY Zenon, <1>4, Places DEF CloseAgain, TxInv
  <2> QED BY Zenon, <1>4, <2>1 DEF CloseAgain, TxInv, LoopsOff, txVars, rxVars
<1>5. CASE Release
  BY Zenon, <1>5 DEF Release, TxInv, LoopsOff, txVars, rxVars
<1>6. CASE \/ \E c \in Closers : CallClose(c)
           \/ \E c \in AllClosers : CloseReturns(c)
  BY Zenon, <1>6 DEF CallClose, CloseReturns, TxInv, LoopsOff, txVars, rxVars
<1> QED BY <1>1, <1>2, <1>3, <1>4, <1>5, <1>6 DEF Closing

LEMMA TxKept ==
    ASSUME NetTypes, LifeInv, TxInv, [NetNext]_netVars
    PROVE  TxInv'
BY TxMaking, TxReceiving, TxWriting, TxSending, TxDispatching, TxClosing DEF NetNext

-----------------------------------------------------------------------------
(* The theorems about the stack's life. *)

LEMMA NetInductive == NetSpec => []NetInv
<1>1. NetInv /\ [NetNext]_netVars => NetInv'
  BY NetTyped, LifeKept, TxKept, ClaimKept, FifoKept DEF NetInv
<1> QED BY <1>1, NetInitInv, PTL DEF NetSpec

\* Once the body of Close is done, or before anything was started, no goroutine
\* of the stack is inside a queue.
LEMMA OutsideWhenDone ==
    ASSUME NetInv, once = "done" \/ (once = "free" /\ up \in {"no", "claimed", "failed"})
    PROVE  ~Inside
<1>1. CASE once = "done"
  BY <1>1 DEF NetInv, TxInv, LoopsOff, Inside
<1>2. CASE once = "free" /\ up \in {"no", "claimed", "failed"}
  BY <1>2 DEF NetInv, LifeInv, AtRest, LoopsOff, Inside, Quiet
<1> QED BY <1>1, <1>2

\* "when Close returns nothing is inside a queue of the device": with any number
\* of queues, senders and callers of Close, and after a New that failed at any
\* of its steps.
THEOREM CloseLeavesNothingInside == NetSpec => []NothingInsideAfterClose
<1>1. NetInv => NothingInsideAfterClose
  <2> SUFFICES ASSUME NetInv, up = "failed" \/ \E c \in AllClosers : close[c] = "returned"
               PROVE  ~Inside
    BY DEF NothingInsideAfterClose
  <2>1. once = "done" \/ (once = "free" /\ up = "failed")
    BY DEF NetInv, LifeInv
  <2> QED BY <2>1, OutsideWhenDone
<1> QED BY <1>1, NetInductive, PTL

\* While a goroutine of the stack is inside a queue the claim on the device is
\* the stack's own: inUse is set and no other stack has it.
THEOREM OneStackAtATime == NetSpec => []OneStackDrives
<1>1. NetInv => OneStackDrives
  <2> SUFFICES ASSUME NetInv, Inside PROVE inUse /\ ~other
    BY DEF OneStackDrives
  <2>1. once # "done" /\ ~(once = "free" /\ up \in {"no", "claimed", "failed"})
    BY OutsideWhenDone
  <2>2. up \in {"nic", "up", "failing"}
    BY <2>1 DEF NetInv, NetTypes, LifeInv
  <2> QED BY <2>1, <2>2 DEF NetInv, ClaimInv
<1> QED BY <1>1, NetInductive, PTL

\* A dispatcher that has ended leaves no packet in its queue and none comes
\* later, however its last look at the queue falls between a writer's tests.
THEOREM QueuesEndEmpty == NetSpec => []NothingStranded
<1>1. NetInv => NothingStranded
  BY Zenon DEF NetInv, FifoInv, NothingStranded
<1> QED BY <1>1, NetInductive, PTL

-----------------------------------------------------------------------------
(* The neighbor table.  What a goroutine is about to write is a pin only if    *)
(* the goroutine is in AddNeighbor.                                            *)

Neighbor == [mac : MACs, pinned : BOOLEAN]
WriteCall == [at : {"write"}, ip : IPs, nb : Neighbor]
TellCall == [at : {"tell"}, ip : IPs, nb : Neighbor, evicted : SUBSET IPs]

NeighTypes ==
    /\ DOMAIN table \subseteq IPs
    /\ call \in [Loops \cup Pinners -> {Idle} \cup WriteCall \cup TellCall]

PinsAreAsked ==
    \A g \in Loops \cup Pinners : call[g].at = "write" /\ call[g].nb.pinned => g \in Pinners

LEMMA CallShapes ==
    ASSUME NeighTypes, NEW g \in Loops \cup Pinners
    PROVE  /\ call[g].at = "write" => call[g] \in WriteCall
           /\ call[g].at = "tell" => call[g] \in TellCall
BY DEF NeighTypes, WriteCall, TellCall, Idle

\* A goroutine's move from one place to another.
LEMMA CallMoves ==
    ASSUME NeighTypes, NEW g \in Loops \cup Pinners, NEW c \in {Idle} \cup WriteCall \cup TellCall,
           call' = [call EXCEPT ![g] = c]
    PROVE  /\ call' \in [Loops \cup Pinners -> {Idle} \cup WriteCall \cup TellCall]
           /\ call'[g] = c
           /\ \A h \in Loops \cup Pinners : h # g => call'[h] = call[h]
BY DEF NeighTypes

\* What a write does to the table and to the call.
Writes(g, gone) ==
    /\ gone \in Evictable(call[g].ip)
    /\ ~Refused(call[g].ip, call[g].nb)
    /\ table' = Put(Drop(table, gone), call[g].ip, call[g].nb)
    /\ call' = [call EXCEPT ![g] =
            [at |-> "tell", ip |-> call[g].ip, nb |-> call[g].nb, evicted |-> gone]]

LEMMA WriteCases ==
    ASSUME NEW g, Write(g)
    PROVE  /\ call[g].at = "write"
           /\ \/ table' = table /\ call' = [call EXCEPT ![g] = Idle]
              \/ \E gone : Writes(g, gone)
BY DEF Write, Writes

LEMMA WriteTyped ==
    ASSUME NeighTypes, NEW g \in Loops \cup Pinners, call[g].at = "write", NEW gone, Writes(g, gone)
    PROVE  NeighTypes' /\ call'[g].at = "tell" /\ \A h \in Loops \cup Pinners : h # g => call'[h] = call[h]
<1> DEFINE c == [at |-> "tell", ip |-> call[g].ip, nb |-> call[g].nb, evicted |-> gone]
<1>1. call[g].ip \in IPs /\ call[g].nb \in Neighbor
  BY CallShapes DEF WriteCall
<1>2. gone \subseteq IPs
  BY DEF Writes, Evictable, NeighTypes
<1>3. c \in TellCall
  BY <1>1, <1>2 DEF TellCall
<1>4. DOMAIN table' \subseteq IPs
  BY <1>1 DEF Writes, Put, Drop, Restrict, NeighTypes
<1>5. call' = [call EXCEPT ![g] = c]
  BY DEF Writes
<1> HIDE DEF c
<1>6. /\ call' \in [Loops \cup Pinners -> {Idle} \cup WriteCall \cup TellCall]
      /\ call'[g] = c
      /\ \A h \in Loops \cup Pinners : h # g => call'[h] = call[h]
  BY Zenon, <1>3, <1>5, CallMoves
<1> QED BY <1>4, <1>6 DEF NeighTypes, c

\* A step that leaves the table and moves one goroutine somewhere else than
\* into a write.
LEMMA TellsKeep ==
    ASSUME NeighTypes, PinsAreAsked, NEW g \in Loops \cup Pinners, NEW c \in {Idle} \cup TellCall,
           call' = [call EXCEPT ![g] = c], table' = table
    PROVE  NeighTypes' /\ PinsAreAsked'
<1>1. c.at # "write"
  BY DEF Idle, TellCall
<1> QED BY <1>1, CallMoves DEF NeighTypes, PinsAreAsked

LEMMA NeighKept ==
    ASSUME NeighTypes, PinsAreAsked, [NeighNext]_neighVars
    PROVE  NeighTypes' /\ PinsAreAsked'
<1>1. ASSUME NEW g \in Loops, NEW ip \in IPs, NEW mac \in MACs, Learn(g, ip, mac)
      PROVE  NeighTypes' /\ PinsAreAsked'
  <2> DEFINE c == [at |-> "write", ip |-> ip, nb |-> [mac |-> mac, pinned |-> FALSE]]
  <2>1. c \in WriteCall /\ ~c.nb.pinned
    BY DEF WriteCall, Neighbor
  <2>2. call' = [call EXCEPT ![g] = c] /\ table' = table
    BY <1>1 DEF Learn
  <2> HIDE DEF c
  <2> QED BY <2>1, <2>2, CallMoves DEF NeighTypes, PinsAreAsked
<1>2. ASSUME NEW g \in Pinners, NEW ip \in IPs, NEW mac \in MACs, Pin(g, ip, mac)
      PROVE  NeighTypes' /\ PinsAreAsked'
  <2> DEFINE c == [at |-> "write", ip |-> ip, nb |-> [mac |-> mac, pinned |-> TRUE]]
  <2>1. c \in WriteCall
    BY DEF WriteCall, Neighbor
  <2>2. call' = [call EXCEPT ![g] = c] /\ table' = table
    BY <1>2 DEF Pin
  <2> HIDE DEF c
  <2> QED BY <2>1, <2>2, CallMoves DEF NeighTypes, PinsAreAsked
<1>3. ASSUME NEW g \in Loops \cup Pinners, Write(g)
      PROVE  NeighTypes' /\ PinsAreAsked'
  <2>1. CASE table' = table /\ call' = [call EXCEPT ![g] = Idle]
    BY Zenon, <2>1, TellsKeep
  <2>2. ASSUME NEW gone, Writes(g, gone) PROVE NeighTypes' /\ PinsAreAsked'
    <3>1. /\ NeighTypes' /\ call'[g].at = "tell"
          /\ \A h \in Loops \cup Pinners : h # g => call'[h] = call[h]
      BY <1>3, <2>2, WriteCases, WriteTyped
    <3> QED BY <3>1 DEF PinsAreAsked
  <2> QED BY <1>3, <2>1, <2>2, WriteCases
<1>4. ASSUME NEW g \in Loops \cup Pinners, RemoveNeighbor(g)
      PROVE  NeighTypes' /\ PinsAreAsked'
  <2> DEFINE c == [call[g] EXCEPT !.evicted = {}]
  <2>1. c \in TellCall
    BY <1>4, CallShapes DEF RemoveNeighbor, TellCall
  <2>2. call' = [call EXCEPT ![g] = c] /\ table' = table
    BY <1>4 DEF RemoveNeighbor
  <2> HIDE DEF c
  <2> QED BY Zenon, <2>1, <2>2, TellsKeep
<1>5. ASSUME NEW g \in Loops \cup Pinners, AddStaticNeighbor(g)
      PROVE  NeighTypes' /\ PinsAreAsked'
  BY Zenon, <1>5, TellsKeep DEF AddStaticNeighbor
<1>6. CASE IntervalPasses \/ UNCHANGED neighVars
  BY <1>6 DEF IntervalPasses, neighVars, NeighTypes, PinsAreAsked
<1> QED BY <1>1, <1>2, <1>3, <1>4, <1>5, <1>6 DEF NeighNext

\* What a write drops was not pinned.
LEMMA EvictedWasNotPinned ==
    ASSUME NEW a, NEW gone \in Evictable(a), NEW ip \in DOMAIN table, table[ip].pinned
    PROVE  ip \notin gone
BY DEF Evictable

\* The entry of ip is as it was, or a caller of AddNeighbor pinned it anew.
StaysPinned(ip) ==
    /\ ip \in DOMAIN table'
    /\ \/ table'[ip] = table[ip]
       \/ table'[ip].pinned /\ \E g \in Pinners : call[g].at = "write" /\ call[g].ip = ip /\ call'[g].at = "tell"

LEMMA WriteKeepsPins ==
    ASSUME NeighTypes, PinsAreAsked, NEW g \in Loops \cup Pinners, call[g].at = "write",
           NEW gone, Writes(g, gone), NEW ip \in DOMAIN table, table[ip].pinned
    PROVE  StaysPinned(ip)
<1>1. ip \in DOMAIN Drop(table, gone) /\ Drop(table, gone)[ip] = table[ip]
  BY EvictedWasNotPinned DEF Drop, Restrict, Writes
<1>2. CASE ip # call[g].ip
  BY <1>1, <1>2 DEF Writes, Put, StaysPinned
<1>3. CASE ip = call[g].ip
  <2>1. call[g].nb.pinned
    BY <1>3 DEF Writes, Refused, Known
  <2>2. g \in Pinners
    BY <2>1 DEF PinsAreAsked
  <2>3. ip \in DOMAIN table' /\ table'[ip] = call[g].nb
    BY <1>3 DEF Writes, Put
  <2>4. call'[g].at = "tell"
    BY WriteTyped
  <2> QED BY <1>3, <2>1, <2>2, <2>3, <2>4 DEF StaysPinned
<1> QED BY <1>2, <1>3

\* A pinned entry stays, with its MAC, unless a caller of AddNeighbor pins the
\* address again: with any number of receive goroutines and callers, a table of
\* any size, and whatever was tested before the table's lock was taken.
THEOREM PinsAreKept == NeighSpec => PinKept
<1>1. NeighInit => NeighTypes /\ PinsAreAsked
  BY DEF NeighInit, NeighTypes, PinsAreAsked, Idle
<1>2. NeighTypes /\ PinsAreAsked /\ [NeighNext]_neighVars => NeighTypes' /\ PinsAreAsked'
  BY NeighKept
<1>3. ASSUME NeighTypes, PinsAreAsked, [NeighNext]_neighVars,
             NEW ip \in DOMAIN table, table[ip].pinned
      PROVE  StaysPinned(ip)
  <2>1. CASE table' = table
    BY <2>1, <1>3 DEF StaysPinned
  <2>2. CASE \E g \in Loops \cup Pinners : Write(g)
    BY <1>3, <2>1, <2>2, WriteCases, WriteKeepsPins
  <2> QED BY Zenon, <1>3, <2>1, <2>2 DEF NeighNext, Learn, Pin, RemoveNeighbor, AddStaticNeighbor,
                                         IntervalPasses, neighVars
<1>4. NeighTypes /\ PinsAreAsked /\ [NeighNext]_neighVars =>
        [\A ip \in DOMAIN table : table[ip].pinned =>
            /\ ip \in DOMAIN table'
            /\ \/ table'[ip] = table[ip]
               \/ table'[ip].pinned /\ \E g \in Pinners : call[g].at = "write" /\ call[g].ip = ip /\ call'[g].at = "tell"
        ]_neighVars
  BY <1>3 DEF StaysPinned
<1> QED BY <1>1, <1>2, <1>4, PTL DEF NeighSpec, PinKept

=============================================================================
