------------------------------- MODULE Mlx5Rx -------------------------------
(***************************************************************************)
(* The mlx5 receive queue: mlx5/internal/ring/rx.go and the calls of       *)
(* mlx5/rxqueue.go that drive it, with the NIC as mocknic models it.       *)
(*                                                                         *)
(* One goroutine calls Fill, Receive, Recycle and Poll, and any other may  *)
(* close the queue while it polls.  The NIC fills posted                   *)
(* buffers in order and reports each; it may also misbehave: report a      *)
(* failure or a length that does not fit, lose or repeat a completion, or  *)
(* write one the code does not decode.  Each iteration of Receive's loop   *)
(* is a step, so the NIC runs between them.                                *)
(***************************************************************************)
EXTENDS Integers, Sequences, FiniteSets

CONSTANTS
    Frames,      \* frames of this queue's pool
    Entries,     \* receive queue entries
    CQEntries,   \* completion queue entries
    W,           \* the NIC's buffer index is taken modulo W (2^16)
    Faults,      \* how the NIC may misbehave
    MaxBatch,    \* bound: frames asked for in one call
    MaxPi,       \* bound: buffers posted over the whole behaviour
    MaxFaults    \* bound: misbehaviours over the whole behaviour

FaultKinds == {"opcode", "format", "lost", "repeated"}

ASSUME SizesAssumption ==
    /\ Entries \in Nat /\ Entries >= 2 /\ CQEntries \in Nat /\ Entries <= CQEntries
    /\ W \in Nat /\ Entries < W /\ W % Entries = 0
ASSUME BoundsAssumption ==
    /\ IsFiniteSet(Frames) /\ Faults \subseteq FaultKinds
    /\ MaxBatch \in Nat /\ MaxPi \in Nat /\ MaxFaults \in Nat

VARIABLES
    pool,       \* free list of the queue's pool, popped from its end
    app,        \* frames the application holds
    pi, ci,     \* buffers posted, buffers reported on
    posted,     \* frame in each slot: r.posted and the address in the entry
    doorbell,   \* pi as published, modulo W
    dead,       \* r.dead is set
    pc,         \* where the owner is: "idle", "receive", or in Poll
    closing,    \* where close is: "no", "lock", "unmap" or "done"
    max, got,   \* Receive: its argument, packets taken
    read,       \*   completions read and not yet released
    taken, failed,  \* frames gathered: to return, and r.failed
    nicCi,      \* NIC: buffers filled
    cq,         \* completions written and not consumed
    faults      \* misbehaviours so far

ringVars == <<pi, ci, posted, doorbell>>
callVars == <<max, got, read, taken, failed>>
nicVars  == <<nicCi, faults>>
vars == <<pool, app, ringVars, dead, pc, closing, callVars, nicVars, cq>>

Least(a, b) == IF a <= b THEN a ELSE b
Elems(s) == {s[i] : i \in 1 .. Len(s)}
NoFrame == "none"

FreeSlots   == Entries - (pi - ci)
Outstanding == pi - ci
closed      == closing # "no"
mapped      == closing # "done"

Init ==
    /\ pool = CHOOSE s \in [1 .. Cardinality(Frames) -> Frames] : Elems(s) = Frames
    /\ app = {} /\ pi = 0 /\ ci = 0 /\ doorbell = 0
    /\ posted = [s \in 0 .. Entries - 1 |-> NoFrame]
    /\ dead = FALSE /\ pc = "idle" /\ closing = "no"
    /\ max = 0 /\ got = 0 /\ read = 0 /\ taken = {} /\ failed = <<>>
    /\ nicCi = 0 /\ cq = <<>> /\ faults = 0

-----------------------------------------------------------------------------
(* Fill and Recycle. *)

\* The buffer count as published.
PublishedCount(n) == (pi + n) % W

\* RxQueue.Fill: frames off the pool, into the free slots, published with one
\* store.  The NIC sees none of it before that.
Fill(want) ==
    LET n     == Least(want, Least(FreeSlots, Len(pool)))
        start == Len(pool) - n
    IN  /\ pc = "idle" /\ ~closed /\ n > 0
        /\ pi + n <= MaxPi
        /\ posted' = [s \in 0 .. Entries - 1 |->
                         IF (s - pi) % Entries < n THEN pool[start + 1 + ((s - pi) % Entries)]
                         ELSE posted[s]]
        /\ pool' = SubSeq(pool, 1, start)
        /\ pi' = pi + n
        /\ doorbell' = PublishedCount(n)
        /\ UNCHANGED <<closing, app, ci, dead, pc, callVars, nicVars, cq>>

Recycle(f) ==
    /\ pc = "idle" /\ f \in app
    /\ app' = app \ {f}
    /\ pool' = IF Len(pool) < Cardinality(Frames) THEN Append(pool, f) ELSE pool
    /\ UNCHANGED <<closing, ringVars, dead, pc, callVars, nicVars, cq>>

-----------------------------------------------------------------------------
(* Receive. *)

ReceiveCall ==
    /\ pc = "idle" /\ ~dead /\ ~closed
    /\ \E m \in 1 .. MaxBatch : max' = m
    /\ pc' = "receive"
    /\ UNCHANGED <<closing, pool, app, ringVars, dead, got, read, taken, failed, nicVars, cq>>

\* The loop looks at another completion.
Looks == pc = "receive" /\ ~dead /\ got < max /\ cq # <<>>

\* Variant: the loop stops without taking the queue out of service.
ReceiveUndecodableUnlatched == Looks /\ cq[1].format # "nodata" /\ UNCHANGED vars

\* A completion that needs a decoder: not consumed, the queue is out of service.
ReceiveUndecodable ==
    /\ Looks /\ cq[1].format # "nodata"
    /\ dead' = TRUE
    /\ UNCHANGED <<closing, pool, app, ringVars, pc, callVars, nicVars, cq>>

\* Anything else is consumed.
Consume == Looks /\ cq[1].format = "nodata" /\ cq' = Tail(cq) /\ read' = read + 1

\* Not a completion of this queue, or one with no buffer outstanding.
Stray == cq[1].opcode = "other" \/ pi = ci

ReceiveStray ==
    /\ Consume /\ Stray
    /\ UNCHANGED <<closing, pool, app, ringVars, dead, pc, max, got, taken, failed, nicVars>>

Slot == ci % Entries
\* Variant: the buffer the completion names is not looked at.
MatchesAny(c) == c.pos \in Int

Matches(c) == (c.pos % W) % Entries = Slot

\* The NIC names another buffer than the oldest outstanding one.
ReceiveMismatch ==
    /\ Consume /\ ~Stray /\ ~Matches(cq[1])
    /\ dead' = TRUE
    /\ UNCHANGED <<closing, pool, app, ringVars, pc, max, got, taken, failed, nicVars>>

\* Variant: the slot is read after ci has moved.
OldestLate == posted[(ci + 1) % Entries]

Oldest == posted[Slot]

\* A failed or oversize packet's frame is put aside, a good one's returned.
ReceiveBuffer ==
    /\ Consume /\ ~Stray /\ Matches(cq[1])
    /\ ci' = ci + 1
    /\ IF cq[1].opcode = "resperr" \/ cq[1].oversize
       THEN failed' = Append(failed, Oldest) /\ UNCHANGED <<got, taken>>
       ELSE taken' = taken \cup {Oldest} /\ got' = got + 1 /\ UNCHANGED failed
    /\ UNCHANGED <<closing, pool, app, pi, posted, doorbell, dead, pc, max, nicVars>>

\* Variant: the failed frames are forgotten.
FailedForgotten == <<>>

\* Failed, and the pool's Push of each.
FailedBack == SubSeq(failed, 1, Least(Len(failed), Cardinality(Frames) - Len(pool)))

\* The loop ends: completions read are released, failed frames pushed on the
\* pool, the others belong to the caller.
ReceiveReturn ==
    /\ pc = "receive" /\ (dead \/ got = max \/ cq = <<>>)
    /\ pool' = pool \o FailedBack
    /\ app' = app \cup taken
    /\ pc' = "idle"
    /\ max' = 0 /\ got' = 0 /\ read' = 0 /\ taken' = {} /\ failed' = <<>>
    /\ UNCHANGED <<closing, ringVars, dead, nicVars, cq>>

-----------------------------------------------------------------------------
(* Poll and close, which share ringMu.  Poll spins: it takes the lock, looks *)
(* at the flag and at the completion queue, and lets go of the lock.         *)

\* Variant: nobody waits for ringMu.
LockFreeAlways == TRUE

\* ringMu is the poller's while it looks and the closer's while it unmaps.
LockFree == pc # "look" /\ closing # "unmap"

MovePc(from, to) ==
    /\ pc = from /\ pc' = to
    /\ UNCHANGED <<pool, app, ringVars, dead, closing, callVars, nicVars, cq>>

PollCall == ~closed /\ MovePc("idle", "poll")

\* Variant: the flag is looked at before the lock only, when Poll is called.
PollLockUnaware == LockFree /\ MovePc("poll", "look")

\* readyLocked: closed, Poll returns; not closed, it looks.
PollLock == LockFree /\ MovePc("poll", IF closed THEN "idle" ELSE "look")

\* ReadyCount: Poll returns what is ready; with nothing it returns once its
\* timeout is over, or goes round.
PollLook ==
    \/ MovePc("look", "idle")
    \/ cq = <<>> /\ MovePc("look", "poll")

MoveClosing(from, to) ==
    /\ closing = from /\ closing' = to
    /\ UNCHANGED <<pool, app, ringVars, dead, pc, callVars, nicVars, cq>>

\* Not while the owner is in any method but Poll, which the caller must see to.
CloseSwaps == pc # "receive" /\ MoveClosing("no", "lock")
CloseLocks == LockFree /\ MoveClosing("lock", "unmap")
CloseUnmaps == MoveClosing("unmap", "done")

-----------------------------------------------------------------------------
(* The NIC.  A completion carries the low bits of the buffer's index; pos,  *)
(* the whole index, and frame, what was filled, are there for the           *)
(* invariants.                                                              *)

Cqe(opcode, format, oversize, pos) ==
    [opcode |-> opcode, format |-> format, oversize |-> oversize, pos |-> pos,
     frame |-> posted[pos % Entries]]

\* postedCount: buffers published that the NIC has not used.
PostedCount == (doorbell - nicCi) % W

NicDeliver ==
    /\ mapped /\ PostedCount > 0
    /\ nicCi' = nicCi + 1
    /\ \E c \in {Cqe("respsend", "nodata", FALSE, nicCi), Cqe("respsend", "nodata", TRUE, nicCi),
                 Cqe("resperr", "nodata", FALSE, nicCi)} :
          cq' = Append(cq, c)
    /\ UNCHANGED <<closing, pool, app, ringVars, dead, pc, callVars, faults>>

MayFault(kind) ==
    mapped /\ kind \in Faults /\ faults < MaxFaults /\ read + Len(cq) < CQEntries

NicLoses ==
    /\ MayFault("lost") /\ PostedCount > 0
    /\ nicCi' = nicCi + 1
    /\ faults' = faults + 1
    /\ UNCHANGED <<closing, pool, app, ringVars, dead, pc, callVars, cq>>

NicWritesStray ==
    /\ \/ MayFault("opcode") /\ cq' = Append(cq, Cqe("other", "nodata", FALSE, nicCi))
       \/ MayFault("format") /\ cq' = Append(cq, Cqe("respsend", "other", FALSE, nicCi))
       \/ MayFault("repeated") /\ nicCi > 0
             /\ cq' = Append(cq, Cqe("respsend", "nodata", FALSE, nicCi - 1))
    /\ faults' = faults + 1
    /\ UNCHANGED <<closing, pool, app, ringVars, dead, pc, callVars, nicCi>>

Next ==
    \/ \E n \in 1 .. MaxBatch : Fill(n)
    \/ \E f \in Frames : Recycle(f)
    \/ ReceiveCall \/ ReceiveUndecodable \/ ReceiveStray \/ ReceiveMismatch
    \/ ReceiveBuffer \/ ReceiveReturn
    \/ PollCall \/ PollLock \/ PollLook \/ CloseSwaps \/ CloseLocks \/ CloseUnmaps
    \/ NicDeliver \/ NicLoses \/ NicWritesStray

Spec == Init /\ [][Next]_vars

\* A call runs to its end, close too, and the receive loop comes back to Receive.
\* A Poll with no timeout need not return.
Fairness ==
    /\ SF_vars(ReceiveCall) /\ WF_vars(ReceiveReturn)
    /\ WF_vars(PollLock) /\ WF_vars(PollLook)
    /\ WF_vars(CloseLocks) /\ WF_vars(CloseUnmaps)
    /\ WF_vars(ReceiveUndecodable \/ ReceiveStray \/ ReceiveMismatch \/ ReceiveBuffer)

FairSpec == Spec /\ Fairness

-----------------------------------------------------------------------------
(* Properties. *)

\* The frames the NIC may still write to.
NicBuffers == {posted[s % Entries] : s \in nicCi .. pi - 1}

\* No frame the NIC may still write to is with the application or on the free
\* list, also when completions are lost or repeated: "going on from there would
\* hand the application a frame the NIC is still writing".
NoSharedFrame == NicBuffers \cap (app \cup taken \cup Elems(pool) \cup Elems(failed)) = {}

\* Each frame has one owner: pool, application, a call under way, or one slot.
OneOwner ==
    /\ Cardinality(app) + Cardinality(taken) + Len(pool) + Len(failed) + Outstanding
          = Cardinality(Frames)
    /\ app \cup taken \cup Elems(pool) \cup Elems(failed)
          \cup {posted[s % Entries] : s \in ci .. pi - 1} = Frames

\* The frame Receive takes for a completion is the one that was filled for it.
RightFrame ==
    Looks /\ cq[1].format = "nodata" /\ ~Stray /\ Matches(cq[1]) =>
        cq[1].frame = posted[Slot]

\* A completion is consumed, or the queue reports that it is out of service:
\* a queue that has stopped never looks like a quiet link.
ConsumedOrReported == cq # <<>> ~> (cq = <<>> \/ dead \/ closed)

\* "so that Close cannot unmap it in between": Poll never looks at a completion
\* queue that is gone, however it and close interleave.
NoUnmappedRead == pc = "look" => mapped

\* A goroutine spinning in Poll, even with no timeout, notices the close, and
\* close gets past it.
CloseEnds == closed ~> (pc = "idle" /\ ~mapped)

=============================================================================
