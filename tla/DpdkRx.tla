------------------------------- MODULE DpdkRx -------------------------------
(***************************************************************************)
(* The DPDK receive queue: dpdk/queues.go over dpdk/internal/queue.  The   *)
(* driver draws buffers from a supply ring in bulks it chooses, and may    *)
(* free some unused.  DPDK cannot look without taking, so Poll keeps what  *)
(* it found for the next Receive.  Another goroutine may close the device  *)
(* while one sits in Poll.                                                 *)
(***************************************************************************)
EXTENDS Integers, Sequences, FiniteSets

CONSTANTS
    Frames,    \* the queue's slice of the region
    SupplyCap, \* addresses the supply ring holds
    Bulk,      \* buffers the driver draws at a time
    MaxPkts,   \* bound: packets that arrive
    MaxFrees,  \* bound: buffers the driver frees unused
    MaxFaults  \* bound: addresses the driver gets wrong

Alien == "alien"      \* an address outside the region

ASSUME DpdkRxAssumption ==
    /\ IsFiniteSet(Frames) /\ Alien \notin Frames /\ SupplyCap \in Nat \ {0} /\ Bulk \in Nat \ {0}
    /\ MaxPkts \in Nat /\ MaxFrees \in Nat /\ MaxFaults \in Nat

VARIABLES
    pool,     \* the free list, whose order nothing depends on
    supply,   \* the ring the driver draws from
    bufs,     \* buffers the driver has drawn, unfilled
    full,     \* buffers the NIC has filled: [frame, id, kind]
    returned, \* the ring the driver frees into
    frees,    \* how many buffers it has freed
    stash,    \* q.stash, as in full
    app,      \* frames the caller holds
    outstanding,
    dead,     \* a fatal error is latched
    wrong,    \* frames whose address the driver forgot
    arrived,  \* packets that have arrived, numbered from 1
    got,      \* numbers of the packets handed to the caller, in order
    refused,  \* numbers of those never handed out
    closed,   \* q.closed
    shut,     \* the closer: "no", "waits" for ringMu, "done"
    poll,     \* the poller: "no", "waits" for ringMu, "looks" holding it
    port      \* "up" or "stopped"

vars == <<pool, supply, bufs, full, returned, frees, stash, app, outstanding, dead, wrong,
          arrived, got, refused, closed, shut, poll, port>>

Least(a, b) == IF a <= b THEN a ELSE b
Elems(s) == {s[i] : i \in 1 .. Len(s)}
DropFirst(s, k) == SubSeq(s, k + 1, Len(s))
Some(S, k) == CHOOSE s \in [1 .. k -> S] : \A i, j \in 1 .. k : s[i] = s[j] => i = j
\* The numbers of S, the smallest first.
InOrder(S) == CHOOSE s \in [1 .. Cardinality(S) -> S] :
                  \A i, j \in DOMAIN s : i < j => s[i] < s[j]
FramesOf(s) == [i \in 1 .. Len(s) |-> s[i].frame]
IdsOf(s) == [i \in 1 .. Len(s) |-> s[i].id]

\* Open has made all the frames it could available to the driver.
Init ==
    /\ supply = Some(Frames, Least(Cardinality(Frames), SupplyCap))
    /\ pool = Frames \ Elems(supply)
    /\ bufs = <<>> /\ full = <<>> /\ returned = <<>> /\ stash = <<>> /\ got = <<>>
    /\ app = {} /\ wrong = {} /\ refused = {} /\ arrived = 0 /\ frees = 0
    /\ outstanding = Len(supply) /\ dead = FALSE
    /\ closed = FALSE /\ shut = "no" /\ poll = "no" /\ port = "up"

-----------------------------------------------------------------------------
(* The driver and the NIC. *)

\* A bulk that the supply cannot satisfy in full is not taken at all.
DriverDraws ==
    /\ port = "up" /\ Len(supply) >= Bulk
    /\ bufs' = bufs \o SubSeq(supply, 1, Bulk)
    /\ supply' = DropFirst(supply, Bulk)
    /\ UNCHANGED <<pool, full, returned, frees, stash, app, outstanding, dead, wrong, arrived,
                   got, refused, closed, shut, poll, port>>

\* A packet comes in: one to deliver, one that is chained or too long for its
\* frame, or one in a buffer the driver has the wrong address of.
NicReceives(kind) ==
    /\ port = "up" /\ bufs # <<>> /\ arrived < MaxPkts
    /\ kind = Alien => Cardinality(wrong) < MaxFaults
    /\ arrived' = arrived + 1
    /\ bufs' = Tail(bufs)
    /\ full' = Append(full, [frame |-> IF kind = Alien THEN Alien ELSE Head(bufs),
                             id |-> arrived', kind |-> kind])
    /\ wrong' = IF kind = Alien THEN wrong \cup {Head(bufs)} ELSE wrong
    /\ UNCHANGED <<pool, supply, returned, frees, stash, app, outstanding, dead, got, refused,
                   closed, shut, poll, port>>

\* A buffer is freed unused, or an address that is no frame is.
DriverFrees(addr) ==
    /\ bufs # <<>> /\ frees < MaxFrees
    /\ addr = Alien => Cardinality(wrong) < MaxFaults
    /\ frees' = frees + 1
    /\ returned' = Append(returned, addr)
    /\ wrong' = IF addr = Alien THEN wrong \cup {Head(bufs)} ELSE wrong
    /\ bufs' = Tail(bufs)
    /\ UNCHANGED <<pool, supply, full, stash, app, outstanding, dead, arrived, got,
                   refused, closed, shut, poll, port>>

-----------------------------------------------------------------------------
(* Calls of the owner.  Those that do nothing are not steps. *)

Idle == poll = "no"

\* Ring.Push takes a prefix.
Posted(new) == SubSeq(new, 1, Least(Len(new), SupplyCap - Len(supply)))

\* Variant: what the supply does not take is held by nobody.
UnpostedForgotten(home, new, post) == home \ Elems(new)

\* What is on the free list when, of those popped, some were posted.
Unposted(home, new, post) == home \ Elems(post)

\* DrainReturned: where in the ring are frames, and a queue that is dead if the
\* driver freed anything else.
Drained == {i \in DOMAIN returned : returned[i] # Alien}
DeadDrained == dead \/ Alien \in Elems(returned)

\* What Fill(n) pops when home is on the free list: nothing on a dead queue.
Popped(n, home) ==
    IF DeadDrained THEN <<>> ELSE Some(home, Least(n, Cardinality(home)))

\* DrainReturned, then Fill.
Fill(n) ==
    LET home == pool \cup {returned[i] : i \in Drained}
        new  == Popped(n, home)
        post == Posted(new)
    IN  /\ ~closed /\ Idle
        /\ dead' = DeadDrained
        /\ returned' = <<>>
        /\ supply' = supply \o post
        /\ pool' = Unposted(home, new, post)
        /\ outstanding' = outstanding - Cardinality(Drained) + Len(post)
        /\ UNCHANGED <<bufs, full, frees, stash, app, wrong, arrived, got, refused, closed,
                       shut, poll, port>>

\* The frames of a burst that go back to the pool, and what is delivered.
Home(burst) == {p.frame : p \in {b \in Elems(burst) : b.kind = "bad"}}
Delivered(burst) ==
    LET good == {i \in DOMAIN burst : burst[i].kind = "good"}
    IN  [i \in 1 .. Cardinality(good) |-> burst[InOrder(good)[i]]]

Taken(burst) == Cardinality({i \in DOMAIN burst : burst[i].kind # Alien})

\* queue.Rx.Receive: the driver hands over the first k of the filled buffers.
Burst(k) ==
    LET burst == SubSeq(full, 1, k)
    IN  /\ full' = DropFirst(full, k)
        /\ pool' = pool \cup Home(burst)
        /\ outstanding' = outstanding - Taken(burst)
        /\ dead' = (dead \/ Alien \in Elems(FramesOf(burst)))
        /\ refused' = refused \cup {b.id : b \in {c \in Elems(burst) : c.kind # "good"}}

\* How many a burst for max may hand over: none to a dead queue.
BurstSizes(max) == 0 .. IF dead THEN 0 ELSE Least(max, Len(full))

\* Variant: a Receive goes to the driver whatever a Poll has kept.
StashFirstNot == FALSE

\* What a Poll took comes before what the driver has.
StashFirst == stash # <<>>

Receive(max) ==
    /\ ~closed /\ Idle
    /\ IF StashFirst
       THEN \E k \in {Least(max, Len(stash))} :
               /\ app' = app \cup Elems(FramesOf(SubSeq(stash, 1, k)))
               /\ got' = got \o IdsOf(SubSeq(stash, 1, k))
               /\ stash' = DropFirst(stash, k)
               /\ UNCHANGED <<full, pool, outstanding, dead, refused>>
       ELSE \E k \in BurstSizes(max) \ {0} :
               /\ Burst(k)
               /\ app' = app \cup Elems(FramesOf(Delivered(SubSeq(full, 1, k))))
               /\ got' = got \o IdsOf(Delivered(SubSeq(full, 1, k)))
               /\ UNCHANGED stash
    /\ UNCHANGED <<supply, bufs, returned, frees, wrong, arrived, closed, shut, poll, port>>

Recycle(f) ==
    /\ Idle /\ f \in app
    /\ app' = app \ {f}
    /\ pool' = pool \cup {f}
    /\ UNCHANGED <<supply, bufs, full, returned, frees, stash, outstanding, dead, wrong, arrived,
                   got, refused, closed, shut, poll, port>>

-----------------------------------------------------------------------------
(* Poll and NumReceived, step by step, beside Close. *)

\* Poll, when nothing is kept, or NumReceived.
PollCall ==
    /\ ~closed /\ Idle
    /\ poll' = "waits"
    /\ UNCHANGED <<pool, supply, bufs, full, returned, frees, stash, app, outstanding, dead,
                   wrong, arrived, got, refused, closed, shut, port>>

\* Variant: closed is looked at before the lock is taken, and not after.
AdmittedAnyway == TRUE

Admitted == ~closed

\* pollOnce takes ringMu and leaves again if the queue was closed.
PollLock ==
    /\ poll = "waits"
    /\ poll' = IF Admitted THEN "looks" ELSE "no"
    /\ UNCHANGED <<pool, supply, bufs, full, returned, frees, stash, app, outstanding, dead,
                   wrong, arrived, got, refused, closed, shut, port>>

\* It asks the driver, and Poll goes round again if there is nothing yet.
PollLook ==
    /\ poll = "looks"
    /\ \E k \in BurstSizes(Len(full)) :
          /\ Burst(k)
          /\ stash' = stash \o Delivered(SubSeq(full, 1, k))
    /\ poll' \in IF stash' = <<>> THEN {"no", "waits"} ELSE {"no"}
    /\ UNCHANGED <<supply, bufs, returned, frees, app, wrong, arrived, got, closed, shut, port>>

\* Device.Close: first the flag,
CloseFlag ==
    /\ ~closed
    /\ closed' = TRUE /\ shut' = "waits"
    /\ UNCHANGED <<pool, supply, bufs, full, returned, frees, stash, app, outstanding, dead,
                   wrong, arrived, got, refused, poll, port>>

\* Variant: nobody waits for the poller.
LockFreeAlways == TRUE

LockFree == poll # "looks"

\* then ringMu, once the poller has left the driver,
CloseShut ==
    /\ shut = "waits" /\ LockFree
    /\ shut' = "done"
    /\ UNCHANGED <<pool, supply, bufs, full, returned, frees, stash, app, outstanding, dead,
                   wrong, arrived, got, refused, closed, poll, port>>

\* and then the port.
PortStop ==
    /\ shut = "done" /\ port = "up"
    /\ port' = "stopped"
    /\ UNCHANGED <<pool, supply, bufs, full, returned, frees, stash, app, outstanding, dead,
                   wrong, arrived, got, refused, closed, shut, poll>>

Next ==
    \/ DriverDraws
    \/ \E kind \in {"good", "bad", Alien} : NicReceives(kind)
    \/ bufs # <<>> /\ \E addr \in {Head(bufs), Alien} : DriverFrees(addr)
    \/ \E n \in 1 .. Cardinality(Frames) : Fill(n) \/ Receive(n)
    \/ \E f \in Frames : Recycle(f)
    \/ PollCall \/ PollLock \/ PollLook
    \/ CloseFlag \/ CloseShut \/ PortStop

Spec == Init /\ [][Next]_vars

\* Goroutines run, and ringMu is granted.
Fairness == WF_vars(PollLock) /\ WF_vars(PollLook) /\ WF_vars(CloseShut)

FairSpec == Spec /\ Fairness

-----------------------------------------------------------------------------
(* Properties. *)

At(s, f) == {k \in DOMAIN s : s[k] = f}
In(S, f) == IF f \in S THEN 1 ELSE 0

\* Every frame has exactly one owner - the free list, the supply, the driver,
\* the NIC's filled buffers, the returned ring, what a Poll kept or the caller
\* - or is the one whose address the driver forgot.  While the queue is not
\* dead, outstanding counts exactly those the driver has in any form; an address
\* that is no frame leaves it high, the reason to declare the queue dead.
OneOwner ==
    LET with == Len(supply) + Len(bufs) + Len(full) + Len(returned)
    IN  /\ \A f \in Frames :
              In(pool, f) + In(app, f) + In(wrong, f)
              + Cardinality(At(supply, f)) + Cardinality(At(bufs, f))
              + Cardinality(At(returned, f))
              + Cardinality(At(FramesOf(full), f)) + Cardinality(At(FramesOf(stash), f)) = 1
        /\ outstanding >= with /\ (~dead => outstanding = with)

\* "Whatever a Poll took comes first, or those packets would be lost": the
\* caller gets every packet that was not refused, once, in order of arrival,
\* whatever mix of Poll, NumReceived and Receive takes them.
NoneSkipped ==
    LET s == got \o IdsOf(stash)
    IN  /\ \A i, j \in DOMAIN s : i < j => s[i] < s[j]
        /\ Elems(s) \cup refused = 1 .. arrived - Len(full)

\* "a goroutine inside Poll has left the driver before the port is stopped
\* underneath it."
NotInStoppedDriver == poll = "looks" => port = "up"

\* After Close both goroutines get out: the poller of its loop, however long
\* its timeout, and the closer past the lock.
CloseEnds == closed ~> (poll = "no" /\ shut = "done")

=============================================================================
