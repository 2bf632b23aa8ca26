------------------------------- MODULE DpdkTx -------------------------------
(***************************************************************************)
(* The DPDK transmit queue: dpdk/queues.go over dpdk/internal/queue.       *)
(* Several hardware send queues behind one queue, used in turn.  Each has  *)
(* its own frames, free list and mempool, and the ring the driver frees    *)
(* into.  The driver frees what the NIC has sent only inside a call: a     *)
(* transmit burst, or a poke.                                              *)
(***************************************************************************)
EXTENDS Integers, Sequences, FiniteSets
LOCAL INSTANCE SequencesExt

CONSTANTS
    NRings,      \* hardware send queues behind the queue
    PerRing,     \* frames of one ring's slice of the region
    NRx,         \* frames of a receive queue, which a forwarder sends
    Depth,       \* descriptors of a hardware queue
    MaxThresh,   \* the driver looks once this many packets, at most, are sent
    MaxBatch,    \* bound: frames asked for or sent in one call
    MaxTxFaults, \* bound: addresses the driver gets wrong
    Habits       \* how the caller works: see CompleteMax and Sendable

Rings    == 1 .. NRings
Own      == Rings \X (1 .. PerRing)
Foreign  == {0} \X (1 .. NRx)
TxFrames == Own \cup Foreign
All      == Cardinality(TxFrames)
NoFrame  == <<-1, 0>>      \* an address outside the region

ASSUME DpdkTxAssumption ==
    /\ NRings \in Nat \ {0} /\ PerRing \in Nat \ {0} /\ NRx \in Nat
    /\ MaxBatch \in Nat /\ MaxTxFaults \in Nat
    /\ MaxThresh \in 1 .. Depth
    /\ Depth \in 1 .. PerRing
    /\ Habits \subseteq {"sender", "forwarder", "retrier", "cycle"}

VARIABLES
    habit,     \* one of Habits: fixed
    thresh,    \* packets sent before the driver looks: fixed
    ring,      \* per hardware queue: see FreshRing
    next,      \* q.next
    held,      \* frames the caller holds
    lost,      \* frames a pool refused
    forgotten, \* frames whose address the driver forgot
    txClosed,  \* q.closed
    sending    \* frames a SendFunc under way asked for, or 0

txVars == <<habit, thresh, ring, next, held, lost, forgotten, txClosed, sending>>

\* pool: the free list, whose order nothing depends on.  hold: with the driver, oldest
\* first, of which the NIC has sent done.  ret: the returned ring, and drops
\* what did not fit it.
FreshRing(i) ==
    [pool |-> {i} \X (1 .. PerRing), hold |-> <<>>, done |-> 0, ret |-> <<>>,
     drops |-> {}, inFlight |-> 0, dead |-> FALSE]

Lesser(a, b) == IF a <= b THEN a ELSE b
Chosen(S, k) == SubSeq(SetToSeq(S), 1, k)
Rest(s, k) == SubSeq(s, k + 1, Len(s))

\* The returned ring holds the queue's frames, rounded up to a power of two.
ReturnedCap == CHOOSE p \in PerRing .. 2 * PerRing : \E e \in 0 .. PerRing : p = 2 ^ e

-----------------------------------------------------------------------------
(* The driver. *)

\* It looks at its completions: what the NIC has sent goes to the returned
\* ring of the pool its mbufs name, that of the hardware queue that sent it.
\* What finds no room there is dropped.
Looked(t) ==
    LET fit == Lesser(t.done, ReturnedCap - Len(t.ret))
    IN  IF t.done < thresh THEN t
        ELSE [t EXCEPT !.ret = @ \o SubSeq(t.hold, 1, fit),
                       !.drops = @ \cup Range(SubSeq(t.hold, fit + 1, t.done)),
                       !.hold = Rest(@, t.done), !.done = 0]

\* A burst, which looks first, takes the first k frames of fs.
TxBurst(t, fs, k) == [Looked(t) EXCEPT !.hold = @ \o SubSeq(fs, 1, k)]

-----------------------------------------------------------------------------
(* One hardware queue: queue.Tx. *)

\* A pool takes the frames of its own slice only, and a frame it has already
\* is one too many.
Pushed(i, t, s) == [t EXCEPT !.pool = @ \cup {f \in Range(s) : f[1] = i}]
Refused(i, t, s) == {f \in Range(s) : f[1] # i \/ f \in t.pool}

FreeSlots(t) == IF Depth > t.inFlight THEN Depth - t.inFlight ELSE 0

AllocCount(t, n) == IF t.dead THEN 0 ELSE Lesser(n, Lesser(FreeSlots(t), Cardinality(t.pool)))

\* How many of n descriptors are handed to the driver, the first refused one
\* being number bad.
Built(t, n, bad) == IF t.dead THEN 0 ELSE Lesser(Lesser(n, FreeSlots(t)), bad - 1)

\* The driver takes sent of the built, or lies about it and gets none recorded.
Transmitted(t, fs, built, sent) ==
    IF built = 0 THEN t ELSE [TxBurst(t, fs, sent) EXCEPT !.inFlight = @ + sent]

\* Variant: a queue with nothing returned just has nothing to reclaim.
PokedNever(t) == t

Poked(t) == IF t.ret = <<>> /\ t.inFlight > 0 THEN Looked(t) ELSE t

\* reclaim: the frames given back, and the queue afterwards.  An address
\* outside the region is no frame, and ends the queue.
Got(t, max) ==
    SelectSeq(SubSeq(Poked(t).ret, 1, Lesser(Len(Poked(t).ret), max)), LAMBDA f : f # NoFrame)

Reclaimed(t, max) ==
    LET n == Lesser(Len(Poked(t).ret), max)
    IN  [Poked(t) EXCEPT !.ret = Rest(@, n), !.inFlight = @ - Len(Got(t, max)),
                         !.dead = @ \/ NoFrame \in Range(SubSeq(Poked(t).ret, 1, n))]

\* The walk over the rings that Complete and Reclaim share: how many frames
\* each ring is asked for.
Asked(max) ==
    LET left[i \in Rings] ==
            IF i = 1 THEN max ELSE left[i-1] - Len(Got(ring[i-1], left[i-1]))
    IN  left

-----------------------------------------------------------------------------
(* Calls.  Those that return without doing anything are not steps. *)

NewTx ==
    /\ habit \in Habits /\ thresh \in 1 .. MaxThresh
    /\ ring = [i \in Rings |-> FreshRing(i)]
    /\ next = 1 /\ held = (IF habit = "forwarder" THEN Foreign ELSE {})
    /\ lost = {} /\ forgotten = {} /\ sending = 0

TxInit == NewTx /\ txClosed = FALSE

Rotate == IF next = NRings THEN 1 ELSE next + 1

Alloc(n) ==
    LET t == ring[next]
        k == AllocCount(t, n)
        s == Range(Chosen(t.pool, k))
    IN  /\ ~txClosed /\ sending = 0 /\ habit # "forwarder" /\ k > 0
        /\ held' = held \cup s
        /\ ring' = [ring EXCEPT ![next].pool = @ \ s]
        /\ UNCHANGED <<habit, thresh, next, lost, forgotten, txClosed, sending>>

\* A sender transmits what it allocated for this turn.  A forwarder, which
\* sends what it received, and a caller that retries what was not accepted
\* transmit any frame they hold.
Sendable == IF habit \in {"forwarder", "retrier"} THEN held ELSE {f \in held : f[1] = next}

\* The turn passes on whatever becomes of the batch.
Transmit ==
    \E n \in 0 .. MaxBatch : \E fs \in [1 .. n -> Sendable], bad \in 1 .. n + 1 :
        LET t     == ring[next]
            built == Built(t, n, bad)
        IN  /\ ~txClosed /\ sending = 0
            /\ \A i, j \in 1 .. n : fs[i] = fs[j] => i = j
            /\ \E sent \in 0 .. built :
                  /\ ring' = [ring EXCEPT ![next] = Transmitted(t, fs, built, sent)]
                  /\ held' = held \ Range(SubSeq(fs, 1, sent))
            /\ next' = Rotate
            /\ UNCHANGED <<habit, thresh, lost, forgotten, txClosed, sending>>

\* Complete(max): each ring's frames go to that ring's own pool.
Complete(max) ==
    /\ ~txClosed /\ sending = 0 /\ habit # "forwarder"
    /\ UNCHANGED <<habit, thresh, next, held, forgotten, txClosed, sending>>
    /\ \E asked \in {Asked(max)} :
          /\ ring' = [i \in Rings |->
                         IF asked[i] <= 0 THEN ring[i]
                         ELSE Pushed(i, Reclaimed(ring[i], asked[i]), Got(ring[i], asked[i]))]
          /\ lost' = lost \cup UNION {Refused(i, ring[i], Got(ring[i], asked[i])) : i \in Rings}

\* Reclaim(max): the caller gets them.
Reclaim(max) ==
    /\ ~txClosed /\ sending = 0 /\ habit = "forwarder"
    /\ UNCHANGED <<habit, thresh, next, lost, forgotten, txClosed, sending>>
    /\ \E asked \in {Asked(max)} :
          /\ ring' = [i \in Rings |->
                         IF asked[i] <= 0 THEN ring[i] ELSE Reclaimed(ring[i], asked[i])]
          /\ held' = held \cup UNION {Range(Got(ring[i], asked[i])) : i \in Rings}

NumCompleted ==
    LET n[i \in 0 .. NRings] == IF i = 0 THEN 0 ELSE n[i-1] + Len(ring[i].ret) IN n[NRings]

\* Some callers ask for what is useful.  The cycle that the interface documents
\* asks for q.NumCompleted(), what has been returned already.
CompleteMax == IF habit = "cycle" THEN {NumCompleted} ELSE (1 .. MaxBatch) \cup {All}

\* Variant: every frame is handed to the first ring.
OwnerFirst(f) == 1

\* The ring whose slice a freed frame is of, or else the first.
Owner(f) == IF f[1] \in Rings THEN f[1] ELSE 1

Free(f) ==
    /\ sending = 0 /\ f \in held \cap Own
    /\ held' = held \ {f}
    /\ ring' = [ring EXCEPT ![Owner(f)] = Pushed(Owner(f), @, <<f>>)]
    /\ lost' = lost \cup Refused(Owner(f), ring[Owner(f)], <<f>>)
    /\ UNCHANGED <<habit, thresh, next, forgotten, txClosed, sending>>

\* SendFunc: the whole cycle against one ring, which first gives back all it
\* can.
SendReclaim(count) ==
    LET max == count + ring[next].inFlight
        got == Got(ring[next], max)
    IN  /\ ~txClosed /\ sending = 0 /\ habit \in {"sender", "retrier"}
        /\ ring' = [ring EXCEPT ![next] = Pushed(next, Reclaimed(@, max), got)]
        /\ lost' = lost \cup Refused(next, ring[next], got)
        /\ sending' = count
        /\ UNCHANGED <<habit, thresh, next, held, forgotten, txClosed>>

\* Then it allocates, builds and transmits.  build ends the batch after built
\* frames, with a zero, or with a length outside the frame, which abandons it.
SendBatch ==
    LET t  == ring[next]
        k  == AllocCount(t, sending)
        fs == Chosen(t.pool, k)
        u  == [t EXCEPT !.pool = @ \ Range(fs)]
    IN  /\ sending > 0
        /\ \E built \in 0 .. k : \E sent \in 0 .. built, badLength \in BOOLEAN :
              ring' = [ring EXCEPT ![next] =
                          IF k = 0 THEN t
                          ELSE IF badLength /\ built < k THEN Pushed(next, u, fs)
                          ELSE Pushed(next, Transmitted(Pushed(next, u, Rest(fs, built)),
                                                        fs, built, sent),
                                      SubSeq(fs, sent + 1, built))]
        /\ next' = Rotate
        /\ sending' = 0
        /\ UNCHANGED <<habit, thresh, held, lost, forgotten, txClosed>>

Close ==
    /\ ~txClosed /\ sending = 0
    /\ txClosed' = TRUE
    /\ UNCHANGED <<habit, thresh, ring, next, held, lost, forgotten, sending>>

-----------------------------------------------------------------------------
(* The NIC, and a driver that goes wrong. *)

NicSends(i) ==
    /\ ring[i].done < Len(ring[i].hold)
    /\ ring' = [ring EXCEPT ![i].done = @ + 1]
    /\ UNCHANGED <<habit, thresh, next, held, lost, forgotten, txClosed, sending>>

\* The driver comes to hold an address that is no frame in place of one.
DriverErrs(i) ==
    /\ ring[i].hold # <<>> /\ Head(ring[i].hold) # NoFrame
    /\ Cardinality(forgotten) < MaxTxFaults
    /\ forgotten' = forgotten \cup {Head(ring[i].hold)}
    /\ ring' = [ring EXCEPT ![i].hold[1] = NoFrame]
    /\ UNCHANGED <<habit, thresh, next, held, lost, txClosed, sending>>

TxNext ==
    \/ \E n \in 1 .. MaxBatch : Alloc(n) \/ SendReclaim(n)
    \/ \E n \in CompleteMax : Complete(n) \/ Reclaim(n)
    \/ Transmit \/ SendBatch
    \/ \E f \in Own : Free(f)
    \/ Close
    \/ \E i \in Rings : NicSends(i) \/ DriverErrs(i)

TxSpec == TxInit /\ [][TxNext]_txVars

\* The NIC sends what it is given, and the caller comes back to reclaim: with
\* a large max, since one that only ever asks for a few frames may be served
\* by the first ring alone.
TxFairness ==
    /\ WF_txVars(SendBatch) /\ \A i \in Rings : WF_txVars(NicSends(i))
    /\ SF_txVars(Complete(All) \/ Reclaim(All))

TxFairSpec == TxSpec /\ TxFairness

\* The caller that goes round the documented cycle reclaims NumCompleted.
CycleSpec ==
    /\ TxSpec /\ \A i \in Rings : WF_txVars(NicSends(i))
    /\ WF_txVars(Complete(NumCompleted)) /\ WF_txVars(Alloc(1)) /\ WF_txVars(Transmit)

-----------------------------------------------------------------------------
(* Properties. *)

Mine == IF habit = "forwarder" THEN TxFrames ELSE Own
Spots(s, f) == {k \in DOMAIN s : s[k] = f}

\* Everywhere the frame f is.
Places(f) ==
    UNION {  {<<i, "pool", 0>> : g \in {f} \cap ring[i].pool}
        \cup {<<i, "hold", k>> : k \in Spots(ring[i].hold, f)}
        \cup {<<i, "ret", k>> : k \in Spots(ring[i].ret, f)} : i \in Rings}
    \cup {<<0, "app", 0>> : g \in {f} \cap held}
    \cup {<<0, "wrong", 0>> : g \in {f} \cap forgotten}

\* Every frame the caller may send has exactly one owner: the caller, one place
\* of one ring's pool, driver or returned ring, or a driver that forgot its
\* address.  No pool refuses one and no returned ring drops one, over short
\* bursts, abandoned batches and rings used in turn.
TxOneOwner ==
    /\ lost = {} /\ \A i \in Rings : ring[i].drops = {}
    /\ \A f \in Mine : Cardinality(Places(f)) = 1

\* A full hardware queue gets room again, unless it is dead or closed, although
\* the driver frees nothing by itself.
FullRingDrains ==
    \A i \in Rings :
        ring[i].inFlight = Depth ~> (ring[i].inFlight < Depth \/ ring[i].dead \/ txClosed)

=============================================================================
