-------------------------------- MODULE AfpTx --------------------------------
(***************************************************************************)
(* The AF_PACKET transmit queue (afpacket/txqueue.go).                     *)
(*                                                                         *)
(* Transmit hands the kernel an array of messages, and a message points at *)
(* the run of iovecs that name its packet's memory.  The single-frame path *)
(* points message m at a fixed iovec of its own, once; the chained and the *)
(* gather paths re-aim the messages they use at runs of a second array,    *)
(* chainIovs.  What an iovec of an earlier batch names is Old: the frame   *)
(* or the caller's memory it pointed at has had other uses since.          *)
(*                                                                         *)
(* One goroutine owns the queue; Stats may be called by any other and      *)
(* reads two counters the owner publishes one after the other.             *)
(***************************************************************************)
EXTENDS Integers, FiniteSets, SequencesExt, FiniteSetsExt

CONSTANTS
    TxOwn,       \* the frames of this queue's pool
    TxForeign,   \* frames of a receive queue the caller forwards
    TxSegs,      \* memory of the caller's own, for TransmitGather
    TxBatch,     \* txBatch: messages in one sendmmsg
    MaxPending,  \* maxPending: frames accepted and not handed back
    MaxChain,    \* maxChainBufs: buffers of one packet
    IovBudget,   \* chainIovBudget: iovecs of one batch
    MaxDescs,    \* bound: descriptors of one call
    MaxSent,     \* bound: frames counted as sent
    CounterSize  \* the counters are unsigned, modulo this

Hdr == "virtio header"
Old == "memory of an earlier batch"

ASSUME AfpTxAssumption ==
    /\ TxBatch \in Nat \ {0} /\ MaxPending \in Nat \ {0}
    /\ MaxChain \in Nat /\ MaxChain < IovBudget /\ MaxSent < CounterSize
    /\ TxOwn \cap TxForeign = {}

VARIABLES
    gso,       \* opened WithGSO: a header iovec rides before every packet
    pool,      \* free frames of TxOwn
    app,       \* frames the caller holds
    pending,   \* sent frames not yet handed back, oldest first
    sent,      \* the counter of frames sent
    pendingN,  \* the length of pending as published for Stats
    txClosed,
    aim,       \* where each message points: at its own iovec, or a run
    chained,   \* msgsChained
    call,      \* the Transmit or TransmitGather in progress
    wire,      \* history: the packets the kernel read, until they are published
    seen       \* <<sent as a Stats call has loaded it>>
txVars == <<gso, pool, app, pending, sent, pendingN, txClosed, aim, chained,
            call, wire, seen>>

Mems(ds) == [i \in DOMAIN ds |-> ds[i].mem]
Idle == [at |-> "idle"]
Own == <<>>
Messages == 1 .. TxBatch
NumFreeSlots == MaxPending - Len(pending)

TxInit ==
    /\ gso \in BOOLEAN
    /\ pool = TxOwn /\ app = TxForeign /\ pending = <<>>
    /\ sent = 0 /\ pendingN = 0 /\ txClosed = FALSE
    /\ aim = [m \in Messages |-> Own] /\ chained = FALSE
    /\ call = Idle /\ wire = <<>>
    /\ seen = <<>>

(***************************************************************************)
(* The frames' way round.                                                  *)
(***************************************************************************)
TxAlloc(n) ==
    /\ call = Idle /\ ~txClosed
    /\ \E S \in SUBSET pool :
          /\ Cardinality(S) = Min({n, NumFreeSlots, Cardinality(pool)})
          /\ pool' = pool \ S /\ app' = app \cup S
    /\ UNCHANGED <<gso, pending, sent, pendingN, txClosed, aim, chained, call,
                   wire, seen>>

TxFree(S) ==
    /\ call = Idle /\ S \subseteq app \cap TxOwn
    /\ app' = app \ S /\ pool' = pool \cup S
    /\ UNCHANGED <<gso, pending, sent, pendingN, txClosed, aim, chained, call,
                   wire, seen>>

\* Variant: the frames are read after drop has moved the rest down.
OldestAfterDrop(n) ==
    {IF n + i <= Len(pending) THEN pending[n + i] ELSE pending[i] : i \in 1 .. n}

Oldest(n) == ToSet(SubSeq(pending, 1, n))

\* drop: the first n frames leave the pending list.
TakeBack(n) ==
    /\ pending' = SubSeq(pending, n + 1, Len(pending))
    /\ pendingN' = Len(pending) - n

\* The pool refuses a receive queue's frame: those go back through Reclaim.
TxComplete(max) ==
    LET n == Min({max, Len(pending)})
    IN  /\ call = Idle /\ n > 0 /\ Oldest(n) \subseteq TxOwn
        /\ TakeBack(n) /\ pool' = pool \cup Oldest(n)
        /\ UNCHANGED <<gso, app, sent, txClosed, aim, chained, call, wire,
                       seen>>

TxReclaim(max) ==
    LET n == Min({max, Len(pending)})
    IN  /\ call = Idle /\ n > 0
        /\ TakeBack(n) /\ app' = app \cup Oldest(n)
        /\ UNCHANGED <<gso, pool, sent, txClosed, aim, chained, call, wire,
                       seen>>

(***************************************************************************)
(* Transmit and TransmitGather.                                            *)
(***************************************************************************)
Start(kind, ds, room, back) ==
    call' = [at |-> "send", kind |-> kind, rest |-> ds, room |-> room,
             back |-> back, full |-> FALSE, took |-> 0]

\* Variant: the messages are left as the last chained call aimed them.
LeaveWiring == UNCHANGED <<aim, chained>>

WireOnePerPacket ==
    /\ chained' = FALSE
    /\ aim' = IF chained THEN [m \in Messages |-> Own] ELSE aim

Transmit(ds) ==
    /\ call = Idle /\ ~txClosed /\ NumFreeSlots > 0
    /\ sent + Len(ds) <= MaxSent
    /\ \/ /\ \E i \in DOMAIN ds : ds[i].more
          /\ Start("chained", ds, NumFreeSlots, FALSE) /\ UNCHANGED <<aim, chained>>
       \/ /\ \A i \in DOMAIN ds : ~ds[i].more
          /\ Start("single", SubSeq(ds, 1, Min({Len(ds), NumFreeSlots})),
                   NumFreeSlots, FALSE)
          /\ WireOnePerPacket
    /\ UNCHANGED <<gso, pool, app, pending, sent, pendingN, txClosed, wire,
                   seen>>

TransmitGather(ds) ==
    /\ call = Idle /\ ~txClosed /\ sent + Len(ds) <= MaxSent
    /\ Start("gather", ds, 0, FALSE)
    /\ UNCHANGED <<gso, pool, app, pending, sent, pendingN, txClosed, aim,
                   chained, wire, seen>>

\* SendFunc: everything sent comes back first, then frames are allocated, and
\* those build had nothing for, or all when it returns a bad length, are freed:
\* `mine' are left.  What Transmit does not take is freed when it returns.
SendFunc(mine) ==
    LET ds == [i \in DOMAIN mine |->
                  [mem |-> mine[i], more |-> FALSE, ok |-> TRUE]]
    IN  /\ call = Idle /\ ~txClosed /\ ToSet(pending) \subseteq TxOwn
        /\ Len(mine) <= MaxPending /\ sent + Len(mine) <= MaxSent
        /\ pool' = (pool \cup ToSet(pending)) \ ToSet(mine)
        /\ app' = app \cup ToSet(mine)
        /\ pending' = <<>> /\ pendingN' = 0
        /\ \/ mine = <<>> /\ UNCHANGED <<call, aim, chained>>
           \/ mine # <<>> /\ Start("single", ds, MaxPending, TRUE)
                          /\ WireOnePerPacket
        /\ UNCHANGED <<gso, sent, txClosed, wire, seen>>

\* Where the packets among descriptors ds end, in order.
Ends(ds) == SetToSortSeq({i \in DOMAIN ds : ~ds[i].more}, <)
From(ends, p) == IF p = 1 THEN 1 ELSE ends[p - 1] + 1
Extra == IF gso THEN 1 ELSE 0

\* Variant: the room left counts packets.
WholeByPackets(c, ends, p) ==
    /\ \A i \in 1 .. ends[p] : c.rest[i].ok
    /\ c.kind # "single" =>
          /\ \A q \in 1 .. p : ends[q] - From(ends, q) < MaxChain
          /\ ends[p] + Extra * p <= IovBudget
    /\ c.kind = "chained" => p <= c.room

\* The first p packets of the call are whole, valid and within the limits.
Whole(c, ends, p) ==
    /\ \A i \in 1 .. ends[p] : c.rest[i].ok
    /\ c.kind # "single" =>
          /\ \A q \in 1 .. p : ends[q] - From(ends, q) < MaxChain
          /\ ends[p] + Extra * p <= IovBudget
    /\ c.kind = "chained" => ends[p] <= c.room

\* The packets one sendmmsg is given.  A pass that stops at a refused packet
\* leaves it to the next pass, which takes none and so returns.
Taken(c) ==
    LET ends == Ends(c.rest)
    IN  Max({0} \cup {p \in 1 .. Min({TxBatch, Len(ends)}) : Whole(c, ends, p)})

Packet(c, p) ==
    LET ends == Ends(c.rest)
    IN  (IF gso THEN <<Hdr>> ELSE <<>>)
            \o Mems(SubSeq(c.rest, From(ends, p), ends[p]))

\* What the kernel finds at a message's iovecs: the single path has filled the
\* messages' own, the other two the front of chainIovs.
Reads(c, n, a, m) ==
    LET filled == FlattenSeq([p \in 1 .. n |-> Packet(c, p)])
        run == [i \in 1 .. a[2] |->
                   IF c.kind # "single" /\ a[1] + i <= Len(filled)
                   THEN filled[a[1] + i] ELSE Old]
    IN  IF a # Own THEN run
        ELSE IF c.kind = "single" THEN Packet(c, m) ELSE <<Old>>

\* The first n messages aimed at consecutive runs of chainIovs, as <<the
\* iovecs before it, its length>>.
Chain(c, n) ==
    LET ends == Ends(c.rest)
        start(m) == From(ends, m) - 1 + Extra * (m - 1)
    IN  [m \in Messages |->
            IF m <= n THEN <<start(m), Len(Packet(c, m))>> ELSE aim[m]]

\* sendAll accepts k of the messages: fewer when the device's queue is full or
\* the socket fails.
Send(k) ==
    LET n == Taken(call)
        frames == IF k = 0 THEN 0 ELSE Ends(call.rest)[k]
    IN  /\ call.at = "send" /\ n > 0 /\ k <= n
        /\ IF call.kind = "single" THEN UNCHANGED <<aim, chained>>
           ELSE aim' = Chain(call, n) /\ chained' = TRUE
        /\ wire' = [m \in 1 .. k |-> Reads(call, n, aim'[m], m)]
        /\ sent' = sent + frames
        /\ call' = [call EXCEPT !.at = "publish", !.full = k = n, !.took = frames]
        /\ UNCHANGED <<gso, pool, app, pending, pendingN, txClosed, seen>>

\* The call returns; SendFunc frees what was not taken.
CallReturns(frames, left) ==
    LET freed == IF call.back THEN ToSet(Mems(left)) ELSE {}
    IN  /\ call' = Idle
        /\ pool' = pool \cup freed /\ app' = app \ (ToSet(frames) \cup freed)

Accepted == SubSeq(call.rest, 1, call.took)

\* A gathered packet's memory is its caller's again: nothing is pending.
Publish ==
    LET frames == IF call.kind = "gather" THEN <<>> ELSE Mems(Accepted)
        left == SubSeq(call.rest, call.took + 1, Len(call.rest))
    IN  /\ call.at = "publish"
        /\ wire' = <<>>
        /\ pending' = pending \o frames /\ pendingN' = Len(pending')
        /\ \/ /\ call.full /\ left # <<>>
              /\ call' = [call EXCEPT !.at = "send", !.rest = left,
                                      !.room = @ - call.took, !.took = 0]
              /\ app' = app \ ToSet(frames) /\ UNCHANGED pool
           \/ /\ ~call.full \/ left = <<>>
              /\ CallReturns(frames, left)
        /\ UNCHANGED <<gso, sent, txClosed, aim, chained, seen>>

\* A refused packet is first, or the pending list has no room for it.
TakesNone ==
    /\ call.at = "send" /\ Taken(call) = 0
    /\ CallReturns(<<>>, call.rest)
    /\ UNCHANGED <<gso, pending, sent, pendingN, txClosed, aim, chained,
                   wire, seen>>

TxClose ==
    /\ call = Idle /\ ~txClosed /\ txClosed' = TRUE
    /\ UNCHANGED <<gso, pool, app, pending, sent, pendingN, aim, chained, call,
                   wire, seen>>

(***************************************************************************)
(* Stats, from any goroutine: it loads sent, then pendingN, and subtracts  *)
(* without sign.                                                           *)
(***************************************************************************)
StatsLoadSent ==
    /\ seen = <<>> /\ seen' = <<sent>>
    /\ UNCHANGED <<gso, pool, app, pending, sent, pendingN, txClosed, aim,
                   chained, call, wire>>

\* What Stats reports as Completed once it has loaded pendingN too.
Completed == (seen[1] - pendingN) % CounterSize

StatsLoadPending ==
    /\ seen # <<>> /\ seen' = <<>>
    /\ UNCHANGED <<gso, pool, app, pending, sent, pendingN, txClosed, aim,
                   chained, call, wire>>

\* The descriptors of one call: distinct memory, and the bad one, if any, that
\* ends what can be taken.
Calls(mems) ==
    UNION {{[i \in DOMAIN ms |->
                [mem |-> ms[i], more |-> i \in M, ok |-> i # bad]] :
                    M \in SUBSET DOMAIN ms, bad \in 0 .. Len(ms)} :
               ms \in {m \in SetToAllKPermutations(mems) : Len(m) \in 1 .. MaxDescs}}

TxNext ==
    \/ \E n \in 1 .. MaxDescs : TxAlloc(n) \/ TxComplete(n) \/ TxReclaim(n)
    \/ \E S \in SUBSET (app \cap TxOwn) \ {{}} : TxFree(S)
    \/ \E ds \in Calls(app) : Transmit(ds)
    \/ \E ds \in Calls(TxSegs) : TransmitGather(ds)
    \/ \E mine \in SetToAllKPermutations(pool \cup (ToSet(pending) \cap TxOwn)) :
          SendFunc(mine)
    \/ \E k \in 0 .. TxBatch : Send(k)
    \/ Publish \/ TakesNone \/ TxClose
    \/ StatsLoadSent \/ StatsLoadPending

TxSpec == TxInit /\ [][TxNext]_txVars

(***************************************************************************)
(* Properties.                                                             *)
(***************************************************************************)

\* The packets the kernel read are the ones the call described, whole and in
\* order, and the frames then marked pending are exactly theirs: wherever an
\* earlier chained or gathering call left the messages aimed, no iovec of an
\* earlier batch is sent (wireOnePerPacket, transmitChained), and no prefix
\* stops inside a packet.
WireIsAsked ==
    call.at = "publish" =>
        /\ \A p \in DOMAIN wire : wire[p] = Packet(call, p)
        /\ SelectSeq(FlattenSeq(wire), LAMBDA x : x # Hdr) = Mems(Accepted)

\* Every frame is in exactly one of the pool, the caller's hands and the
\* pending list, and the list never outgrows maxPending, also after a call
\* whose chains were taken in several batches.
AfpTxOneOwner ==
    /\ pool \cup app \cup ToSet(pending) = TxOwn \cup TxForeign
    /\ pool \cap app = {} /\ (pool \cup app) \cap ToSet(pending) = {}
    /\ IsInjective(pending) /\ Len(pending) <= MaxPending
    /\ pool \subseteq TxOwn

\* Frames the kernel has taken in a call that has not listed them yet.
Unlisted ==
    IF call.at = "publish" /\ call.kind # "gather" THEN ToSet(Mems(Accepted)) ELSE {}

Contract == INSTANCE TxContract WITH
    Frames <- TxOwn \cup TxForeign, held <- (pool \cup app) \ Unlisted,
    nic <- Unlisted, finished <- ToSet(pending), dead <- FALSE

\* Every step is one the TxQueue interface allows: only what the kernel took
\* leaves the caller, and it comes back only through Complete, Reclaim or
\* SendFunc, each frame once.
KeepsTxContract == Contract!Spec

\* What a comment of transmit promises of a concurrent Stats: "never wrapped
\* below zero by the unsigned subtraction" (afpacket/txqueue.go:295).
StatsNeverWrap == seen # <<>> => Completed <= sent
=============================================================================
