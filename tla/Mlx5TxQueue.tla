---------------------------- MODULE Mlx5TxQueue ----------------------------
(***************************************************************************)
(* The mlx5 transmit queue: mlx5/txqueue.go.  Several send rings behind    *)
(* one queue, fed in turn from one pool of frames, by an application that  *)
(* also sends frames of a receive queue's pool and takes those back with   *)
(* Reclaim.                                                                *)
(*                                                                         *)
(* A ring is what Mlx5Tx makes of one: the frames in flight in order, the  *)
(* points in that order at which a completion was, or will be, reported,   *)
(* and the room it says it has.  Room is counted in blocks there and       *)
(* depends on lengths; here it is any number those blocks could come to.   *)
(***************************************************************************)
EXTENDS Integers, Sequences, FiniteSets, SequencesExt

CONSTANTS
    Own,        \* frames of this queue's pool
    Foreign,    \* frames of a receive queue's pool
    NRings,     \* rings behind the queue
    Cap,        \* the room an empty ring says it has
    MaxBatch    \* bound: frames allocated or sent in one call

Frames == Own \cup Foreign
Rings  == 1 .. NRings
All    == Cardinality(Frames)

ASSUME QueueAssumption ==
    /\ NRings \in Nat \ {0} /\ Cap \in Nat \ {0} /\ MaxBatch \in Nat
    /\ Own \cap Foreign = {}

VARIABLES
    forwards, \* the caller takes frames back with Reclaim, not Complete: fixed
    multi,    \* the rings use multi-packet entries: fixed
    pool,     \* the free list, popped from its end
    ring,     \* per ring: see Ring below
    next,     \* q.next
    app,      \* frames the application holds
    lost,     \* frames the pool refused: nobody holds them
    closed,   \* q.closed
    call      \* the reclaiming call under way, or NoCall

vars == <<forwards, multi, pool, ring, next, app, lost, closed, call>>

\* A call of Complete, Reclaim or SendFunc walks the rings: ring is the next
\* one, left how many frames it still wants, count what SendFunc will allocate.
NoCall == [op |-> "none", ring |-> 0, left |-> 0, count |-> 0]
Idle == call = NoCall

\* fly: frames in flight, oldest first.  ends: how many frames of fly each
\* completion accounts for, those to come included; the first rep of them have
\* been reported.  bad: the first of ends that is an error completion, 0 while
\* the NIC is well.  failed: an error completion has been read.  room: the
\* packets the free blocks are good for.
EmptyRing == [fly |-> <<>>, ends |-> <<>>, rep |-> 0, bad |-> 0, failed |-> FALSE,
              room |-> Cap]

Least(a, b) == IF a <= b THEN a ELSE b
Elems(s) == {s[i] : i \in 1 .. Len(s)}
\* The longest prefix of s, of at most n elements, all of which satisfy P.
PrefixLen(s, n, P(_)) ==
    CHOOSE k \in 0 .. n : (\A i \in 1 .. k : P(s[i])) /\ (k < n => ~P(s[k+1]))

-----------------------------------------------------------------------------
(* One ring (ring/tx.go, detailed in Mlx5Tx). *)

\* Variant: a failed ring goes on offering room.
FreeSlotsThoughFailed(r) == r.room

FreeSlots(r) == IF r.failed THEN 0 ELSE r.room

Ascending(S) == SetToSortSeq(S, <)

\* The frames among the n posted behind at that a completion is asked for.  A
\* batch of single entries posted to its end asks with its last one, and any of
\* them may with WithCompletionEvery; one of multi-packet entries always asks
\* with its last.  On a queue pair in error every entry is flushed with a
\* completion of its own.
Asked(r, at, n, toEnd) ==
    {S \in SUBSET (at + 1 .. at + n) :
        /\ n > 0 /\ (multi \/ toEnd \/ r.bad # 0) => at + n \in S
        /\ multi /\ r.bad = 0 => S \subseteq {at + n}
        /\ ~multi /\ r.bad # 0 => S = at + 1 .. at + n}

\* The room left by n more packets: one entry of one to MaxBBs blocks each, or
\* multi-packet entries of any size.
RoomAfter(r, n) ==
    IF n = 0 THEN {r.room}
    ELSE IF multi THEN 0 .. r.room ELSE r.room - n .. r.room

\* Post: what may come of it, n frames taken and the ring after.  Within the room
\* offered it takes the descriptors up to one it refuses; of multi-packet
\* entries it may take fewer, as the room offered is an estimate.
Posted(r, descs) ==
    LET want  == Least(Len(descs), FreeSlots(r))
        good  == PrefixLen(descs, want, LAMBDA d : d.ok)
        at    == Len(r.fly)
        fly(n) == r.fly \o [i \in 1 .. n |-> descs[i].frame]
    IN  UNION {{[n |-> n,
                 ring |-> [r EXCEPT !.fly = fly(n), !.ends = @ \o Ascending(S), !.room = m]] :
                   S \in Asked(r, at, n, n = want), m \in RoomAfter(r, n)} :
               n \in IF multi THEN 0 .. good ELSE {good}}

\* How many of the reported completions a call for max frames takes: one
\* completion is never split, and only the first may exceed max.
Reads(r, max) ==
    IF r.rep = 0 THEN 0
    ELSE IF r.ends[1] >= max THEN 1
    ELSE CHOOSE j \in 1 .. r.rep :
             r.ends[j] <= max /\ \A i \in 1 .. r.rep : r.ends[i] <= max => i <= j

Released(r, max) ==
    LET j == Reads(r, max) IN SubSeq(r.fly, 1, IF j = 0 THEN 0 ELSE r.ends[j])

\* Complete: the rings that may come of it.  An empty ring has all its room, and
\* what a failed one has is not told apart.
Completed(r, max) ==
    LET j == Reads(r, max)
        n == Len(Released(r, max))
        failed == r.failed \/ (r.bad # 0 /\ r.bad <= j)
    IN  {[fly |-> SubSeq(r.fly, n + 1, Len(r.fly)),
          ends |-> [i \in 1 .. Len(r.ends) - j |-> r.ends[i + j] - n],
          rep |-> r.rep - j,
          bad |-> IF r.bad > j THEN r.bad - j ELSE Least(r.bad, 1),
          failed |-> failed, room |-> m] :
            m \in IF n = 0 THEN {r.room}
                  ELSE IF failed \/ n = Len(r.fly) THEN {Cap} ELSE r.room .. Cap}

-----------------------------------------------------------------------------
(* The queue's own steps, as functions of its state. *)

\* pool.Push of each frame: one of another pool, or one too many, is refused.
PushAll(free, s) ==
    LET mine == SelectSeq(s, LAMBDA f : f \in Own)
        n    == Least(Len(mine), Cardinality(Own) - Len(free))
    IN  [free |-> free \o SubSeq(mine, 1, n), refused |-> Elems(s) \ Elems(SubSeq(mine, 1, n))]

\* How many frames Alloc(n) yields: no more than the ring the next Transmit
\* will use says it can take.
AllocCount(n, r, free) == Least(n, Least(FreeSlots(r), Len(free)))

TakeLast(free, k) == SubSeq(free, Len(free) - k + 1, Len(free))
DropLast(free, k) == SubSeq(free, 1, Len(free) - k)

Rotate == IF next = NRings THEN 1 ELSE next + 1

InFlight == LET n[i \in 0 .. NRings] == IF i = 0 THEN 0 ELSE n[i-1] + Len(ring[i].fly)
            IN  n[NRings]

Failed == \E i \in Rings : ring[i].failed

-----------------------------------------------------------------------------
(* Calls.  Those that return without doing anything are not steps. *)

Init ==
    /\ forwards \in BOOLEAN /\ multi \in BOOLEAN
    /\ pool = CHOOSE s \in [1 .. Cardinality(Own) -> Own] : Elems(s) = Own
    /\ ring = [i \in Rings |-> EmptyRing]
    /\ next = 1 /\ app = Foreign /\ lost = {} /\ closed = FALSE
    /\ call = NoCall

Alloc(n) ==
    LET k == AllocCount(n, ring[next], pool)
    IN  /\ ~closed /\ Idle /\ k > 0
        /\ app' = app \cup Elems(TakeLast(pool, k))
        /\ pool' = DropLast(pool, k)
        /\ UNCHANGED <<forwards, multi, ring, next, lost, closed, call>>

Sendable == IF forwards THEN app ELSE app \cap Own

Transmit ==
    \E n \in 1 .. MaxBatch : \E fs \in [1 .. n -> Sendable], ok \in [1 .. n -> BOOLEAN] :
        LET descs == [i \in 1 .. n |-> [frame |-> fs[i], ok |-> ok[i]]]
        IN  /\ ~closed /\ Idle
            /\ \A i, j \in 1 .. n : fs[i] = fs[j] => i = j
            /\ \E p \in Posted(ring[next], descs) :
                  /\ ring' = [ring EXCEPT ![next] = p.ring]
                  /\ app' = app \ {fs[i] : i \in 1 .. p.n}
            /\ next' = Rotate
            /\ UNCHANGED <<forwards, multi, pool, lost, closed, call>>

Call(op, max, count) ==
    /\ ~closed /\ Idle
    /\ call' = [op |-> op, ring |-> 1, left |-> max, count |-> count]
    /\ UNCHANGED <<forwards, multi, pool, ring, next, app, lost, closed>>

CompleteCall(max) == ~forwards /\ Call("complete", max, 0)
ReclaimCall(max)  == forwards /\ Call("reclaim", max, 0)

\* SendFunc reclaims first, asking for all there can be.
SendFuncCall(count) == ~forwards /\ ~Failed /\ Call("send", count + InFlight, count)

\* Variant: the walk ends one ring early.
MoreRingsButLast == call.ring < NRings /\ call.left > 0

MoreRings == call.ring <= NRings /\ call.left > 0

\* Variant: Reclaim puts the frames on this queue's pool, as Complete does.
ToCallerNever == call.op = "none"

\* Where the frames of the call go: to its caller, or on the free list.
ToCaller == call.op = "reclaim"

\* One ring of the walk: Complete and SendFunc push its frames on the free
\* list, Reclaim hands them to the caller.
ReclaimRing ==
    LET r   == ring[call.ring]
        got == Released(r, call.left)
        p   == PushAll(pool, got)
    IN  /\ ~Idle /\ MoreRings
        /\ \E after \in Completed(r, call.left) : ring' = [ring EXCEPT ![call.ring] = after]
        /\ IF ToCaller
           THEN app' = app \cup Elems(got) /\ UNCHANGED <<pool, lost>>
           ELSE pool' = p.free /\ lost' = lost \cup p.refused /\ UNCHANGED app
        /\ call' = [call EXCEPT !.ring = @ + 1, !.left = @ - Len(got)]
        /\ UNCHANGED <<forwards, multi, next, closed>>

Return ==
    /\ call.op \in {"complete", "reclaim"} /\ ~MoreRings
    /\ call' = NoCall
    /\ UNCHANGED <<forwards, multi, pool, ring, next, app, lost, closed>>

Free(f) ==
    LET p == PushAll(pool, <<f>>)
    IN  /\ Idle /\ f \in app \cap Own
        /\ app' = app \ {f}
        /\ pool' = p.free
        /\ lost' = lost \cup p.refused
        /\ UNCHANGED <<forwards, multi, ring, next, closed, call>>

\* What SendFunc gives back: frames not built, and frames built and not taken.
Unsent(fs, built, sent) == SubSeq(fs, built + 1, Len(fs)) \o SubSeq(fs, sent + 1, built)

\* The rest of SendFunc: allocate, build, transmit.  build ends the batch after
\* built frames, with a zero or with a length outside the frame, which
\* abandons the batch.
SendBatch ==
    LET k    == AllocCount(call.count, ring[next], pool)
        fs   == TakeLast(pool, k)
        rest == DropLast(pool, k)
    IN  /\ call.op = "send" /\ ~MoreRings
        /\ call' = NoCall
        /\ \E built \in 0 .. k, badLength \in BOOLEAN :
              LET descs == [i \in 1 .. built |-> [frame |-> fs[i], ok |-> TRUE]]
                  quiet == k = 0 \/ (badLength /\ built < k)
                  GiveBack(s) == /\ pool' = PushAll(rest, s).free
                                 /\ lost' = lost \cup PushAll(rest, s).refused
              IN  \/ quiet /\ GiveBack(fs) /\ UNCHANGED <<ring, next>>
                  \/ /\ ~quiet /\ next' = Rotate
                     /\ \E p \in Posted(ring[next], descs) :
                           /\ ring' = [ring EXCEPT ![next] = p.ring]
                           /\ GiveBack(Unsent(fs, built, p.n))
        /\ UNCHANGED <<forwards, multi, app, closed>>

Close ==
    /\ ~closed /\ Idle
    /\ closed' = TRUE
    /\ UNCHANGED <<forwards, multi, pool, ring, next, app, lost, call>>

-----------------------------------------------------------------------------
(* The NIC. *)

\* The NIC reports the next completion that was asked for.
NicReport(i) ==
    /\ ring[i].rep < Len(ring[i].ends)
    /\ ring' = [ring EXCEPT ![i].rep = @ + 1]
    /\ UNCHANGED <<forwards, multi, pool, next, app, lost, closed, call>>

\* An entry fails before the next completion asked for: it, and every entry
\* behind it, is reported.
NicBreaks(i) ==
    LET r     == ring[i]
        first == IF r.rep = 0 THEN 1 ELSE r.ends[r.rep] + 1
        last  == Len(r.fly)
    IN  /\ r.bad = 0 /\ first <= last
        /\ \E S \in SUBSET (first .. last) :
              /\ {r.ends[j] : j \in r.rep + 1 .. Len(r.ends)} \cup {last} \subseteq S
              /\ multi \/ \E p \in first .. last : S = p .. last
              /\ ring' = [ring EXCEPT ![i].ends = SubSeq(@, 1, r.rep) \o Ascending(S),
                                      ![i].bad = r.rep + 1]
        /\ UNCHANGED <<forwards, multi, pool, next, app, lost, closed, call>>

\* Bound: frames are taken back one at a time or all at once.
Next ==
    \/ \E n \in 1 .. MaxBatch : Alloc(n) \/ SendFuncCall(n)
    \/ \E n \in {1, All} : CompleteCall(n) \/ ReclaimCall(n)
    \/ ReclaimRing \/ Return \/ SendBatch
    \/ Transmit
    \/ \E f \in Frames : Free(f)
    \/ Close
    \/ \E i \in Rings : NicReport(i) \/ NicBreaks(i)

Spec == Init /\ [][Next]_vars

\* The NIC reports what it finishes, a call runs to its end, and the transmit
\* cycle comes back to q.Complete(q.NumCompleted()): one that only ever asks
\* for a few frames may be served by the first ring alone.
Fairness ==
    /\ \A i \in Rings : WF_vars(NicReport(i))
    /\ WF_vars(ReclaimRing \/ Return \/ SendBatch)
    /\ SF_vars(CompleteCall(All) \/ ReclaimCall(All))

FairSpec == Spec /\ Fairness

-----------------------------------------------------------------------------
(* Properties. *)

Flying == UNION {Elems(ring[i].fly) : i \in Rings}

\* Every frame has exactly one owner - the free list, the application or one
\* place of one ring - and none is lost, whatever mix of calls, short
\* transmits, abandoned batches and failures happens.
OneOwner ==
    /\ lost = {}
    /\ app \cup Elems(pool) \cup Flying = Frames
    /\ Cardinality(app) + Len(pool) + InFlight = Cardinality(Frames)

\* A ring without room gets room again, or fails, or the queue is closed: Alloc,
\* which waits for the one ring whose turn it is, is not held up for ever by a
\* ring left full.
FullRingDrains ==
    \A i \in Rings :
        FreeSlots(ring[i]) = 0 ~> (FreeSlots(ring[i]) > 0 \/ ring[i].failed \/ closed)

\* How many frames of a ring the NIC has reported, and so is through with.
Reported(r) == IF r.rep = 0 THEN 0 ELSE r.ends[r.rep]

Finished(r) == Elems(SubSeq(r.fly, 1, Reported(r)))
Unfinished(r) == Elems(SubSeq(r.fly, Reported(r) + 1, Len(r.fly)))

Contract == INSTANCE TxContract WITH
    held <- app \cup Elems(pool),
    nic <- UNION {Unfinished(ring[i]) : i \in Rings},
    finished <- UNION {Finished(ring[i]) : i \in Rings},
    dead <- closed

\* The same for one ring, which is out of service by itself.
RingContract(i) == INSTANCE TxContract WITH
    held <- Frames \ Elems(ring[i].fly),
    nic <- Unfinished(ring[i]),
    finished <- Finished(ring[i]),
    dead <- ring[i].failed

\* Every call of the queue is a step the TxQueue interface allows, and so is it
\* for each ring: a frame comes back only after its own ring has reported it and
\* only through Complete, Reclaim or SendFunc; a closed queue accepts nothing, and
\* a ring that has failed never again, though its turn comes round and the
\* others accept.
KeepsTxContract ==
    /\ Contract!Spec
    /\ \A i \in Rings : RingContract(i)!Init
    /\ [][\A i \in Rings : [RingContract(i)!Next]_(RingContract(i)!vars)]_vars

\* What Err and errors.go say: "A failed queue accepts no more packets" and "One
\* dead ring fails the whole queue".
FailedTakesNothing == [][Failed => Flying' \subseteq Flying]_vars

=============================================================================
