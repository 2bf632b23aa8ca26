------------------------------- MODULE Mlx5Tx -------------------------------
(***************************************************************************)
(* The send queue of the mlx5 backend: mlx5/internal/ring/tx.go, with the  *)
(* NIC it talks to, as mlx5/internal/mocknic models it.                    *)
(*                                                                         *)
(* One goroutine calls Post and Complete; the NIC runs beside it.  Each    *)
(* iteration of the loops of Post and Complete is a step of its own, so    *)
(* that the NIC may execute entries and write completions between any two  *)
(* of them.                                                                *)
(*                                                                         *)
(* Block and slot cursors run free, as in the code (where they wrap at     *)
(* 2^32, far beyond any bound used here); what passes through the hardware *)
(* keeps its width: block indices are known to the NIC, and come back in   *)
(* completions, modulo W (2^16 in the code).                               *)
(*                                                                         *)
(* A packet's length counts octowords (16 bytes), the unit the entry       *)
(* arithmetic rounds to; length 0 stands for every descriptor descOK       *)
(* refuses.                                                                *)
(***************************************************************************)
EXTENDS Integers, Sequences, FiniteSets

CONSTANTS
    Frames,       \* the frames that pass through this queue
    BBs,          \* blocks in the send queue (t.bbs)
    MultiSlots,   \* packets recorded (len(t.slots)) with multi-packet entries
    CQEntries,    \* entries of the completion queue
    W,            \* the NIC's block index is taken modulo W
    Modes,        \* the kinds of queue considered
    InlineLen,    \* octowords of a packet copied into an ordinary entry; only
                  \*   where there are no multi-packet entries
    Lens,         \* the packet lengths descriptors name, 0 for a refused one
    MPWMaxLen,    \* longest packet copied into a multi-packet entry
    MaxDS,        \* octowords an entry may occupy
    SignalEvery,  \* WithCompletionEvery, 0 for once per batch
    Faults,       \* kinds of completion a misbehaving NIC may write
    MaxBatch,     \* bound: descriptors in one Post, frames asked of Complete
    MaxPi,        \* bound: blocks posted over the whole behaviour
    MaxFaults     \* bound: faulty completions over the whole behaviour

FaultKinds == {"opcode", "format", "stale"}

ASSUME SizesAssumption ==
    /\ BBs \in Nat \ {0} /\ MultiSlots \in Nat /\ W \in Nat \ {0}
    /\ CQEntries \in Nat /\ BBs <= CQEntries
    /\ BBs <= MultiSlots /\ BBs < W /\ W % BBs = 0
ASSUME LengthsAssumption ==
    /\ Modes \subseteq {"single", "pointer", "copy"}
    /\ InlineLen \in Nat /\ Lens \subseteq Nat /\ MPWMaxLen \in Nat
    /\ MaxDS \in Nat /\ MaxDS >= 4 /\ MaxDS % 4 = 0
    /\ SignalEvery \in Nat
ASSUME BoundsAssumption ==
    /\ Faults \subseteq FaultKinds
    /\ MaxBatch \in Nat /\ MaxPi \in Nat /\ MaxFaults \in Nat

VARIABLES
    mode,                  \* t.mpw and t.mpw.Pointer(): fixed
    pi, head,              \* next block to write, oldest block not known finished
    slots, slotHead, slotTail,  \* the frames in flight, a ring
    meta,                  \* per block: slotTail and bbs of the entry starting there
    sinceSignal,           \* packets since the last entry that asked for a report
    failed,                \* t.failed is set
    pc,                    \* what the goroutine is inside: "idle", "post", "complete"
    todo, lastIdx,         \* Post: descriptors not yet posted, last entry written
    max, release, newHead, haveAny, completed,  \* Complete: its locals
    out,                   \* frames that belong to the caller
    sq,                    \* send queue memory, one record per block
    doorbell,              \* the producer index last published, modulo W
    nicPos, nicErr,        \* NIC: blocks executed, queue pair in the error state
    cq,                    \* completions written and not yet consumed, in order
    faults                 \* faulty completions written so far

ringVars == <<pi, head, slots, slotHead, slotTail, meta, sinceSignal>>
postVars == <<todo, lastIdx>>
callVars == <<max, release, newHead, haveAny, completed>>
nicVars  == <<nicPos, nicErr, faults>>
vars == <<mode, ringVars, failed, pc, postVars, callVars, out, sq, doorbell, nicVars, cq>>

-----------------------------------------------------------------------------
(* Sizes of entries, in blocks of four octowords. *)

OctsPerBB == 4

Blocks(ds) == (ds + OctsPerBB - 1) \div OctsPerBB

Least(a, b) == IF a <= b THEN a ELSE b

Slots  == IF mode = "single" THEN BBs ELSE MultiSlots
Inline == IF mode = "single" THEN InlineLen ELSE 0

\* An ordinary entry: control segment, Ethernet segment with the inlined part
\* of the packet, and a data segment only if something is left to point at.
SendBlocks(len) ==
    LET inl == Least(len, Inline)
    IN  Blocks(1 + (1 + inl) + (IF len > inl THEN 1 ELSE 0))

MaxBBs == Blocks(1 + (1 + Inline) + 1)

\* What one copied packet takes of a multi-packet entry.
MpwPacketOctowords(len) == len + 1

-----------------------------------------------------------------------------
(* Room. *)

\* Variant: one block more than there is.
FreeBlocksOneMore == BBs - (pi - head) + 1

FreeBlocks == BBs - (pi - head)
InFlight   == slotTail - slotHead

PerEntry == MaxDS - 2
EntryBBs == (2 + PerEntry) \div OctsPerBB

RoomByBlocks(free) ==
    IF mode = "pointer"
    THEN LET rem == (free % EntryBBs) * OctsPerBB - 2
         IN  (free \div EntryBBs) * PerEntry + (IF rem > 0 THEN rem ELSE 0)
    ELSE (free * OctsPerBB) \div MpwPacketOctowords(MPWMaxLen)

FreeSlots ==
    IF failed THEN 0
    ELSE IF mode = "single" THEN FreeBlocks \div MaxBBs
    ELSE Least(RoomByBlocks(FreeBlocks), Slots - InFlight)

-----------------------------------------------------------------------------
(* Choosing the entry the next iteration of Post writes: k packets in bbs  *)
(* blocks, and whether the loop stops after it.  k = 0: the loop ends.     *)

Desc == [frame : Frames, len : Lens]

DescOK(d) == d.len # 0

NoEntry == [k |-> 0, bbs |-> 0, stop |-> TRUE]

SingleEntry ==
    IF todo = <<>> \/ ~DescOK(todo[1]) THEN NoEntry
    ELSE [k |-> 1, bbs |-> SendBlocks(todo[1].len), stop |-> FALSE]

\* The octowords of an entry that carries copies of the first k packets: two
\* leading segments, then the packets.
CopiedDS(k) ==
    2 + Cardinality(UNION {{j} \X (1 .. MpwPacketOctowords(todo[j].len)) : j \in 1 .. k})

\* How many of the first n descriptors one multi-packet entry carries.
Fits(n) ==
    IF mode = "pointer" THEN Least(n, Least(PerEntry, BBs * OctsPerBB - 2))
    ELSE LET fit == {i \in 0 .. n : /\ CopiedDS(i) <= MaxDS
                                    /\ \A j \in 1 .. i : todo[j].len <= MPWMaxLen}
         IN  CHOOSE i \in fit : \A j \in fit : j <= i

MpwBlocks(k) == Blocks(IF mode = "pointer" THEN 2 + k ELSE CopiedDS(k))

MultiEntry ==
    LET free   == FreeBlocks
        limit  == Least(Least(PerEntry, Len(todo)), Slots - InFlight)
        \* the descriptors gathered: up to the first that is refused
        good   == CHOOSE n \in 0 .. limit :
                      /\ \A i \in 1 .. n : DescOK(todo[i])
                      /\ n < limit => ~DescOK(todo[n+1])
        fits   == Fits(good)
        entry  == IF fits >= 2 THEN [k |-> fits, bbs |-> MpwBlocks(fits)]
                  ELSE [k |-> 1, bbs |-> IF MaxBBs > free THEN 0
                                         ELSE SendBlocks(todo[1].len)]
    IN  IF limit <= 0 \/ free = 0 \/ good = 0 THEN NoEntry
        ELSE IF entry.bbs = 0 \/ entry.bbs > free THEN NoEntry
        ELSE [k |-> entry.k, bbs |-> entry.bbs, stop |-> good < limit]

NextEntry == IF mode = "single" THEN SingleEntry ELSE MultiEntry

-----------------------------------------------------------------------------
(* Post and postMulti. *)

NoFrame == "none"
NoMeta  == [slotTail |-> 0, bbs |-> 0]
NoWqe   == [pos |-> -1, bbs |-> 0, frames |-> {}, signaled |-> FALSE]
NoIdx   == -1

\* The batches a caller may pass: frames it owns, each once.
Batches ==
    {b \in UNION {[1 .. n -> [frame : out, len : Lens]] : n \in 1 .. MaxBatch} :
        \A i, j \in DOMAIN b : b[i].frame = b[j].frame => i = j}

\* Post up to its loop.  A failed or full queue takes nothing and changes
\* nothing, so those returns are not steps.
PostCall ==
    /\ pc = "idle"
    /\ FreeSlots > 0
    /\ pi + MaxBatch * MaxBBs <= MaxPi
    /\ \E descs \in Batches :
          todo' = SubSeq(descs, 1, Least(Len(descs), FreeSlots))
    /\ pc' = "post"
    /\ UNCHANGED <<mode, ringVars, failed, lastIdx, callVars, out, sq, doorbell, nicVars, cq>>

\* Variant: the last entry of a batch is not singled out.
SignalsByCountOnly == SignalEvery # 0 /\ sinceSignal + 1 >= SignalEvery

\* Whether the entry for the first descriptor of todo asks for a completion: the last one of
\* the batch does, and every SignalEvery-th packet.
Signals == Len(todo) = 1 \/ (SignalEvery # 0 /\ sinceSignal + 1 >= SignalEvery)

\* The block at distance (b - a) after block a of the ring.
Ahead(b, a, size) == (b - a) % size

PutWqe(e, signaled) ==
    [b \in 0 .. BBs - 1 |->
        IF b = pi % BBs
        THEN [pos |-> pi, bbs |-> e.bbs, signaled |-> signaled,
              frames |-> {todo[i].frame : i \in 1 .. e.k}]
        ELSE IF Ahead(b, pi, BBs) < e.bbs THEN NoWqe ELSE sq[b]]

\* One iteration of the loop of Post, or of postMulti.
PostEntry ==
    /\ pc = "post"
    /\ \E e \in {NextEntry}, signaled \in {mode = "single" /\ Signals} :
        /\ e.k > 0
        /\ sq' = PutWqe(e, signaled)
        /\ slots' = [s \in 0 .. Slots - 1 |->
                        IF Ahead(s, slotTail, Slots) < e.k
                        THEN todo[Ahead(s, slotTail, Slots) + 1].frame ELSE slots[s]]
        /\ slotTail' = slotTail + e.k
        /\ meta' = [meta EXCEPT ![pi % BBs] = [slotTail |-> slotTail + e.k, bbs |-> e.bbs]]
        /\ pi' = pi + e.bbs
        /\ lastIdx' = pi
        /\ sinceSignal' = IF mode # "single" THEN sinceSignal
                          ELSE IF signaled THEN 0 ELSE sinceSignal + 1
        /\ out' = out \ {todo[i].frame : i \in 1 .. e.k}
        /\ todo' = IF e.stop THEN <<>> ELSE SubSeq(todo, e.k + 1, Len(todo))
    /\ UNCHANGED <<mode, head, slotHead, failed, pc, callVars, doorbell, nicVars, cq>>

\* The index the doorbell carries.
PublishedIndex == pi % W

\* setSignaled on the last entry written.
SetSignaled ==
    [b \in 0 .. BBs - 1 |->
        [pos |-> sq[b].pos, bbs |-> sq[b].bbs, frames |-> sq[b].frames,
         signaled |-> sq[b].signaled \/ b = lastIdx % BBs]]

\* After the loop: setSignaled on the last entry (postMulti only), then one
\* doorbell.  With nothing posted there is nothing to publish.
PostPublish ==
    /\ pc = "post"
    /\ NextEntry.k = 0
    /\ sq' = IF mode = "single" \/ lastIdx = NoIdx THEN sq
             ELSE SetSignaled
    /\ doorbell' = IF lastIdx = NoIdx THEN doorbell ELSE PublishedIndex
    /\ pc' = "idle"
    /\ todo' = <<>>
    /\ lastIdx' = NoIdx
    /\ UNCHANGED <<mode, ringVars, failed, callVars, out, nicVars, cq>>

-----------------------------------------------------------------------------
(* Complete. *)

\* A completion as the NIC writes it.  The code sees the opcode, the format
\* and WQECounter; pos, the whole block index, and at, how far the NIC had
\* got, are there for the invariants.
WQECounter(c) == c.pos % W

\* Variant: the record is believed without asking whether its entry is still
\* in flight.
EntryForUnchecked(c) ==
    LET delta == (WQECounter(c) - head) % W
        m     == meta[(head + delta) % BBs]
    IN  [slotTail |-> m.slotTail, head |-> head + delta + m.bbs, ok |-> m.bbs # 0]

\* entryFor: where in the slot ring, and how far in the send queue, the entry
\* that a completion names has got; ok only for an entry in flight.
EntryFor(c) ==
    LET delta == (WQECounter(c) - head) % W
        m     == meta[(head + delta) % BBs]
    IN  [slotTail |-> m.slotTail, head |-> head + delta + m.bbs,
         ok |-> /\ delta < pi - head
                /\ m.bbs # 0
                /\ m.slotTail - slotHead \in 1 .. slotTail - slotHead]

CompleteCall ==
    /\ pc = "idle"
    /\ \E m \in 1 .. MaxBatch : max' = m
    /\ pc' = "complete"
    /\ UNCHANGED <<mode, ringVars, failed, postVars, release, newHead, haveAny, completed,
                   out, sq, doorbell, nicVars, cq>>

\* Whether the loop of Complete takes another completion.  It never splits what
\* one covers: only the first may exceed max.
CompleteGoesOn ==
    /\ completed < CQEntries
    /\ haveAny => release - slotHead < max
    /\ cq # <<>>
    /\ cq[1].format = "nodata"
    /\ cq[1].opcode # "other" /\ EntryFor(cq[1]).ok /\ haveAny
          => EntryFor(cq[1]).slotTail - slotHead <= max

\* Variant: an error completion releases nothing.
AccountsButErrors(c) == c.opcode = "req" /\ EntryFor(c).ok

\* Whether a completion accounts for frames: an error completion does too.
Accounts(c) == c.opcode # "other" /\ EntryFor(c).ok

\* One iteration: the completion is consumed.
CompleteEntry ==
    LET c == cq[1]
        e == EntryFor(c)
    IN  /\ pc = "complete"
        /\ CompleteGoesOn
        /\ cq' = Tail(cq)
        /\ completed' = completed + 1
        /\ failed' = (failed \/ c.opcode = "reqerr")
        /\ IF Accounts(c)
           THEN release' = e.slotTail /\ newHead' = e.head /\ haveAny' = TRUE
           ELSE UNCHANGED <<release, newHead, haveAny>>
        /\ UNCHANGED <<mode, ringVars, pc, postVars, max, out, sq, doorbell, nicVars>>

\* Variants: everything in flight is taken back; the first slot is skipped.
FramesInFlight(slot) == {slots[s % Slots] : s \in slotHead .. slotTail - 1}
FramesPastFirst(slot) == {slots[s % Slots] : s \in slotHead + 1 .. slot - 1}

FramesUpTo(slot) == {slots[s % Slots] : s \in slotHead .. slot - 1}

\* After the loop: the frames up to release go back to the caller, and the
\* completions read are released to the NIC.
CompleteReturn ==
    /\ pc = "complete"
    /\ ~CompleteGoesOn
    /\ IF haveAny
       THEN /\ out' = out \cup FramesUpTo(release)
            /\ slotHead' = release
            /\ head' = newHead
       ELSE UNCHANGED <<out, slotHead, head>>
    /\ pc' = "idle"
    /\ max' = 0 /\ release' = 0 /\ newHead' = 0 /\ haveAny' = FALSE /\ completed' = 0
    /\ UNCHANGED <<mode, pi, slots, slotTail, meta, sinceSignal, failed, postVars, sq,
                   doorbell, nicVars, cq>>

-----------------------------------------------------------------------------
(* The NIC.  It executes the published entries in order and reports those  *)
(* that asked for it; an entry that fails is reported whether it asked or  *)
(* not, and puts the queue pair in the error state, in which every entry   *)
(* behind it is flushed with an error completion of its own.               *)

\* producerIndex: the published index, extended to a whole block index.
Published == nicPos + ((doorbell - nicPos) % W)

Completion(opcode, format, pos, at) ==
    [opcode |-> opcode, format |-> format, pos |-> pos, at |-> at]

NicRead == sq[nicPos % BBs]

NicExecute ==
    /\ ~nicErr /\ nicPos # Published
    /\ nicPos' = nicPos + NicRead.bbs
    /\ cq' = IF NicRead.signaled
             THEN Append(cq, Completion("req", "nodata", nicPos, nicPos')) ELSE cq
    /\ UNCHANGED <<mode, ringVars, failed, pc, postVars, callVars, out, sq, doorbell, nicErr, faults>>

\* The entry that fails (nicErr becomes true) and those flushed behind it.
NicError ==
    /\ nicPos # Published
    /\ nicErr' = TRUE
    /\ nicPos' = nicPos + NicRead.bbs
    /\ cq' = Append(cq, Completion("reqerr", "nodata", nicPos, nicPos'))
    /\ UNCHANGED <<mode, ringVars, failed, pc, postVars, callVars, out, sq, doorbell, faults>>

NicFails   == ~nicErr /\ NicError
NicFlushes == nicErr /\ NicError

\* Completions that hardware in order never writes.  A stale one names any
\* block passed within the last lap of the NIC's counter (or, early on, one
\* never posted): an entry already finished, or the middle of one.
FaultyCompletions ==
    {Completion("other", "nodata", nicPos, nicPos) : k \in Faults \cap {"opcode"}}
    \cup {Completion("req", "other", nicPos, nicPos) : k \in Faults \cap {"format"}}
    \cup {Completion("req", "nodata", nicPos - d, nicPos) :
             d \in IF "stale" \in Faults THEN 1 .. W - BBs ELSE {}}

NicMisbehaves ==
    /\ faults < MaxFaults
    /\ completed + Len(cq) < CQEntries
    /\ \E c \in FaultyCompletions : cq' = Append(cq, c)
    /\ faults' = faults + 1
    /\ UNCHANGED <<mode, ringVars, failed, pc, postVars, callVars, out, sq, doorbell, nicPos, nicErr>>

-----------------------------------------------------------------------------

Init ==
    /\ mode \in Modes
    /\ pi = 0 /\ head = 0 /\ slotHead = 0 /\ slotTail = 0 /\ sinceSignal = 0
    /\ slots = [s \in 0 .. Slots - 1 |-> NoFrame]
    /\ meta = [b \in 0 .. BBs - 1 |-> NoMeta]
    /\ failed = FALSE /\ pc = "idle" /\ todo = <<>> /\ lastIdx = NoIdx
    /\ max = 0 /\ release = 0 /\ newHead = 0 /\ haveAny = FALSE /\ completed = 0
    /\ out = Frames
    /\ sq = [b \in 0 .. BBs - 1 |-> NoWqe]
    /\ doorbell = 0 /\ nicPos = 0 /\ nicErr = FALSE /\ cq = <<>> /\ faults = 0

Next ==
    \/ PostCall \/ PostEntry \/ PostPublish
    \/ CompleteCall \/ CompleteEntry \/ CompleteReturn
    \/ NicExecute \/ NicFails \/ NicFlushes \/ NicMisbehaves

Spec == Init /\ [][Next]_vars

\* The NIC keeps executing, a call once made runs to its end, and the
\* goroutine's cycle comes back to Complete however often it posts.
Fairness ==
    /\ WF_vars(NicExecute \/ NicFlushes)
    /\ WF_vars(PostEntry \/ PostPublish \/ CompleteEntry \/ CompleteReturn)
    /\ SF_vars(CompleteCall)

FairSpec == Spec /\ Fairness

-----------------------------------------------------------------------------
(* Properties. *)

Meta == [slotTail : Nat, bbs : Nat]
Wqe  == [pos : Nat \cup {-1}, bbs : Nat, frames : SUBSET Frames, signaled : BOOLEAN]
Cqe  == [opcode : {"req", "reqerr", "other"}, format : {"nodata", "other"},
         pos : Int, at : Nat]

\* Every variable has its type.
TypeOK ==
    /\ mode \in Modes
    /\ pi \in Nat /\ head \in Nat /\ slotHead \in Nat /\ slotTail \in Nat
    /\ slots \in [0 .. Slots - 1 -> Frames \cup {NoFrame}]
    /\ meta \in [0 .. BBs - 1 -> Meta]
    /\ sinceSignal \in Nat /\ failed \in BOOLEAN
    /\ pc \in {"idle", "post", "complete"}
    /\ todo \in Seq(Desc) /\ lastIdx \in Nat \cup {NoIdx}
    /\ max \in Nat /\ release \in Nat /\ newHead \in Nat /\ completed \in Nat
    /\ haveAny \in BOOLEAN
    /\ out \subseteq Frames
    /\ sq \in [0 .. BBs - 1 -> Wqe]
    /\ doorbell \in 0 .. W - 1 /\ nicPos \in Nat /\ nicErr \in BOOLEAN
    /\ cq \in Seq(Cqe)
    /\ faults \in Nat

\* The frames of the entries the NIC has yet to execute, published or not.
NicWillRead == UNION {sq[b].frames : b \in {a \in 0 .. BBs - 1 : sq[a].pos >= nicPos}}

\* Complete never hands back a frame the NIC has still to read, whatever the
\* interleaving of entries, completions, failures and stale completions
\* ("every completion is checked against what is actually outstanding").
NoEarlyRelease == out \cap NicWillRead = {}

InFlightFrames == {slots[s % Slots] : s \in slotHead .. slotTail - 1}

\* Every frame is with the caller or in flight, never both, and no frame is in
\* flight twice: nothing Post took is lost or returned twice by the slot ring.
FramesConserved ==
    /\ out \cup InFlightFrames = Frames
    /\ out \cap InFlightFrames = {}
    /\ \A s, t \in slotHead .. slotTail - 1 : slots[s % Slots] = slots[t % Slots] => s = t

\* What the NIC reads at its position is an entry written for that position:
\* Post never overwrites an entry the NIC has not executed, and the doorbell
\* never runs past what was written.
NicReadsOwnEntry == nicPos # Published => NicRead.pos = nicPos /\ NicRead.bbs > 0

\* A completion the code accepts names the first block of an entry in flight
\* that the NIC has executed; one that is stale, or that names the middle of an
\* entry, is not accepted, though block records outlive their entries.
AcceptedIsFinished ==
    cq # <<>> =>
        LET c == cq[1]
            e == EntryFor(c)
        IN  c.opcode # "other" /\ c.format = "nodata" /\ e.ok
               => /\ sq[c.pos % BBs].pos = c.pos
                  /\ e.head <= nicPos

\* The NIC is never made to write a completion over one that has not been
\* released to it: completions read in a call under way still take their place.
CqNeverOverruns == completed + Len(cq) <= CQEntries

\* A queue with no room has a report coming for its youngest entry, so a
\* caller that waits for room is not waiting for ever.
FullQueueReports ==
    pc = "idle" /\ FreeSlots = 0 /\ ~failed =>
        \E b \in 0 .. BBs - 1 : sq[b].pos + sq[b].bbs = pi /\ sq[b].signaled

\* Post takes everything FreeSlots offered, up to a descriptor it refuses:
\* "everything it offers, the next Transmit takes".
PromiseKept ==
    pc = "post" /\ NextEntry.k = 0 /\ todo # <<>> => ~DescOK(todo[1])

\* An entry holds f, and it or one behind it asked for a completion.
Asked(f) ==
    \E a, b \in 0 .. BBs - 1 :
        /\ f \in sq[a].frames /\ sq[a].pos >= head
        /\ sq[b].signaled /\ sq[b].pos >= sq[a].pos

\* Every frame the queue takes and a completion is asked for comes back, also
\* when the queue fails with entries outstanding, unless the NIC writes a
\* completion hardware never writes.
AllReturned ==
    <>(faults > 0) \/ \A f \in Frames : (f \notin out /\ Asked(f)) ~> f \in out

=============================================================================
