---------------------------- MODULE Mlx5TxProofs ----------------------------
(***************************************************************************)
(* Proofs about the send queue, for every size of the ring, every kind of  *)
(* entry and every behaviour of the NIC that Mlx5Tx allows: the inductive  *)
(* invariant, its types, and that the steps of the NIC and the calls       *)
(* preserve it.                                                            *)
(***************************************************************************)
EXTENDS Mlx5Tx, TLAPS

-----------------------------------------------------------------------------
(* The inductive invariant. *)

Blks == 0 .. BBs - 1

\* The entries in flight: written, and not known to the code to be finished.
Live(b) == sq[b].pos >= head
End(b)  == sq[b].pos + sq[b].bbs

\* The frames in the slots from s up to t.
Window(s, t) == {slots[i % Slots] : i \in s .. t - 1}

\* The cursors are in order, and the ring holds no more than it has room for.
Order ==
    /\ head <= nicPos /\ nicPos <= Published /\ Published <= pi
    /\ pi - head <= BBs
    /\ slotHead <= slotTail /\ slotTail - slotHead <= Slots
    /\ mode = "single" => slotTail - slotHead <= pi - head

\* An entry in flight lies at its block, is recorded there, and its frames are
\* in the slots up to the one recorded.
Entries ==
    \A b \in Blks : Live(b) =>
        /\ sq[b].pos % BBs = b
        /\ sq[b].bbs >= 1 /\ End(b) <= pi
        /\ meta[b].bbs = sq[b].bbs
        /\ slotHead < meta[b].slotTail /\ meta[b].slotTail <= slotTail
        /\ sq[b].frames \subseteq Window(slotHead, meta[b].slotTail)
        /\ mode = "single" => slotTail - meta[b].slotTail <= pi - End(b)

\* Entries do not overlap, in the blocks or in the slots.
Ordered ==
    \A a, b \in Blks : Live(a) /\ Live(b) /\ sq[a].pos < sq[b].pos =>
        /\ End(a) <= sq[b].pos
        /\ meta[a].slotTail < meta[b].slotTail
        /\ sq[b].frames \subseteq Window(meta[a].slotTail, meta[b].slotTail)

\* Every block in flight is part of an entry.
Covered ==
    \A p \in head .. pi - 1 : \E b \in Blks : Live(b) /\ sq[b].pos <= p /\ p < End(b)

\* The record of a block where no entry in flight starts is recognisable.
StaleRecords ==
    \A b \in Blks : ~Live(b) => meta[b].bbs = 0 \/ meta[b].slotTail <= slotHead

\* No entry in flight reaches across block p.
Boundary(p) == \A b \in Blks : Live(b) /\ sq[b].pos < p => End(b) <= p

Boundaries == Boundary(nicPos) /\ Boundary(Published)

\* A completion that will be decoded names a block before the place the NIC had
\* reached, by less than a lap of its counter; completions are in order.
Report(c) ==
    /\ head <= c.at /\ c.at <= nicPos /\ Boundary(c.at)
    /\ c.opcode # "other" /\ c.format = "nodata"
          => c.at - (W - BBs) <= c.pos /\ c.pos < c.at

Reports ==
    /\ \A i \in DOMAIN cq : Report(cq[i])
    /\ \A i, j \in DOMAIN cq : i <= j => cq[i].at <= cq[j].at

\* What is left of a batch: frames of the caller, each once, and room for them.
Batch ==
    pc = "post" =>
        /\ \A i \in DOMAIN todo : todo[i].frame \in out
        /\ \A i, j \in DOMAIN todo : todo[i].frame = todo[j].frame => i = j
        /\ mode = "single" => Len(todo) * MaxBBs <= FreeBlocks

\* What Complete is about to release ends at an entry the NIC has executed.
Taking ==
    /\ haveAny => pc = "complete"
    /\ haveAny => \E b \in Blks :
          /\ Live(b) /\ newHead = End(b) /\ release = meta[b].slotTail
          /\ newHead <= nicPos
          /\ \A i \in DOMAIN cq : newHead <= cq[i].at

RingInv ==
    /\ Order /\ Entries /\ Ordered /\ Covered /\ StaleRecords /\ Boundaries
    /\ Reports /\ Batch /\ Taking /\ FramesConserved

-----------------------------------------------------------------------------
(* Arithmetic modulo the size of a ring. *)

LEMMA Transitive ==
    ASSUME NEW a \in Int, NEW b \in Int, NEW c \in Int, a <= b, b <= c
    PROVE  a <= c
OBVIOUS

LEMMA DivMod ==
    ASSUME NEW n \in Nat \ {0}, NEW a \in Int
    PROVE  a \div n \in Int /\ a % n \in 0 .. n - 1 /\ a = n * (a \div n) + (a % n)
BY SMT

LEMMA MultipleInRange ==
    ASSUME NEW n \in Nat \ {0}, NEW q \in Int, n * q < n, -n < n * q
    PROVE  q = 0
BY SMT

LEMMA ModSame ==
    ASSUME NEW n \in Nat \ {0}, NEW a \in Int, NEW b \in Int,
           a % n = b % n, a - b < n, b - a < n
    PROVE  a = b
<1> DEFINE p == a \div n  q == b \div n
<1>1. p \in Int /\ q \in Int /\ a = n * p + (a % n) /\ b = n * q + (a % n)
  BY DivMod
<1>2. a % n \in 0 .. n - 1
  BY DivMod
<1> HIDE DEF p, q
<1>3. a - b = n * (p - q)
  BY <1>1, <1>2, SMT
<1>4. p - q = 0
  BY <1>1, <1>3, MultipleInRange
<1> QED BY <1>3, <1>4, <1>1, SMT

LEMMA ModUnique ==
    ASSUME NEW n \in Nat \ {0}, NEW q \in Int, NEW r \in 0 .. n - 1
    PROVE  (n * q + r) % n = r
BY SMT

LEMMA Rearranged ==
    ASSUME NEW n \in Int, NEW a \in Int, NEW b \in Int, NEW p \in Int, NEW q \in Int,
           NEW s \in Int, NEW r \in Int, a = n * p + s, a - b = n * q + r
    PROVE  s - b = n * (q - p) + r
BY SMT

LEMMA ModShift ==
    ASSUME NEW n \in Nat \ {0}, NEW a \in Int, NEW b \in Int
    PROVE  ((a % n) - b) % n = (a - b) % n
<1> DEFINE p == a \div n  q == (a - b) \div n  s == a % n  r == (a - b) % n
<1>1. p \in Int /\ s \in 0 .. n - 1 /\ a = n * p + s
  BY DivMod
<1>2. q \in Int /\ r \in 0 .. n - 1 /\ a - b = n * q + r
  <2> DEFINE d == a - b
  <2>1. d \in Int
    OBVIOUS
  <2> HIDE DEF d
  <2>2. d \div n \in Int /\ d % n \in 0 .. n - 1 /\ d = n * (d \div n) + (d % n)
    BY <2>1, DivMod
  <2> QED BY <2>2 DEF d
<1> HIDE DEF p, q, s, r
<1>3. s - b = n * (q - p) + r
  BY <1>1, <1>2, Rearranged
<1>4. (n * (q - p) + r) % n = r
  BY <1>1, <1>2, ModUnique
<1> QED BY <1>3, <1>4 DEF s, r

LEMMA ModSmall ==
    ASSUME NEW n \in Nat \ {0}, NEW a \in 0 .. n - 1
    PROVE  a % n = a
BY SMT

-----------------------------------------------------------------------------
(* Sizes, and the shapes of what the queue holds. *)

LEMMA Sizes ==
    ASSUME TypeOK
    PROVE  /\ Slots \in Nat \ {0} /\ Inline \in Nat /\ MaxBBs \in Nat \ {0}
           /\ PerEntry \in Nat \ {0, 1} /\ FreeBlocks \in Int /\ InFlight \in Int
           /\ mode \in {"single", "pointer", "copy"}
BY SizesAssumption, LengthsAssumption
   DEF TypeOK, Slots, Inline, MaxBBs, Blocks, OctsPerBB, PerEntry, FreeBlocks, InFlight

\* An ordinary entry is no longer than FreeSlots allows for.
LEMMA SendSize ==
    ASSUME TypeOK, NEW len \in Nat
    PROVE  SendBlocks(len) \in 1 .. MaxBBs
BY Sizes DEF SendBlocks, MaxBBs, Blocks, OctsPerBB, Least

LEMMA TodoTyped ==
    ASSUME TypeOK
    PROVE  /\ Len(todo) \in Nat
           /\ \A j \in 1 .. Len(todo) : todo[j].frame \in Frames /\ todo[j].len \in Nat
<1>1. todo \in Seq(Desc)
  BY DEF TypeOK
<1>2. \A j \in 1 .. Len(todo) : todo[j] \in Desc
  BY <1>1
<1>3. \A d \in Desc : d.frame \in Frames /\ d.len \in Nat
  BY Zenon, LengthsAssumption DEF Desc
<1>4. Len(todo) \in Nat
  BY <1>1
<1> QED BY <1>2, <1>3, <1>4

\* The entry Post chooses is within the batch and the room left (shown in Mlx5TxSafety).
EntrySound ==
    /\ NextEntry.k \in Nat /\ NextEntry.stop \in BOOLEAN
    /\ NextEntry.k > 0 =>
          /\ NextEntry.k <= Len(todo) /\ NextEntry.bbs \in Nat \ {0}
          /\ mode = "single" => NextEntry.k = 1 /\ NextEntry.bbs <= MaxBBs
          /\ mode # "single" => /\ NextEntry.bbs <= FreeBlocks
                                /\ NextEntry.k <= Slots - InFlight

\* In a queue of ordinary entries FreeSlots counts the longest of them.
LEMMA RoomOffered ==
    ASSUME TypeOK
    PROVE  /\ FreeSlots \in Int
           /\ mode = "single" /\ FreeSlots > 0 => FreeSlots * MaxBBs <= FreeBlocks
<1>1. CASE failed
  BY <1>1 DEF FreeSlots
<1>2. CASE ~failed /\ mode = "single"
  <2> DEFINE m == MaxBBs  f == FreeBlocks
  <2>1. m \in Nat \ {0} /\ f \in Int
    BY Sizes
  <2>2. FreeSlots = f \div m
    BY <1>2 DEF FreeSlots
  <2> HIDE DEF m, f
  <2>3. f \div m \in Int /\ f % m \in 0 .. m - 1 /\ f = m * (f \div m) + (f % m)
    BY <2>1, DivMod
  <2> DEFINE q == f \div m  r == f % m
  <2> HIDE DEF q, r
  <2>4. q \in Int /\ r \in 0 .. m - 1 /\ f = m * q + r
    BY <2>3 DEF q, r
  <2>5. q * m <= f
    BY <2>1, <2>4, SMT
  <2> QED BY <2>2, <2>4, <2>5 DEF q, m, f
<1>3. CASE ~failed /\ mode # "single"
  <2>1. EntryBBs \in Nat \ {0} /\ MpwPacketOctowords(MPWMaxLen) \in Nat \ {0}
    BY Sizes, LengthsAssumption DEF EntryBBs, PerEntry, OctsPerBB, MpwPacketOctowords
  <2>2. RoomByBlocks(FreeBlocks) \in Int
    BY <2>1, Sizes DEF RoomByBlocks, OctsPerBB
  <2> QED BY <1>3, <2>2, Sizes DEF FreeSlots, Least
<1> QED BY <1>1, <1>2, <1>3

LEMMA Prefix ==
    ASSUME NEW S, NEW q \in Seq(S), NEW n \in 0 .. Len(q)
    PROVE  /\ SubSeq(q, 1, n) \in Seq(S) /\ Len(SubSeq(q, 1, n)) = n
           /\ \A i \in 1 .. n : SubSeq(q, 1, n)[i] = q[i]
OBVIOUS

LEMMA Suffix ==
    ASSUME NEW S, NEW q \in Seq(S), NEW n \in 0 .. Len(q)
    PROVE  /\ SubSeq(q, n + 1, Len(q)) \in Seq(S)
           /\ Len(SubSeq(q, n + 1, Len(q))) = Len(q) - n
           /\ \A i \in 1 .. Len(q) - n : SubSeq(q, n + 1, Len(q))[i] = q[n + i]
OBVIOUS

LEMMA FunctionIsSeq ==
    ASSUME NEW S, NEW n \in Nat, NEW f \in [1 .. n -> S]
    PROVE  f \in Seq(S) /\ Len(f) = n
OBVIOUS

LEMMA SeqOfSubset ==
    ASSUME NEW S, NEW T, S \subseteq T, NEW q \in Seq(S)
    PROVE  q \in Seq(T)
<1>1. Len(q) \in Nat /\ q \in [1 .. Len(q) -> T]
  OBVIOUS
<1> QED BY <1>1, FunctionIsSeq

LEMMA Numbers ==
    ASSUME TypeOK
    PROVE  /\ pi \in Nat /\ head \in Nat /\ slotHead \in Nat /\ slotTail \in Nat
           /\ nicPos \in Nat /\ doorbell \in 0 .. W - 1 /\ newHead \in Nat
           /\ release \in Nat
           /\ BBs \in Nat \ {0} /\ W \in Nat \ {0} /\ Slots \in Nat \ {0}
           /\ BBs < W /\ 2 * BBs <= W
<1>1. 2 * BBs <= W
  BY SizesAssumption, DivMod, SMT
<1> QED BY <1>1, Sizes, SizesAssumption DEF TypeOK

LEMMA Shapes ==
    ASSUME TypeOK
    PROVE  /\ slots \in [0 .. Slots - 1 -> Frames \cup {NoFrame}] /\ out \subseteq Frames
           /\ sq \in [Blks -> Wqe] /\ meta \in [Blks -> Meta] /\ cq \in Seq(Cqe)
           /\ todo \in Seq(Desc)
BY DEF TypeOK, Blks

LEMMA WqeTyped ==
    ASSUME TypeOK, NEW b \in Blks
    PROVE  /\ sq[b].pos \in Int /\ sq[b].pos >= -1 /\ sq[b].bbs \in Nat
           /\ sq[b].frames \subseteq Frames /\ sq[b].signaled \in BOOLEAN
           /\ meta[b].slotTail \in Nat /\ meta[b].bbs \in Nat
<1>1. sq[b] \in Wqe /\ meta[b] \in Meta
  BY Shapes
<1> QED BY <1>1 DEF Wqe, Meta

LEMMA CqeTyped ==
    ASSUME TypeOK
    PROVE  /\ Len(cq) \in Nat /\ DOMAIN cq = 1 .. Len(cq)
           /\ \A i \in DOMAIN cq : cq[i] \in Cqe /\ cq[i].pos \in Int /\ cq[i].at \in Nat
<1>1. cq \in Seq(Cqe)
  BY Shapes
<1>2. \A c \in Cqe : c.pos \in Int /\ c.at \in Nat
  BY DEF Cqe
<1>3. Len(cq) \in Nat /\ DOMAIN cq = 1 .. Len(cq) /\ \A i \in DOMAIN cq : cq[i] \in Cqe
  BY <1>1
<1> QED BY <1>2, <1>3

\* A block index in a ring.
LEMMA InRing ==
    ASSUME TypeOK, NEW a \in Int
    PROVE  /\ a % BBs \in Blks /\ a % W \in 0 .. W - 1 /\ a % Slots \in 0 .. Slots - 1
BY Zenon, Numbers, DivMod DEF Blks

LEMMA BatchFacts ==
    ASSUME TypeOK, PostCall
    PROVE  /\ todo' \in Seq(Desc) /\ Len(todo') <= FreeSlots
           /\ \A i \in DOMAIN todo' : todo'[i].frame \in out
           /\ \A i, j \in DOMAIN todo' : todo'[i].frame = todo'[j].frame => i = j
<1>1. PICK descs \in Batches : todo' = SubSeq(descs, 1, Least(Len(descs), FreeSlots))
  BY Zenon DEF PostCall
<1>2. PICK n \in 1 .. MaxBatch : descs \in [1 .. n -> [frame : out, len : Lens]]
  BY <1>1 DEF Batches
<1>3. \A i, j \in 1 .. n : descs[i].frame = descs[j].frame => i = j
  BY <1>1, <1>2 DEF Batches
<1>4. descs \in Seq([frame : out, len : Lens]) /\ Len(descs) = n
  <2>1. n \in Nat
    BY BoundsAssumption
  <2> QED BY Zenon, <1>2, <2>1, FunctionIsSeq
<1> DEFINE m == Least(Len(descs), FreeSlots)
<1>5. m \in 0 .. Len(descs) /\ m <= FreeSlots
  BY <1>4, RoomOffered DEF PostCall, Least
<1>6. todo' = SubSeq(descs, 1, m)
  BY <1>1
<1> HIDE DEF m
<1>7. /\ todo' \in Seq([frame : out, len : Lens]) /\ Len(todo') = m
      /\ \A i \in 1 .. m : todo'[i] = descs[i]
  BY Zenon, <1>4, <1>5, <1>6, Prefix
<1>8. \A i \in 1 .. n : descs[i].frame \in out
  BY <1>2
<1>9. todo' \in Seq(Desc)
  <2>1. [frame : out, len : Lens] \subseteq Desc
    BY DEF Desc, TypeOK
  <2> QED BY Zenon, <1>7, <2>1, SeqOfSubset
<1>10. DOMAIN todo' = 1 .. m
  BY <1>7
<1> QED BY <1>3, <1>4, <1>5, <1>7, <1>8, <1>9, <1>10

-----------------------------------------------------------------------------
(* The published index, extended to a whole block index. *)

LEMMA Extension ==
    ASSUME NEW n \in Nat \ {0}, NEW a \in Int, NEW d \in 0 .. n - 1
    PROVE  /\ a + ((d - a) % n) \in Int
           /\ a <= a + ((d - a) % n) /\ (a + ((d - a) % n)) - a < n
           /\ (a + ((d - a) % n)) % n = d
<1> DEFINE r == (d - a) % n  q == (d - a) \div n
<1>1. q \in Int /\ r \in 0 .. n - 1 /\ d - a = n * q + r
  <2> DEFINE x == d - a
  <2>1. x \in Int
    OBVIOUS
  <2> HIDE DEF x
  <2>2. x \div n \in Int /\ x % n \in 0 .. n - 1 /\ x = n * (x \div n) + (x % n)
    BY <2>1, DivMod
  <2> QED BY <2>2 DEF x
<1> HIDE DEF r, q
<1> DEFINE m == -q
<1>0. m \in Int
  BY <1>1
<1>2. a + r = n * m + d
  BY <1>1, SMT
<1> HIDE DEF m
<1>3. (n * m + d) % n = d
  BY <1>0, ModUnique
<1>4. a + r \in Int /\ a <= a + r /\ (a + r) - a < n /\ (a + r) % n = d
  BY <1>1, <1>2, <1>3
<1> QED BY <1>4 DEF r

LEMMA ExtensionIs ==
    ASSUME NEW n \in Nat \ {0}, NEW a \in Int, NEW d \in 0 .. n - 1,
           NEW p \in Int, p % n = d, a <= p, p - a < n
    PROVE  a + ((d - a) % n) = p
<1>1. ((p % n) - a) % n = (p - a) % n
  BY Zenon, ModShift
<1>2. (p - a) % n = p - a
  BY ModSmall
<1> QED BY <1>1, <1>2

LEMMA PublishedFacts ==
    ASSUME TypeOK
    PROVE  /\ Published \in Int /\ nicPos <= Published /\ Published - nicPos < W
           /\ Published % W = doorbell
<1>1. W \in Nat \ {0} /\ nicPos \in Int /\ doorbell \in 0 .. W - 1
  BY Numbers
<1> QED BY Zenon, <1>1, Extension DEF Published

-----------------------------------------------------------------------------
(* Types. *)

LEMMA InitTyped == Init => TypeOK
<1> SUFFICES ASSUME Init PROVE TypeOK
  OBVIOUS
<1>1. slots \in [0 .. Slots - 1 -> Frames \cup {NoFrame}]
  BY DEF Init
<1>2. meta \in [Blks -> Meta]
  BY DEF Init, NoMeta, Blks, Meta
<1>3. sq \in [Blks -> Wqe]
  BY DEF Init, NoWqe, Blks, Wqe
<1>4. 0 \in 0 .. W - 1
  BY SizesAssumption
<1>5. \A S : <<>> \in Seq(S)
  OBVIOUS
<1>6. /\ todo \in Seq(Desc)
      /\ cq \in Seq(Cqe)
  BY <1>5 DEF Init
<1> QED BY Zenon, <1>1, <1>2, <1>3, <1>4, <1>6 DEF Init, TypeOK, NoIdx, Blks

LEMMA SlotsKept ==
    ASSUME mode' = mode
    PROVE  Slots' = Slots
BY DEF Slots

\* The step of Post that writes an entry of n blocks for k packets, with what
\* the room left in the two rings guarantees.
Posts(k, n) ==
    /\ k >= 1 /\ k <= Len(todo) /\ n >= 1
    /\ pi + n - head <= BBs /\ slotTail + k - slotHead <= Slots
    /\ mode = "single" => k = 1 /\ n <= MaxBBs
    /\ \E signaled \in BOOLEAN :
          sq' = [b \in 0 .. BBs - 1 |->
                    IF b = pi % BBs
                    THEN [pos |-> pi, bbs |-> n, signaled |-> signaled,
                          frames |-> {todo[i].frame : i \in 1 .. k}]
                    ELSE IF Ahead(b, pi, BBs) < n THEN NoWqe ELSE sq[b]]
    /\ slots' = [s \in 0 .. Slots - 1 |->
                    IF Ahead(s, slotTail, Slots) < k
                    THEN todo[Ahead(s, slotTail, Slots) + 1].frame ELSE slots[s]]
    /\ slotTail' = slotTail + k
    /\ meta' = [meta EXCEPT ![pi % BBs] = [slotTail |-> slotTail + k, bbs |-> n]]
    /\ pi' = pi + n
    /\ out' = out \ {todo[i].frame : i \in 1 .. k}
    /\ todo' \in {<<>>, SubSeq(todo, k + 1, Len(todo))}
    /\ pc = "post"
    /\ lastIdx' = pi /\ sinceSignal' \in {0, sinceSignal, sinceSignal + 1}
    /\ UNCHANGED <<mode, head, slotHead, failed, pc, max, release, newHead, haveAny, completed,
                   doorbell, nicPos, nicErr, faults, cq>>

LEMMA PostEntryPosts ==
    ASSUME TypeOK, RingInv, EntrySound, PostEntry
    PROVE  \E k, n \in Nat : Posts(k, n)
<1>0. PICK k \in Nat, n \in Nat :
         /\ k = NextEntry.k /\ n = NextEntry.bbs /\ k >= 1 /\ k <= Len(todo) /\ n >= 1
         /\ mode = "single" => k = 1 /\ n <= MaxBBs
         /\ mode # "single" => n <= FreeBlocks /\ k <= Slots - InFlight
  BY DEF PostEntry, EntrySound
<1>1. /\ k >= 1 /\ k <= Len(todo) /\ n >= 1
      /\ mode = "single" => k = 1 /\ n <= MaxBBs
      /\ mode # "single" => n <= FreeBlocks /\ k <= Slots - InFlight
  BY <1>0
<1>2. PICK g \in BOOLEAN : sq' = PutWqe(NextEntry, g)
  BY Zenon DEF PostEntry
<1>3. /\ slots' = [s \in 0 .. Slots - 1 |->
                     IF Ahead(s, slotTail, Slots) < k
                     THEN todo[Ahead(s, slotTail, Slots) + 1].frame ELSE slots[s]]
      /\ slotTail' = slotTail + k
      /\ meta' = [meta EXCEPT ![pi % BBs] = [slotTail |-> slotTail + k, bbs |-> n]]
      /\ pi' = pi + n
      /\ out' = out \ {todo[i].frame : i \in 1 .. k}
      /\ todo' \in {<<>>, SubSeq(todo, k + 1, Len(todo))}
      /\ pc = "post"
      /\ lastIdx' = pi /\ sinceSignal' \in {0, sinceSignal, sinceSignal + 1}
      /\ UNCHANGED <<mode, head, slotHead, failed, pc, max, release, newHead, haveAny, completed,
                     doorbell, nicPos, nicErr, faults, cq>>
  BY Zenon, <1>0 DEF PostEntry, callVars, nicVars
<1>4. sq' = [b \in 0 .. BBs - 1 |->
                IF b = pi % BBs
                THEN [pos |-> pi, bbs |-> n, signaled |-> g,
                      frames |-> {todo[i].frame : i \in 1 .. k}]
                ELSE IF Ahead(b, pi, BBs) < n THEN NoWqe ELSE sq[b]]
  BY <1>0, <1>2 DEF PutWqe
<1>5. pi + n - head <= BBs /\ slotTail + k - slotHead <= Slots
  <2>1. CASE mode # "single"
    <3>1. n <= BBs - (pi - head) /\ k <= Slots - (slotTail - slotHead)
      BY <1>1, <2>1 DEF FreeBlocks, InFlight
    <3> QED BY <3>1, Numbers
  <2>2. CASE mode = "single"
    <3>1. Len(todo) * MaxBBs <= FreeBlocks /\ Len(todo) >= 1 /\ Len(todo) \in Nat
      BY <1>1, <1>3, <2>2, TodoTyped DEF RingInv, Batch
    <3>2. MaxBBs \in Nat /\ FreeBlocks \in Int
      BY Sizes
    <3>3. \A x, m, f \in Int : x >= 1 /\ m >= 0 /\ x * m <= f => m <= f
      BY SMT
    <3>4. MaxBBs <= FreeBlocks
      BY <3>1, <3>2, <3>3
    <3>5. pi + n - head <= BBs
      <4>1. n <= MaxBBs
        BY <1>1, <2>2
      <4>2. n <= FreeBlocks
        BY <3>2, <3>4, <4>1
      <4>3. n <= BBs - (pi - head)
        BY <4>2 DEF FreeBlocks
      <4> QED BY <4>3, Numbers
    <3>6. slotTail - slotHead <= pi - head /\ Slots = BBs
      BY <2>2 DEF RingInv, Order, Slots
    <3>7. k = 1 /\ n >= 1
      BY <1>1, <2>2
    <3> QED BY <3>5, <3>6, <3>7, Numbers
  <2> QED BY <2>1, <2>2
<1>6. Posts(k, n)
  BY Zenon, <1>1, <1>3, <1>4, <1>5 DEF Posts
<1> QED BY <1>1, <1>6

LEMMA PostsRingTyped ==
    ASSUME TypeOK, NEW k \in Nat, NEW n \in Nat, Posts(k, n)
    PROVE  sq' \in [Blks -> Wqe] /\ meta' \in [Blks -> Meta]
<1>1. PICK g \in BOOLEAN :
         sq' = [b \in 0 .. BBs - 1 |->
                   IF b = pi % BBs
                   THEN [pos |-> pi, bbs |-> n, signaled |-> g,
                         frames |-> {todo[i].frame : i \in 1 .. k}]
                   ELSE IF Ahead(b, pi, BBs) < n THEN NoWqe ELSE sq[b]]
  BY Zenon DEF Posts
<1>2. k <= Len(todo)
  BY DEF Posts
<1>3. \A i \in 1 .. k : todo[i].frame \in Frames
  BY <1>2, TodoTyped
<1>4. {todo[i].frame : i \in 1 .. k} \in SUBSET Frames
  BY Zenon, <1>3
<1>5. pi \in Nat \cup {-1} /\ slotTail + k \in Nat
  BY Numbers
<1>6. NoWqe \in Wqe
  BY DEF Wqe, NoWqe
<1>7. [pos |-> pi, bbs |-> n, signaled |-> g,
       frames |-> {todo[i].frame : i \in 1 .. k}] \in Wqe
  BY Zenon, <1>4, <1>5 DEF Wqe
<1>8. sq' \in [Blks -> Wqe]
  BY Zenon, <1>1, <1>6, <1>7, Shapes DEF Blks
<1>9. [slotTail |-> slotTail + k, bbs |-> n] \in Meta
  BY Zenon, <1>5 DEF Meta
<1>10. meta' \in [Blks -> Meta]
  BY Zenon, <1>9, Shapes DEF Posts
<1> QED BY <1>8, <1>10

LEMMA PostsSlotsTyped ==
    ASSUME TypeOK, NEW k \in Nat, NEW n \in Nat, Posts(k, n)
    PROVE  slots' \in [0 .. Slots - 1 -> Frames \cup {NoFrame}]
<1>1. k <= Len(todo)
  BY DEF Posts
<1>2. \A i \in 1 .. k : todo[i].frame \in Frames
  BY <1>1, TodoTyped
<1>3. ASSUME NEW s \in 0 .. Slots - 1, Ahead(s, slotTail, Slots) < k
      PROVE  todo[Ahead(s, slotTail, Slots) + 1].frame \in Frames
  <2>1. s - slotTail \in Int
    BY Numbers
  <2>2. Ahead(s, slotTail, Slots) \in 0 .. Slots - 1
    BY Zenon, <2>1, InRing DEF Ahead
  <2>3. Ahead(s, slotTail, Slots) + 1 \in 1 .. k
    BY <1>3, <2>2, Numbers
  <2> QED BY Zenon, <1>2, <2>3
<1> QED BY Zenon, <1>3, Shapes DEF Posts

LEMMA PostsCountersTyped ==
    ASSUME TypeOK, NEW k \in Nat, NEW n \in Nat, Posts(k, n)
    PROVE  /\ pi' \in Nat /\ slotTail' \in Nat /\ lastIdx' \in Nat /\ sinceSignal' \in Nat
           /\ out' \subseteq Frames /\ todo' \in Seq(Desc)
<1>1. sinceSignal \in Nat /\ 0 \in Nat
  BY DEF TypeOK
<1>2. pi + n \in Nat /\ slotTail + k \in Nat /\ pi \in Nat
  BY Numbers
<1>3. sinceSignal + 1 \in Nat
  BY <1>1
<1>4. k <= Len(todo) /\ Len(todo) \in Nat
  BY TodoTyped DEF Posts
<1>5. k \in 0 .. Len(todo)
  BY <1>4
<1>6. SubSeq(todo, k + 1, Len(todo)) \in Seq(Desc)
  BY Zenon, <1>5, Shapes, Suffix
<1>7. <<>> \in Seq(Desc)
  OBVIOUS
<1>8. todo' \in Seq(Desc)
  BY Zenon, <1>6, <1>7 DEF Posts
<1> QED BY Zenon, <1>1, <1>2, <1>3, <1>8, Shapes DEF Posts

LEMMA PostEntryTyped ==
    ASSUME TypeOK, RingInv, EntrySound, PostEntry
    PROVE  TypeOK'
<1>1. PICK k \in Nat, n \in Nat : Posts(k, n)
  BY Zenon, PostEntryPosts
<1>2. mode' = mode
  BY Zenon, <1>1 DEF Posts
<1>3. Slots' = Slots
  BY <1>2, SlotsKept
<1> QED BY Zenon, <1>1, <1>3, PostsRingTyped, PostsSlotsTyped, PostsCountersTyped
        DEF TypeOK, Blks, Posts

LEMMA PublishTyped ==
    ASSUME TypeOK, PostPublish
    PROVE  TypeOK'
<1>1. SetSignaled \in [Blks -> Wqe]
  BY WqeTyped, Shapes DEF SetSignaled, Wqe, Blks
<1>2. sq' \in [Blks -> Wqe]
  BY Zenon, <1>1, Shapes DEF PostPublish
<1>3. doorbell' \in 0 .. W - 1
  <2>1. pi % W \in 0 .. W - 1 /\ doorbell \in 0 .. W - 1
    BY Numbers, InRing
  <2> QED BY Zenon, <2>1 DEF PostPublish, PublishedIndex
<1>4. todo' \in Seq(Desc)
  BY DEF PostPublish
<1>5. UNCHANGED <<mode, pi, head, slots, slotHead, slotTail, meta, sinceSignal, failed, max,
                  release, newHead, haveAny, completed, out, nicPos, nicErr, faults, cq>>
      /\ pc' = "idle" /\ lastIdx' = NoIdx
  BY Zenon DEF PostPublish, ringVars, callVars, nicVars
<1>6. Slots' = Slots
  BY <1>5, SlotsKept
<1> QED BY Zenon, <1>2, <1>3, <1>4, <1>5, <1>6 DEF TypeOK, Blks

LEMMA CompleteEntryTyped ==
    ASSUME TypeOK, CompleteEntry
    PROVE  TypeOK'
<1>1. cq # <<>> /\ cq' = Tail(cq)
  BY DEF CompleteEntry, CompleteGoesOn
<1>2. cq' \in Seq(Cqe)
  BY <1>1, Shapes
<1>3. cq[1].pos \in Int
  <2>1. 1 \in DOMAIN cq
    BY <1>1, Shapes
  <2> QED BY <2>1, CqeTyped
<1> DEFINE delta == (WQECounter(cq[1]) - head) % W
           m == meta[(head + delta) % BBs]
<1>4. delta \in Nat
  <2>1. cq[1].pos % W \in 0 .. W - 1
    BY <1>3, InRing
  <2>2. WQECounter(cq[1]) - head \in Int
    BY <2>1, Numbers DEF WQECounter
  <2> QED BY <2>2, InRing
<1>5. EntryFor(cq[1]).slotTail = m.slotTail /\ EntryFor(cq[1]).head = head + delta + m.bbs
  BY DEF EntryFor
<1> HIDE DEF delta
<1>6. m.slotTail \in Nat /\ m.bbs \in Nat
  <2>1. (head + delta) % BBs \in Blks
    BY <1>4, InRing, Numbers
  <2> QED BY <2>1, WqeTyped
<1>7. EntryFor(cq[1]).slotTail \in Nat /\ EntryFor(cq[1]).head \in Nat
  <2> HIDE DEF m
  <2> QED BY <1>4, <1>5, <1>6, Numbers
<1>8. release' \in Nat /\ newHead' \in Nat /\ haveAny' \in BOOLEAN
  BY Zenon, <1>7 DEF CompleteEntry, TypeOK
<1>9. completed' \in Nat /\ failed' \in BOOLEAN
  BY DEF CompleteEntry, TypeOK
<1>10. UNCHANGED <<mode, pi, head, slots, slotHead, slotTail, meta, sinceSignal, pc, todo,
                   lastIdx, max, out, sq, doorbell, nicPos, nicErr, faults>>
  BY Zenon DEF CompleteEntry, ringVars, postVars, nicVars
<1>11. Slots' = Slots
  BY <1>10, SlotsKept
<1> QED BY Zenon, <1>2, <1>8, <1>9, <1>10, <1>11 DEF TypeOK

LEMMA CompleteReturnTyped ==
    ASSUME TypeOK, RingInv, CompleteReturn
    PROVE  TypeOK'
<1>1. out' \subseteq Frames
  <2>1. CASE ~haveAny
    BY <2>1, Shapes DEF CompleteReturn
  <2>2. CASE haveAny
    <3>1. PICK b \in Blks : Live(b) /\ release = meta[b].slotTail
      BY <2>2 DEF RingInv, Taking
    <3>2. release <= slotTail
      BY <3>1 DEF RingInv, Entries
    <3>3. slotHead .. release - 1 \subseteq slotHead .. slotTail - 1
      BY <3>2, Numbers
    <3>4. FramesUpTo(release) \subseteq InFlightFrames
      BY Zenon, <3>3 DEF FramesUpTo, InFlightFrames
    <3>5. InFlightFrames \subseteq Frames /\ out \subseteq Frames
      BY Zenon DEF RingInv, FramesConserved
    <3> QED BY Zenon, <2>2, <3>4, <3>5 DEF CompleteReturn
  <2> QED BY <2>1, <2>2
<1>2. mode' = mode
  BY DEF CompleteReturn
<1>3. Slots' = Slots
  BY <1>2, SlotsKept
<1> QED BY Zenon, <1>1, <1>3 DEF CompleteReturn, TypeOK, postVars, nicVars

\* The steps of the NIC append at most one completion.
LEMMA NicTyped ==
    ASSUME TypeOK, NicExecute \/ NicError
    PROVE  TypeOK'
<1>1. nicPos % BBs \in Blks
  BY InRing, Numbers
<1>2. NicRead.bbs \in Nat
  BY <1>1, WqeTyped DEF NicRead
<1>3. nicPos' = nicPos + NicRead.bbs
  BY DEF NicExecute, NicError
<1>4. nicPos \in Int /\ nicPos' \in Nat
  BY <1>2, <1>3, Numbers
<1>5. \A op \in {"req", "reqerr"} : Completion(op, "nodata", nicPos, nicPos') \in Cqe
  BY Zenon, <1>4 DEF Completion, Cqe
<1>6. \E op \in {"req", "reqerr"} :
         cq' \in {cq, Append(cq, Completion(op, "nodata", nicPos, nicPos'))}
  BY Zenon DEF NicExecute, NicError
<1>7. cq' \in Seq(Cqe)
  <2>1. cq \in Seq(Cqe)
    BY Shapes
  <2>2. \A c \in Cqe : Append(cq, c) \in Seq(Cqe)
    BY <2>1
  <2> QED BY Zenon, <1>5, <1>6, <2>1, <2>2
<1>8. UNCHANGED <<mode, pi, head, slots, slotHead, slotTail, meta, sinceSignal, failed, pc,
                  todo, lastIdx, max, release, newHead, haveAny, completed, out, sq, doorbell,
                  faults>>
      /\ nicErr' \in {nicErr, TRUE}
  BY Zenon DEF NicExecute, NicError, ringVars, postVars, callVars
<1>9. Slots' = Slots
  BY <1>8, SlotsKept
<1> QED BY Zenon, <1>4, <1>7, <1>8, <1>9 DEF TypeOK

LEMMA MisbehavesTyped ==
    ASSUME TypeOK, NicMisbehaves
    PROVE  TypeOK'
<1>1. PICK c \in FaultyCompletions : cq' = Append(cq, c)
  BY Zenon DEF NicMisbehaves
<1>2. c \in Cqe
  <2>1. nicPos \in Int /\ nicPos \in Nat /\ \A d \in 1 .. W - BBs : nicPos - d \in Int
    BY Numbers
  <2>2. \/ c = Completion("other", "nodata", nicPos, nicPos)
        \/ c = Completion("req", "other", nicPos, nicPos)
        \/ \E d \in 1 .. W - BBs : c = Completion("req", "nodata", nicPos - d, nicPos)
    BY Zenon, <1>1 DEF FaultyCompletions
  <2>3. \A op \in {"req", "other"}, f \in {"nodata", "other"}, p \in Int :
           Completion(op, f, p, nicPos) \in Cqe
    BY Zenon, <2>1 DEF Completion, Cqe
  <2> QED BY Zenon, <2>1, <2>2, <2>3
<1>3. cq' \in Seq(Cqe)
  BY <1>1, <1>2, Shapes
<1>4. faults' \in Nat
  BY DEF NicMisbehaves, TypeOK
<1>5. UNCHANGED <<mode, pi, head, slots, slotHead, slotTail, meta, sinceSignal, failed, pc,
                  todo, lastIdx, max, release, newHead, haveAny, completed, out, sq, doorbell,
                  nicPos, nicErr>>
  BY Zenon DEF NicMisbehaves, ringVars, postVars, callVars
<1>6. Slots' = Slots
  BY <1>5, SlotsKept
<1> QED BY Zenon, <1>3, <1>4, <1>5, <1>6 DEF TypeOK

LEMMA CallsTyped ==
    ASSUME TypeOK, PostCall \/ CompleteCall \/ UNCHANGED vars
    PROVE  TypeOK'
<1>1. CASE PostCall
  <2>1. mode' = mode
    BY <1>1 DEF PostCall
  <2>2. todo' \in Seq(Desc)
    BY <1>1, BatchFacts
  <2> QED BY Zenon, <1>1, <2>1, <2>2, SlotsKept DEF PostCall, TypeOK, ringVars, callVars, nicVars
<1>2. CASE CompleteCall
  <2>1. PICK m \in 1 .. MaxBatch : max' = m
    BY <1>2 DEF CompleteCall
  <2>2. max' \in Nat
    BY <2>1
  <2>3. mode' = mode
    BY <1>2 DEF CompleteCall
  <2> QED BY Zenon, <1>2, <2>2, <2>3, SlotsKept
          DEF CompleteCall, TypeOK, ringVars, postVars, nicVars
<1>3. CASE UNCHANGED vars
  <2>1. mode' = mode
    BY <1>3 DEF vars
  <2> QED BY Zenon, <1>3, <2>1, SlotsKept
          DEF vars, TypeOK, ringVars, postVars, callVars, nicVars
<1> QED BY <1>1, <1>2, <1>3

LEMMA NextTyped ==
    ASSUME TypeOK, RingInv, EntrySound, [Next]_vars
    PROVE  TypeOK'
BY PostEntryTyped, PublishTyped, CompleteEntryTyped, CompleteReturnTyped, NicTyped,
   MisbehavesTyped, CallsTyped
   DEF Next, NicFails, NicFlushes

-----------------------------------------------------------------------------
(* Steps that leave the rings as they are. *)

\* What no step of the NIC touches.
ring == <<mode, pi, head, slots, slotHead, slotTail, meta, sq, out>>

LEMMA RingKept ==
    ASSUME RingInv, UNCHANGED ring
    PROVE  /\ Entries' /\ Ordered' /\ Covered' /\ StaleRecords' /\ FramesConserved'
           /\ \A p \in Int : Boundary(p) => Boundary(p)'
<1> USE DEF ring
<1>1. \A b \in Blks : Live(b)' = Live(b) /\ End(b)' = End(b)
  BY DEF Live, End
<1>2. \A s, t \in Int : Window(s, t)' = Window(s, t)
  BY DEF Window, Slots
<1>3. Entries'
  BY <1>1, <1>2 DEF RingInv, Entries, Live, End, Window, Slots
<1>4. Ordered'
  BY <1>1, <1>2 DEF RingInv, Ordered, Live, End, Window, Slots
<1>5. Covered'
  BY <1>1 DEF RingInv, Covered
<1>6. StaleRecords'
  BY <1>1 DEF RingInv, StaleRecords
<1>7. FramesConserved'
  BY DEF RingInv, FramesConserved, InFlightFrames, Slots
<1>8. \A p \in Int : Boundary(p) => Boundary(p)'
  BY <1>1 DEF Boundary
<1> QED BY <1>3, <1>4, <1>5, <1>6, <1>7, <1>8

LEMMA BatchKept ==
    ASSUME RingInv, UNCHANGED ring, UNCHANGED <<pc, todo>>
    PROVE  Batch'
BY DEF RingInv, ring, Batch, MaxBBs, Inline, FreeBlocks

\* Completions: one more, written where the NIC has got to.
LEMMA AllAppended ==
    ASSUME NEW s \in Seq(Cqe), NEW c, NEW n,
           \A i \in DOMAIN s : n <= s[i].at, n <= c.at, NEW i \in DOMAIN Append(s, c)
    PROVE  n <= Append(s, c)[i].at
<1>1. /\ DOMAIN Append(s, c) = 1 .. Len(s) + 1 /\ DOMAIN s = 1 .. Len(s) /\ Len(s) \in Nat
      /\ Append(s, c)[Len(s) + 1] = c
  OBVIOUS
<1>2. CASE i = Len(s) + 1
  BY <1>1, <1>2
<1>3. CASE i # Len(s) + 1
  <2>1. i \in DOMAIN s
    BY <1>1, <1>3
  <2>2. Append(s, c)[i] = s[i]
    BY <2>1, <1>1
  <2> QED BY <2>1, <2>2
<1> QED BY <1>2, <1>3

LEMMA ReportsAppended ==
    ASSUME TypeOK, RingInv, UNCHANGED ring, nicPos' \in Nat, nicPos <= nicPos',
           Boundary(nicPos)', NEW c \in Cqe, cq' = Append(cq, c), c.at = nicPos',
           c.opcode # "other" /\ c.format = "nodata"
               => c.at - (W - BBs) <= c.pos /\ c.pos < c.at
    PROVE  Reports'
<1>1. /\ Len(cq) \in Nat /\ DOMAIN cq = 1 .. Len(cq) /\ DOMAIN cq' = 1 .. Len(cq) + 1
      /\ \A i \in 1 .. Len(cq) : cq'[i] = cq[i]
      /\ cq'[Len(cq) + 1] = c
  BY Shapes
<1>2. \A i \in DOMAIN cq : cq[i].at \in Nat /\ cq[i].at <= nicPos /\ Report(cq[i])
  BY CqeTyped DEF RingInv, Reports, Report
<1>3. ASSUME NEW i \in DOMAIN cq' PROVE Report(cq[i])'
  <2>1. CASE i = Len(cq) + 1
    <3>1. head <= nicPos /\ head \in Nat /\ nicPos \in Nat
      BY Numbers DEF RingInv, Order
    <3> QED BY <1>1, <2>1, <3>1 DEF Report, ring, Boundary
  <2>2. CASE i \in DOMAIN cq
    <3>1. Boundary(cq[i].at)'
      <4> DEFINE p == cq[i].at
      <4>1. p \in Int /\ Boundary(p)
        BY <1>2, <2>2 DEF Report
      <4> HIDE DEF p
      <4>2. \A b \in Blks : Live(b)' = Live(b) /\ End(b)' = End(b) /\ sq'[b] = sq[b]
        BY DEF ring, Live, End
      <4>3. \A b \in Blks : Live(b)' /\ sq'[b].pos < p => End(b)' <= p
        BY <4>1, <4>2 DEF Boundary
      <4>4. cq'[i].at = p
        BY <1>1, <2>2 DEF p
      <4> QED BY <4>3, <4>4 DEF Boundary
    <3>2. cq'[i] = cq[i] /\ head' = head /\ nicPos \in Nat
      BY <1>1, <2>2, Numbers DEF ring
    <3>3. /\ head <= cq[i].at /\ cq[i].at <= nicPos /\ cq[i].at \in Nat
          /\ cq[i].opcode # "other" /\ cq[i].format = "nodata"
                => cq[i].at - (W - BBs) <= cq[i].pos /\ cq[i].pos < cq[i].at
      BY <1>2, <2>2 DEF Report
    <3>4. cq[i].at <= nicPos'
      BY <3>2, <3>3
    <3> QED BY <3>1, <3>2, <3>3, <3>4 DEF Report
  <2> QED BY <1>1, <2>1, <2>2
<1>4. ASSUME NEW i \in DOMAIN cq', NEW j \in DOMAIN cq', i <= j
      PROVE  cq'[i].at <= cq'[j].at
  <2>1. CASE j \in DOMAIN cq
    BY <1>1, <1>4, <2>1 DEF RingInv, Reports
  <2>2. CASE j = Len(cq) + 1 /\ i \in DOMAIN cq
    <3>1. cq'[i] = cq[i] /\ cq'[j].at = nicPos' /\ cq[i].at \in Nat /\ cq[i].at <= nicPos
      BY <1>1, <1>2, <2>2
    <3>2. nicPos \in Nat
      BY Numbers
    <3> QED BY <3>1, <3>2
  <2>3. CASE j = Len(cq) + 1 /\ i = Len(cq) + 1
    BY <1>1, <2>3
  <2> QED BY <1>1, <2>1, <2>2, <2>3
<1> QED BY <1>3, <1>4 DEF Reports

-----------------------------------------------------------------------------
(* The NIC. *)

\* What the NIC reads next is an entry in flight, all of it published.
LEMMA AtNic ==
    ASSUME TypeOK, RingInv, nicPos # Published
    PROVE  /\ nicPos % BBs \in Blks /\ Live(nicPos % BBs) /\ NicRead.pos = nicPos
           /\ NicRead = sq[nicPos % BBs] /\ NicRead.bbs \in 1 .. BBs
           /\ nicPos + NicRead.bbs <= Published
<1>1. /\ Published \in Int /\ nicPos < Published /\ Published <= pi
      /\ head <= nicPos /\ pi - head <= BBs
  BY PublishedFacts, Numbers DEF RingInv, Order
<1>2. nicPos \in head .. pi - 1
  BY <1>1, Numbers
<1>3. PICK b \in Blks : Live(b) /\ sq[b].pos <= nicPos /\ nicPos < End(b)
  BY <1>2 DEF RingInv, Covered
<1>4. sq[b].pos \in Int /\ sq[b].bbs \in Nat /\ End(b) = sq[b].pos + sq[b].bbs
  BY WqeTyped DEF End
<1>5. sq[b].pos < nicPos => End(b) <= nicPos
  BY <1>3 DEF RingInv, Boundaries, Boundary
<1>6. sq[b].pos = nicPos
  BY <1>3, <1>4, <1>5, Numbers
<1>7. sq[b].pos % BBs = b /\ sq[b].bbs >= 1 /\ End(b) <= pi
  BY <1>3 DEF RingInv, Entries
<1>8. nicPos % BBs = b
  BY <1>6, <1>7
<1>9. End(b) <= Published
  BY <1>1, <1>3, <1>6 DEF RingInv, Boundaries, Boundary
<1>10. sq[b].bbs \in 1 .. BBs
  BY <1>1, <1>4, <1>6, <1>7, Numbers
<1> QED BY <1>3, <1>4, <1>6, <1>8, <1>9, <1>10 DEF NicRead

\* What an execution, a failure and a flush have in common.
NicSteps ==
    /\ nicPos # Published /\ nicPos' = nicPos + NicRead.bbs
    /\ UNCHANGED ring /\ UNCHANGED <<doorbell, pc, todo, newHead, release, haveAny>>
    /\ \/ cq' = cq
       \/ \E op \in {"req", "reqerr"} :
             cq' = Append(cq, Completion(op, "nodata", nicPos, nicPos'))

LEMMA NicAdvance ==
    ASSUME TypeOK, RingInv, NicSteps
    PROVE  RingInv'
<1> DEFINE b == nicPos % BBs  n == NicRead.bbs
<1>0. /\ UNCHANGED ring /\ UNCHANGED <<doorbell, pc, todo, newHead, release, haveAny>>
  BY DEF NicSteps
<1>1. /\ b \in Blks /\ Live(b) /\ sq[b].pos = nicPos /\ n \in 1 .. BBs
      /\ nicPos' = End(b) /\ nicPos' <= Published
  BY AtNic DEF End, NicSteps
<1>2. nicPos \in Nat /\ nicPos' \in Nat /\ nicPos < nicPos' /\ nicPos' <= nicPos + BBs
  <2>1. n \in 1 .. BBs /\ nicPos' = nicPos + n
    BY <1>1 DEF NicSteps
  <2> HIDE DEF n
  <2> QED BY <2>1, Numbers
<1> HIDE DEF b, n
<1>3. Published' = Published
  <2>1. /\ Published \in Int /\ Published % W = doorbell /\ Published - nicPos < W
    BY PublishedFacts
  <2>2. W \in Nat \ {0} /\ nicPos' \in Int /\ doorbell \in 0 .. W - 1
    BY <1>2, Numbers
  <2>3. nicPos' <= Published /\ Published - nicPos' < W
    <3>1. nicPos' <= Published
      BY <1>1
    <3>2. Published \in Int /\ Published - nicPos < W /\ W \in Nat
      BY <2>1, <2>2
    <3>3. \A p, a, c, w \in Int : p - a < w /\ a < c => p - c < w
      OBVIOUS
    <3>4. nicPos \in Int /\ nicPos' \in Int /\ W \in Int /\ nicPos < nicPos'
      BY <1>2, Numbers
    <3> QED BY Zenon, <3>1, <3>2, <3>3, <3>4
  <2>4. nicPos' + ((doorbell - nicPos') % W) = Published
    BY Zenon, <2>1, <2>2, <2>3, ExtensionIs
  <2> QED BY <1>0, <2>4 DEF Published
<1>4. Order'
  <2>1. Slots' = Slots
    BY <1>0 DEF ring, Slots
  <2>2. nicPos' <= Published
    BY <1>1
  <2>3. head <= nicPos'
    BY <1>2, Numbers DEF RingInv, Order
  <2> QED BY <1>0, <1>3, <2>1, <2>2, <2>3 DEF RingInv, Order, ring
<1>5. Boundary(nicPos)'
  <2>1. ASSUME NEW c \in Blks, Live(c), sq[c].pos < nicPos' PROVE End(c) <= nicPos'
    <3>1. sq[c].pos \in Int /\ End(c) \in Int /\ sq[b].pos \in Int
      BY <1>1, WqeTyped DEF End
    <3>2. CASE sq[c].pos < nicPos
      <4>1. End(c) <= nicPos
        BY <2>1, <3>2 DEF RingInv, Boundaries, Boundary
      <4> QED BY <4>1, <3>1, <1>2
    <3>3. CASE sq[c].pos = nicPos
      <4>1. c = b
        BY <2>1, <3>3, <1>1 DEF RingInv, Entries
      <4> QED BY <4>1, <1>1, <1>2, <3>1
    <3>4. CASE sq[c].pos > nicPos
      <4>1. End(b) <= sq[c].pos
        BY <1>1, <2>1, <3>1, <3>4 DEF RingInv, Ordered
      <4> QED BY <4>1, <1>1, <2>1, <3>1, <1>2
    <3> QED BY <3>1, <3>2, <3>3, <3>4, <1>2
  <2>2. \A c \in Blks : Live(c)' = Live(c) /\ End(c)' = End(c) /\ sq'[c] = sq[c]
    BY <1>0 DEF ring, Live, End
  <2> QED BY <2>1, <2>2 DEF Boundary
<1>6. Boundaries'
  <2>1. Boundary(Published)'
    <3> DEFINE p == Published
    <3>1. p \in Int /\ Boundary(p)
      BY PublishedFacts DEF RingInv, Boundaries
    <3>2. Published' = p
      BY <1>3
    <3> HIDE DEF p
    <3>3. \A c \in Blks : Live(c)' = Live(c) /\ End(c)' = End(c) /\ sq'[c] = sq[c]
      BY <1>0 DEF ring, Live, End
    <3>4. \A c \in Blks : Live(c)' /\ sq'[c].pos < p => End(c)' <= p
      BY <3>1, <3>3 DEF Boundary
    <3> QED BY <3>2, <3>4 DEF Boundary
  <2> QED BY <1>5, <2>1 DEF Boundaries
<1>7. Reports'
  <2>1. CASE cq' = cq
    <3>1. ASSUME NEW i \in DOMAIN cq PROVE Report(cq[i])'
      <4>1. Report(cq[i]) /\ cq[i].at \in Nat
        BY CqeTyped DEF RingInv, Reports
      <4> QED BY <1>0, <4>1, <2>1, <1>2 DEF Report, Boundary, Live, End, ring
    <3> QED BY <2>1, <3>1 DEF RingInv, Reports
  <2>2. ASSUME NEW op \in {"req", "reqerr"},
               cq' = Append(cq, Completion(op, "nodata", nicPos, nicPos'))
        PROVE  Reports'
    <3> DEFINE c == Completion(op, "nodata", nicPos, nicPos')
    <3>1. c \in Cqe /\ c.at = nicPos' /\ c.pos = nicPos
      BY <1>2 DEF Completion, Cqe
    <3> HIDE DEF c
    <3>2. nicPos' - (W - BBs) <= nicPos /\ nicPos < nicPos'
      BY <1>2, Numbers
    <3>3. c.at - (W - BBs) <= c.pos /\ c.pos < c.at
      BY <3>1, <3>2
    <3> QED BY <1>0, <1>2, <1>5, <3>1, <3>3, <2>2, ReportsAppended DEF c
  <2> QED BY <2>1, <2>2 DEF NicSteps
<1>8. Taking'
  <2>1. ASSUME haveAny PROVE Taking'
    <3>1. PICK e \in Blks :
             /\ Live(e) /\ newHead = End(e) /\ release = meta[e].slotTail
             /\ newHead <= nicPos /\ \A i \in DOMAIN cq : newHead <= cq[i].at
      BY <2>1 DEF RingInv, Taking
    <3>2. Live(e)' /\ End(e)' = End(e) /\ meta' = meta
      BY <1>0, <3>1 DEF Live, End, ring
    <3>3. newHead \in Nat /\ newHead <= nicPos'
      BY <3>1, <1>2, Numbers
    <3>4. \A i \in DOMAIN cq' : newHead <= cq'[i].at
      <4>1. CASE cq' = cq
        BY <3>1, <4>1
      <4>2. ASSUME NEW op, cq' = Append(cq, Completion(op, "nodata", nicPos, nicPos'))
            PROVE  \A i \in DOMAIN cq' : newHead <= cq'[i].at
        <5> DEFINE c == Completion(op, "nodata", nicPos, nicPos')
        <5>1. cq \in Seq(Cqe)
          BY Zenon, Shapes
        <5>2. newHead <= c.at
          BY <3>3 DEF Completion
        <5> HIDE DEF c
        <5> QED BY Zenon, <5>1, <5>2, <3>1, <4>2, AllAppended DEF c
      <4> QED BY <4>1, <4>2 DEF NicSteps
    <3> QED BY <3>1, <3>2, <3>3, <3>4, <2>1, <1>0 DEF RingInv, Taking
  <2>2. CASE ~haveAny
    BY <1>0, <2>2 DEF Taking
  <2> QED BY <2>1, <2>2
<1> QED BY <1>0, <1>4, <1>6, <1>7, <1>8, RingKept, BatchKept DEF RingInv

LEMMA OrderKept ==
    ASSUME RingInv, UNCHANGED ring, UNCHANGED <<nicPos, doorbell>>
    PROVE  Order' /\ Boundaries'
<1>1. Published' = Published /\ Slots' = Slots
  BY DEF Published, ring, Slots
<1>2. Order'
  BY <1>1 DEF RingInv, Order, ring
<1>3. Boundaries'
  BY <1>1 DEF RingInv, Boundaries, Boundary, Live, End, ring
<1> QED BY <1>2, <1>3

LEMMA MisbehavesKeeps ==
    ASSUME TypeOK, RingInv, NicMisbehaves
    PROVE  RingInv'
<1>1. /\ UNCHANGED ring
      /\ UNCHANGED <<doorbell, nicPos, pc, todo, newHead, release, haveAny>>
  BY DEF NicMisbehaves, ring, ringVars, postVars, callVars
<1>2. PICK c \in FaultyCompletions : cq' = Append(cq, c)
  BY DEF NicMisbehaves
<1>3. /\ c \in Cqe /\ c.at = nicPos
      /\ c.opcode # "other" /\ c.format = "nodata"
            => c.at - (W - BBs) <= c.pos /\ c.pos < c.at
  <2>1. CASE c = Completion("other", "nodata", nicPos, nicPos)
    BY <2>1, Numbers DEF Completion, Cqe
  <2>2. CASE c = Completion("req", "other", nicPos, nicPos)
    BY <2>2, Numbers DEF Completion, Cqe
  <2>3. ASSUME NEW d \in 1 .. W - BBs, c = Completion("req", "nodata", nicPos - d, nicPos)
        PROVE  c \in Cqe /\ c.at = nicPos /\ c.at - (W - BBs) <= c.pos /\ c.pos < c.at
    <3>1. nicPos - d \in Int /\ nicPos - (W - BBs) <= nicPos - d /\ nicPos - d < nicPos
      BY Numbers
    <3>2. c \in Cqe /\ c.at = nicPos /\ c.pos = nicPos - d
      BY <2>3, <3>1, Numbers DEF Completion, Cqe
    <3> QED BY <3>1, <3>2
  <2> QED BY <2>1, <2>2, <2>3 DEF FaultyCompletions
<1>4. nicPos' \in Nat /\ nicPos <= nicPos' /\ Boundary(nicPos)' /\ c.at = nicPos'
  BY <1>1, <1>3, Numbers, OrderKept DEF Boundaries
<1>5. Reports'
  BY <1>1, <1>2, <1>3, <1>4, ReportsAppended
<1>6. Taking'
  <2>1. ASSUME haveAny PROVE Taking'
    <3>1. PICK e \in Blks :
             /\ Live(e) /\ newHead = End(e) /\ release = meta[e].slotTail
             /\ newHead <= nicPos /\ \A i \in DOMAIN cq : newHead <= cq[i].at
      BY <2>1 DEF RingInv, Taking
    <3>2. Live(e)' /\ End(e)' = End(e) /\ meta' = meta
      BY <1>1, <3>1 DEF Live, End, ring
    <3>3. \A i \in DOMAIN cq' : newHead <= cq'[i].at
      <4>1. cq \in Seq(Cqe)
        BY Zenon, Shapes
      <4>2. newHead <= c.at
        BY <1>3, <3>1
      <4> QED BY Zenon, <4>1, <4>2, <3>1, <1>2, <1>3, AllAppended
    <3> QED BY <3>1, <3>2, <3>3, <2>1, <1>1 DEF RingInv, Taking
  <2>2. CASE ~haveAny
    BY <1>1, <2>2 DEF Taking
  <2> QED BY <2>1, <2>2
<1> QED BY <1>1, <1>5, <1>6, OrderKept, RingKept, BatchKept DEF RingInv

-----------------------------------------------------------------------------
(* The calls. *)

LEMMA TakingKept ==
    ASSUME RingInv, UNCHANGED ring, UNCHANGED <<nicPos, cq>>, ~haveAny'
    PROVE  Taking' /\ Reports'
<1>1. Taking'
  BY DEF Taking
<1>2. Reports'
  BY Zenon DEF RingInv, Reports, Report, Boundary, Live, End, ring
<1> QED BY <1>1, <1>2

LEMMA PostCallKeeps ==
    ASSUME TypeOK, RingInv, PostCall
    PROVE  RingInv'
<1>1. /\ UNCHANGED ring /\ UNCHANGED <<doorbell, nicPos, cq, haveAny>>
      /\ pc = "idle" /\ FreeSlots > 0
  BY DEF PostCall, ring, ringVars, callVars, nicVars
<1>2. ~haveAny'
  BY <1>1 DEF RingInv, Taking
<1>3. Batch'
  <2>1. /\ Len(todo') <= FreeSlots /\ Len(todo') \in Nat
        /\ \A i \in DOMAIN todo' : todo'[i].frame \in out
        /\ \A i, j \in DOMAIN todo' : todo'[i].frame = todo'[j].frame => i = j
    BY BatchFacts
  <2>2. MaxBBs' = MaxBBs /\ FreeBlocks' = FreeBlocks /\ mode' = mode /\ out' = out
    BY <1>1 DEF ring, MaxBBs, Inline, FreeBlocks
  <2>3. ASSUME mode = "single" PROVE Len(todo') * MaxBBs <= FreeBlocks
    <3>1. FreeSlots \in Int /\ FreeSlots * MaxBBs <= FreeBlocks
      BY <1>1, <2>3, RoomOffered
    <3>2. MaxBBs \in Nat /\ FreeBlocks \in Int
      BY Sizes
    <3>3. \A x, y, m, f \in Int : x >= 0 /\ m >= 0 /\ x <= y /\ y * m <= f => x * m <= f
      BY SMT
    <3> QED BY <2>1, <3>1, <3>2, <3>3
  <2> QED BY <2>1, <2>2, <2>3 DEF Batch
<1> QED BY <1>1, <1>2, <1>3, OrderKept, RingKept, TakingKept DEF RingInv

LEMMA CompleteCallKeeps ==
    ASSUME TypeOK, RingInv, CompleteCall
    PROVE  RingInv'
<1>1. /\ UNCHANGED ring /\ UNCHANGED <<doorbell, nicPos, cq, haveAny>>
      /\ pc = "idle" /\ pc' = "complete"
  BY DEF CompleteCall, ring, ringVars, callVars, nicVars
<1>2. ~haveAny'
  BY <1>1 DEF RingInv, Taking
<1>3. Batch'
  BY <1>1 DEF Batch
<1> QED BY <1>1, <1>2, <1>3, OrderKept, RingKept, TakingKept DEF RingInv

LEMMA PublishKeeps ==
    ASSUME TypeOK, RingInv, PostPublish
    PROVE  RingInv'
<1>1. /\ UNCHANGED <<mode, pi, head, slots, slotHead, slotTail, meta, out, nicPos, cq, haveAny>>
      /\ pc = "post" /\ pc' = "idle" /\ doorbell' \in {doorbell, pi % W}
  BY DEF PostPublish, PublishedIndex, ringVars, callVars, nicVars
<1>2. \A b \in Blks : /\ sq'[b].pos = sq[b].pos /\ sq'[b].bbs = sq[b].bbs
                      /\ sq'[b].frames = sq[b].frames
  BY DEF PostPublish, SetSignaled, Blks
<1>3. \A b \in Blks : Live(b)' = Live(b) /\ End(b)' = End(b)
  BY Zenon, <1>1, <1>2 DEF Live, End
<1>4. Slots' = Slots /\ \A x, t \in Int : Window(x, t)' = Window(x, t)
  BY <1>1 DEF Window, Slots
<1>5. Entries'
  <2>1. \A b \in Blks : Window(slotHead, meta[b].slotTail)' = Window(slotHead, meta[b].slotTail)
    BY Zenon, <1>1, <1>4, WqeTyped, Numbers DEF Window
  <2> QED BY Zenon, <1>1, <1>2, <1>3, <2>1 DEF RingInv, Entries
<1>6. Ordered'
  <2>1. \A a, b \in Blks : Window(meta[a].slotTail, meta[b].slotTail)'
                             = Window(meta[a].slotTail, meta[b].slotTail)
    BY Zenon, <1>1, <1>4, WqeTyped DEF Window
  <2>2. ASSUME NEW a \in Blks, NEW b \in Blks, Live(a), Live(b), sq[a].pos < sq[b].pos
        PROVE  /\ End(a) <= sq[b].pos /\ meta[a].slotTail < meta[b].slotTail
               /\ sq[b].frames \subseteq Window(meta[a].slotTail, meta[b].slotTail)
    BY Zenon, <2>2 DEF RingInv, Ordered
  <2> QED BY Zenon, <1>1, <1>2, <1>3, <2>1, <2>2 DEF Ordered
<1>7. Covered' /\ StaleRecords'
  BY Zenon, <1>1, <1>2, <1>3 DEF RingInv, Covered, StaleRecords
<1>8. FramesConserved'
  BY Zenon, <1>1, <1>4 DEF RingInv, FramesConserved, InFlightFrames
<1>9. Published' \in {Published, pi} /\ nicPos <= pi /\ Published <= pi
  <2>1. Published <= pi /\ pi - head <= BBs /\ head <= nicPos /\ nicPos <= Published
    BY DEF RingInv, Order
  <2>2. Published \in Int
    BY PublishedFacts
  <2>3. nicPos <= pi /\ pi - nicPos < W
    BY <2>1, <2>2, Numbers
  <2>4. CASE doorbell' = doorbell
    BY <1>1, <2>1, <2>3, <2>4 DEF Published
  <2>5. CASE doorbell' = pi % W
    <3>1. pi % W \in 0 .. W - 1 /\ W \in Nat \ {0} /\ nicPos \in Int /\ pi \in Int
      BY Numbers, InRing
    <3>2. nicPos + (((pi % W) - nicPos) % W) = pi
      BY Zenon, <3>1, <2>3, ExtensionIs
    <3> QED BY <1>1, <2>1, <2>3, <2>5, <3>2 DEF Published
  <2> QED BY <1>1, <2>4, <2>5
<1>10. Order'
  <2>1. nicPos <= Published
    BY PublishedFacts
  <2> QED BY <1>1, <1>4, <1>9, <2>1, Numbers DEF RingInv, Order
<1>11. Boundaries'
  <2>1. \A b \in Blks : Live(b) => End(b) <= pi
    BY Zenon DEF RingInv, Entries
  <2>2. Boundary(nicPos)' /\ Boundary(Published)'
    BY Zenon, <1>1, <1>2, <1>3, <1>9, <2>1 DEF RingInv, Boundaries, Boundary
  <2> QED BY <2>2 DEF Boundaries
<1>12. Reports'
  BY Zenon, <1>1, <1>2, <1>3 DEF RingInv, Reports, Report, Boundary
<1>13. Taking' /\ Batch'
  BY Zenon, <1>1 DEF RingInv, Taking, Batch
<1> QED BY <1>5, <1>6, <1>7, <1>8, <1>10, <1>11, <1>12, <1>13 DEF RingInv

=============================================================================
