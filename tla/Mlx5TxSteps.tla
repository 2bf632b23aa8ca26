---------------------------- MODULE Mlx5TxSteps -----------------------------
(***************************************************************************)
(* The steps of Complete, and the step of Post that writes an entry,       *)
(* preserve the invariant of Mlx5TxProofs; and what every step preserves   *)
(* of the places of the completion queue and of the youngest entry.        *)
(***************************************************************************)
EXTENDS Mlx5TxProofs

-----------------------------------------------------------------------------
(* Complete. *)

\* A completion that is accepted names an entry in flight, and the NIC had
\* executed all of it when it wrote the completion.
LEMMA Accepted ==
    ASSUME TypeOK, RingInv, NEW i \in DOMAIN cq, cq[i].format = "nodata", Accounts(cq[i])
    PROVE  \E b \in Blks :
              /\ Live(b) /\ sq[b].pos = cq[i].pos /\ b = cq[i].pos % BBs
              /\ EntryFor(cq[i]).head = End(b)
              /\ EntryFor(cq[i]).slotTail = meta[b].slotTail
              /\ End(b) <= cq[i].at
<1> DEFINE x == cq[i].pos  at == cq[i].at  d == x % W
           delta == (d - head) % W  p == head + delta  b == p % BBs
<1>1. x \in Int /\ at \in Nat /\ d \in 0 .. W - 1
  BY Zenon, CqeTyped, InRing
<1>2. /\ head <= at /\ at <= nicPos /\ Boundary(at) /\ at - (W - BBs) <= x /\ x < at
  BY Zenon DEF RingInv, Reports, Report, Accounts
<1>3. /\ delta < pi - head /\ meta[b].bbs # 0
      /\ meta[b].slotTail - slotHead \in 1 .. slotTail - slotHead
      /\ EntryFor(cq[i]).head = head + delta + meta[b].bbs
      /\ EntryFor(cq[i]).slotTail = meta[b].slotTail
  BY Zenon DEF Accounts, EntryFor, WQECounter
<1> HIDE DEF x, at, d
<1>4. p \in Int /\ head <= p /\ p % W = d /\ delta \in Int
  <2>1. W \in Nat \ {0} /\ head \in Int /\ d \in 0 .. W - 1 /\ d - head \in Int
    BY <1>1, Numbers
  <2>2. delta \in Int
    BY <2>1, InRing
  <2> QED BY Zenon, <2>1, <2>2, Extension
<1>5. p < pi
  <2> HIDE DEF delta
  <2> QED BY <1>3, <1>4, Numbers
<1>6. b \in Blks
  <2> HIDE DEF p
  <2> QED BY <1>4, InRing
<1>7. EntryFor(cq[i]).head = p + meta[b].bbs
  <2> HIDE DEF delta, b
  <2> QED BY <1>3
<1>8. meta[b].slotTail > slotHead
  <2>1. meta[b].slotTail \in Nat
    BY Zenon, <1>6, WqeTyped
  <2> HIDE DEF b
  <2> QED BY <1>3, <2>1, Numbers
<1>9. Live(b)
  <2>1. meta[b].slotTail \in Nat
    BY <1>6, WqeTyped
  <2> HIDE DEF b
  <2> QED BY <1>3, <1>6, <1>8, <2>1, Numbers DEF RingInv, StaleRecords
<1>10. b = p % BBs
  OBVIOUS
<1> HIDE DEF b, p, delta
<1>11. sq[b].pos = p
  <2>1. /\ sq[b].pos % BBs = b /\ End(b) <= pi /\ sq[b].bbs >= 1
    BY Zenon, <1>6, <1>9 DEF RingInv, Entries
  <2>2. sq[b].pos \in Int /\ sq[b].bbs \in Nat
    BY <1>6, WqeTyped
  <2>3. sq[b].pos >= head /\ sq[b].pos < pi
    BY <1>9, <2>1, <2>2, Numbers DEF Live, End
  <2>4. pi - head <= BBs
    BY DEF RingInv, Order
  <2>5. p - sq[b].pos < BBs /\ sq[b].pos - p < BBs
    BY <1>4, <1>5, <2>2, <2>3, <2>4, Numbers
  <2>6. BBs \in Nat \ {0}
    BY Numbers
  <2> QED BY Zenon, <1>4, <1>10, <2>1, <2>2, <2>5, <2>6, ModSame
<1>12. p = x
  <2>1. pi - head <= BBs /\ nicPos <= pi
    BY PublishedFacts, Numbers DEF RingInv, Order
  <2>2. p - x < W /\ x - p < W
    BY <1>1, <1>2, <1>4, <1>5, <2>1, Numbers
  <2>3. W \in Nat \ {0} /\ p % W = x % W
    BY <1>4, Numbers DEF d
  <2> QED BY Zenon, <1>1, <1>4, <2>2, <2>3, ModSame
<1>13. End(b) <= at
  BY <1>2, <1>6, <1>9, <1>11, <1>12 DEF Boundary
<1>14. EntryFor(cq[i]).head = End(b)
  BY Zenon, <1>6, <1>7, <1>9, <1>11 DEF RingInv, Entries, End
<1> QED BY Zenon, <1>3, <1>6, <1>9, <1>10, <1>11, <1>12, <1>13, <1>14 DEF x, at

LEMMA CompleteEntryKeeps ==
    ASSUME TypeOK, RingInv, CompleteEntry
    PROVE  RingInv'
<1>1. /\ UNCHANGED ring /\ UNCHANGED <<doorbell, nicPos, pc, todo>>
      /\ pc = "complete" /\ cq # <<>> /\ cq[1].format = "nodata" /\ cq' = Tail(cq)
  BY Zenon DEF CompleteEntry, CompleteGoesOn, ring, ringVars, postVars, nicVars
<1>2. /\ Len(cq) \in Nat /\ DOMAIN cq = 1 .. Len(cq) /\ 1 \in DOMAIN cq
      /\ DOMAIN cq' = 1 .. Len(cq) - 1
      /\ \A i \in 1 .. Len(cq) - 1 : cq'[i] = cq[i + 1]
  BY <1>1, Shapes
<1>3. \A i \in DOMAIN cq' : i + 1 \in DOMAIN cq /\ cq'[i] = cq[i + 1]
  BY <1>2
<1>4. Reports'
  <2>1. ASSUME NEW i \in DOMAIN cq' PROVE Report(cq[i])'
    <3>1. Report(cq[i + 1]) /\ cq'[i] = cq[i + 1]
      BY Zenon, <1>3 DEF RingInv, Reports
    <3> QED BY Zenon, <1>1, <3>1 DEF Report, Boundary, Live, End, ring
  <2>2. ASSUME NEW i \in DOMAIN cq', NEW j \in DOMAIN cq', i <= j
        PROVE  cq'[i].at <= cq'[j].at
    <3>1. i + 1 <= j + 1
      BY <1>2, <2>2
    <3> QED BY <1>3, <3>1 DEF RingInv, Reports
  <2> QED BY <2>1, <2>2 DEF Reports
<1>5. Taking'
  <2>1. CASE Accounts(cq[1])
    <3>1. /\ release' = EntryFor(cq[1]).slotTail /\ newHead' = EntryFor(cq[1]).head
      BY Zenon, <2>1 DEF CompleteEntry
    <3>2. PICK b \in Blks : /\ Live(b) /\ EntryFor(cq[1]).head = End(b)
                            /\ EntryFor(cq[1]).slotTail = meta[b].slotTail
                            /\ End(b) <= cq[1].at
      BY Zenon, <1>1, <1>2, <2>1, Accepted
    <3>3. Live(b)' /\ End(b)' = End(b) /\ meta' = meta
      BY Zenon, <1>1, <3>2 DEF Live, End, ring
    <3>4. End(b) \in Int /\ nicPos \in Int /\ \A i \in DOMAIN cq : cq[i].at \in Int
      <4>1. End(b) \in Int
        BY WqeTyped DEF End
      <4>2. nicPos \in Int
        BY Numbers
      <4> QED BY <4>1, <4>2, CqeTyped
    <3>5. \A i \in DOMAIN cq : cq[1].at <= cq[i].at /\ cq[i].at <= nicPos
      <4>1. ASSUME NEW i \in DOMAIN cq PROVE 1 <= i
        BY Shapes
      <4> QED BY Zenon, <1>2, <4>1 DEF RingInv, Reports, Report
    <3>6. End(b) <= nicPos /\ \A i \in DOMAIN cq : End(b) <= cq[i].at
      BY Zenon, <1>2, <3>2, <3>4, <3>5, Transitive
    <3> QED BY Zenon, <1>1, <1>3, <3>1, <3>2, <3>3, <3>6 DEF Taking
  <2>2. CASE ~Accounts(cq[1])
    <3>1. UNCHANGED <<release, newHead, haveAny>>
      BY Zenon, <2>2 DEF CompleteEntry
    <3>2. CASE ~haveAny
      BY <3>1, <3>2 DEF Taking
    <3>3. CASE haveAny
      <4>1. PICK b \in Blks :
               /\ Live(b) /\ newHead = End(b) /\ release = meta[b].slotTail
               /\ newHead <= nicPos /\ \A i \in DOMAIN cq : newHead <= cq[i].at
        BY Zenon, <3>3 DEF RingInv, Taking
      <4>2. Live(b)' /\ End(b)' = End(b) /\ meta' = meta
        BY Zenon, <1>1, <4>1 DEF Live, End, ring
      <4> QED BY Zenon, <1>1, <1>3, <3>1, <4>1, <4>2 DEF Taking
    <3> QED BY <3>2, <3>3
  <2> QED BY <2>1, <2>2
<1> QED BY Zenon, <1>1, <1>4, <1>5, OrderKept, RingKept, BatchKept DEF RingInv

\* What Complete does as it returns, when r is the last entry it takes back.
Returns(r) ==
    /\ UNCHANGED <<mode, pi, slots, slotTail, meta, sq, doorbell, nicPos, cq>>
    /\ out' = out \cup FramesUpTo(release) /\ slotHead' = release /\ head' = newHead
    /\ pc' = "idle" /\ ~haveAny'
    /\ r \in Blks /\ Live(r) /\ newHead = End(r) /\ release = meta[r].slotTail
    /\ newHead <= nicPos /\ \A i \in DOMAIN cq : newHead <= cq[i].at

LEMMA ReturnReturns ==
    ASSUME TypeOK, RingInv, CompleteReturn, haveAny
    PROVE  \E r : Returns(r)
<1>1. /\ UNCHANGED <<mode, pi, slots, slotTail, meta, sq, doorbell, nicPos, cq>>
      /\ out' = out \cup FramesUpTo(release) /\ slotHead' = release /\ head' = newHead
      /\ pc' = "idle" /\ ~haveAny'
  BY DEF CompleteReturn, nicVars
<1>2. PICK r \in Blks :
         /\ Live(r) /\ newHead = End(r) /\ release = meta[r].slotTail
         /\ newHead <= nicPos /\ \A i \in DOMAIN cq : newHead <= cq[i].at
  BY Zenon DEF RingInv, Taking
<1> QED BY Zenon, <1>1, <1>2 DEF Returns

LEMMA BlockTyped ==
    ASSUME TypeOK, NEW b \in Blks
    PROVE  /\ sq[b].pos \in Int /\ sq[b].bbs \in Nat /\ End(b) \in Int
           /\ End(b) = sq[b].pos + sq[b].bbs /\ meta[b].slotTail \in Nat
BY WqeTyped DEF End

\* The entry taken back last leaves the cursors in order, ...
LEMMA ReturnCursors ==
    ASSUME TypeOK, RingInv, NEW r, Returns(r)
    PROVE  /\ sq[r].bbs >= 1 /\ End(r) <= pi /\ slotHead < release /\ release <= slotTail
           /\ mode = "single" => slotTail - release <= pi - End(r)
BY Zenon DEF RingInv, Entries, Returns

\* ... and the entries still in flight are those behind it.
LEMMA ReturnLive ==
    ASSUME TypeOK, RingInv, NEW r, Returns(r), NEW b \in Blks
    PROVE  /\ Live(b)' <=> Live(b) /\ sq[r].pos < sq[b].pos
           /\ End(b)' = End(b)
<1>1. Live(b)' <=> sq[b].pos >= End(r)
  BY Zenon DEF Live, Returns
<1>2. r \in Blks /\ Live(r) /\ sq[r].bbs >= 1
  BY Zenon, ReturnCursors DEF Returns
<1>3. ASSUME sq[b].pos >= End(r) PROVE Live(b) /\ sq[r].pos < sq[b].pos
  <2>1. sq[r].pos \in Int /\ sq[b].pos \in Int /\ head \in Int /\ sq[r].bbs \in Nat
    BY <1>2, BlockTyped, Numbers
  <2> QED BY <1>2, <1>3, <2>1 DEF Live, End
<1>4. ASSUME Live(b), sq[r].pos < sq[b].pos PROVE sq[b].pos >= End(r)
  <2>1. End(r) <= sq[b].pos
    BY Zenon, <1>2, <1>4 DEF RingInv, Ordered
  <2>2. End(r) \in Int /\ sq[b].pos \in Int
    BY Zenon, <1>2, BlockTyped
  <2> QED BY <2>1, <2>2
<1>5. End(b)' = End(b)
  BY Zenon DEF End, Returns
<1> QED BY Zenon, <1>1, <1>3, <1>4, <1>5

LEMMA ReturnSizes ==
    ASSUME NEW r, Returns(r)
    PROVE  Slots' = Slots /\ Published' = Published
BY Zenon DEF Returns, Slots, Published

LEMMA ReturnOrder ==
    ASSUME TypeOK, RingInv, NEW r, Returns(r)
    PROVE  Order'
<1>1. /\ head' = End(r) /\ slotHead' = release /\ End(r) <= nicPos
      /\ r \in Blks /\ sq[r].pos >= head
  BY Zenon DEF Returns, Live
<1>2. UNCHANGED <<mode, pi, slotTail, nicPos>> /\ Slots' = Slots /\ Published' = Published
  BY Zenon, ReturnSizes DEF Returns
<1>3. /\ sq[r].bbs >= 1 /\ slotHead < release /\ release <= slotTail
      /\ mode = "single" => slotTail - release <= pi - End(r)
  BY Zenon, ReturnCursors
<1>4. /\ nicPos <= Published /\ Published <= pi /\ pi - head <= BBs
      /\ slotTail - slotHead <= Slots
  BY DEF RingInv, Order
<1>5. pi - End(r) <= BBs
  <2>1. sq[r].pos \in Int /\ sq[r].bbs \in Nat /\ End(r) = sq[r].pos + sq[r].bbs
    BY Zenon, <1>1, BlockTyped
  <2> QED BY <1>1, <1>3, <1>4, <2>1, Numbers
<1>6. slotTail - release <= Slots
  BY <1>3, <1>4, Numbers
<1> QED BY Zenon, <1>1, <1>2, <1>3, <1>4, <1>5, <1>6 DEF Order

LEMMA ReturnEntries ==
    ASSUME TypeOK, RingInv, NEW r, Returns(r)
    PROVE  Entries'
<1>1. /\ mode' = mode /\ pi' = pi /\ slots' = slots /\ slotTail' = slotTail /\ meta' = meta
      /\ sq' = sq /\ slotHead' = release /\ Slots' = Slots
  BY Zenon, ReturnSizes DEF Returns
<1>2. ASSUME NEW b \in Blks, Live(b)'
      PROVE  /\ sq[b].pos % BBs = b /\ sq[b].bbs >= 1 /\ End(b) <= pi
             /\ meta[b].bbs = sq[b].bbs /\ meta[b].slotTail <= slotTail
             /\ mode = "single" => slotTail - meta[b].slotTail <= pi - End(b)
             /\ release < meta[b].slotTail
             /\ sq[b].frames \subseteq Window(release, meta[b].slotTail)
  <2>1. Live(b) /\ sq[r].pos < sq[b].pos
    BY Zenon, <1>2, ReturnLive
  <2>2. /\ sq[b].pos % BBs = b /\ sq[b].bbs >= 1 /\ End(b) <= pi
        /\ meta[b].bbs = sq[b].bbs /\ meta[b].slotTail <= slotTail
        /\ mode = "single" => slotTail - meta[b].slotTail <= pi - End(b)
    BY Zenon, <2>1 DEF RingInv, Entries
  <2>3. /\ release < meta[b].slotTail
        /\ sq[b].frames \subseteq Window(release, meta[b].slotTail)
    BY Zenon, <2>1 DEF RingInv, Ordered, Returns
  <2> QED BY Zenon, <2>2, <2>3
<1> QED BY <1>1, <1>2 DEF Entries, Window, End

LEMMA ReturnOrdered ==
    ASSUME TypeOK, RingInv, NEW r, Returns(r)
    PROVE  Ordered'
<1>1. slots' = slots /\ meta' = meta /\ sq' = sq /\ Slots' = Slots
  BY Zenon, ReturnSizes DEF Returns
<1>2. ASSUME NEW a \in Blks, NEW b \in Blks, Live(a)', Live(b)', sq[a].pos < sq[b].pos
      PROVE  /\ End(a) <= sq[b].pos /\ meta[a].slotTail < meta[b].slotTail
             /\ sq[b].frames \subseteq Window(meta[a].slotTail, meta[b].slotTail)
  <2>1. Live(a) /\ Live(b)
    BY Zenon, <1>2, ReturnLive
  <2> QED BY Zenon, <1>2, <2>1 DEF RingInv, Ordered
<1> QED BY <1>1, <1>2 DEF Ordered, Window, End

LEMMA ReturnCovered ==
    ASSUME TypeOK, RingInv, NEW r, Returns(r)
    PROVE  Covered'
<1> SUFFICES ASSUME NEW p \in End(r) .. pi - 1
             PROVE  \E b \in Blks : Live(b)' /\ sq[b].pos <= p /\ p < End(b)
  BY Zenon DEF Covered, Returns, End
<1>1. r \in Blks /\ Live(r) /\ sq[r].bbs >= 1
  BY Zenon, ReturnCursors DEF Returns
<1>2. p \in Int /\ p \in head .. pi - 1 /\ End(r) <= p
  <2>1. /\ sq[r].pos \in Int /\ sq[r].bbs \in Nat /\ End(r) \in Int
        /\ End(r) = sq[r].pos + sq[r].bbs
    BY Zenon, <1>1, BlockTyped
  <2> QED BY <1>1, <2>1, Numbers DEF Live
<1>3. PICK b \in Blks : Live(b) /\ sq[b].pos <= p /\ p < End(b)
  BY Zenon, <1>2 DEF RingInv, Covered
<1>4. /\ sq[b].pos \in Int /\ sq[r].pos \in Int /\ End(b) \in Int /\ End(r) \in Int
  BY Zenon, <1>1, BlockTyped
<1>5. ~(sq[b].pos < sq[r].pos)
  <2> SUFFICES ASSUME sq[b].pos < sq[r].pos PROVE FALSE
    BY Zenon
  <2>1. End(b) <= sq[r].pos
    BY Zenon, <1>1, <1>3 DEF RingInv, Ordered
  <2>2. sq[r].pos <= End(r)
    BY <1>1, BlockTyped
  <2> QED BY <1>2, <1>3, <1>4, <2>1, <2>2
<1>6. sq[b].pos # sq[r].pos
  <2> SUFFICES ASSUME sq[b].pos = sq[r].pos PROVE FALSE
    OBVIOUS
  <2>1. b = r
    BY Zenon, <1>1, <1>3 DEF RingInv, Entries
  <2> QED BY <1>2, <1>3, <1>4, <2>1
<1>7. Live(b)'
  <2>1. sq[r].pos < sq[b].pos
    BY <1>4, <1>5, <1>6
  <2> QED BY Zenon, <1>3, <2>1, ReturnLive
<1> QED BY Zenon, <1>3, <1>7

LEMMA ReturnStale ==
    ASSUME TypeOK, RingInv, NEW r, Returns(r)
    PROVE  StaleRecords'
<1> SUFFICES ASSUME NEW b \in Blks, ~Live(b)'
             PROVE  meta[b].bbs = 0 \/ meta[b].slotTail <= release
  BY Zenon DEF StaleRecords, Returns
<1>1. /\ meta[b].slotTail \in Nat /\ sq[b].pos \in Int /\ sq[r].pos \in Int
      /\ release = meta[r].slotTail /\ r \in Blks /\ Live(r) /\ meta[r].slotTail \in Nat
  BY Zenon, BlockTyped DEF Returns
<1>2. CASE ~Live(b)
  <2>1. meta[b].bbs = 0 \/ meta[b].slotTail <= slotHead
    BY Zenon, <1>2 DEF RingInv, StaleRecords
  <2>2. slotHead < release
    BY Zenon, ReturnCursors
  <2> QED BY <1>1, <2>1, <2>2, Numbers
<1>3. CASE Live(b)
  <2>1. ~(sq[r].pos < sq[b].pos)
    BY Zenon, <1>3, ReturnLive
  <2>2. CASE sq[b].pos < sq[r].pos
    <3>1. meta[b].slotTail < meta[r].slotTail
      BY Zenon, <1>1, <1>3, <2>2 DEF RingInv, Ordered
    <3> QED BY <1>1, <3>1
  <2>3. CASE sq[b].pos = sq[r].pos
    <3>1. b = r
      BY Zenon, <1>1, <1>3, <2>3 DEF RingInv, Entries
    <3> QED BY <1>1, <3>1
  <2> QED BY <1>1, <2>1, <2>2, <2>3
<1> QED BY Zenon, <1>2, <1>3

LEMMA ReturnBoundary ==
    ASSUME TypeOK, RingInv, NEW r, Returns(r), NEW p, Boundary(p)
    PROVE  \A b \in Blks : Live(b)' /\ sq'[b].pos < p => End(b)' <= p
BY Zenon, ReturnLive DEF Boundary, Returns

LEMMA ReturnReports ==
    ASSUME TypeOK, RingInv, NEW r, Returns(r)
    PROVE  Boundaries' /\ Reports'
<1>1. UNCHANGED <<nicPos, cq>> /\ Published' = Published /\ head' = newHead
  BY Zenon, ReturnSizes DEF Returns
<1>2. Boundaries'
  <2>1. Boundary(nicPos) /\ Boundary(Published)
    BY DEF RingInv, Boundaries
  <2>2. Boundary(nicPos)' /\ Boundary(Published)'
    BY Zenon, <1>1, <2>1, ReturnBoundary DEF Boundary
  <2> QED BY <2>2 DEF Boundaries
<1>3. ASSUME NEW i \in DOMAIN cq PROVE Report(cq[i])'
  <2>1. Report(cq[i]) /\ newHead <= cq[i].at
    BY Zenon DEF RingInv, Reports, Returns
  <2>2. Boundary(cq[i].at)'
    BY Zenon, <1>1, <2>1, ReturnBoundary DEF Boundary, Report
  <2> QED BY Zenon, <1>1, <2>1, <2>2 DEF Report
<1>4. \A i, j \in DOMAIN cq : i <= j => cq[i].at <= cq[j].at
  BY DEF RingInv, Reports
<1> QED BY Zenon, <1>1, <1>2, <1>3, <1>4 DEF Reports

\* The slots from slotHead to release change hands.
LEMMA ReturnConserves ==
    ASSUME TypeOK, RingInv, NEW r, Returns(r)
    PROVE  FramesConserved'
<1> DEFINE F(n) == slots[n % Slots]
           gone == {F(n) : n \in slotHead .. release - 1}
           left == {F(n) : n \in release .. slotTail - 1}
<1>1. /\ out \cup InFlightFrames = Frames /\ out \cap InFlightFrames = {}
      /\ \A m, n \in slotHead .. slotTail - 1 : F(m) = F(n) => m = n
  BY Zenon DEF RingInv, FramesConserved
<1>2. InFlightFrames = {F(n) : n \in slotHead .. slotTail - 1}
  BY Zenon DEF InFlightFrames
<1>3. UNCHANGED <<slots, slotTail>> /\ slotHead' = release /\ Slots' = Slots
  BY Zenon, ReturnSizes DEF Returns
<1>4. InFlightFrames' = left
  BY Zenon, <1>3 DEF InFlightFrames
<1>5. out' = out \cup gone
  BY Zenon DEF Returns, FramesUpTo
<1>6. \A n \in Int : n \in slotHead .. slotTail - 1
                       <=> n \in slotHead .. release - 1 \/ n \in release .. slotTail - 1
  BY ReturnCursors, Numbers
<1>7. \A n \in Int : ~(n \in slotHead .. release - 1 /\ n \in release .. slotTail - 1)
  BY Numbers
<1>8. /\ slotHead .. slotTail - 1 \subseteq Int /\ slotHead .. release - 1 \subseteq Int
      /\ release .. slotTail - 1 \subseteq Int
  BY Numbers
<1> HIDE DEF F
<1>9. \A m, n \in release .. slotTail - 1 : F(m) = F(n) => m = n
  BY <1>1, <1>6, <1>8
<1>10. InFlightFrames = gone \cup left
  BY <1>2, <1>6, <1>8
<1>11. gone \cap left = {}
  BY <1>1, <1>6, <1>7, <1>8
<1>12. out' \cup InFlightFrames' = Frames /\ out' \cap InFlightFrames' = {}
  <2> HIDE DEF gone, left
  <2> QED BY <1>1, <1>4, <1>5, <1>10, <1>11
<1> QED BY Zenon, <1>3, <1>9, <1>12 DEF FramesConserved, F

LEMMA ReturnKeeps ==
    ASSUME TypeOK, RingInv, CompleteReturn, haveAny
    PROVE  RingInv'
<1>1. PICK r : Returns(r)
  BY ReturnReturns
<1>2. Batch' /\ Taking'
  BY Zenon, <1>1 DEF Batch, Taking, Returns
<1>3. Order' /\ Entries' /\ Ordered' /\ Covered'
  BY <1>1, ReturnOrder, ReturnEntries, ReturnOrdered, ReturnCovered
<1>4. StaleRecords' /\ Boundaries' /\ Reports' /\ FramesConserved'
  BY <1>1, ReturnStale, ReturnReports, ReturnConserves
<1> QED BY <1>2, <1>3, <1>4 DEF RingInv

-----------------------------------------------------------------------------
(* Writing an entry. *)

LEMMA AheadFront ==
    ASSUME NEW n \in Nat \ {0}, NEW a \in Int, NEW p \in Int, a <= p, p - a < n
    PROVE  Ahead(p % n, a, n) = p - a
<1>1. ((p % n) - a) % n = (p - a) % n
  BY Zenon, ModShift
<1>2. (p - a) % n = p - a
  BY ModSmall
<1> QED BY <1>1, <1>2 DEF Ahead

LEMMA AheadBehind ==
    ASSUME NEW n \in Nat \ {0}, NEW a \in Int, NEW p \in Int, p < a, a - p <= n
    PROVE  Ahead(p % n, a, n) = p - a + n
<1>1. ((p % n) - a) % n = (p - a) % n
  BY Zenon, ModShift
<1> DEFINE r == p - a + n
<1>2. r \in 0 .. n - 1 /\ n * (-1) + r = p - a
  BY SMT
<1> HIDE DEF r
<1>3. (n * (-1) + r) % n = r
  BY <1>2, ModUnique
<1> QED BY <1>1, <1>2, <1>3 DEF Ahead, r

\* What an entry written by Post does to the two rings.
LEMMA PostsFrame ==
    ASSUME TypeOK, RingInv, NEW k \in Nat, NEW n \in Nat, Posts(k, n)
    PROVE  /\ \A b \in Blks : Live(b) => b # pi % BBs /\ sq'[b] = sq[b] /\ meta'[b] = meta[b]
           /\ \A b \in Blks : Live(b)' <=> b = pi % BBs \/ Live(b)
           /\ sq'[pi % BBs].pos = pi /\ sq'[pi % BBs].bbs = n
           /\ sq'[pi % BBs].frames = {todo[i].frame : i \in 1 .. k}
           /\ meta'[pi % BBs].slotTail = slotTail + k /\ meta'[pi % BBs].bbs = n
           /\ \A b \in Blks : b # pi % BBs => meta'[b] = meta[b]
<1> DEFINE b0 == pi % BBs
<1>1. PICK g \in BOOLEAN :
         sq' = [b \in 0 .. BBs - 1 |->
                   IF b = b0
                   THEN [pos |-> pi, bbs |-> n, signaled |-> g,
                         frames |-> {todo[i].frame : i \in 1 .. k}]
                   ELSE IF Ahead(b, pi, BBs) < n THEN NoWqe ELSE sq[b]]
  BY Zenon DEF Posts
<1>2. /\ meta' = [meta EXCEPT ![b0] = [slotTail |-> slotTail + k, bbs |-> n]]
      /\ head' = head
  BY DEF Posts
<1>3. b0 \in Blks
  BY Numbers, InRing
<1>4. n >= 1 /\ pi + n - head <= BBs
  BY DEF Posts
<1>5. Ahead(b0, pi, BBs) = 0
  <2>1. BBs \in Nat \ {0} /\ pi \in Int /\ pi <= pi /\ pi - pi < BBs
    BY Numbers
  <2>2. Ahead(b0, pi, BBs) = pi - pi
    BY Zenon, <2>1, AheadFront
  <2> QED BY <2>1, <2>2
<1>6. ASSUME NEW b \in Blks, Live(b) PROVE ~(Ahead(b, pi, BBs) < n)
  <2>1. sq[b].pos % BBs = b /\ End(b) <= pi /\ sq[b].bbs >= 1
    BY <1>6 DEF RingInv, Entries
  <2>2. PICK p \in Int : p = sq[b].pos
    BY WqeTyped
  <2>3. head <= p /\ p < pi
    BY <1>6, <2>1, <2>2, WqeTyped, Numbers DEF Live, End
  <2>4. BBs \in Nat \ {0} /\ pi \in Int /\ pi - p <= BBs
    BY <1>4, <2>3, Numbers
  <2>5. Ahead(p % BBs, pi, BBs) = p - pi + BBs
    BY <2>3, <2>4, AheadBehind
  <2>6. p - pi + BBs >= n
    BY <1>4, <2>3, Numbers
  <2>7. Ahead(b, pi, BBs) = p - pi + BBs
    BY <2>1, <2>2, <2>5
  <2> QED BY <2>4, <2>6, <2>7
<1> HIDE DEF b0
<1>7. ASSUME NEW b \in Blks, Live(b) PROVE b # b0
  BY <1>4, <1>5, <1>6, <1>7
<1>8. ASSUME NEW b \in Blks, Live(b) PROVE sq'[b] = sq[b]
  BY <1>1, <1>6, <1>7, <1>8 DEF Blks
<1>9. \A b \in Blks : b # b0 => meta'[b] = meta[b]
  BY <1>2, Shapes
<1>10. meta'[b0] = [slotTail |-> slotTail + k, bbs |-> n]
  BY <1>2, <1>3, Shapes
<1>11. sq'[b0] = [pos |-> pi, bbs |-> n, signaled |-> g,
                  frames |-> {todo[i].frame : i \in 1 .. k}]
  BY <1>1, <1>3 DEF Blks
<1>12. ASSUME NEW b \in Blks PROVE Live(b)' <=> b = b0 \/ Live(b)
  <2>1. CASE b = b0
    <3>1. sq'[b].pos = pi
      BY <1>11, <2>1
    <3>2. pi >= head
      BY PublishedFacts, Numbers DEF RingInv, Order
    <3> QED BY <1>2, <2>1, <3>1, <3>2 DEF Live
  <2>2. CASE Live(b)
    BY <1>2, <1>8, <2>2 DEF Live
  <2>3. CASE b # b0 /\ ~Live(b)
    <3>1. sq'[b] \in {NoWqe, sq[b]}
      BY <1>1, <2>3 DEF Blks
    <3>2. NoWqe.pos = -1
      BY DEF NoWqe
    <3>3. ~(-1 >= head)
      BY Numbers
    <3>4. ~(sq'[b].pos >= head)
      BY <2>3, <3>1, <3>2, <3>3 DEF Live
    <3> QED BY <1>2, <2>3, <3>4 DEF Live
  <2> QED BY <2>1, <2>2, <2>3
<1> QED BY <1>7, <1>8, <1>9, <1>10, <1>11, <1>12 DEF b0

LEMMA PostsSlots ==
    ASSUME TypeOK, RingInv, NEW k \in Nat, NEW n \in Nat, Posts(k, n)
    PROVE  /\ \A s \in slotHead .. slotTail - 1 : slots'[s % Slots] = slots[s % Slots]
           /\ \A s \in slotTail .. slotTail + k - 1 :
                 slots'[s % Slots] = todo[s - slotTail + 1].frame
<1>1. /\ slots' = [s \in 0 .. Slots - 1 |->
                     IF Ahead(s, slotTail, Slots) < k
                     THEN todo[Ahead(s, slotTail, Slots) + 1].frame ELSE slots[s]]
      /\ slotTail + k - slotHead <= Slots
  BY DEF Posts
<1>2. Slots \in Nat \ {0} /\ slotHead \in Int /\ slotTail \in Int /\ slotHead <= slotTail
  BY Numbers DEF RingInv, Order
<1>3. ASSUME NEW s \in slotHead .. slotTail - 1
      PROVE  slots'[s % Slots] = slots[s % Slots]
  <2>1. s \in Int /\ s < slotTail /\ slotTail - s <= Slots
    BY <1>1, <1>2
  <2>2. Ahead(s % Slots, slotTail, Slots) = s - slotTail + Slots
    BY Zenon, <1>2, <2>1, AheadBehind
  <2>3. s % Slots \in 0 .. Slots - 1
    BY <2>1, InRing
  <2>4. ~(s - slotTail + Slots < k)
    BY <1>1, <1>2
  <2> QED BY <1>1, <2>2, <2>3, <2>4
<1>4. ASSUME NEW s \in slotTail .. slotTail + k - 1
      PROVE  slots'[s % Slots] = todo[s - slotTail + 1].frame
  <2>1. s \in Int /\ slotTail <= s /\ s - slotTail < Slots
    BY <1>1, <1>2
  <2>2. Ahead(s % Slots, slotTail, Slots) = s - slotTail
    BY Zenon, <1>2, <2>1, AheadFront
  <2>3. s % Slots \in 0 .. Slots - 1
    BY <2>1, InRing
  <2>4. s - slotTail < k
    BY <1>2
  <2> QED BY <1>1, <2>2, <2>3, <2>4
<1> QED BY <1>3, <1>4

LEMMA PostsWindows ==
    ASSUME TypeOK, RingInv, NEW k \in Nat, NEW n \in Nat, Posts(k, n)
    PROVE  /\ \A s, t \in Int : slotHead <= s /\ t <= slotTail => Window(s, t)' = Window(s, t)
           /\ \A s, t \in Int : s <= slotTail /\ t = slotTail + k =>
                 {todo[i].frame : i \in 1 .. k} \subseteq Window(s, t)'
<1>1. Slots' = Slots /\ slotTail' = slotTail + k
  BY DEF Posts, Slots
<1>2. slotHead \in Int /\ slotTail \in Int
  BY Numbers
<1>3. ASSUME NEW s \in Int, NEW t \in Int, slotHead <= s, t <= slotTail
      PROVE  Window(s, t)' = Window(s, t)
  <2>1. \A i \in s .. t - 1 : slots'[i % Slots] = slots[i % Slots]
    <3>1. \A i \in s .. t - 1 : i \in slotHead .. slotTail - 1
      BY <1>2, <1>3
    <3> QED BY <3>1, PostsSlots
  <2> QED BY <1>1, <2>1 DEF Window
<1>4. ASSUME NEW s \in Int, NEW t \in Int, s <= slotTail, t = slotTail + k
      PROVE  {todo[i].frame : i \in 1 .. k} \subseteq Window(s, t)'
  <2> SUFFICES ASSUME NEW i \in 1 .. k
               PROVE  todo[i].frame \in Window(s, t)'
    OBVIOUS
  <2> DEFINE j == slotTail + i - 1
  <2>1. j \in slotTail .. slotTail + k - 1 /\ j - slotTail + 1 = i
    BY <1>2
  <2>2. j \in s .. t - 1
    BY <1>2, <1>4
  <2> HIDE DEF j
  <2>3. slots'[j % Slots] = todo[i].frame
    BY <2>1, PostsSlots
  <2>4. Window(s, t)' = {slots'[m % Slots] : m \in s .. t - 1}
    BY <1>1 DEF Window
  <2> QED BY <2>2, <2>3, <2>4
<1> QED BY <1>3, <1>4

LEMMA PostsRing ==
    ASSUME TypeOK, RingInv, NEW k \in Nat, NEW n \in Nat, Posts(k, n)
    PROVE  /\ Order' /\ Entries' /\ Ordered' /\ Covered' /\ StaleRecords'
           /\ Boundaries' /\ Reports' /\ Taking'
<1> DEFINE T == {todo[i].frame : i \in 1 .. k}
<1>0. PICK b0 \in Blks : b0 = pi % BBs
  BY Numbers, InRing
<1>1. /\ k >= 1 /\ n >= 1 /\ pi + n - head <= BBs
      /\ slotTail + k - slotHead <= Slots /\ slotTail' = slotTail + k /\ pi' = pi + n
      /\ mode = "single" => k = 1
  BY DEF Posts
<1>2. UNCHANGED <<mode, head, slotHead, pc, haveAny, doorbell, nicPos, cq>> /\ pc = "post"
  BY DEF Posts
<1>3. Slots' = Slots /\ Published' = Published
  BY <1>2 DEF Slots, Published
<1>4. \A b \in Blks : Live(b)' <=> b = b0 \/ Live(b)
  BY Zenon, <1>0, PostsFrame
<1>5. /\ sq'[b0].pos = pi /\ sq'[b0].bbs = n /\ sq'[b0].frames = T
      /\ meta'[b0].slotTail = slotTail' /\ meta'[b0].bbs = n /\ b0 = pi % BBs
  BY <1>0, PostsFrame, <1>1
<1>6. /\ \A b \in Blks : Live(b) => b # b0 /\ sq'[b] = sq[b] /\ meta'[b] = meta[b]
      /\ \A b \in Blks : b # b0 => meta'[b] = meta[b]
  BY Zenon, <1>0, PostsFrame
<1>7. /\ pi \in Nat /\ head \in Nat /\ slotHead \in Nat /\ slotTail \in Nat
      /\ pi' \in Nat /\ slotTail' \in Nat /\ pi < pi' /\ slotTail < slotTail'
      /\ slotHead <= slotTail /\ nicPos \in Int /\ Published \in Int
      /\ head <= nicPos /\ nicPos <= Published /\ Published <= pi /\ head <= pi
  <2>1. k >= 1 /\ n >= 1 /\ slotTail' = slotTail + k /\ pi' = pi + n
    BY <1>1
  <2>2. /\ slotHead <= slotTail /\ head <= nicPos /\ nicPos <= Published /\ Published <= pi
    BY DEF RingInv, Order
  <2>3. Published \in Int
    BY PublishedFacts
  <2> QED BY <2>1, <2>2, <2>3, Numbers
<1>8. \A b \in Blks : Live(b) =>
         /\ sq[b].pos \in Int /\ End(b) \in Int /\ End(b) <= pi /\ sq[b].pos < pi
         /\ meta[b].slotTail \in Nat /\ slotHead < meta[b].slotTail
         /\ meta[b].slotTail <= slotTail
  <2> TAKE b \in Blks
  <2> HAVE Live(b)
  <2>1. End(b) <= pi /\ sq[b].bbs >= 1 /\ slotHead < meta[b].slotTail /\ meta[b].slotTail <= slotTail
    BY DEF RingInv, Entries
  <2>2. sq[b].pos \in Int /\ sq[b].bbs \in Nat /\ meta[b].slotTail \in Nat /\ End(b) = sq[b].pos + sq[b].bbs
    BY WqeTyped DEF End
  <2> QED BY <2>1, <2>2, <1>7
<1>9. End(b0)' = pi' /\ \A b \in Blks : Live(b) => End(b)' = End(b)
  BY <1>1, <1>5, <1>6 DEF End
<1>10. /\ \A s, t \in Int : slotHead <= s /\ t <= slotTail => Window(s, t)' = Window(s, t)
       /\ \A s, t \in Int : s <= slotTail /\ t = slotTail' => T \subseteq Window(s, t)'
  BY <1>1, PostsWindows
<1> HIDE DEF T
<1>11. Order'
  <2>1. /\ pi' - head <= BBs /\ slotTail' - slotHead <= Slots
    <3>1. /\ pi + n - head <= BBs /\ slotTail + k - slotHead <= Slots
          /\ slotTail' = slotTail + k /\ pi' = pi + n
      BY <1>1
    <3> QED BY <3>1, Numbers
  <2>2. ASSUME mode = "single" PROVE slotTail' - slotHead <= pi' - head
    <3>1. slotTail - slotHead <= pi - head /\ k = 1 /\ n >= 1
      BY <1>1, <2>2 DEF RingInv, Order
    <3>2. slotTail' = slotTail + k /\ pi' = pi + n
      BY <1>1
    <3> QED BY <3>1, <3>2, <1>7
  <2>3. Published <= pi' /\ slotHead <= slotTail'
    BY <1>7
  <2> QED BY Zenon, <1>2, <1>3, <1>7, <2>1, <2>2, <2>3 DEF Order
<1>12. Entries'
  <2>1. ASSUME NEW b \in Blks, Live(b)
        PROVE  /\ sq'[b].pos % BBs = b /\ sq'[b].bbs >= 1 /\ End(b)' <= pi'
               /\ meta'[b].bbs = sq'[b].bbs
               /\ slotHead < meta'[b].slotTail /\ meta'[b].slotTail <= slotTail'
               /\ sq'[b].frames \subseteq Window(slotHead, meta[b].slotTail)'
               /\ mode = "single" => slotTail' - meta'[b].slotTail <= pi' - End(b)'
    <3>1. sq'[b] = sq[b] /\ meta'[b] = meta[b] /\ End(b)' = End(b)
      BY Zenon, <1>6, <1>9, <2>1
    <3>2. sq[b].pos % BBs = b /\ sq[b].bbs >= 1 /\ meta[b].bbs = sq[b].bbs
      BY <2>1 DEF RingInv, Entries
    <3>3. End(b) <= pi' /\ slotHead < meta[b].slotTail /\ meta[b].slotTail <= slotTail'
      BY <1>7, <1>8, <2>1
    <3>4. sq[b].frames \subseteq Window(slotHead, meta[b].slotTail)'
      <4>1. PICK t \in Int : t = meta[b].slotTail /\ t <= slotTail
        BY <1>8, <2>1
      <4>2. sq[b].frames \subseteq Window(slotHead, t)
        BY <2>1, <4>1 DEF RingInv, Entries
      <4>3. PICK h \in Int : h = slotHead
        BY <1>7
      <4>4. Window(h, t)' = Window(h, t)
        BY <1>7, <1>10, <4>1, <4>3
      <4> QED BY <1>2, <3>1, <4>1, <4>2, <4>3, <4>4
    <3>5. ASSUME mode = "single" PROVE slotTail' - meta[b].slotTail <= pi' - End(b)
      <4>1. slotTail - meta[b].slotTail <= pi - End(b) /\ k = 1 /\ n >= 1
        BY <1>1, <2>1, <3>5 DEF RingInv, Entries
      <4>2. slotTail' = slotTail + k /\ pi' = pi + n
        BY <1>1
      <4> QED BY <4>1, <4>2, <1>7, <1>8, <2>1
    <3> QED BY Zenon, <3>1, <3>2, <3>3, <3>4, <3>5
  <2>2. /\ sq'[b0].pos % BBs = b0 /\ sq'[b0].bbs >= 1 /\ End(b0)' <= pi'
        /\ meta'[b0].bbs = sq'[b0].bbs
        /\ slotHead < meta'[b0].slotTail /\ meta'[b0].slotTail <= slotTail'
        /\ slotTail' - meta'[b0].slotTail <= pi' - End(b0)'
    BY <1>1, <1>5, <1>7, <1>9
  <2>3. sq'[b0].frames \subseteq Window(slotHead, meta[b0].slotTail)'
    <3>1. PICK h \in Int, t \in Int : h = slotHead' /\ t = meta'[b0].slotTail
      BY <1>2, <1>5, <1>7
    <3>2. T \subseteq Window(h, t)'
      BY <1>2, <1>5, <1>7, <1>10, <3>1
    <3> QED BY <1>5, <3>1, <3>2
  <2> QED BY Zenon, <1>2, <1>4, <2>1, <2>2, <2>3 DEF Entries
<1>13. Ordered'
  <2>1. SUFFICES ASSUME NEW a \in Blks, NEW b \in Blks, Live(a)', Live(b)', sq'[a].pos < sq'[b].pos
                 PROVE  /\ End(a)' <= sq'[b].pos
                        /\ meta'[a].slotTail < meta'[b].slotTail
                        /\ sq'[b].frames \subseteq Window(meta[a].slotTail, meta[b].slotTail)'
    BY DEF Ordered
  <2>2. CASE Live(a) /\ Live(b)
    <3>1. /\ sq'[a] = sq[a] /\ meta'[a] = meta[a] /\ End(a)' = End(a)
          /\ sq'[b] = sq[b] /\ meta'[b] = meta[b]
      BY <1>6, <1>9, <2>2
    <3>2. /\ End(a) <= sq[b].pos /\ meta[a].slotTail < meta[b].slotTail
          /\ sq[b].frames \subseteq Window(meta[a].slotTail, meta[b].slotTail)
      BY Zenon, <2>1, <2>2, <3>1 DEF RingInv, Ordered
    <3>3. PICK x \in Int, y \in Int : x = meta[a].slotTail /\ y = meta[b].slotTail
      BY <1>8, <2>2
    <3>4. slotHead <= x /\ y <= slotTail
      BY <1>7, <1>8, <2>2, <3>3
    <3>5. Window(x, y)' = Window(x, y)
      BY <1>10, <3>4
    <3> QED BY <3>1, <3>2, <3>3, <3>5
  <2>3. CASE Live(a) /\ b = b0
    <3>1. meta'[a] = meta[a] /\ End(a)' = End(a) /\ sq'[b].pos = pi /\ sq'[b].frames = T
          /\ meta'[b].slotTail = slotTail'
      BY Zenon, <1>5, <1>6, <1>9, <2>3
    <3>2. PICK x \in Int, y \in Int : x = meta[a].slotTail /\ y = slotTail'
      BY <1>7, <1>8, <2>3
    <3>3. x <= slotTail /\ x < y
      BY <1>7, <1>8, <2>3, <3>2
    <3>4. T \subseteq Window(x, y)'
      BY <1>10, <3>2, <3>3
    <3> QED BY Zenon, <1>8, <2>3, <3>1, <3>2, <3>3, <3>4
  <2>4. CASE a = b0 /\ Live(b)
    <3>1. sq'[a].pos = pi /\ sq'[b] = sq[b] /\ sq[b].pos \in Int /\ sq[b].pos < pi
      BY Zenon, <1>5, <1>6, <1>8, <2>4
    <3> QED BY <1>7, <2>1, <3>1
  <2>5. CASE a = b0 /\ b = b0
    <3>1. sq'[a].pos = pi /\ sq'[b].pos = pi
      BY <1>5, <2>5
    <3>2. ~(pi < pi)
      BY Numbers
    <3> QED BY Zenon, <2>1, <3>1, <3>2
  <2> QED BY Zenon, <1>4, <2>1, <2>2, <2>3, <2>4, <2>5
<1>14. Covered'
  <2>1. SUFFICES ASSUME NEW p \in head .. pi' - 1
                 PROVE  \E b \in Blks : Live(b)' /\ sq'[b].pos <= p /\ p < End(b)'
    BY <1>2 DEF Covered
  <2>2. CASE p < pi
    <3>1. p \in head .. pi - 1
      BY <1>7, <2>2
    <3>2. PICK b \in Blks : Live(b) /\ sq[b].pos <= p /\ p < End(b)
      BY <3>1 DEF RingInv, Covered
    <3> QED BY Zenon, <1>4, <1>6, <1>9, <3>2
  <2>3. CASE pi <= p
    <3>1. p < pi'
      <4>1. head \in Int /\ pi' \in Int
        BY <1>7
      <4>2. \A x, y \in Int : \A q \in x .. y - 1 : q < y
        OBVIOUS
      <4> QED BY Zenon, <4>1, <4>2
    <3> QED BY Zenon, <1>4, <1>5, <1>9, <2>3, <3>1
  <2> QED BY <1>7, <2>2, <2>3
<1>15. StaleRecords'
  <2>1. SUFFICES ASSUME NEW b \in Blks, ~Live(b)'
                 PROVE  meta'[b].bbs = 0 \/ meta'[b].slotTail <= slotHead
    BY <1>2 DEF StaleRecords
  <2>2. b # b0 /\ ~Live(b)
    BY <1>4, <2>1
  <2> QED BY <1>6, <2>2 DEF RingInv, StaleRecords
<1>16. \A p \in Int : p <= pi /\ Boundary(p) => Boundary(p)'
  <2> SUFFICES ASSUME NEW p \in Int, p <= pi, Boundary(p), NEW b \in Blks, Live(b)', sq'[b].pos < p
               PROVE  End(b)' <= p
    BY Zenon DEF Boundary
  <2>1. b # b0
    BY <1>5, <1>7
  <2>2. Live(b)
    BY <1>4, <2>1
  <2> QED BY Zenon, <1>6, <1>9, <2>2 DEF Boundary
<1>17. Boundaries'
  <2>1. PICK x \in Int, y \in Int : x = nicPos /\ y = Published /\ x <= pi /\ y <= pi
    BY <1>7
  <2>2. Boundary(x)' /\ Boundary(y)'
    BY <1>16, <2>1 DEF RingInv, Boundaries
  <2>3. x = nicPos' /\ y = Published'
    BY <1>2, <1>3, <2>1
  <2> QED BY Zenon, <2>2, <2>3 DEF Boundaries, Boundary
<1>18. Reports'
  <2>1. ASSUME NEW i \in DOMAIN cq PROVE Report(cq[i])'
    <3>1. Report(cq[i]) /\ cq[i].at \in Int
      BY CqeTyped DEF RingInv, Reports
    <3>2. PICK x \in Int : x = cq[i].at
      BY <3>1
    <3>3. x <= nicPos /\ Boundary(x)
      BY <3>1, <3>2 DEF Report
    <3>4. Boundary(x)'
      BY <1>7, <1>16, <3>3
    <3>5. cq'[i] = cq[i]
      BY <1>2
    <3> QED BY Zenon, <1>2, <3>1, <3>2, <3>4, <3>5 DEF Report, Boundary
  <2> QED BY <1>2, <2>1 DEF RingInv, Reports
<1>19. Taking'
  BY Zenon, <1>2 DEF RingInv, Taking
<1> QED BY <1>11, <1>12, <1>13, <1>14, <1>15, <1>17, <1>18, <1>19

LEMMA PostsConserved ==
    ASSUME TypeOK, RingInv, NEW k \in Nat, NEW n \in Nat, Posts(k, n)
    PROVE  FramesConserved'
<1> DEFINE T == {todo[i].frame : i \in 1 .. k}
           Slot(s) == slots[s % Slots]
           Old == slotHead .. slotTail - 1  New == slotTail .. slotTail + k - 1
<1>1. /\ out' = out \ T /\ slotHead' = slotHead /\ slotTail' = slotTail + k /\ Slots' = Slots
  BY Zenon DEF Posts, Slots
<1>2. /\ slotHead \in Int /\ slotTail \in Int /\ slotHead <= slotTail
  BY Numbers DEF RingInv, Order
<1>3. /\ \A i \in 1 .. k : todo[i].frame \in out
      /\ \A i, j \in 1 .. k : todo[i].frame = todo[j].frame => i = j
  <2>1. \A i \in 1 .. k : i \in DOMAIN todo
    <3>1. k <= Len(todo)
      BY Zenon DEF Posts
    <3>2. Len(todo) \in Nat /\ DOMAIN todo = 1 .. Len(todo)
      BY Shapes
    <3> QED BY <3>1, <3>2
  <2>2. pc = "post"
    BY Zenon DEF Posts
  <2> QED BY <2>1, <2>2 DEF RingInv, Batch
<1>4. \A s \in slotHead' .. slotTail' - 1 : s \in Old \/ s \in New
  BY <1>1, <1>2
<1>5. \A s \in Old : slots'[s % Slots] = Slot(s) /\ s \in slotHead' .. slotTail' - 1
  BY <1>1, <1>2, PostsSlots
<1>6. \A s \in New : /\ slots'[s % Slots] = todo[s - slotTail + 1].frame
                      /\ s - slotTail + 1 \in 1 .. k /\ s \in slotHead' .. slotTail' - 1
  BY <1>1, <1>2, PostsSlots
<1>7. \A i \in 1 .. k : slotTail + i - 1 \in New /\ (slotTail + i - 1) - slotTail + 1 = i
  BY <1>2
<1>8. InFlightFrames = {Slot(s) : s \in Old}
  BY DEF InFlightFrames
<1>9. InFlightFrames' = {slots'[s % Slots] : s \in slotHead' .. slotTail' - 1}
  BY <1>1 DEF InFlightFrames
<1>10. /\ out \cup InFlightFrames = Frames /\ out \cap InFlightFrames = {}
       /\ \A s, t \in Old : Slot(s) = Slot(t) => s = t
  BY DEF RingInv, FramesConserved
<1> HIDE DEF Old, New, Slot
<1>11. \A s \in New : slots'[s % Slots] \in T
  BY <1>6
<1>12. \A s \in Old : slots'[s % Slots] \in InFlightFrames
  BY <1>5, <1>8
<1>13. InFlightFrames' = InFlightFrames \cup T
  <2>1. InFlightFrames' \subseteq InFlightFrames \cup T
    BY <1>4, <1>9, <1>11, <1>12
  <2>2. InFlightFrames \subseteq InFlightFrames'
    BY <1>5, <1>8, <1>9
  <2>3. T \subseteq InFlightFrames'
    <3> SUFFICES ASSUME NEW i \in 1 .. k PROVE todo[i].frame \in InFlightFrames'
      OBVIOUS
    <3>1. PICK s \in New : s - slotTail + 1 = i
      BY <1>7
    <3>2. slots'[s % Slots] = todo[i].frame /\ s \in slotHead' .. slotTail' - 1
      BY <1>6, <3>1
    <3> QED BY <1>9, <3>2
  <2> QED BY <2>1, <2>2, <2>3
<1>14. T \subseteq out
  BY <1>3
<1>15. ASSUME NEW s \in slotHead' .. slotTail' - 1, NEW t \in slotHead' .. slotTail' - 1,
              slots'[s % Slots] = slots'[t % Slots]
       PROVE  s = t
  <2>1. CASE s \in Old /\ t \in Old
    BY <1>5, <1>10, <1>15, <2>1
  <2>2. CASE s \in Old /\ t \in New
    BY <1>10, <1>11, <1>12, <1>14, <1>15, <2>2
  <2>3. CASE s \in New /\ t \in Old
    BY <1>10, <1>11, <1>12, <1>14, <1>15, <2>3
  <2>4. CASE s \in New /\ t \in New
    <3>1. s - slotTail + 1 = t - slotTail + 1
      BY <1>3, <1>6, <1>15, <2>4
    <3>2. s \in Int /\ t \in Int
      BY <1>2, <2>4 DEF New
    <3> QED BY <1>2, <3>1, <3>2
  <2> QED BY <1>4, <2>1, <2>2, <2>3, <2>4
<1> HIDE DEF T
<1> QED BY SMTT(30), <1>1, <1>10, <1>13, <1>14, <1>15 DEF FramesConserved

LEMMA PostsBatch ==
    ASSUME TypeOK, RingInv, NEW k \in Nat, NEW n \in Nat, Posts(k, n)
    PROVE  Batch'
<1>1. /\ pc = "post" /\ out' = out \ {todo[i].frame : i \in 1 .. k}
      /\ mode' = mode /\ head' = head /\ pi' = pi + n /\ k >= 1 /\ k <= Len(todo)
      /\ mode = "single" => k = 1 /\ n <= MaxBBs
  BY Zenon DEF Posts
<1>2. todo \in Seq(Desc) /\ Len(todo) \in Nat /\ DOMAIN todo = 1 .. Len(todo)
  BY Shapes
<1>3. /\ \A i \in 1 .. Len(todo) : todo[i].frame \in out
      /\ \A i, j \in 1 .. Len(todo) : todo[i].frame = todo[j].frame => i = j
  BY Zenon, <1>1, <1>2 DEF RingInv, Batch
<1>4. PICK m \in Nat : m = Len(todo) /\ k <= m
  BY Zenon, <1>1, <1>2
<1>5. MaxBBs' = MaxBBs /\ FreeBlocks' = FreeBlocks - n /\ FreeBlocks \in Int
  <2>1. FreeBlocks' = BBs - ((pi + n) - head) /\ FreeBlocks = BBs - (pi - head)
    BY <1>1 DEF FreeBlocks
  <2>2. MaxBBs' = MaxBBs
    BY <1>1 DEF MaxBBs, Inline
  <2> QED BY <2>1, <2>2, Numbers
<1>6. CASE todo' = <<>>
  <2>1. DOMAIN todo' = {} /\ Len(todo') = 0
    BY <1>6
  <2>2. mode = "single" => 0 * MaxBBs <= FreeBlocks - n
    <3> SUFFICES ASSUME mode = "single" PROVE 0 * MaxBBs <= FreeBlocks - n
      OBVIOUS
    <3>1. pi + n - head <= BBs
      BY Zenon DEF Posts
    <3>2. FreeBlocks = BBs - (pi - head)
      BY DEF FreeBlocks
    <3>3. MaxBBs \in Nat
      BY Sizes
    <3>4. \A x \in Nat : 0 * x = 0
      OBVIOUS
    <3>5. FreeBlocks - n >= 0
      BY <3>1, <3>2, Numbers
    <3>6. 0 * MaxBBs = 0
      BY <3>3, <3>4
    <3> QED BY <3>5, <3>6, <1>5
  <2> QED BY <1>1, <1>5, <2>1, <2>2 DEF Batch
<1>7. CASE todo' = SubSeq(todo, k + 1, Len(todo))
  <2>1. /\ Len(todo') = m - k /\ DOMAIN todo' = 1 .. m - k
        /\ \A i \in 1 .. m - k : todo'[i] = todo[k + i]
    <3>1. k \in 0 .. Len(todo)
      BY <1>4
    <3>2. /\ SubSeq(todo, k + 1, Len(todo)) \in Seq(Desc)
          /\ Len(SubSeq(todo, k + 1, Len(todo))) = Len(todo) - k
          /\ \A i \in 1 .. Len(todo) - k : SubSeq(todo, k + 1, Len(todo))[i] = todo[k + i]
      BY Zenon, <1>2, <3>1, Suffix
    <3>3. todo' \in Seq(Desc) /\ Len(todo') = m - k
      BY <1>4, <1>7, <3>2
    <3>4. DOMAIN todo' = 1 .. m - k
      BY <3>3
    <3> QED BY Zenon, <1>4, <1>7, <3>2, <3>3, <3>4
  <2>2. \A i \in 1 .. m - k : k + i \in 1 .. m /\ k + i \notin 1 .. k
    BY <1>4
  <2>3. \A i \in 1 .. k : i \in 1 .. m
    BY <1>4
  <2>4. \A i \in 1 .. m - k : todo'[i].frame \in out'
    <3> SUFFICES ASSUME NEW i \in 1 .. m - k PROVE todo[k + i].frame \in out'
      BY <2>1
    <3>1. PICK j \in 1 .. m : j = k + i /\ j \notin 1 .. k
      BY <2>2
    <3>2. todo[j].frame \in out /\ \A h \in 1 .. k : todo[h].frame # todo[j].frame
      BY <1>3, <1>4, <2>3, <3>1
    <3> QED BY Zenon, <1>1, <3>1, <3>2
  <2>5. ASSUME NEW i \in 1 .. m - k, NEW j \in 1 .. m - k, todo'[i].frame = todo'[j].frame
        PROVE  i = j
    <3>1. todo'[i] = todo[k + i] /\ todo'[j] = todo[k + j]
      BY Zenon, <2>1
    <3>2. k + i = k + j
      BY Zenon, <1>3, <1>4, <2>2, <2>5, <3>1
    <3> QED BY <3>2
  <2>6. mode = "single" => (m - k) * MaxBBs <= FreeBlocks - n
    <3> SUFFICES ASSUME mode = "single" PROVE (m - k) * MaxBBs <= FreeBlocks - n
      OBVIOUS
    <3>1. k = 1 /\ n <= MaxBBs /\ m * MaxBBs <= FreeBlocks
      BY Zenon, <1>1, <1>4 DEF RingInv, Batch
    <3>2. MaxBBs \in Int /\ FreeBlocks \in Int
      BY Sizes
    <3>3. \A a, x, f, c \in Int : a * x <= f /\ c <= x => (a - 1) * x <= f - c
      BY SMT
    <3> QED BY <3>1, <3>2, <3>3
  <2>7. mode' = "single" => Len(todo') * MaxBBs' <= FreeBlocks'
    BY <1>1, <1>5, <2>1, <2>6
  <2> QED BY Zenon, <2>1, <2>4, <2>5, <2>7 DEF Batch
<1> QED BY Zenon, <1>6, <1>7 DEF Posts

LEMMA PostEntryKeeps ==
    ASSUME TypeOK, RingInv, EntrySound, PostEntry
    PROVE  RingInv'
<1>1. PICK k \in Nat, n \in Nat : Posts(k, n)
  BY PostEntryPosts
<1> QED BY <1>1, PostsRing, PostsConserved, PostsBatch DEF RingInv

-----------------------------------------------------------------------------
(* The completion queue. *)

\* Completions that take a place, read or unread, are no more than the blocks
\* executed and not yet taken back, and the faulty ones.  So it is, too, of
\* those behind the one Complete takes back last, and behind any of the queue:
\* that is what remains when Complete returns.
Places ==
    /\ completed + Len(cq) <= (nicPos - head) + faults
    /\ haveAny => Len(cq) <= (nicPos - newHead) + faults
    /\ \A k \in DOMAIN cq : Len(cq) - k <= (nicPos - cq[k].at) + faults
    /\ faults <= MaxFaults

LEMMA PlaceNumbers ==
    ASSUME TypeOK
    PROVE  /\ completed \in Nat /\ faults \in Nat /\ nicPos \in Nat /\ head \in Nat
           /\ newHead \in Nat /\ Len(cq) \in Nat /\ DOMAIN cq = 1 .. Len(cq)
           /\ \A k \in DOMAIN cq : cq[k].at \in Nat
BY CqeTyped, Numbers DEF TypeOK

LEMMA OneMorePlace ==
    ASSUME NEW x \in Int, NEW p \in Int, NEW h \in Int, NEW f \in Int,
           NEW q \in Int, NEW g \in Int, x <= (p - h) + f, (q - p) + (g - f) >= 1
    PROVE  x <= (q - h) + g /\ x + 1 <= (q - h) + g
OBVIOUS

\* A completion more, for a block more executed or a fault more.
LEMMA PlacesAppended ==
    ASSUME TypeOK, Places, NEW c \in Cqe, c.at = nicPos', nicPos' \in Nat,
           cq' \in {cq, Append(cq, c)}, faults' \in Nat, faults' <= MaxFaults,
           (nicPos' - nicPos) + (faults' - faults) >= 1,
           UNCHANGED <<completed, head, newHead, haveAny>>
    PROVE  Places'
<1>1. PICK l \in Nat, p \in Int, q \in Int, f \in Int, g \in Int :
         /\ l = Len(cq) /\ p = nicPos /\ q = nicPos' /\ f = faults /\ g = faults'
         /\ (q - p) + (g - f) >= 1 /\ g >= 0 /\ l \in Int
  <2>1. \A n \in Nat : n \in Int /\ n >= 0
    OBVIOUS
  <2> QED BY Zenon, <2>1, PlaceNumbers
<1>2. PICK x \in Int, h \in Int, y \in Int : x = completed + l /\ h = head /\ y = newHead
  <2>1. completed + l \in Int /\ head \in Int /\ newHead \in Int
    BY PlaceNumbers
  <2> QED BY Zenon, <2>1
<1>3. x <= (p - h) + f /\ (haveAny => l <= (p - y) + f)
  BY Zenon, <1>1, <1>2 DEF Places
<1>4. /\ x <= (q - h) + g /\ x + 1 <= (q - h) + g
      /\ haveAny => l <= (q - y) + g /\ l + 1 <= (q - y) + g
  BY Zenon, <1>1, <1>2, <1>3, OneMorePlace
<1>5. ASSUME NEW k \in 1 .. l
      PROVE  /\ l - k <= (q - cq[k].at) + g /\ (l + 1) - k <= (q - cq[k].at) + g
  <2>1. k \in DOMAIN cq /\ cq[k].at \in Nat
    BY Zenon, <1>1, PlaceNumbers
  <2>2. PICK a \in Int : a = cq[k].at
    BY <2>1
  <2>3. PICK d \in Int : d = l - k /\ d + 1 = (l + 1) - k
    OBVIOUS
  <2>4. d <= (p - a) + f
    BY Zenon, <1>1, <2>1, <2>2, <2>3 DEF Places
  <2>5. (q - p) + (g - f) >= 1
    BY Zenon, <1>1
  <2>6. d <= (q - a) + g /\ d + 1 <= (q - a) + g
    BY Zenon, <2>4, <2>5, OneMorePlace
  <2> QED BY Zenon, <2>2, <2>3, <2>6
<1>6. CASE cq' = cq
  BY Zenon, <1>1, <1>2, <1>4, <1>5, <1>6, PlaceNumbers DEF Places
<1>7. CASE cq' = Append(cq, c)
  <2>1. cq \in Seq(Cqe)
    BY Zenon, Shapes
  <2>2. /\ Len(cq') = l + 1 /\ DOMAIN cq' = 1 .. l + 1
        /\ \A k \in 1 .. l : cq'[k] = cq[k]
        /\ cq'[l + 1] = c
    BY <1>1, <1>7, <2>1
  <2>3. \A k \in 1 .. l + 1 : k = l + 1 \/ k \in 1 .. l
    OBVIOUS
  <2>4. (l + 1) - (l + 1) <= (q - q) + g
    <3>1. g >= 0
      BY Zenon, <1>1
    <3> QED BY <3>1
  <2>5. completed + (l + 1) = x + 1
    <3>1. \A n \in Nat : n + (l + 1) = (n + l) + 1
      OBVIOUS
    <3> QED BY Zenon, <1>2, <3>1, PlaceNumbers
  <2> QED BY Zenon, <1>1, <1>2, <1>4, <1>5, <2>2, <2>3, <2>4, <2>5 DEF Places
<1> QED BY Zenon, <1>6, <1>7

\* A completion that is read still takes its place; those behind it are
\* counted from where the entry it names ends.
LEMMA PlacesRead ==
    ASSUME TypeOK, RingInv, Places, CompleteEntry
    PROVE  Places'
<1>1. /\ UNCHANGED <<nicPos, head, faults>> /\ cq # <<>> /\ cq[1].format = "nodata"
      /\ cq' = Tail(cq) /\ completed' = completed + 1
  BY Zenon DEF CompleteEntry, CompleteGoesOn, ringVars, nicVars
<1>2. /\ completed \in Nat /\ faults \in Nat /\ nicPos \in Nat /\ head \in Nat
      /\ newHead \in Nat /\ Len(cq) \in Nat /\ DOMAIN cq = 1 .. Len(cq)
      /\ \A k \in DOMAIN cq : cq[k].at \in Nat
  BY Zenon, PlaceNumbers
<1>3. /\ 1 \in DOMAIN cq /\ Len(cq') = Len(cq) - 1 /\ DOMAIN cq' = 1 .. Len(cq) - 1
      /\ \A k \in 1 .. Len(cq) - 1 : cq'[k] = cq[k + 1]
  BY <1>1, Shapes
<1>4. PICK l \in Nat : l = Len(cq)
  BY Zenon, <1>2
<1>5. ASSUME NEW k \in DOMAIN cq'
      PROVE  Len(cq') - k <= (nicPos' - cq'[k].at) + faults'
  <2>1. k + 1 \in DOMAIN cq /\ cq'[k] = cq[k + 1] /\ k \in Int
    BY <1>2, <1>3
  <2>2. l - (k + 1) <= (nicPos - cq[k + 1].at) + faults
    BY Zenon, <1>4, <2>1 DEF Places
  <2>3. (l - 1) - k = l - (k + 1)
    BY <2>1
  <2> QED BY <1>1, <1>3, <1>4, <2>1, <2>2, <2>3
<1>6. completed' + Len(cq') <= (nicPos' - head') + faults'
  BY <1>1, <1>2, <1>3 DEF Places
<1>7. haveAny' => Len(cq') <= (nicPos' - newHead') + faults'
  <2>1. CASE Accounts(cq[1])
    <3>1. newHead' = EntryFor(cq[1]).head
      BY Zenon, <2>1 DEF CompleteEntry
    <3>2. PICK b \in Blks : EntryFor(cq[1]).head = End(b) /\ End(b) <= cq[1].at
      BY Zenon, <1>1, <1>3, <2>1, Accepted
    <3>3. PICK x \in Int : x = End(b)
      BY Zenon, BlockTyped
    <3>4. PICK a \in Nat : a = cq[1].at
      BY Zenon, <1>2, <1>3
    <3>5. newHead' = x /\ x <= a
      BY Zenon, <3>1, <3>2, <3>3, <3>4
    <3>6. l - 1 <= (nicPos - a) + faults
      BY Zenon, <1>3, <1>4, <3>4 DEF Places
    <3>7. l - 1 <= (nicPos - x) + faults
      BY <1>2, <3>5, <3>6
    <3> QED BY <1>1, <1>3, <1>4, <3>5, <3>7
  <2>2. CASE ~Accounts(cq[1])
    <3>1. UNCHANGED <<newHead, haveAny>>
      BY Zenon, <2>2 DEF CompleteEntry
    <3> QED BY <1>1, <1>2, <1>3, <3>1 DEF Places
  <2> QED BY <2>1, <2>2
<1>8. faults' <= MaxFaults
  BY <1>1 DEF Places
<1> QED BY Zenon, <1>5, <1>6, <1>7, <1>8 DEF Places

LEMMA PlacesKept ==
    ASSUME TypeOK, RingInv, Places, [Next]_vars
    PROVE  Places'
<1>0. nicPos \in Nat /\ faults \in Nat /\ MaxFaults \in Nat /\ faults <= MaxFaults
  BY BoundsAssumption, PlaceNumbers DEF Places
<1>1. CASE PostCall \/ PostEntry \/ PostPublish \/ CompleteCall \/ UNCHANGED vars
  <2>1. UNCHANGED <<completed, cq, nicPos, head, faults, newHead, haveAny>>
    BY Zenon, <1>1 DEF PostCall, PostEntry, PostPublish, CompleteCall, vars, ringVars,
                       callVars, nicVars
  <2> QED BY Zenon, <2>1 DEF Places
<1>2. CASE CompleteEntry
  BY Zenon, <1>2, PlacesRead
<1>3. CASE CompleteReturn
  <2>1. /\ UNCHANGED <<cq, nicPos, faults>> /\ completed' = 0 /\ haveAny' = FALSE
        /\ head' = IF haveAny THEN newHead ELSE head
    BY <1>3 DEF CompleteReturn, nicVars
  <2>2. completed' + Len(cq') <= (nicPos' - head') + faults'
    BY <2>1, PlaceNumbers DEF Places
  <2> QED BY Zenon, <2>1, <2>2 DEF Places
<1>4. CASE NicExecute \/ NicFails \/ NicFlushes
  <2>1. NicSteps /\ UNCHANGED <<completed, faults>>
    BY Zenon, <1>4 DEF NicExecute, NicFails, NicFlushes, NicError, NicSteps, ring,
                       ringVars, postVars, callVars
  <2>2. PICK op \in {"req", "reqerr"} :
           cq' \in {cq, Append(cq, Completion(op, "nodata", nicPos, nicPos'))}
    BY Zenon, <2>1 DEF NicSteps
  <2>3. nicPos' = nicPos + NicRead.bbs /\ NicRead.bbs \in 1 .. BBs
    BY Zenon, <2>1, AtNic DEF NicSteps
  <2>4. nicPos' \in Nat /\ nicPos <= nicPos' /\ (nicPos' - nicPos) + (faults' - faults) >= 1
    BY <1>0, <2>1, <2>3, Numbers
  <2>5. /\ Completion(op, "nodata", nicPos, nicPos') \in Cqe
        /\ Completion(op, "nodata", nicPos, nicPos').at = nicPos'
    BY <1>0, <2>4 DEF Completion, Cqe
  <2>6. UNCHANGED <<completed, head, newHead, haveAny>> /\ faults' = faults
    BY Zenon, <2>1 DEF NicSteps, ring
  <2> QED BY Zenon, <1>0, <2>2, <2>4, <2>5, <2>6, PlacesAppended
<1>5. CASE NicMisbehaves
  <2>1. PICK c \in FaultyCompletions : cq' = Append(cq, c)
    BY Zenon, <1>5 DEF NicMisbehaves
  <2>2. c \in Cqe /\ c.at = nicPos
    BY <1>0, <2>1, SizesAssumption DEF FaultyCompletions, Completion, Cqe
  <2>3. /\ UNCHANGED <<completed, head, newHead, haveAny, nicPos>>
        /\ faults' = faults + 1 /\ faults < MaxFaults
    BY Zenon, <1>5 DEF NicMisbehaves, ringVars, callVars
  <2>4. /\ nicPos' \in Nat /\ nicPos <= nicPos' /\ faults' \in Nat /\ faults' <= MaxFaults
        /\ (nicPos' - nicPos) + (faults' - faults) >= 1
    BY <1>0, <2>3
  <2>5. cq' \in {cq, Append(cq, c)} /\ c.at = nicPos'
    BY Zenon, <2>1, <2>2, <2>3
  <2> QED BY Zenon, <2>2, <2>3, <2>4, <2>5, PlacesAppended
<1> QED BY Zenon, <1>1, <1>2, <1>3, <1>4, <1>5 DEF Next


-----------------------------------------------------------------------------
(* The report of the youngest entry. *)

\* An empty queue has room for a packet, whatever its length.
RoomWhenEmpty == Blocks(InlineLen + 3) <= BBs /\ MPWMaxLen < BBs * OctsPerBB

\* The youngest entry asks for a completion.
YoungestAsks == \E b \in Blks : End(b) = pi /\ sq[b].signaled

\* Between calls the youngest entry of a queue of multi-packet entries asks for
\* a completion.  That of a queue of ordinary entries may not, after a batch cut
\* short by a descriptor that was refused: but then there is room.
Asking ==
    /\ lastIdx # NoIdx => pc = "post" /\ sq[lastIdx % BBs].pos + sq[lastIdx % BBs].bbs = pi
    /\ mode # "single" /\ lastIdx = NoIdx /\ pi > 0 => YoungestAsks
    /\ mode = "single" => \/ YoungestAsks
                          \/ pc = "post" /\ todo # <<>>
                          \/ pc # "post" /\ MaxBBs <= FreeBlocks
    /\ pi = 0 => slotTail = 0

LEMMA InitAsks ==
    ASSUME RoomWhenEmpty, Init
    PROVE  Asking
<1>1. TypeOK /\ lastIdx = NoIdx /\ pi = 0 /\ head = 0 /\ slotTail = 0 /\ pc = "idle"
  BY InitTyped DEF Init
<1>2. mode = "single" => MaxBBs <= FreeBlocks
  <2>1. FreeBlocks = BBs
    BY <1>1, Numbers DEF FreeBlocks
  <2>2. mode = "single" => MaxBBs = Blocks(InlineLen + 3)
    <3>1. 1 + (1 + InlineLen) + 1 = InlineLen + 3
      BY LengthsAssumption
    <3> QED BY Zenon, <3>1 DEF MaxBBs, Inline
  <2> QED BY Zenon, <2>1, <2>2 DEF RoomWhenEmpty
<1>3. ~(pi > 0) /\ pc # "post"
  BY <1>1
<1> QED BY Zenon, <1>1, <1>2, <1>3 DEF Asking

LEMMA PostCallAsks ==
    ASSUME TypeOK, Asking, PostCall
    PROVE  Asking'
<1>1. /\ UNCHANGED <<mode, pi, slotTail, sq, lastIdx>> /\ pc = "idle" /\ pc' = "post"
  BY Zenon DEF PostCall, ringVars
<1>2. todo' # <<>>
  <2>1. PICK descs \in Batches : todo' = SubSeq(descs, 1, Least(Len(descs), FreeSlots))
    BY Zenon DEF PostCall
  <2>2. PICK n \in 1 .. MaxBatch : descs \in [1 .. n -> [frame : out, len : Lens]]
    BY Zenon, <2>1 DEF Batches
  <2>3. descs \in Seq([frame : out, len : Lens]) /\ Len(descs) = n /\ n \in Nat
    <3>1. n \in Nat
      BY BoundsAssumption
    <3> QED BY Zenon, <2>2, <3>1, FunctionIsSeq
  <2>4. PICK m \in 1 .. n : m = Least(Len(descs), FreeSlots)
    <3>1. FreeSlots \in Int /\ FreeSlots > 0
      BY Zenon, RoomOffered DEF PostCall
    <3>2. Least(n, FreeSlots) \in 1 .. n
      BY <3>1, <2>3 DEF Least
    <3> QED BY Zenon, <2>3, <3>2
  <2>5. m \in 0 .. Len(descs)
    BY <2>3
  <2>6. Len(todo') = m
    BY Zenon, <2>1, <2>3, <2>4, <2>5, Prefix
  <2>7. Len(<<>>) = 0 /\ m # 0
    OBVIOUS
  <2> QED BY Zenon, <2>6, <2>7
<1>3. lastIdx = NoIdx
  BY Zenon, <1>1 DEF Asking
<1>4. YoungestAsks => YoungestAsks'
  BY Zenon, <1>1 DEF YoungestAsks, End
<1> QED BY Zenon, <1>1, <1>2, <1>3, <1>4 DEF Asking

\* The entry written is the youngest; the last one of a batch of ordinary
\* entries asks for a completion.
LEMMA PostEntryAsks ==
    ASSUME TypeOK, RingInv, EntrySound, PostEntry
    PROVE  Asking'
<1> DEFINE i == pi % BBs
<1>1. PICK k \in Nat, n \in Nat : Posts(k, n)
  BY Zenon, PostEntryPosts
<1>2. i \in Blks /\ pi \in Nat
  BY InRing, Numbers
<1>3. pi' = pi + n /\ pc = "post" /\ pc' = pc /\ mode' = mode /\ lastIdx' = pi
  BY Zenon, <1>1 DEF Posts
<1>4. PICK g \in {mode = "single" /\ Signals} : sq' = PutWqe(NextEntry, g) /\ pi' = pi + NextEntry.bbs
  BY Zenon DEF PostEntry
<1>5. sq'[i].pos = pi /\ sq'[i].bbs = NextEntry.bbs /\ sq'[i].signaled = g
  BY Zenon, <1>2, <1>4 DEF PutWqe, Blks
<1>6. sq'[i].pos + sq'[i].bbs = pi'
  BY Zenon, <1>4, <1>5
<1>7. lastIdx' # NoIdx /\ pi' # 0
  <2>1. n >= 1
    BY Zenon, <1>1 DEF Posts
  <2> QED BY <1>2, <1>3, <2>1 DEF NoIdx
<1>8. ASSUME mode = "single" PROVE YoungestAsks' \/ todo' # <<>>
  <2>1. NextEntry.k > 0 /\ NextEntry = SingleEntry
    BY Zenon, <1>8 DEF PostEntry, NextEntry
  <2>2. NextEntry.stop = FALSE /\ NextEntry.k = 1
    <3>1. NoEntry.k = 0 /\ ~(0 > 0)
      BY DEF NoEntry
    <3> QED BY Zenon, <2>1, <3>1 DEF SingleEntry
  <2>3. todo' = SubSeq(todo, 1 + 1, Len(todo))
    BY Zenon, <2>2 DEF PostEntry
  <2>4. CASE Len(todo) = 1
    <3>1. g = TRUE
      BY Zenon, <1>8, <2>4 DEF Signals
    <3> QED BY Zenon, <1>2, <1>5, <1>6, <3>1 DEF YoungestAsks, End, Blks
  <2>5. CASE Len(todo) # 1
    <3>1. 1 <= Len(todo) /\ Len(todo) \in Nat
      <4>1. k >= 1 /\ k <= Len(todo)
        BY Zenon, <1>1 DEF Posts
      <4> QED BY <4>1, TodoTyped
    <3>2. 1 \in 0 .. Len(todo) /\ Len(todo) - 1 # 0
      BY <2>5, <3>1
    <3>3. Len(todo') = Len(todo) - 1
      BY Zenon, <2>3, <3>2, Shapes, Suffix
    <3>4. Len(<<>>) = 0
      OBVIOUS
    <3> QED BY Zenon, <3>2, <3>3, <3>4
  <2> QED BY Zenon, <2>4, <2>5
<1> QED BY Zenon, <1>3, <1>6, <1>7, <1>8 DEF Asking

\* postMulti makes the last entry it wrote ask; a batch of ordinary entries
\* that stopped early leaves the room its other descriptors had.
LEMMA PublishAsks ==
    ASSUME TypeOK, RingInv, Asking, PostPublish
    PROVE  Asking'
<1>1. /\ UNCHANGED <<mode, pi, head, slotTail>> /\ pc = "post" /\ pc' = "idle" /\ lastIdx' = NoIdx
      /\ sq' = IF mode = "single" \/ lastIdx = NoIdx THEN sq ELSE SetSignaled
  BY Zenon DEF PostPublish, ringVars
<1>2. sq' = sq /\ YoungestAsks => YoungestAsks'
  BY Zenon, <1>1 DEF YoungestAsks, End
<1>3. ASSUME mode # "single", lastIdx # NoIdx PROVE YoungestAsks'
  <2> DEFINE i == lastIdx % BBs
  <2>1. i \in Blks
    <3>1. lastIdx \in Int
      BY DEF TypeOK, NoIdx
    <3> QED BY Zenon, <3>1, InRing
  <2>2. sq[i].pos + sq[i].bbs = pi'
    BY Zenon, <1>1, <1>3 DEF Asking
  <2>3. i = lastIdx % BBs
    OBVIOUS
  <2> HIDE DEF i
  <2>4. sq'[i].pos = sq[i].pos /\ sq'[i].bbs = sq[i].bbs /\ sq'[i].signaled
    <3>1. sq' = SetSignaled
      BY Zenon, <1>1, <1>3
    <3> QED BY <2>1, <2>3, <3>1 DEF SetSignaled, Blks
  <2> QED BY Zenon, <2>1, <2>2, <2>4 DEF YoungestAsks, End, Blks
<1>4. ASSUME mode = "single", todo # <<>> PROVE MaxBBs <= FreeBlocks
  <2>1. Len(todo) * MaxBBs <= FreeBlocks
    BY Zenon, <1>1, <1>4 DEF RingInv, Batch
  <2>2. Len(todo) \in Nat /\ Len(todo) # 0
    BY <1>4, Shapes
  <2>3. PICK x \in Int, m \in Int, f \in Int :
           x = Len(todo) /\ m = MaxBBs /\ f = FreeBlocks /\ x >= 1 /\ m >= 0
    BY <2>2, Sizes
  <2>4. x * m <= f
    BY Zenon, <2>1, <2>3
  <2>5. \A a, b, c \in Int : a >= 1 /\ b >= 0 /\ a * b <= c => b <= c
    BY SMT
  <2> QED BY Zenon, <2>3, <2>4, <2>5
<1>5. MaxBBs' = MaxBBs /\ FreeBlocks' = FreeBlocks
  BY <1>1 DEF MaxBBs, Inline, FreeBlocks
<1>6. pc' # "post"
  BY <1>1
<1> QED BY Zenon, <1>1, <1>2, <1>3, <1>4, <1>5, <1>6 DEF Asking

LEMMA OtherAsks ==
    ASSUME TypeOK, RingInv, Asking,
           \/ CompleteCall \/ CompleteEntry \/ CompleteReturn \/ NicExecute \/ NicFails
           \/ NicFlushes \/ NicMisbehaves \/ UNCHANGED vars
    PROVE  Asking'
<1>1. /\ UNCHANGED <<mode, pi, slotTail, sq, lastIdx, todo>>
      /\ \/ UNCHANGED pc
         \/ pc \in {"idle", "complete"} /\ pc' \in {"idle", "complete"}
      /\ \/ UNCHANGED head
         \/ CompleteReturn /\ haveAny /\ head' = newHead
  BY Zenon DEF CompleteCall, CompleteEntry, CompleteReturn, NicExecute, NicFails, NicFlushes,
               NicError, NicMisbehaves, vars, ringVars, postVars
<1>2. FreeBlocks <= FreeBlocks' /\ MaxBBs' = MaxBBs
  <2>1. head \in Nat /\ pi \in Nat /\ BBs \in Nat /\ newHead \in Nat
    BY Numbers
  <2>2. CASE UNCHANGED head
    BY <1>1, <2>1, <2>2 DEF FreeBlocks, MaxBBs, Inline
  <2>3. CASE CompleteReturn /\ haveAny /\ head' = newHead
    <3>1. PICK r \in Blks : Live(r) /\ newHead = End(r)
      BY Zenon, <2>3 DEF RingInv, Taking
    <3>2. sq[r].pos \in Int /\ sq[r].bbs \in Nat
      BY Zenon, BlockTyped
    <3>3. head <= newHead
      BY <2>1, <3>1, <3>2 DEF Live, End
    <3> QED BY <1>1, <2>1, <2>3, <3>3 DEF FreeBlocks, MaxBBs, Inline
  <2> QED BY Zenon, <1>1, <2>2, <2>3
<1>3. MaxBBs <= FreeBlocks => MaxBBs' <= FreeBlocks'
  <2>1. FreeBlocks \in Int /\ MaxBBs \in Int
    BY Sizes
  <2>2. FreeBlocks' \in Int
    <3>1. head' \in Int /\ pi' \in Int /\ BBs \in Int
      BY <1>1, Numbers
    <3> QED BY <3>1 DEF FreeBlocks
  <2> QED BY Zenon, <1>2, <2>1, <2>2, Transitive
<1>4. YoungestAsks => YoungestAsks'
  BY Zenon, <1>1 DEF YoungestAsks, End
<1>5. pc \in {"idle", "complete"} => pc # "post"
  OBVIOUS
<1>6. pc' \in {"idle", "complete"} => pc' # "post"
  OBVIOUS
<1>7. (pc = "post") <=> (pc' = "post")
  BY Zenon, <1>1, <1>5, <1>6
<1> QED BY Zenon, <1>1, <1>3, <1>4, <1>7 DEF Asking

\* A queue that says it is full is not empty, and has room for no packet.
LEMMA FullIs ==
    ASSUME RoomWhenEmpty, TypeOK, RingInv, Asking, FreeSlots = 0, ~failed
    PROVE  /\ mode = "single" => ~(MaxBBs <= FreeBlocks)
           /\ mode # "single" => pi > 0
<1>1. ASSUME mode = "single" PROVE ~(MaxBBs <= FreeBlocks)
  <2>1. PICK m \in Nat \ {0}, f \in Int : m = MaxBBs /\ f = FreeBlocks
    BY Zenon, Sizes
  <2>2. f \div m = 0
    BY Zenon, <1>1, <2>1 DEF FreeSlots
  <2>3. f = m * (f \div m) + (f % m) /\ f % m \in 0 .. m - 1
    BY DivMod
  <2>4. f = f % m
    BY <2>1, <2>2, <2>3
  <2>5. f < m
    BY <2>3, <2>4
  <2> QED BY <2>1, <2>5
<1>2. ASSUME mode # "single", pi = 0 PROVE FALSE
  <2>1. FreeBlocks = BBs /\ InFlight = 0
    <3>1. head <= nicPos /\ nicPos <= Published /\ Published <= pi /\ Published \in Int
      BY Zenon, PublishedFacts DEF RingInv, Order
    <3>2. slotTail = 0 /\ slotHead <= slotTail
      BY Zenon, <1>2 DEF Asking, RingInv, Order
    <3>3. head = 0 /\ slotHead = 0
      BY <1>2, <3>1, <3>2, Numbers
    <3> QED BY <1>2, <3>2, <3>3, Numbers DEF FreeBlocks, InFlight
  <2>2. Least(RoomByBlocks(BBs), Slots - 0) = 0
    BY Zenon, <1>2, <2>1 DEF FreeSlots
  <2>3. Slots \in Nat \ {0} /\ BBs \in Nat \ {0} /\ PerEntry \in Nat \ {0, 1}
    BY Zenon, Numbers, Sizes
  <2>4. RoomByBlocks(BBs) = 0
    BY <2>2, <2>3 DEF Least
  <2>5. CASE mode = "pointer"
    <3> DEFINE e == EntryBBs
    <3>1. e \in Nat \ {0}
      BY Sizes, LengthsAssumption DEF EntryBBs, PerEntry, OctsPerBB
    <3>2. (BBs \div e) * PerEntry + (IF (BBs % e) * 4 - 2 > 0 THEN (BBs % e) * 4 - 2 ELSE 0) = 0
      BY Zenon, <2>4, <2>5 DEF RoomByBlocks, OctsPerBB
    <3> HIDE DEF e
    <3>3. BBs \div e \in Int /\ BBs % e \in 0 .. e - 1 /\ BBs = e * (BBs \div e) + (BBs % e)
      BY <2>3, <3>1, DivMod
    <3>4. PICK d \in Int, r \in Nat : d = BBs \div e /\ r = BBs % e /\ BBs = e * d + r
      BY <3>1, <3>3
    <3>5. d * PerEntry + (IF r * 4 - 2 > 0 THEN r * 4 - 2 ELSE 0) = 0
      BY Zenon, <3>2, <3>4
    <3>6. BBs \div e >= 0
      BY <2>3, <3>1, SMT
    <3>7. d >= 0
      BY Zenon, <3>4, <3>6
    <3>8. PICK p \in Nat \ {0} : p = PerEntry
      BY <2>3
    <3>9. d = 0 /\ r = 0
      <4>1. d * p >= 0
        BY <3>7, SMT
      <4>2. d * p = 0 /\ ~(r * 4 - 2 > 0)
        BY <3>5, <3>8, <4>1
      <4>3. d = 0
        BY <3>7, <4>2, SMT
      <4> QED BY <4>2, <4>3
    <3>10. e * 0 + 0 = 0
      BY <3>1
    <3> QED BY <2>3, <3>4, <3>9, <3>10
  <2>6. CASE mode = "copy"
    <3> DEFINE a == BBs * 4  c == MPWMaxLen + 1
    <3>1. a \div c = 0
      BY Zenon, <2>4, <2>6 DEF RoomByBlocks, OctsPerBB, MpwPacketOctowords
    <3>2. a \in Int /\ c \in Nat \ {0} /\ c <= a
      BY <2>3, LengthsAssumption DEF RoomWhenEmpty, OctsPerBB
    <3> HIDE DEF a, c
    <3>3. a = c * (a \div c) + (a % c) /\ a % c \in 0 .. c - 1
      BY <3>2, DivMod
    <3>4. PICK r \in 0 .. c - 1 : a = c * 0 + r
      BY Zenon, <3>1, <3>3
    <3> QED BY <3>2, <3>4
  <2> QED BY <1>2, <2>5, <2>6, Sizes
<1>3. pi \in Nat
  BY Numbers
<1> QED BY <1>1, <1>2, <1>3

=============================================================================
