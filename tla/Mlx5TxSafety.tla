---------------------------- MODULE Mlx5TxSafety ----------------------------
(***************************************************************************)
(* The entry Post chooses is sound, so every step preserves the invariant  *)
(* of the send queue; each step is a step of the contract of TxContract or *)
(* a stutter; and the theorems that follow.                                *)
(***************************************************************************)
EXTENDS Mlx5TxImpl, Mlx5TxSteps, FiniteSetTheorems, WellFoundedInduction

-----------------------------------------------------------------------------
(* What the entry chosen by Post may be. *)

LEMMA LeastElement ==
    ASSUME NEW S \in SUBSET Nat, S # {}
    PROVE  \E m \in S : \A k \in S : m <= k
<1> DEFINE R == OpToRel(<, Nat)
<1>1. \A x, y \in Nat : x < y => <<x, y>> \in R
  BY Zenon DEF OpToRel
<1>2. IsWellFoundedOn(R, Nat)
  BY Zenon, NatLessThanWellFounded
<1> HIDE DEF R
<1>3. PICK m \in S : \A k \in S : ~(<<k, m>> \in R)
  BY Zenon, <1>2, WFMin
<1>4. \A k \in S : ~(k < m)
  BY Zenon, <1>1, <1>3
<1>5. \A k \in S : m <= k
  BY <1>4
<1> QED BY <1>5

LEMMA GreatestElement ==
    ASSUME NEW n \in Nat, NEW S \in SUBSET (0 .. n), S # {}
    PROVE  \E m \in S : \A k \in S : k <= m
<1> DEFINE T == {n - i : i \in S}
<1>1. T \in SUBSET Nat /\ T # {}
  <2>1. PICK s \in S : TRUE
    BY Zenon
  <2>2. n - s \in T
    BY <2>1
  <2>3. \A i \in S : n - i \in Nat
    OBVIOUS
  <2> QED BY <2>2, <2>3
<1>2. PICK t \in T : \A k \in T : t <= k
  <2> HIDE DEF T
  <2> QED BY <1>1, LeastElement
<1>3. PICK m \in S : t = n - m
  BY <1>2
<1>4. \A k \in S : k <= m
  <2> TAKE k \in S
  <2>1. t <= n - k
    BY <1>2
  <2> QED BY <2>1, <1>3
<1> QED BY <1>4

LEMMA CopySize ==
    ASSUME TypeOK, NEW k \in 0 .. Len(todo)
    PROVE  /\ CopiedDS(k) \in Nat /\ CopiedDS(k) >= 2
           /\ k = 0 => CopiedDS(k) = 2
<1> DEFINE P(j) == {j} \X (1 .. MpwPacketOctowords(todo[j].len))
           All == {P(j) : j \in 1 .. k}
<1>1. \A j \in 1 .. k : IsFiniteSet(P(j))
  <2> TAKE j \in 1 .. k
  <2> DEFINE m == MpwPacketOctowords(todo[j].len)
  <2>1. m \in Nat
    BY TodoTyped DEF MpwPacketOctowords
  <2> HIDE DEF m
  <2>2. IsFiniteSet(1 .. m)
    BY <2>1, FS_Interval
  <2>3. IsFiniteSet({j})
    BY Zenon, FS_Singleton
  <2> QED BY Zenon, <2>2, <2>3, FS_Product DEF m
<1>2. IsFiniteSet(1 .. k)
  BY FS_Interval
<1>3. IsFiniteSet(All)
  <2> DEFINE f == [j \in 1 .. k |-> P(j)]
  <2>1. f \in Surjection(1 .. k, All)
    BY Zenon DEF Surjection
  <2> QED BY <1>2, <2>1, FS_Surjection
<1>4. IsFiniteSet(UNION All)
  BY Zenon, <1>1, <1>3, FS_UNION
<1>5. Cardinality(UNION All) \in Nat
  BY <1>4, FS_CardinalityType
<1>6. ASSUME k = 0 PROVE Cardinality(UNION All) = 0
  <2>1. UNION All = {}
    BY <1>6
  <2> QED BY <2>1, FS_EmptySet
<1> QED BY <1>5, <1>6 DEF CopiedDS

LEMMA FitsRange ==
    ASSUME TypeOK, NEW n \in 0 .. Len(todo)
    PROVE  Fits(n) \in 0 .. n
<1>1. CASE mode = "pointer"
  BY <1>1, Sizes, SizesAssumption DEF Fits, Least, OctsPerBB
<1>2. CASE mode # "pointer"
  <2> DEFINE fit == {i \in 0 .. n : /\ CopiedDS(i) <= MaxDS
                                    /\ \A j \in 1 .. i : todo[j].len <= MPWMaxLen}
  <2>1. 0 \in fit
    BY CopySize, TodoTyped, LengthsAssumption
  <2>2. fit \in SUBSET (0 .. n) /\ n \in Nat
    BY TodoTyped
  <2>3. Fits(n) = CHOOSE i \in fit : \A j \in fit : j <= i
    BY Zenon, <1>2 DEF Fits
  <2> HIDE DEF fit
  <2>4. \E m \in fit : \A j \in fit : j <= m
    BY Zenon, <2>1, <2>2, GreatestElement
  <2> QED BY Zenon, <2>2, <2>3, <2>4
<1> QED BY <1>1, <1>2

\* The descriptors gathered for a multi-packet entry: there is a first refused
\* one among the first n, or none is.
LEMMA GoodPrefix ==
    ASSUME TypeOK, NEW n \in 0 .. Len(todo)
    PROVE  \E g \in 0 .. n : /\ \A i \in 1 .. g : DescOK(todo[i])
                             /\ g < n => ~DescOK(todo[g+1])
<1> DEFINE Bad == {i \in 0 .. n - 1 : ~DescOK(todo[i+1])}
<1>1. n \in Nat
  BY TodoTyped
<1>2. CASE Bad = {}
  <2>1. \A i \in 1 .. n : DescOK(todo[i])
    <3> TAKE i \in 1 .. n
    <3>1. i - 1 \in 0 .. n - 1 /\ (i - 1) + 1 = i
      BY <1>1
    <3> QED BY Zenon, <1>2, <3>1
  <2> QED BY <1>1, <2>1
<1>3. CASE Bad # {}
  <2>1. Bad \in SUBSET Nat
    BY <1>1
  <2>2. PICK g \in Bad : \A i \in Bad : g <= i
    <3> HIDE DEF Bad
    <3> QED BY <1>3, <2>1, LeastElement
  <2>3. \A i \in 1 .. g : DescOK(todo[i])
    <3> TAKE i \in 1 .. g
    <3>1. i - 1 \in 0 .. n - 1 /\ (i - 1) + 1 = i /\ ~(g <= i - 1)
      BY <1>1, <2>2
    <3> QED BY <2>2, <3>1
  <2> QED BY <1>1, <2>2, <2>3
<1> QED BY <1>2, <1>3

LEMMA MultiEntryFacts ==
    ASSUME TypeOK, mode # "single"
    PROVE  /\ MultiEntry.k \in Nat /\ MultiEntry.stop \in BOOLEAN
           /\ MultiEntry.k > 0 =>
                 /\ MultiEntry.k <= Len(todo) /\ MultiEntry.bbs \in Nat \ {0}
                 /\ MultiEntry.bbs <= FreeBlocks /\ MultiEntry.k <= Slots - InFlight
<1> DEFINE limit == Least(Least(PerEntry, Len(todo)), Slots - InFlight)
           good == CHOOSE n \in 0 .. limit :
                      /\ \A i \in 1 .. n : DescOK(todo[i])
                      /\ n < limit => ~DescOK(todo[n+1])
           fits == Fits(good)
           entry == IF fits >= 2 THEN [k |-> fits, bbs |-> MpwBlocks(fits)]
                    ELSE [k |-> 1, bbs |-> IF MaxBBs > FreeBlocks THEN 0
                                           ELSE SendBlocks(todo[1].len)]
<1>1. MultiEntry = IF limit <= 0 \/ FreeBlocks = 0 \/ good = 0 THEN NoEntry
                   ELSE IF entry.bbs = 0 \/ entry.bbs > FreeBlocks THEN NoEntry
                   ELSE [k |-> entry.k, bbs |-> entry.bbs, stop |-> good < limit]
  BY Zenon DEF MultiEntry
<1>2. limit \in Int /\ limit <= Len(todo) /\ limit <= Slots - InFlight
  BY Sizes, TodoTyped DEF Least
<1>3. CASE limit <= 0 \/ FreeBlocks = 0 \/ good = 0
  <2>1. MultiEntry = NoEntry
    BY Zenon, <1>1, <1>3
  <2> QED BY <2>1 DEF NoEntry
<1>4. CASE ~(limit <= 0 \/ FreeBlocks = 0 \/ good = 0)
  <2>1. limit \in 0 .. Len(todo)
    BY <1>2, <1>4, TodoTyped
  <2>2. good \in 1 .. limit
    <3> HIDE DEF limit
    <3>1. \E n \in 0 .. limit : /\ \A i \in 1 .. n : DescOK(todo[i])
                                /\ n < limit => ~DescOK(todo[n+1])
      BY <2>1, GoodPrefix
    <3>2. good \in 0 .. limit
      BY <3>1
    <3> HIDE DEF good
    <3> QED BY <3>2, <2>1, <1>4
  <2> HIDE DEF limit, good
  <2>3. fits \in 0 .. good
    BY <2>1, <2>2, FitsRange, TodoTyped
  <2>4. entry.k \in 1 .. good /\ entry.bbs \in Nat
    <3>1. CASE fits >= 2
      <4> HIDE DEF fits
      <4>1. fits \in 0 .. Len(todo) /\ fits \in 1 .. good
        BY <2>1, <2>2, <2>3, <3>1, TodoTyped
      <4>2. CopiedDS(fits) \in Nat
        BY <4>1, CopySize
      <4>3. MpwBlocks(fits) \in Nat
        BY <4>1, <4>2 DEF MpwBlocks, Blocks, OctsPerBB
      <4> QED BY <3>1, <4>1, <4>3
    <3>2. CASE ~(fits >= 2)
      <4>1. SendBlocks(todo[1].len) \in Nat
        <5>1. todo[1].len \in Nat
          BY <2>1, <2>2, TodoTyped
        <5> QED BY <5>1, SendSize, Sizes
      <4> QED BY <3>2, <4>1, <2>2, <2>1
    <3> QED BY Zenon, <3>1, <3>2
  <2> HIDE DEF entry
  <2>5. CASE entry.bbs = 0 \/ entry.bbs > FreeBlocks
    <3>1. MultiEntry = NoEntry
      BY <1>1, <1>4, <2>5
    <3> QED BY <3>1 DEF NoEntry
  <2>6. CASE ~(entry.bbs = 0 \/ entry.bbs > FreeBlocks)
    <3>1. MultiEntry = [k |-> entry.k, bbs |-> entry.bbs, stop |-> good < limit]
      BY <1>1, <1>4, <2>6
    <3>2. PICK x \in Nat, y \in Nat : x = entry.k /\ y = entry.bbs /\ x \in 1 .. good
      BY <2>2, <2>4
    <3>3. x \in Nat /\ x <= limit /\ limit \in Int /\ limit <= Len(todo) /\ limit <= Slots - InFlight
      BY <1>2, <2>2, <3>2
    <3>4. x <= Len(todo) /\ x <= Slots - InFlight
      <4>1. Len(todo) \in Int /\ Slots - InFlight \in Int
        BY Sizes, TodoTyped
      <4> QED BY <3>3, <4>1
    <3>5. y # 0 /\ y <= FreeBlocks
      BY <2>6, <3>2, Sizes
    <3>6. /\ MultiEntry.k = x /\ MultiEntry.bbs = y
          /\ MultiEntry.stop \in BOOLEAN
      BY <3>1, <3>2
    <3> QED BY <3>4, <3>5, <3>6
  <2> QED BY <2>5, <2>6
<1> QED BY <1>3, <1>4

LEMMA EntryFacts ==
    ASSUME TypeOK
    PROVE  EntrySound
<1>1. CASE mode # "single"
  BY Zenon, <1>1, MultiEntryFacts DEF NextEntry, EntrySound
<1>2. CASE mode = "single"
  <2>1. CASE todo = <<>> \/ ~DescOK(todo[1])
    BY <1>2, <2>1 DEF NextEntry, SingleEntry, NoEntry, EntrySound
  <2>2. CASE ~(todo = <<>> \/ ~DescOK(todo[1]))
    <3>1. NextEntry = [k |-> 1, bbs |-> SendBlocks(todo[1].len), stop |-> FALSE]
      BY <1>2, <2>2 DEF NextEntry, SingleEntry
    <3>2. 1 <= Len(todo)
      BY <2>2, TodoTyped DEF TypeOK
    <3>3. SendBlocks(todo[1].len) \in 1 .. MaxBBs
      <4>1. todo[1].len \in Nat
        BY <3>2, TodoTyped
      <4> QED BY <4>1, SendSize
    <3> QED BY <1>2, <3>1, <3>2, <3>3, Sizes DEF EntrySound
  <2> QED BY <2>1, <2>2
<1> QED BY <1>1, <1>2

-----------------------------------------------------------------------------
(* The send ring implements the contract of the TxQueue interface.         *)

\* The frames the NIC will read are in flight.
LEMMA ReadsAreInFlight ==
    ASSUME TypeOK, RingInv, NEW b \in Blks, sq[b].pos >= nicPos
    PROVE  sq[b].frames \subseteq InFlightFrames
<1>1. Live(b)
  BY WqeTyped, Numbers DEF RingInv, Order, Live
<1>2. /\ meta[b].slotTail <= slotTail /\ meta[b].slotTail \in Nat
      /\ sq[b].frames \subseteq Window(slotHead, meta[b].slotTail)
  BY Zenon, <1>1, WqeTyped DEF RingInv, Entries
<1>3. \A i \in slotHead .. meta[b].slotTail - 1 : i \in slotHead .. slotTail - 1
  BY <1>2, Numbers
<1> QED BY Zenon, <1>2, <1>3 DEF Window, InFlightFrames

\* A ring that has failed is not posting: only Complete finds a failure, and
\* Post begins by asking for room, of which a failed ring has none.
PostsAlive == pc = "post" => ~failed

LEMMA AliveInductive == Spec => []PostsAlive
<1>1. Init => PostsAlive
  BY Zenon DEF Init, PostsAlive
<1>2. PostsAlive /\ [Next]_vars => PostsAlive'
  <2> SUFFICES ASSUME PostsAlive, [Next]_vars PROVE PostsAlive'
    OBVIOUS
  <2>1. CASE PostCall
    <3>1. ~failed
      BY <2>1 DEF PostCall, FreeSlots
    <3> QED BY Zenon, <2>1, <3>1 DEF PostCall, PostsAlive
  <2>2. CASE PostEntry \/ PostPublish
    BY Zenon, <2>2 DEF PostEntry, PostPublish, PostsAlive
  <2>3. CASE CompleteCall \/ CompleteEntry \/ CompleteReturn
    BY Zenon, <2>3 DEF CompleteCall, CompleteEntry, CompleteReturn, PostsAlive
  <2>4. CASE NicExecute \/ NicFails \/ NicFlushes \/ NicMisbehaves
    BY Zenon, <2>4 DEF NicExecute, NicFails, NicFlushes, NicError, NicMisbehaves, PostsAlive
  <2>5. CASE UNCHANGED vars
    BY Zenon, <2>5 DEF vars, PostsAlive
  <2> QED BY Zenon, <2>1, <2>2, <2>3, <2>4, <2>5 DEF Next
<1> QED BY <1>1, <1>2, PTL DEF Spec

\* What the contract's variables stand for, in terms of the caller's frames and
\* of those the NIC will read.
Split == InFlightFrames = Frames \ out /\ out \subseteq Frames
            /\ NicWillRead \subseteq Frames \ out

LEMMA SplitHolds ==
    ASSUME TypeOK, RingInv
    PROVE  Split
<1>1. \A b \in 0 .. BBs - 1 : sq[b].pos >= nicPos => sq[b].frames \subseteq InFlightFrames
  BY Zenon, ReadsAreInFlight DEF Blks
<1>2. NicWillRead \subseteq InFlightFrames
  BY Zenon, <1>1 DEF NicWillRead
<1>3. out \cup InFlightFrames = Frames /\ out \cap InFlightFrames = {}
  BY Zenon DEF RingInv, FramesConserved
<1> QED BY Zenon, <1>2, <1>3 DEF Split

\* The frames of a new entry join those the NIC will read.
LEMMA PostMaps ==
    ASSUME TypeOK, RingInv, EntrySound, PostEntry
    PROVE  \E T \in SUBSET out : out' = out \ T /\ NicWillRead' = NicWillRead \cup T
<1>1. PICK k \in Nat, n \in Nat : Posts(k, n)
  BY Zenon, PostEntryPosts
<1> DEFINE T == {todo[i].frame : i \in 1 .. k}  b0 == pi % BBs
<1>2. out' = out \ T /\ nicPos' = nicPos /\ head' = head
  BY Zenon, <1>1 DEF Posts
<1>3. /\ \A b \in Blks : Live(b) => b # b0 /\ sq'[b] = sq[b]
      /\ \A b \in Blks : Live(b)' <=> b = b0 \/ Live(b)
      /\ sq'[b0].pos = pi /\ sq'[b0].frames = T
  BY Zenon, <1>1, PostsFrame
<1>4. T \subseteq out
  <2>1. k <= Len(todo) /\ pc = "post"
    BY Zenon, <1>1 DEF Posts
  <2>2. \A i \in 1 .. k : i \in DOMAIN todo
    BY <2>1, Shapes
  <2> QED BY Zenon, <2>1, <2>2 DEF RingInv, Batch
<1>5. b0 \in Blks /\ nicPos <= pi
  <2>1. b0 \in Blks
    BY Numbers, InRing
  <2>2. nicPos <= Published /\ Published <= pi /\ Published \in Int
    BY PublishedFacts DEF RingInv, Order
  <2> QED BY <2>1, <2>2, Numbers
<1> HIDE DEF T, b0
<1>6. \A b \in Blks : sq[b].pos >= nicPos => Live(b)
  BY WqeTyped, Numbers DEF RingInv, Order, Live
<1>7. \A b \in Blks : sq'[b].pos >= nicPos => Live(b)'
  <2> SUFFICES ASSUME NEW b \in Blks, sq'[b].pos >= nicPos PROVE Live(b)'
    BY Zenon
  <2>1. sq' \in [Blks -> Wqe]
    BY Zenon, <1>1, PostsRingTyped
  <2>2. sq'[b].pos \in Int
    BY <2>1 DEF Wqe
  <2>3. head <= nicPos
    BY Zenon DEF RingInv, Order
  <2> QED BY <1>2, <2>2, <2>3, Numbers DEF Live
<1>8. NicWillRead = UNION {sq[b].frames : b \in {a \in Blks : sq[a].pos >= nicPos}}
  BY Zenon DEF NicWillRead, Blks
<1>9. NicWillRead' = UNION {sq'[b].frames : b \in {a \in Blks : sq'[a].pos >= nicPos}}
  BY Zenon, <1>2 DEF NicWillRead, Blks
<1>10. ASSUME NEW b \in Blks, sq[b].pos >= nicPos
       PROVE  sq'[b].pos >= nicPos /\ sq'[b].frames = sq[b].frames
  BY Zenon, <1>3, <1>6, <1>10
<1>11. ASSUME NEW b \in Blks, sq'[b].pos >= nicPos, b # b0
       PROVE  sq[b].pos >= nicPos /\ sq'[b].frames = sq[b].frames
  BY Zenon, <1>3, <1>7, <1>11
<1>12. sq'[b0].pos >= nicPos
  BY <1>3, <1>5, Numbers
<1>13. T \subseteq NicWillRead'
  BY Zenon, <1>3, <1>5, <1>9, <1>12
<1>14. NicWillRead \subseteq NicWillRead'
  BY Zenon, <1>8, <1>9, <1>10
<1>15. ASSUME NEW f \in NicWillRead' PROVE f \in NicWillRead \cup T
  <2>1. PICK b \in Blks : sq'[b].pos >= nicPos /\ f \in sq'[b].frames
    BY Zenon, <1>9, <1>15
  <2>2. CASE b = b0
    BY Zenon, <1>3, <2>1, <2>2
  <2>3. CASE b # b0
    BY Zenon, <1>8, <1>11, <2>1, <2>3
  <2> QED BY Zenon, <2>2, <2>3
<1> QED BY Zenon, <1>2, <1>4, <1>13, <1>14, <1>15

\* The NIC goes forward, so it never has more to read.
LEMMA NicMaps ==
    ASSUME TypeOK, RingInv, NicExecute \/ NicFails \/ NicFlushes
    PROVE  out' = out /\ failed' = failed /\ NicWillRead' \subseteq NicWillRead
<1>1. out' = out /\ failed' = failed /\ sq' = sq /\ nicPos' = nicPos + NicRead.bbs
  BY Zenon DEF NicExecute, NicFails, NicFlushes, NicError
<1>2. nicPos % BBs \in Blks
  BY Numbers, InRing
<1>3. NicRead.bbs \in Nat
  BY <1>2, WqeTyped DEF NicRead
<1>4. \A b \in Blks : sq[b].pos >= nicPos' => sq[b].pos >= nicPos
  BY <1>1, <1>3, WqeTyped, Numbers
<1> QED BY Zenon, <1>1, <1>4 DEF NicWillRead, Blks

LEMMA ReturnMaps ==
    ASSUME TypeOK, RingInv, CompleteReturn
    PROVE  out \subseteq out' /\ failed' = failed /\ NicWillRead' = NicWillRead
BY Zenon DEF CompleteReturn, nicVars, NicWillRead

\* The other steps move no frame; only CompleteEntry can find a failure.
LEMMA OtherMaps ==
    ASSUME TypeOK, PostCall \/ PostPublish \/ CompleteCall \/ CompleteEntry \/ NicMisbehaves
                      \/ UNCHANGED vars
    PROVE  /\ out' = out /\ NicWillRead' = NicWillRead
           /\ failed' \in {failed, TRUE}
<1>1. CASE PostPublish
  <2>1. /\ out' = out /\ failed' = failed /\ nicPos' = nicPos
        /\ sq' \in {sq, SetSignaled}
    BY Zenon, <1>1 DEF PostPublish, nicVars
  <2>2. \A b \in 0 .. BBs - 1 : sq'[b].pos = sq[b].pos /\ sq'[b].frames = sq[b].frames
    <3>1. CASE sq' = sq
      BY Zenon, <3>1
    <3>2. CASE sq' = SetSignaled
      BY <3>2 DEF SetSignaled
    <3> QED BY Zenon, <2>1, <3>1, <3>2
  <2> QED BY Zenon, <2>1, <2>2 DEF NicWillRead
<1>2. CASE CompleteEntry
  <2>1. out' = out /\ sq' = sq /\ nicPos' = nicPos /\ failed' = (failed \/ cq[1].opcode = "reqerr")
    BY Zenon, <1>2 DEF CompleteEntry, nicVars
  <2>2. failed \in BOOLEAN
    BY DEF TypeOK
  <2> QED BY Zenon, <2>1, <2>2 DEF NicWillRead
<1>3. CASE PostCall \/ CompleteCall \/ NicMisbehaves \/ UNCHANGED vars
  <2>1. out' = out /\ sq' = sq /\ nicPos' = nicPos /\ failed' = failed
    BY Zenon, <1>3 DEF PostCall, CompleteCall, NicMisbehaves, vars, nicVars
  <2> QED BY Zenon, <2>1 DEF NicWillRead
<1> QED BY Zenon, <1>1, <1>2, <1>3

\* Every step of the ring and of its NIC is a step of the contract or none of
\* its concern.
LEMMA StepMaps ==
    ASSUME TypeOK, RingInv, EntrySound, PostsAlive, Split, Split', [Next]_vars
    PROVE  [Contract!Next]_(Contract!vars)
<1> DEFINE fin == InFlightFrames \ NicWillRead
<1>1. fin = (Frames \ out) \ NicWillRead /\ fin' = (Frames \ out') \ NicWillRead'
      /\ out \subseteq Frames /\ NicWillRead \subseteq Frames \ out
      /\ out' \subseteq Frames /\ NicWillRead' \subseteq Frames \ out'
  BY Zenon DEF Split
<1>2. CASE PostEntry
  <2>1. PICK T \in SUBSET out : out' = out \ T /\ NicWillRead' = NicWillRead \cup T
    BY Zenon, <1>2, PostMaps
  <2>2. ~failed /\ failed' = failed
    BY Zenon, <1>2 DEF PostEntry, PostsAlive
  <2> HIDE DEF fin
  <2>3. fin' = fin
    BY Zenon, <1>1, <2>1
  <2> QED BY Zenon, <2>1, <2>2, <2>3 DEF Contract!Next, Contract!Transmit, fin
<1>3. CASE NicExecute \/ NicFails \/ NicFlushes
  <2>1. out' = out /\ failed' = failed /\ NicWillRead' \subseteq NicWillRead
    BY Zenon, <1>3, NicMaps
  <2> DEFINE S == NicWillRead \ NicWillRead'
  <2> HIDE DEF fin
  <2>2. /\ S \in SUBSET NicWillRead /\ NicWillRead' = NicWillRead \ S
        /\ fin' = fin \cup S
    BY Zenon, <1>1, <2>1
  <2> HIDE DEF S
  <2> QED BY Zenon, <2>1, <2>2 DEF Contract!Next, Contract!Finish, fin
<1>4. CASE CompleteReturn
  <2>1. out \subseteq out' /\ failed' = failed /\ NicWillRead' = NicWillRead
    BY Zenon, <1>4, ReturnMaps
  <2> DEFINE S == out' \ out
  <2> HIDE DEF fin
  <2>2. S \in SUBSET fin /\ out' = out \cup S /\ fin' = fin \ S
    BY Zenon, <1>1, <2>1
  <2> HIDE DEF S
  <2> QED BY Zenon, <2>1, <2>2 DEF Contract!Next, Contract!HandBack, fin
<1>5. CASE PostCall \/ PostPublish \/ CompleteCall \/ CompleteEntry \/ NicMisbehaves
              \/ UNCHANGED vars
  <2>1. out' = out /\ NicWillRead' = NicWillRead /\ failed' \in {failed, TRUE}
    BY Zenon, <1>5, OtherMaps
  <2> HIDE DEF fin
  <2>2. fin' = fin
    BY Zenon, <1>1, <2>1
  <2> QED BY Zenon, <2>1, <2>2 DEF Contract!Next, Contract!Fail, Contract!vars, fin
<1> QED BY Zenon, <1>2, <1>3, <1>4, <1>5 DEF Next

-----------------------------------------------------------------------------
(* The theorems. *)

LEMMA InitRing == Init => RingInv
<1> SUFFICES ASSUME Init PROVE RingInv
  OBVIOUS
<1>1. TypeOK
  BY InitTyped
<1>2. /\ pi = 0 /\ head = 0 /\ slotHead = 0 /\ slotTail = 0 /\ nicPos = 0 /\ doorbell = 0
      /\ pc = "idle" /\ haveAny = FALSE /\ cq = <<>> /\ out = Frames
  BY DEF Init
<1>3. BBs \in Nat \ {0} /\ W \in Nat \ {0} /\ Slots \in Nat \ {0}
  BY <1>1, Numbers
<1>4. \A b \in Blks : ~Live(b) /\ meta[b].bbs = 0
  BY <1>2 DEF Init, Live, NoWqe, NoMeta, Blks
<1>5. Published = 0
  <2>1. \A a \in Nat \ {0} : 0 % a = 0
    BY SMT
  <2>2. 0 % W = 0
    BY <1>3, <2>1
  <2> QED BY <1>2, <2>2 DEF Published
<1>6. Order
  BY <1>2, <1>3, <1>5 DEF Order
<1>7. Covered /\ FramesConserved
  <2>1. head .. pi - 1 = {} /\ slotHead .. slotTail - 1 = {}
    BY <1>2
  <2> QED BY Zenon, <1>2, <2>1 DEF Covered, FramesConserved, InFlightFrames
<1>8. Entries /\ Ordered /\ StaleRecords /\ Boundaries
  BY Zenon, <1>4 DEF Entries, Ordered, StaleRecords, Boundaries, Boundary
<1>9. Reports /\ Batch /\ Taking
  BY <1>2 DEF Reports, Batch, Taking
<1> QED BY <1>6, <1>7, <1>8, <1>9 DEF RingInv

LEMMA NextRing ==
    ASSUME TypeOK, RingInv, [Next]_vars
    PROVE  RingInv'
<1>1. CASE PostCall
  BY <1>1, PostCallKeeps
<1>2. CASE PostEntry
  BY <1>2, PostEntryKeeps, EntryFacts
<1>3. CASE PostPublish
  BY <1>3, PublishKeeps
<1>4. CASE CompleteCall
  BY <1>4, CompleteCallKeeps
<1>5. CASE CompleteEntry
  BY <1>5, CompleteEntryKeeps
<1>6. CASE CompleteReturn
  <2>1. CASE haveAny
    BY <1>6, <2>1, ReturnKeeps
  <2>2. CASE ~haveAny
    <3>1. /\ UNCHANGED ring /\ UNCHANGED <<doorbell, nicPos, cq>> /\ ~haveAny' /\ pc' = "idle"
      BY <1>6, <2>2 DEF CompleteReturn, ring, nicVars
    <3>2. Batch'
      BY <3>1 DEF Batch
    <3> QED BY <3>1, <3>2, OrderKept, RingKept, TakingKept DEF RingInv
  <2> QED BY <2>1, <2>2
<1>7. CASE NicExecute
  <2>1. NicSteps
    BY <1>7 DEF NicExecute, NicSteps, ring, ringVars, postVars, callVars
  <2> QED BY <2>1, NicAdvance
<1>8. CASE NicFails \/ NicFlushes
  <2>1. NicSteps
    BY Zenon, <1>8 DEF NicFails, NicFlushes, NicError, NicSteps, ring, ringVars, postVars, callVars
  <2> QED BY <2>1, NicAdvance
<1>9. CASE NicMisbehaves
  BY <1>9, MisbehavesKeeps
<1>10. CASE UNCHANGED vars
  <2>1. /\ UNCHANGED ring /\ UNCHANGED <<doorbell, nicPos, cq, pc, todo, newHead, release, haveAny>>
    BY <1>10 DEF vars, ring, ringVars, postVars, callVars, nicVars
  <2>2. Order' /\ Boundaries' /\ Batch'
    BY SMTT(30), <2>1, OrderKept, BatchKept
  <2>3. Reports' /\ Taking'
    BY Zenon, <2>1 DEF RingInv, Reports, Report, Boundary, Taking, Live, End, ring
  <2> QED BY <2>1, <2>2, <2>3, RingKept DEF RingInv
<1> QED BY <1>1, <1>2, <1>3, <1>4, <1>5, <1>6, <1>7, <1>8, <1>9, <1>10 DEF Next

LEMMA Inductive == Spec => [](TypeOK /\ RingInv)
<1>1. Init => TypeOK /\ RingInv
  BY InitTyped, InitRing
<1>2. (TypeOK /\ RingInv) /\ [Next]_vars => (TypeOK /\ RingInv)'
  BY NextTyped, NextRing, EntryFacts
<1> QED BY <1>1, <1>2, PTL DEF Spec

\* What the invariant gives at each state: a completion that is accepted is of
\* an entry executed.
LEMMA AcceptedFacts ==
    ASSUME TypeOK, RingInv
    PROVE  AcceptedIsFinished
<1> SUFFICES ASSUME cq # <<>>, cq[1].opcode # "other", cq[1].format = "nodata",
                    EntryFor(cq[1]).ok
             PROVE  sq[cq[1].pos % BBs].pos = cq[1].pos /\ EntryFor(cq[1]).head <= nicPos
  BY Zenon DEF AcceptedIsFinished
<1>1. 1 \in DOMAIN cq
  BY Shapes
<1>2. PICK b \in Blks :
         /\ Live(b) /\ sq[b].pos = cq[1].pos /\ b = cq[1].pos % BBs
         /\ EntryFor(cq[1]).head = End(b) /\ End(b) <= cq[1].at
  BY Zenon, <1>1, Accepted DEF Accounts
<1>3. PICK x \in Int : x = End(b)
  BY WqeTyped DEF End
<1>4. PICK a \in Int : a = cq[1].at
  BY <1>1, CqeTyped
<1>5. a <= nicPos
  BY Zenon, <1>1, <1>4 DEF RingInv, Reports, Report
<1>6. x <= a
  BY Zenon, <1>2, <1>3, <1>4
<1>7. x <= nicPos
  <2>1. nicPos \in Int
    BY Numbers
  <2> QED BY Zenon, <1>5, <1>6, <2>1, Transitive
<1>8. sq[cq[1].pos % BBs].pos = cq[1].pos
  BY Zenon, <1>2
<1> QED BY Zenon, <1>2, <1>3, <1>7, <1>8

LEMMA RingGives ==
    ASSUME TypeOK, RingInv
    PROVE  /\ NoEarlyRelease /\ FramesConserved /\ NicReadsOwnEntry /\ AcceptedIsFinished
<1>1. NoEarlyRelease
  <2>1. NicWillRead \subseteq InFlightFrames
    BY Zenon, ReadsAreInFlight DEF NicWillRead, Blks
  <2>2. out \cap InFlightFrames = {}
    BY DEF RingInv, FramesConserved
  <2> QED BY <2>1, <2>2 DEF NoEarlyRelease
<1>2. FramesConserved
  BY DEF RingInv
<1>3. NicReadsOwnEntry
  <2> SUFFICES ASSUME nicPos # Published PROVE NicRead.pos = nicPos /\ NicRead.bbs > 0
    BY DEF NicReadsOwnEntry
  <2>1. NicRead.pos = nicPos /\ NicRead.bbs \in 1 .. BBs
    BY AtNic
  <2> QED BY <2>1, Numbers
<1> QED BY <1>1, <1>2, <1>3, AcceptedFacts

\* The send queue's variables keep their types: the cursors, the block records,
\* the frames in the slots and what the NIC reads and writes.
THEOREM TxTyping == Spec => []TypeOK
BY Inductive, PTL

\* For every size of the rings, kind of entry, mix of packet lengths and
\* behaviour of the NIC: Complete never hands back a frame the NIC has still to
\* read; every frame is with the caller or in flight exactly once; the NIC only
\* ever reads entries written for its position; and a completion that the code
\* accepts names an entry that has been executed.
THEOREM TxSafe ==
    Spec => [](NoEarlyRelease /\ FramesConserved /\ NicReadsOwnEntry /\ AcceptedIsFinished)
<1>1. TypeOK /\ RingInv
         => NoEarlyRelease /\ FramesConserved /\ NicReadsOwnEntry /\ AcceptedIsFinished
  BY RingGives
<1> QED BY <1>1, Inductive, PTL

\* Every frame is with the caller or recorded in the slot ring, never both and
\* never twice.
THEOREM TxConserves == Spec => []FramesConserved
BY TxSafe, PTL

\* The NIC finds at its position the entry Post wrote for that position: none
\* is overwritten before it is executed, and the doorbell never runs ahead.
THEOREM TxReadsOwnEntry == Spec => []NicReadsOwnEntry
BY TxSafe, PTL

\* entryFor accepts a completion only of an entry in flight that the NIC has
\* executed, though records of blocks outlive their entries.
THEOREM TxAcceptsFinished == Spec => []AcceptedIsFinished
BY TxSafe, PTL

\* For every size of the rings and every mode the send ring keeps the contract
\* of the TxQueue interface: a frame goes from the caller to the NIC when its
\* entry is written, is finished when the NIC has executed or flushed the entry,
\* and comes back through Complete alone; a failed ring accepts nothing.
THEOREM TxKeepsContract == Spec => KeepsTxContract
<1>1. Init => Contract!Init
  <2> SUFFICES ASSUME Init PROVE Contract!Init
    OBVIOUS
  <2>1. TypeOK /\ RingInv /\ Split
    BY InitTyped, InitRing, SplitHolds
  <2>2. out = Frames /\ failed = FALSE
    BY Zenon DEF Init
  <2>3. NicWillRead = {} /\ InFlightFrames = {}
    BY Zenon, <2>1, <2>2 DEF Split
  <2> QED BY Zenon, <2>2, <2>3 DEF Contract!Init
<1>2. (TypeOK /\ RingInv) /\ (TypeOK /\ RingInv)' /\ PostsAlive /\ [Next]_vars
         => [Contract!Next]_(Contract!vars)
  <2>1. TypeOK /\ RingInv => Split
    BY Zenon, SplitHolds
  <2>2. (TypeOK /\ RingInv)' => Split'
    BY <2>1, PTL
  <2> QED BY Zenon, <2>1, <2>2, EntryFacts, StepMaps
<1> QED BY <1>1, <1>2, Inductive, AliveInductive, PTL DEF Spec, KeepsTxContract, Contract!Spec

LEMMA PlacesInductive == Spec => []Places
<1>1. Init => Places
  BY BoundsAssumption DEF Init, Places
<1>2. (TypeOK /\ RingInv) /\ Places /\ [Next]_vars => Places'
  BY Zenon, PlacesKept
<1> QED BY <1>1, <1>2, Inductive, PTL DEF Spec

\* With a place for every block of the send queue (NewTx refuses a shorter
\* completion queue) and one for every faulty completion, the NIC never writes
\* over a completion that has not been released to it, though Complete releases
\* those it reads only as it returns.
THEOREM TxCqHasRoom ==
    ASSUME BBs + MaxFaults <= CQEntries
    PROVE  Spec => []CqNeverOverruns
<1>1. TypeOK /\ RingInv /\ Places => CqNeverOverruns
  <2> SUFFICES ASSUME TypeOK, RingInv, Places PROVE CqNeverOverruns
    OBVIOUS
  <2>1. nicPos <= Published /\ Published <= pi /\ pi - head <= BBs /\ Published \in Int
    BY Zenon, PublishedFacts DEF RingInv, Order
  <2>2. /\ nicPos \in Nat /\ pi \in Nat /\ head \in Nat /\ BBs \in Nat
        /\ MaxFaults \in Nat /\ CQEntries \in Nat
    BY Numbers, SizesAssumption, BoundsAssumption
  <2>3. nicPos - head <= BBs
    BY <2>1, <2>2
  <2>4. /\ completed + Len(cq) <= (nicPos - head) + faults /\ faults <= MaxFaults
        /\ completed \in Nat /\ Len(cq) \in Nat /\ faults \in Nat
    BY Zenon, PlaceNumbers DEF Places
  <2> QED BY <2>2, <2>3, <2>4 DEF CqNeverOverruns
<1> QED BY <1>1, Inductive, PlacesInductive, PTL

\* A queue that has no room for another packet has a completion coming for its
\* youngest entry, in every mode: Post asks for the report of the last packet of
\* a batch it posts in full, postMulti of the last entry it wrote, and a batch
\* that fills the queue was posted in full.
THEOREM TxFullQueueReports ==
    ASSUME RoomWhenEmpty
    PROVE  Spec => []FullQueueReports
<1>1. Init => Asking
  BY InitAsks
<1>2. (TypeOK /\ RingInv) /\ Asking /\ [Next]_vars => Asking'
  BY Zenon, EntryFacts, PostCallAsks, PostEntryAsks, PublishAsks, OtherAsks DEF Next
<1>3. TypeOK /\ RingInv /\ Asking => FullQueueReports
  <2> SUFFICES ASSUME TypeOK, RingInv, Asking, pc = "idle", FreeSlots = 0, ~failed
               PROVE  YoungestAsks
    BY Zenon DEF FullQueueReports, YoungestAsks, End, Blks
  <2>1. pc # "post"
    OBVIOUS
  <2>2. lastIdx = NoIdx
    BY Zenon, <2>1 DEF Asking
  <2> QED BY Zenon, <2>1, <2>2, FullIs DEF Asking
<1> QED BY <1>1, <1>2, <1>3, Inductive, PTL DEF Spec

=============================================================================
