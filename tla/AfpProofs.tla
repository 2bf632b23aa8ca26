----------------------------- MODULE AfpProofs ------------------------------
(***************************************************************************)
(* Proofs about the frame pool (FramePool), for a pool of any size, and    *)
(* about the AF_PACKET receive queue above it (AfpRx), for every size of   *)
(* the ring, the pool, the packets and the batches.  They share no state.  *)
(*                                                                         *)
(* The pool: the checked build hands out no frame twice however it is      *)
(* called, and neither build loses or refuses a frame of callers that keep *)
(* the contract (PoolInv).                                                 *)
(*                                                                         *)
(* Poll against Close: ringMu is held by who looks at the ring or unmaps   *)
(* it.  The ring: the user blocks are those from the one Receive drains up *)
(* to the one the kernel fills; what waits in them, in that order, is what *)
(* arrived and was neither handed over nor counted as dropped (RingInv).   *)
(* The call: the pool, the application and the slots of the call have all  *)
(* the frames, and a slot is marked as continued exactly when it holds a   *)
(* piece that is not the last of its packet (CallInv).                     *)
(***************************************************************************)
EXTENDS AfpRx, FramePool, WellFoundedInduction, TLAPS

-----------------------------------------------------------------------------
(* The frame pool: arithmetic of addresses. *)

\* Arithmetic of Push's checks: an aligned address inside the pool is the start
\* of one of its frames.
LEMMA AlignedIsStart ==
    ASSUME NEW addr \in Nat, ~Refused(addr)
    PROVE  addr \in Starts
  <1> DEFINE q == addr \div FrameSize
  <1>1. addr = FrameSize * q /\ q \in Int
    BY PoolAssumption DEF Refused
  <1>2. BaseIndex * FrameSize <= q * FrameSize /\ q * FrameSize < (BaseIndex + Count) * FrameSize
    BY <1>1, PoolAssumption DEF Refused, Owns, base, end
  <1>3. BaseIndex <= q /\ q < BaseIndex + Count
    BY <1>1, <1>2, PoolAssumption
  <1>4. q - BaseIndex \in 0 .. Count - 1 /\ addr = (BaseIndex + (q - BaseIndex)) * FrameSize
    BY <1>1, <1>3, PoolAssumption
  <1> QED BY <1>4 DEF Starts

\* Index numbers the frames of the pool from 0, and tells them apart.
LEMMA IndexOfStart ==
    ASSUME NEW i \in 0 .. Count - 1
    PROVE  Index((BaseIndex + i) * FrameSize) = i
  <1>1. (BaseIndex + i) * FrameSize - base = i * FrameSize
    BY PoolAssumption DEF base
  <1>2. (i * FrameSize) \div FrameSize = i
    BY PoolAssumption
  <1> QED BY <1>1, <1>2 DEF Index

LEMMA IndexInjective ==
    ASSUME NEW a \in Starts, NEW b \in Starts
    PROVE  Index(a) \in 0 .. Count - 1 /\ (Index(a) = Index(b) => a = b)
  BY IndexOfStart DEF Starts

-----------------------------------------------------------------------------

\* What Pop leaves is a prefix of the list.
LEMMA RemainingIsPrefix ==
    ASSUME TypeOK, NEW k \in 0 .. Len(free)
    PROVE  /\ Remaining(k) \in Seq(Starts)
           /\ Len(Remaining(k)) = Len(free) - k
           /\ \A i \in 1 .. Len(free) - k : Remaining(k)[i] = free[i]
  BY DEF TypeOK, Remaining

\* The frames Pop takes are the rest of it.
LEMMA ElemsOfSuffix ==
    ASSUME NEW s \in Seq(Starts), NEW m \in 0 .. Len(s)
    PROVE  Elems(SubSeq(s, m + 1, Len(s))) = {s[i] : i \in m + 1 .. Len(s)}
  <1> DEFINE t == SubSeq(s, m + 1, Len(s))
  <1>1. Len(t) = Len(s) - m /\ Len(s) \in Nat
    OBVIOUS
  <1>2. \A i \in 1 .. Len(s) - m : t[i] = s[m + i]
    OBVIOUS
  <1> HIDE DEF t
  <1>3. ASSUME NEW i \in m + 1 .. Len(s) PROVE s[i] \in Elems(t)
    <2>1. i - m \in 1 .. Len(s) - m /\ m + (i - m) = i
      BY <1>1
    <2> QED BY Zenon, <1>1, <1>2, <2>1 DEF Elems
  <1>4. ASSUME NEW i \in 1 .. Len(t) PROVE t[i] \in {s[j] : j \in m + 1 .. Len(s)}
    <2>1. m + i \in m + 1 .. Len(s)
      BY <1>1
    <2>2. t[i] = s[m + i]
      BY <1>1, <1>2
    <2> QED BY Zenon, <2>1, <2>2
  <1>5. Elems(t) = {s[i] : i \in m + 1 .. Len(s)}
    BY Zenon, <1>3, <1>4 DEF Elems
  <1> QED BY <1>5 DEF t

LEMMA InitTyped == Init => TypeOK
  <1> SUFFICES ASSUME Init PROVE TypeOK
    OBVIOUS
  <1>1. \A i \in 1 .. Count : (BaseIndex + Count - i) * FrameSize \in Starts
    <2> TAKE i \in 1 .. Count
    <2>1. Count - i \in 0 .. Count - 1 /\ BaseIndex + Count - i = BaseIndex + (Count - i)
      BY PoolAssumption
    <2> QED BY <2>1 DEF Starts
  <1>2. free \in [1 .. Count -> Starts]
    BY <1>1 DEF Init
  <1>3. free \in Seq(Starts) /\ Len(free) = Count
    BY <1>2, PoolAssumption
  <1> QED BY <1>3, PoolAssumption DEF Init, TypeOK

\* TypeOK holds of every pool: what is on the list, or with a caller, is a
\* frame of this pool, and the list never grows past the pool (Push's checks).
THEOREM Typing == Spec => []TypeOK
<1>1. Init => TypeOK
  BY InitTyped
<1>2. TypeOK /\ [Next]_vars => TypeOK'
  <2> SUFFICES ASSUME TypeOK, [Next]_vars PROVE TypeOK'
    OBVIOUS
  <2>1. ASSUME NEW n \in 1 .. Count, Pop(n) PROVE TypeOK'
    <3> DEFINE k == IF n > Len(free) THEN Len(free) ELSE n
               taken == Elems(SubSeq(free, Len(free) - k + 1, Len(free)))
    <3>1. k \in 0 .. Len(free) /\ Len(free) \in Nat
      BY PoolAssumption DEF TypeOK
    <3>2. free' = Remaining(k) /\ in' = Cleared(taken) /\ held' = held \cup taken
          /\ UNCHANGED <<checked, trusted, rejected>>
      BY <2>1 DEF Pop, config
    <3> HIDE DEF k
    <3>3. taken \subseteq Starts
      BY <3>1 DEF Elems, TypeOK
    <3>4. Remaining(k) \in Seq(Starts) /\ Len(Remaining(k)) = Len(free) - k
      BY <3>1, RemainingIsPrefix
    <3> HIDE DEF taken
    <3>5. free' \in Seq(Starts) /\ Len(free') <= Count
      BY <3>1, <3>2, <3>4, PoolAssumption DEF TypeOK
    <3> QED BY Zenon, <3>2, <3>3, <3>5 DEF TypeOK, Cleared
  <2>2. ASSUME NEW addr \in Nat, Push(addr) PROVE TypeOK'
    <3>1. CASE Refused(addr) \/ MarkedFree(addr)
      <4>1. UNCHANGED <<checked, trusted, free, in, held>> /\ rejected' = rejected + 1
        BY <2>2, <3>1 DEF Push, config
      <4> QED BY <4>1 DEF TypeOK
    <3>2. CASE ~(Refused(addr) \/ MarkedFree(addr))
      <4>1. addr \in Starts /\ Index(addr) \in 0 .. Count - 1
        BY <3>2, AlignedIsStart, IndexInjective
      <4>2. Len(free) < Count
        BY <3>2, PoolAssumption DEF Refused, TypeOK
      <4>3. /\ free' = Append(free, addr) /\ held' = held \ {addr}
            /\ UNCHANGED <<checked, trusted, rejected>>
            /\ in' \subseteq in \cup {Index(addr)}
        BY <2>2, <3>2 DEF Push, config
      <4> QED BY <4>1, <4>2, <4>3, PoolAssumption DEF TypeOK
    <3> QED BY <3>1, <3>2
  <2>3. CASE Return
    BY <2>2, <2>3, PoolAssumption DEF Return, Base
  <2>4. CASE PushRaw
    BY <2>2, <2>4, PoolAssumption DEF PushRaw
  <2>5. CASE UNCHANGED vars
    BY <2>5 DEF vars, config, TypeOK
  <2> QED BY <2>1, <2>3, <2>4, <2>5 DEF Next
<1> QED BY <1>1, <1>2, PTL DEF Spec

-----------------------------------------------------------------------------

\* The inductive invariant.  The bits and the list have to be known to agree
\* for the bit test in Push to mean "not on the list", and for a frame that is
\* held to pass it; no duplicates, for the list to have room for such a frame.
PoolInv == TypeOK /\ NoDuplicates /\ BitsMatchList /\ NothingLost

\* In a checked build a frame is on the list exactly when its bit is set.
LEMMA MarkedIsListed ==
    ASSUME PoolInv, checked, NEW a \in Starts
    PROVE  Index(a) \in in <=> \E i \in 1 .. Len(free) : free[i] = a
  <1>1. \A i \in 1 .. Len(free) : free[i] \in Starts
    BY DEF PoolInv, TypeOK
  <1>2. \A i \in 1 .. Len(free) : Index(free[i]) = Index(a) => free[i] = a
    BY <1>1, IndexInjective
  <1> QED BY <1>2 DEF PoolInv, BitsMatchList

\* There are not more places than values if no two places have the same value: by
\* the least n for which n + 1 places would do with n values.
LEMMA PlacesForValues ==
    ASSUME NEW n \in Nat, NEW f \in [1 .. n + 1 -> 1 .. n]
    PROVE  \E i, j \in 1 .. n + 1 : i # j /\ f[i] = f[j]
<1> DEFINE R == OpToRel(<, Nat)
           Apart(m, g) == \A i, j \in 1 .. m + 1 : g[i] = g[j] => i = j
           Bad == {m \in Nat : \E g \in [1 .. m + 1 -> 1 .. m] : Apart(m, g)}
<1>1. SUFFICES ASSUME Bad # {} PROVE FALSE
  BY Zenon
<1>2. \A x, y \in Nat : x < y => <<x, y>> \in R
  BY Zenon DEF OpToRel
<1>3. IsWellFoundedOn(R, Nat)
  BY Zenon, NatLessThanWellFounded
<1>4. Bad \subseteq Nat
  BY Zenon
<1> HIDE DEF R, Bad
<1>5. PICK m \in Bad : \A k \in Bad : ~(<<k, m>> \in R)
  BY Zenon, <1>1, <1>3, <1>4, WFMin
<1>6. m \in Nat /\ \A k \in Bad : ~(k < m)
  BY Zenon, <1>2, <1>4, <1>5
<1>7. PICK g \in [1 .. m + 1 -> 1 .. m] : Apart(m, g)
  BY Zenon, <1>5 DEF Bad
<1>8. m # 0
  BY <1>6, <1>7
<1> DEFINE h == [i \in 1 .. m |-> IF g[i] = m THEN g[m + 1] ELSE g[i]]
<1>9. \A i, j \in 1 .. m + 1 : g[i] \in 1 .. m /\ (g[i] = g[j] => i = j)
  BY Zenon, <1>7
<1>10. \A i \in 1 .. m : i \in 1 .. m + 1 /\ i # m + 1
  BY <1>6
<1>11. m + 1 \in 1 .. m + 1
  BY <1>6
<1>12. ASSUME NEW i \in 1 .. m PROVE h[i] \in 1 .. m - 1
  <2>1. g[i] \in 1 .. m /\ g[m + 1] \in 1 .. m /\ g[i] # g[m + 1]
    BY Zenon, <1>9, <1>10, <1>11
  <2>2. \A v \in 1 .. m : v # m => v \in 1 .. m - 1
    BY <1>6
  <2>3. (h[i] = g[m + 1] /\ g[i] = m) \/ (h[i] = g[i] /\ g[i] # m)
    BY Zenon
  <2> QED BY Zenon, <2>1, <2>2, <2>3
<1>13. ASSUME NEW i \in 1 .. m, NEW j \in 1 .. m, h[i] = h[j] PROVE i = j
  <2>1. /\ g[i] = g[j] => i = j
        /\ g[i] # g[m + 1] /\ g[j] # g[m + 1]
    BY Zenon, <1>9, <1>10, <1>11
  <2> QED BY Zenon, <1>13, <2>1
<1> HIDE DEF h
<1>14. m - 1 \in Nat /\ m - 1 < m /\ (m - 1) + 1 = m
  BY <1>6, <1>8
<1>15. h \in [1 .. (m - 1) + 1 -> 1 .. m - 1] /\ Apart(m - 1, h)
  <2>1. h \in [1 .. m -> 1 .. m - 1]
    BY Zenon, <1>12 DEF h
  <2> QED BY Zenon, <1>13, <1>14, <2>1
<1>16. m - 1 \in Bad
  BY Zenon, <1>14, <1>15 DEF Bad
<1> QED BY Zenon, <1>6, <1>14, <1>16

\* While a frame is off the list, the list is not full: a list as long as the pool
\* and the frame would be one place more than there are frames.
LEMMA RoomForMissing ==
    ASSUME PoolInv, checked \/ trusted, NEW a \in Starts, a \notin Elems(free)
    PROVE  Len(free) < Count
  <1> SUFFICES ASSUME Len(free) >= Count PROVE FALSE
    BY PoolAssumption DEF PoolInv, TypeOK
  <1> DEFINE At(i) == IF i = Count + 1 THEN a ELSE free[i]
             f == [i \in 1 .. Count + 1 |-> Index(At(i)) + 1]
  <1>1. /\ Len(free) \in Nat /\ Count \in Nat
        /\ \A i \in 1 .. Len(free) : free[i] \in Starts /\ free[i] # a
    BY PoolAssumption DEF PoolInv, TypeOK, Elems
  <1>2. \A i, j \in 1 .. Len(free) : free[i] = free[j] => i = j
    BY DEF PoolInv, NoDuplicates
  <1>3. \A i \in 1 .. Count : i \in 1 .. Len(free) /\ i # Count + 1
    BY <1>1
  <1>4. \A i \in 1 .. Count + 1 : i \in 1 .. Count \/ i = Count + 1
    BY <1>1
  <1>5. ASSUME NEW i \in 1 .. Count + 1
        PROVE  At(i) \in Starts
    BY Zenon, <1>1, <1>3, <1>4
  <1>6. ASSUME NEW i \in 1 .. Count + 1, NEW j \in 1 .. Count + 1, At(i) = At(j)
        PROVE  i = j
    BY Zenon, <1>1, <1>2, <1>3, <1>4, <1>6
  <1> HIDE DEF At
  <1>7. ASSUME NEW i \in 1 .. Count + 1
        PROVE  Index(At(i)) \in Int /\ Index(At(i)) + 1 \in 1 .. Count
    <2>1. Index(At(i)) \in 0 .. Count - 1
      BY Zenon, <1>5, IndexInjective
    <2> QED BY <1>1, <2>1
  <1>8. f \in [1 .. Count + 1 -> 1 .. Count]
    BY Zenon, <1>7
  <1>9. ASSUME NEW i \in 1 .. Count + 1, NEW j \in 1 .. Count + 1, f[i] = f[j]
        PROVE  i = j
    <2>1. Index(At(i)) + 1 = Index(At(j)) + 1
      BY Zenon, <1>9
    <2>2. Index(At(i)) = Index(At(j))
      BY <1>7, <2>1
    <2> QED BY Zenon, <1>5, <1>6, <2>2, IndexInjective
  <1> HIDE DEF f
  <1>10. \E i, j \in 1 .. Count + 1 : i # j /\ f[i] = f[j]
    BY <1>1, <1>8, PlacesForValues
  <1> QED BY Zenon, <1>9, <1>10

LEMMA InitPool == Init => PoolInv
<1> SUFFICES ASSUME Init PROVE PoolInv
  OBVIOUS
<1>1. TypeOK
  BY InitTyped
<1>2. free = [i \in 1 .. Count |-> (BaseIndex + Count - i) * FrameSize] /\ Len(free) = Count
  BY PoolAssumption DEF Init
<1>3. \A i \in 1 .. Count : Index(free[i]) = Count - i
  <2> TAKE i \in 1 .. Count
  <2>1. Count - i \in 0 .. Count - 1 /\ BaseIndex + Count - i = BaseIndex + (Count - i)
    BY PoolAssumption
  <2> QED BY <1>2, <2>1, IndexOfStart
<1>4. NoDuplicates
  BY <1>2, <1>3, PoolAssumption DEF NoDuplicates
<1>5. \A j \in 0 .. Count - 1 : Count - j \in 1 .. Count /\ Count - (Count - j) = j
  BY PoolAssumption
<1>6. BitsMatchList
  <2> SUFFICES ASSUME checked PROVE in = {Index(free[i]) : i \in 1 .. Len(free)}
    BY DEF BitsMatchList
  <2>1. in = 0 .. Count - 1
    BY DEF Init
  <2>2. \A j \in in : \E i \in 1 .. Len(free) : j = Index(free[i])
    <3> TAKE j \in in
    <3>1. PICK i \in 1 .. Count : Count - i = j
      BY <1>5, <2>1
    <3> QED BY Zenon, <1>2, <1>3, <3>1
  <2>3. \A i \in 1 .. Len(free) : Index(free[i]) \in in
    BY <1>1, IndexInjective, <2>1 DEF TypeOK
  <2> QED BY <2>2, <2>3
<1>7. NothingLost
  <2>1. Elems(free) = Starts
    <3>1. \A i \in 1 .. Len(free) : free[i] \in Starts
      BY <1>1 DEF TypeOK
    <3>2. ASSUME NEW j \in 0 .. Count - 1 PROVE (BaseIndex + j) * FrameSize \in Elems(free)
      <4>1. BaseIndex + Count - (Count - j) = BaseIndex + j
        BY PoolAssumption
      <4>2. free[Count - j] = (BaseIndex + j) * FrameSize /\ Count - j \in 1 .. Len(free)
        BY Zenon, <1>2, <1>5, <4>1
      <4> QED BY <4>2 DEF Elems
    <3> QED BY <3>1, <3>2 DEF Elems, Starts
  <2> QED BY <2>1 DEF Init, NothingLost
<1> QED BY <1>1, <1>4, <1>6, <1>7 DEF PoolInv

-----------------------------------------------------------------------------

LEMMA PopKeeps ==
    ASSUME PoolInv, NEW n \in 1 .. Count, Pop(n)
    PROVE  NoDuplicates' /\ BitsMatchList' /\ NothingLost'
<1> DEFINE k == IF n > Len(free) THEN Len(free) ELSE n
           m == Len(free) - k
           taken == Elems(SubSeq(free, m + 1, Len(free)))
<1>1. k \in 0 .. Len(free) /\ Len(free) \in Nat /\ m \in 0 .. Len(free)
  BY PoolAssumption DEF PoolInv, TypeOK
<1>2. /\ free' = Remaining(k) /\ in' = in \ {Index(a) : a \in taken} /\ held' = held \cup taken
      /\ UNCHANGED <<checked, trusted, rejected>>
  BY DEF Pop, Cleared, config
<1> HIDE DEF k
<1>3. Len(free') = m /\ \A i \in 1 .. m : free'[i] = free[i]
  BY <1>1, <1>2, RemainingIsPrefix DEF PoolInv
<1>4. taken = {free[i] : i \in m + 1 .. Len(free)}
  BY Zenon, <1>1, ElemsOfSuffix DEF PoolInv, TypeOK
<1> HIDE DEF m, taken
<1>5. NoDuplicates'
  BY <1>1, <1>2, <1>3 DEF PoolInv, NoDuplicates
<1>6. BitsMatchList'
  <2> SUFFICES ASSUME checked PROVE in' = {Index(free'[i]) : i \in 1 .. Len(free')}
    BY <1>2 DEF BitsMatchList
  <2>1. \A i, j \in 1 .. Len(free) : Index(free[i]) = Index(free[j]) => i = j
    BY IndexInjective DEF PoolInv, TypeOK, NoDuplicates
  <2>2. in = {Index(free[i]) : i \in 1 .. Len(free)}
    BY DEF PoolInv, BitsMatchList
  <2>3. in' = {Index(free[i]) : i \in 1 .. m}
    <3>1. {Index(a) : a \in taken} = {Index(free[i]) : i \in m + 1 .. Len(free)}
      BY Zenon, <1>4
    <3>2. \A i \in 1 .. Len(free) : i \in 1 .. m <=> i \notin m + 1 .. Len(free)
      BY <1>1
    <3>3. \A i \in m + 1 .. Len(free) : i \in 1 .. Len(free)
      BY <1>1
    <3>4. \A i \in 1 .. m : i \in 1 .. Len(free)
      BY <1>1
    <3>5. ASSUME NEW x \in in' PROVE x \in {Index(free[i]) : i \in 1 .. m}
      <4>1. x \in in /\ x \notin {Index(free[i]) : i \in m + 1 .. Len(free)}
        BY Zenon, <1>2, <3>1, <3>5
      <4>2. PICK i \in 1 .. Len(free) : x = Index(free[i])
        BY Zenon, <2>2, <4>1
      <4>3. i \in 1 .. m
        BY Zenon, <3>2, <4>1, <4>2
      <4> QED BY Zenon, <4>2, <4>3
    <3>6. ASSUME NEW i \in 1 .. m PROVE Index(free[i]) \in in'
      <4>1. i \in 1 .. Len(free) /\ i \notin m + 1 .. Len(free)
        BY Zenon, <3>2, <3>4
      <4>2. Index(free[i]) \notin {Index(free[j]) : j \in m + 1 .. Len(free)}
        BY Zenon, <2>1, <3>3, <4>1
      <4> QED BY Zenon, <1>2, <2>2, <3>1, <4>1, <4>2
    <3> QED BY Zenon, <3>5, <3>6
  <2> QED BY <1>3, <2>3
<1>7. NothingLost'
  <2> SUFFICES ASSUME trusted
               PROVE  /\ held' \cap Elems(free)' = {} /\ held' \cup Elems(free)' = Starts
                      /\ rejected = 0
    BY <1>2 DEF NothingLost
  <2>1. held \cap Elems(free) = {} /\ held \cup Elems(free) = Starts /\ rejected = 0
    BY DEF PoolInv, NothingLost
  <2>2. Elems(free)' = {free[i] : i \in 1 .. m}
    BY <1>3 DEF Elems
  <2>3. Elems(free) = {free[i] : i \in 1 .. m} \cup taken
    BY <1>1, <1>4 DEF Elems
  <2>4. {free[i] : i \in 1 .. m} \cap taken = {}
    BY <1>1, <1>4 DEF PoolInv, NoDuplicates
  <2> QED BY <1>2, <2>1, <2>2, <2>3, <2>4
<1> QED BY <1>5, <1>6, <1>7

\* A refusal changes nothing, and callers that keep the contract never see one.
LEMMA PushKeeps ==
    ASSUME PoolInv, NEW addr \in Nat, Push(addr), trusted => addr \in held
    PROVE  NoDuplicates' /\ BitsMatchList' /\ NothingLost'
<1>1. CASE Refused(addr) \/ MarkedFree(addr)
  <2>1. UNCHANGED <<checked, trusted, free, in, held>>
    BY <1>1 DEF Push, config
  <2>2. NoDuplicates' /\ BitsMatchList'
    BY <2>1 DEF PoolInv, NoDuplicates, BitsMatchList
  <2>3. ~trusted
    <3> SUFFICES ASSUME trusted PROVE FALSE
      OBVIOUS
    <3>1. addr \in Starts /\ addr \notin Elems(free)
      BY DEF PoolInv, NothingLost, TypeOK
    <3>2. ~MarkedFree(addr)
      BY <3>1, MarkedIsListed DEF MarkedFree, Elems
    <3>3. Len(free) < Count /\ Len(free) \in Nat
      BY <3>1, RoomForMissing DEF PoolInv, TypeOK
    <3>4. Owns(addr) /\ addr % FrameSize = 0
      <4>1. PICK i \in 0 .. Count - 1 : addr = (BaseIndex + i) * FrameSize
        BY <3>1 DEF Starts
      <4>2. addr % FrameSize = 0
        BY <4>1, PoolAssumption
      <4>3. 0 <= i * FrameSize /\ i * FrameSize < Count * FrameSize
        BY PoolAssumption
      <4> QED BY <4>1, <4>2, <4>3, PoolAssumption DEF Owns, base, end
    <3> QED BY <1>1, <3>2, <3>3, <3>4, PoolAssumption DEF Refused
  <2> QED BY <2>1, <2>2, <2>3 DEF NothingLost
<1>2. CASE ~(Refused(addr) \/ MarkedFree(addr))
  <2>1. addr \in Starts /\ (checked => Index(addr) \notin in)
    BY <1>2, AlignedIsStart DEF MarkedFree
  <2>2. checked \/ trusted => \A i \in 1 .. Len(free) : free[i] # addr
    BY <2>1, MarkedIsListed DEF PoolInv, NothingLost, Elems
  <2>3. /\ free' = Append(free, addr) /\ held' = held \ {addr}
        /\ UNCHANGED <<checked, trusted, rejected>>
    BY <1>2 DEF Push, config
  <2>4. /\ Len(free) \in Nat /\ Len(free') = Len(free) + 1
        /\ \A i \in 1 .. Len(free) : free'[i] = free[i]
        /\ free'[Len(free) + 1] = addr
    BY <2>1, <2>3 DEF PoolInv, TypeOK
  <2>5. NoDuplicates'
    BY <2>2, <2>3, <2>4 DEF PoolInv, NoDuplicates
  <2>6. BitsMatchList'
    <3> SUFFICES ASSUME checked PROVE in' = {Index(free'[i]) : i \in 1 .. Len(free')}
      BY <2>3 DEF BitsMatchList
    <3>1. in' = {Index(free[i]) : i \in 1 .. Len(free)} \cup {Index(addr)}
      BY <1>2 DEF Push, PoolInv, BitsMatchList
    <3> QED BY <2>4, <3>1
  <2>7. NothingLost'
    <3>1. Elems(free)' = Elems(free) \cup {addr}
      BY <2>4 DEF Elems
    <3> QED BY <2>1, <2>3, <3>1 DEF PoolInv, NothingLost
  <2> QED BY <2>5, <2>6, <2>7
<1> QED BY <1>1, <1>2

\* PoolInv is an invariant: in the checked build no frame is ever on the list
\* twice whatever callers do, and in both builds callers that return only what
\* they hold lose no frame and are refused none (Pop, Push).
THEOREM PoolCorrect == Spec => [](NoDuplicates /\ BitsMatchList /\ NothingLost)
<1>1. PoolInv /\ TypeOK' /\ [Next]_vars => PoolInv'
  <2> SUFFICES ASSUME PoolInv, TypeOK', [Next]_vars
               PROVE  NoDuplicates' /\ BitsMatchList' /\ NothingLost'
    BY DEF PoolInv
  <2>1. CASE \E n \in 1 .. Count : Pop(n)
    BY <2>1, PopKeeps
  <2>2. CASE Return
    <3>1. PICK addr \in 0 .. RegionFrames * FrameSize - 1 :
             (trusted => Base(addr) \in held) /\ Push(Base(addr))
      BY <2>2 DEF Return
    <3>2. Base(addr) \in Nat
      BY PoolAssumption DEF Base
    <3> QED BY <3>1, <3>2, PushKeeps
  <2>3. CASE PushRaw
    BY <2>3, PushKeeps, PoolAssumption DEF PushRaw
  <2>4. CASE UNCHANGED vars
    BY <2>4 DEF vars, config, PoolInv, NoDuplicates, BitsMatchList, NothingLost, Elems
  <2> QED BY <2>1, <2>2, <2>3, <2>4 DEF Next
<1> QED BY <1>1, InitPool, Typing, PTL DEF Spec, PoolInv

-----------------------------------------------------------------------------
(* Poll against Close. *)

\* ringMu is held by who is between taking and releasing it, and the ring goes
\* away under it.
RingMu ==
    /\ poll \in {"look", "header"} => mu = "owner"
    /\ closing \in {"unmap", "forget"} => mu = "closer"
    /\ ~mapped => closing \in {"forget", "wakefd", "done"}
    /\ closing \in {"wakefd", "done"} => ~mem
    /\ poll = "header" => mem

LEMMA RingMuKept == ASSUME RingMu, [RxNext]_rxVars PROVE RingMu'
<1>1. CASE UNCHANGED <<poll, mu, closing, mapped, mem>>
  BY <1>1 DEF RingMu
<1>2. CASE \/ \E hs \in Headers : Retire(hs)
           \/ Reading \/ UNCHANGED rxVars
  <2>1. UNCHANGED <<pollVars, stopVars>>
    BY Zenon, <1>2 DEF Retire, Reading, Receive, ReadEnds, TakeBlock, ReleaseBlock, NoRoom,
       BadFrame, Oversize, Copy, Spread, BatchTooSmall, SpreadLater, Recycle, rxVars
  <2> QED BY <1>1, <2>1 DEF pollVars, stopVars
<1>3. CASE Polling
  <2>0. UNCHANGED <<closing, mapped, mem>>
    BY Zenon, <1>3 DEF Polling, Readying, Poll, PollReturns, PollEnters, PollInterrupted, PollWakes,
       ReadyLock, ReadyGone, ReadyPartly, ReadyLook, ReadyHeader, MovePoll, stopVars
  <2>1. CASE Poll \/ PollReturns \/ PollEnters \/ PollInterrupted
               \/ \E why \in {"block", "wake", "timeout", "nothing"} : PollWakes(why)
    <3>1. mu' = mu /\ poll \notin {"look", "header"} /\ poll' \notin {"look", "header"}
      BY <2>1 DEF Poll, PollReturns, PollEnters, PollInterrupted, PollWakes, MovePoll
    <3> QED BY <3>1, <2>0 DEF RingMu
  <2>2. CASE ReadyLock
    BY <2>0, <2>2 DEF RingMu, ReadyLock, MovePoll
  <2>3. CASE ReadyGone \/ ReadyPartly
    BY <2>0, <2>3 DEF RingMu, ReadyGone, ReadyPartly, MovePoll
  <2>4. CASE ReadyLook
    BY <2>0, <2>4 DEF RingMu, ReadyLook, MovePoll
  <2>5. CASE ReadyHeader
    <3>1. poll = "header" /\ poll' \in {"no", "none"} /\ mu' = "free"
      BY <2>5 DEF ReadyHeader, MovePoll
    <3> QED BY <2>0, <3>1 DEF RingMu
  <2> QED BY Zenon, <1>3, <2>1, <2>2, <2>3, <2>4, <2>5 DEF Polling, Readying
<1>4. CASE ClosingRx
  <2>1. CASE CloseSwaps
    BY <2>1 DEF RingMu, CloseSwaps, MoveClose
  <2>2. CASE CloseWakes
    BY <2>2 DEF RingMu, CloseWakes, MoveClose
  <2>3. CASE CloseLocks
    BY <2>3 DEF RingMu, CloseLocks, MoveClose
  <2>4. CASE CloseUnmaps
    BY <2>4 DEF RingMu, CloseUnmaps, MoveClose
  <2>5. CASE CloseForgets
    BY <2>5 DEF RingMu, CloseForgets, MoveClose
  <2>6. CASE CloseWakeFd
    BY <2>6 DEF RingMu, CloseWakeFd, MoveClose
  <2> QED BY Zenon, <1>4, <2>1, <2>2, <2>3, <2>4, <2>5, <2>6 DEF ClosingRx
<1> QED BY Zenon, <1>2, <1>3, <1>4 DEF RxNext

\* Poll never reads a ring that Close has unmapped, whatever the ring's size and
\* however the two interleave (afpacket/rxqueue.go, ready and Close under ringMu).
THEOREM PollReadsRing == RxSpec => []NoUnmappedRead
<1>1. RxInit => RingMu
  BY DEF RxInit, RingMu
<1>2. RingMu /\ [RxNext]_rxVars => RingMu'
  BY RingMuKept
<1>3. RingMu => NoUnmappedRead
  BY DEF RingMu, NoUnmappedRead
<1> QED BY <1>1, <1>2, <1>3, PTL DEF RxSpec

-----------------------------------------------------------------------------
(* The ring: which blocks are the reader's, and what waits in them.  The    *)
(* lemmas are about any ring L of packets left, drained from block D.       *)

Packets == [id : Nat, kind : RxKinds, last : BOOLEAN]

LEMMA PacketIds == \A p \in Packets : p.id \in Nat
BY DEF Packets

\* How many blocks after D a block is.
Age(b, D) == IF b >= D THEN b - D ELSE b - D + BlockNr
After(D) == (D + 1) % BlockNr

Ids(ps) == {ps[i].id : i \in DOMAIN ps}
LEMMA IdsTyped == ASSUME NEW ps \in Seq(Packets) PROVE Ids(ps) \subseteq Nat
<1>1. ASSUME NEW i \in DOMAIN ps PROVE ps[i].id \in Nat
  <2>1. ps[i] \in Packets
    OBVIOUS
  <2> QED BY <2>1, PacketIds
<1> QED BY <1>1 DEF Ids

Sorted(ps) == \A i, j \in DOMAIN ps : i < j => ps[i].id < ps[j].id
Before(S, T) == \A x \in S, y \in T : x < y

Has(L, x) == \E b \in Blocks : x \in Ids(L[b])

\* Of the first n packets those in dealt have been dealt with and the rest wait
\* in the blocks, the oldest in the block drained next.
Backlog(L, D, dealt, n) ==
    /\ L \in [Blocks -> Seq(Packets)]
    /\ \A b \in Blocks : Sorted(L[b])
    /\ \A a, b \in Blocks : Age(a, D) < Age(b, D) => Before(Ids(L[a]), Ids(L[b]))
    /\ \A b \in Blocks : Before(dealt, Ids(L[b]))
    /\ \A x : x \in 1 .. n <=> x \in dealt \/ Has(L, x)

\* The reader's blocks are those from D up to F: all of them, or the ones before F.
Between(S, D, F) ==
    \/ F = D /\ \A b \in Blocks : S[b] = "user"
    \/ \A b \in Blocks : S[b] = "user" <=> Age(b, D) < Age(F, D)

LEMMA Numbers == BlockNr \in Nat /\ BlockNr > 0 /\ Blocks = 0 .. BlockNr - 1
BY AfpRxAssumption DEF Blocks

LEMMA AfterIs ==
    ASSUME NEW D \in Blocks
    PROVE  After(D) \in Blocks /\ After(D) = IF D = BlockNr - 1 THEN 0 ELSE D + 1
<1>1. CASE D = BlockNr - 1
  BY <1>1, Numbers DEF After
<1>2. CASE D # BlockNr - 1
  <2>1. D + 1 \in 0 .. BlockNr - 1
    BY <1>2, Numbers
  <2> QED BY <1>2, <2>1, Numbers DEF After
<1> QED BY <1>1, <1>2

LEMMA Ages ==
    ASSUME NEW D \in Blocks, NEW b \in Blocks
    PROVE  /\ Age(b, D) \in 0 .. BlockNr - 1
           /\ Age(b, D) = 0 <=> b = D
           /\ Age(b, After(D)) = IF b = D THEN BlockNr - 1 ELSE Age(b, D) - 1
           /\ Age(After(b), D) = IF Age(b, D) = BlockNr - 1 THEN 0 ELSE Age(b, D) + 1
<1>0. /\ BlockNr \in Int /\ D \in Int /\ 0 <= D /\ D <= BlockNr - 1
      /\ b \in Int /\ 0 <= b /\ b <= BlockNr - 1
  BY Numbers
<1>1. Age(b, D) \in 0 .. BlockNr - 1 /\ (Age(b, D) = 0 <=> b = D)
  BY <1>0 DEF Age
<1>2. Age(b, After(D)) = IF b = D THEN BlockNr - 1 ELSE Age(b, D) - 1
  <2>1. CASE D = BlockNr - 1
    <3>1. After(D) = 0
      BY <2>1, AfterIs
    <3> QED BY <1>0, <2>1, <3>1 DEF Age
  <2>2. CASE D # BlockNr - 1
    <3>1. After(D) = D + 1
      BY <2>2, AfterIs
    <3> QED BY <1>0, <2>2, <3>1 DEF Age
  <2> QED BY <2>1, <2>2
<1>3. Age(After(b), D) = IF Age(b, D) = BlockNr - 1 THEN 0 ELSE Age(b, D) + 1
  <2>1. CASE b = BlockNr - 1
    <3>1. After(b) = 0
      BY <2>1, AfterIs
    <3> QED BY <1>0, <2>1, <3>1 DEF Age
  <2>2. CASE b # BlockNr - 1
    <3>1. After(b) = b + 1
      BY <2>2, AfterIs
    <3> QED BY <1>0, <2>2, <3>1 DEF Age
  <2> QED BY <2>1, <2>2
<1> QED BY <1>1, <1>2, <1>3

LEMMA AgeTells ==
    ASSUME NEW D \in Blocks, NEW a \in Blocks, NEW b \in Blocks, Age(a, D) = Age(b, D)
    PROVE  a = b
BY Numbers DEF Age

\* A block is handed over, or back.
LEMMA BetweenRetired ==
    ASSUME NEW D \in Blocks, NEW F \in Blocks, NEW S, Between(S, D, F), S[F] # "user",
           NEW T, \A b \in Blocks : T[b] = "user" <=> S[b] = "user" \/ b = F
    PROVE  /\ Between(T, D, After(F))
           /\ \A b \in Blocks : S[b] = "user" => Age(b, D) < Age(F, D)
<1>1. \A b \in Blocks : S[b] = "user" <=> Age(b, D) < Age(F, D)
  BY DEF Between
<1>2. \A b \in Blocks : T[b] = "user" <=> Age(b, D) <= Age(F, D)
  BY <1>1, Ages, AgeTells
<1>3. CASE Age(F, D) = BlockNr - 1
  <2>1. After(F) = D
    BY <1>3, Ages, AfterIs
  <2>2. \A b \in Blocks : T[b] = "user"
    BY <1>2, <1>3, Ages
  <2> QED BY <1>1, <2>1, <2>2 DEF Between
<1>4. CASE Age(F, D) # BlockNr - 1
  <2>1. ASSUME NEW b \in Blocks
        PROVE  Age(b, D) <= Age(F, D) <=> Age(b, D) < Age(After(F), D)
    <3>1. Age(b, D) \in Int /\ Age(F, D) \in Int /\ Age(After(F), D) = Age(F, D) + 1
      BY <1>4, Ages, Numbers
    <3> QED BY <3>1
  <2> QED BY <1>1, <1>2, <2>1 DEF Between
<1> QED BY <1>3, <1>4

LEMMA BetweenReleased ==
    ASSUME NEW D \in Blocks, NEW F \in Blocks, NEW S, Between(S, D, F), S[D] = "user",
           NEW T, \A b \in Blocks : T[b] = "user" <=> S[b] = "user" /\ b # D
    PROVE  Between(T, After(D), F)
<1>1. CASE F = D /\ \A b \in Blocks : S[b] = "user"
  <2>1. ASSUME NEW b \in Blocks PROVE b # D <=> Age(b, After(D)) < Age(F, After(D))
    <3>0. Age(b, D) \in 0 .. BlockNr - 1
      BY Zenon, Ages
    <3>1. /\ BlockNr \in Int /\ Age(b, D) \in Int /\ Age(b, D) <= BlockNr - 1
      BY <3>0, Numbers
    <3>3. Age(F, After(D)) = BlockNr - 1
      BY <1>1, Ages
    <3>2. Age(b, After(D)) = IF b = D THEN BlockNr - 1 ELSE Age(b, D) - 1
      BY Ages
    <3> QED BY <3>1, <3>2, <3>3
  <2> QED BY <1>1, <2>1 DEF Between
<1>2. CASE \A b \in Blocks : S[b] = "user" <=> Age(b, D) < Age(F, D)
  <2>1. F # D
    BY <1>2, Ages
  <2>2. ASSUME NEW b \in Blocks
        PROVE  Age(b, D) < Age(F, D) /\ b # D <=> Age(b, After(D)) < Age(F, After(D))
    <3>1. /\ BlockNr \in Int /\ Age(b, D) \in Int /\ Age(F, D) \in Int
          /\ Age(F, D) <= BlockNr - 1 /\ Age(F, After(D)) = Age(F, D) - 1
      BY <2>1, Ages, Numbers
    <3>2. Age(b, After(D)) = IF b = D THEN BlockNr - 1 ELSE Age(b, D) - 1
      BY Ages
    <3> QED BY <3>1, <3>2
  <2> QED BY <1>2, <2>2 DEF Between
<1> QED BY <1>1, <1>2 DEF Between

LEMMA OneReplaced ==
    ASSUME NEW L, NEW M, NEW F \in Blocks, Ids(L[F]) = {},
           \A b \in Blocks : b # F => Ids(M[b]) = Ids(L[b]), NEW x
    PROVE  Has(M, x) <=> Has(L, x) \/ x \in Ids(M[F])
<1>1. ASSUME NEW b \in Blocks, x \in Ids(M[b]) PROVE Has(L, x) \/ x \in Ids(M[F])
  <2>1. CASE b = F
    BY <1>1, <2>1
  <2>2. CASE b # F
    BY <1>1, <2>2 DEF Has
  <2> QED BY <2>1, <2>2
<1>2. ASSUME NEW b \in Blocks, x \in Ids(L[b]) PROVE Has(M, x)
  BY Zenon, <1>2 DEF Has
<1>3. ASSUME x \in Ids(M[F]) PROVE Has(M, x)
  BY Zenon, <1>3 DEF Has
<1> QED BY Zenon, <1>1, <1>2, <1>3 DEF Has

\* The packets of a block that is retired.
LEMMA BacklogRetired ==
    ASSUME NEW L, NEW D \in Blocks, NEW dealt, NEW n \in Nat, Backlog(L, D, dealt, n),
           NEW F \in Blocks, L[F] = <<>>,
           \A b \in Blocks : L[b] # <<>> => Age(b, D) < Age(F, D),
           NEW ps \in Seq(Packets), NEW k \in Nat, Sorted(ps), Ids(ps) = n + 1 .. n + k
    PROVE  Backlog([L EXCEPT ![F] = ps], D, dealt, n + k)
<1> DEFINE M == [L EXCEPT ![F] = ps]
<1>1. M \in [Blocks -> Seq(Packets)] /\ M[F] = ps /\ \A b \in Blocks \ {F} : M[b] = L[b]
  BY DEF Backlog
<1> HIDE DEF M
<1>2. \A b \in Blocks : Sorted(M[b])
  BY Zenon, <1>1 DEF Backlog
<1>3. dealt \subseteq 1 .. n /\ \A b \in Blocks : Ids(L[b]) \subseteq 1 .. n
  BY Zenon DEF Backlog, Has
<1>4. ASSUME NEW S, S \subseteq 1 .. n PROVE Before(S, Ids(ps))
  <2>1. ASSUME NEW x \in 1 .. n, NEW y \in n + 1 .. n + k PROVE x < y
    OBVIOUS
  <2> QED BY Zenon, <1>4, <2>1 DEF Before
<1>5. ASSUME NEW a \in Blocks, NEW b \in Blocks, Age(a, D) < Age(b, D)
      PROVE  Before(Ids(M[a]), Ids(M[b]))
  <2>1. CASE a # F /\ b # F
    BY <1>1, <1>5, <2>1 DEF Backlog
  <2>2. CASE b = F
    <3>1. a # F
      BY <1>5, <2>2, Ages
    <3> QED BY <1>1, <1>3, <1>4, <2>2, <3>1
  <2>3. CASE a = F /\ b # F
    <3>1. L[b] = <<>>
      BY <1>5, <2>3, Ages
    <3>2. Ids(M[b]) = {}
      BY <1>1, <2>3, <3>1 DEF Ids
    <3> QED BY <3>2 DEF Before
  <2> QED BY <2>1, <2>2, <2>3
<1>6. \A b \in Blocks : Before(dealt, Ids(M[b]))
  BY Zenon, <1>1, <1>3, <1>4 DEF Backlog
<1>7. Ids(L[F]) = {}
  BY DEF Ids
<1>8. \A b \in Blocks : b # F => Ids(M[b]) = Ids(L[b])
  BY <1>1
<1>9. ASSUME NEW x PROVE x \in 1 .. n + k <=> x \in dealt \/ Has(M, x)
  <2>1. x \in 1 .. n <=> x \in dealt \/ Has(L, x)
    BY Zenon DEF Backlog
  <2>2. x \in 1 .. n + k <=> x \in 1 .. n \/ x \in n + 1 .. n + k
    OBVIOUS
  <2>3. Has(M, x) <=> Has(L, x) \/ x \in Ids(M[F])
    BY Zenon, <1>7, <1>8, OneReplaced
  <2>4. Ids(M[F]) = n + 1 .. n + k
    BY <1>1
  <2> QED BY <2>1, <2>2, <2>3, <2>4
<1> QED BY Zenon, <1>1, <1>2, <1>5, <1>6, <1>9 DEF Backlog, M

\* An empty block is released.
LEMMA BacklogReleased ==
    ASSUME NEW L, NEW D \in Blocks, NEW dealt, NEW n \in Nat, Backlog(L, D, dealt, n),
           L[D] = <<>>
    PROVE  Backlog(L, After(D), dealt, n)
<1>1. Ids(L[D]) = {}
  BY DEF Ids
<1>2. ASSUME NEW a \in Blocks, NEW b \in Blocks, Age(a, After(D)) < Age(b, After(D))
      PROVE  Before(Ids(L[a]), Ids(L[b]))
  <2>1. CASE a = D \/ b = D
    BY <1>1, <2>1 DEF Before
  <2>2. CASE a # D /\ b # D
    <3>1. Age(a, D) < Age(b, D)
      BY <1>2, <2>2, Ages
    <3> QED BY <3>1 DEF Backlog
  <2> QED BY <2>1, <2>2
<1> QED BY <1>2 DEF Backlog

\* Packets at the front of the oldest block are dealt with: those in T, and the
\* block is left with R.
LEMMA BacklogTaken ==
    ASSUME NEW L, NEW D \in Blocks, NEW dealt, NEW n \in Nat, Backlog(L, D, dealt, n),
           NEW T, NEW R \in Seq(Packets), Ids(L[D]) = T \cup Ids(R), Before(T, Ids(R)),
           Sorted(R)
    PROVE  /\ Backlog([L EXCEPT ![D] = R], D, dealt \cup T, n)
           /\ Before(dealt, T)
<1> DEFINE M == [L EXCEPT ![D] = R]
<1>1. M \in [Blocks -> Seq(Packets)] /\ M[D] = R /\ \A b \in Blocks \ {D} : M[b] = L[b]
  BY DEF Backlog
<1> HIDE DEF M
<1>2. \A b \in Blocks : Sorted(M[b])
  BY Zenon, <1>1 DEF Backlog
<1>3. \A b \in Blocks : Ids(M[b]) \subseteq Ids(L[b])
  BY <1>1
<1>4. ASSUME NEW a \in Blocks, NEW b \in Blocks, Age(a, D) < Age(b, D)
      PROVE  Before(Ids(M[a]), Ids(M[b]))
  BY Zenon, <1>3, <1>4 DEF Backlog, Before
<1>5. Before(dealt, T)
  BY DEF Backlog, Before
<1>6. ASSUME NEW b \in Blocks PROVE Before(dealt \cup T, Ids(M[b]))
  <2>1. Before(dealt, Ids(M[b]))
    BY <1>3 DEF Backlog, Before
  <2>2. Before(T, Ids(M[b]))
    <3>1. CASE b = D
      BY <1>1, <3>1
    <3>2. CASE b # D
      <4>1. Age(D, D) < Age(b, D)
        BY <3>2, Ages
      <4>2. Before(Ids(L[D]), Ids(L[b]))
        BY Zenon, <4>1 DEF Backlog
      <4> QED BY <4>2, <1>1, <3>2 DEF Before
    <3> QED BY <3>1, <3>2
  <2> QED BY <2>1, <2>2 DEF Before
<1>7. ASSUME NEW x PROVE x \in 1 .. n <=> x \in dealt \cup T \/ Has(M, x)
  <2>1. x \in 1 .. n <=> x \in dealt \/ Has(L, x)
    BY Zenon DEF Backlog
  <2>2. \A b \in Blocks : b # D => Ids(M[b]) = Ids(L[b])
    BY <1>1
  <2>3. x \in Ids(L[D]) <=> x \in T \/ x \in Ids(M[D])
    BY <1>1
  <2>4. Has(L, x) => x \in T \/ Has(M, x)
    BY Zenon, <2>2, <2>3 DEF Has
  <2>5. Has(M, x) \/ x \in T => Has(L, x)
    BY Zenon, <2>2, <2>3 DEF Has
  <2> QED BY <2>1, <2>4, <2>5
<1> QED BY Zenon, <1>1, <1>2, <1>4, <1>5, <1>6, <1>7 DEF Backlog, M

-----------------------------------------------------------------------------
(* The reader's view of the ring. *)

Parts == [id : Nat, piece : Nat, of : Nat]
Calls == [at : {"blocks", "packets"}, max : Slots, out : Seq(Parts), slots : Nat]

RingTypes ==
    /\ block \in [Blocks -> [status : {"kernel", "user"}, pkts : Seq(Packets)]]
    /\ filling \in Blocks /\ draining \in Blocks /\ arrived \in Nat
    /\ left \in Seq(Packets) /\ partly \in BOOLEAN
    /\ got \in Seq(Nat) /\ counted \subseteq Nat /\ unreached \subseteq Nat
CallTypes ==
    /\ rxFree \in Nat /\ rxHeld \in Nat /\ rc \in {NotReceiving} \cup Calls
    /\ cont \in [Slots -> BOOLEAN]
RxTypes == RingTypes /\ CallTypes

\* The block being drained has been looked at, and left is what it has left.
Looked == partly \/ rc.at = "packets"
Live(b) ==
    IF block[b].status # "user" THEN <<>>
    ELSE IF Looked /\ b = draining THEN left ELSE block[b].pkts

Statuses == [b \in Blocks |-> block[b].status]
Lives == [b \in Blocks |-> Live(b)]
Seen == Range(got) \cup counted

\* What was seen, and what was passed over because its block hides it.
Dealt == Seen \cup {x \in unreached : ~Has(Lives, x)}

\* The packets of ps that U holds are those behind one that ends the block, as
\* every bad one does.
Marked(ps, U) ==
    \A i \in DOMAIN ps :
        /\ ps[i].id \in U <=> \E j \in 1 .. i - 1 : ps[j].last
        /\ ps[i].kind = "bad" => ps[i].last

RingInv ==
    /\ Looked => block[draining].status = "user"
    /\ rc.at = "packets" => ~partly
    /\ Between(Statuses, draining, filling)
    /\ Backlog(Lives, draining, Dealt, arrived)
    /\ \A b \in Blocks : Marked(Lives[b], unreached)
    /\ Seen \cap unreached = {}
    /\ Range(got) \cap counted = {}
    /\ \A i, j \in DOMAIN got : i < j => got[i] < got[j]

\* Steps that leave the ring and what waits in it alone.
LEMMA RingSame ==
    ASSUME RxTypes, RingInv, UNCHANGED <<block, filling, arrived, unreached, draining, got, counted>>,
           Lives' = Lives, Looked' => block[draining].status = "user",
           rc'.at = "packets" => ~partly'
    PROVE  RingInv'
BY Zenon DEF RingInv, Statuses, Dealt, Seen, Has

LEMMA CursorSame ==
    ASSUME RxTypes, RingInv, UNCHANGED ringVars, UNCHANGED <<got, counted>>,
           rc.at # "packets", rc'.at # "packets"
    PROVE  RingInv'
<1>1. Looked' = Looked
  BY DEF Looked, ringVars
<1>2. Lives' = Lives
  BY <1>1 DEF Lives, Live, ringVars
<1> QED BY <1>1, <1>2, RingSame DEF ringVars, RingInv

LEMMA TakeBlockRing == ASSUME RxTypes, RingInv, TakeBlock PROVE RingInv'
<1>1. /\ UNCHANGED <<block, filling, arrived, unreached, draining, got, counted>>
      /\ rc.at = "blocks" /\ block[draining].status = "user" /\ ~partly'
      /\ left' = IF partly THEN left ELSE block[draining].pkts
  BY DEF TakeBlock
<1>2. Looked' /\ (Looked <=> partly)
  <2>1. rc \in Calls
    BY <1>1 DEF RxTypes, CallTypes, NotReceiving
  <2>2. rc'.at = "packets"
    BY <2>1 DEF TakeBlock, Calls
  <2> QED BY <1>1, <2>2 DEF Looked
<1>3. ASSUME NEW b \in Blocks PROVE Live(b)' = Live(b)
  <2>1. CASE b # draining
    BY <1>1, <2>1 DEF Live
  <2>2. CASE b = draining
    BY <1>1, <1>2, <2>2 DEF Live
  <2> QED BY <2>1, <2>2
<1>4. Lives' = Lives
  BY <1>3 DEF Lives
<1> QED BY <1>1, <1>2, <1>4, RingSame

\* The call returns in the middle of the block.
LEMMA StopsPartly ==
    ASSUME RxTypes, RingInv, rc.at = "packets", partly', rc' = NotReceiving,
           UNCHANGED <<block, filling, arrived, unreached, draining, left, got, counted>>
    PROVE  RingInv'
<1>1. Looked /\ Looked' /\ rc'.at # "packets"
  BY DEF Looked, NotReceiving
<1>2. Lives' = Lives
  BY <1>1 DEF Lives, Live
<1> QED BY <1>1, <1>2, RingSame DEF RingInv

LEMMA ReleaseRing == ASSUME RxTypes, RingInv, ReleaseBlock PROVE RingInv'
<1>1. /\ UNCHANGED <<filling, arrived, unreached, left, partly, got, counted>>
      /\ rc.at = "packets" /\ left = <<>>
      /\ block' = [block EXCEPT ![draining].status = "kernel"]
      /\ draining' = After(draining)
  BY DEF ReleaseBlock, After
<1>2. /\ Looked /\ ~partly /\ block[draining].status = "user" /\ draining \in Blocks
      /\ filling \in Blocks
  BY <1>1 DEF RingInv, Looked, RxTypes, RingTypes
<1>3. ~Looked' /\ rc'.at # "packets"
  <2>1. rc \in Calls
    BY <1>1 DEF RxTypes, CallTypes, NotReceiving
  <2>2. rc'.at = "blocks"
    BY <2>1 DEF ReleaseBlock, Calls
  <2> QED BY <1>1, <1>2, <2>2 DEF Looked
<1>4. /\ \A b \in Blocks : b # draining => block'[b] = block[b]
      /\ block'[draining].status = "kernel"
  BY <1>1, <1>2 DEF RxTypes, RingTypes
<1>5. Lives' = Lives /\ Lives[draining] = <<>>
  <2>1. ASSUME NEW b \in Blocks PROVE Live(b)' = Live(b)
    <3>1. CASE b # draining
      BY <1>3, <1>4, <3>1 DEF Live
    <3>2. CASE b = draining
      BY <1>1, <1>2, <1>4, <3>2 DEF Live
    <3> QED BY <3>1, <3>2
  <2>2. Live(draining) = <<>>
    BY <1>1, <1>2 DEF Live
  <2> QED BY <1>2, <2>1, <2>2 DEF Lives
<1>6. Between(Statuses', draining', filling')
  <2>1. /\ Statuses[draining] = "user"
        /\ \A b \in Blocks : Statuses'[b] = "user" <=> Statuses[b] = "user" /\ b # draining
    BY <1>2, <1>4 DEF Statuses
  <2>2. Between(Statuses, draining, filling)
    BY DEF RingInv
  <2> QED BY <1>1, <1>2, <2>1, <2>2, BetweenReleased
<1>7. Backlog(Lives', draining', Dealt', arrived')
  <2>1. Backlog(Lives, draining, Dealt, arrived) /\ arrived \in Nat
    BY DEF RingInv, RxTypes, RingTypes
  <2>2. Dealt' = Dealt
    BY <1>1, <1>5 DEF Dealt, Seen, Has
  <2> QED BY Zenon, <1>1, <1>2, <1>5, <2>1, <2>2, BacklogReleased
<1> QED BY Zenon, <1>1, <1>3, <1>5, <1>6, <1>7 DEF RingInv, Seen

\* A block as the kernel fills it.
LEMMA HeadersAre ==
    ASSUME NEW hs \in Headers
    PROVE  /\ Len(hs) \in Nat /\ DOMAIN hs = 1 .. Len(hs)
           /\ \A i \in 1 .. Len(hs) : hs[i].kind \in RxKinds /\ hs[i].last \in BOOLEAN
           /\ \A i \in 1 .. Len(hs) : hs[i].kind = "bad" => hs[i].last
<1>1. PICK n \in 1 .. PerBlock : hs \in [1 .. n -> [kind : Kinds, last : BOOLEAN]]
  BY DEF Headers
<1>2. n \in Nat /\ Len(hs) = n /\ DOMAIN hs = 1 .. n
  BY <1>1, AfpRxAssumption
<1>3. \A i \in DOMAIN hs : hs[i].kind = "bad" => hs[i].last
  BY DEF Headers
<1> QED BY <1>1, <1>2, <1>3, AfpRxAssumption

LEMMA RetireRing ==
    ASSUME RxTypes, RingInv, NEW hs \in Headers, Retire(hs)
    PROVE  RingInv'
<1> DEFINE m == Len(hs)
           ps == [i \in DOMAIN hs |->
                     [id |-> arrived + i, kind |-> hs[i].kind, last |-> hs[i].last]]
           new == {arrived + i : i \in {j \in DOMAIN hs : Hidden(hs, j)}}
<1>1. /\ UNCHANGED <<draining, left, partly, rc, got, counted>>
      /\ block[filling].status = "kernel"
      /\ block' = [block EXCEPT ![filling] = [status |-> "user", pkts |-> ps]]
      /\ filling' = After(filling) /\ arrived' = arrived + m
      /\ unreached' = unreached \cup new
  BY DEF Retire, After, readVars
<1>2. /\ arrived \in Nat /\ m \in Nat /\ DOMAIN hs = 1 .. m
      /\ \A i \in 1 .. m : hs[i].kind \in RxKinds /\ hs[i].last \in BOOLEAN
      /\ \A i \in 1 .. m : hs[i].kind = "bad" => hs[i].last
  BY HeadersAre DEF RxTypes, RingTypes
<1> HIDE DEF m
<1>3. /\ ps \in Seq(Packets) /\ DOMAIN ps = 1 .. m
      /\ \A i \in 1 .. m : ps[i].id = arrived + i /\ ps[i].kind = hs[i].kind
                            /\ ps[i].last = hs[i].last
  BY <1>2 DEF Packets
<1>14. \A i \in 1 .. m : arrived + i \in new <=> Hidden(hs, i)
  <2>1. \A i, j \in 1 .. m : arrived + i = arrived + j => i = j
    BY <1>2
  <2> QED BY <1>2, <2>1
<1>15. ASSUME NEW x \in new PROVE x \in arrived + 1 .. arrived + m
  BY <1>2
<1> HIDE DEF ps, new
<1>4. Sorted(ps) /\ Ids(ps) = arrived + 1 .. arrived + m
  <2>1. Sorted(ps)
    BY <1>2, <1>3 DEF Sorted
  <2>2. ASSUME NEW x \in arrived + 1 .. arrived + m PROVE x \in Ids(ps)
    <3>1. x - arrived \in 1 .. m /\ arrived + (x - arrived) = x
      BY <1>2
    <3> QED BY <1>3, <3>1 DEF Ids
  <2>3. \A i \in 1 .. m : arrived + i \in arrived + 1 .. arrived + m
    BY <1>2
  <2> QED BY <1>3, <2>1, <2>2, <2>3 DEF Ids
<1>5. draining \in Blocks /\ filling \in Blocks /\ block[filling].status # "user"
  BY <1>1 DEF RxTypes, RingTypes
<1>6. /\ \A b \in Blocks : b # filling => block'[b] = block[b]
      /\ block'[filling].status = "user" /\ block'[filling].pkts = ps
  BY <1>1, <1>5 DEF RxTypes, RingTypes
<1>7. Looked' = Looked /\ (Looked => draining # filling)
  BY <1>1, <1>5 DEF Looked, RingInv
<1>8. /\ Between(Statuses, draining, filling) /\ Statuses[filling] # "user"
      /\ \A b \in Blocks : Statuses'[b] = "user" <=> Statuses[b] = "user" \/ b = filling
  BY <1>5, <1>6 DEF Statuses, RingInv
<1>9. /\ Between(Statuses', draining, After(filling))
      /\ \A b \in Blocks : Statuses[b] = "user" => Age(b, draining) < Age(filling, draining)
  BY <1>5, <1>8, BetweenRetired
<1>10. Lives' = [Lives EXCEPT ![filling] = ps] /\ Lives[filling] = <<>>
  <2>1. ASSUME NEW b \in Blocks, b # filling PROVE Live(b)' = Live(b)
    BY <1>1, <1>6, <1>7, <2>1 DEF Live
  <2>2. Lives'[filling] = ps /\ Lives[filling] = <<>>
    BY <1>1, <1>5, <1>6, <1>7 DEF Lives, Live
  <2>3. \A b \in Blocks : b # filling => Lives'[b] = Lives[b]
    BY <2>1 DEF Lives
  <2>4. /\ Lives = [b \in Blocks |-> Lives[b]] /\ Lives' = [b \in Blocks |-> Lives'[b]]
    BY DEF Lives
  <2> QED BY <1>5, <2>2, <2>3, <2>4
<1>11. \A b \in Blocks : Lives[b] # <<>> => Age(b, draining) < Age(filling, draining)
  <2>1. \A b \in Blocks : Lives[b] # <<>> => Statuses[b] = "user"
    BY DEF Lives, Live, Statuses
  <2> QED BY <1>9, <2>1
<1>12. Backlog(Lives', draining, Dealt, arrived + m)
  <2>1. Backlog(Lives, draining, Dealt, arrived)
    BY DEF RingInv
  <2> QED BY Zenon, <1>2, <1>3, <1>4, <1>5, <1>10, <1>11, <2>1, BacklogRetired
<1>13. Looked => block'[draining].status = "user"
  BY <1>5, <1>6, <1>7 DEF RingInv
\* Of what came before nothing is new, and nothing of what is new came before.
<1>16. Dealt \subseteq 1 .. arrived /\ \A b \in Blocks : Ids(Lives[b]) \subseteq 1 .. arrived
  <2>1. Backlog(Lives, draining, Dealt, arrived)
    BY DEF RingInv
  <2> QED BY Zenon, <2>1 DEF Backlog, Has
<1>17. \A x : ~(x \in 1 .. arrived /\ x \in arrived + 1 .. arrived + m)
  BY <1>2
<1>18. unreached \subseteq 1 .. arrived
  BY Zenon, <1>16 DEF Dealt, Has
<1>19. Dealt' = Dealt
  <2>1. Ids(Lives[filling]) = {} /\ Lives'[filling] = ps
    BY <1>5, <1>10 DEF Ids, Lives
  <2>2. \A b \in Blocks : b # filling => Ids(Lives'[b]) = Ids(Lives[b])
    BY <1>5, <1>10 DEF Lives
  <2>3. ASSUME NEW x PROVE Has(Lives', x) <=> Has(Lives, x) \/ x \in Ids(ps)
    <3>1. Has(Lives', x) <=> Has(Lives, x) \/ x \in Ids(Lives'[filling])
      BY Zenon, <1>5, <2>1, <2>2, OneReplaced
    <3> QED BY Zenon, <2>1, <3>1
  <2>4. ASSUME NEW x \in unreached PROVE Has(Lives', x) <=> Has(Lives, x)
    BY Zenon, <1>4, <1>17, <1>18, <2>3
  <2>5. ASSUME NEW x \in new PROVE Has(Lives', x)
    BY Zenon, <1>4, <1>15, <2>3
  <2>6. Seen' = Seen
    BY <1>1 DEF Seen
  <2>7. Dealt' = Seen' \cup {x \in unreached' : ~Has(Lives', x)}
    BY Zenon DEF Dealt, Has
  <2>8. ASSUME NEW x
        PROVE  x \in unreached' /\ ~Has(Lives', x) <=> x \in unreached /\ ~Has(Lives, x)
    BY Zenon, <1>1, <2>4, <2>5
  <2>9. {x \in unreached' : ~Has(Lives', x)} = {x \in unreached : ~Has(Lives, x)}
    BY Zenon, <2>8
  <2> QED BY Zenon, <2>6, <2>7, <2>9 DEF Dealt
<1>20. ASSUME NEW b \in Blocks PROVE Marked(Lives'[b], unreached')
  <2>1. CASE b = filling
    <3>1. Lives'[b] = ps
      BY <1>5, <1>10, <2>1 DEF Lives
    <3>2. ASSUME NEW i \in 1 .. m
          PROVE  ps[i].id \in unreached' <=> \E j \in 1 .. i - 1 : ps[j].last
      <4>1. ps[i].id = arrived + i /\ arrived + i \in arrived + 1 .. arrived + m
        BY <1>2, <1>3
      <4>2. ps[i].id \in unreached' <=> Hidden(hs, i)
        BY Zenon, <1>1, <1>14, <1>17, <1>18, <4>1
      <4>3. \A j \in 1 .. i - 1 : ps[j].last = hs[j].last
        BY <1>2, <1>3
      <4> QED BY Zenon, <4>2, <4>3 DEF Hidden
    <3> QED BY Zenon, <1>2, <1>3, <3>1, <3>2 DEF Marked
  <2>2. CASE b # filling
    <3>1. Lives'[b] = Lives[b] /\ Marked(Lives[b], unreached)
      BY <1>5, <1>10, <2>2 DEF Lives, RingInv
    <3>2. \A i \in DOMAIN Lives[b] : Lives[b][i].id \in 1 .. arrived
      BY Zenon, <1>16 DEF Ids
    <3>3. \A i \in DOMAIN Lives[b] :
              Lives[b][i].id \in unreached' <=> Lives[b][i].id \in unreached
      BY Zenon, <1>1, <1>15, <1>17, <3>2
    <3> QED BY Zenon, <3>1, <3>3 DEF Marked
  <2> QED BY <2>1, <2>2
<1>21. Seen' \cap unreached' = {}
  <2>1. Seen' = Seen /\ Seen \subseteq Dealt /\ Seen \cap unreached = {}
    BY <1>1 DEF Seen, Dealt, RingInv
  <2> QED BY <1>1, <1>15, <1>16, <1>17, <2>1
<1> QED BY Zenon, <1>1, <1>7, <1>9, <1>12, <1>13, <1>19, <1>20, <1>21 DEF RingInv

\* Packets at the front of what is left are dealt with, those in T: the first, h, is
\* seen and the block hides the others.
LEMMA Consumes ==
    ASSUME RxTypes, RingInv, rc.at = "packets", rc'.at = "packets",
           UNCHANGED <<block, filling, arrived, unreached, draining, partly>>,
           NEW T, left' \in Seq(Packets), Ids(left) = T \cup Ids(left'),
           Before(T, Ids(left')), Sorted(left'), Marked(left', unreached),
           NEW h \in T, h \notin unreached, T \ {h} \subseteq unreached,
           Seen' = Seen \cup {h}
    PROVE  /\ Before(Seen, {h}) /\ Seen' \cap unreached' = {}
           /\ \A b \in Blocks : Marked(Lives'[b], unreached')
           /\ Looked' => block'[draining'].status = "user"
           /\ rc'.at = "packets" => ~partly'
           /\ Between(Statuses', draining', filling')
           /\ Backlog(Lives', draining', Dealt', arrived')
<1>1. /\ Looked /\ Looked' /\ ~partly /\ block[draining].status = "user"
      /\ draining \in Blocks /\ arrived \in Nat /\ Statuses' = Statuses
  BY DEF Looked, RingInv, RxTypes, RingTypes, Statuses
<1>2. Lives' = [Lives EXCEPT ![draining] = left'] /\ Lives[draining] = left
  <2>1. ASSUME NEW b \in Blocks, b # draining PROVE Live(b)' = Live(b)
    BY <2>1 DEF Live
  <2>2. Live(draining)' = left' /\ Live(draining) = left
    BY <1>1 DEF Live
  <2>3. \A b \in Blocks : Lives'[b] = IF b = draining THEN left' ELSE Lives[b]
    BY Zenon, <1>1, <2>1, <2>2 DEF Lives
  <2>4. Lives = [b \in Blocks |-> Lives[b]] /\ Lives' = [b \in Blocks |-> Lives'[b]]
    BY DEF Lives
  <2>5. Lives[draining] = left
    BY <1>1, <2>2 DEF Lives
  <2> QED BY <1>1, <2>3, <2>4, <2>5
<1>3. /\ Backlog([Lives EXCEPT ![draining] = left'], draining, Dealt \cup T, arrived)
      /\ Before(Dealt, T)
  <2>1. Backlog(Lives, draining, Dealt, arrived)
    BY DEF RingInv
  <2> QED BY Zenon, <1>1, <1>2, <2>1, BacklogTaken
<1>4. Between(Statuses, draining, filling)
  BY DEF RingInv
<1>5. Backlog(Lives', draining, Dealt \cup T, arrived)
  BY <1>2, <1>3
<1>6. Seen \cap unreached = {}
  BY DEF RingInv
<1>7. ASSUME NEW x \in unreached, Has(Lives, x), ~Has(Lives', x) PROVE x \in T
  <2>1. Backlog(Lives, draining, Dealt, arrived)
    BY DEF RingInv
  <2>2. x \in Dealt \cup T
    BY Zenon, <1>5, <1>7, <2>1 DEF Backlog
  <2> QED BY Zenon, <1>6, <1>7, <2>2 DEF Dealt
<1>8. ASSUME NEW x \in Dealt \cup T, Has(Lives', x) PROVE FALSE
  <2>1. PICK b \in Blocks : x \in Ids(Lives'[b])
    BY Zenon, <1>8 DEF Has
  <2>2. Lives'[b] \in Seq(Packets) /\ Before(Dealt \cup T, Ids(Lives'[b]))
    BY Zenon, <1>5 DEF Backlog
  <2>3. x < x /\ x \in Nat
    BY Zenon, <1>8, <2>1, <2>2, IdsTyped DEF Before
  <2> QED BY <2>3
<1>9. Dealt' = Dealt \cup T
  <2>1. Dealt' = Seen' \cup {x \in unreached : ~Has(Lives', x)}
    BY Zenon DEF Dealt, Has
  <2>2. ASSUME NEW x \in Dealt' PROVE x \in Dealt \cup T
    <3>1. CASE x \in Seen'
      BY Zenon, <3>1 DEF Dealt
    <3>2. CASE x \in unreached /\ ~Has(Lives', x)
      BY Zenon, <1>7, <3>2 DEF Dealt
    <3> QED BY Zenon, <2>1, <2>2, <3>1, <3>2
  <2>3. ASSUME NEW x \in Dealt \cup T PROVE x \in Dealt'
    <3>1. ~Has(Lives', x)
      BY Zenon, <1>8, <2>3
    <3>2. x \in Seen \/ x = h \/ x \in unreached
      BY Zenon, <2>3 DEF Dealt
    <3> QED BY Zenon, <2>1, <3>1, <3>2
  <2> QED BY Zenon, <2>2, <2>3
<1>10. Before(Seen, {h})
  BY <1>3 DEF Before, Dealt
<1>11. ASSUME NEW b \in Blocks PROVE Marked(Lives'[b], unreached')
  <2>1. CASE b = draining
    BY <1>1, <1>2, <2>1 DEF Lives
  <2>2. CASE b # draining
    BY <1>1, <1>2, <2>2 DEF Lives, RingInv
  <2> QED BY <2>1, <2>2
<1> QED BY Zenon, <1>1, <1>4, <1>5, <1>6, <1>9, <1>10, <1>11

\* What is left is sorted.
LEMMA LeftSorted ==
    ASSUME RxTypes, RingInv, rc.at = "packets"
    PROVE  Sorted(left) /\ Marked(left, unreached)
<1>1. draining \in Blocks /\ Lives[draining] = left
  BY DEF RxTypes, RingTypes, RingInv, Looked, Lives, Live
<1> QED BY <1>1 DEF RingInv, Backlog

LEMMA HeadIs ==
    ASSUME NEW ps \in Seq(Packets), ps # <<>>
    PROVE  Tail(ps) \in Seq(Packets) /\ Head(ps) \in Packets /\ Head(ps).id \in Nat
<1>1. Tail(ps) \in Seq(Packets) /\ Head(ps) \in Packets
  OBVIOUS
<1> QED BY <1>1, PacketIds

LEMMA HeadOff ==
    ASSUME NEW ps \in Seq(Packets), ps # <<>>, Sorted(ps)
    PROVE  /\ Tail(ps) \in Seq(Packets) /\ Head(ps) \in Packets /\ Head(ps).id \in Nat
           /\ Ids(ps) = {Head(ps).id} \cup Ids(Tail(ps))
           /\ Before({Head(ps).id}, Ids(Tail(ps))) /\ Sorted(Tail(ps))
<1>1. /\ Len(ps) \in Nat /\ Len(ps) >= 1 /\ DOMAIN ps = 1 .. Len(ps) /\ Head(ps) = ps[1]
      /\ Tail(ps) \in Seq(Packets) /\ DOMAIN Tail(ps) = 1 .. Len(ps) - 1
      /\ \A i \in 1 .. Len(ps) - 1 : Tail(ps)[i] = ps[i + 1]
  OBVIOUS
<1>2. Head(ps) \in Packets /\ Head(ps).id \in Nat
  BY HeadIs
<1>3. Sorted(Tail(ps))
  BY <1>1 DEF Sorted
<1>4. Before({Head(ps).id}, Ids(Tail(ps)))
  <2>1. ASSUME NEW i \in 1 .. Len(ps) - 1 PROVE ps[1].id < Tail(ps)[i].id
    <3>1. i + 1 \in DOMAIN ps /\ 1 \in DOMAIN ps /\ 1 < i + 1
      BY <1>1
    <3> QED BY <1>1, <3>1 DEF Sorted
  <2> QED BY <1>1, <2>1 DEF Before, Ids
<1>5. Ids(ps) = {Head(ps).id} \cup Ids(Tail(ps))
  <2>1. ASSUME NEW i \in DOMAIN ps, i # 1 PROVE ps[i].id \in Ids(Tail(ps))
    <3>1. i - 1 \in DOMAIN Tail(ps) /\ Tail(ps)[i - 1] = ps[i]
      BY <1>1, <2>1
    <3> QED BY <3>1 DEF Ids
  <2>2. ASSUME NEW i \in DOMAIN Tail(ps) PROVE Tail(ps)[i].id \in Ids(ps)
    <3>1. i + 1 \in DOMAIN ps /\ Tail(ps)[i] = ps[i + 1]
      BY <1>1
    <3> QED BY <3>1 DEF Ids
  <2>3. Head(ps).id \in Ids(ps)
    BY <1>1 DEF Ids
  <2>4. ASSUME NEW x \in Ids(ps) PROVE x \in {Head(ps).id} \cup Ids(Tail(ps))
    <3>1. PICK i \in DOMAIN ps : x = ps[i].id
      BY Zenon DEF Ids
    <3> QED BY <1>1, <2>1, <3>1
  <2>5. ASSUME NEW x \in Ids(Tail(ps)) PROVE x \in Ids(ps)
    BY Zenon, <2>2 DEF Ids
  <2> QED BY <2>3, <2>4, <2>5
<1> QED BY <1>1, <1>2, <1>3, <1>4, <1>5

\* The cursor moves on from the first of what is left: with it goes what is behind
\* it when it ends the block.
Gone == IF Head(left).last THEN Ids(left) ELSE {Head(left).id}

LEMMA Advances ==
    ASSUME RxTypes, RingInv, rc.at = "packets", left # <<>>, Advance
    PROVE  /\ left' \in Seq(Packets) /\ Ids(left) = Gone \cup Ids(left')
           /\ Before(Gone, Ids(left')) /\ Sorted(left') /\ Marked(left', unreached)
           /\ Head(left).id \in Gone /\ Head(left).id \notin unreached
           /\ Gone \ {Head(left).id} \subseteq unreached /\ Head(left).id \in Nat
<1>1. left \in Seq(Packets) /\ Sorted(left) /\ Marked(left, unreached)
  BY LeftSorted DEF RxTypes, RingTypes
<1>2. /\ Len(left) \in Nat /\ Len(left) >= 1 /\ DOMAIN left = 1 .. Len(left)
      /\ Head(left) = left[1] /\ DOMAIN Tail(left) = 1 .. Len(left) - 1
      /\ \A i \in 1 .. Len(left) - 1 : Tail(left)[i] = left[i + 1]
  BY <1>1
<1>3. /\ Tail(left) \in Seq(Packets) /\ Head(left).id \in Nat
      /\ Ids(left) = {Head(left).id} \cup Ids(Tail(left))
      /\ Before({Head(left).id}, Ids(Tail(left))) /\ Sorted(Tail(left))
  BY Zenon, <1>1, HeadOff
<1>4. Head(left).id \notin unreached
  <2>1. 1 \in DOMAIN left /\ ~\E j \in 1 .. 1 - 1 : left[j].last
    BY <1>2
  <2>2. left[1].id \notin unreached
    BY Zenon, <1>1, <2>1 DEF Marked
  <2> QED BY <1>2, <2>2
<1>5. CASE Head(left).last
  <2>1. left' = <<>> /\ Gone = Ids(left)
    BY <1>5 DEF Advance, Gone
  <2>2. Ids(<<>>) = {} /\ Sorted(<<>>) /\ Marked(<<>>, unreached) /\ <<>> \in Seq(Packets)
    BY DEF Ids, Sorted, Marked
  <2>3. ASSUME NEW x \in Ids(left), x # Head(left).id PROVE x \in unreached
    <3>1. PICK i \in DOMAIN left : x = left[i].id
      BY Zenon DEF Ids
    <3>2. 1 \in 1 .. i - 1
      BY <1>2, <2>3, <3>1
    <3>3. left[1].last
      BY <1>2, <1>5
    <3> QED BY Zenon, <1>1, <3>1, <3>2, <3>3 DEF Marked
  <2>4. Before(Ids(left), {})
    BY DEF Before
  <2> QED BY Zenon, <1>3, <1>4, <2>1, <2>2, <2>3, <2>4
<1>6. CASE ~Head(left).last
  <2>1. left' = Tail(left) /\ Gone = {Head(left).id}
    BY <1>6 DEF Advance, Gone
  <2>2. ASSUME NEW i \in DOMAIN Tail(left)
        PROVE  /\ Tail(left)[i].id \in unreached <=> \E j \in 1 .. i - 1 : Tail(left)[j].last
               /\ Tail(left)[i].kind = "bad" => Tail(left)[i].last
    <3>1. i \in 1 .. Len(left) - 1 /\ i + 1 \in DOMAIN left /\ Tail(left)[i] = left[i + 1]
      BY <1>2
    <3>2. /\ left[i + 1].id \in unreached <=> \E k \in 1 .. (i + 1) - 1 : left[k].last
          /\ left[i + 1].kind = "bad" => left[i + 1].last
      BY Zenon, <1>1, <3>1 DEF Marked
    <3>3. ASSUME NEW k \in 1 .. (i + 1) - 1, left[k].last
          PROVE  \E j \in 1 .. i - 1 : Tail(left)[j].last
      <4>1. k # 1
        BY <1>2, <1>6, <3>3
      <4>2. k - 1 \in 1 .. i - 1 /\ Tail(left)[k - 1] = left[k]
        BY <1>2, <3>1, <4>1
      <4> QED BY Zenon, <3>3, <4>2
    <3>4. ASSUME NEW j \in 1 .. i - 1, Tail(left)[j].last
          PROVE  \E k \in 1 .. (i + 1) - 1 : left[k].last
      <4>1. j + 1 \in 1 .. (i + 1) - 1 /\ Tail(left)[j] = left[j + 1]
        BY <1>2, <3>1
      <4> QED BY Zenon, <3>4, <4>1
    <3> QED BY Zenon, <3>1, <3>2, <3>3, <3>4
  <2>3. Marked(Tail(left), unreached)
    BY Zenon, <2>2 DEF Marked
  <2> QED BY Zenon, <1>3, <1>4, <2>1, <2>3
<1> QED BY Zenon, <1>5, <1>6

LEMMA CountsHead ==
    ASSUME RxTypes, RingInv, rc.at = "packets", rc'.at = "packets", left # <<>>, Advance,
           UNCHANGED <<block, filling, arrived, unreached, draining, partly, got>>,
           counted' = counted \cup {Head(left).id}
    PROVE  RingInv'
<1> DEFINE h == Head(left).id
<1>1. /\ left' \in Seq(Packets) /\ Ids(left) = Gone \cup Ids(left')
      /\ Before(Gone, Ids(left')) /\ Sorted(left') /\ Marked(left', unreached)
      /\ h \in Gone /\ h \notin unreached /\ Gone \ {h} \subseteq unreached /\ h \in Nat
  BY Zenon, Advances
<1>2. Seen' = Seen \cup {h}
  BY DEF Seen
<1> HIDE DEF h
<1>3. /\ Before(Seen, {h}) /\ Seen' \cap unreached' = {}
      /\ \A b \in Blocks : Marked(Lives'[b], unreached')
      /\ Looked' => block'[draining'].status = "user"
      /\ rc'.at = "packets" => ~partly'
      /\ Between(Statuses', draining', filling')
      /\ Backlog(Lives', draining', Dealt', arrived')
  BY Zenon, <1>1, <1>2, Consumes
<1>4. ~(h < h)
  BY <1>1
<1>5. h \notin Range(got)
  BY Zenon, <1>3, <1>4 DEF Seen, Before
<1>6. Range(got') \cap counted' = {}
  BY <1>5 DEF RingInv, h
<1> QED BY Zenon, <1>3, <1>6 DEF RingInv

LEMMA HandsHead ==
    ASSUME RxTypes, RingInv, rc.at = "packets", rc'.at = "packets", left # <<>>, Advance,
           UNCHANGED <<block, filling, arrived, unreached, draining, partly, counted>>,
           got' = Append(got, Head(left).id)
    PROVE  RingInv'
<1> DEFINE h == Head(left).id
<1>2. /\ left' \in Seq(Packets) /\ Ids(left) = Gone \cup Ids(left')
      /\ Before(Gone, Ids(left')) /\ Sorted(left') /\ Marked(left', unreached)
      /\ h \in Gone /\ h \notin unreached /\ Gone \ {h} \subseteq unreached /\ h \in Nat
  BY Zenon, Advances
<1> HIDE DEF h
<1>3. /\ Len(got) \in Nat /\ DOMAIN got = 1 .. Len(got) /\ DOMAIN got' = 1 .. Len(got) + 1
      /\ got'[Len(got) + 1] = h /\ \A i \in 1 .. Len(got) : got'[i] = got[i]
  BY <1>2 DEF RxTypes, RingTypes, h
<1>4. Range(got') = Range(got) \cup {h}
  <2>1. ASSUME NEW i \in DOMAIN got' PROVE got'[i] \in Range(got) \cup {h}
    BY <1>3 DEF Range
  <2>2. \A i \in DOMAIN got : got[i] \in Range(got')
    BY <1>3 DEF Range
  <2>3. h \in Range(got')
    BY <1>3 DEF Range
  <2> QED BY <2>1, <2>2, <2>3 DEF Range
<1>5. Seen' = Seen \cup {h}
  BY <1>4 DEF Seen
<1>6. /\ Before(Seen, {h}) /\ Seen' \cap unreached' = {}
      /\ \A b \in Blocks : Marked(Lives'[b], unreached')
      /\ Looked' => block'[draining'].status = "user"
      /\ rc'.at = "packets" => ~partly'
      /\ Between(Statuses', draining', filling')
      /\ Backlog(Lives', draining', Dealt', arrived')
  BY Zenon, <1>2, <1>5, Consumes
<1>7. h \notin counted /\ \A x \in Range(got) : x < h
  <2>1. ~(h < h)
    BY <1>2
  <2>2. \A x \in Seen : x < h
    BY Zenon, <1>6 DEF Before
  <2> QED BY Zenon, <2>1, <2>2 DEF Seen
<1>8. Range(got') \cap counted' = {}
  <2>1. Range(got) \cap counted = {} /\ counted' = counted
    BY DEF RingInv
  <2> QED BY Zenon, <1>4, <1>7, <2>1
<1>9. ASSUME NEW i \in DOMAIN got', NEW j \in DOMAIN got', i < j PROVE got'[i] < got'[j]
  <2>1. i \in DOMAIN got /\ got'[i] = got[i] /\ got[i] \in Range(got)
    BY <1>3, <1>9 DEF Range
  <2>2. CASE j = Len(got) + 1
    BY <1>3, <1>7, <2>1, <2>2
  <2>3. CASE j # Len(got) + 1
    <3>1. j \in DOMAIN got /\ got'[j] = got[j]
      BY <1>3, <2>3
    <3> QED BY <1>9, <2>1, <3>1 DEF RingInv
  <2> QED BY <2>2, <2>3
<1> QED BY Zenon, <1>6, <1>8, <1>9 DEF RingInv

\* A bad frame ends its block.
LEMMA BadEnds == ASSUME RxTypes, RingInv, BadFrame PROVE Advance
<1>1. /\ rc.at = "packets" /\ left # <<>> /\ Head(left).kind = "bad" /\ left' = <<>>
  BY DEF BadFrame, AtPacket
<1>2. left \in Seq(Packets) /\ Marked(left, unreached)
  BY <1>1, LeftSorted DEF RxTypes, RingTypes
<1>3. 1 \in DOMAIN left /\ Head(left) = left[1]
  BY <1>1, <1>2
<1>4. left[1].kind = "bad" => left[1].last
  BY Zenon, <1>2, <1>3 DEF Marked
<1> QED BY <1>1, <1>3, <1>4 DEF Advance

LEMMA BadFrameRing == ASSUME RxTypes, RingInv, BadFrame PROVE RingInv'
<1>1. /\ UNCHANGED <<block, filling, arrived, unreached, draining, partly, got, rc>>
      /\ rc.at = "packets" /\ left # <<>> /\ counted' = counted \cup {Head(left).id}
  BY DEF BadFrame, AtPacket
<1> QED BY Zenon, <1>1, BadEnds, CountsHead

LEMMA RingTyped ==
    ASSUME RxTypes, [RxNext]_rxVars
    PROVE  RingTypes'
<1>1. CASE UNCHANGED <<ringVars, got, counted>>
  BY <1>1 DEF RxTypes, RingTypes, ringVars
<1>2. CASE \E hs \in Headers : Retire(hs)
  <2>1. PICK hs \in Headers : Retire(hs)
    BY <1>2
  <2> DEFINE ps == [i \in DOMAIN hs |->
                       [id |-> arrived + i, kind |-> hs[i].kind, last |-> hs[i].last]]
             new == {arrived + i : i \in {j \in DOMAIN hs : Hidden(hs, j)}}
  <2>2. /\ Len(hs) \in Nat /\ DOMAIN hs = 1 .. Len(hs)
        /\ \A i \in 1 .. Len(hs) : hs[i].kind \in RxKinds /\ hs[i].last \in BOOLEAN
    BY HeadersAre
  <2>3. arrived \in Nat
    BY DEF RxTypes, RingTypes
  <2>4. ps \in Seq(Packets) /\ new \subseteq Nat /\ arrived + Len(hs) \in Nat
    BY <2>2, <2>3 DEF Packets
  <2>5. /\ UNCHANGED <<draining, left, partly, got, counted>>
        /\ block' = [block EXCEPT ![filling] = [status |-> "user", pkts |-> ps]]
        /\ filling' = After(filling) /\ arrived' = arrived + Len(hs)
        /\ unreached' = unreached \cup new
    BY <2>1 DEF Retire, After, readVars
  <2> HIDE DEF ps, new
  <2>6. After(filling) \in Blocks
    BY AfterIs DEF RxTypes, RingTypes
  <2> QED BY <2>4, <2>5, <2>6 DEF RxTypes, RingTypes
<1>3. CASE TakeBlock
  <2>1. left' \in Seq(Packets) /\ partly' \in BOOLEAN
    <3>1. left' = (IF partly THEN left ELSE block[draining].pkts) /\ partly' \in BOOLEAN
      BY Zenon, <1>3 DEF TakeBlock
    <3>2. left \in Seq(Packets) /\ block[draining].pkts \in Seq(Packets)
      BY Zenon DEF RxTypes, RingTypes
    <3> QED BY <3>1, <3>2
  <2>2. UNCHANGED <<block, filling, arrived, unreached, draining, got, counted>>
    BY <1>3 DEF TakeBlock
  <2> QED BY Zenon, <2>1, <2>2 DEF RxTypes, RingTypes
<1>4. CASE ReleaseBlock
  <2>1. /\ UNCHANGED <<filling, arrived, unreached, left, partly, got, counted>>
        /\ block' = [block EXCEPT ![draining].status = "kernel"]
        /\ draining' = After(draining)
    BY <1>4 DEF ReleaseBlock, After
  <2>2. After(draining) \in Blocks
    BY AfterIs DEF RxTypes, RingTypes
  <2>3. block' \in [Blocks -> [status : {"kernel", "user"}, pkts : Seq(Packets)]]
    BY Zenon, <2>1 DEF RxTypes, RingTypes
  <2> QED BY Zenon, <2>1, <2>2, <2>3 DEF RxTypes, RingTypes
<1>5. CASE NoRoom \/ SpreadLater
  <2>1. UNCHANGED <<block, filling, arrived, unreached, draining, left, got, counted>> /\ partly' = TRUE
    BY <1>5 DEF NoRoom, SpreadLater
  <2> QED BY <2>1 DEF RxTypes, RingTypes
<1>6. CASE BadFrame
  <2>1. /\ UNCHANGED <<block, filling, arrived, unreached, draining, partly, got>>
        /\ left # <<>> /\ counted' = counted \cup {Head(left).id} /\ left' = <<>>
    BY <1>6 DEF BadFrame, AtPacket
  <2>2. left' \in Seq(Packets) /\ counted' \subseteq Nat
    <3>1. Head(left).id \in Nat /\ counted \subseteq Nat
      BY Zenon, <2>1, HeadIs DEF RxTypes, RingTypes
    <3>2. <<>> \in Seq(Packets)
      OBVIOUS
    <3> QED BY Zenon, <2>1, <3>1, <3>2
  <2> QED BY Zenon, <2>1, <2>2 DEF RxTypes, RingTypes
<1>7. CASE Oversize \/ BatchTooSmall \/ Copy \/ Spread
  <2>1. /\ UNCHANGED <<block, filling, arrived, unreached, draining, partly>>
        /\ left # <<>> /\ left' \in {<<>>, Tail(left)}
        /\ \/ UNCHANGED got /\ counted' = counted \cup {Head(left).id}
           \/ UNCHANGED counted /\ got' = Append(got, Head(left).id)
    BY <1>7 DEF Oversize, BatchTooSmall, Copy, Spread, Chained, AtPacket, Skip, Place, Advance
  <2>2. Head(left).id \in Nat /\ left' \in Seq(Packets)
    <3>1. Head(left).id \in Nat /\ Tail(left) \in Seq(Packets) /\ <<>> \in Seq(Packets)
      BY <2>1, HeadIs DEF RxTypes, RingTypes
    <3> QED BY Zenon, <2>1, <3>1
  <2>3. Append(got, Head(left).id) \in Seq(Nat)
    BY <2>2 DEF RxTypes, RingTypes
  <2>4. got' \in Seq(Nat) /\ counted' \subseteq Nat
    BY Zenon, <2>1, <2>2, <2>3 DEF RxTypes, RingTypes
  <2> QED BY Zenon, <2>1, <2>2, <2>4 DEF RxTypes, RingTypes
<1>8. CASE \/ \E max \in 1 .. MaxReceive : Receive(max)
           \/ ReadEnds \/ \E n \in 1 .. NFrames : Recycle(n)
  <2>1. UNCHANGED <<ringVars, got, counted>>
    BY Zenon, <1>8 DEF Receive, ReadEnds, Recycle
  <2> QED BY <1>1, <2>1
<1>9. CASE Polling \/ ClosingRx \/ UNCHANGED rxVars
  <2>1. UNCHANGED <<ringVars, readVars>>
    BY Zenon, <1>9 DEF Polling, Readying, Poll, PollReturns, PollEnters, PollInterrupted, PollWakes,
       ReadyLock, ReadyGone, ReadyPartly, ReadyLook, ReadyHeader, MovePoll,
       ClosingRx, CloseSwaps, CloseWakes, CloseLocks, CloseUnmaps, CloseForgets, CloseWakeFd,
       MoveClose, rxVars
  <2> QED BY <1>1, <2>1 DEF readVars
<1> QED BY Zenon, <1>2, <1>3, <1>4, <1>5, <1>6, <1>7, <1>8, <1>9 DEF RxNext, Reading

-----------------------------------------------------------------------------
(* The call: frames and the marks of slots. *)

CallInv ==
    /\ rxFree + rxHeld + (IF rc = NotReceiving THEN 0 ELSE rc.slots) = NFrames
    /\ rc # NotReceiving =>
          /\ Out <= rc.max /\ Out <= rc.slots
          /\ \A i \in Slots : cont[i] <=> i <= Out /\ rc.out[i].piece < rc.out[i].of

LEMMA MaxIs ==
    ASSUME NEW m \in Int
    PROVE  Max({0, m}) = IF m <= 0 THEN 0 ELSE m
<1> DEFINE x == IF m <= 0 THEN 0 ELSE m
<1>1. x \in {0, m} /\ \A y \in {0, m} : x >= y
  OBVIOUS
<1>2. \A z \in {0, m} : (\A y \in {0, m} : z >= y) => z = x
  OBVIOUS
<1> HIDE DEF x
<1>3. Max({0, m}) = x
  BY <1>1, <1>2 DEF Max
<1> QED BY <1>3 DEF x

LEMMA MinIs ==
    ASSUME NEW m \in Int, NEW n \in Int
    PROVE  Min({m, n}) = IF m <= n THEN m ELSE n
<1> DEFINE x == IF m <= n THEN m ELSE n
<1>1. x \in {m, n} /\ \A y \in {m, n} : x <= y
  OBVIOUS
<1>2. \A z \in {m, n} : (\A y \in {m, n} : z <= y) => z = x
  OBVIOUS
<1> HIDE DEF x
<1>3. Min({m, n}) = x
  BY <1>1, <1>2 DEF Min
<1> QED BY <1>3 DEF x

\* Slots taken so that there are n, when there are s and f frames are free.
LEMMA NewSlots ==
    ASSUME NEW n \in Nat, NEW s \in Nat, NEW f \in Nat, n <= s + f
    PROVE  /\ Max({0, n - s}) \in Nat /\ Max({0, n - s}) <= f /\ n <= s + Max({0, n - s})
<1>1. Max({0, n - s}) = IF n - s <= 0 THEN 0 ELSE n - s
  BY MaxIs
<1> QED BY <1>1

LEMMA PlaceSlots ==
    ASSUME NEW o \in Nat, NEW n \in Nat, NEW s \in Nat, NEW f \in Nat, o + n <= s + f
    PROVE  /\ Max({0, o + n - s}) \in Nat /\ Max({0, o + n - s}) <= f
           /\ o + n <= s + Max({0, o + n - s})
<1>1. Max({0, o + n - s}) = IF o + n - s <= 0 THEN 0 ELSE o + n - s
  BY MaxIs
<1> QED BY <1>1

LEMMA CallIsOne == \A c \in Calls : c # NotReceiving
BY DEF Calls, NotReceiving

LEMMA CallSlots ==
    ASSUME NEW c \in Calls, NEW s \in Nat
    PROVE  LET d == [c EXCEPT !.slots = s]
           IN  d \in Calls /\ d.at = c.at /\ d.max = c.max /\ d.out = c.out /\ d.slots = s
BY DEF Calls

LEMMA CallMoved ==
    ASSUME NEW c \in Calls, NEW a \in {"blocks", "packets"}
    PROVE  LET d == [c EXCEPT !.at = a]
           IN  d \in Calls /\ d.at = a /\ d.max = c.max /\ d.out = c.out /\ d.slots = c.slots
BY DEF Calls

LEMMA Joined ==
    ASSUME NEW a \in Seq(Parts), NEW b \in Seq(Parts)
    PROVE  /\ a \o b \in Seq(Parts) /\ Len(a \o b) = Len(a) + Len(b)
           /\ \A i \in 1 .. Len(a) : (a \o b)[i] = a[i]
           /\ \A i \in 1 .. Len(b) : (a \o b)[Len(a) + i] = b[i]
OBVIOUS

LEMMA Called ==
    ASSUME CallTypes, CallInv, rc # NotReceiving
    PROVE  /\ rc \in Calls /\ rc.out \in Seq(Parts) /\ Out \in Nat /\ rc.max \in Slots
           /\ rc.max \in Nat /\ rc.max <= MaxReceive /\ rc.slots \in Nat
           /\ Out <= rc.max /\ Out <= rc.slots /\ rxFree \in Nat /\ rxHeld \in Nat
           /\ rxFree + rxHeld + rc.slots = NFrames /\ MaxReceive \in Nat
BY AfpRxAssumption DEF CallTypes, CallInv, Calls, Slots, Out

LEMMA CallNumbers ==
    ASSUME CallTypes, CallInv, rc # NotReceiving
    PROVE  /\ Out \in Nat /\ rc.max \in Nat /\ rc.slots \in Nat /\ rxFree \in Nat
           /\ rxHeld \in Nat /\ Out <= rc.max /\ Out <= rc.slots /\ rc.max <= MaxReceive
           /\ rxFree + rxHeld + rc.slots = NFrames /\ MaxReceive \in Nat
BY Zenon, Called

LEMMA GivesBack ==
    ASSUME CallTypes, CallInv, rc # NotReceiving, GiveBack, UNCHANGED cont
    PROVE  CallTypes' /\ CallInv'
<1>1. /\ rc' = NotReceiving /\ rxHeld' = rxHeld + Out /\ rxFree' = rxFree + (rc.slots - Out)
  BY DEF GiveBack
<1>2. rxHeld' \in Nat /\ rxFree' \in Nat /\ rxFree' + rxHeld' + 0 = NFrames
  <2>1. /\ rxHeld + Out \in Nat /\ rxFree + (rc.slots - Out) \in Nat
        /\ (rxFree + (rc.slots - Out)) + (rxHeld + Out) + 0 = rxFree + rxHeld + rc.slots
    BY CallNumbers
  <2> QED BY Zenon, <1>1, <2>1, CallNumbers
<1> QED BY <1>1, <1>2 DEF CallTypes, CallInv

\* The call takes frames for further slots and delivers nothing.
LEMMA TakesSlots ==
    ASSUME CallTypes, CallInv, rc # NotReceiving, NEW n \in Nat, n <= Gives, TakeFrames(n),
           UNCHANGED <<cont, rxHeld>>
    PROVE  CallTypes' /\ CallInv' /\ rc'.at = rc.at
<1> DEFINE new == Max({0, n - rc.slots})
<1>1. /\ new \in Nat /\ new <= rxFree
  BY Zenon, CallNumbers, NewSlots DEF Gives
<1>2. rxFree' = rxFree - new /\ rc' = [rc EXCEPT !.slots = @ + new]
  BY DEF TakeFrames
<1> HIDE DEF new
<1>3. /\ rc' \in Calls /\ rc'.at = rc.at /\ rc'.max = rc.max /\ rc'.out = rc.out
      /\ rc'.slots = rc.slots + new /\ rc' # NotReceiving
  <2>1. rc \in Calls /\ rc.slots + new \in Nat
    BY <1>1, Called
  <2>2. rc' = [rc EXCEPT !.slots = rc.slots + new]
    BY <1>2
  <2> QED BY Zenon, <2>1, <2>2, CallSlots, CallIsOne
<1>4. Out' = Out
  BY <1>3 DEF Out
<1>5. rxFree' \in Nat /\ rxFree' + rxHeld' + rc'.slots = NFrames
  <2>1. /\ rxFree - new \in Nat
        /\ (rxFree - new) + rxHeld + (rc.slots + new) = rxFree + rxHeld + rc.slots
    BY <1>1, CallNumbers
  <2> QED BY Zenon, <1>2, <1>3, <2>1, CallNumbers
<1>6. CallTypes'
  BY Zenon, <1>3, <1>5 DEF CallTypes
<1>8. Out' <= rc'.max /\ Out' <= rc'.slots
  BY <1>1, <1>3, <1>4, Called
<1>7. \A i \in Slots : cont'[i] <=> i <= Out' /\ rc'.out[i].piece < rc'.out[i].of
  BY <1>3, <1>4 DEF CallInv
<1> QED BY <1>3, <1>5, <1>6, <1>7, <1>8 DEF CallInv

\* A packet is placed in the next n slots, marked as its pieces ask.
LEMMA Places ==
    ASSUME CallTypes, CallInv, rc # NotReceiving, NEW n \in Nat, n > 0, NEW marks,
           \A i \in 1 .. n : marks[i] \in BOOLEAN /\ (marks[i] <=> i < n), Place(n, marks),
           Out + n <= rc.max, Out + n <= Gives, Head(left).id \in Nat
    PROVE  CallTypes' /\ CallInv' /\ rc'.at = rc.at
<1> DEFINE new == Max({0, Out + n - rc.slots})
           more == Pieces(Head(left), n)
<1>1. new \in Nat /\ new <= rxFree /\ Out + n <= rc.slots + new
  <2>1. Out + n \in Nat /\ rc.slots \in Nat /\ rxFree \in Nat /\ Out + n <= rc.slots + rxFree
    BY CallNumbers DEF Gives
  <2> QED BY Zenon, <2>1, CallNumbers, PlaceSlots
<1>2. /\ rxFree' = rxFree - new /\ rc' = [rc EXCEPT !.slots = @ + new, !.out = @ \o more]
      /\ cont' = [i \in Slots |-> IF i \in Out + 1 .. Out + n THEN marks[i - Out] ELSE cont[i]]
      /\ rxHeld' = rxHeld
  BY DEF Place
<1>3. /\ more \in Seq(Parts) /\ Len(more) = n
      /\ \A i \in 1 .. n : more[i].piece = i /\ more[i].of = n
  BY DEF Pieces, Parts
<1> HIDE DEF new, more
<1>4. /\ rc' \in Calls /\ rc'.at = rc.at /\ rc'.max = rc.max /\ rc'.out = rc.out \o more
      /\ rc'.slots = rc.slots + new /\ rc' # NotReceiving
  <2> DEFINE k == rc.slots + new
             o == rc.out \o more
  <2>1. rc \in Calls /\ k \in Nat /\ o \in Seq(Parts)
    BY <1>1, <1>3, Called
  <2>2. rc' = [rc EXCEPT !.slots = k, !.out = o]
    BY <1>2
  <2> HIDE DEF k, o
  <2>3. rc' \in Calls /\ rc'.at = rc.at /\ rc'.max = rc.max /\ rc'.out = o /\ rc'.slots = k
    <3>1. rc' = [at |-> rc.at, max |-> rc.max, out |-> o, slots |-> k]
      BY Zenon, <2>1, <2>2 DEF Calls
    <3>2. rc.at \in {"blocks", "packets"} /\ rc.max \in Slots
      BY <2>1 DEF Calls
    <3> QED BY Zenon, <2>1, <3>1, <3>2 DEF Calls
  <2>4. rc' # NotReceiving
    BY Zenon, <2>3, CallIsOne
  <2> QED BY <2>3, <2>4 DEF k, o
<1>5. /\ Out' = Out + n
      /\ \A i \in 1 .. Out : rc'.out[i] = rc.out[i]
      /\ \A i \in 1 .. n : rc'.out[Out + i] = more[i]
  <2>1. rc.out \in Seq(Parts) /\ more \in Seq(Parts) /\ Len(more) = n /\ Out = Len(rc.out)
    BY Zenon, <1>3, Called DEF Out
  <2>2. /\ Len(rc.out \o more) = Out + n
        /\ \A i \in 1 .. Out : (rc.out \o more)[i] = rc.out[i]
        /\ \A i \in 1 .. n : (rc.out \o more)[Out + i] = more[i]
    BY Zenon, <2>1, Joined
  <2>3. Out' = Len(rc'.out)
    BY DEF Out
  <2> QED BY Zenon, <1>4, <2>2, <2>3
<1>6. ASSUME NEW i \in Slots
      PROVE  /\ i \in Out + 1 .. Out + n => cont'[i] = marks[i - Out]
             /\ i \notin Out + 1 .. Out + n => cont'[i] = cont[i]
  BY <1>2
<1>7. rxFree' \in Nat /\ rxFree' + rxHeld' + rc'.slots = NFrames
  <2>1. /\ rxFree - new \in Nat
        /\ (rxFree - new) + rxHeld + (rc.slots + new) = rxFree + rxHeld + rc.slots
    BY <1>1, CallNumbers
  <2> QED BY Zenon, <1>2, <1>4, <2>1, CallNumbers
<1>9. CallTypes'
  <2>1. ASSUME NEW i \in Slots PROVE cont'[i] \in BOOLEAN
    <3>1. CASE i \in Out + 1 .. Out + n
      <4>1. i - Out \in 1 .. n
        BY <3>1, Called
      <4> QED BY Zenon, <1>6, <3>1, <4>1
    <3>2. CASE i \notin Out + 1 .. Out + n
      BY Zenon, <1>6, <3>2 DEF CallTypes
    <3> QED BY <3>1, <3>2
  <2>2. cont' \in [Slots -> BOOLEAN]
    BY <1>2, <2>1
  <2>3. rxHeld' \in Nat
    BY <1>2, Called
  <2> QED BY Zenon, <1>4, <1>7, <2>2, <2>3 DEF CallTypes
<1>10. Out' <= rc'.max /\ Out' <= rc'.slots
  BY <1>1, <1>4, <1>5, Called
<1>8. ASSUME NEW i \in Slots
      PROVE  cont'[i] <=> i <= Out' /\ rc'.out[i].piece < rc'.out[i].of
  <2>1. i \in Int /\ 1 <= i
    BY DEF Slots
  <2>2. CASE i <= Out
    <3>1. i \notin Out + 1 .. Out + n /\ i \in 1 .. Out /\ i <= Out + n
      BY <2>1, <2>2, Called
    <3>2. cont'[i] = cont[i] /\ rc'.out[i] = rc.out[i] /\ i <= Out'
      BY Zenon, <1>5, <1>6, <3>1
    <3> QED BY Zenon, <2>2, <3>2 DEF CallInv
  <2>3. CASE Out < i /\ i <= Out + n
    <3>1. i - Out \in 1 .. n /\ Out + (i - Out) = i
      BY <2>1, <2>3, Called
    <3>2. i \in Out + 1 .. Out + n
      BY <2>1, <2>3, Called
    <3>3. cont'[i] <=> i - Out < n
      BY Zenon, <1>6, <3>1, <3>2
    <3>4. rc'.out[i].piece = i - Out /\ rc'.out[i].of = n
      BY <1>3, <1>5, <3>1
    <3> QED BY Zenon, <1>5, <2>3, <3>3, <3>4
  <2>4. CASE i > Out + n
    <3>1. i \notin Out + 1 .. Out + n /\ ~(i <= Out) /\ ~(i <= Out + n)
      BY <2>1, <2>4, Called
    <3> QED BY Zenon, <1>5, <1>6, <3>1 DEF CallInv
  <2> QED BY <2>1, <2>2, <2>3, <2>4, Called
<1> QED BY Zenon, <1>4, <1>7, <1>8, <1>9, <1>10 DEF CallInv

\* What the owner does to its call, action by action.
LEMMA ReceiveCalls ==
    ASSUME CallTypes, CallInv, NEW max \in 1 .. MaxReceive, Receive(max)
    PROVE  CallTypes' /\ CallInv'
<1>1. /\ rc = NotReceiving /\ rc' = [at |-> "blocks", max |-> max, out |-> <<>>, slots |-> 0]
      /\ cont' = [i \in Slots |-> FALSE] /\ rxFree' = rxFree /\ rxHeld' = rxHeld
  BY DEF Receive
<1>2. /\ rc'.max = max /\ rc'.out = <<>> /\ rc'.slots = 0 /\ rc' \in Calls
      /\ rc' # NotReceiving /\ max \in Nat
  BY <1>1, AfpRxAssumption DEF Calls, Slots, NotReceiving
<1>3. Out' = 0
  BY <1>2 DEF Out
<1>4. CallTypes'
  BY <1>1, <1>2 DEF CallTypes
<1>5. \A i \in Slots : cont'[i] = FALSE /\ ~(i <= 0)
  BY <1>1 DEF Slots
<1>6. rxFree' + rxHeld' + rc'.slots = NFrames
  BY <1>1, <1>2 DEF CallInv, CallTypes
<1> QED BY <1>2, <1>3, <1>4, <1>5, <1>6 DEF CallInv

LEMMA RecycleCalls ==
    ASSUME CallTypes, CallInv, NEW n, Recycle(n)
    PROVE  CallTypes' /\ CallInv'
<1>1. /\ rc = NotReceiving /\ rc' = rc /\ cont' = cont /\ rxHeld \in Nat /\ rxFree \in Nat
      /\ n \in 1 .. rxHeld /\ rxHeld' = rxHeld - n /\ rxFree' = rxFree + n
      /\ rxFree + rxHeld + 0 = NFrames
  BY DEF Recycle, CallTypes, CallInv
<1>2. rxHeld' \in Nat /\ rxFree' \in Nat /\ rxFree' + rxHeld' + 0 = NFrames
  BY <1>1
<1> QED BY <1>1, <1>2 DEF CallTypes, CallInv

LEMMA MovesCall ==
    ASSUME CallTypes, CallInv, rc # NotReceiving, UNCHANGED <<rxFree, rxHeld, cont>>,
           NEW at \in {"blocks", "packets"}, rc' = [rc EXCEPT !.at = at]
    PROVE  CallTypes' /\ CallInv' /\ rc'.at = at
<1>1. /\ rc' \in Calls /\ rc'.max = rc.max /\ rc'.out = rc.out /\ rc'.slots = rc.slots
      /\ rc' # NotReceiving /\ rc'.at = at
  BY Zenon, Called, CallMoved, CallIsOne
<1>2. Out' = Out
  BY <1>1 DEF Out
<1>3. CallTypes'
  BY <1>1 DEF CallTypes
<1> QED BY <1>1, <1>2, <1>3 DEF CallInv

LEMMA OversizeCalls ==
    ASSUME CallTypes, CallInv, Oversize
    PROVE  CallTypes' /\ CallInv' /\ rc'.at = rc.at
<1>1. /\ rc # NotReceiving /\ Gives > Out /\ TakeFrames(Out + 1)
      /\ UNCHANGED <<cont, rxHeld>>
  BY DEF Oversize, AtPacket, Skip, NotReceiving
<1>2. Out + 1 \in Nat /\ Out + 1 <= Gives
  BY <1>1, Called DEF Gives
<1> QED BY <1>1, <1>2, TakesSlots

LEMMA BatchTooSmallCalls ==
    ASSUME CallTypes, CallInv, BatchTooSmall
    PROVE  CallTypes' /\ CallInv' /\ rc'.at = rc.at
<1>1. /\ rc # NotReceiving /\ rc.max <= Gives /\ TakeFrames(rc.max)
      /\ UNCHANGED <<cont, rxHeld>>
  BY DEF BatchTooSmall, Chained, AtPacket, Marks, NotReceiving
<1> QED BY <1>1, Called, TakesSlots

LEMMA CopyCalls ==
    ASSUME RxTypes, CallInv, Copy
    PROVE  CallTypes' /\ CallInv' /\ rc'.at = rc.at
<1>1. /\ rc # NotReceiving /\ left # <<>> /\ Out < rc.max /\ Gives > Out
      /\ Place(1, <<cont[Out + 1]>>)
  BY DEF Copy, AtPacket, NotReceiving
<1>2. CallTypes /\ Head(left).id \in Nat
  BY <1>1, HeadIs DEF RxTypes, RingTypes
<1>3. Out + 1 <= rc.max /\ Out + 1 <= Gives /\ Out + 1 \in Slots /\ ~(Out + 1 <= Out)
  <2>1. /\ Out \in Nat /\ rc.max \in Nat /\ rc.slots \in Nat /\ rxFree \in Nat
        /\ rc.max <= MaxReceive /\ MaxReceive \in Nat
    BY Zenon, <1>1, <1>2, CallNumbers
  <2>2. Gives \in Nat
    BY <2>1 DEF Gives
  <2>3. Out + 1 \in Slots
    BY <1>1, <2>1 DEF Slots
  <2> QED BY <1>1, <2>1, <2>2, <2>3
<1> DEFINE c == cont[Out + 1]
<1>4. c \in BOOLEAN /\ ~c
  <2>1. cont[Out + 1] \in BOOLEAN
    BY <1>2, <1>3 DEF CallTypes
  <2>2. ~cont[Out + 1]
    BY <1>1, <1>3 DEF CallInv
  <2> QED BY <2>1, <2>2
<1>5. Place(1, <<c>>)
  BY <1>1
<1> HIDE DEF c
<1>6. ASSUME NEW i \in 1 .. 1 PROVE <<c>>[i] \in BOOLEAN /\ (<<c>>[i] <=> i < 1)
  <2>1. <<c>>[i] = c /\ ~(i < 1)
    OBVIOUS
  <2> QED BY Zenon, <1>4, <2>1
<1> QED BY <1>1, <1>2, <1>3, <1>5, <1>6, Places

LEMMA SpreadCalls ==
    ASSUME RxTypes, CallInv, Spread
    PROVE  CallTypes' /\ CallInv' /\ rc'.at = rc.at
<1> DEFINE marks == [i \in 1 .. BigNeeds |-> i < BigNeeds]
<1>1. /\ rc # NotReceiving /\ left # <<>> /\ Out + BigNeeds <= Min({rc.max, Gives})
      /\ Place(BigNeeds, marks)
  BY DEF Spread, Chained, AtPacket, NotReceiving
<1>2. CallTypes /\ Head(left).id \in Nat
  BY <1>1, HeadIs DEF RxTypes, RingTypes
<1>3. BigNeeds \in Nat /\ BigNeeds > 0 /\ Gives \in Int
  BY <1>1, <1>2, Called, AfpRxAssumption DEF Gives
<1>4. Out + BigNeeds <= rc.max /\ Out + BigNeeds <= Gives
  <2>1. Min({rc.max, Gives}) = IF rc.max <= Gives THEN rc.max ELSE Gives
    <3>1. rc.max \in Int
      BY <1>1, <1>2, CallNumbers
    <3> QED BY Zenon, <1>3, <3>1, MinIs
  <2>2. Out \in Int /\ rc.max \in Int
    BY <1>1, <1>2, Called
  <2> QED BY <1>1, <1>3, <2>1, <2>2
<1>5. \A i \in 1 .. BigNeeds : marks[i] \in BOOLEAN /\ (marks[i] <=> i < BigNeeds)
  <2>1. ASSUME NEW i \in 1 .. BigNeeds PROVE marks[i] = (i < BigNeeds)
    BY Zenon
  <2>2. \A i \in 1 .. BigNeeds : (i < BigNeeds) \in BOOLEAN
    OBVIOUS
  <2> QED BY Zenon, <2>1, <2>2
<1> HIDE DEF marks
<1> QED BY <1>1, <1>2, <1>3, <1>4, <1>5, Places

RxInv == RxTypes /\ RingInv /\ CallInv

LEMMA CallKept == ASSUME RxInv, [RxNext]_rxVars PROVE CallTypes' /\ CallInv'
<1>0. RxTypes /\ CallTypes /\ CallInv
  BY DEF RxInv, RxTypes
<1>1. CASE \E max \in 1 .. MaxReceive : Receive(max)
  BY <1>0, <1>1, ReceiveCalls
<1>2. CASE \E n \in 1 .. NFrames : Recycle(n)
  BY <1>0, <1>2, RecycleCalls
<1>3. CASE ReadEnds \/ NoRoom \/ SpreadLater
  <2>1. rc # NotReceiving /\ GiveBack /\ UNCHANGED cont
    BY <1>3 DEF ReadEnds, NoRoom, SpreadLater, Chained, AtPacket, Marks, NotReceiving
  <2> QED BY <1>0, <2>1, GivesBack
<1>4. CASE TakeBlock
  <2>1. /\ rc # NotReceiving /\ UNCHANGED <<rxFree, rxHeld, cont>>
        /\ rc' = [rc EXCEPT !.at = "packets"]
    BY <1>4 DEF TakeBlock, NotReceiving
  <2> QED BY <1>0, <2>1, MovesCall
<1>5. CASE ReleaseBlock
  <2>1. /\ rc # NotReceiving /\ UNCHANGED <<rxFree, rxHeld, cont>>
        /\ rc' = [rc EXCEPT !.at = "blocks"]
    BY <1>5 DEF ReleaseBlock, NotReceiving
  <2> QED BY <1>0, <2>1, MovesCall
<1>6. CASE Oversize \/ BatchTooSmall \/ Copy \/ Spread
  BY Zenon, <1>0, <1>6, OversizeCalls, BatchTooSmallCalls, CopyCalls, SpreadCalls
<1>7. CASE UNCHANGED <<rxFree, rxHeld, rc, cont>>
  <2>1. Out' = Out
    BY <1>7 DEF Out
  <2> QED BY <1>0, <1>7, <2>1 DEF CallTypes, CallInv
<1>8. CASE \/ \E hs \in Headers : Retire(hs)
           \/ BadFrame \/ Polling \/ ClosingRx \/ UNCHANGED rxVars
  <2>1. UNCHANGED <<rxFree, rxHeld, rc, cont>>
    BY Zenon, <1>8 DEF Retire, BadFrame, Polling, Readying, Poll, PollReturns, PollEnters,
       PollInterrupted, PollWakes, ReadyLock, ReadyGone, ReadyPartly, ReadyLook, ReadyHeader,
       MovePoll, ClosingRx, CloseSwaps, CloseWakes, CloseLocks, CloseUnmaps, CloseForgets,
       CloseWakeFd, MoveClose, readVars, rxVars
  <2> QED BY <1>7, <2>1
<1> QED BY Zenon, <1>1, <1>2, <1>3, <1>4, <1>5, <1>6, <1>8 DEF RxNext, Reading

LEMMA RingKept == ASSUME RxInv, [RxNext]_rxVars PROVE RingInv'
<1>0. RxTypes /\ CallTypes /\ CallInv /\ RingInv
  BY DEF RxInv, RxTypes
<1>1. CASE \E hs \in Headers : Retire(hs)
  BY <1>0, <1>1, RetireRing
<1>2. CASE TakeBlock \/ ReleaseBlock \/ BadFrame
  BY Zenon, <1>0, <1>2, TakeBlockRing, ReleaseRing, BadFrameRing
<1>3. CASE NoRoom \/ SpreadLater
  <2>1. /\ rc.at = "packets" /\ partly' /\ rc' = NotReceiving
        /\ UNCHANGED <<block, filling, arrived, unreached, draining, left, got, counted>>
    BY <1>3 DEF NoRoom, SpreadLater, Chained, AtPacket, GiveBack
  <2> QED BY <1>0, <2>1, StopsPartly
<1>4. CASE Oversize \/ BatchTooSmall
  <2>1. /\ rc.at = "packets" /\ left # <<>> /\ Advance
        /\ UNCHANGED <<block, filling, arrived, unreached, draining, partly, got>>
        /\ counted' = counted \cup {Head(left).id}
    BY <1>4 DEF Oversize, BatchTooSmall, Chained, AtPacket, Skip
  <2>2. rc'.at = rc.at
    BY <1>0, <1>4, OversizeCalls, BatchTooSmallCalls
  <2> QED BY <1>0, <2>1, <2>2, CountsHead
<1>5. CASE Copy \/ Spread
  <2>1. /\ rc.at = "packets" /\ left # <<>> /\ Advance
        /\ UNCHANGED <<block, filling, arrived, unreached, draining, partly, counted>>
        /\ got' = Append(got, Head(left).id)
    BY <1>5 DEF Copy, Spread, Chained, AtPacket, Place
  <2>2. rc'.at = rc.at
    BY <1>0, <1>5, CopyCalls, SpreadCalls
  <2> QED BY <1>0, <2>1, <2>2, HandsHead
<1>6. CASE \/ \E max \in 1 .. MaxReceive : Receive(max)
           \/ ReadEnds \/ \E n \in 1 .. NFrames : Recycle(n)
  <2>1. UNCHANGED ringVars /\ UNCHANGED <<got, counted>>
    BY Zenon, <1>6 DEF Receive, ReadEnds, Recycle
  <2>2. /\ NotReceiving.at = "idle"
        /\ \A m : [at |-> "blocks", max |-> m, out |-> <<>>, slots |-> 0].at = "blocks"
    BY DEF NotReceiving
  <2>3. rc = NotReceiving \/ rc.at = "blocks"
    BY Zenon, <1>6 DEF Receive, ReadEnds, Recycle
  <2>4. rc' = NotReceiving \/ rc'.at = "blocks"
    BY Zenon, <1>6, <2>2 DEF Receive, ReadEnds, Recycle, GiveBack
  <2>5. rc.at # "packets" /\ rc'.at # "packets"
    BY Zenon, <2>2, <2>3, <2>4
  <2> QED BY <1>0, <2>1, <2>5, CursorSame
<1>7. CASE Polling \/ ClosingRx \/ UNCHANGED rxVars
  <2>1. UNCHANGED <<ringVars, readVars>>
    BY Zenon, <1>7 DEF Polling, Readying, Poll, PollReturns, PollEnters, PollInterrupted, PollWakes,
       ReadyLock, ReadyGone, ReadyPartly, ReadyLook, ReadyHeader, MovePoll,
       ClosingRx, CloseSwaps, CloseWakes, CloseLocks, CloseUnmaps, CloseForgets, CloseWakeFd,
       MoveClose, rxVars
  <2>2. Looked' = Looked
    BY <2>1 DEF Looked, ringVars, readVars
  <2>3. Lives' = Lives
    BY <2>1, <2>2 DEF Lives, Live, ringVars
  <2>4. /\ UNCHANGED <<block, filling, arrived, unreached, draining, got, counted>>
        /\ Looked' => block[draining].status = "user"
        /\ rc'.at = "packets" => ~partly'
    BY <1>0, <2>1, <2>2 DEF RingInv, ringVars, readVars
  <2> QED BY <1>0, <2>3, <2>4, RingSame
<1> QED BY Zenon, <1>1, <1>2, <1>3, <1>4, <1>5, <1>6, <1>7 DEF RxNext, Reading

LEMMA RxInvInit == RxInit => RxInv
<1> SUFFICES ASSUME RxInit PROVE RxInv
  OBVIOUS
<1>1. /\ block = [b \in Blocks |-> [status |-> "kernel", pkts |-> <<>>]]
      /\ filling = 0 /\ arrived = 0 /\ draining = 0 /\ left = <<>> /\ partly = FALSE
      /\ rxFree = NFrames /\ rxHeld = 0 /\ rc = NotReceiving /\ rc.at = "idle"
      /\ cont = [i \in Slots |-> FALSE] /\ got = <<>> /\ counted = {} /\ unreached = {}
  BY DEF RxInit, NotReceiving
<1>2. RxTypes
  <2>1. block \in [Blocks -> [status : {"kernel", "user"}, pkts : Seq(Packets)]]
    <3>1. <<>> \in Seq(Packets)
      OBVIOUS
    <3> QED BY Zenon, <1>1, <3>1
  <2>2. 0 \in Blocks
    BY Numbers
  <2>3. RingTypes
    <3>1. <<>> \in Seq(Packets) /\ <<>> \in Seq(Nat) /\ 0 \in Nat
      OBVIOUS
    <3> QED BY Zenon, <1>1, <2>1, <2>2, <3>1 DEF RingTypes
  <2>4. cont \in [Slots -> BOOLEAN]
    BY <1>1
  <2>5. CallTypes
    BY <1>1, <2>4, AfpRxAssumption DEF CallTypes
  <2> QED BY <2>3, <2>5 DEF RxTypes
<1>3. CallInv
  BY <1>1, AfpRxAssumption DEF CallInv
<1>4. ~Looked /\ Range(got) = {} /\ Seen = {} /\ Dealt = {}
  BY <1>1 DEF Looked, Range, Dealt, Seen
<1>5. Lives = [b \in Blocks |-> <<>>]
  BY <1>1 DEF Lives, Live
<1>6. Backlog(Lives, draining, Dealt, arrived)
  <2>1. \A b \in Blocks : Lives[b] = <<>> /\ Ids(Lives[b]) = {} /\ Sorted(Lives[b])
    BY <1>5 DEF Ids, Sorted
  <2>2. Lives \in [Blocks -> Seq(Packets)]
    BY <1>5
  <2>3. ASSUME NEW x PROVE x \in 1 .. 0 <=> x \in {} \/ Has(Lives, x)
    BY <2>1 DEF Has
  <2> QED BY <1>1, <1>4, <2>1, <2>2, <2>3 DEF Backlog, Before
<1>7. Between(Statuses, draining, filling)
  <2>1. \A b \in Blocks : Statuses[b] # "user" /\ ~(Age(b, 0) < Age(0, 0))
    BY <1>1, Numbers DEF Statuses, Age
  <2> QED BY <1>1, <2>1 DEF Between
<1>8. \A b \in Blocks : Marked(Lives[b], unreached)
  BY <1>5 DEF Marked
<1> QED BY <1>1, <1>2, <1>3, <1>4, <1>6, <1>7, <1>8 DEF RxInv, RingInv

\* What waits in the ring, as the run states it, is what waits in its blocks.
LEMMA WaitingIs ==
    ASSUME RxTypes, RingInv
    PROVE  \A x : x \in Waiting <=> Has(Lives, x)
<1> DEFINE others == {d \in Blocks : block[d].status = "user" /\ ~(Looked /\ d = draining)}
<1>1. Waiting = (IF Looked THEN Ids(left) ELSE {}) \cup UNION {Ids(block[b].pkts) : b \in others}
  BY DEF Waiting, Looked, Ids
<1>2. draining \in Blocks /\ (Looked => block[draining].status = "user")
  BY DEF RxTypes, RingTypes, RingInv
<1>3. Looked => Ids(Lives[draining]) = Ids(left)
  BY <1>2 DEF Lives, Live
<1>4. \A b \in others : Ids(Lives[b]) = Ids(block[b].pkts)
  BY DEF Lives, Live
<1>5. ASSUME NEW b \in Blocks, b \notin others, ~(Looked /\ b = draining)
      PROVE  Ids(Lives[b]) = {}
  BY <1>5 DEF Lives, Live, Ids
<1>6. others \subseteq Blocks
  OBVIOUS
<1> HIDE DEF others
<1>7. ASSUME NEW x \in Waiting PROVE Has(Lives, x)
  BY Zenon, <1>1, <1>2, <1>3, <1>4, <1>6 DEF Has
<1>8. ASSUME NEW b \in Blocks, NEW x \in Ids(Lives[b]) PROVE x \in Waiting
  BY Zenon, <1>1, <1>3, <1>4, <1>5
<1> QED BY Zenon, <1>7, <1>8 DEF Has

LEMMA RxInvAccounts == ASSUME RxInv PROVE ReceiveAccounts
<1>0. RxTypes /\ RingInv /\ CallInv
  BY DEF RxInv
<1>1. Backlog(Lives, draining, Dealt, arrived)
  BY <1>0 DEF RingInv
<1>2. ASSUME NEW x PROVE x \in 1 .. arrived <=> x \in Dealt \/ x \in Waiting
  BY Zenon, <1>0, <1>1, WaitingIs DEF Backlog
<1>3. ASSUME NEW x \in Waiting, x \in Dealt PROVE FALSE
  <2>1. PICK b \in Blocks : x \in Ids(Lives[b])
    BY Zenon, <1>0, WaitingIs DEF Has
  <2>2. Lives[b] \in Seq(Packets) /\ Before(Dealt, Ids(Lives[b]))
    BY Zenon, <1>1 DEF Backlog
  <2>3. x < x /\ x \in Nat
    BY Zenon, <1>3, <2>1, <2>2, IdsTyped DEF Before
  <2> QED BY <2>3
<1>4. ASSUME NEW i \in 1 .. Len(got) - 1 PROVE got[i] < got[i + 1]
  <2>1. i \in DOMAIN got /\ i + 1 \in DOMAIN got /\ i < i + 1
    BY <1>0 DEF RxTypes, RingTypes
  <2> QED BY <1>0, <2>1 DEF RingInv
<1>5. Waiting \cup Range(got) \cup counted \cup unreached = 1 .. arrived
  <2>1. ASSUME NEW x \in unreached PROVE x \in Dealt \/ x \in Waiting
    BY Zenon, <1>0, WaitingIs DEF Dealt
  <2>2. ASSUME NEW x
        PROVE  x \in 1 .. arrived <=> x \in Waiting \cup Range(got) \cup counted \cup unreached
    <3>1. x \in Dealt <=> x \in Range(got) \cup counted \/ (x \in unreached /\ ~Has(Lives, x))
      BY Zenon DEF Dealt, Seen
    <3> QED BY Zenon, <1>2, <2>1, <3>1
  <2> QED BY Zenon, <2>2
<1>6. /\ (Range(got) \cup counted) \cap (Waiting \cup unreached) = {}
      /\ Range(got) \cap counted = {}
  BY <1>0, <1>3 DEF Dealt, Seen, RingInv
<1> QED BY <1>0, <1>4, <1>5, <1>6 DEF CallInv, ReceiveAccounts

LEMMA RxInvContinues == ASSUME RxInv PROVE ContinuesIfWhole
<1> SUFFICES ASSUME rc # NotReceiving, NEW i \in 1 .. Out
             PROVE  cont[i] <=> rc.out[i].piece < rc.out[i].of
  BY DEF ContinuesIfWhole
<1>1. CallInv /\ CallTypes
  BY DEF RxInv, RxTypes
<1>2. i \in Slots /\ i <= Out
  BY <1>1, Called DEF Slots
<1> QED BY <1>1, <1>2 DEF CallInv

LEMMA RxInvKept == RxInv /\ [RxNext]_rxVars => RxInv'
<1> SUFFICES ASSUME RxInv, [RxNext]_rxVars PROVE RxInv'
  OBVIOUS
<1>1. RingTypes'
  BY RingTyped DEF RxInv
<1> QED BY <1>1, CallKept, RingKept DEF RxInv, RxTypes

\* Whatever the sizes of the ring, the pool and the batches, and whatever the
\* headers of a block say, Receive passes over only the packets they hide, repeats
\* none, hands the others over in order or counts them, and every frame is in the
\* pool, with the caller or in a slot of the call (afpacket/rxqueue.go, Receive;
\* tpacket.go, read and advance).
THEOREM NoPacketLost == RxSpec => []ReceiveAccounts
<1>1. RxInv => ReceiveAccounts
  BY RxInvAccounts
<1> QED BY <1>1, RxInvInit, RxInvKept, PTL DEF RxSpec

\* A slot is marked as continued exactly when the packet's next piece follows it,
\* for packets of any number of pieces and batches of any size (tpacket.go, spread).
THEOREM MarksMeanMore == RxSpec => []ContinuesIfWhole
<1>1. RxInv => ContinuesIfWhole
  BY RxInvContinues
<1> QED BY <1>1, RxInvInit, RxInvKept, PTL DEF RxSpec

=============================================================================
