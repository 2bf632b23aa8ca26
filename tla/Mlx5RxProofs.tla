---------------------------- MODULE Mlx5RxProofs ----------------------------
(***************************************************************************)
(* Proofs about the mlx5 receive queue (Mlx5Rx): for a ring, a completion  *)
(* queue and a pool of any size, any width of the NIC's index and any      *)
(* number of faults.  The argument: as long as the loop goes on, the       *)
(* completions that are still to be read name buffers from the last one    *)
(* reported on, in order, and none beyond those the NIC has filled.  Within *)
(* such a window the low bits of an index tell the buffers apart, so the   *)
(* one that matches is the oldest outstanding; and a slot is refilled only *)
(* once its buffer was reported on.                                        *)
(***************************************************************************)
EXTENDS Mlx5Rx, TLAPS, FiniteSetTheorems

Completion ==
    [opcode : {"respsend", "resperr", "other"}, format : {"nodata", "other"},
     oversize : BOOLEAN, pos : Nat, frame : Frames \cup {NoFrame}]

RxTypes ==
    /\ pool \in Seq(Frames) /\ failed \in Seq(Frames)
    /\ app \subseteq Frames /\ taken \subseteq Frames
    /\ pi \in Nat /\ ci \in Nat /\ nicCi \in Nat
    /\ posted \in [0 .. Entries - 1 -> Frames \cup {NoFrame}]
    /\ cq \in Seq(Completion)

\* Where the indices are, and the pollers against close.
Indices ==
    /\ ci <= nicCi /\ nicCi <= pi /\ pi <= ci + Entries
    /\ doorbell = pi % W
    /\ pc = "look" => closing \in {"no", "lock"}

\* A completion that Receive takes for a buffer's.
Reports(c) == c.opcode # "other" /\ c.format = "nodata"

\* The completions to be read: from the last buffer reported on, in order, up
\* to the last one filled, each with the frame its slot still has.
CqInv ==
    /\ \A k \in 1 .. Len(cq) : Reports(cq[k]) => ci <= cq[k].pos + 1 /\ cq[k].pos < nicCi
    /\ \A j, k \in 1 .. Len(cq) :
          j <= k /\ Reports(cq[j]) /\ Reports(cq[k]) => cq[j].pos <= cq[k].pos
    /\ \A k \in 1 .. Len(cq) :
          Reports(cq[k]) /\ ci <= cq[k].pos => cq[k].frame = posted[cq[k].pos % Entries]

\* The frames outstanding, by the index of their buffer.
Buffers == [i \in ci .. pi - 1 |-> posted[i % Entries]]

Vals(g) == {g[i] : i \in DOMAIN g}
Distinct(g) == \A i, j \in DOMAIN g : g[i] = g[j] => i = j

\* Each frame is in one place only: once in a list p or f, or under one index of
\* b, or in one of the sets a and t.
Owned(p, f, b, a, t) ==
    /\ Distinct(p) /\ Distinct(f) /\ Distinct(b)
    /\ Vals(p) \cap Vals(f) = {} /\ Vals(p) \cap Vals(b) = {} /\ Vals(f) \cap Vals(b) = {}
    /\ Vals(p) \cap (a \cup t) = {} /\ Vals(f) \cap (a \cup t) = {} /\ Vals(b) \cap (a \cup t) = {}
    /\ a \cap t = {}
    /\ Vals(p) \cup Vals(f) \cup Vals(b) \cup a \cup t = Frames

Owners == Owned(pool, failed, Buffers, app, taken)

\* As many places as frames.
Count ==
    Cardinality(app) + Cardinality(taken) + Len(pool) + Len(failed) + (pi - ci)
        = Cardinality(Frames)

RxInv == RxTypes /\ Indices /\ CqInv /\ Owners /\ Count

-----------------------------------------------------------------------------
(* Frames that move from one place to another. *)

\* The buffers c are the buffers b, up to index hi, and then the frames of p that
\* come after start.
Fills(c, b, p, start, lo, hi) ==
    /\ DOMAIN b = lo .. hi - 1
    /\ DOMAIN c = lo .. hi + (Len(p) - start) - 1
    /\ \A i \in lo .. hi - 1 : c[i] = b[i]
    /\ \A i \in hi .. hi + (Len(p) - start) - 1 : c[i] = p[start + 1 + (i - hi)]

\* Off the end of the free list, into new buffers.
LEMMA OwnedFill ==
    ASSUME NEW S, NEW p \in Seq(S), NEW f, NEW b, NEW a, NEW t, Owned(p, f, b, a, t),
           NEW start \in 0 .. Len(p), NEW lo \in Int, NEW hi \in Int, lo <= hi,
           NEW c, Fills(c, b, p, start, lo, hi)
    PROVE  Owned(SubSeq(p, 1, start), f, c, a, t)
<1> DEFINE q == SubSeq(p, 1, start)
<1>1. DOMAIN q = 1 .. start /\ \A i \in 1 .. start : q[i] = p[i]
  OBVIOUS
<1>2. /\ DOMAIN p = 1 .. Len(p) /\ Len(p) \in Nat /\ Len(p) \in Int /\ start \in Int
      /\ hi + (Len(p) - start) - 1 \in Int
  OBVIOUS
<1> HIDE DEF q
<1>3. Distinct(p) /\ Distinct(b) /\ Vals(p) \cap Vals(b) = {}
  BY DEF Owned
<1>4. Distinct(q)
  <2>1. DOMAIN q \subseteq DOMAIN p
    BY <1>1, <1>2
  <2> QED BY Zenon, <1>1, <1>3, <2>1 DEF Distinct
<1> DEFINE at(i) == start + 1 + (i - hi)
<1>10. DOMAIN b = lo .. hi - 1 /\ DOMAIN c = lo .. hi + (Len(p) - start) - 1
  BY DEF Fills
<1>5. /\ \A i \in DOMAIN c : i < hi => i \in DOMAIN b /\ c[i] = b[i]
      /\ \A i \in DOMAIN c : ~(i < hi) => at(i) \in DOMAIN p \ DOMAIN q /\ c[i] = p[at(i)]
  <2>1. \A i \in DOMAIN c : i < hi => i \in DOMAIN b
    BY <1>2, <1>10
  <2>2. \A i \in DOMAIN c : ~(i < hi) => i \in hi .. hi + (Len(p) - start) - 1
    BY <1>2, <1>10
  <2>3. \A i \in DOMAIN c : ~(i < hi) => at(i) \in DOMAIN p \ DOMAIN q
    BY <1>1, <1>2, <1>10
  <2> QED BY Zenon, <2>1, <2>2, <2>3 DEF Fills
<1>9. \A i, j \in DOMAIN c : at(i) = at(j) => i = j
  BY <1>2, <1>10
<1> HIDE DEF at
<1>6. Distinct(c)
  <2> SUFFICES ASSUME NEW i \in DOMAIN c, NEW j \in DOMAIN c, c[i] = c[j] PROVE i = j
    BY DEF Distinct
  <2>1. CASE i < hi /\ j < hi
    BY Zenon, <1>3, <1>5, <2>1 DEF Distinct
  <2>2. CASE ~(i < hi) /\ ~(j < hi)
    <3>1. at(i) \in DOMAIN p /\ at(j) \in DOMAIN p /\ p[at(i)] = p[at(j)]
      BY Zenon, <1>5, <2>2
    <3> QED BY Zenon, <1>3, <1>9, <3>1 DEF Distinct
  <2>3. ASSUME NEW k \in DOMAIN c, NEW l \in DOMAIN c, k < hi, ~(l < hi), c[k] = c[l] PROVE FALSE
    <3>1. c[k] \in Vals(b)
      BY Zenon, <1>5, <2>3 DEF Vals
    <3>2. c[l] \in Vals(p)
      BY Zenon, <1>5, <2>3 DEF Vals
    <3> QED BY <1>3, <2>3, <3>1, <3>2
  <2> QED BY Zenon, <2>1, <2>2, <2>3
<1>7. Vals(c) = Vals(b) \cup (Vals(p) \ Vals(q))
  <2>1. Vals(c) \subseteq Vals(b) \cup (Vals(p) \ Vals(q))
    <3> SUFFICES ASSUME NEW i \in DOMAIN c
                 PROVE  c[i] \in Vals(b) \/ (c[i] \in Vals(p) /\ c[i] \notin Vals(q))
      BY DEF Vals
    <3>1. CASE i \in DOMAIN b /\ c[i] = b[i]
      BY Zenon, <3>1 DEF Vals
    <3>2. ASSUME NEW m \in DOMAIN p \ DOMAIN q PROVE p[m] \in Vals(p) /\ p[m] \notin Vals(q)
      BY <1>1, <1>2, <1>3, <3>2 DEF Vals, Distinct
    <3> QED BY Zenon, <1>5, <3>1, <3>2
  <2>2. Vals(b) \subseteq Vals(c)
    <3>1. \A i \in DOMAIN b : i \in DOMAIN c
      BY <1>2, <1>10
    <3> QED BY Zenon, <3>1 DEF Fills, Vals
  <2>3. ASSUME NEW k \in DOMAIN p, p[k] \notin Vals(q) PROVE p[k] \in Vals(c)
    <3>1. k \in start + 1 .. Len(p)
      BY <1>1, <1>2, <2>3 DEF Vals
    <3>2. hi + (k - start - 1) \in DOMAIN c /\ c[hi + (k - start - 1)] = p[k]
      <4> DEFINE i == hi + (k - start - 1)
      <4>1. i \in hi .. hi + (Len(p) - start) - 1 /\ start + 1 + (i - hi) = k
        BY <1>2, <3>1
      <4> HIDE DEF i
      <4>2. i \in DOMAIN c
        BY <1>2, <1>10, <4>1
      <4>3. c[i] = p[k]
        BY Zenon, <4>1 DEF Fills
      <4> QED BY Zenon, <4>2, <4>3 DEF i
    <3> QED BY <3>2 DEF Vals
  <2>4. Vals(p) \ Vals(q) \subseteq Vals(c)
    <3> SUFFICES ASSUME NEW x \in Vals(p), x \notin Vals(q) PROVE x \in Vals(c)
      OBVIOUS
    <3>1. PICK k \in DOMAIN p : x = p[k]
      BY DEF Vals
    <3> QED BY <2>3, <3>1
  <2> QED BY <2>1, <2>2, <2>4
<1>8. Vals(q) \subseteq Vals(p)
  BY <1>1, <1>2 DEF Vals
<1> QED BY <1>3, <1>4, <1>6, <1>7, <1>8 DEF Owned, q

\* Onto the end of the free list, from the set of one holder.
LEMMA OwnedRecycle ==
    ASSUME NEW S, NEW p \in Seq(S), NEW f, NEW b, NEW a, NEW t, Owned(p, f, b, a, t), NEW x \in a
    PROVE  Owned(Append(p, x), f, b, a \ {x}, t)
<1> DEFINE q == Append(p, x)
<1>1. /\ DOMAIN q = 1 .. Len(p) + 1 /\ DOMAIN p = 1 .. Len(p) /\ Len(p) \in Nat
      /\ q[Len(p) + 1] = x /\ \A i \in 1 .. Len(p) : q[i] = p[i]
  OBVIOUS
<1> HIDE DEF q
<1>2. Vals(q) = Vals(p) \cup {x}
  BY <1>1 DEF Vals
<1>3. Distinct(p) /\ x \notin Vals(p)
  BY DEF Owned
<1>4. Distinct(q)
  BY <1>1, <1>3 DEF Distinct, Vals
<1> QED BY <1>2, <1>4 DEF Owned, q

\* The buffers c are the buffers b without the first.
Drops(c, b, lo, hi) ==
    /\ DOMAIN b = lo .. hi - 1 /\ DOMAIN c = lo + 1 .. hi - 1
    /\ \A i \in lo + 1 .. hi - 1 : c[i] = b[i]

\* The oldest buffer's frame leaves the ring.
LEMMA OldestLeaves ==
    ASSUME NEW b, NEW lo \in Int, NEW hi \in Int, lo < hi, Distinct(b), NEW c, Drops(c, b, lo, hi)
    PROVE  Distinct(c) /\ Vals(b) = Vals(c) \cup {b[lo]} /\ b[lo] \notin Vals(c)
<1>1. \A i \in lo .. hi - 1 : i = lo \/ i \in lo + 1 .. hi - 1
  OBVIOUS
<1> QED BY <1>1 DEF Distinct, Vals, Drops

LEMMA OwnedTake ==
    ASSUME NEW p, NEW f, NEW b, NEW a, NEW t, Owned(p, f, b, a, t),
           NEW c, NEW x, Distinct(c), Vals(b) = Vals(c) \cup {x}, x \notin Vals(c)
    PROVE  Owned(p, f, c, a, t \cup {x}) /\ x \notin t
BY DEF Owned

LEMMA OwnedFail ==
    ASSUME NEW S, NEW p, NEW f \in Seq(S), NEW b, NEW a, NEW t, Owned(p, f, b, a, t),
           NEW c, NEW x, Distinct(c), Vals(b) = Vals(c) \cup {x}, x \notin Vals(c)
    PROVE  Owned(p, Append(f, x), c, a, t)
<1> DEFINE g == Append(f, x)
<1>1. /\ DOMAIN g = 1 .. Len(f) + 1 /\ DOMAIN f = 1 .. Len(f) /\ Len(f) \in Nat
      /\ g[Len(f) + 1] = x /\ \A i \in 1 .. Len(f) : g[i] = f[i]
  OBVIOUS
<1> HIDE DEF g
<1>2. Vals(g) = Vals(f) \cup {x}
  BY <1>1 DEF Vals
<1>3. Distinct(f) /\ x \notin Vals(f)
  BY DEF Owned
<1>4. Distinct(g)
  BY <1>1, <1>3 DEF Distinct, Vals
<1> QED BY <1>2, <1>4 DEF Owned, g

\* A call returns: its failed frames are free, the others the caller's.
LEMMA OwnedReturn ==
    ASSUME NEW S, NEW p \in Seq(S), NEW f \in Seq(S), NEW b, NEW a, NEW t, Owned(p, f, b, a, t)
    PROVE  Owned(p \o f, <<>>, b, a \cup t, {})
<1> DEFINE q == p \o f
<1>1. /\ DOMAIN q = 1 .. Len(p) + Len(f) /\ DOMAIN p = 1 .. Len(p) /\ DOMAIN f = 1 .. Len(f)
      /\ Len(p) \in Nat /\ Len(f) \in Nat
      /\ \A i \in 1 .. Len(p) : q[i] = p[i]
      /\ \A i \in Len(p) + 1 .. Len(p) + Len(f) : q[i] = f[i - Len(p)]
  OBVIOUS
<1> HIDE DEF q
<1>2. Vals(q) \subseteq Vals(p) \cup Vals(f)
  <2> SUFFICES ASSUME NEW k \in DOMAIN q PROVE q[k] \in Vals(p) \cup Vals(f)
    BY DEF Vals
  <2>1. CASE k \in DOMAIN p
    BY <1>1, <2>1 DEF Vals
  <2>2. CASE k \notin DOMAIN p
    <3>1. k - Len(p) \in DOMAIN f /\ q[k] = f[k - Len(p)]
      BY <1>1, <2>2
    <3> QED BY <3>1 DEF Vals
  <2> QED BY <2>1, <2>2
<1>3. Vals(p) \subseteq Vals(q)
  BY <1>1 DEF Vals
<1>4. Vals(f) \subseteq Vals(q)
  <2> SUFFICES ASSUME NEW k \in DOMAIN f PROVE f[k] \in Vals(q)
    BY DEF Vals
  <2>1. Len(p) + k \in DOMAIN q /\ q[Len(p) + k] = f[k]
    BY <1>1
  <2> QED BY <2>1 DEF Vals
<1>5. Distinct(p) /\ Distinct(f) /\ Vals(p) \cap Vals(f) = {}
  BY DEF Owned
<1>6. Distinct(q)
  <2> SUFFICES ASSUME NEW i \in DOMAIN q, NEW j \in DOMAIN q, q[i] = q[j] PROVE i = j
    BY DEF Distinct
  <2>1. CASE i \in DOMAIN p /\ j \in DOMAIN p
    BY <1>1, <1>5, <2>1 DEF Distinct
  <2>2. ASSUME NEW k \in DOMAIN q, k \notin DOMAIN p
        PROVE  k - Len(p) \in DOMAIN f /\ q[k] = f[k - Len(p)]
    BY <1>1, <2>2
  <2>3. CASE i \notin DOMAIN p /\ j \notin DOMAIN p
    <3> DEFINE m == i - Len(p)  n == j - Len(p)
    <3>1. m \in DOMAIN f /\ n \in DOMAIN f /\ f[m] = f[n]
      BY <2>2, <2>3
    <3> HIDE DEF m, n
    <3>2. m = n
      BY <1>5, <3>1 DEF Distinct
    <3> QED BY <1>1, <3>2 DEF m, n
  <2>4. ASSUME NEW k \in DOMAIN p, NEW l \in DOMAIN q, l \notin DOMAIN p, q[k] = q[l] PROVE FALSE
    <3>1. q[k] \in Vals(p)
      BY <1>1 DEF Vals
    <3>2. q[l] \in Vals(f)
      BY <2>2, <2>4 DEF Vals
    <3> QED BY <1>5, <2>4, <3>1, <3>2
  <2> QED BY <2>1, <2>3, <2>4
<1>7. Vals(<<>>) = {} /\ Distinct(<<>>)
  BY DEF Vals, Distinct
<1> QED BY <1>2, <1>3, <1>4, <1>6, <1>7 DEF Owned, q

-----------------------------------------------------------------------------
(* Indices modulo the size of the ring. *)

LEMMA DivMod ==
    ASSUME NEW n \in Nat \ {0}, NEW a \in Int
    PROVE  a \div n \in Int /\ a % n \in 0 .. n - 1 /\ a = n * (a \div n) + (a % n)
BY SMT

LEMMA MultipleInRange ==
    ASSUME NEW n \in Nat \ {0}, NEW q \in Int, n * q < n, -n < n * q
    PROVE  q = 0
BY SMT

LEMMA ModSame ==
    ASSUME NEW n \in Nat \ {0}, NEW a \in Int, NEW b \in Int,
           a % n = b % n, a - b < n, b - a < n
    PROVE  a = b
<1> DEFINE p == a \div n  q == b \div n
<1>1. p \in Int /\ q \in Int /\ a = n * p + (a % n) /\ b = n * q + (a % n)
  BY DivMod
<1>2. a % n \in 0 .. n - 1
  BY DivMod
<1> HIDE DEF p, q
<1>3. a - b = n * (p - q)
  BY <1>1, <1>2, SMT
<1>4. p - q = 0
  BY <1>1, <1>3, MultipleInRange
<1> QED BY <1>3, <1>4, <1>1, SMT

LEMMA ModUnique ==
    ASSUME NEW n \in Nat \ {0}, NEW q \in Int, NEW r \in 0 .. n - 1
    PROVE  (n * q + r) % n = r
BY SMT

LEMMA Rearranged ==
    ASSUME NEW n \in Int, NEW a \in Int, NEW b \in Int, NEW p \in Int, NEW q \in Int,
           NEW s \in Int, NEW r \in Int, a = n * p + s, a - b = n * q + r
    PROVE  s - b = n * (q - p) + r
BY SMT

\* Reducing a before b is taken off changes nothing.
Shifts(n, a, b, d) == ((a % n) - b) % n = d % n

LEMMA ModShift ==
    ASSUME NEW n \in Nat \ {0}, NEW a \in Int, NEW b \in Int, NEW d \in Int, d = a - b
    PROVE  Shifts(n, a, b, d)
<1> DEFINE p == a \div n  q == d \div n  s == a % n  r == d % n
<1>1. p \in Int /\ s \in 0 .. n - 1 /\ a = n * p + s
  BY DivMod
<1>2. q \in Int /\ r \in 0 .. n - 1 /\ d = n * q + r
  BY Zenon, DivMod
<1> HIDE DEF p, q, s, r
<1>3. s - b = n * (q - p) + r
  BY <1>1, <1>2, Rearranged
<1>4. (n * (q - p) + r) % n = r
  BY <1>1, <1>2, ModUnique
<1> QED BY <1>3, <1>4 DEF s, r, Shifts

LEMMA ModSmall ==
    ASSUME NEW n \in Nat \ {0}, NEW a \in 0 .. n - 1
    PROVE  a % n = a
BY SMT

LEMMA ModBelow ==
    ASSUME NEW n \in Nat \ {0}, NEW a \in -n .. -1
    PROVE  a % n = a + n
<1>1. a = n * (-1) + (a + n) /\ a + n \in 0 .. n - 1
  OBVIOUS
<1>2. (n * (-1) + (a + n)) % n = a + n
  BY <1>1, ModUnique
<1> QED BY <1>1, <1>2

LEMMA Product ==
    ASSUME NEW n \in Int, NEW m \in Int, NEW a \in Int, NEW k \in Int, NEW p \in Int,
           NEW q \in Int, NEW s \in Int, NEW r \in Int,
           m = n * k, a = m * p + s, s = n * q + r
    PROVE  a = n * (k * p + q) + r /\ k * p + q \in Int
BY SMT

\* The NIC's index is taken modulo a multiple of the ring's size.
LEMMA ModMultiple ==
    ASSUME NEW n \in Nat \ {0}, NEW m \in Nat \ {0}, m % n = 0, NEW a \in Int
    PROVE  (a % m) % n = a % n
<1> DEFINE k == m \div n  p == a \div m  s == a % m
<1>1. k \in Int /\ m = n * k
  <2>1. m = n * k + 0 /\ k \in Int
    BY DivMod
  <2> HIDE DEF k
  <2> QED BY <2>1
<1>2. p \in Int /\ s \in Int /\ a = m * p + s
  BY DivMod
<1> HIDE DEF k, p, s
<1> DEFINE q == s \div n  r == s % n
<1>3. q \in Int /\ r \in 0 .. n - 1 /\ s = n * q + r
  BY <1>2, DivMod
<1> HIDE DEF q, r
<1>4. a = n * (k * p + q) + r /\ k * p + q \in Int
  BY <1>1, <1>2, <1>3, Product
<1> DEFINE x == k * p + q
<1> HIDE DEF x
<1>5. a = n * x + r /\ x \in Int
  BY <1>4 DEF x
<1>6. a % n = r
  BY <1>3, <1>5, ModUnique
<1> QED BY <1>6 DEF r, s

-----------------------------------------------------------------------------
(* What the indices mean. *)

LEMMA Sizes ==
    /\ Entries \in Nat \ {0, 1} /\ Entries \in Nat \ {0} /\ W \in Nat \ {0}
    /\ Entries < W /\ W % Entries = 0
BY SizesAssumption

LEMMA CqTyped ==
    ASSUME RxTypes
    PROVE  /\ Len(cq) \in Nat
           /\ \A k \in 1 .. Len(cq) : cq[k] \in Completion /\ cq[k].pos \in Nat
<1>1. Len(cq) \in Nat /\ \A k \in 1 .. Len(cq) : cq[k] \in Completion
  BY DEF RxTypes
<1>2. \A c \in Completion : c.pos \in Nat
  BY Zenon DEF Completion
<1> QED BY Zenon, <1>1, <1>2

\* The NIC sees exactly the buffers that are posted and not filled.
LEMMA PostedCountIs ==
    ASSUME RxTypes, Indices
    PROVE  PostedCount = pi - nicCi
<1>1. pi \in Int /\ nicCi \in Int /\ pi - nicCi \in 0 .. W - 1
  BY Sizes DEF RxTypes, Indices
<1> DEFINE d == pi - nicCi
<1>2. d \in Int /\ d = pi - nicCi /\ d \in 0 .. W - 1
  BY <1>1
<1> HIDE DEF d
<1>3. Shifts(W, pi, nicCi, d)
  BY Zenon, <1>1, <1>2, Sizes, ModShift
<1>4. d % W = d
  BY Zenon, <1>2, Sizes, ModSmall
<1> QED BY Zenon, <1>2, <1>3, <1>4 DEF PostedCount, Indices, Shifts

\* The first completion, when Receive takes it for the oldest buffer's, is.
LEMMA MatchIsOldest ==
    ASSUME RxTypes, Indices, CqInv, cq # <<>>, Reports(cq[1]), Matches(cq[1])
    PROVE  cq[1].pos = ci /\ ci < nicCi
<1>1. 1 \in 1 .. Len(cq) /\ cq[1] \in Completion
  BY DEF RxTypes
<1>2. cq[1].pos \in Int /\ ci <= cq[1].pos + 1 /\ cq[1].pos < nicCi
  BY <1>1 DEF CqInv, Completion
<1>3. (cq[1].pos % W) % Entries = cq[1].pos % Entries
  BY Zenon, <1>2, Sizes, ModMultiple
<1>4. cq[1].pos % Entries = ci % Entries
  BY <1>3 DEF Matches, Slot
<1>5. ci \in Int /\ cq[1].pos - ci < Entries /\ ci - cq[1].pos < Entries
  BY <1>2, Sizes DEF RxTypes, Indices
<1>6. cq[1].pos = ci
  BY Zenon, <1>2, <1>4, <1>5, Sizes, ModSame
<1> QED BY <1>2, <1>6

\* Filling n free slots from buffer index pi on leaves the outstanding buffers.
LEMMA FillSlots ==
    ASSUME RxTypes, Indices, NEW n \in Nat, n <= FreeSlots, NEW i \in ci .. pi + n - 1
    PROVE  /\ i % Entries \in 0 .. Entries - 1
           /\ i >= pi => ((i % Entries) - pi) % Entries = i - pi
           /\ i < pi => ~(((i % Entries) - pi) % Entries < n)
<1>1. /\ i \in Int /\ pi \in Int /\ i - pi \in Int
      /\ i >= pi => i - pi \in 0 .. Entries - 1
      /\ i < pi => i - pi \in -Entries .. -1 /\ ~((i - pi) + Entries < n)
  BY Sizes DEF RxTypes, Indices, FreeSlots
<1> DEFINE d == i - pi
<1>2. /\ d \in Int /\ d = i - pi
      /\ i >= pi => d \in 0 .. Entries - 1
      /\ i < pi => d \in -Entries .. -1 /\ ~(d + Entries < n)
  BY <1>1
<1> HIDE DEF d
<1>3. i % Entries \in 0 .. Entries - 1
  BY Zenon, <1>1, Sizes, DivMod
<1>4. Shifts(Entries, i, pi, d)
  BY Zenon, <1>1, <1>2, Sizes, ModShift
<1>5. i >= pi => d % Entries = d
  BY Zenon, <1>2, Sizes, ModSmall
<1>6. i < pi => d % Entries = d + Entries
  BY Zenon, <1>2, Sizes, ModBelow
<1> QED BY Zenon, <1>2, <1>3, <1>4, <1>5, <1>6 DEF Shifts

-----------------------------------------------------------------------------
(* Fill. *)

\* What Fill does to the ring, n being how many frames it moves.
Posts(n) ==
    /\ n \in Nat \ {0} /\ n <= FreeSlots /\ n <= Len(pool)
    /\ posted' = [s \in 0 .. Entries - 1 |->
                     IF (s - pi) % Entries < n
                     THEN pool[(Len(pool) - n) + 1 + ((s - pi) % Entries)] ELSE posted[s]]
    /\ pool' = SubSeq(pool, 1, Len(pool) - n)
    /\ pi' = pi + n
    /\ doorbell' = (pi + n) % W
    /\ UNCHANGED <<closing, app, ci, pc, taken, failed, nicCi, cq>>

LEMMA FillPosts ==
    ASSUME RxTypes, NEW want \in Nat, Fill(want)
    PROVE  \E n : Posts(n)
<1> DEFINE n == Least(want, Least(FreeSlots, Len(pool)))
<1>1. n > 0
  BY DEF Fill
<1>2. n \in Nat \ {0} /\ n <= FreeSlots /\ n <= Len(pool)
  BY <1>1, Sizes DEF RxTypes, FreeSlots, Least
<1> QED BY Zenon, <1>2 DEF Fill, Posts, PublishedCount, callVars, nicVars

LEMMA PostsBuffers ==
    ASSUME RxTypes, Indices, NEW n, Posts(n)
    PROVE  /\ \A i \in ci .. pi - 1 : posted'[i % Entries] = posted[i % Entries]
           /\ Fills(Buffers', Buffers, pool, Len(pool) - n, ci, pi)
<1>1. n \in Nat \ {0} /\ n <= FreeSlots /\ pi \in Int /\ ci \in Int /\ ci <= pi
      /\ Len(pool) - (Len(pool) - n) = n
  BY DEF Posts, RxTypes, Indices
<1>2. ASSUME NEW i \in ci .. pi - 1
      PROVE  posted'[i % Entries] = posted[i % Entries]
  <2>1. i \in ci .. pi + n - 1 /\ i < pi
    BY <1>1
  <2> QED BY Zenon, <1>1, <2>1, FillSlots DEF Posts
<1>3. ASSUME NEW i \in pi .. pi + n - 1
      PROVE  posted'[i % Entries] = pool[(Len(pool) - n) + 1 + (i - pi)]
  <2>1. i \in ci .. pi + n - 1 /\ i >= pi /\ i - pi < n
    BY <1>1
  <2>2. i % Entries \in 0 .. Entries - 1 /\ ((i % Entries) - pi) % Entries = i - pi
    BY Zenon, <1>1, <2>1, FillSlots
  <2> QED BY <2>1, <2>2 DEF Posts
<1>4. pi' = pi + n /\ ci' = ci
  BY DEF Posts
<1>5. Buffers' = [i \in ci .. pi + n - 1 |-> posted'[i % Entries]]
  <2>1. Buffers' = [i \in ci' .. pi' - 1 |-> posted'[i % Entries]]
    BY Zenon, SizesAssumption DEF Buffers
  <2>2. ci' = ci /\ pi' - 1 = pi + n - 1
    BY <1>1, <1>4
  <2> QED BY Zenon, <2>1, <2>2
<1>6. \A i \in ci .. pi - 1 : i \in ci .. pi + n - 1
  BY <1>1
<1>7. \A i \in pi .. pi + n - 1 : i \in ci .. pi + n - 1
  BY <1>1
<1>8. DOMAIN Buffers' = ci .. pi + n - 1 /\ DOMAIN Buffers = ci .. pi - 1
  BY <1>5 DEF Buffers
<1>9. \A i \in ci .. pi - 1 : Buffers'[i] = Buffers[i]
  BY Zenon, <1>2, <1>5, <1>6 DEF Buffers
<1>10. \A i \in pi .. pi + n - 1 : Buffers'[i] = pool[(Len(pool) - n) + 1 + (i - pi)]
  BY Zenon, <1>3, <1>5, <1>7
<1> QED BY <1>1, <1>2, <1>8, <1>9, <1>10 DEF Fills

LEMMA FillKeeps ==
    ASSUME RxInv, NEW n, Posts(n)
    PROVE  RxInv'
<1>1. RxTypes /\ Indices /\ CqInv /\ Owners /\ Count
  BY DEF RxInv
<1>2. /\ n \in Nat \ {0} /\ n <= FreeSlots /\ pi \in Nat /\ ci \in Nat /\ nicCi \in Nat
      /\ Len(pool) - n \in 0 .. Len(pool) /\ pool \in Seq(Frames) /\ Len(pool) \in Nat
  BY <1>1 DEF Posts, RxTypes
<1>3. RxTypes'
  <2>1. pool' \in Seq(Frames)
    BY <1>2 DEF Posts
  <2>2. posted' \in [0 .. Entries - 1 -> Frames \cup {NoFrame}]
    <3> SUFFICES ASSUME NEW s \in 0 .. Entries - 1, (s - pi) % Entries < n
                 PROVE  pool[(Len(pool) - n) + 1 + ((s - pi) % Entries)] \in Frames
      BY <1>1 DEF Posts, RxTypes
    <3>1. (s - pi) \in Int
      BY <1>2, Sizes
    <3>2. (s - pi) % Entries \in 0 .. Entries - 1
      BY Zenon, <3>1, Sizes, DivMod
    <3>3. (Len(pool) - n) + 1 + ((s - pi) % Entries) \in 1 .. Len(pool)
      BY <1>2, <3>2
    <3> QED BY <1>2, <3>3
  <2> QED BY <1>1, <1>2, <2>1, <2>2 DEF RxTypes, Posts
<1>4. Indices'
  <2>1. ci' <= nicCi' /\ nicCi' <= pi' /\ pi' <= ci' + Entries
    BY <1>1, <1>2, Sizes DEF Indices, Posts, FreeSlots
  <2>2. doorbell' = pi' % W /\ (pc = "look" => closing \in {"no", "lock"})'
    BY Zenon, <1>1 DEF Indices, Posts
  <2> QED BY Zenon, <2>1, <2>2 DEF Indices
<1>5. CqInv'
  <2>1. cq' = cq /\ ci' = ci /\ nicCi' = nicCi
    BY DEF Posts
  <2>2. \A k \in 1 .. Len(cq) : Reports(cq[k]) /\ ci <= cq[k].pos => cq[k].pos \in ci .. pi - 1
    <3>1. \A k \in 1 .. Len(cq) : cq[k].pos \in Nat
      BY <1>1, CqTyped
    <3>2. nicCi <= pi /\ \A k \in 1 .. Len(cq) : Reports(cq[k]) => cq[k].pos < nicCi
      BY <1>1 DEF CqInv, Indices
    <3> QED BY <1>2, <3>1, <3>2
  <2>3. \A k \in 1 .. Len(cq) : Reports(cq[k]) /\ ci <= cq[k].pos =>
            cq[k].frame = posted'[cq[k].pos % Entries]
    BY Zenon, <1>1, <2>2, PostsBuffers DEF CqInv
  <2> QED BY Zenon, <1>1, <2>1, <2>3 DEF CqInv, Reports
<1>6. Owners'
  <2>1. Owned(pool, failed, Buffers, app, taken) /\ ci <= pi /\ pi \in Int /\ ci \in Int
    BY <1>1, <1>2 DEF Owners, Indices
  <2>2. Fills(Buffers', Buffers, pool, Len(pool) - n, ci, pi)
    BY <1>1, PostsBuffers
  <2>3. Owned(SubSeq(pool, 1, Len(pool) - n), failed, Buffers', app, taken)
    BY Zenon, <1>2, <2>1, <2>2, OwnedFill
  <2>4. pool' = SubSeq(pool, 1, Len(pool) - n) /\ failed' = failed /\ app' = app /\ taken' = taken
    BY DEF Posts
  <2> QED BY Zenon, <2>3, <2>4 DEF Owners, Owned
<1>7. Count'
  <2>1. /\ Len(pool') = Len(pool) - n /\ pi' = pi + n /\ ci' = ci
        /\ failed' = failed /\ app' = app /\ taken' = taken
    BY <1>2 DEF Posts
  <2>2. Cardinality(app) + Cardinality(taken) \in Int /\ Len(failed) \in Nat
    <3>1. IsFiniteSet(app) /\ IsFiniteSet(taken)
      BY <1>1, FS_Subset, BoundsAssumption DEF RxTypes
    <3>2. Cardinality(app) \in Nat /\ Cardinality(taken) \in Nat
      BY <3>1, FS_CardinalityType
    <3> QED BY <1>1, <3>2 DEF RxTypes
  <2> QED BY <1>1, <1>2, <2>1, <2>2 DEF Count
<1> QED BY <1>3, <1>4, <1>5, <1>6, <1>7 DEF RxInv

-----------------------------------------------------------------------------
(* The other steps of the owner. *)

LEMMA Counts ==
    ASSUME RxTypes
    PROVE  /\ IsFiniteSet(app) /\ IsFiniteSet(taken)
           /\ Cardinality(app) \in Nat /\ Cardinality(taken) \in Nat
           /\ Cardinality(Frames) \in Nat /\ Len(pool) \in Nat /\ Len(failed) \in Nat
<1>1. app \subseteq Frames /\ taken \subseteq Frames /\ IsFiniteSet(Frames)
  BY BoundsAssumption DEF RxTypes
<1>2. IsFiniteSet(app) /\ IsFiniteSet(taken)
  BY Zenon, <1>1, FS_Subset
<1>3. Cardinality(app) \in Nat /\ Cardinality(taken) \in Nat /\ Cardinality(Frames) \in Nat
  BY Zenon, <1>1, <1>2, FS_CardinalityType
<1> QED BY <1>2, <1>3 DEF RxTypes

\* A step that leaves the ring and the completion queue alone.
RingKept == UNCHANGED <<pi, ci, posted, doorbell, nicCi, cq>>
LooksMapped == pc = "look" => closing \in {"no", "lock"}

LEMMA RingStays ==
    ASSUME Indices, CqInv, RingKept, LooksMapped'
    PROVE  Indices' /\ CqInv' /\ Buffers' = Buffers
BY Zenon DEF Indices, CqInv, Reports, Buffers, RingKept, LooksMapped

FramesKept == UNCHANGED <<pool, app, taken, failed>>

LEMMA FramesStay ==
    ASSUME Owners, Count, FramesKept, Buffers' = Buffers, pi' = pi, ci' = ci
    PROVE  Owners' /\ Count'
<1>1. Owned(pool', failed', Buffers', app', taken')
  BY Zenon DEF Owners, FramesKept
<1>2. Owners'
  BY Zenon, <1>1 DEF Owners, Owned
<1> QED BY Zenon, <1>2 DEF Count, FramesKept

\* A step that only moves a goroutine.
LEMMA MoveKeeps ==
    ASSUME RxInv, RingKept, FramesKept, LooksMapped'
    PROVE  RxInv'
<1>1. RxTypes /\ Indices /\ CqInv /\ Owners /\ Count
  BY DEF RxInv
<1>2. RxTypes'
  BY Zenon, <1>1 DEF RxTypes, RingKept, FramesKept, Completion
<1>3. Indices' /\ CqInv' /\ Buffers' = Buffers
  BY Zenon, <1>1, RingStays
<1>4. pi' = pi /\ ci' = ci
  BY DEF RingKept
<1>5. Owners' /\ Count'
  BY Zenon, <1>1, <1>3, <1>4, FramesStay
<1> QED BY <1>2, <1>3, <1>5 DEF RxInv

\* A frame goes from the application to the pool: the sum stays.
SumStays(a, t, p, f, o) == (a - 1) + t + (p + 1) + f + o = a + t + p + f + o

LEMMA SumMoves ==
    ASSUME NEW a \in Int, NEW t \in Int, NEW p \in Int, NEW f \in Int, NEW o \in Int
    PROVE  SumStays(a, t, p, f, o)
BY DEF SumStays

LEMMA RecycleKeeps ==
    ASSUME RxInv, NEW f \in Frames, Recycle(f)
    PROVE  RxInv'
<1>1. RxTypes /\ Indices /\ CqInv /\ Owners /\ Count
  BY DEF RxInv
<1>2. f \in app /\ app' = app \ {f} /\ RingKept /\ taken' = taken /\ failed' = failed /\ LooksMapped'
  BY DEF Recycle, RingKept, ringVars, callVars, nicVars, LooksMapped
<1>3. Cardinality(app') = Cardinality(app) - 1 /\ Cardinality(app') \in Nat
  <2>1. IsFiniteSet(app) /\ IsFiniteSet(app')
    BY Zenon, <1>1, <1>2, Counts, FS_RemoveElement
  <2>2. Cardinality(app \ {f}) = Cardinality(app) - 1
    BY Zenon, <1>2, <2>1, FS_RemoveElement
  <2> QED BY Zenon, <1>2, <2>1, <2>2, FS_CardinalityType
<1>4. pi \in Nat /\ ci \in Nat /\ ci <= pi /\ pool \in Seq(Frames)
  BY <1>1 DEF RxTypes, Indices
<1>5. Len(pool) < Cardinality(Frames)
  <2>1. Len(pool) \in Nat /\ Len(failed) \in Nat /\ Cardinality(taken) \in Nat /\ Cardinality(app) \in Nat
    BY Zenon, <1>1, Counts
  <2> QED BY <1>1, <1>3, <1>4, <2>1 DEF Count
<1>6. pool' = Append(pool, f)
  BY <1>5 DEF Recycle
<1>7. Indices' /\ CqInv' /\ Buffers' = Buffers
  BY Zenon, <1>1, <1>2, RingStays
<1>8. RxTypes'
  <2>1. pool' \in Seq(Frames) /\ app' \subseteq Frames
    BY <1>1, <1>2, <1>4, <1>6 DEF RxTypes
  <2> QED BY Zenon, <1>1, <1>2, <2>1 DEF RxTypes, RingKept, Completion
<1>9. Owners'
  <2>1. Owned(Append(pool, f), failed, Buffers, app \ {f}, taken)
    BY Zenon, <1>1, <1>2, <1>4, OwnedRecycle DEF Owners
  <2>2. Owned(pool', failed', Buffers', app', taken')
    BY Zenon, <1>2, <1>6, <1>7, <2>1
  <2> QED BY Zenon, <2>2 DEF Owners, Owned
<1>10. Count'
  <2>1. Len(pool') = Len(pool) + 1 /\ Len(pool) \in Nat /\ Len(failed) \in Nat
    BY <1>1, <1>4, <1>6 DEF RxTypes
  <2>2. Cardinality(taken) \in Nat /\ Cardinality(app) \in Nat
    BY Zenon, <1>1, Counts
  <2>3. taken' = taken /\ failed' = failed /\ pi' = pi /\ ci' = ci
    BY <1>2 DEF RingKept
  <2>5. Count /\ Cardinality(app) \in Int /\ Cardinality(taken) \in Int /\ Len(pool) \in Int
        /\ Len(failed) \in Int /\ pi - ci \in Int
    BY <1>1, <1>4, <2>1, <2>2
  <2>6. SumStays(Cardinality(app), Cardinality(taken), Len(pool), Len(failed), pi - ci)
    BY Zenon, <2>5, SumMoves
  <2>4. Cardinality(app') + Cardinality(taken) + Len(pool') + Len(failed) + (pi - ci)
            = Cardinality(Frames)
    BY Zenon, <1>3, <2>1, <2>5, <2>6 DEF Count, SumStays
  <2> QED BY Zenon, <2>3, <2>4 DEF Count
<1> QED BY <1>7, <1>8, <1>9, <1>10 DEF RxInv

\* The completions after the first are still those to be read, also once the
\* first one's buffer is reported on.
LEMMA TailReads ==
    ASSUME RxTypes, CqInv, cq # <<>>, cq' = Tail(cq), posted' = posted, nicCi' = nicCi,
           ci' = ci \/ (ci' = ci + 1 /\ Reports(cq[1]) /\ cq[1].pos = ci)
    PROVE  CqInv' /\ cq' \in Seq(Completion)
<1>1. /\ Len(cq) \in Nat \ {0} /\ Len(cq') = Len(cq) - 1 /\ cq' \in Seq(Completion)
      /\ \A k \in 1 .. Len(cq') : cq'[k] = cq[k + 1] /\ k + 1 \in 1 .. Len(cq)
  BY DEF RxTypes
<1>2. 1 \in 1 .. Len(cq) /\ \A k \in 1 .. Len(cq) : 1 <= k /\ cq[k].pos \in Nat
  BY <1>1, CqTyped
<1>3. ci \in Nat
  BY DEF RxTypes
<1>4. \A k \in 1 .. Len(cq) : Reports(cq[k]) => ci' <= cq[k].pos + 1 /\ cq[k].pos < nicCi
  <2> SUFFICES ASSUME NEW k \in 1 .. Len(cq), Reports(cq[k])
               PROVE  ci' <= cq[k].pos + 1 /\ cq[k].pos < nicCi
    OBVIOUS
  <2>1. ci <= cq[k].pos + 1 /\ cq[k].pos < nicCi /\ cq[k].pos \in Nat
    BY Zenon, <1>2 DEF CqInv
  <2>2. CASE ci' = ci
    BY Zenon, <2>1, <2>2
  <2>3. CASE ci' = ci + 1 /\ Reports(cq[1]) /\ cq[1].pos = ci
    <3>1. cq[1].pos <= cq[k].pos
      BY Zenon, <1>2, <2>3 DEF CqInv
    <3> QED BY <1>3, <2>1, <2>3, <3>1
  <2> QED BY Zenon, <2>2, <2>3
<1>5. \A k \in 1 .. Len(cq) :
          Reports(cq[k]) /\ ci' <= cq[k].pos => cq[k].frame = posted[cq[k].pos % Entries]
  <2>1. \A n \in Nat : ci' <= n => ci <= n
    BY <1>3
  <2> QED BY Zenon, <1>2, <2>1 DEF CqInv
<1>6. \A j, k \in 1 .. Len(cq') : j <= k => j + 1 <= k + 1
  BY <1>1
<1>7. /\ \A k \in 1 .. Len(cq') : Reports(cq'[k]) => ci' <= cq'[k].pos + 1 /\ cq'[k].pos < nicCi'
      /\ \A k \in 1 .. Len(cq') :
            Reports(cq'[k]) /\ ci' <= cq'[k].pos => cq'[k].frame = posted'[cq'[k].pos % Entries]
  BY Zenon, <1>1, <1>4, <1>5
<1>8. \A j, k \in 1 .. Len(cq') :
          j <= k /\ Reports(cq'[j]) /\ Reports(cq'[k]) => cq'[j].pos <= cq'[k].pos
  BY Zenon, <1>1, <1>6 DEF CqInv
<1> QED BY Zenon, <1>1, <1>7, <1>8 DEF CqInv, Reports

LEMMA SkipKeeps ==
    ASSUME RxInv, cq # <<>>, cq' = Tail(cq), FramesKept, LooksMapped',
           UNCHANGED <<pi, ci, posted, doorbell, nicCi>>
    PROVE  RxInv'
<1>1. RxTypes /\ Indices /\ CqInv /\ Owners /\ Count
  BY DEF RxInv
<1>2. CqInv' /\ cq' \in Seq(Completion)
  BY Zenon, <1>1, TailReads
<1>3. RxTypes'
  BY Zenon, <1>1, <1>2 DEF RxTypes, FramesKept, Completion
<1>4. Indices' /\ Buffers' = Buffers
  BY Zenon, <1>1 DEF Indices, Buffers, LooksMapped
<1>5. Owners' /\ Count'
  BY Zenon, <1>1, <1>4, FramesStay
<1> QED BY <1>2, <1>3, <1>4, <1>5 DEF RxInv

\* Receive takes the oldest buffer's frame.
LEMMA BufferKeeps ==
    ASSUME RxInv, ReceiveBuffer
    PROVE  RxInv'
<1>1. RxTypes /\ Indices /\ CqInv /\ Owners /\ Count
  BY DEF RxInv
<1>2. /\ cq # <<>> /\ cq' = Tail(cq) /\ Reports(cq[1]) /\ Matches(cq[1]) /\ ci' = ci + 1
      /\ UNCHANGED <<closing, pool, app, pi, posted, doorbell, pc, nicCi>>
  BY DEF ReceiveBuffer, Consume, Looks, Stray, Reports, nicVars
<1>3. cq[1].pos = ci /\ ci < nicCi
  BY Zenon, <1>1, <1>2, MatchIsOldest
<1>4. CqInv' /\ cq' \in Seq(Completion)
  BY Zenon, <1>1, <1>2, <1>3, TailReads
<1>5. ci \in Nat /\ pi \in Nat /\ nicCi \in Nat /\ nicCi <= pi /\ ci < pi /\ ci \in ci .. pi - 1
  BY <1>1, <1>3 DEF RxTypes, Indices
<1>6. Indices'
  <2>1. ci' <= nicCi' /\ nicCi' <= pi' /\ pi' <= ci' + Entries
    BY <1>1, <1>2, <1>3, <1>5, Sizes DEF Indices
  <2> QED BY Zenon, <1>1, <1>2, <2>1 DEF Indices
<1>7. Buffers' = [i \in ci + 1 .. pi - 1 |-> posted[i % Entries]]
  BY Zenon, <1>2 DEF Buffers
<1>8. Distinct(Buffers') /\ Vals(Buffers) = Vals(Buffers') \cup {Oldest} /\ Oldest \notin Vals(Buffers')
  <2>1. Distinct(Buffers) /\ Buffers[ci] = Oldest
    BY Zenon, <1>1, <1>5 DEF Buffers, Owners, Owned, Oldest, Slot
  <2>2. \A i \in ci + 1 .. pi - 1 : i \in ci .. pi - 1
    BY <1>5
  <2>3. Drops(Buffers', Buffers, ci, pi)
    BY Zenon, <1>7, <2>2 DEF Buffers, Drops
  <2>4. ci \in Int /\ pi \in Int
    BY <1>5
  <2> QED BY Zenon, <1>5, <2>1, <2>3, <2>4, OldestLeaves
<1>9. Oldest \in Frames
  BY Zenon, <1>1, <1>8 DEF Owners, Owned
<1>10. failed \in Seq(Frames) /\ Cardinality(app) \in Nat /\ Cardinality(taken) \in Nat
       /\ Len(failed) \in Nat /\ Len(pool) \in Nat /\ IsFiniteSet(taken)
  BY Zenon, <1>1, Counts DEF RxTypes
<1>11. CASE failed' = Append(failed, Oldest) /\ taken' = taken
  <2>1. failed' \in Seq(Frames) /\ Len(failed') = Len(failed) + 1
    BY <1>9, <1>10, <1>11
  <2>2. Owned(pool, failed', Buffers', app, taken)
    BY Zenon, <1>1, <1>8, <1>10, <1>11, OwnedFail DEF Owners
  <2>3. Owners'
    BY Zenon, <1>2, <1>11, <2>2 DEF Owners, Owned
  <2>7. Len(failed') = Len(failed) + 1 /\ Len(failed) \in Nat /\ pi - ci' = (pi - ci) - 1
        /\ pi - ci \in Int /\ Count
    BY <1>1, <1>2, <1>5, <1>10, <2>1
  <2>4. Cardinality(app) + Cardinality(taken) + Len(pool) + Len(failed') + (pi - ci')
            = Cardinality(Frames)
    <3>1. Cardinality(app) \in Nat /\ Cardinality(taken) \in Nat /\ Len(pool) \in Nat
      BY <1>10
    <3> QED BY <2>7, <3>1 DEF Count
  <2>5. Count'
    BY Zenon, <1>2, <1>11, <2>4 DEF Count
  <2>6. RxTypes'
    <3>1. ci' \in Nat
      BY <1>2, <1>5
    <3> QED BY Zenon, <1>1, <1>2, <1>4, <1>11, <2>1, <3>1 DEF RxTypes, Completion
  <2> QED BY <1>4, <1>6, <2>3, <2>5, <2>6 DEF RxInv
<1>12. CASE taken' = taken \cup {Oldest} /\ failed' = failed
  <2>1. Owned(pool, failed, Buffers', app, taken \cup {Oldest}) /\ Oldest \notin taken
    BY Zenon, <1>1, <1>8, OwnedTake DEF Owners
  <2>2. Cardinality(taken') = Cardinality(taken) + 1
    BY Zenon, <1>10, <1>12, <2>1, FS_AddElement
  <2>3. Owners'
    BY Zenon, <1>2, <1>12, <2>1 DEF Owners, Owned
  <2>4. Cardinality(app) + Cardinality(taken') + Len(pool) + Len(failed) + (pi - ci')
            = Cardinality(Frames)
    BY <1>1, <1>2, <1>5, <1>10, <2>2 DEF Count
  <2>5. Count'
    BY Zenon, <1>2, <1>12, <2>4 DEF Count
  <2>6. RxTypes'
    <3>1. ci' \in Nat
      BY <1>2, <1>5
    <3>2. taken' \subseteq Frames
      BY Zenon, <1>1, <1>9, <1>12 DEF RxTypes
    <3> QED BY Zenon, <1>1, <1>2, <1>4, <1>12, <3>1, <3>2 DEF RxTypes, Completion
  <2> QED BY <1>4, <1>6, <2>3, <2>5, <2>6 DEF RxInv
<1> QED BY <1>11, <1>12 DEF ReceiveBuffer

LEMMA ReturnKeeps ==
    ASSUME RxInv, ReceiveReturn
    PROVE  RxInv'
<1>1. RxTypes /\ Indices /\ CqInv /\ Owners /\ Count
  BY DEF RxInv
<1>2. /\ pool' = pool \o FailedBack /\ app' = app \cup taken /\ taken' = {} /\ failed' = <<>>
      /\ RingKept /\ pi' = pi /\ ci' = ci /\ LooksMapped'
  BY DEF ReceiveReturn, RingKept, ringVars, nicVars, LooksMapped
<1>3. /\ Cardinality(app) \in Nat /\ Cardinality(taken) \in Nat /\ Len(failed) \in Nat
      /\ Len(pool) \in Nat /\ IsFiniteSet(app) /\ IsFiniteSet(taken) /\ Cardinality(Frames) \in Nat
  BY Zenon, <1>1, Counts
<1>4. pool \in Seq(Frames) /\ failed \in Seq(Frames) /\ pi - ci \in Nat
  BY <1>1 DEF RxTypes, Indices
<1>5. FailedBack = failed
  <2>1. Len(failed) <= Cardinality(Frames) - Len(pool)
    BY <1>1, <1>3, <1>4 DEF Count
  <2>2. FailedBack = SubSeq(failed, 1, Len(failed))
    BY Zenon, <2>1 DEF FailedBack, Least
  <2> QED BY <1>4, <2>2
<1>6. Indices' /\ CqInv' /\ Buffers' = Buffers
  BY Zenon, <1>1, <1>2, RingStays
<1>7. Owned(pool \o failed, <<>>, Buffers, app \cup taken, {})
  BY Zenon, <1>1, <1>4, OwnedReturn DEF Owners
<1>8. Owners'
  <2>1. Owned(pool', failed', Buffers', app', taken')
    BY Zenon, <1>2, <1>5, <1>6, <1>7
  <2> QED BY Zenon, <2>1 DEF Owners, Owned
<1>9. RxTypes'
  <2>1. pool' \in Seq(Frames) /\ failed' \in Seq(Frames) /\ app' \subseteq Frames /\ taken' \subseteq Frames
    BY <1>1, <1>2, <1>4, <1>5 DEF RxTypes
  <2> QED BY Zenon, <1>1, <1>2, <2>1 DEF RxTypes, RingKept, Completion
<1>10. Cardinality(app \cup taken) = Cardinality(app) + Cardinality(taken)
  <2>1. app \cap taken = {}
    BY Zenon, <1>1 DEF Owners, Owned
  <2>2. Cardinality(app \cap taken) = 0
    BY Zenon, <2>1, FS_EmptySet
  <2>3. Cardinality(app \cup taken)
            = Cardinality(app) + Cardinality(taken) - Cardinality(app \cap taken)
    BY Zenon, <1>3, FS_Union
  <2> QED BY <1>3, <2>2, <2>3
<1>11. Count'
  <2>1. Len(pool') = Len(pool) + Len(failed) /\ Len(failed') = 0
    BY <1>2, <1>4, <1>5
  <2>2. Cardinality(taken') = 0
    BY Zenon, <1>2, FS_EmptySet
  <2>3. Cardinality(app') = Cardinality(app) + Cardinality(taken)
    BY Zenon, <1>2, <1>10
  <2>4. Cardinality(app') + Cardinality(taken') + Len(pool') + Len(failed') + (pi - ci)
            = Cardinality(Frames)
    BY <1>1, <1>3, <1>4, <2>1, <2>2, <2>3 DEF Count
  <2> QED BY Zenon, <1>2, <2>4 DEF Count
<1> QED BY <1>6, <1>8, <1>9, <1>11 DEF RxInv

-----------------------------------------------------------------------------
(* The NIC. *)

CqeFields(c, opcode, format, pos) ==
    /\ c \in Completion /\ c.pos = pos /\ c.frame = posted[pos % Entries]
    /\ c.opcode = opcode /\ c.format = format

LEMMA CqeTyped ==
    ASSUME RxTypes, NEW opcode \in {"respsend", "resperr", "other"},
           NEW format \in {"nodata", "other"}, NEW oversize \in BOOLEAN, NEW pos \in Nat
    PROVE  CqeFields(Cqe(opcode, format, oversize, pos), opcode, format, pos)
<1>1. pos \in Int
  OBVIOUS
<1>2. pos % Entries \in 0 .. Entries - 1
  BY Zenon, <1>1, Sizes, DivMod
<1>3. posted[pos % Entries] \in Frames \cup {NoFrame}
  BY Zenon, <1>2 DEF RxTypes
<1> QED BY Zenon, <1>3 DEF Cqe, CqeFields, Completion

\* A completion that the NIC may write.
MayReport(c, n) ==
    /\ c \in Completion
    /\ Reports(c) => c.pos + 1 = n /\ c.frame = posted[c.pos % Entries]

\* The NIC writes it.
WritesCqe(c) ==
    /\ nicCi' = nicCi \/ nicCi' = nicCi + 1
    /\ MayReport(c, nicCi') /\ cq' = Append(cq, c) /\ ci' = ci /\ posted' = posted

LEMMA AppendReads ==
    ASSUME RxTypes, Indices, CqInv, NEW c, WritesCqe(c)
    PROVE  CqInv' /\ cq' \in Seq(Completion)
<1>0. /\ nicCi' = nicCi \/ nicCi' = nicCi + 1
      /\ MayReport(c, nicCi') /\ cq' = Append(cq, c) /\ ci' = ci /\ posted' = posted
  BY DEF WritesCqe
<1>1. cq \in Seq(Completion) /\ c \in Completion /\ ci \in Nat /\ nicCi \in Nat /\ ci <= nicCi
  BY <1>0 DEF RxTypes, Indices, MayReport
<1>2. /\ Len(cq) \in Nat /\ Len(cq') = Len(cq) + 1 /\ cq' \in Seq(Completion)
      /\ cq'[Len(cq) + 1] = c /\ \A k \in 1 .. Len(cq) : cq'[k] = cq[k]
  BY <1>0, <1>1
<1>3. \A k \in 1 .. Len(cq') : k = Len(cq) + 1 \/ k \in 1 .. Len(cq)
  BY <1>2
<1>4. c.pos \in Nat
  BY Zenon, <1>1 DEF Completion
<1>5. Reports(c) => ci <= c.pos + 1 /\ c.pos < nicCi'
  BY <1>0, <1>1, <1>4 DEF MayReport
<1>6. ASSUME NEW k \in 1 .. Len(cq), Reports(cq[k])
      PROVE  ci <= cq[k].pos + 1 /\ cq[k].pos < nicCi' /\ (Reports(c) => cq[k].pos <= c.pos)
  <2>1. cq[k].pos \in Nat
    BY Zenon, CqTyped
  <2>2. ci <= cq[k].pos + 1 /\ cq[k].pos < nicCi
    BY Zenon, <1>6 DEF CqInv
  <2>3. Reports(c) => c.pos + 1 = nicCi'
    BY <1>0 DEF MayReport
  <2> QED BY <1>0, <1>1, <1>4, <2>1, <2>2, <2>3
<1>7. \A k \in 1 .. Len(cq') : Reports(cq'[k]) => ci' <= cq'[k].pos + 1 /\ cq'[k].pos < nicCi'
  BY Zenon, <1>0, <1>2, <1>3, <1>5, <1>6
<1>8. \A k \in 1 .. Len(cq') :
          Reports(cq'[k]) /\ ci' <= cq'[k].pos => cq'[k].frame = posted'[cq'[k].pos % Entries]
  BY Zenon, <1>0, <1>2, <1>3 DEF CqInv, MayReport
<1>9. \A j, k \in 1 .. Len(cq') :
          j <= k /\ Reports(cq'[j]) /\ Reports(cq'[k]) => cq'[j].pos <= cq'[k].pos
  <2> SUFFICES ASSUME NEW j \in 1 .. Len(cq'), NEW k \in 1 .. Len(cq'), j <= k,
                      Reports(cq'[j]), Reports(cq'[k])
               PROVE  cq'[j].pos <= cq'[k].pos
    OBVIOUS
  <2>1. CASE j \in 1 .. Len(cq) /\ k \in 1 .. Len(cq)
    BY Zenon, <1>2, <2>1 DEF CqInv
  <2>2. CASE j \in 1 .. Len(cq) /\ k = Len(cq) + 1
    BY Zenon, <1>2, <1>6, <2>2
  <2>3. CASE j = Len(cq) + 1
    <3>1. k = j
      BY <1>2, <2>3
    <3> QED BY <1>2, <1>4, <2>3, <3>1
  <2> QED BY Zenon, <1>3, <2>1, <2>2, <2>3
<1> QED BY Zenon, <1>0, <1>2, <1>7, <1>8, <1>9 DEF CqInv, Reports

\* The NIC only moves its own index and writes completions.
NicSteps ==
    FramesKept /\ UNCHANGED <<closing, pc, pi, ci, posted, doorbell>>

LEMMA NicKeeps ==
    ASSUME RxInv, NicSteps, CqInv', cq' \in Seq(Completion),
           nicCi' = nicCi \/ (nicCi' = nicCi + 1 /\ PostedCount > 0)
    PROVE  RxInv'
<1>1. RxTypes /\ Indices /\ Owners /\ Count
  BY DEF RxInv
<1>2. UNCHANGED <<closing, pc, pi, ci, posted, doorbell>> /\ FramesKept
  BY DEF NicSteps
<1>3. nicCi \in Nat /\ pi \in Nat /\ ci \in Nat /\ PostedCount = pi - nicCi
  BY Zenon, <1>1, PostedCountIs DEF RxTypes
<1>4. nicCi' \in Nat /\ ci <= nicCi' /\ nicCi' <= pi
  BY <1>1, <1>3 DEF Indices
<1>5. RxTypes' /\ Indices' /\ Buffers' = Buffers
  BY Zenon, <1>1, <1>2, <1>4 DEF RxTypes, Indices, Buffers, FramesKept, Completion
<1>6. Owners' /\ Count'
  BY Zenon, <1>1, <1>2, <1>5, FramesStay
<1> QED BY <1>5, <1>6 DEF RxInv

LEMMA DeliverKeeps ==
    ASSUME RxInv, NicDeliver
    PROVE  RxInv'
<1>1. RxTypes /\ Indices /\ CqInv /\ nicCi \in Nat /\ nicCi + 1 \in Nat
  BY DEF RxInv, RxTypes
<1>2. NicSteps /\ nicCi' = nicCi + 1 /\ PostedCount > 0 /\ ci' = ci /\ posted' = posted
  BY DEF NicDeliver, NicSteps, FramesKept, ringVars, callVars
<1>3. PICK c \in {Cqe("respsend", "nodata", FALSE, nicCi), Cqe("respsend", "nodata", TRUE, nicCi),
                  Cqe("resperr", "nodata", FALSE, nicCi)} : cq' = Append(cq, c)
  BY Zenon DEF NicDeliver
<1>4. c \in Completion /\ c.pos = nicCi /\ c.frame = posted[nicCi % Entries]
  <2>1. CASE c = Cqe("respsend", "nodata", FALSE, nicCi)
    <3>1. CqeFields(Cqe("respsend", "nodata", FALSE, nicCi), "respsend", "nodata", nicCi)
      BY Zenon, <1>1, CqeTyped
    <3> QED BY Zenon, <2>1, <3>1 DEF CqeFields
  <2>2. CASE c = Cqe("respsend", "nodata", TRUE, nicCi)
    <3>1. CqeFields(Cqe("respsend", "nodata", TRUE, nicCi), "respsend", "nodata", nicCi)
      BY Zenon, <1>1, CqeTyped
    <3> QED BY Zenon, <2>2, <3>1 DEF CqeFields
  <2>3. CASE c = Cqe("resperr", "nodata", FALSE, nicCi)
    <3>1. CqeFields(Cqe("resperr", "nodata", FALSE, nicCi), "resperr", "nodata", nicCi)
      BY Zenon, <1>1, CqeTyped
    <3> QED BY Zenon, <2>3, <3>1 DEF CqeFields
  <2> QED BY Zenon, <1>3, <2>1, <2>2, <2>3
<1>5. MayReport(c, nicCi')
  BY Zenon, <1>2, <1>4 DEF MayReport
<1>6. WritesCqe(c)
  BY Zenon, <1>2, <1>3, <1>5 DEF WritesCqe
<1>7. CqInv' /\ cq' \in Seq(Completion)
  BY Zenon, <1>1, <1>6, AppendReads
<1> QED BY Zenon, <1>2, <1>7, NicKeeps

LEMMA StrayKeeps ==
    ASSUME RxInv, NicWritesStray
    PROVE  RxInv'
<1>1. RxTypes /\ Indices /\ CqInv /\ nicCi \in Nat
  BY DEF RxInv, RxTypes
<1>2. NicSteps /\ nicCi' = nicCi /\ ci' = ci /\ posted' = posted
  BY DEF NicWritesStray, NicSteps, FramesKept, ringVars, callVars
<1>3. \/ cq' = Append(cq, Cqe("other", "nodata", FALSE, nicCi))
      \/ cq' = Append(cq, Cqe("respsend", "other", FALSE, nicCi))
      \/ nicCi > 0 /\ cq' = Append(cq, Cqe("respsend", "nodata", FALSE, nicCi - 1))
  BY Zenon DEF NicWritesStray
<1>4. \E c : MayReport(c, nicCi') /\ cq' = Append(cq, c)
  <2>1. CASE cq' = Append(cq, Cqe("other", "nodata", FALSE, nicCi))
    <3> DEFINE c == Cqe("other", "nodata", FALSE, nicCi)
    <3>1. CqeFields(c, "other", "nodata", nicCi)
      BY Zenon, <1>1, CqeTyped
    <3> HIDE DEF c
    <3>2. MayReport(c, nicCi')
      BY <3>1 DEF MayReport, Reports, CqeFields
    <3> QED BY Zenon, <2>1, <3>2 DEF c
  <2>2. CASE cq' = Append(cq, Cqe("respsend", "other", FALSE, nicCi))
    <3> DEFINE c == Cqe("respsend", "other", FALSE, nicCi)
    <3>1. CqeFields(c, "respsend", "other", nicCi)
      BY Zenon, <1>1, CqeTyped
    <3> HIDE DEF c
    <3>2. MayReport(c, nicCi')
      BY <3>1 DEF MayReport, Reports, CqeFields
    <3> QED BY Zenon, <2>2, <3>2 DEF c
  <2>3. CASE nicCi > 0 /\ cq' = Append(cq, Cqe("respsend", "nodata", FALSE, nicCi - 1))
    <3>1. nicCi - 1 \in Nat /\ (nicCi - 1) + 1 = nicCi
      BY <1>1, <2>3
    <3> DEFINE c == Cqe("respsend", "nodata", FALSE, nicCi - 1)
    <3>2. CqeFields(c, "respsend", "nodata", nicCi - 1)
      BY Zenon, <1>1, <3>1, CqeTyped
    <3> HIDE DEF c
    <3>3. MayReport(c, nicCi')
      BY Zenon, <1>2, <3>1, <3>2 DEF MayReport, CqeFields
    <3> QED BY Zenon, <2>3, <3>3 DEF c
  <2> QED BY Zenon, <1>3, <2>1, <2>2, <2>3
<1>6. PICK c : WritesCqe(c)
  BY Zenon, <1>2, <1>4 DEF WritesCqe
<1>5. CqInv' /\ cq' \in Seq(Completion)
  BY Zenon, <1>1, <1>6, AppendReads
<1> QED BY Zenon, <1>2, <1>5, NicKeeps

LEMMA LoseKeeps ==
    ASSUME RxInv, NicLoses
    PROVE  RxInv'
<1>1. NicSteps /\ nicCi' = nicCi + 1 /\ PostedCount > 0 /\ ci' = ci /\ posted' = posted /\ cq' = cq
  BY DEF NicLoses, NicSteps, FramesKept, ringVars, callVars
<1>2. RxTypes /\ CqInv /\ nicCi \in Nat
  BY DEF RxInv, RxTypes
<1>3. \A n \in Nat : n < nicCi => n < nicCi'
  BY <1>1, <1>2
<1>4. \A k \in 1 .. Len(cq) : cq[k].pos \in Nat
  BY Zenon, <1>2, CqTyped
<1>5. CqInv' /\ cq' \in Seq(Completion)
  BY Zenon, <1>1, <1>2, <1>3, <1>4 DEF CqInv, Reports, RxTypes, Completion
<1> QED BY Zenon, <1>1, <1>5, NicKeeps

-----------------------------------------------------------------------------
(* The invariant and the theorems. *)

LEMMA PoolStarts ==
    ASSUME Init
    PROVE  /\ pool \in Seq(Frames) /\ Len(pool) = Cardinality(Frames)
           /\ Distinct(pool) /\ Vals(pool) = Frames
<1> DEFINE n == Cardinality(Frames)
<1>1. IsFiniteSet(Frames) /\ n \in Nat
  BY Zenon, BoundsAssumption, FS_CardinalityType
<1>2. IsFiniteSet(1 .. n) /\ Cardinality(1 .. n) = n
  <2>1. IsFiniteSet(1 .. n) /\ Cardinality(1 .. n) = IF 1 > n THEN 0 ELSE n - 1 + 1
    BY <1>1, FS_Interval
  <2> QED BY <1>1, <2>1
<1> HIDE DEF n
<1>3. \A g : g \in [1 .. n -> Frames] => g \in Seq(Frames) /\ Len(g) = n /\ DOMAIN g = 1 .. n
  BY <1>1
<1>4. \E g \in [1 .. n -> Frames] : Elems(g) = Frames
  <2>1. PICK m \in Nat : ExistsBijection(1 .. m, Frames)
    BY Zenon, <1>1, FS_NatBijection
  <2>2. m = n
    BY Zenon, <2>1, FS_CountingElements DEF n
  <2>3. PICK g : g \in Bijection(1 .. n, Frames)
    BY Zenon, <2>1, <2>2 DEF ExistsBijection
  <2>4. g \in [1 .. n -> Frames] /\ \A x \in Frames : \E i \in 1 .. n : g[i] = x
    BY Zenon, <2>3 DEF Bijection, Surjection, Injection
  <2>5. Elems(g) = Frames
    BY Zenon, <1>3, <2>4 DEF Elems
  <2> QED BY Zenon, <2>4, <2>5
<1>5. pool \in [1 .. n -> Frames] /\ Elems(pool) = Frames
  BY Zenon, <1>4 DEF Init, n
<1>6. pool \in Seq(Frames) /\ Len(pool) = n /\ DOMAIN pool = 1 .. n
  BY Zenon, <1>3, <1>5
<1>7. Vals(pool) = Frames
  BY Zenon, <1>5, <1>6 DEF Vals, Elems
<1>8. pool \in Surjection(1 .. n, Frames)
  BY Zenon, <1>5, <1>6 DEF Surjection, Elems
<1>9. pool \in Injection(1 .. n, Frames)
  BY Zenon, <1>2, <1>8, FS_SurjSameCardinalityImpliesInj DEF n
<1>10. Distinct(pool)
  BY Zenon, <1>6, <1>9 DEF Injection, IsInjective, Distinct
<1> QED BY Zenon, <1>6, <1>7, <1>10 DEF n

LEMMA StartsRx == Init => RxInv
<1> SUFFICES ASSUME Init PROVE RxInv
  OBVIOUS
<1>1. /\ pool \in Seq(Frames) /\ Len(pool) = Cardinality(Frames)
      /\ Distinct(pool) /\ Vals(pool) = Frames
  BY PoolStarts
<1>2. /\ app = {} /\ taken = {} /\ failed = <<>> /\ cq = <<>> /\ pi = 0 /\ ci = 0 /\ nicCi = 0
      /\ doorbell = 0 /\ pc = "idle" /\ posted = [s \in 0 .. Entries - 1 |-> NoFrame]
  BY DEF Init
<1>3. RxTypes
  BY <1>1, <1>2 DEF RxTypes
<1>4. Indices
  <2>1. 0 % W = 0
    BY Sizes, ModSmall
  <2> QED BY <1>2, <2>1, Sizes DEF Indices
<1>5. CqInv
  BY <1>2 DEF CqInv
<1>6. Owners
  <2>1. DOMAIN Buffers = {} /\ DOMAIN failed = {}
    BY <1>2 DEF Buffers
  <2>2. Vals(Buffers) = {} /\ Vals(failed) = {} /\ Distinct(Buffers) /\ Distinct(failed)
    BY Zenon, <2>1 DEF Vals, Distinct
  <2> QED BY Zenon, <1>1, <1>2, <2>2 DEF Owners, Owned
<1>7. Count
  <2>1. Cardinality(app) = 0 /\ Cardinality(taken) = 0
    BY Zenon, <1>2, FS_EmptySet
  <2>2. Cardinality(Frames) \in Nat /\ Len(failed) = 0
    BY <1>2, <1>3, Counts
  <2> QED BY <1>1, <1>2, <2>1, <2>2 DEF Count
<1> QED BY <1>3, <1>4, <1>5, <1>6, <1>7 DEF RxInv

LEMMA RxStep == RxInv /\ [Next]_vars => RxInv'
<1> SUFFICES ASSUME RxInv, [Next]_vars PROVE RxInv'
  OBVIOUS
<1>0. LooksMapped
  BY Zenon DEF RxInv, Indices, LooksMapped
<1>1. ASSUME NEW n \in 1 .. MaxBatch, Fill(n) PROVE RxInv'
  <2>1. n \in Nat /\ RxTypes
    BY BoundsAssumption DEF RxInv
  <2> QED BY Zenon, <1>1, <2>1, FillPosts, FillKeeps
<1>2. ASSUME NEW f \in Frames, Recycle(f) PROVE RxInv'
  BY Zenon, <1>2, RecycleKeeps
<1>3. CASE ReceiveCall
  <2>1. RingKept /\ FramesKept /\ LooksMapped'
    BY <1>3 DEF ReceiveCall, RingKept, FramesKept, LooksMapped, ringVars, nicVars
  <2> QED BY Zenon, <2>1, MoveKeeps
<1>4. CASE ReceiveUndecodable
  <2>1. RingKept /\ FramesKept /\ LooksMapped'
    BY <1>0, <1>4 DEF ReceiveUndecodable, RingKept, FramesKept, LooksMapped, ringVars, nicVars, callVars
  <2> QED BY Zenon, <2>1, MoveKeeps
<1>5. CASE ReceiveStray \/ ReceiveMismatch
  <2>1. /\ cq # <<>> /\ cq' = Tail(cq) /\ FramesKept /\ LooksMapped'
        /\ UNCHANGED <<pi, ci, posted, doorbell, nicCi>>
    BY Zenon, <1>0, <1>5
       DEF ReceiveStray, ReceiveMismatch, Consume, Looks, FramesKept, LooksMapped, ringVars, nicVars
  <2> QED BY Zenon, <2>1, SkipKeeps
<1>6. CASE ReceiveBuffer \/ ReceiveReturn
  BY Zenon, <1>6, BufferKeeps, ReturnKeeps
<1>7. CASE PollCall \/ PollLock \/ PollLook
  <2>1. RingKept /\ FramesKept /\ LooksMapped'
    BY <1>7 DEF PollCall, PollLock, PollLook, MovePc, closed, RingKept, FramesKept, LooksMapped,
                ringVars, nicVars, callVars
  <2> QED BY Zenon, <2>1, MoveKeeps
<1>8. CASE CloseSwaps \/ CloseLocks \/ CloseUnmaps
  <2>1. RingKept /\ FramesKept /\ LooksMapped'
    BY <1>0, <1>8 DEF CloseSwaps, CloseLocks, CloseUnmaps, MoveClosing, LockFree, RingKept,
                      FramesKept, LooksMapped, ringVars, nicVars, callVars
  <2> QED BY Zenon, <2>1, MoveKeeps
<1>9. CASE NicDeliver \/ NicLoses \/ NicWritesStray
  BY Zenon, <1>9, DeliverKeeps, LoseKeeps, StrayKeeps
<1>10. CASE UNCHANGED vars
  <2>1. RingKept /\ FramesKept /\ LooksMapped'
    BY <1>0, <1>10 DEF vars, RingKept, FramesKept, LooksMapped, ringVars, nicVars, callVars
  <2> QED BY Zenon, <2>1, MoveKeeps
<1> QED BY Zenon, <1>1, <1>2, <1>3, <1>4, <1>5, <1>6, <1>7, <1>8, <1>9, <1>10 DEF Next

LEMMA RxSafe == Spec => []RxInv
<1> QED BY StartsRx, RxStep, PTL DEF Spec

\* The frame of every posted buffer, and the elements of the lists, as the
\* properties name them.
LEMMA Elements ==
    ASSUME RxTypes
    PROVE  /\ Elems(pool) = Vals(pool) /\ Elems(failed) = Vals(failed)
           /\ {posted[s % Entries] : s \in ci .. pi - 1} = Vals(Buffers)
<1>1. DOMAIN pool = 1 .. Len(pool) /\ DOMAIN failed = 1 .. Len(failed)
  BY DEF RxTypes
<1>2. Elems(pool) = Vals(pool) /\ Elems(failed) = Vals(failed)
  BY Zenon, <1>1 DEF Elems, Vals
<1>3. {posted[s % Entries] : s \in ci .. pi - 1} = Vals(Buffers)
  BY Zenon DEF Vals, Buffers
<1> QED BY <1>2, <1>3

\* No frame that the NIC may still write to is with the application, on the
\* free list or in a call's hands: Fill, Receive and Recycle of
\* mlx5/internal/ring/rx.go, whatever completions the NIC loses or repeats.
THEOREM NoFrameIsShared == Spec => []NoSharedFrame
<1>1. RxInv => NoSharedFrame
  <2> SUFFICES ASSUME RxInv PROVE NoSharedFrame
    OBVIOUS
  <2>1. RxTypes /\ Indices /\ Owners
    BY DEF RxInv
  <2>2. \A s \in nicCi .. pi - 1 : s \in ci .. pi - 1
    BY <2>1 DEF RxTypes, Indices
  <2>3. NicBuffers \subseteq Vals(Buffers)
    BY Zenon, <2>1, <2>2, Elements DEF NicBuffers
  <2> QED BY Zenon, <2>1, <2>3, Elements DEF Owners, Owned, NoSharedFrame
<1> QED BY <1>1, RxSafe, PTL

\* Every frame of the pool has exactly one owner: the free list, the
\* application, a Receive under way or one slot of the ring; none is lost by a
\* failed packet, a dead queue or a full pool.
THEOREM EachFrameOwned == Spec => []OneOwner
<1>1. RxInv => OneOwner
  <2> SUFFICES ASSUME RxInv PROVE OneOwner
    OBVIOUS
  <2>1. RxTypes /\ Owners /\ Count
    BY DEF RxInv
  <2>2. app \cup taken \cup Elems(pool) \cup Elems(failed)
            \cup {posted[s % Entries] : s \in ci .. pi - 1} = Frames
    BY Zenon, <2>1, Elements DEF Owners, Owned
  <2> QED BY Zenon, <2>1, <2>2 DEF OneOwner, Count, Outstanding
<1> QED BY <1>1, RxSafe, PTL

\* The frame that Receive takes for a completion is the one the NIC filled for
\* it: comparing the low bits of the index is enough, for every ring.
THEOREM TakesRightFrame == Spec => []RightFrame
<1>1. RxInv => RightFrame
  <2> SUFFICES ASSUME RxInv, cq # <<>>, cq[1].format = "nodata", ~Stray, Matches(cq[1])
               PROVE  cq[1].frame = posted[Slot]
    BY DEF RightFrame, Looks
  <2>1. RxTypes /\ Indices /\ CqInv
    BY DEF RxInv
  <2>2. Reports(cq[1])
    BY DEF Stray, Reports
  <2>3. cq[1].pos = ci
    BY Zenon, <2>1, <2>2, MatchIsOldest
  <2>4. 1 \in 1 .. Len(cq) /\ ci <= ci
    BY <2>1 DEF RxTypes
  <2> QED BY Zenon, <2>1, <2>2, <2>3, <2>4 DEF CqInv, Slot
<1> QED BY <1>1, RxSafe, PTL

\* Poll never looks at a completion queue that close has unmapped: ringMu and
\* the flag read under it keep the two apart (mlx5/rxqueue.go).
THEOREM PollReadsMapped == Spec => []NoUnmappedRead
<1>1. RxInv => NoUnmappedRead
  BY DEF RxInv, Indices, NoUnmappedRead, mapped
<1> QED BY <1>1, RxSafe, PTL

=============================================================================
