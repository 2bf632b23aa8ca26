---------------------------- MODULE DpdkRxProofs ----------------------------
(***************************************************************************)
(* Proofs about the DPDK receive queue (DpdkRx), for every size of the     *)
(* rings, every burst and whatever the driver draws, frees or forgets.     *)
(*                                                                         *)
(* The invariant has three parts.  Each frame is in exactly one of eight   *)
(* places, and a step moves frames from one place to another (Owned).  The *)
(* count of outstanding frames is what the driver has, or more once it is  *)
(* dead (Counted).  The packets in the buffers the driver has filled are   *)
(* the last to arrive, in order, and those before them are what the caller *)
(* got, then what is in the stash, with the refused ones left out          *)
(* (Numbered).  Poll against Close needs only who holds the lock (Locked). *)
(***************************************************************************)
EXTENDS DpdkRx, FiniteSetTheorems, TLAPS

-----------------------------------------------------------------------------
(* Numbers in order, and frames taken from the free list. *)

LEMMA LeastNumber ==
    ASSUME NEW S \in SUBSET Nat, S # {}
    PROVE  \E m \in S : \A k \in S : m <= k
<1> DEFINE R == OpToRel(<, Nat)
<1>1. \A x, y \in Nat : x < y => <<x, y>> \in R
  BY Zenon DEF OpToRel
<1>2. IsWellFoundedOn(R, Nat)
  BY Zenon, NatLessThanWellFounded
<1> HIDE DEF R
<1>3. PICK m \in S : \A k \in S : ~(<<k, m>> \in R)
  BY Zenon, <1>2, WFMin
<1>4. \A k \in S : ~(k < m)
  BY Zenon, <1>1, <1>3
<1> QED BY <1>4

Increasing(s) == \A i, j \in DOMAIN s : i < j => s[i] < s[j]
Orders(s, S) == s \in [1 .. Cardinality(S) -> S] /\ Increasing(s)

LEMMA Below ==
    ASSUME NEW n \in Nat, NEW S \in SUBSET (1 .. n)
    PROVE  IsFiniteSet(S) /\ Cardinality(S) \in Nat /\ Cardinality(S) <= n
<1>1. IsFiniteSet(1 .. n) /\ Cardinality(1 .. n) = n
  BY FS_Interval
<1>2. IsFiniteSet(S) /\ Cardinality(S) <= n
  BY Zenon, <1>1, FS_Subset
<1> QED BY Zenon, <1>2, FS_CardinalityType

LEMMA OrderedMore ==
    ASSUME NEW m \in Nat, m > 0, NEW T \in SUBSET (1 .. m), m \in T,
           NEW s, Orders(s, T \ {m})
    PROVE  \E t : Orders(t, T)
<1> DEFINE c == Cardinality(T)
           t == [i \in 1 .. c |-> IF i = c THEN m ELSE s[i]]
<1>a. IsFiniteSet(T) /\ c \in Nat
  BY Zenon, Below
<1>b. IsFiniteSet(T \ {m}) /\ Cardinality(T \ {m}) = c - 1
  BY Zenon, <1>a, FS_RemoveElement
<1>c. Cardinality(T \ {m}) \in Nat
  BY Zenon, <1>b, FS_CardinalityType
<1>1. c \in Nat /\ c > 0
  BY <1>a, <1>b, <1>c
<1>2. s \in [1 .. c - 1 -> T \ {m}] /\ \A i, j \in 1 .. c - 1 : i < j => s[i] < s[j]
  <2>1. s \in [1 .. c - 1 -> T \ {m}] /\ \A i, j \in DOMAIN s : i < j => s[i] < s[j]
    BY Zenon, <1>b DEF Orders, Increasing
  <2> QED BY Zenon, <2>1
<1> HIDE DEF c
<1>3. ASSUME NEW i \in 1 .. c - 1 PROVE s[i] \in T /\ s[i] < m
  <2>1. s[i] \in T /\ s[i] \in 1 .. m /\ s[i] # m
    BY Zenon, <1>2
  <2> QED BY <2>1
<1>4. t \in [1 .. c -> T]
  BY <1>1, <1>3
<1>5. ASSUME NEW i \in 1 .. c, NEW j \in 1 .. c, i < j PROVE t[i] < t[j]
  <2>1. i \in 1 .. c - 1 /\ t[i] = s[i]
    BY <1>1, <1>5
  <2>2. CASE j = c
    BY <1>3, <2>1, <2>2
  <2>3. CASE j # c
    <3>1. j \in 1 .. c - 1 /\ t[j] = s[j]
      BY <1>1, <2>3
    <3> QED BY <1>2, <1>5, <2>1, <3>1
  <2> QED BY <2>2, <2>3
<1>6. DOMAIN t = 1 .. c
  OBVIOUS
<1> HIDE DEF t
<1>7. Orders(t, T)
  BY <1>4, <1>5, <1>6 DEF Orders, Increasing, c
<1> QED BY <1>7

LEMMA Ordered ==
    ASSUME NEW n \in Nat, NEW S \in SUBSET (1 .. n)
    PROVE  \E s : Orders(s, S)
<1> DEFINE Bad == {m \in Nat : \E T \in SUBSET (1 .. m) : ~ \E s : Orders(s, T)}
<1>1. SUFFICES ASSUME Bad # {} PROVE FALSE
  BY Zenon
<1>2. PICK m \in Bad : \A k \in Bad : m <= k
  <2>1. Bad \in SUBSET Nat
    BY Zenon
  <2> HIDE DEF Bad
  <2> QED BY Zenon, <1>1, <2>1, LeastNumber
<1>3. m \in Nat
  OBVIOUS
<1>4. PICK T \in SUBSET (1 .. m) : ~ \E s : Orders(s, T)
  BY Zenon
<1>5. \A k \in Nat : k < m => \A U \in SUBSET (1 .. k) : \E s : Orders(s, U)
  BY <1>2
<1> HIDE DEF Bad
<1>6. CASE m = 0
  <2>1. T = {}
    BY <1>6
  <2>2. Cardinality(T) = 0
    BY <2>1, FS_EmptySet
  <2>3. Orders([i \in 1 .. 0 |-> i], T)
    BY <2>1, <2>2 DEF Orders, Increasing
  <2> QED BY Zenon, <1>4, <2>3
<1>7. CASE m > 0 /\ m \notin T
  <2>1. m - 1 \in Nat /\ m - 1 < m /\ T \in SUBSET (1 .. m - 1)
    BY <1>3, <1>7
  <2> QED BY Zenon, <1>4, <1>5, <2>1
<1>8. CASE m > 0 /\ m \in T
  <2>1. m - 1 \in Nat /\ m - 1 < m /\ T \ {m} \in SUBSET (1 .. m - 1)
    BY <1>3, <1>8
  <2>2. PICK s : Orders(s, T \ {m})
    BY Zenon, <1>5, <2>1
  <2> QED BY Zenon, <1>3, <1>4, <1>8, <2>2, OrderedMore
<1> QED BY <1>3, <1>6, <1>7, <1>8

\* InOrder(S) enumerates S.
LEMMA InOrderIs ==
    ASSUME NEW n \in Nat, NEW S \in SUBSET (1 .. n)
    PROVE  /\ Orders(InOrder(S), S)
           /\ \A x \in S : \E i \in 1 .. Cardinality(S) : InOrder(S)[i] = x
<1> DEFINE c == Cardinality(S)
           s == InOrder(S)
<1>1. \E t \in [1 .. c -> S] : \A i, j \in DOMAIN t : i < j => t[i] < t[j]
  BY Zenon, Ordered DEF Orders, Increasing
<1>2. s \in [1 .. c -> S] /\ \A i, j \in DOMAIN s : i < j => s[i] < s[j]
  BY Zenon, <1>1 DEF InOrder
<1>3. Orders(s, S)
  BY <1>2 DEF Orders, Increasing
<1>4. IsFiniteSet(S) /\ c \in Nat
  BY Below
<1> HIDE DEF s, c
<1>5. ASSUME NEW i \in 1 .. c, NEW j \in 1 .. c, s[i] = s[j] PROVE i = j
  <2>0. s[i] \in 1 .. n /\ s[j] \in 1 .. n /\ DOMAIN s = 1 .. c
    BY Zenon, <1>2
  <2>1. s[i] \in Int /\ s[j] \in Int /\ DOMAIN s = 1 .. c
    BY <2>0
  <2>2. ~(i < j) /\ ~(j < i)
    BY <1>2, <1>5, <2>1
  <2> QED BY <1>4, <2>2
<1>6. s \in Injection(1 .. c, S)
  BY Zenon, <1>2, <1>5 DEF Injection, IsInjective
<1>7. Cardinality(1 .. c) = c
  BY <1>4, FS_Interval
<1>8. s \in Surjection(1 .. c, S)
  <2>1. Cardinality(1 .. c) = Cardinality(S)
    BY <1>7 DEF c
  <2> QED BY Zenon, <1>4, <1>6, <2>1, FS_Injection
<1>9. \A x \in S : \E i \in 1 .. c : s[i] = x
  BY Zenon, <1>8 DEF Surjection
<1> QED BY <1>3, <1>9 DEF s, c

\* Some(S, k) lists k elements of S.
LEMMA SomeIs ==
    ASSUME NEW S, IsFiniteSet(S), NEW k \in Nat, k <= Cardinality(S)
    PROVE  /\ Some(S, k) \in [1 .. k -> S]
           /\ \A i, j \in 1 .. k : Some(S, k)[i] = Some(S, k)[j] => i = j
<1>1. Cardinality(S) \in Nat /\ ExistsBijection(1 .. Cardinality(S), S)
  BY FS_CardinalityType
<1>2. PICK f \in [1 .. Cardinality(S) -> S] :
         \A i, j \in 1 .. Cardinality(S) : f[i] = f[j] => i = j
  BY Zenon, <1>1 DEF ExistsBijection, Bijection, Injection, IsInjective
<1> DEFINE g == [i \in 1 .. k |-> f[i]]
<1>3. g \in [1 .. k -> S] /\ \A i, j \in 1 .. k : g[i] = g[j] => i = j
  BY <1>1, <1>2
<1> HIDE DEF g
<1> QED BY Zenon, <1>3 DEF Some

-----------------------------------------------------------------------------
(* Lists of addresses: no frame twice, and the frames in them. *)

Addrs == Frames \cup {Alien}
Distinct(s) == \A i, j \in 1 .. Len(s) : s[i] = s[j] /\ s[i] # Alien => i = j
Real(s) == Elems(s) \ {Alien}

LEMMA RealIs ==
    ASSUME NEW s \in Seq(Addrs)
    PROVE  /\ \A f : f \in Real(s) <=> f # Alien /\ \E i \in 1 .. Len(s) : s[i] = f
           /\ Real(s) \in SUBSET Frames
           /\ \A i \in 1 .. Len(s) : s[i] \in Frames => s[i] \in Real(s)
<1>1. \A f : f \in Real(s) <=> f # Alien /\ \E i \in 1 .. Len(s) : s[i] = f
  BY Zenon DEF Real, Elems
<1>2. \A i \in 1 .. Len(s) : s[i] \in Frames \/ s[i] = Alien
  BY DEF Addrs
<1>3. Alien \notin Frames
  BY DpdkRxAssumption
<1> QED BY Zenon, <1>1, <1>2, <1>3

LEMMA SubSeqIs ==
    ASSUME NEW T, NEW s \in Seq(T), NEW k \in 0 .. Len(s)
    PROVE  /\ SubSeq(s, 1, k) \in Seq(T) /\ DropFirst(s, k) \in Seq(T)
           /\ Len(SubSeq(s, 1, k)) = k /\ Len(DropFirst(s, k)) = Len(s) - k
           /\ \A i \in 1 .. k : SubSeq(s, 1, k)[i] = s[i]
           /\ \A i \in 1 .. Len(s) - k : DropFirst(s, k)[i] = s[i + k]
BY DEF DropFirst

LEMMA JoinIs ==
    ASSUME NEW T, NEW s \in Seq(T), NEW t \in Seq(T)
    PROVE  /\ s \o t \in Seq(T) /\ Len(s \o t) = Len(s) + Len(t)
           /\ \A i \in 1 .. Len(s) : (s \o t)[i] = s[i]
           /\ \A i \in 1 .. Len(t) : (s \o t)[Len(s) + i] = t[i]
OBVIOUS

LEMMA Joined ==
    ASSUME NEW x \in Seq(Nat), NEW y \in Seq(Nat), NEW z \in Seq(Nat),
           Len(z) = Len(x) + Len(y),
           \A i \in 1 .. Len(x) : z[i] = x[i],
           \A i \in 1 .. Len(y) : z[i + Len(x)] = y[i]
    PROVE  z = x \o y
<1> DEFINE w == x \o y
<1>1. /\ w \in Seq(Nat) /\ Len(w) = Len(x) + Len(y) /\ Len(x) \in Nat /\ Len(y) \in Nat
      /\ \A i \in 1 .. Len(x) : w[i] = x[i]
      /\ \A i \in 1 .. Len(y) : w[Len(x) + i] = y[i]
  OBVIOUS
<1> HIDE DEF w
<1>2. ASSUME NEW i \in 1 .. Len(x) + Len(y) PROVE z[i] = w[i]
  <2>1. CASE i \in 1 .. Len(x)
    BY Zenon, <1>1, <2>1
  <2>2. CASE i - Len(x) \in 1 .. Len(y)
    <3>1. /\ w[Len(x) + (i - Len(x))] = y[i - Len(x)]
          /\ z[(i - Len(x)) + Len(x)] = y[i - Len(x)]
      BY Zenon, <1>1, <2>2
    <3>2. Len(x) + (i - Len(x)) = i /\ (i - Len(x)) + Len(x) = i
      BY <1>1
    <3> QED BY Zenon, <3>1, <3>2
  <2> QED BY <1>1, <2>1, <2>2
<1>3. z = w
  BY <1>1, <1>2
<1> QED BY Zenon, <1>3 DEF w

LEMMA JoinedTwice ==
    ASSUME NEW x \in Seq(Nat), NEW y \in Seq(Nat), NEW z \in Seq(Nat)
    PROVE  (x \o y) \o z = x \o (y \o z)
OBVIOUS

LEMMA AppendIs ==
    ASSUME NEW T, NEW s \in Seq(T), NEW x \in T
    PROVE  /\ Append(s, x) \in Seq(T) /\ Len(Append(s, x)) = Len(s) + 1
           /\ \A i \in 1 .. Len(s) : Append(s, x)[i] = s[i]
           /\ Append(s, x)[Len(s) + 1] = x
OBVIOUS

LEMMA TailIs ==
    ASSUME NEW T, NEW s \in Seq(T), s # <<>>
    PROVE  /\ Head(s) = s[1] /\ Head(s) \in T /\ Tail(s) \in Seq(T)
           /\ Len(s) \in Nat /\ Len(s) > 0 /\ Len(Tail(s)) = Len(s) - 1
           /\ \A i \in 1 .. Len(s) - 1 : Tail(s)[i] = s[i + 1]
OBVIOUS

\* u is what is left of s when its first k, a, are gone.
Cut(s, k, a, u) ==
    /\ Len(a) = k /\ Len(u) = Len(s) - k
    /\ \A i \in 1 .. k : a[i] = s[i]
    /\ \A i \in 1 .. Len(s) - k : u[i] = s[i + k]

LEMMA CutKeeps ==
    ASSUME NEW s \in Seq(Addrs), NEW a \in Seq(Addrs), NEW u \in Seq(Addrs),
           NEW k \in 0 .. Len(s), Cut(s, k, a, u), Distinct(s)
    PROVE  /\ Distinct(a) /\ Distinct(u)
           /\ Real(a) \in SUBSET Real(s) /\ Real(u) = Real(s) \ Real(a)
<1> USE DEF Cut
<1>1. Distinct(a)
  BY DEF Distinct
<1>2. Distinct(u)
  <2> SUFFICES ASSUME NEW i \in 1 .. Len(u), NEW j \in 1 .. Len(u), u[i] = u[j], u[i] # Alien
               PROVE  i = j
    BY Zenon DEF Distinct
  <2>1. i + k \in 1 .. Len(s) /\ j + k \in 1 .. Len(s) /\ u[i] = s[i + k] /\ u[j] = s[j + k]
    OBVIOUS
  <2>2. i + k = j + k
    BY Zenon, <2>1 DEF Distinct
  <2> QED BY <2>2
<1>3. ASSUME NEW f \in Real(a) PROVE f \in Real(s) /\ f \notin Real(u)
  <2>1. PICK i \in 1 .. Len(a) : a[i] = f /\ f # Alien
    BY Zenon, RealIs
  <2>2. i \in 1 .. Len(s) /\ i <= k /\ s[i] = f
    BY <2>1
  <2>3. f \in Real(s)
    BY Zenon, <2>1, <2>2, RealIs
  <2>4. ASSUME f \in Real(u) PROVE FALSE
    <3>1. PICK j \in 1 .. Len(u) : u[j] = f
      BY Zenon, <2>4, RealIs
    <3>2. j + k \in 1 .. Len(s) /\ s[j + k] = f
      BY <3>1
    <3>3. j + k = i
      BY Zenon, <2>1, <2>2, <3>2 DEF Distinct
    <3> QED BY <2>2, <3>3
  <2> QED BY Zenon, <2>3, <2>4
<1>4. ASSUME NEW f \in Real(u) PROVE f \in Real(s)
  <2>1. PICK i \in 1 .. Len(u) : u[i] = f /\ f # Alien
    BY Zenon, RealIs
  <2>2. i + k \in 1 .. Len(s) /\ s[i + k] = f
    BY <2>1
  <2> QED BY Zenon, <2>1, <2>2, RealIs
<1>5. ASSUME NEW f \in Real(s), f \notin Real(a) PROVE f \in Real(u)
  <2>0. \A x : x \in Real(s) => x # Alien /\ \E i \in 1 .. Len(s) : s[i] = x
    BY Zenon, RealIs
  <2>1. PICK i \in 1 .. Len(s) : s[i] = f /\ f # Alien
    BY Zenon, <2>0
  <2>2. ~(i <= k)
    <3>1. ASSUME i <= k PROVE i \in 1 .. Len(a) /\ a[i] = f
      BY <2>1, <3>1
    <3> QED BY Zenon, <1>5, <2>1, <3>1, RealIs
  <2>3. i - k \in 1 .. Len(u) /\ u[i - k] = f
    BY <2>1, <2>2
  <2> QED BY Zenon, <2>1, <2>3, RealIs
<1> QED BY Zenon, <1>1, <1>2, <1>3, <1>4, <1>5

LEMMA JoinKeeps ==
    ASSUME NEW s \in Seq(Addrs), NEW t \in Seq(Addrs), Distinct(s), Distinct(t),
           Real(s) \cap Real(t) = {}
    PROVE  Distinct(s \o t) /\ Real(s \o t) = Real(s) \cup Real(t)
<1> DEFINE u == s \o t
<1>1. /\ u \in Seq(Addrs) /\ Len(u) = Len(s) + Len(t)
      /\ \A i \in 1 .. Len(s) : u[i] = s[i]
      /\ \A i \in 1 .. Len(t) : u[Len(s) + i] = t[i]
  OBVIOUS
<1>2. Len(s) \in Nat /\ Len(t) \in Nat
  OBVIOUS
<1> HIDE DEF u
<1>3. ASSUME NEW i \in 1 .. Len(u)
      PROVE  \/ i \in 1 .. Len(s) /\ u[i] = s[i]
             \/ i - Len(s) \in 1 .. Len(t) /\ u[i] = t[i - Len(s)]
  <2>1. i \in 1 .. Len(s) \/ i - Len(s) \in 1 .. Len(t)
    BY <1>1, <1>2
  <2>2. i = Len(s) + (i - Len(s))
    BY <1>2
  <2> QED BY Zenon, <1>1, <2>1, <2>2
<1>4. ASSUME NEW f PROVE f \in Real(u) <=> f \in Real(s) \/ f \in Real(t)
  <2>1. ASSUME NEW i \in 1 .. Len(s) PROVE i \in 1 .. Len(u)
    BY <1>1, <1>2
  <2>2. ASSUME NEW i \in 1 .. Len(t) PROVE Len(s) + i \in 1 .. Len(u)
    BY <1>1, <1>2
  <2>3. f \in Real(u) <=> f # Alien /\ \E i \in 1 .. Len(u) : u[i] = f
    BY Zenon, <1>1, RealIs
  <2>4. f \in Real(s) <=> f # Alien /\ \E i \in 1 .. Len(s) : s[i] = f
    BY Zenon, RealIs
  <2>5. f \in Real(t) <=> f # Alien /\ \E i \in 1 .. Len(t) : t[i] = f
    BY Zenon, RealIs
  <2>6. ASSUME f \in Real(u) PROVE f \in Real(s) \/ f \in Real(t)
    BY Zenon, <1>3, <2>3, <2>4, <2>5, <2>6
  <2>7. ASSUME f \in Real(s) \/ f \in Real(t) PROVE f \in Real(u)
    BY Zenon, <1>1, <2>1, <2>2, <2>3, <2>4, <2>5, <2>7
  <2> QED BY Zenon, <2>6, <2>7
<1>5. ASSUME NEW i \in 1 .. Len(u), NEW j \in 1 .. Len(u), u[i] = u[j], u[i] # Alien
      PROVE  i = j
  <2>1. CASE i \in 1 .. Len(s) /\ u[i] = s[i] /\ j \in 1 .. Len(s) /\ u[j] = s[j]
    BY Zenon, <1>5, <2>1 DEF Distinct
  <2>2. CASE /\ i - Len(s) \in 1 .. Len(t) /\ u[i] = t[i - Len(s)]
             /\ j - Len(s) \in 1 .. Len(t) /\ u[j] = t[j - Len(s)]
    <3>1. i - Len(s) = j - Len(s)
      BY Zenon, <1>5, <2>2 DEF Distinct
    <3> QED BY <1>2, <3>1
  <2>3. CASE \/ /\ i \in 1 .. Len(s) /\ u[i] = s[i]
                /\ j - Len(s) \in 1 .. Len(t) /\ u[j] = t[j - Len(s)]
             \/ /\ j \in 1 .. Len(s) /\ u[j] = s[j]
                /\ i - Len(s) \in 1 .. Len(t) /\ u[i] = t[i - Len(s)]
    <3>1. u[i] \in Real(s) /\ u[i] \in Real(t)
      BY Zenon, <1>5, <2>3, RealIs
    <3> QED BY Zenon, <3>1
  <2> QED BY Zenon, <1>3, <2>1, <2>2, <2>3
<1>6. Distinct(u)
  BY Zenon, <1>5 DEF Distinct
<1> QED BY Zenon, <1>4, <1>6 DEF u

LEMMA AppendKeeps ==
    ASSUME NEW s \in Seq(Addrs), NEW f \in Addrs, Distinct(s), f \notin Real(s)
    PROVE  /\ Distinct(Append(s, f))
           /\ f \in Frames => Real(Append(s, f)) = Real(s) \cup {f}
           /\ f = Alien => Real(Append(s, f)) = Real(s)
<1> DEFINE b == <<f>>
           u == Append(s, f)
<1>1. b \in Seq(Addrs) /\ u = s \o b /\ Len(b) = 1 /\ b[1] = f
  OBVIOUS
<1> HIDE DEF b, u
<1>2. \A x : x \in Real(b) <=> x # Alien /\ x = f
  <2>1. \A x : x \in Real(b) <=> x # Alien /\ \E i \in 1 .. Len(b) : b[i] = x
    BY Zenon, <1>1, RealIs
  <2>2. \A i : i \in 1 .. Len(b) <=> i = 1
    BY <1>1
  <2> QED BY Zenon, <1>1, <2>1, <2>2
<1>3. Distinct(b)
  BY <1>1 DEF Distinct
<1>4. Distinct(s \o b) /\ Real(s \o b) = Real(s) \cup Real(b)
  <2>1. ASSUME NEW x, x \in Real(s), x \in Real(b) PROVE FALSE
    <3>1. x = f
      BY Zenon, <1>2, <2>1
    <3> QED BY <2>1, <3>1
  <2>2. Real(s) \cap Real(b) = {}
    BY Zenon, <2>1
  <2> QED BY Zenon, <1>1, <1>3, <2>2, JoinKeeps
<1>5. Alien \notin Frames
  BY DpdkRxAssumption
<1>6. Distinct(u) /\ Real(u) = Real(s) \cup Real(b)
  BY Zenon, <1>1, <1>4
<1> QED BY Zenon, <1>2, <1>5, <1>6 DEF u

\* Taking the head of a list of frames.
LEMMA TailKeeps ==
    ASSUME NEW s \in Seq(Frames), s # <<>>, Distinct(s)
    PROVE  /\ Distinct(Tail(s)) /\ Head(s) \in Real(s) /\ Head(s) \in Frames
           /\ Real(Tail(s)) = Real(s) \ {Head(s)}
<1> DEFINE a == <<Head(s)>>
<1>1. /\ Head(s) = s[1] /\ Head(s) \in Frames /\ Tail(s) \in Seq(Frames)
      /\ Len(s) \in Nat /\ Len(s) > 0 /\ Len(Tail(s)) = Len(s) - 1
      /\ \A i \in 1 .. Len(s) - 1 : Tail(s)[i] = s[i + 1]
  BY Zenon, TailIs
<1>2. s \in Seq(Addrs) /\ Tail(s) \in Seq(Addrs) /\ a \in Seq(Addrs)
  BY <1>1 DEF Addrs
<1>3. Len(a) = 1 /\ a[1] = s[1]
  BY <1>1
<1> HIDE DEF a
<1>4. Cut(s, 1, a, Tail(s)) /\ 1 \in 0 .. Len(s) /\ 1 \in 1 .. Len(s)
  BY <1>1, <1>3 DEF Cut
<1>5. /\ Distinct(Tail(s))
      /\ Real(a) \in SUBSET Real(s) /\ Real(Tail(s)) = Real(s) \ Real(a)
  BY Zenon, <1>2, <1>4, CutKeeps
<1>6. Alien \notin Frames
  BY DpdkRxAssumption
<1>7. \A x : x \in Real(a) <=> x = Head(s)
  <2>1. \A i : i \in 1 .. Len(a) <=> i = 1
    BY <1>3
  <2>2. \A x : x \in Real(a) <=> x # Alien /\ \E i \in 1 .. Len(a) : a[i] = x
    BY Zenon, <1>2, RealIs
  <2>3. a[1] = Head(s) /\ Head(s) # Alien
    BY Zenon, <1>1, <1>3, <1>6
  <2> QED BY Zenon, <2>1, <2>2, <2>3
<1> QED BY Zenon, <1>1, <1>5, <1>7

-----------------------------------------------------------------------------
(* Filled buffers, and what a burst makes of them. *)

Filled == {p \in [frame : Addrs, id : Nat, kind : {"good", "bad", Alien}] :
              p.kind = Alien <=> p.frame = Alien}
Good == {p \in Filled : p.kind = "good"}

LEMMA FilledIs ==
    ASSUME NEW p \in Filled
    PROVE  /\ p.frame \in Addrs /\ p.id \in Nat /\ p.kind \in {"good", "bad", Alien}
           /\ p.kind = Alien <=> p.frame = Alien
           /\ p.kind # Alien => p.frame \in Frames
BY DEF Filled, Addrs

LEMMA FramesOfIs ==
    ASSUME NEW s \in Seq(Filled)
    PROVE  /\ FramesOf(s) \in Seq(Addrs) /\ Len(FramesOf(s)) = Len(s) /\ Len(s) \in Nat
           /\ \A i \in 1 .. Len(s) : FramesOf(s)[i] = s[i].frame
<1>1. \A i \in 1 .. Len(s) : s[i].frame \in Addrs
  BY FilledIs
<1> QED BY <1>1 DEF FramesOf

LEMMA IdsOfIs ==
    ASSUME NEW s \in Seq(Filled)
    PROVE  /\ IdsOf(s) \in Seq(Nat) /\ Len(IdsOf(s)) = Len(s) /\ Len(s) \in Nat
           /\ \A i \in 1 .. Len(s) : IdsOf(s)[i] = s[i].id
<1>1. \A i \in 1 .. Len(s) : s[i].id \in Nat
  BY FilledIs
<1> QED BY <1>1 DEF IdsOf

LEMMA GoodIs ==
    ASSUME NEW s \in Seq(Good)
    PROVE  s \in Seq(Filled) /\ \A i \in 1 .. Len(s) : s[i] \in Filled /\ s[i].kind = "good"
BY DEF Good

\* The frames of the first k, and of the rest.
LEMMA FramesCut ==
    ASSUME NEW s \in Seq(Filled), NEW k \in 0 .. Len(s), Distinct(FramesOf(s))
    PROVE  LET a == FramesOf(SubSeq(s, 1, k))
               u == FramesOf(DropFirst(s, k))
           IN  /\ a \in Seq(Addrs) /\ u \in Seq(Addrs)
               /\ Distinct(a) /\ Distinct(u)
               /\ Real(a) \in SUBSET Real(FramesOf(s)) /\ Real(u) = Real(FramesOf(s)) \ Real(a)
<1> DEFINE b == SubSeq(s, 1, k)
           c == DropFirst(s, k)
           a == FramesOf(b)
           u == FramesOf(c)
           f == FramesOf(s)
<1>1. /\ b \in Seq(Filled) /\ c \in Seq(Filled)
      /\ Len(b) = k /\ Len(c) = Len(s) - k
      /\ \A i \in 1 .. k : b[i] = s[i]
      /\ \A i \in 1 .. Len(s) - k : c[i] = s[i + k]
  BY Zenon, SubSeqIs
<1> HIDE DEF b, c
<1>2. a \in Seq(Addrs) /\ Len(a) = Len(b) /\ \A i \in 1 .. Len(b) : a[i] = b[i].frame
  BY Zenon, <1>1, FramesOfIs
<1>3. u \in Seq(Addrs) /\ Len(u) = Len(c) /\ \A i \in 1 .. Len(c) : u[i] = c[i].frame
  BY Zenon, <1>1, FramesOfIs
<1>4. /\ f \in Seq(Addrs) /\ Len(f) = Len(s) /\ Len(s) \in Nat
      /\ \A i \in 1 .. Len(s) : f[i] = s[i].frame
  BY Zenon, FramesOfIs
<1> HIDE DEF a, u, f
<1>5. Cut(f, k, a, u)
  <2>1. \A i \in 1 .. k : i \in 1 .. Len(s)
    BY <1>4
  <2>2. \A i \in 1 .. Len(s) - k : i + k \in 1 .. Len(s)
    BY <1>4
  <2>3. \A i \in 1 .. k : a[i] = f[i]
    BY Zenon, <1>1, <1>2, <1>4, <2>1
  <2>4. ASSUME NEW i \in 1 .. Len(f) - k PROVE u[i] = f[i + k]
    <3>1. i \in 1 .. Len(s) - k /\ i \in 1 .. Len(c)
      BY Zenon, <1>1, <1>4
    <3>2. u[i] = s[i + k].frame
      BY Zenon, <1>1, <1>3, <3>1
    <3>3. f[i + k] = s[i + k].frame
      BY Zenon, <1>4, <2>2, <3>1
    <3> QED BY Zenon, <3>2, <3>3
  <2> QED BY Zenon, <1>1, <1>2, <1>3, <1>4, <2>3, <2>4 DEF Cut
<1>6. Distinct(f) /\ k \in 0 .. Len(f)
  BY Zenon, <1>4 DEF f
<1>7. /\ Distinct(a) /\ Distinct(u)
      /\ Real(a) \in SUBSET Real(f) /\ Real(u) = Real(f) \ Real(a)
  BY Zenon, <1>2, <1>3, <1>4, <1>5, <1>6, CutKeeps
<1> QED BY Zenon, <1>2, <1>3, <1>7 DEF a, u, f, b, c

LEMMA FramesJoin ==
    ASSUME NEW s \in Seq(Filled), NEW t \in Seq(Filled)
    PROVE  FramesOf(s \o t) = FramesOf(s) \o FramesOf(t)
BY DEF FramesOf

LEMMA IdsJoin ==
    ASSUME NEW s \in Seq(Filled), NEW t \in Seq(Filled)
    PROVE  IdsOf(s \o t) = IdsOf(s) \o IdsOf(t)
BY DEF IdsOf

LEMMA FramesAppend ==
    ASSUME NEW s \in Seq(Filled), NEW x \in Filled
    PROVE  FramesOf(Append(s, x)) = Append(FramesOf(s), x.frame)
BY DEF FramesOf

GoodAt(b) == {i \in DOMAIN b : b[i].kind = "good"}

\* o says where in b the elements of d are: at the good ones, in order.
Picks(o, d, b) ==
    /\ o \in [1 .. Len(d) -> 1 .. Len(b)]
    /\ \A i, j \in 1 .. Len(d) : i < j => o[i] < o[j]
    /\ \A i \in 1 .. Len(d) : d[i] = b[o[i]] /\ b[o[i]].kind = "good"
    /\ \A x \in 1 .. Len(b) : b[x].kind = "good" => \E i \in 1 .. Len(d) : o[i] = x

LEMMA DeliveredIs ==
    ASSUME NEW b \in Seq(Filled)
    PROVE  Delivered(b) \in Seq(Good) /\ \E o : Picks(o, Delivered(b), b)
<1> DEFINE S == GoodAt(b)
           o == InOrder(S)
           c == Cardinality(S)
           d == [i \in 1 .. c |-> b[o[i]]]
<1>1. Len(b) \in Nat /\ DOMAIN b = 1 .. Len(b)
  OBVIOUS
<1>2. S \in SUBSET (1 .. Len(b)) /\ \A x : x \in S <=> x \in 1 .. Len(b) /\ b[x].kind = "good"
  BY Zenon, <1>1 DEF GoodAt
<1>3. Delivered(b) = d
  BY Zenon DEF Delivered, GoodAt
<1> HIDE DEF S
<1>4. Orders(o, S) /\ \A x \in S : \E i \in 1 .. c : o[i] = x
  BY Zenon, <1>1, <1>2, InOrderIs
<1>5. c \in Nat
  BY Zenon, <1>1, <1>2, Below
<1>6. o \in [1 .. c -> S] /\ DOMAIN o = 1 .. c /\ \A i, j \in 1 .. c : i < j => o[i] < o[j]
  BY Zenon, <1>4 DEF Orders, Increasing
<1> HIDE DEF o, c
<1>7. \A i \in 1 .. c : o[i] \in 1 .. Len(b) /\ b[o[i]].kind = "good"
  BY Zenon, <1>2, <1>6
<1>8. \A i \in 1 .. c : b[o[i]] \in Good
  <2>1. \A x \in 1 .. Len(b) : b[x] \in Filled
    OBVIOUS
  <2> QED BY Zenon, <1>7, <2>1 DEF Good
<1>9. d \in Seq(Good) /\ Len(d) = c /\ \A i \in 1 .. c : d[i] = b[o[i]]
  BY <1>5, <1>8
<1> HIDE DEF d
<1>10. o \in [1 .. c -> 1 .. Len(b)]
  BY Zenon, <1>6, <1>7
<1>11. \A x \in 1 .. Len(b) : b[x].kind = "good" => \E i \in 1 .. c : o[i] = x
  BY Zenon, <1>2, <1>4 DEF o, c
<1>12. Picks(o, d, b)
  BY Zenon, <1>6, <1>7, <1>9, <1>10, <1>11 DEF Picks
<1> QED BY Zenon, <1>3, <1>9, <1>12

\* The frames of a burst: those that go home and those that are delivered.
LEMMA BurstFrames ==
    ASSUME NEW b \in Seq(Filled), NEW d \in Seq(Good), NEW o, Picks(o, d, b),
           Distinct(FramesOf(b))
    PROVE  /\ Distinct(FramesOf(d)) /\ FramesOf(d) \in Seq(Addrs)
           /\ \A f : f \in Real(FramesOf(b)) <=> f \in Home(b) \/ f \in Real(FramesOf(d))
           /\ \A f : ~(f \in Home(b) /\ f \in Real(FramesOf(d)))
<1> DEFINE u == FramesOf(b)
           v == FramesOf(d)
<1>1. /\ u \in Seq(Addrs) /\ Len(u) = Len(b)
      /\ \A i \in 1 .. Len(b) : u[i] = b[i].frame
  BY Zenon, FramesOfIs
<1>2. d \in Seq(Filled) /\ Len(d) \in Nat
  BY GoodIs
<1>3. v \in Seq(Addrs) /\ Len(v) = Len(d) /\ \A i \in 1 .. Len(d) : v[i] = d[i].frame
  BY Zenon, <1>2, FramesOfIs
<1>4. ASSUME NEW i \in 1 .. Len(d)
      PROVE  o[i] \in 1 .. Len(b) /\ v[i] = u[o[i]] /\ b[o[i]].kind = "good"
  <2>1. o[i] \in 1 .. Len(b) /\ d[i] = b[o[i]] /\ b[o[i]].kind = "good"
    BY Zenon DEF Picks
  <2>2. v[i] = d[i].frame
    BY Zenon, <1>3
  <2>3. u[o[i]] = b[o[i]].frame
    BY Zenon, <1>1, <2>1
  <2> QED BY Zenon, <2>1, <2>2, <2>3
<1>5. \A i \in 1 .. Len(b) : /\ b[i].kind \in {"good", "bad", Alien}
                             /\ b[i].kind = Alien <=> b[i].frame = Alien
  BY FilledIs
<1>6. \A f : f \in Home(b) <=> \E i \in 1 .. Len(b) : b[i].kind = "bad" /\ b[i].frame = f
  BY Zenon DEF Home, Elems
<1>7. /\ \A i, j \in 1 .. Len(b) : u[i] = u[j] /\ u[i] # Alien => i = j
      /\ \A f : f \in Real(u) <=> f # Alien /\ \E i \in 1 .. Len(b) : u[i] = f
  BY Zenon, <1>1, RealIs DEF Distinct
<1>8. \A f : f \in Real(v) <=> f # Alien /\ \E i \in 1 .. Len(d) : v[i] = f
  BY Zenon, <1>3, RealIs
<1>9. \A i \in 1 .. Len(d) : v[i] # Alien
  <2>1. "good" # Alien
    BY DEF Alien
  <2> QED BY Zenon, <1>1, <1>4, <1>5, <2>1
<1>k. "bad" # Alien /\ "bad" # "good"
  BY DEF Alien
<1> HIDE DEF u, v
<1>10. Distinct(v)
  <2> SUFFICES ASSUME NEW i \in 1 .. Len(d), NEW j \in 1 .. Len(d), v[i] = v[j] PROVE i = j
    BY Zenon, <1>3 DEF Distinct
  <2>0. /\ o[i] \in 1 .. Len(b) /\ v[i] = u[o[i]]
        /\ o[j] \in 1 .. Len(b) /\ v[j] = u[o[j]] /\ v[i] # Alien
    BY Zenon, <1>4, <1>9
  <2>1. o[i] = o[j]
    BY Zenon, <1>7, <2>0
  <2>2. o[i] \in Int /\ o[j] \in Int
    BY <1>4
  <2>3. \A p, q \in 1 .. Len(d) : p < q => o[p] < o[q]
    BY Zenon DEF Picks
  <2> QED BY <1>2, <2>1, <2>2, <2>3
<1>11. ASSUME NEW f \in Real(u) PROVE f \in Home(b) \/ f \in Real(v)
  <2>1. PICK i \in 1 .. Len(b) : u[i] = f /\ f # Alien
    BY Zenon, <1>1, <1>7
  <2>2. CASE b[i].kind = "bad"
    BY Zenon, <1>1, <1>6, <2>1, <2>2
  <2>3. CASE b[i].kind = "good"
    <3>1. PICK k \in 1 .. Len(d) : o[k] = i
      BY Zenon, <2>3 DEF Picks
    <3> QED BY Zenon, <1>3, <1>4, <1>8, <2>1, <3>1
  <2> QED BY Zenon, <1>1, <1>5, <2>1, <2>2, <2>3
<1>12. ASSUME NEW f \in Home(b) PROVE f \in Real(u)
  <2>1. PICK i \in 1 .. Len(b) : b[i].kind = "bad" /\ b[i].frame = f
    BY Zenon, <1>6
  <2>2. u[i] = f /\ f # Alien
    BY Zenon, <1>1, <1>5, <1>k, <2>1
  <2> QED BY Zenon, <1>7, <2>2
<1>13. ASSUME NEW f \in Real(v) PROVE f \in Real(u)
  <2>1. PICK i \in 1 .. Len(d) : f # Alien /\ v[i] = f
    BY Zenon, <1>8
  <2>2. o[i] \in 1 .. Len(b) /\ u[o[i]] = f
    BY Zenon, <1>4, <2>1
  <2> QED BY Zenon, <1>7, <2>1, <2>2
<1>14. ASSUME NEW f, f \in Home(b), f \in Real(v) PROVE FALSE
  <2>1. PICK i \in 1 .. Len(b) : b[i].kind = "bad" /\ u[i] = f
    BY Zenon, <1>1, <1>6, <1>14
  <2>2. PICK j \in 1 .. Len(d) : v[j] = f
    BY Zenon, <1>3, <1>8, <1>14
  <2>3. i = o[j]
    <3>1. o[j] \in 1 .. Len(b) /\ u[o[j]] = f /\ f # Alien
      BY Zenon, <1>4, <1>9, <2>2
    <3> QED BY Zenon, <1>7, <2>1, <3>1
  <2> QED BY Zenon, <1>4, <1>k, <2>1, <2>3
<1> QED BY Zenon, <1>3, <1>10, <1>11, <1>12, <1>13, <1>14 DEF u, v

\* How many of the places of a list are not in a set.
LEMMA CountPlaces ==
    ASSUME NEW n \in Nat, NEW S \in SUBSET (1 .. n)
    PROVE  Cardinality(S) \in 0 .. n /\ (S = 1 .. n => Cardinality(S) = n)
<1>1. Cardinality(S) \in Nat /\ Cardinality(S) <= n
  BY Zenon, Below
<1>2. Cardinality(1 .. n) = n
  BY FS_Interval
<1> QED BY <1>1, <1>2

LEMMA TakenIs ==
    ASSUME NEW b \in Seq(Filled)
    PROVE  Taken(b) \in 0 .. Len(b) /\ (Alien \notin Elems(FramesOf(b)) => Taken(b) = Len(b))
<1> DEFINE S == {i \in DOMAIN b : b[i].kind # Alien}
<1>1. Len(b) \in Nat /\ DOMAIN b = 1 .. Len(b)
  OBVIOUS
<1>2. S \in SUBSET (1 .. Len(b)) /\ Taken(b) = Cardinality(S)
  BY Zenon, <1>1 DEF Taken
<1>3. ASSUME Alien \notin Elems(FramesOf(b)) PROVE S = 1 .. Len(b)
  <2>1. Len(FramesOf(b)) = Len(b) /\ \A i \in 1 .. Len(b) : FramesOf(b)[i] = b[i].frame
    BY Zenon, FramesOfIs
  <2>2. \A i \in 1 .. Len(b) : b[i].frame # Alien
    BY Zenon, <1>3, <2>1 DEF Elems
  <2>3. \A i \in 1 .. Len(b) : b[i].kind # Alien
    BY <2>2, FilledIs
  <2> QED BY Zenon, <1>1, <2>3
<1> HIDE DEF S
<1> QED BY Zenon, <1>1, <1>2, <1>3, CountPlaces

\* The numbers of a burst: those delivered, in order, and those refused.
LEMMA BurstIds ==
    ASSUME NEW b \in Seq(Filled), NEW d \in Seq(Good), NEW o, Picks(o, d, b),
           NEW n \in Nat, \A i \in 1 .. Len(b) : b[i].id = n + i
    PROVE  /\ IdsOf(d) \in Seq(Nat)
           /\ \A i, j \in 1 .. Len(IdsOf(d)) : i < j => IdsOf(d)[i] < IdsOf(d)[j]
           /\ \A x : (\/ \E i \in 1 .. Len(IdsOf(d)) : IdsOf(d)[i] = x
                      \/ x \in {c.id : c \in {p \in Elems(b) : p.kind # "good"}})
                     <=> x \in n + 1 .. n + Len(b)
<1> DEFINE v == IdsOf(d)
           R == {c.id : c \in {p \in Elems(b) : p.kind # "good"}}
<1>1. d \in Seq(Filled) /\ Len(d) \in Nat /\ Len(b) \in Nat
  BY GoodIs
<1>2. v \in Seq(Nat) /\ Len(v) = Len(d) /\ \A i \in 1 .. Len(d) : v[i] = d[i].id
  BY Zenon, <1>1, IdsOfIs
<1>3. \A i \in 1 .. Len(d) : o[i] \in 1 .. Len(b) /\ v[i] = b[o[i]].id
  BY Zenon, <1>2 DEF Picks
<1>4. \A i \in 1 .. Len(d) : o[i] \in 1 .. Len(b) /\ v[i] = n + o[i]
  BY Zenon, <1>3
<1>5. \A x : x \in R <=> \E i \in 1 .. Len(b) : b[i].kind # "good" /\ b[i].id = x
  BY Zenon DEF Elems
<1>6. \A x : x \in R <=> \E i \in 1 .. Len(b) : b[i].kind # "good" /\ n + i = x
  BY Zenon, <1>5
<1>7. \A i, j \in 1 .. Len(d) : i < j => o[i] < o[j]
  BY Zenon DEF Picks
<1>8. \A x \in 1 .. Len(b) : b[x].kind = "good" => \E i \in 1 .. Len(d) : o[i] = x
  BY Zenon DEF Picks
<1> HIDE DEF v, R
<1>9. ASSUME NEW i \in 1 .. Len(v), NEW j \in 1 .. Len(v), i < j PROVE v[i] < v[j]
  <2>1. /\ o[i] < o[j] /\ o[i] \in 1 .. Len(b) /\ o[j] \in 1 .. Len(b)
        /\ v[i] = n + o[i] /\ v[j] = n + o[j]
    BY Zenon, <1>2, <1>4, <1>7, <1>9
  <2> QED BY <2>1
<1>10. ASSUME NEW x PROVE x \in n + 1 .. n + Len(b) <=> \E i \in 1 .. Len(b) : n + i = x
  <2>1. ASSUME x \in n + 1 .. n + Len(b) PROVE x - n \in 1 .. Len(b) /\ n + (x - n) = x
    BY <1>1, <2>1
  <2>2. ASSUME NEW i \in 1 .. Len(b), n + i = x PROVE x \in n + 1 .. n + Len(b)
    BY <1>1, <2>2
  <2> QED BY Zenon, <2>1, <2>2
<1>11. ASSUME NEW x
       PROVE  (\E i \in 1 .. Len(v) : v[i] = x) \/ x \in R <=> x \in n + 1 .. n + Len(b)
  <2>1. ASSUME NEW i \in 1 .. Len(v), v[i] = x PROVE x \in n + 1 .. n + Len(b)
    BY Zenon, <1>2, <1>4, <1>10, <2>1
  <2>2. ASSUME x \in R PROVE x \in n + 1 .. n + Len(b)
    BY Zenon, <1>6, <1>10, <2>2
  <2>3. ASSUME x \in n + 1 .. n + Len(b) PROVE (\E i \in 1 .. Len(v) : v[i] = x) \/ x \in R
    <3>1. PICK k \in 1 .. Len(b) : n + k = x
      BY Zenon, <1>10, <2>3
    <3>2. CASE b[k].kind = "good"
      <4>1. PICK i \in 1 .. Len(d) : o[i] = k
        BY Zenon, <1>8, <3>2
      <4> QED BY Zenon, <1>2, <1>4, <3>1, <4>1
    <3>3. CASE b[k].kind # "good"
      BY Zenon, <1>6, <3>1, <3>3
    <3> QED BY Zenon, <3>2, <3>3
  <2> QED BY Zenon, <2>1, <2>2, <2>3
<1> QED BY Zenon, <1>2, <1>9, <1>11 DEF v, R

\* The numbers in s increase, and with those in R they are the ones up to n.
Numbers(s, R, n) ==
    /\ \A i, j \in 1 .. Len(s) : i < j => s[i] < s[j]
    /\ \A x : (\E i \in 1 .. Len(s) : s[i] = x) \/ x \in R <=> x \in 1 .. n

\* Those in v increase, and with those in Q they are the k after n.
NextNumbers(v, Q, n, k) ==
    /\ \A i, j \in 1 .. Len(v) : i < j => v[i] < v[j]
    /\ \A x : (\E i \in 1 .. Len(v) : v[i] = x) \/ x \in Q <=> x \in n + 1 .. n + k

LEMMA MoreOut ==
    ASSUME NEW s \in Seq(Nat), NEW v \in Seq(Nat), NEW n \in Nat, NEW k \in Nat,
           NEW R, NEW Q, Numbers(s, R, n), NextNumbers(v, Q, n, k)
    PROVE  Numbers(s \o v, R \cup Q, n + k)
<1>s. /\ \A i, j \in 1 .. Len(s) : i < j => s[i] < s[j]
      /\ \A x : (\E i \in 1 .. Len(s) : s[i] = x) \/ x \in R <=> x \in 1 .. n
  BY Zenon DEF Numbers
<1>v. /\ \A i, j \in 1 .. Len(v) : i < j => v[i] < v[j]
      /\ \A x : (\E i \in 1 .. Len(v) : v[i] = x) \/ x \in Q <=> x \in n + 1 .. n + k
  BY Zenon DEF NextNumbers
<1> DEFINE w == s \o v
           l == Len(s)
<1>1. /\ Len(w) = l + Len(v) /\ l \in Nat /\ Len(v) \in Nat
      /\ \A i \in 1 .. l : w[i] = s[i]
      /\ \A i \in 1 .. Len(v) : w[l + i] = v[i]
  OBVIOUS
<1>a. \A i \in 1 .. l : s[i] \in 1 .. n
  BY Zenon, <1>s
<1>b. \A i \in 1 .. Len(v) : v[i] \in n + 1 .. n + k
  BY Zenon, <1>v
<1> HIDE DEF w
<1>2. ASSUME NEW i \in 1 .. Len(w)
      PROVE  \/ i \in 1 .. l /\ w[i] = s[i]
             \/ i - l \in 1 .. Len(v) /\ w[i] = v[i - l]
  <2>1. i \in 1 .. l \/ (i - l \in 1 .. Len(v) /\ i = l + (i - l))
    BY <1>1
  <2> QED BY Zenon, <1>1, <2>1
<1>3. ASSUME NEW i \in 1 .. Len(w), NEW j \in 1 .. Len(w), i < j PROVE w[i] < w[j]
  <2>1. CASE i \in 1 .. l /\ w[i] = s[i] /\ j \in 1 .. l /\ w[j] = s[j]
    BY Zenon, <1>3, <1>s, <2>1
  <2>2. CASE i \in 1 .. l /\ w[i] = s[i] /\ j - l \in 1 .. Len(v) /\ w[j] = v[j - l]
    <3>1. w[i] \in 1 .. n /\ w[j] \in n + 1 .. n + k
      BY Zenon, <1>a, <1>b, <2>2
    <3> QED BY <3>1
  <2>3. CASE i - l \in 1 .. Len(v) /\ w[i] = v[i - l] /\ j - l \in 1 .. Len(v) /\ w[j] = v[j - l]
    <3>1. i - l < j - l
      BY <1>1, <1>3
    <3> QED BY Zenon, <1>v, <2>3, <3>1
  <2>4. CASE i - l \in 1 .. Len(v) /\ j \in 1 .. l
    BY <1>1, <1>3, <2>4
  <2> QED BY Zenon, <1>2, <2>1, <2>2, <2>3, <2>4
<1>4. ASSUME NEW x
      PROVE  (\E i \in 1 .. Len(w) : w[i] = x)
             <=> (\E i \in 1 .. l : s[i] = x) \/ (\E i \in 1 .. Len(v) : v[i] = x)
  <2>1. \A i \in 1 .. l : i \in 1 .. Len(w)
    BY <1>1
  <2>2. \A i \in 1 .. Len(v) : l + i \in 1 .. Len(w)
    BY <1>1
  <2> QED BY Zenon, <1>1, <1>2, <2>1, <2>2
<1>5. \A x : x \in 1 .. n + k <=> x \in 1 .. n \/ x \in n + 1 .. n + k
  OBVIOUS
<1>6. \A x : (\E i \in 1 .. Len(w) : w[i] = x) \/ x \in R \cup Q <=> x \in 1 .. n + k
  BY Zenon, <1>4, <1>5, <1>s, <1>v
<1> QED BY Zenon, <1>3, <1>6 DEF w, Numbers

-----------------------------------------------------------------------------
(* Who owns a frame. *)

Owners == {"pool", "supply", "bufs", "full", "returned", "stash", "app", "wrong"}

\* Every frame is in exactly one of the sets H[p].
OneIn(H) == \A f \in Frames : \E p \in Owners : \A q \in Owners : f \in H[q] <=> q = p

\* The frames X go from a to c.
Moves(H, G, a, c, X) ==
    /\ X \in SUBSET H[a]
    /\ G[a] = H[a] \ X
    /\ G[c] = H[c] \cup X
    /\ \A q \in Owners : q # a /\ q # c => G[q] = H[q]

LEMMA Moved ==
    ASSUME NEW H, NEW G, NEW a \in Owners, NEW c \in Owners, a # c, NEW X,
           OneIn(H), Moves(H, G, a, c, X)
    PROVE  OneIn(G)
<1> SUFFICES ASSUME NEW f \in Frames
             PROVE  \E p \in Owners : \A q \in Owners : f \in G[q] <=> q = p
  BY Zenon DEF OneIn
<1>1. PICK p \in Owners : \A q \in Owners : f \in H[q] <=> q = p
  BY Zenon DEF OneIn
<1>2. CASE f \in X
  <2>1. p = a
    BY Zenon, <1>1, <1>2 DEF Moves
  <2>2. \A q \in Owners : f \in G[q] <=> q = c
    BY Zenon, <1>1, <1>2, <2>1 DEF Moves
  <2> QED BY Zenon, <2>2
<1>3. CASE f \notin X
  <2>1. \A q \in Owners : f \in G[q] <=> f \in H[q]
    BY Zenon, <1>3 DEF Moves
  <2> QED BY Zenon, <1>1, <2>1
<1> QED BY Zenon, <1>2, <1>3

LEMMA Apart ==
    ASSUME NEW H, OneIn(H), NEW p \in Owners, NEW q \in Owners, p # q,
           NEW f \in Frames, f \in H[p]
    PROVE  f \notin H[q]
BY Zenon DEF OneIn

Holds ==
    [p \in Owners |->
        CASE p = "pool" -> pool
          [] p = "supply" -> Real(supply)
          [] p = "bufs" -> Real(bufs)
          [] p = "full" -> Real(FramesOf(full))
          [] p = "returned" -> Real(returned)
          [] p = "stash" -> Real(FramesOf(stash))
          [] p = "app" -> app
          [] p = "wrong" -> wrong]

LEMMA HoldsAre ==
    /\ Holds["pool"] = pool /\ Holds["supply"] = Real(supply) /\ Holds["bufs"] = Real(bufs)
    /\ Holds["full"] = Real(FramesOf(full)) /\ Holds["returned"] = Real(returned)
    /\ Holds["stash"] = Real(FramesOf(stash)) /\ Holds["app"] = app
    /\ Holds["wrong"] = wrong
BY DEF Holds, Owners

LEMMA HoldsThen ==
    /\ Holds'["pool"] = pool' /\ Holds'["supply"] = Real(supply)'
    /\ Holds'["bufs"] = Real(bufs)' /\ Holds'["full"] = Real(FramesOf(full))'
    /\ Holds'["returned"] = Real(returned)' /\ Holds'["stash"] = Real(FramesOf(stash))'
    /\ Holds'["app"] = app' /\ Holds'["wrong"] = wrong'
BY DEF Holds, Owners

-----------------------------------------------------------------------------
(* The invariant. *)

RxTypes ==
    /\ pool \in SUBSET Frames /\ app \in SUBSET Frames /\ wrong \in SUBSET Frames
    /\ supply \in Seq(Frames) /\ Len(supply) <= SupplyCap
    /\ bufs \in Seq(Frames) /\ returned \in Seq(Addrs)
    /\ full \in Seq(Filled) /\ stash \in Seq(Good)
    /\ outstanding \in Int /\ arrived \in Nat /\ got \in Seq(Nat)

Lists ==
    /\ Distinct(supply) /\ Distinct(bufs) /\ Distinct(returned)
    /\ Distinct(FramesOf(full)) /\ Distinct(FramesOf(stash))

Owned == Lists /\ OneIn(Holds)

\* outstanding against what the driver has.
Counted ==
    LET with == Len(supply) + Len(bufs) + Len(full) + Len(returned)
    IN  outstanding >= with /\ (~dead => outstanding = with)

\* What was handed to the caller or is kept for it, in order.
Out == got \o IdsOf(stash)

\* The filled buffers hold the last packets that arrived; those before them are
\* out or were refused.
Numbered ==
    /\ Len(full) <= arrived
    /\ \A i \in 1 .. Len(full) : full[i].id = arrived - Len(full) + i
    /\ Numbers(Out, refused, arrived - Len(full))

QueueInv == RxTypes /\ Owned /\ Counted /\ Numbered

queueVars == <<pool, supply, bufs, full, returned, stash, app, outstanding, dead, wrong,
               arrived, got, refused>>

LEMMA QueueSame == ASSUME QueueInv, UNCHANGED queueVars PROVE QueueInv'
<1>1. /\ pool' = pool /\ supply' = supply /\ bufs' = bufs /\ full' = full
      /\ returned' = returned /\ stash' = stash /\ app' = app /\ outstanding' = outstanding
      /\ dead' = dead /\ wrong' = wrong /\ arrived' = arrived /\ got' = got
      /\ refused' = refused
  BY DEF queueVars
<1>2. RxTypes'
  BY Zenon, <1>1 DEF QueueInv, RxTypes
<1>3. Owned'
  <2>1. Holds' = Holds
    BY <1>1 DEF Holds
  <2> QED BY Zenon, <1>1, <2>1 DEF QueueInv, Owned, Lists
<1>4. Counted'
  BY Zenon, <1>1 DEF QueueInv, Counted
<1>5. Numbered'
  BY Zenon, <1>1 DEF QueueInv, Numbered, Out
<1> QED BY Zenon, <1>2, <1>3, <1>4, <1>5 DEF QueueInv

LEMMA FramesAddrs ==
    ASSUME NEW s \in Seq(Frames)
    PROVE  s \in Seq(Addrs) /\ Elems(s) = Real(s)
<1>1. s \in Seq(Addrs)
  BY DEF Addrs
<1>2. Alien \notin Frames /\ \A i \in 1 .. Len(s) : s[i] \in Frames
  BY DpdkRxAssumption
<1>3. Alien \notin Elems(s)
  BY Zenon, <1>2 DEF Elems
<1> QED BY Zenon, <1>1, <1>3 DEF Real

LEMMA GoodFrames ==
    ASSUME NEW s \in Seq(Good)
    PROVE  FramesOf(s) \in Seq(Addrs) /\ Elems(FramesOf(s)) = Real(FramesOf(s))
<1>1. s \in Seq(Filled) /\ \A i \in 1 .. Len(s) : s[i] \in Filled /\ s[i].kind = "good"
  BY Zenon, GoodIs
<1>2. \A i \in 1 .. Len(s) : s[i].frame \in Frames
  BY <1>1, FilledIs DEF Alien
<1>3. FramesOf(s) \in Seq(Frames)
  BY <1>2 DEF FramesOf
<1> QED BY Zenon, <1>3, FramesAddrs

-----------------------------------------------------------------------------
(* The driver and the NIC. *)

\* A step that leaves the filled buffers and what was handed out alone.
LEMMA NumbersSame ==
    ASSUME Numbered, UNCHANGED <<full, stash, arrived, got, refused>>
    PROVE  Numbered'
<1>1. full' = full /\ stash' = stash /\ arrived' = arrived /\ got' = got /\ refused' = refused
  OBVIOUS
<1> QED BY Zenon, <1>1 DEF Numbered, Out

LEMMA CountedSame ==
    ASSUME Counted, UNCHANGED <<supply, bufs, full, returned, outstanding, dead>>
    PROVE  Counted'
BY DEF Counted

LEMMA DrawsKeeps == ASSUME QueueInv, DriverDraws PROVE QueueInv'
<1> DEFINE a == SubSeq(supply, 1, Bulk)
           u == DropFirst(supply, Bulk)
<1>1. /\ RxTypes /\ Lists /\ OneIn(Holds) /\ Counted /\ Numbered
  BY Zenon DEF QueueInv, Owned
<1>2. /\ bufs' = bufs \o a /\ supply' = u /\ Len(supply) >= Bulk
      /\ pool' = pool /\ full' = full /\ returned' = returned /\ stash' = stash /\ app' = app
      /\ outstanding' = outstanding /\ dead' = dead /\ wrong' = wrong /\ arrived' = arrived
      /\ got' = got /\ refused' = refused
  BY DEF DriverDraws
<1>3. supply \in Seq(Frames) /\ bufs \in Seq(Frames) /\ Bulk \in 0 .. Len(supply)
  BY <1>1, <1>2, DpdkRxAssumption DEF RxTypes
<1>4. /\ a \in Seq(Frames) /\ u \in Seq(Frames)
      /\ Len(a) = Bulk /\ Len(u) = Len(supply) - Bulk /\ Cut(supply, Bulk, a, u)
  BY Zenon, <1>3, SubSeqIs DEF Cut
<1> HIDE DEF a, u
<1>5. supply \in Seq(Addrs) /\ bufs \in Seq(Addrs) /\ a \in Seq(Addrs) /\ u \in Seq(Addrs)
  BY Zenon, <1>3, <1>4, FramesAddrs
<1>6. /\ Distinct(a) /\ Distinct(u)
      /\ Real(a) \in SUBSET Real(supply) /\ Real(u) = Real(supply) \ Real(a)
  BY Zenon, <1>1, <1>3, <1>4, <1>5, CutKeeps DEF Lists
<1>7. \A f \in Frames : f \in Real(supply) => f \notin Real(bufs)
  BY Zenon, <1>1, HoldsAre, Apart DEF Owners
<1>8. Real(bufs) \cap Real(a) = {}
  BY Zenon, <1>5, <1>6, <1>7, RealIs
<1>9. Distinct(bufs \o a) /\ Real(bufs \o a) = Real(bufs) \cup Real(a)
  BY Zenon, <1>1, <1>5, <1>6, <1>8, JoinKeeps DEF Lists
<1>10. Lists'
  BY Zenon, <1>1, <1>2, <1>6, <1>9 DEF Lists
<1>11. Moves(Holds, Holds', "supply", "bufs", Real(a))
  <2>1. Holds'["supply"] = Holds["supply"] \ Real(a)
    BY Zenon, <1>2, <1>6, HoldsAre, HoldsThen
  <2>2. Holds'["bufs"] = Holds["bufs"] \cup Real(a)
    BY Zenon, <1>2, <1>9, HoldsAre, HoldsThen
  <2>3. /\ Holds'["pool"] = Holds["pool"] /\ Holds'["full"] = Holds["full"]
        /\ Holds'["returned"] = Holds["returned"] /\ Holds'["stash"] = Holds["stash"]
        /\ Holds'["app"] = Holds["app"] /\ Holds'["wrong"] = Holds["wrong"]
    BY Zenon, <1>2, HoldsAre, HoldsThen
  <2>4. Real(a) \in SUBSET Holds["supply"]
    BY Zenon, <1>6, HoldsAre
  <2> QED BY Zenon, <2>1, <2>2, <2>3, <2>4 DEF Moves, Owners
<1>12. OneIn(Holds')
  BY Zenon, <1>1, <1>11, Moved DEF Owners
<1>13. Len(bufs \o a) = Len(bufs) + Len(a) /\ bufs \o a \in Seq(Frames)
  BY Zenon, <1>3, <1>4, JoinIs
<1>14. Len(supply) \in Nat /\ Len(bufs) \in Nat /\ Len(supply) <= SupplyCap
  BY <1>1, <1>3 DEF RxTypes
<1>15. Len(u) <= SupplyCap
  BY <1>3, <1>4, <1>14, DpdkRxAssumption
<1>16. RxTypes'
  BY Zenon, <1>1, <1>2, <1>4, <1>13, <1>15 DEF RxTypes
<1>17. Counted'
  <2>1. Len(full) \in Nat /\ Len(returned) \in Nat /\ outstanding \in Int
    BY <1>1 DEF RxTypes
  <2>2. (Len(supply) + Len(bufs) + Len(full) + Len(returned))' = Len(supply) + Len(bufs) + Len(full) + Len(returned)
    BY <1>2, <1>3, <1>4, <1>13, <1>14, <2>1
  <2> QED BY Zenon, <1>1, <1>2, <2>2 DEF Counted
<1>18. Numbered'
  BY Zenon, <1>1, <1>2, NumbersSame
<1> QED BY Zenon, <1>10, <1>12, <1>16, <1>17, <1>18 DEF QueueInv, Owned

\* The driver is done with the first of its buffers: it went to the list s at place
\* c, or its address was forgotten.
LEMMA HeadMoves ==
    ASSUME QueueInv, bufs # <<>>, bufs' = Tail(bufs), NEW c \in {"full", "returned", "wrong"},
           Holds'[c] = Holds[c] \cup {Head(bufs)},
           \A q \in {"full", "returned", "wrong"} : q # c => Holds'[q] = Holds[q],
           UNCHANGED <<pool, supply, stash, app>>
    PROVE  OneIn(Holds') /\ Distinct(bufs')
<1>1. bufs \in Seq(Frames) /\ Distinct(bufs) /\ OneIn(Holds)
  BY Zenon DEF QueueInv, RxTypes, Owned, Lists
<1>2. /\ Distinct(Tail(bufs)) /\ Head(bufs) \in Real(bufs)
      /\ Real(Tail(bufs)) = Real(bufs) \ {Head(bufs)}
  BY Zenon, <1>1, TailKeeps
<1>3. Moves(Holds, Holds', "bufs", c, {Head(bufs)})
  <2>1. Holds'["bufs"] = Holds["bufs"] \ {Head(bufs)} /\ {Head(bufs)} \in SUBSET Holds["bufs"]
    BY Zenon, <1>2, HoldsAre, HoldsThen
  <2>2. pool' = pool /\ supply' = supply /\ stash' = stash /\ app' = app
    OBVIOUS
  <2>3. /\ Holds'["pool"] = Holds["pool"] /\ Holds'["supply"] = Holds["supply"]
        /\ Holds'["stash"] = Holds["stash"] /\ Holds'["app"] = Holds["app"]
    BY Zenon, <2>2, HoldsAre, HoldsThen
  <2> QED BY Zenon, <2>1, <2>3 DEF Moves, Owners
<1>4. c \in Owners /\ c # "bufs" /\ "bufs" \in Owners
  BY DEF Owners
<1>5. OneIn(Holds')
  BY Zenon, <1>1, <1>3, <1>4, Moved
<1> QED BY Zenon, <1>2, <1>5

\* The list of what was handed out does not change when more packets arrive.
LEMMA ArrivesKeeps ==
    ASSUME QueueInv, NEW kind \in {"good", "bad", Alien}, NicReceives(kind)
    PROVE  QueueInv'
<1> DEFINE p == [frame |-> IF kind = Alien THEN Alien ELSE Head(bufs),
                 id |-> arrived + 1, kind |-> kind]
<1>1. RxTypes /\ Lists /\ OneIn(Holds) /\ Counted /\ Numbered
  BY Zenon DEF QueueInv, Owned
<1>2. /\ bufs # <<>> /\ arrived' = arrived + 1 /\ bufs' = Tail(bufs) /\ full' = Append(full, p)
      /\ wrong' = IF kind = Alien THEN wrong \cup {Head(bufs)} ELSE wrong
      /\ pool' = pool /\ supply' = supply /\ returned' = returned /\ stash' = stash
      /\ app' = app /\ outstanding' = outstanding /\ dead' = dead /\ got' = got
      /\ refused' = refused
  BY DEF NicReceives
<1>3. /\ bufs \in Seq(Frames) /\ full \in Seq(Filled) /\ Len(full) \in Nat /\ arrived \in Nat
      /\ wrong \in SUBSET Frames /\ Distinct(bufs) /\ Distinct(FramesOf(full))
      /\ Len(supply) \in Nat /\ Len(returned) \in Nat /\ outstanding \in Int
  BY <1>1 DEF RxTypes, Lists
<1>4. /\ Head(bufs) \in Frames /\ Tail(bufs) \in Seq(Frames)
      /\ Len(bufs) \in Nat /\ Len(bufs) > 0 /\ Len(Tail(bufs)) = Len(bufs) - 1
  BY Zenon, <1>2, <1>3, TailIs
<1>5. /\ p \in Filled /\ p.id = arrived + 1 /\ p.frame \in Addrs
      /\ kind = Alien => p.frame = Alien
      /\ kind # Alien => p.frame = Head(bufs)
  <2>1. Head(bufs) # Alien
    BY <1>4, DpdkRxAssumption
  <2> QED BY <1>3, <1>4, <2>1 DEF Filled, Addrs
<1> HIDE DEF p
<1>6. /\ Append(full, p) \in Seq(Filled) /\ Len(Append(full, p)) = Len(full) + 1
      /\ \A i \in 1 .. Len(full) : Append(full, p)[i] = full[i]
      /\ Append(full, p)[Len(full) + 1] = p
  BY Zenon, <1>3, <1>5, AppendIs
<1>7. FramesOf(full') = Append(FramesOf(full), p.frame) /\ FramesOf(full) \in Seq(Addrs)
  BY Zenon, <1>2, <1>3, <1>5, FramesAppend, FramesOfIs
<1>8. Head(bufs) \in Real(bufs)
  BY Zenon, <1>2, <1>3, TailKeeps
<1>9. Head(bufs) \notin Real(FramesOf(full)) /\ Alien \notin Real(FramesOf(full))
  BY Zenon, <1>1, <1>4, <1>8, HoldsAre, Apart DEF Owners, Real
<1>10. p.frame \notin Real(FramesOf(full))
  BY Zenon, <1>5, <1>9
<1>11. /\ Distinct(FramesOf(full'))
       /\ p.frame \in Frames => Real(FramesOf(full')) = Real(FramesOf(full)) \cup {p.frame}
       /\ p.frame = Alien => Real(FramesOf(full')) = Real(FramesOf(full))
  BY Zenon, <1>3, <1>5, <1>7, <1>10, AppendKeeps
<1>12. OneIn(Holds') /\ Distinct(bufs')
  <2>1. Holds'["returned"] = Holds["returned"] /\ UNCHANGED <<pool, supply, stash, app>>
    BY Zenon, <1>2, HoldsAre, HoldsThen
  <2>2. CASE kind = Alien
    <3>1. Holds'["full"] = Holds["full"] /\ Holds'["wrong"] = Holds["wrong"] \cup {Head(bufs)}
      BY Zenon, <1>2, <1>5, <1>11, <2>2, HoldsAre, HoldsThen
    <3> QED BY Zenon, <1>2, <2>1, <3>1, HeadMoves
  <2>3. CASE kind # Alien
    <3>1. Holds'["full"] = Holds["full"] \cup {Head(bufs)} /\ Holds'["wrong"] = Holds["wrong"]
      BY Zenon, <1>2, <1>4, <1>5, <1>11, <2>3, HoldsAre, HoldsThen
    <3> QED BY Zenon, <1>2, <2>1, <3>1, HeadMoves
  <2> QED BY Zenon, <2>2, <2>3
<1>13. Lists'
  BY Zenon, <1>1, <1>2, <1>11, <1>12 DEF Lists
<1>14. RxTypes'
  <2>1. wrong' \in SUBSET Frames /\ arrived' \in Nat
    BY <1>2, <1>3, <1>4
  <2> QED BY Zenon, <1>1, <1>2, <1>4, <1>6, <2>1 DEF RxTypes
<1>15. Counted'
  <2>1. (Len(supply) + Len(bufs) + Len(full) + Len(returned))' = Len(supply) + Len(bufs) + Len(full) + Len(returned)
    BY <1>2, <1>3, <1>4, <1>6
  <2> QED BY Zenon, <1>1, <1>2, <2>1 DEF Counted
<1>16. Numbered'
  <2>1. arrived' - Len(full') = arrived - Len(full) /\ Len(full') = Len(full) + 1
    BY <1>2, <1>3, <1>6
  <2>2. Out' = Out
    BY Zenon, <1>2 DEF Out
  <2>3. Len(full) <= arrived /\ \A i \in 1 .. Len(full) : full[i].id = arrived - Len(full) + i
    BY Zenon, <1>1 DEF Numbered
  <2>4. ASSUME NEW i \in 1 .. Len(full') PROVE full'[i].id = arrived' - Len(full') + i
    <3>1. CASE i \in 1 .. Len(full)
      BY Zenon, <1>2, <1>6, <2>1, <2>3, <3>1
    <3>2. CASE i = Len(full) + 1
      <4>1. full'[i].id = arrived + 1
        BY Zenon, <1>2, <1>5, <1>6, <3>2
      <4> QED BY <1>3, <2>1, <3>2, <4>1
    <3> QED BY <1>3, <2>1, <3>1, <3>2
  <2>5. Len(full') <= arrived'
    BY <1>2, <1>3, <2>1, <2>3
  <2>6. Numbers(Out', refused', arrived' - Len(full'))
    BY Zenon, <1>1, <1>2, <2>1, <2>2 DEF Numbered
  <2> QED BY Zenon, <2>4, <2>5, <2>6 DEF Numbered
<1> QED BY Zenon, <1>12, <1>13, <1>14, <1>15, <1>16 DEF QueueInv, Owned

LEMMA FreesKeeps ==
    ASSUME QueueInv, NEW addr \in {Head(bufs), Alien}, DriverFrees(addr)
    PROVE  QueueInv'
<1>1. RxTypes /\ Lists /\ OneIn(Holds) /\ Counted /\ Numbered
  BY Zenon DEF QueueInv, Owned
<1>2. /\ bufs # <<>> /\ bufs' = Tail(bufs) /\ returned' = Append(returned, addr)
      /\ wrong' = IF addr = Alien THEN wrong \cup {Head(bufs)} ELSE wrong
      /\ pool' = pool /\ supply' = supply /\ full' = full /\ stash' = stash
      /\ app' = app /\ outstanding' = outstanding /\ dead' = dead /\ got' = got
      /\ refused' = refused /\ arrived' = arrived
  BY DEF DriverFrees
<1>3. /\ bufs \in Seq(Frames) /\ returned \in Seq(Addrs) /\ wrong \in SUBSET Frames
      /\ Distinct(bufs) /\ Distinct(returned) /\ Len(full) \in Nat
      /\ Len(supply) \in Nat /\ Len(returned) \in Nat /\ outstanding \in Int
  BY <1>1 DEF RxTypes, Lists
<1>4. /\ Head(bufs) \in Frames /\ Tail(bufs) \in Seq(Frames)
      /\ Len(bufs) \in Nat /\ Len(bufs) > 0 /\ Len(Tail(bufs)) = Len(bufs) - 1
  BY Zenon, <1>2, <1>3, TailIs
<1>5. addr \in Addrs
  BY <1>4 DEF Addrs
<1>6. Append(returned, addr) \in Seq(Addrs) /\ Len(Append(returned, addr)) = Len(returned) + 1
  BY Zenon, <1>3, <1>5, AppendIs
<1>7. Head(bufs) \in Real(bufs)
  BY Zenon, <1>2, <1>3, TailKeeps
<1>8. addr \notin Real(returned)
  <2>1. Head(bufs) \notin Real(returned) /\ Alien \notin Real(returned)
    BY Zenon, <1>1, <1>4, <1>7, HoldsAre, Apart DEF Owners, Real
  <2> QED BY <2>1
<1>9. /\ Distinct(returned')
      /\ addr \in Frames => Real(returned') = Real(returned) \cup {addr}
      /\ addr = Alien => Real(returned') = Real(returned)
  BY Zenon, <1>2, <1>3, <1>5, <1>8, AppendKeeps
<1>10. OneIn(Holds') /\ Distinct(bufs')
  <2>1. Holds'["full"] = Holds["full"] /\ UNCHANGED <<pool, supply, stash, app>>
    BY Zenon, <1>2, HoldsAre, HoldsThen
  <2>2. CASE addr = Alien
    <3>1. /\ Holds'["returned"] = Holds["returned"]
          /\ Holds'["wrong"] = Holds["wrong"] \cup {Head(bufs)}
      BY Zenon, <1>2, <1>9, <2>2, HoldsAre, HoldsThen
    <3> QED BY Zenon, <1>2, <2>1, <3>1, HeadMoves
  <2>3. CASE addr # Alien
    <3>1. /\ Holds'["returned"] = Holds["returned"] \cup {Head(bufs)}
          /\ Holds'["wrong"] = Holds["wrong"]
      BY Zenon, <1>2, <1>4, <1>9, <2>3, HoldsAre, HoldsThen
    <3> QED BY Zenon, <1>2, <2>1, <3>1, HeadMoves
  <2> QED BY Zenon, <2>2, <2>3
<1>11. Lists'
  BY Zenon, <1>1, <1>2, <1>9, <1>10 DEF Lists
<1>12. RxTypes'
  <2>1. wrong' \in SUBSET Frames
    BY <1>2, <1>3, <1>4
  <2> QED BY Zenon, <1>1, <1>2, <1>4, <1>6, <2>1 DEF RxTypes
<1>13. Counted'
  <2>1. (Len(supply) + Len(bufs) + Len(full) + Len(returned))' = Len(supply) + Len(bufs) + Len(full) + Len(returned)
    BY <1>2, <1>3, <1>4, <1>6
  <2> QED BY Zenon, <1>1, <1>2, <2>1 DEF Counted
<1>14. Numbered'
  BY Zenon, <1>1, <1>2, NumbersSame
<1> QED BY Zenon, <1>10, <1>11, <1>12, <1>13, <1>14 DEF QueueInv, Owned

-----------------------------------------------------------------------------
(* The owner's calls. *)

LEMMA RecycleKeeps == ASSUME QueueInv, NEW f \in Frames, Recycle(f) PROVE QueueInv'
<1>1. RxTypes /\ Lists /\ OneIn(Holds) /\ Counted /\ Numbered
  BY Zenon DEF QueueInv, Owned
<1>2. /\ f \in app /\ app' = app \ {f} /\ pool' = pool \cup {f}
      /\ supply' = supply /\ bufs' = bufs /\ full' = full /\ returned' = returned
      /\ stash' = stash /\ outstanding' = outstanding /\ dead' = dead /\ wrong' = wrong
      /\ arrived' = arrived /\ got' = got /\ refused' = refused
  BY DEF Recycle
<1>3. Moves(Holds, Holds', "app", "pool", {f})
  <2>1. /\ Holds'["app"] = Holds["app"] \ {f} /\ {f} \in SUBSET Holds["app"]
        /\ Holds'["pool"] = Holds["pool"] \cup {f}
    BY Zenon, <1>2, HoldsAre, HoldsThen
  <2>2. /\ Holds'["supply"] = Holds["supply"] /\ Holds'["bufs"] = Holds["bufs"]
        /\ Holds'["full"] = Holds["full"] /\ Holds'["returned"] = Holds["returned"]
        /\ Holds'["stash"] = Holds["stash"] /\ Holds'["wrong"] = Holds["wrong"]
    BY Zenon, <1>2, HoldsAre, HoldsThen
  <2> QED BY Zenon, <2>1, <2>2 DEF Moves, Owners
<1>4. OneIn(Holds')
  BY Zenon, <1>1, <1>3, Moved DEF Owners
<1>5. Lists'
  BY Zenon, <1>1, <1>2 DEF Lists
<1>6. RxTypes'
  <2>1. pool' \in SUBSET Frames /\ app' \in SUBSET Frames
    BY Zenon, <1>1, <1>2 DEF RxTypes
  <2> QED BY Zenon, <1>1, <1>2, <2>1 DEF RxTypes
<1>7. Counted'
  BY Zenon, <1>1, <1>2 DEF Counted
<1>8. Numbered'
  BY Zenon, <1>1, <1>2, NumbersSame
<1> QED BY Zenon, <1>4, <1>5, <1>6, <1>7, <1>8 DEF QueueInv, Owned

\* What Fill pops and posts: frames from home, none twice, as many as fit.
LEMMA PostedIs ==
    ASSUME RxTypes, NEW home \in SUBSET Frames, NEW n \in Nat
    PROVE  LET post == Posted(Popped(n, home))
           IN  /\ post \in Seq(Frames) /\ Distinct(post) /\ Real(post) \in SUBSET home
               /\ Len(post) \in Nat /\ Len(supply) + Len(post) <= SupplyCap
<1> DEFINE new == Popped(n, home)
           k == Least(Len(new), SupplyCap - Len(supply))
           post == SubSeq(new, 1, k)
           c == Cardinality(home)
           m == Least(n, c)
<1>1. IsFiniteSet(home) /\ c \in Nat
  <2>1. IsFiniteSet(home)
    BY Zenon, DpdkRxAssumption, FS_Subset
  <2> QED BY Zenon, <2>1, FS_CardinalityType
<1> HIDE DEF c
<1>2. m \in Nat /\ m <= c
  BY <1>1 DEF Least
<1> HIDE DEF m
<1>3. new \in Seq(home) /\ \A i, j \in 1 .. Len(new) : new[i] = new[j] => i = j
  <2>1. CASE DeadDrained
    <3>1. new = <<>>
      BY Zenon, <2>1 DEF Popped
    <3> QED BY <3>1
  <2>2. CASE ~DeadDrained
    <3>1. new = Some(home, m)
      BY Zenon, <2>2 DEF Popped, m, c
    <3> HIDE DEF new
    <3>a. m <= Cardinality(home)
      BY Zenon, <1>2 DEF c
    <3>b. /\ Some(home, m) \in [1 .. m -> home]
          /\ \A i, j \in 1 .. m : Some(home, m)[i] = Some(home, m)[j] => i = j
      BY Zenon, <1>1, <1>2, <3>a, SomeIs
    <3>2. new \in [1 .. m -> home] /\ \A i, j \in 1 .. m : new[i] = new[j] => i = j
      BY Zenon, <3>1, <3>b
    <3>3. new \in Seq(home) /\ Len(new) = m
      BY <1>2, <3>2
    <3> QED BY Zenon, <3>2, <3>3
  <2> QED BY Zenon, <2>1, <2>2
<1>4. Len(new) \in Nat /\ Len(supply) \in Nat /\ Len(supply) <= SupplyCap /\ SupplyCap \in Nat
  BY <1>3, DpdkRxAssumption DEF RxTypes
<1> HIDE DEF new
<1>5. k \in 0 .. Len(new) /\ Len(supply) + k <= SupplyCap
  BY <1>4 DEF Least
<1>p. Posted(new) = post
  BY Zenon DEF Posted
<1> HIDE DEF k
<1>6. post \in Seq(home) /\ Len(post) = k /\ \A i \in 1 .. k : post[i] = new[i]
  BY Zenon, <1>3, <1>5, SubSeqIs
<1> HIDE DEF post
<1>7. \A i \in 1 .. k : i \in 1 .. Len(new)
  BY <1>4, <1>5
<1>8. Distinct(post)
  BY Zenon, <1>3, <1>6, <1>7 DEF Distinct
<1>9. post \in Seq(Frames) /\ \A i \in 1 .. Len(post) : post[i] \in home
  BY <1>6
<1>10. Real(post) \in SUBSET home
  BY Zenon, <1>9 DEF Real, Elems
<1> QED BY <1>5, <1>6, <1>8, <1>9, <1>10, <1>p DEF new

\* DrainReturned counts the frames in the ring.
LEMMA DrainedIs ==
    ASSUME RxTypes
    PROVE  /\ {returned[i] : i \in Drained} = Real(returned)
           /\ Cardinality(Drained) \in 0 .. Len(returned)
           /\ Alien \notin Elems(returned) => Cardinality(Drained) = Len(returned)
<1>1. Len(returned) \in Nat /\ DOMAIN returned = 1 .. Len(returned)
  BY DEF RxTypes
<1>2. \A i : i \in Drained <=> i \in 1 .. Len(returned) /\ returned[i] # Alien
  BY Zenon, <1>1 DEF Drained
<1>3. {returned[i] : i \in Drained} = Real(returned)
  BY Zenon, <1>2 DEF Real, Elems
<1>4. Drained \in SUBSET (1 .. Len(returned))
  BY Zenon, <1>2
<1>5. ASSUME Alien \notin Elems(returned) PROVE Drained = 1 .. Len(returned)
  BY Zenon, <1>2, <1>5 DEF Elems
<1> QED BY Zenon, <1>1, <1>3, <1>4, <1>5, CountPlaces

LEMMA FillKeeps == ASSUME QueueInv, NEW n \in Nat, Fill(n) PROVE QueueInv'
<1> DEFINE home == pool \cup Real(returned)
           new == Popped(n, home)
           post == Posted(new)
           H == [p \in Owners |-> IF p = "pool" THEN home
                                  ELSE IF p = "returned" THEN {} ELSE Holds[p]]
<1>1. RxTypes /\ Lists /\ OneIn(Holds) /\ Counted /\ Numbered
  BY Zenon DEF QueueInv, Owned
<1>d. /\ {returned[i] : i \in Drained} = Real(returned)
      /\ Cardinality(Drained) \in 0 .. Len(returned)
      /\ Alien \notin Elems(returned) => Cardinality(Drained) = Len(returned)
  BY Zenon, <1>1, DrainedIs
<1>2. /\ dead' = DeadDrained /\ returned' = <<>> /\ supply' = supply \o post
      /\ pool' = home \ Elems(post)
      /\ outstanding' = outstanding - Cardinality(Drained) + Len(post)
      /\ bufs' = bufs /\ full' = full /\ stash' = stash /\ app' = app /\ wrong' = wrong
      /\ arrived' = arrived /\ got' = got /\ refused' = refused
  BY Zenon, <1>d DEF Fill, Unposted
<1>3. returned \in Seq(Addrs) /\ supply \in Seq(Frames) /\ pool \in SUBSET Frames
  BY Zenon, <1>1 DEF RxTypes
<1>4. home \in SUBSET Frames
  BY Zenon, <1>3, RealIs
<1> HIDE DEF home
<1>5. /\ post \in Seq(Frames) /\ Distinct(post) /\ Real(post) \in SUBSET home
      /\ Len(post) \in Nat /\ Len(supply) + Len(post) <= SupplyCap
  BY Zenon, <1>1, <1>4, PostedIs
<1> HIDE DEF new, post
<1>6. supply \in Seq(Addrs) /\ post \in Seq(Addrs) /\ Elems(post) = Real(post)
  BY Zenon, <1>3, <1>5, FramesAddrs
<1>7. /\ H["pool"] = home /\ H["returned"] = {} /\ H["supply"] = Real(supply)
      /\ H["bufs"] = Real(bufs) /\ H["full"] = Real(FramesOf(full))
      /\ H["stash"] = Real(FramesOf(stash)) /\ H["app"] = app /\ H["wrong"] = wrong
  BY HoldsAre DEF Owners
<1> HIDE DEF H
<1>8. Moves(Holds, H, "returned", "pool", Real(returned))
  <2>1. /\ Real(returned) \in SUBSET Holds["returned"]
        /\ H["returned"] = Holds["returned"] \ Real(returned)
        /\ H["pool"] = Holds["pool"] \cup Real(returned)
    BY Zenon, <1>7, HoldsAre DEF home
  <2>2. /\ H["supply"] = Holds["supply"] /\ H["bufs"] = Holds["bufs"]
        /\ H["full"] = Holds["full"] /\ H["stash"] = Holds["stash"]
        /\ H["app"] = Holds["app"] /\ H["wrong"] = Holds["wrong"]
    BY Zenon, <1>7, HoldsAre
  <2> QED BY Zenon, <2>1, <2>2 DEF Moves, Owners
<1>9. OneIn(H)
  BY Zenon, <1>1, <1>8, Moved DEF Owners
<1>10. Real(supply) \cap Real(post) = {}
  <2>1. \A f \in Frames : f \in home => f \notin Real(supply)
    BY Zenon, <1>7, <1>9, Apart DEF Owners
  <2> QED BY Zenon, <1>4, <1>5, <2>1
<1>11. Distinct(supply \o post) /\ Real(supply \o post) = Real(supply) \cup Real(post)
  BY Zenon, <1>1, <1>5, <1>6, <1>10, JoinKeeps DEF Lists
<1>r. Real(<<>>) = {} /\ Distinct(<<>>) /\ <<>> \in Seq(Addrs) /\ Len(<<>>) = 0
  BY DEF Real, Elems, Distinct
<1>12. Moves(H, Holds', "pool", "supply", Real(post))
  <2>1. /\ Real(post) \in SUBSET H["pool"]
        /\ Holds'["pool"] = H["pool"] \ Real(post)
        /\ Holds'["supply"] = H["supply"] \cup Real(post)
    BY Zenon, <1>2, <1>5, <1>6, <1>7, <1>11, HoldsThen
  <2>2. /\ Holds'["returned"] = H["returned"] /\ Holds'["bufs"] = H["bufs"]
        /\ Holds'["full"] = H["full"] /\ Holds'["stash"] = H["stash"]
        /\ Holds'["app"] = H["app"] /\ Holds'["wrong"] = H["wrong"]
    BY Zenon, <1>2, <1>7, <1>r, HoldsThen
  <2> QED BY Zenon, <2>1, <2>2 DEF Moves, Owners
<1>13. OneIn(Holds')
  BY Zenon, <1>9, <1>12, Moved DEF Owners
<1>14. Lists'
  BY Zenon, <1>1, <1>2, <1>11, <1>r DEF Lists
<1>15. supply \o post \in Seq(Frames) /\ Len(supply \o post) = Len(supply) + Len(post)
  BY Zenon, <1>3, <1>5, JoinIs
<1>n. /\ Len(supply) \in Nat /\ Len(bufs) \in Nat /\ Len(full) \in Nat /\ Len(returned) \in Nat
      /\ outstanding \in Int
  BY <1>1 DEF RxTypes
<1>16. RxTypes'
  <2>1. pool' \in SUBSET Frames /\ outstanding' \in Int
    BY <1>2, <1>4, <1>5, <1>d, <1>n
  <2> QED BY Zenon, <1>1, <1>2, <1>5, <1>15, <1>r, <2>1 DEF RxTypes
<1>17. Counted'
  <2> DEFINE w == Len(supply) + Len(bufs) + Len(full) + Len(returned)
             v == (Len(supply) + Len(bufs) + Len(full) + Len(returned))'
             c == Cardinality(Drained)
  <2>1. w \in Nat /\ v = w - Len(returned) + Len(post) /\ outstanding' = outstanding - c + Len(post)
    BY <1>2, <1>5, <1>15, <1>n, <1>r
  <2>2. outstanding >= w /\ (~dead => outstanding = w)
    BY Zenon, <1>1 DEF Counted
  <2>3. ~dead' => ~dead /\ c = Len(returned)
    BY Zenon, <1>2, <1>d DEF DeadDrained
  <2>4. c \in 0 .. Len(returned)
    BY Zenon, <1>d
  <2> HIDE DEF w, v, c
  <2>5. outstanding' >= v
    BY <1>5, <1>n, <2>1, <2>2, <2>4
  <2>6. ASSUME ~dead' PROVE outstanding' = v
    BY <1>5, <1>n, <2>1, <2>2, <2>3, <2>6
  <2> QED BY Zenon, <2>5, <2>6 DEF Counted, v
<1>18. Numbered'
  BY Zenon, <1>1, <1>2, NumbersSame
<1> QED BY Zenon, <1>13, <1>14, <1>16, <1>17, <1>18 DEF QueueInv, Owned

\* Receive hands out the first k of what a Poll kept.
LEMMA StashKeeps ==
    ASSUME QueueInv, NEW k \in 0 .. Len(stash),
           app' = app \cup Elems(FramesOf(SubSeq(stash, 1, k))),
           got' = got \o IdsOf(SubSeq(stash, 1, k)),
           stash' = DropFirst(stash, k),
           UNCHANGED <<pool, supply, bufs, full, returned, outstanding, dead, wrong, arrived,
                       refused>>
    PROVE  QueueInv'
<1> DEFINE a == SubSeq(stash, 1, k)
           u == DropFirst(stash, k)
<1>1. RxTypes /\ Lists /\ OneIn(Holds) /\ Counted /\ Numbered
  BY Zenon DEF QueueInv, Owned
<1>2. /\ pool' = pool /\ supply' = supply /\ bufs' = bufs /\ full' = full
      /\ returned' = returned /\ outstanding' = outstanding /\ dead' = dead /\ wrong' = wrong
      /\ arrived' = arrived /\ refused' = refused
      /\ app' = app \cup Elems(FramesOf(a)) /\ got' = got \o IdsOf(a) /\ stash' = u
  OBVIOUS
<1>g. stash \in Seq(Good)
  BY Zenon, <1>1 DEF RxTypes
<1>3. stash \in Seq(Filled) /\ Distinct(FramesOf(stash))
  BY Zenon, <1>1, <1>g, GoodIs DEF Lists
<1>4. /\ a \in Seq(Good) /\ u \in Seq(Good) /\ Len(a) = k /\ Len(u) = Len(stash) - k
      /\ \A i \in 1 .. k : a[i] = stash[i]
      /\ \A i \in 1 .. Len(stash) - k : u[i] = stash[i + k]
  BY Zenon, <1>g, SubSeqIs
<1>5. /\ Distinct(FramesOf(a)) /\ Distinct(FramesOf(u)) /\ FramesOf(a) \in Seq(Addrs)
      /\ Real(FramesOf(a)) \in SUBSET Real(FramesOf(stash))
      /\ Real(FramesOf(u)) = Real(FramesOf(stash)) \ Real(FramesOf(a))
  BY Zenon, <1>3, FramesCut
<1> HIDE DEF a, u
<1>6. Elems(FramesOf(a)) = Real(FramesOf(a)) /\ Real(FramesOf(a)) \in SUBSET Frames
  BY Zenon, <1>4, <1>5, GoodFrames, RealIs
<1>7. Moves(Holds, Holds', "stash", "app", Real(FramesOf(a)))
  <2>1. /\ Real(FramesOf(a)) \in SUBSET Holds["stash"]
        /\ Holds'["stash"] = Holds["stash"] \ Real(FramesOf(a))
        /\ Holds'["app"] = Holds["app"] \cup Real(FramesOf(a))
    BY Zenon, <1>2, <1>5, <1>6, HoldsAre, HoldsThen
  <2>2. /\ Holds'["pool"] = Holds["pool"] /\ Holds'["supply"] = Holds["supply"]
        /\ Holds'["bufs"] = Holds["bufs"] /\ Holds'["full"] = Holds["full"]
        /\ Holds'["returned"] = Holds["returned"] /\ Holds'["wrong"] = Holds["wrong"]
    BY Zenon, <1>2, HoldsAre, HoldsThen
  <2> QED BY Zenon, <2>1, <2>2 DEF Moves, Owners
<1>8. OneIn(Holds')
  BY Zenon, <1>1, <1>7, Moved DEF Owners
<1>9. Lists'
  BY Zenon, <1>1, <1>2, <1>5 DEF Lists
<1>10. Counted'
  BY Zenon, <1>1, CountedSame
<1>11. got \in Seq(Nat) /\ Len(got) \in Nat /\ Len(stash) \in Nat
  BY <1>1, <1>g DEF RxTypes
<1>12. /\ IdsOf(a) \in Seq(Nat) /\ Len(IdsOf(a)) = k
       /\ \A i \in 1 .. k : IdsOf(a)[i] = stash[i].id
  BY Zenon, <1>4, GoodIs, IdsOfIs
<1>13. /\ IdsOf(u) \in Seq(Nat) /\ Len(IdsOf(u)) = Len(stash) - k
       /\ \A i \in 1 .. Len(stash) - k : IdsOf(u)[i] = stash[i + k].id
  <2>1. u \in Seq(Filled)
    BY Zenon, <1>4, GoodIs
  <2>2. IdsOf(u) \in Seq(Nat) /\ Len(IdsOf(u)) = Len(u) /\ \A i \in 1 .. Len(u) : IdsOf(u)[i] = u[i].id
    BY Zenon, <2>1, IdsOfIs
  <2> QED BY Zenon, <1>4, <2>2
<1>14. /\ IdsOf(stash) \in Seq(Nat) /\ Len(IdsOf(stash)) = Len(stash)
       /\ \A i \in 1 .. Len(stash) : IdsOf(stash)[i] = stash[i].id
  BY Zenon, <1>3, IdsOfIs
<1>15. IdsOf(stash) = IdsOf(a) \o IdsOf(u)
  <2>1. \A i \in 1 .. k : IdsOf(stash)[i] = IdsOf(a)[i]
    <3>1. \A i \in 1 .. k : i \in 1 .. Len(stash)
      BY <1>11
    <3> QED BY Zenon, <1>12, <1>14, <3>1
  <2>2. ASSUME NEW i \in 1 .. Len(stash) - k PROVE IdsOf(stash)[i + k] = IdsOf(u)[i]
    <3>1. i + k \in 1 .. Len(stash)
      BY <1>11
    <3>2. IdsOf(stash)[i + k] = stash[i + k].id
      BY Zenon, <1>14, <3>1
    <3> QED BY Zenon, <1>13, <3>2
  <2>3. Len(stash) = k + (Len(stash) - k)
    BY <1>11
  <2> DEFINE x == IdsOf(a)
             y == IdsOf(u)
             z == IdsOf(stash)
  <2>4. x \in Seq(Nat) /\ y \in Seq(Nat) /\ z \in Seq(Nat) /\ Len(z) = Len(x) + Len(y)
    BY Zenon, <1>12, <1>13, <1>14, <2>3
  <2>5. /\ \A i \in 1 .. Len(x) : z[i] = x[i]
        /\ \A i \in 1 .. Len(y) : z[i + Len(x)] = y[i]
    BY Zenon, <1>12, <1>13, <2>1, <2>2
  <2> HIDE DEF x, y, z
  <2>6. z = x \o y
    BY Zenon, <2>4, <2>5, Joined
  <2> QED BY Zenon, <2>6 DEF x, y, z
<1>16. Out' = Out
  <2>1. (got \o IdsOf(a)) \o IdsOf(u) = got \o (IdsOf(a) \o IdsOf(u))
    <3>1. got \in Seq(Nat) /\ IdsOf(a) \in Seq(Nat) /\ IdsOf(u) \in Seq(Nat)
      BY Zenon, <1>11, <1>12, <1>13
    <3> QED BY Zenon, <3>1, JoinedTwice
  <2> QED BY Zenon, <1>2, <1>15, <2>1 DEF Out
<1>17. Numbered'
  BY Zenon, <1>1, <1>2, <1>16 DEF Numbered
<1>18. RxTypes'
  <2>1. app' \in SUBSET Frames
    BY Zenon, <1>1, <1>2, <1>6 DEF RxTypes
  <2>2. got' \in Seq(Nat)
    BY Zenon, <1>2, <1>11, <1>12, JoinIs
  <2> QED BY Zenon, <1>1, <1>2, <1>4, <2>1, <2>2 DEF RxTypes
<1> QED BY Zenon, <1>8, <1>9, <1>10, <1>17, <1>18 DEF QueueInv, Owned

-----------------------------------------------------------------------------
(* A burst. *)

\* What a burst b makes of the filled buffers: r stays, d is delivered.
Splits(k, b, r, d) ==
    /\ b \in Seq(Filled) /\ r \in Seq(Filled) /\ d \in Seq(Good)
    /\ Len(b) = k /\ Len(r) = Len(full) - k
    /\ \A i \in 1 .. Len(full) - k : r[i] = full[i + k]
    /\ Distinct(FramesOf(r)) /\ Distinct(FramesOf(d)) /\ FramesOf(d) \in Seq(Addrs)
    /\ Home(b) \in SUBSET Real(FramesOf(full))
    /\ Real(FramesOf(d)) \in SUBSET (Real(FramesOf(full)) \ Home(b))
    /\ Real(FramesOf(r)) = (Real(FramesOf(full)) \ Home(b)) \ Real(FramesOf(d))

\* The packets that a burst b refuses.
RefusedIn(b) == {p.id : p \in {c \in Elems(b) : c.kind # "good"}}

LEMMA BurstSplits ==
    ASSUME RxTypes, Lists, NEW k \in 0 .. Len(full)
    PROVE  LET b == SubSeq(full, 1, k)
           IN  Splits(k, b, DropFirst(full, k), Delivered(b))
<1> DEFINE b == SubSeq(full, 1, k)
           r == DropFirst(full, k)
           d == Delivered(b)
<1>1. full \in Seq(Filled) /\ Distinct(FramesOf(full))
  BY Zenon DEF RxTypes, Lists
<1>2. /\ b \in Seq(Filled) /\ r \in Seq(Filled) /\ Len(b) = k /\ Len(r) = Len(full) - k
      /\ \A i \in 1 .. Len(full) - k : r[i] = full[i + k]
  BY Zenon, <1>1, SubSeqIs
<1>3. /\ Distinct(FramesOf(b)) /\ Distinct(FramesOf(r))
      /\ Real(FramesOf(b)) \in SUBSET Real(FramesOf(full))
      /\ Real(FramesOf(r)) = Real(FramesOf(full)) \ Real(FramesOf(b))
  BY Zenon, <1>1, FramesCut
<1> HIDE DEF b, r
<1>4. d \in Seq(Good) /\ \E o : Picks(o, d, b)
  BY Zenon, <1>2, DeliveredIs
<1> HIDE DEF d
<1>5. PICK o : Picks(o, d, b)
  BY Zenon, <1>4
<1>6. /\ Distinct(FramesOf(d)) /\ FramesOf(d) \in Seq(Addrs)
      /\ \A f : f \in Real(FramesOf(b)) <=> f \in Home(b) \/ f \in Real(FramesOf(d))
      /\ \A f : ~(f \in Home(b) /\ f \in Real(FramesOf(d)))
  BY Zenon, <1>2, <1>3, <1>4, <1>5, BurstFrames
<1>7. /\ Home(b) \in SUBSET Real(FramesOf(full))
      /\ Real(FramesOf(d)) \in SUBSET (Real(FramesOf(full)) \ Home(b))
  BY Zenon, <1>3, <1>6
<1>8. Real(FramesOf(r)) = (Real(FramesOf(full)) \ Home(b)) \ Real(FramesOf(d))
  BY Zenon, <1>3, <1>6
<1>9. Splits(k, b, r, d)
  BY Zenon, <1>2, <1>3, <1>4, <1>6, <1>7, <1>8 DEF Splits
<1> QED BY Zenon, <1>9 DEF b, r, d

\* The numbers of what a burst delivers and refuses are the next k.
LEMMA BurstNumbers ==
    ASSUME RxTypes, Numbered, NEW k \in 0 .. Len(full), NEW s \in Seq(Nat),
           Numbers(s, refused, arrived - Len(full))
    PROVE  LET b == SubSeq(full, 1, k)
           IN  /\ Numbers(s \o IdsOf(Delivered(b)), refused \cup RefusedIn(b),
                          arrived - Len(full) + k)
               /\ IdsOf(Delivered(b)) \in Seq(Nat)
<1> DEFINE b == SubSeq(full, 1, k)
           d == Delivered(b)
           v == IdsOf(d)
           n == arrived - Len(full)
<1>1. full \in Seq(Filled) /\ arrived \in Nat /\ Len(full) \in Nat
  BY DEF RxTypes
<1>2. n \in Nat /\ k \in Nat /\ \A i \in 1 .. k : i \in 1 .. Len(full)
  BY <1>1 DEF Numbered
<1>3. \A i \in 1 .. Len(full) : full[i].id = n + i
  BY Zenon DEF Numbered
<1> HIDE DEF n
<1>4. b \in Seq(Filled) /\ Len(b) = k /\ \A i \in 1 .. k : b[i] = full[i]
  BY Zenon, <1>1, SubSeqIs
<1> HIDE DEF b
<1>5. d \in Seq(Good) /\ \E o : Picks(o, d, b)
  BY Zenon, <1>4, DeliveredIs
<1> HIDE DEF d
<1>6. PICK o : Picks(o, d, b)
  BY Zenon, <1>5
<1>7. \A i \in 1 .. Len(b) : b[i].id = n + i
  BY Zenon, <1>2, <1>3, <1>4
<1>8. /\ v \in Seq(Nat)
      /\ \A i, j \in 1 .. Len(v) : i < j => v[i] < v[j]
      /\ \A x : (\/ \E i \in 1 .. Len(v) : v[i] = x
                 \/ x \in RefusedIn(b))
                <=> x \in n + 1 .. n + Len(b)
  BY Zenon, <1>2, <1>4, <1>5, <1>6, <1>7, BurstIds DEF RefusedIn
<1> HIDE DEF v
<1>9. NextNumbers(v, RefusedIn(b), n, k)
  BY Zenon, <1>4, <1>8 DEF NextNumbers
<1>10. Numbers(s, refused, n)
  BY Zenon DEF n
<1>12. Numbers(s \o v, refused \cup RefusedIn(b), n + k)
  BY Zenon, <1>2, <1>8, <1>9, <1>10, MoreOut
<1> QED BY Zenon, <1>8, <1>12 DEF v, d, b, n

LEMMA BurstCounted ==
    ASSUME RxTypes, Counted, NEW k \in 0 .. Len(full), Burst(k),
           UNCHANGED <<supply, bufs, returned>>
    PROVE  Counted' /\ outstanding' \in Int
<1> DEFINE b == SubSeq(full, 1, k)
           w == Len(supply) + Len(bufs) + Len(full) + Len(returned)
           v == (Len(supply) + Len(bufs) + Len(full) + Len(returned))'
<1>1. /\ outstanding \in Int /\ full \in Seq(Filled) /\ Len(full) \in Nat /\ Len(supply) \in Nat
      /\ Len(bufs) \in Nat /\ Len(returned) \in Nat
  BY DEF RxTypes
<1>2. b \in Seq(Filled) /\ Len(b) = k /\ Len(DropFirst(full, k)) = Len(full) - k
  BY Zenon, <1>1, SubSeqIs
<1> HIDE DEF b
<1>3. Taken(b) \in 0 .. k /\ (Alien \notin Elems(FramesOf(b)) => Taken(b) = k)
  BY Zenon, <1>2, TakenIs
<1>4. /\ full' = DropFirst(full, k) /\ outstanding' = outstanding - Taken(b)
      /\ dead' = (dead \/ Alien \in Elems(FramesOf(b)))
      /\ supply' = supply /\ bufs' = bufs /\ returned' = returned
  BY Zenon DEF Burst, b
<1>5. v = w - k /\ w \in Nat
  BY <1>1, <1>2, <1>4
<1>6. outstanding >= w /\ (~dead => outstanding = w)
  BY Zenon DEF Counted
<1> HIDE DEF v, w
<1>7. outstanding' \in Int /\ outstanding' >= v
  BY <1>1, <1>3, <1>4, <1>5, <1>6
<1>8. ASSUME ~dead' PROVE outstanding' = v
  <2>1. ~dead /\ Taken(b) = k
    BY Zenon, <1>3, <1>4, <1>8
  <2> QED BY <1>1, <1>4, <1>5, <1>6, <2>1
<1> QED BY Zenon, <1>7, <1>8 DEF Counted, v

\* A burst, whose packets go to the caller or are kept.
LEMMA BurstKeeps ==
    ASSUME QueueInv, NEW k \in 0 .. Len(full), Burst(k),
           UNCHANGED <<supply, bufs, returned, wrong, arrived>>,
           LET d == Delivered(SubSeq(full, 1, k))
           IN  \/ /\ stash = <<>> /\ stash' = stash
                  /\ app' = app \cup Elems(FramesOf(d)) /\ got' = got \o IdsOf(d)
               \/ app' = app /\ got' = got /\ stash' = stash \o d
    PROVE  QueueInv'
<1> DEFINE b == SubSeq(full, 1, k)
           r == DropFirst(full, k)
           d == Delivered(b)
           H == [p \in Owners |-> IF p = "pool" THEN pool \cup Home(b)
                                  ELSE IF p = "full" THEN Real(FramesOf(full)) \ Home(b)
                                  ELSE Holds[p]]
<1>1. RxTypes /\ Lists /\ OneIn(Holds) /\ Counted /\ Numbered
  BY Zenon DEF QueueInv, Owned
<1>2. /\ full' = r /\ pool' = pool \cup Home(b) /\ refused' = refused \cup RefusedIn(b)
      /\ supply' = supply /\ bufs' = bufs /\ returned' = returned /\ wrong' = wrong
      /\ arrived' = arrived
  BY Zenon DEF Burst, RefusedIn
<1>3. Splits(k, b, r, d)
  BY Zenon, <1>1, BurstSplits
<1>4. Counted' /\ outstanding' \in Int
  BY Zenon, <1>1, BurstCounted
<1>5. full \in Seq(Filled) /\ got \in Seq(Nat) /\ stash \in Seq(Good) /\ stash \in Seq(Filled)
  BY Zenon, <1>1, GoodIs DEF RxTypes
<1>6. IdsOf(stash) \in Seq(Nat) /\ FramesOf(stash) \in Seq(Addrs) /\ FramesOf(full) \in Seq(Addrs)
  BY Zenon, <1>5, IdsOfIs, FramesOfIs
<1>7. Out \in Seq(Nat)
  BY Zenon, <1>5, <1>6, JoinIs DEF Out
<1>8. /\ Numbers(Out \o IdsOf(d), refused \cup RefusedIn(b), arrived - Len(full) + k)
      /\ IdsOf(d) \in Seq(Nat)
  BY Zenon, <1>1, <1>7, BurstNumbers DEF Numbered
<1>o. \/ /\ stash = <<>> /\ stash' = stash
         /\ app' = app \cup Elems(FramesOf(d)) /\ got' = got \o IdsOf(d)
      \/ app' = app /\ got' = got /\ stash' = stash \o d
  BY Zenon
<1> HIDE DEF b, r, d
<1>s. /\ b \in Seq(Filled) /\ r \in Seq(Filled) /\ d \in Seq(Good)
      /\ Len(b) = k /\ Len(r) = Len(full) - k
      /\ \A i \in 1 .. Len(full) - k : r[i] = full[i + k]
      /\ Distinct(FramesOf(r)) /\ Distinct(FramesOf(d)) /\ FramesOf(d) \in Seq(Addrs)
      /\ Home(b) \in SUBSET Real(FramesOf(full))
      /\ Real(FramesOf(d)) \in SUBSET (Real(FramesOf(full)) \ Home(b))
      /\ Real(FramesOf(r)) = (Real(FramesOf(full)) \ Home(b)) \ Real(FramesOf(d))
  BY Zenon, <1>3 DEF Splits
<1>9. Elems(FramesOf(d)) = Real(FramesOf(d)) /\ d \in Seq(Filled)
  BY Zenon, <1>s, GoodFrames, GoodIs
<1>10. /\ H["pool"] = pool \cup Home(b) /\ H["full"] = Real(FramesOf(full)) \ Home(b)
       /\ H["supply"] = Real(supply) /\ H["bufs"] = Real(bufs)
       /\ H["returned"] = Real(returned) /\ H["stash"] = Real(FramesOf(stash))
       /\ H["app"] = app /\ H["wrong"] = wrong
  BY HoldsAre DEF Owners
<1> HIDE DEF H
<1>11. Moves(Holds, H, "full", "pool", Home(b))
  <2>1. /\ Home(b) \in SUBSET Holds["full"] /\ H["full"] = Holds["full"] \ Home(b)
        /\ H["pool"] = Holds["pool"] \cup Home(b)
    BY Zenon, <1>s, <1>10, HoldsAre
  <2>2. /\ H["supply"] = Holds["supply"] /\ H["bufs"] = Holds["bufs"]
        /\ H["returned"] = Holds["returned"] /\ H["stash"] = Holds["stash"]
        /\ H["app"] = Holds["app"] /\ H["wrong"] = Holds["wrong"]
    BY Zenon, <1>10, HoldsAre
  <2> QED BY Zenon, <2>1, <2>2 DEF Moves, Owners
<1>12. OneIn(H)
  BY Zenon, <1>1, <1>11, Moved DEF Owners
<1>13. /\ Real(FramesOf(d)) \in SUBSET H["full"]
       /\ Holds'["full"] = H["full"] \ Real(FramesOf(d))
       /\ Holds'["pool"] = H["pool"] /\ Holds'["supply"] = H["supply"]
       /\ Holds'["bufs"] = H["bufs"] /\ Holds'["returned"] = H["returned"]
       /\ Holds'["wrong"] = H["wrong"]
  BY Zenon, <1>2, <1>s, <1>10, HoldsThen
<1>t. app' \in SUBSET Frames /\ stash' \in Seq(Good) /\ got' \in Seq(Nat) => RxTypes'
  <2>1. Real(FramesOf(full)) \in SUBSET Frames
    BY Zenon, <1>6, RealIs
  <2>2. pool' \in SUBSET Frames
    BY Zenon, <1>1, <1>2, <1>s, <2>1 DEF RxTypes
  <2> QED BY Zenon, <1>1, <1>2, <1>4, <1>s, <2>2 DEF RxTypes
<1>n. Out' = Out \o IdsOf(d) => Numbered'
  <2>1. Len(full') = Len(full) - k /\ arrived \in Nat /\ Len(full) \in Nat
    BY <1>1, <1>2, <1>s DEF RxTypes
  <2>2. arrived' - Len(full') = arrived - Len(full) + k /\ Len(full') <= arrived'
    BY <1>1, <1>2, <2>1 DEF Numbered
  <2>3. ASSUME NEW i \in 1 .. Len(full') PROVE full'[i].id = arrived' - Len(full') + i
    <3>1. i \in 1 .. Len(full) - k /\ i + k \in 1 .. Len(full)
      BY <2>1
    <3>2. full'[i] = full[i + k]
      BY Zenon, <1>2, <1>s, <3>1
    <3>3. full[i + k].id = arrived - Len(full) + (i + k)
      BY Zenon, <1>1, <3>1 DEF Numbered
    <3>4. arrived - Len(full) + (i + k) = arrived - Len(full) + k + i
      BY <2>1, <3>1
    <3> QED BY Zenon, <2>2, <3>2, <3>3, <3>4
  <2>4. ASSUME Out' = Out \o IdsOf(d) PROVE Numbers(Out', refused', arrived' - Len(full'))
    BY Zenon, <1>2, <1>8, <2>2, <2>4
  <2> QED BY Zenon, <2>2, <2>3, <2>4 DEF Numbered
<1>14. CASE /\ stash = <<>> /\ stash' = stash
            /\ app' = app \cup Elems(FramesOf(d)) /\ got' = got \o IdsOf(d)
  <2>1. Moves(H, Holds', "full", "app", Real(FramesOf(d)))
    <3>1. Holds'["app"] = H["app"] \cup Real(FramesOf(d)) /\ Holds'["stash"] = H["stash"]
      BY Zenon, <1>9, <1>10, <1>14, HoldsThen
    <3> QED BY Zenon, <1>13, <3>1 DEF Moves, Owners
  <2>2. OneIn(Holds')
    BY Zenon, <1>12, <2>1, Moved DEF Owners
  <2>3. Lists'
    BY Zenon, <1>1, <1>2, <1>s, <1>14 DEF Lists
  <2>4. RxTypes'
    <3>1. Real(FramesOf(d)) \in SUBSET Frames
      BY Zenon, <1>s, RealIs
    <3>2. app' \in SUBSET Frames
      BY Zenon, <1>1, <1>9, <1>14, <3>1 DEF RxTypes
    <3>3. got' \in Seq(Nat)
      BY Zenon, <1>5, <1>8, <1>14, JoinIs
    <3> QED BY Zenon, <1>5, <1>14, <1>t, <3>2, <3>3
  <2>5. Out' = Out \o IdsOf(d)
    <3>1. IdsOf(stash) = <<>>
      BY <1>14 DEF IdsOf
    <3>2. got \o <<>> = got /\ (got \o IdsOf(d)) \o <<>> = got \o IdsOf(d)
      BY <1>5, <1>8
    <3> QED BY Zenon, <1>14, <3>1, <3>2 DEF Out
  <2> QED BY Zenon, <1>4, <1>n, <2>2, <2>3, <2>4, <2>5 DEF QueueInv, Owned
<1>15. CASE app' = app /\ got' = got /\ stash' = stash \o d
  <2>1. FramesOf(stash') = FramesOf(stash) \o FramesOf(d)
    BY Zenon, <1>5, <1>9, <1>15, FramesJoin
  <2>2. Real(FramesOf(stash)) \cap Real(FramesOf(d)) = {}
    <3>1. \A f \in Frames : f \in Real(FramesOf(full)) => f \notin Real(FramesOf(stash))
      BY Zenon, <1>1, HoldsAre, Apart DEF Owners
    <3>2. Real(FramesOf(full)) \in SUBSET Frames
      BY Zenon, <1>6, RealIs
    <3> QED BY Zenon, <1>s, <3>1, <3>2
  <2>3. /\ Distinct(FramesOf(stash) \o FramesOf(d))
        /\ Real(FramesOf(stash) \o FramesOf(d)) = Real(FramesOf(stash)) \cup Real(FramesOf(d))
    BY Zenon, <1>1, <1>6, <1>s, <2>2, JoinKeeps DEF Lists
  <2>4. Moves(H, Holds', "full", "stash", Real(FramesOf(d)))
    <3>1. Holds'["stash"] = H["stash"] \cup Real(FramesOf(d)) /\ Holds'["app"] = H["app"]
      BY Zenon, <1>10, <1>15, <2>1, <2>3, HoldsThen
    <3> QED BY Zenon, <1>13, <3>1 DEF Moves, Owners
  <2>5. OneIn(Holds')
    BY Zenon, <1>12, <2>4, Moved DEF Owners
  <2>6. Lists'
    BY Zenon, <1>1, <1>2, <1>s, <2>1, <2>3 DEF Lists
  <2>7. RxTypes'
    <3>1. stash' \in Seq(Good)
      BY Zenon, <1>5, <1>s, <1>15, JoinIs
    <3> QED BY Zenon, <1>1, <1>15, <1>t, <3>1 DEF RxTypes
  <2>8. Out' = Out \o IdsOf(d)
    <3>1. IdsOf(stash') = IdsOf(stash) \o IdsOf(d)
      BY Zenon, <1>5, <1>9, <1>15, IdsJoin
    <3>2. (got \o IdsOf(stash)) \o IdsOf(d) = got \o (IdsOf(stash) \o IdsOf(d))
      BY Zenon, <1>5, <1>6, <1>8, JoinedTwice
    <3> QED BY Zenon, <1>15, <3>1, <3>2 DEF Out
  <2> QED BY Zenon, <1>4, <1>n, <2>5, <2>6, <2>7, <2>8 DEF QueueInv, Owned
<1> QED BY Zenon, <1>o, <1>14, <1>15

-----------------------------------------------------------------------------
(* Every step keeps the invariant. *)

LEMMA QueueStarts == ASSUME Init PROVE QueueInv
<1> DEFINE k == Least(Cardinality(Frames), SupplyCap)
<1>1. IsFiniteSet(Frames) /\ Cardinality(Frames) \in Nat /\ SupplyCap \in Nat
  BY DpdkRxAssumption, FS_CardinalityType
<1>2. k \in Nat /\ k <= Cardinality(Frames) /\ k <= SupplyCap
  BY <1>1 DEF Least
<1>3. /\ supply = Some(Frames, k) /\ pool = Frames \ Elems(supply)
      /\ bufs = <<>> /\ full = <<>> /\ returned = <<>> /\ stash = <<>> /\ got = <<>>
      /\ app = {} /\ wrong = {} /\ refused = {} /\ arrived = 0
      /\ outstanding = Len(supply) /\ dead = FALSE
  BY Zenon DEF Init
<1> HIDE DEF k
<1>4. supply \in [1 .. k -> Frames] /\ \A i, j \in 1 .. k : supply[i] = supply[j] => i = j
  BY Zenon, <1>1, <1>2, <1>3, SomeIs
<1>5. supply \in Seq(Frames) /\ Len(supply) = k
  BY <1>2, <1>4
<1>6. Distinct(supply)
  BY Zenon, <1>4, <1>5 DEF Distinct
<1>7. supply \in Seq(Addrs) /\ Elems(supply) = Real(supply)
  BY Zenon, <1>5, FramesAddrs
<1>8. FramesOf(<<>>) = <<>> /\ IdsOf(<<>>) = <<>> /\ Real(<<>>) = {} /\ Distinct(<<>>)
  BY DEF FramesOf, IdsOf, Real, Elems, Distinct
<1>9. Lists
  BY Zenon, <1>3, <1>6, <1>8 DEF Lists
<1>10. /\ Holds["pool"] = Frames \ Real(supply) /\ Holds["supply"] = Real(supply)
       /\ Holds["bufs"] = {} /\ Holds["full"] = {} /\ Holds["returned"] = {}
       /\ Holds["stash"] = {} /\ Holds["app"] = {} /\ Holds["wrong"] = {}
  BY Zenon, <1>3, <1>7, <1>8, HoldsAre
<1>11. OneIn(Holds)
  <2> SUFFICES ASSUME NEW f \in Frames
               PROVE  \E p \in Owners : \A q \in Owners : f \in Holds[q] <=> q = p
    BY Zenon DEF OneIn
  <2>1. CASE f \in Real(supply)
    <3>1. \A q \in Owners : f \in Holds[q] <=> q = "supply"
      BY Zenon, <1>10, <2>1 DEF Owners
    <3> QED BY Zenon, <3>1 DEF Owners
  <2>2. CASE f \notin Real(supply)
    <3>1. \A q \in Owners : f \in Holds[q] <=> q = "pool"
      BY Zenon, <1>10, <2>2 DEF Owners
    <3> QED BY Zenon, <3>1 DEF Owners
  <2> QED BY Zenon, <2>1, <2>2
<1>12. RxTypes
  BY <1>2, <1>3, <1>5 DEF RxTypes
<1>13. Counted
  BY <1>2, <1>3, <1>5 DEF Counted
<1>14. Numbered
  <2>1. Out = <<>>
    BY <1>3, <1>8 DEF Out
  <2>2. Len(full) = 0 /\ Len(Out) = 0
    BY <1>3, <2>1
  <2> QED BY <1>3, <2>2 DEF Numbered, Numbers
<1> QED BY Zenon, <1>9, <1>11, <1>12, <1>13, <1>14 DEF QueueInv, Owned

LEMMA SizesAre ==
    ASSUME RxTypes, NEW max \in Nat, NEW k \in BurstSizes(max)
    PROVE  k \in 0 .. Len(full)
<1>1. Len(full) \in Nat
  BY DEF RxTypes
<1> QED BY <1>1 DEF BurstSizes, Least

LEMMA ReceiveKeeps == ASSUME QueueInv, NEW max \in Nat, Receive(max) PROVE QueueInv'
<1>1. RxTypes
  BY Zenon DEF QueueInv
<1>2. UNCHANGED <<supply, bufs, returned, wrong, arrived>>
  BY Zenon DEF Receive
<1>3. CASE stash # <<>>
  <2> DEFINE k == Least(max, Len(stash))
  <2>1. k \in 0 .. Len(stash)
    <3>1. Len(stash) \in Nat
      BY <1>1 DEF RxTypes
    <3> QED BY <3>1 DEF Least
  <2>2. /\ app' = app \cup Elems(FramesOf(SubSeq(stash, 1, k)))
        /\ got' = got \o IdsOf(SubSeq(stash, 1, k))
        /\ stash' = DropFirst(stash, k)
        /\ UNCHANGED <<full, pool, outstanding, dead, refused>>
    BY Zenon, <1>3 DEF Receive, StashFirst
  <2> HIDE DEF k
  <2>3. UNCHANGED <<pool, supply, bufs, full, returned, outstanding, dead, wrong, arrived,
                    refused>>
    BY Zenon, <1>2, <2>2
  <2> QED BY Zenon, <2>1, <2>2, <2>3, StashKeeps
<1>4. CASE stash = <<>>
  <2>1. PICK k \in BurstSizes(max) :
           /\ Burst(k)
           /\ app' = app \cup Elems(FramesOf(Delivered(SubSeq(full, 1, k))))
           /\ got' = got \o IdsOf(Delivered(SubSeq(full, 1, k)))
           /\ UNCHANGED stash
    BY Zenon, <1>4 DEF Receive, StashFirst
  <2>2. k \in 0 .. Len(full)
    BY Zenon, <1>1, SizesAre
  <2> QED BY Zenon, <1>2, <1>4, <2>1, <2>2, BurstKeeps
<1> QED BY Zenon, <1>3, <1>4

LEMMA LookKeeps == ASSUME QueueInv, PollLook PROVE QueueInv'
<1>1. RxTypes /\ Len(full) \in Nat
  BY DEF QueueInv, RxTypes
<1>2. UNCHANGED <<supply, bufs, returned, wrong, arrived>> /\ app' = app /\ got' = got
  BY Zenon DEF PollLook
<1>3. PICK k \in BurstSizes(Len(full)) :
         Burst(k) /\ stash' = stash \o Delivered(SubSeq(full, 1, k))
  BY Zenon DEF PollLook
<1>4. k \in 0 .. Len(full)
  BY Zenon, <1>1, SizesAre
<1> QED BY Zenon, <1>2, <1>3, <1>4, BurstKeeps

LEMMA QueueKept == ASSUME QueueInv, [Next]_vars PROVE QueueInv'
<1>1. CASE DriverDraws
  BY Zenon, <1>1, DrawsKeeps
<1>2. CASE \E kind \in {"good", "bad", Alien} : NicReceives(kind)
  BY Zenon, <1>2, ArrivesKeeps
<1>3. CASE bufs # <<>> /\ \E addr \in {Head(bufs), Alien} : DriverFrees(addr)
  BY Zenon, <1>3, FreesKeeps
<1>4. CASE \E n \in 1 .. Cardinality(Frames) : Fill(n) \/ Receive(n)
  <2>1. PICK n \in 1 .. Cardinality(Frames) : Fill(n) \/ Receive(n)
    BY Zenon, <1>4
  <2>2. n \in Nat
    OBVIOUS
  <2> QED BY Zenon, <2>1, <2>2, FillKeeps, ReceiveKeeps
<1>5. CASE \E f \in Frames : Recycle(f)
  BY Zenon, <1>5, RecycleKeeps
<1>6. CASE PollLook
  BY Zenon, <1>6, LookKeeps
<1>7. CASE PollCall \/ PollLock \/ CloseFlag \/ CloseShut \/ PortStop \/ UNCHANGED vars
  <2>1. UNCHANGED queueVars
    BY Zenon, <1>7 DEF PollCall, PollLock, CloseFlag, CloseShut, PortStop, vars, queueVars
  <2> QED BY Zenon, <2>1, QueueSame
<1> QED BY Zenon, <1>1, <1>2, <1>3, <1>4, <1>5, <1>6, <1>7 DEF Next

-----------------------------------------------------------------------------
(* The properties. *)

\* A frame of a list without repetitions is in one place of it.
LEMMA PlacesOf ==
    ASSUME NEW s \in Seq(Addrs), Distinct(s), NEW f \in Frames
    PROVE  Cardinality(At(s, f)) = IF f \in Real(s) THEN 1 ELSE 0
<1>1. DOMAIN s = 1 .. Len(s) /\ f # Alien
  BY DpdkRxAssumption
<1>2. \A i : i \in At(s, f) <=> i \in 1 .. Len(s) /\ s[i] = f
  BY Zenon, <1>1 DEF At
<1>3. f \in Real(s) <=> \E i \in 1 .. Len(s) : s[i] = f
  BY Zenon, <1>1, RealIs
<1>4. CASE f \in Real(s)
  <2>1. PICK i \in 1 .. Len(s) : s[i] = f
    BY Zenon, <1>3, <1>4
  <2>2. At(s, f) = {i}
    BY Zenon, <1>1, <1>2, <2>1 DEF Distinct
  <2>3. Cardinality({i}) = 1
    BY Zenon, FS_Singleton
  <2> QED BY Zenon, <1>4, <2>2, <2>3
<1>5. CASE f \notin Real(s)
  <2>1. At(s, f) = {}
    BY Zenon, <1>2, <1>3, <1>5
  <2>2. Cardinality({}) = 0
    BY FS_EmptySet
  <2> QED BY Zenon, <1>5, <2>1, <2>2
<1> QED BY Zenon, <1>4, <1>5

LEMMA OwnedOnce == ASSUME QueueInv PROVE OneOwner
<1>1. RxTypes /\ Lists /\ OneIn(Holds) /\ Counted
  BY Zenon DEF QueueInv, Owned
<1>2. /\ supply \in Seq(Addrs) /\ bufs \in Seq(Addrs) /\ returned \in Seq(Addrs)
      /\ FramesOf(full) \in Seq(Addrs) /\ FramesOf(stash) \in Seq(Addrs)
  BY Zenon, <1>1, FramesAddrs, FramesOfIs, GoodIs DEF RxTypes
<1>3. ASSUME NEW f \in Frames
      PROVE  In(pool, f) + In(app, f) + In(wrong, f)
             + Cardinality(At(supply, f)) + Cardinality(At(bufs, f))
             + Cardinality(At(returned, f))
             + Cardinality(At(FramesOf(full), f)) + Cardinality(At(FramesOf(stash), f)) = 1
  <2>1. PICK p \in Owners : \A q \in Owners : f \in Holds[q] <=> q = p
    BY Zenon, <1>1 DEF OneIn
  <2> DEFINE one(q) == IF p = q THEN 1 ELSE 0
  <2>2. /\ In(pool, f) = one("pool") /\ In(app, f) = one("app") /\ In(wrong, f) = one("wrong")
    BY Zenon, <2>1, HoldsAre DEF In, Owners
  <2>3. /\ Cardinality(At(supply, f)) = one("supply")
        /\ Cardinality(At(bufs, f)) = one("bufs")
        /\ Cardinality(At(returned, f)) = one("returned")
    BY Zenon, <1>1, <1>2, <2>1, HoldsAre, PlacesOf DEF Lists, Owners
  <2>4. /\ Cardinality(At(FramesOf(full), f)) = one("full")
        /\ Cardinality(At(FramesOf(stash), f)) = one("stash")
    BY Zenon, <1>1, <1>2, <2>1, HoldsAre, PlacesOf DEF Lists, Owners
  <2>5. one("pool") + one("app") + one("wrong") + one("supply") + one("bufs")
        + one("returned") + one("full") + one("stash") = 1
    BY DEF Owners
  <2> HIDE DEF one
  <2> QED BY Zenon, <2>2, <2>3, <2>4, <2>5
<1> QED BY Zenon, <1>1, <1>3 DEF OneOwner, Counted

\* Every frame of the queue has exactly one owner, whatever the driver draws, frees or
\* forgets, however many a burst hands over and wherever a Close falls; outstanding
\* counts what the driver has until an address that is no frame declares the queue
\* dead, and never less (dpdk/internal/queue, Rx).
THEOREM EveryFrameOwned == Spec => []OneOwner
<1>1. Init => QueueInv
  BY QueueStarts
<1>2. QueueInv /\ [Next]_vars => QueueInv'
  BY QueueKept
<1>3. QueueInv => OneOwner
  BY OwnedOnce
<1> QED BY <1>1, <1>2, <1>3, PTL DEF Spec

LEMMA InOrderNone == ASSUME QueueInv PROVE NoneSkipped
<1>1. Out \in Seq(Nat)
  <2>1. got \in Seq(Nat) /\ stash \in Seq(Good)
    BY Zenon DEF QueueInv, RxTypes
  <2>2. IdsOf(stash) \in Seq(Nat)
    BY Zenon, <2>1, GoodIs, IdsOfIs
  <2> QED BY Zenon, <2>1, <2>2, JoinIs DEF Out
<1>2. DOMAIN Out = 1 .. Len(Out)
  BY <1>1
<1>3. Numbers(Out, refused, arrived - Len(full))
  BY Zenon DEF QueueInv, Numbered
<1>4. \A i, j \in DOMAIN Out : i < j => Out[i] < Out[j]
  BY Zenon, <1>2, <1>3 DEF Numbers
<1>5. \A x : x \in Elems(Out) \/ x \in refused <=> x \in 1 .. arrived - Len(full)
  BY Zenon, <1>3 DEF Numbers, Elems
<1>6. Elems(Out) \cup refused = 1 .. arrived - Len(full)
  BY Zenon, <1>5
<1> QED BY Zenon, <1>4, <1>6 DEF NoneSkipped, Out

\* The caller gets every packet that was not refused, once and in order of arrival,
\* whatever mix of Poll, NumReceived and Receive takes them and in whatever bursts
\* (dpdk/queues.go, the stash; dpdk/internal/queue, Rx.Receive).
THEOREM OnceInOrder == Spec => []NoneSkipped
<1>1. Init => QueueInv
  BY QueueStarts
<1>2. QueueInv /\ [Next]_vars => QueueInv'
  BY QueueKept
<1>3. QueueInv => NoneSkipped
  BY InOrderNone
<1> QED BY <1>1, <1>2, <1>3, PTL DEF Spec

-----------------------------------------------------------------------------
(* Poll against Close. *)

\* Close goes on to the port when it has had ringMu, and who takes ringMu after
\* that finds the queue closed.
Locked ==
    /\ shut # "no" => closed
    /\ shut = "done" => poll # "looks"
    /\ port # "up" => shut = "done"

LEMMA LockedKept == ASSUME Locked, [Next]_vars PROVE Locked'
<1>1. CASE UNCHANGED <<closed, shut, poll, port>>
  BY <1>1 DEF Locked
<1>2. CASE PollCall
  BY <1>2 DEF PollCall, Locked
<1>3. CASE PollLock
  BY <1>3 DEF PollLock, Admitted, Locked
<1>4. CASE PollLook
  <2>1. UNCHANGED <<closed, shut, port>> /\ poll' \in {"no", "waits"}
    BY <1>4 DEF PollLook
  <2> QED BY <2>1 DEF Locked
<1>5. CASE CloseFlag
  BY <1>5 DEF CloseFlag, Locked
<1>6. CASE CloseShut
  BY <1>6 DEF CloseShut, LockFree, Locked
<1>7. CASE PortStop
  BY <1>7 DEF PortStop, Locked
<1>8. CASE \/ DriverDraws
           \/ \E kind \in {"good", "bad", Alien} : NicReceives(kind)
           \/ bufs # <<>> /\ \E addr \in {Head(bufs), Alien} : DriverFrees(addr)
           \/ \E n \in 1 .. Cardinality(Frames) : Fill(n) \/ Receive(n)
           \/ \E f \in Frames : Recycle(f)
           \/ UNCHANGED vars
  <2>1. UNCHANGED <<closed, shut, poll, port>>
    BY Zenon, <1>8 DEF DriverDraws, NicReceives, DriverFrees, Fill, Receive, Recycle, vars
  <2> QED BY <1>1, <2>1
<1> QED BY Zenon, <1>2, <1>3, <1>4, <1>5, <1>6, <1>7, <1>8 DEF Next

\* A goroutine inside Poll has left the driver before the port is stopped underneath
\* it, whatever the ring sizes and however the two interleave (dpdk/queues.go, pollOnce
\* and Close's use of ringMu).
THEOREM PollLeavesFirst == Spec => []NotInStoppedDriver
<1>1. Init => Locked
  BY DEF Init, Locked
<1>2. Locked /\ [Next]_vars => Locked'
  BY LockedKept
<1>3. Locked => NotInStoppedDriver
  BY DEF Locked, NotInStoppedDriver
<1> QED BY <1>1, <1>2, <1>3, PTL DEF Spec

=============================================================================
