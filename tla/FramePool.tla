----------------------------- MODULE FramePool -----------------------------
(***************************************************************************)
(* The free list of internal/pool: a LIFO of frame addresses, in its       *)
(* checked build (check_on.go, one bit per frame) and its unchecked one    *)
(* (check_off.go), under callers that keep the contract and callers that   *)
(* do not.                                                                 *)
(***************************************************************************)
EXTENDS Integers, Sequences, FiniteSets

CONSTANTS
    BaseIndex,   \* index of the pool's first frame in the region
    Count,       \* frames in the pool
    FrameSize,
    RegionFrames,\* frames in the region: addresses a caller may name
    MaxRejected  \* bound on the refusal counter

ASSUME PoolAssumption ==
    /\ BaseIndex \in Nat /\ Count \in Nat \ {0} /\ FrameSize \in Nat \ {0}
    /\ RegionFrames \in Nat /\ MaxRejected \in Nat

VARIABLES
    checked,   \* built with packetio_checked; fixed
    trusted,   \* callers return only what they hold; fixed
    free,      \* p.free
    in,        \* p.in: indices of the frames recorded as free
    rejected,  \* p.rejected
    held       \* frames popped by a caller and not accepted back

config == <<checked, trusted>>
vars == <<config, free, in, rejected, held>>

base == BaseIndex * FrameSize
end  == base + Count * FrameSize

\* Variant: the first frame of the pool is not seen as its own.
OwnsPastBase(addr) == addr > base /\ addr < end

Owns(addr)  == addr >= base /\ addr < end
Index(addr) == (addr - base) \div FrameSize
Base(addr)  == addr - (addr % FrameSize)

Elems(s) == {s[i] : i \in 1 .. Len(s)}

\* New: the lowest addresses are popped first.
Init ==
    /\ checked \in BOOLEAN /\ trusted \in BOOLEAN
    /\ free = [i \in 1 .. Count |-> (BaseIndex + Count - i) * FrameSize]
    /\ in = IF checked THEN 0 .. Count - 1 ELSE {}
    /\ rejected = 0
    /\ held = {}

\* What Pop leaves of the list, and of the bits.
Remaining(k)   == SubSeq(free, 1, Len(free) - k)
Cleared(taken) == in \ {Index(a) : a \in taken}

\* Pop: up to n frames off the end of the list, marked taken.
Pop(n) ==
    LET k     == IF n > Len(free) THEN Len(free) ELSE n
        taken == Elems(SubSeq(free, Len(free) - k + 1, Len(free)))
    IN  /\ k > 0
        /\ free' = Remaining(k)
        /\ in' = Cleared(taken)
        /\ held' = held \cup taken
        /\ UNCHANGED <<config, rejected>>

\* The two refusals of Push; the second only in a checked build.
Refused(addr) == ~Owns(addr) \/ addr % FrameSize # 0 \/ Len(free) >= Count
MarkedFree(addr) == checked /\ Index(addr) \in in

Push(addr) ==
    IF Refused(addr) \/ MarkedFree(addr)
    THEN /\ rejected < MaxRejected
         /\ rejected' = rejected + 1
         /\ UNCHANGED <<config, free, in, held>>
    ELSE /\ free' = Append(free, addr)
         /\ in' = IF checked THEN in \cup {Index(addr)} ELSE in
         /\ held' = held \ {addr}
         /\ UNCHANGED <<config, rejected>>

\* A caller rounds a descriptor's address down to its frame.  One that keeps
\* the contract does so with a frame it holds.
Return ==
    \E addr \in 0 .. RegionFrames * FrameSize - 1 :
        /\ trusted => Base(addr) \in held
        /\ Push(Base(addr))

\* A caller that does not round, and may name anything.
PushRaw ==
    /\ ~trusted
    /\ \E addr \in 0 .. RegionFrames * FrameSize - 1 : Push(addr)

Next ==
    \/ \E n \in 1 .. Count : Pop(n)
    \/ Return
    \/ PushRaw

Spec == Init /\ [][Next]_vars

-----------------------------------------------------------------------------
Starts == {(BaseIndex + i) * FrameSize : i \in 0 .. Count - 1}

\* Every variable has its type; what is on the list is a frame of this pool.
TypeOK ==
    /\ checked \in BOOLEAN /\ trusted \in BOOLEAN
    /\ free \in Seq(Starts) /\ Len(free) <= Count
    /\ in \subseteq 0 .. Count - 1
    /\ rejected \in Nat
    /\ held \subseteq Starts

\* No frame is on the free list twice, so no two Pops hand out one frame.  The
\* checked build keeps this against callers that lose frames, return them twice
\* or return frames that are not theirs; without it callers have to be right.
NoDuplicates ==
    checked \/ trusted => \A i, j \in 1 .. Len(free) : free[i] = free[j] => i = j

\* The bit map of the checked build says exactly what is on the list.
BitsMatchList == checked => in = {Index(free[i]) : i \in 1 .. Len(free)}

\* With callers that keep the contract no frame is lost, no frame is both free
\* and held, and nothing is ever refused, in either build: "Anything but zero
\* is a bug in the code above the pool".
NothingLost ==
    trusted => /\ held \cap Elems(free) = {}
               /\ held \cup Elems(free) = Starts
               /\ rejected = 0

=============================================================================
