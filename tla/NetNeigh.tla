------------------------------ MODULE NetNeigh ------------------------------
(***************************************************************************)
(* The neighbor table of netstack (netstack/neigh.go) and the stack's ARP  *)
(* cache that is kept in step with it (netstack/stack.go).  The table is   *)
(* copy-on-write under a mutex; the cache is told afterwards, outside that *)
(* mutex, in two calls.  Receive goroutines learn, callers pin.            *)
(***************************************************************************)
EXTENDS Integers, FiniteSets, Functions

CONSTANTS
    IPs, MACs,
    MaxNeighbors, \* maxNeighbors
    Loops,        \* receive goroutines, which learn
    Pinners       \* goroutines in AddNeighbor

ASSUME NetNeighAssumption == MaxNeighbors \in Nat \ {0} /\ Loops \cap Pinners = {}

VARIABLES
    table,  \* *n.m: address -> [mac, pinned]
    recent, \* the last write is less than writeInterval old
    cache,  \* the static entries of the stack's ARP cache: address -> MAC
    call    \* what each goroutine is in the middle of

neighVars == <<table, recent, cache, call>>

Idle == [at |-> "idle"]

NeighInit ==
    /\ table = << >> /\ cache = << >>
    /\ recent = FALSE
    /\ call = [g \in Loops \cup Pinners |-> Idle]

Known(ip) == ip \in DOMAIN table
Full == Cardinality(DOMAIN table) >= MaxNeighbors
Put(f, k, v) == [x \in DOMAIN f \cup {k} |-> IF x = k THEN v ELSE f[x]]
Drop(f, ks) == Restrict(f, DOMAIN f \ ks)

\* learn, up to the lock: what it tests may be stale by the time it has it.
Learn(g, ip, mac) ==
    /\ g \in Loops /\ call[g] = Idle
    /\ ~(Known(ip) /\ (table[ip].mac = mac \/ table[ip].pinned))
    /\ (Known(ip) \/ Full) => ~recent
    /\ call' = [call EXCEPT ![g] = [at |-> "write", ip |-> ip, nb |-> [mac |-> mac, pinned |-> FALSE]]]
    /\ UNCHANGED <<table, recent, cache>>

Pin(g, ip, mac) ==
    /\ g \in Pinners /\ call[g] = Idle
    /\ call' = [call EXCEPT ![g] = [at |-> "write", ip |-> ip, nb |-> [mac |-> mac, pinned |-> TRUE]]]
    /\ UNCHANGED <<table, recent, cache>>

\* Variant: pinned tested before the lock only.
RefusedUnlocked(ip, nb) ==
    \/ Known(ip) /\ table[ip] = nb
    \/ ~nb.pinned /\ (Known(ip) \/ Full) /\ recent
    \/ ~Known(ip) /\ Full /\ \A k \in DOMAIN table : table[k].pinned

\* The tests write makes of the table it finds under the lock.
Refused(ip, nb) ==
    \/ Known(ip) /\ table[ip] = nb
    \/ Known(ip) /\ table[ip].pinned /\ ~nb.pinned
    \/ ~nb.pinned /\ (Known(ip) \/ Full) /\ recent
    \/ ~Known(ip) /\ Full /\ \A k \in DOMAIN table : table[k].pinned

\* The entry write drops, if any: whichever unpinned one the map hands out.
Evictable(ip) ==
    IF Known(ip) \/ ~Full THEN {{}} ELSE {{k} : k \in {k \in DOMAIN table : ~table[k].pinned}}

Write(g) ==
    LET ip == call[g].ip
        nb == call[g].nb
    IN
    /\ call[g].at = "write"
    /\ UNCHANGED cache
    /\ \/ /\ Refused(ip, nb)
          /\ call' = [call EXCEPT ![g] = Idle]
          /\ UNCHANGED <<table, recent>>
       \/ /\ ~Refused(ip, nb)
          /\ \E gone \in Evictable(ip) :
                /\ table' = Put(Drop(table, gone), ip, nb)
                /\ call' = [call EXCEPT ![g] = [at |-> "tell", ip |-> ip, nb |-> nb, evicted |-> gone]]
          /\ recent' = TRUE

\* ep.learned: RemoveNeighbor for the evicted entry, then AddStaticNeighbor.
RemoveNeighbor(g) ==
    /\ call[g].at = "tell" /\ call[g].evicted # {}
    /\ cache' = Drop(cache, call[g].evicted)
    /\ call' = [call EXCEPT ![g].evicted = {}]
    /\ UNCHANGED <<table, recent>>

AddStaticNeighbor(g) ==
    /\ call[g].at = "tell" /\ call[g].evicted = {}
    /\ cache' = Put(cache, call[g].ip, call[g].nb.mac)
    /\ call' = [call EXCEPT ![g] = Idle]
    /\ UNCHANGED <<table, recent>>

IntervalPasses ==
    /\ recent /\ recent' = FALSE
    /\ UNCHANGED <<table, cache, call>>

NeighNext ==
    \/ \E g \in Loops, ip \in IPs, mac \in MACs : Learn(g, ip, mac)
    \/ \E g \in Pinners, ip \in IPs, mac \in MACs : Pin(g, ip, mac)
    \/ \E g \in Loops \cup Pinners : Write(g) \/ RemoveNeighbor(g) \/ AddStaticNeighbor(g)
    \/ IntervalPasses

NeighSpec == NeighInit /\ [][NeighNext]_neighVars

-----------------------------------------------------------------------------

\* The destination AddHeader writes: the cache first, then the table.
Destination(ip) ==
    IF ip \in DOMAIN cache THEN {cache[ip]}
    ELSE IF Known(ip) THEN {table[ip].mac} ELSE {}

\* A pinned entry of the table stays, with its MAC, whatever the receive goroutines learn, though
\* each tests for it before it holds the lock (neigh.go:73-105); only a caller's own pin changes it.
PinKept ==
    [][\A ip \in DOMAIN table : table[ip].pinned =>
        /\ ip \in DOMAIN table'
        /\ \/ table'[ip] = table[ip]
           \/ table'[ip].pinned /\ \E g \in Pinners : call[g].at = "write" /\ call[g].ip = ip /\ call'[g].at = "tell"
      ]_neighVars

\* "AddNeighbor pins the MAC for ip: learning will not change it" (endpoint.go:381): outside a call of
\* AddNeighbor, what is sent to a pinned address goes to the pinned MAC.
PinDecides ==
    (\A g \in Pinners : call[g] = Idle) =>
        \A ip \in DOMAIN table : table[ip].pinned => Destination(ip) = {table[ip].mac}

=============================================================================
