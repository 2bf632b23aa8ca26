----------------------------- MODULE DpdkDevice -----------------------------
(***************************************************************************)
(* Open and Close of a DPDK device (dpdk/device.go, dpdk/steering.go) over *)
(* the environment they drive (dpdk/internal/eal).  The environment and    *)
(* the port outlive a device: whatever a call leaves there, the next Open  *)
(* finds.  Any call into the environment may fail, and several goroutines  *)
(* may open and close the same device; each call is one step, as the       *)
(* environment's own goroutine runs them.                                  *)
(***************************************************************************)
EXTENDS Integers, FiniteSets, Sequences

CONSTANTS
    Users,     \* goroutines that open and close the device
    MaxQueues, \* bound: hardware queues of one Open
    MaxOpens,  \* bound: calls of Open
    MayFail    \* the calls of the environment that may fail

ASSUME DpdkDeviceAssumption == MaxQueues \in Nat \ {0} /\ MaxOpens \in Nat

VARIABLES
    coexists, \* Info.Coexists: the kernel keeps an interface on the device
    eal,      \* "off", "up", "failed"
    probes,   \* how often the device was probed
    bus,      \* which probe the bus device is of, 0 if there is none
    ethdev,   \* the ethernet port of the device
    region,   \* which Open holds the port's memzone, Nobody if it does not exist
    mempools, \* the mempools that exist: which Open's, of which queue
    dev,      \* of each goroutine, its Device and where it is
    opens,    \* how often Open was called
    failed    \* the calls made by some Close that have failed

portVars == <<bus, ethdev>>
memVars == <<region, mempools>>
envVars == <<eal, probes, portVars, memVars>>
devVars == <<coexists, envVars, dev, opens, failed>>

Nobody == 0
NoPool == <<>>
NoPort == [up |-> FALSE, started |-> FALSE, isolated |-> FALSE,
           promisc |-> FALSE, queues |-> <<>>]
NewPort == [NoPort EXCEPT !.up = TRUE]
NoDevice ==
    [at |-> "out", id |-> Nobody, queues |-> 0, wantPromisc |-> FALSE, steer |-> FALSE,
     handle |-> 0, built |-> 0, isolated |-> FALSE, promisc |-> FALSE, ready |-> FALSE,
     started |-> FALSE]

DevInit ==
    /\ coexists \in BOOLEAN
    /\ eal = "off" /\ probes = 0 /\ bus = 0 /\ ethdev = NoPort
    /\ region = Nobody /\ mempools = {}
    /\ dev = [u \in Users |-> NoDevice]
    /\ opens = 0
    /\ failed = {}

\* The mempool of queue i of this Open: another Open's, of the same name, is
\* another pool.
Pool(u, i) == <<dev[u].id, i>>
Pools(u) == {p \in mempools : p[1] = dev[u].id}
Holds(u) == region = dev[u].id

IsAt(u, at) == dev[u].at = at
Goto(u, to) == dev' = [dev EXCEPT ![u].at = to]
Leave(u) == dev' = [dev EXCEPT ![u] = NoDevice]
Fails(call) == call \in MayFail

\* Open returns an error: the deferred function closes what there is.
GiveUp(u) == Goto(u, "close") /\ UNCHANGED <<coexists, envVars, opens, failed>>

-----------------------------------------------------------------------------
(* Open *)

OpenCall(u) ==
    /\ IsAt(u, "out") /\ opens < MaxOpens /\ opens' = opens + 1
    /\ \E n \in 1 .. MaxQueues, promisc, steer \in BOOLEAN :
          dev' = [dev EXCEPT ![u] =
              [NoDevice EXCEPT !.at = "init", !.id = opens', !.queues = n,
                               !.wantPromisc = promisc, !.steer = steer]]
    /\ UNCHANGED <<coexists, envVars, failed>>

\* The environment starts once, with the device among its arguments.
EalInit(u) ==
    /\ IsAt(u, "init")
    /\ \/ /\ eal = "off" /\ eal' = "up"
          /\ probes' = 1 /\ bus' = 1 /\ ethdev' = NewPort
          /\ Goto(u, "find")
       \/ /\ eal = "off" /\ Fails("init") /\ eal' = "failed"
          /\ Leave(u) /\ UNCHANGED <<probes, portVars>>
       \/ /\ eal = "up" /\ Goto(u, "find") /\ UNCHANGED <<eal, probes, portVars>>
       \/ /\ eal = "failed" /\ Leave(u) /\ UNCHANGED <<eal, probes, portVars>>
    /\ UNCHANGED <<coexists, memVars, opens, failed>>

FindPort(u) ==
    /\ IsAt(u, "find")
    /\ Goto(u, IF ethdev.up THEN "handle" ELSE "probe")
    /\ UNCHANGED <<coexists, envVars, opens, failed>>

\* A device that is on the bus is not probed again.
Probe(u) ==
    /\ IsAt(u, "probe")
    /\ \/ /\ bus = 0 /\ probes' = probes + 1 /\ bus' = probes' /\ ethdev' = NewPort
          /\ Goto(u, "handle")
       \/ /\ bus # 0 \/ Fails("probe")
          /\ Leave(u) /\ UNCHANGED <<probes, portVars>>
    /\ UNCHANGED <<coexists, eal, memVars, opens, failed>>

TakeHandle(u) ==
    /\ IsAt(u, "handle")
    /\ dev' = [dev EXCEPT ![u].handle = IF ethdev.up THEN bus ELSE 0, ![u].at = "info"]
    /\ UNCHANGED <<coexists, envVars, opens, failed>>

\* With the checks of what the device allows against what was asked for.
AskInfo(u) ==
    /\ IsAt(u, "info")
    /\ \/ /\ ethdev.up /\ Goto(u, "region")
          /\ UNCHANGED <<coexists, envVars, opens, failed>>
       \/ (~ethdev.up \/ Fails("info")) /\ GiveUp(u)

RegionFree == region = Nobody

\* The memzone has the port's name: there is one.
ReserveRegion(u) ==
    /\ IsAt(u, "region")
    /\ \/ /\ RegionFree /\ region' = dev[u].id /\ Goto(u, "promisc")
          /\ UNCHANGED <<coexists, eal, probes, portVars, mempools, opens, failed>>
       \/ (~RegionFree \/ Fails("region")) /\ GiveUp(u)

\* setPromiscuous; a driver without the mode is accepted on a device this
\* process owns.  Placement, before it, and the rules, after it, may be refused.
Promiscuous(u) ==
    /\ IsAt(u, "promisc")
    /\ \/ /\ dev[u].wantPromisc /\ ethdev.up
          /\ ethdev' = [ethdev EXCEPT !.promisc = TRUE]
          /\ dev' = [dev EXCEPT ![u].promisc = TRUE, ![u].at = "isolate"]
          /\ UNCHANGED <<coexists, eal, probes, bus, memVars, opens, failed>>
       \/ /\ ~dev[u].wantPromisc \/ (~coexists /\ ethdev.up)
          /\ Goto(u, "isolate")
          /\ UNCHANGED <<coexists, envVars, opens, failed>>
       \/ (Fails("promisc") \/ (dev[u].wantPromisc /\ ~ethdev.up)) /\ GiveUp(u)

Isolates(u) == dev[u].steer /\ coexists

Isolate(u) ==
    /\ IsAt(u, "isolate")
    /\ \/ /\ Isolates(u) /\ ethdev.up
          /\ ethdev' = [ethdev EXCEPT !.isolated = TRUE]
          /\ dev' = [dev EXCEPT ![u].isolated = TRUE, ![u].at = "configure"]
          /\ UNCHANGED <<coexists, eal, probes, bus, memVars, opens, failed>>
       \/ /\ ~Isolates(u) /\ Goto(u, "configure")
          /\ UNCHANGED <<coexists, envVars, opens, failed>>
       \/ (Fails("isolate") \/ (Isolates(u) /\ ~ethdev.up)) /\ GiveUp(u)

\* Queues an earlier Open set up stay, with their stale mempools.
Resized(n) == [i \in 1 .. n |-> IF i \in DOMAIN ethdev.queues THEN ethdev.queues[i] ELSE NoPool]
Settable == ethdev.up /\ ~ethdev.started

Configure(u) ==
    /\ IsAt(u, "configure")
    /\ \/ /\ Settable /\ ethdev' = [ethdev EXCEPT !.queues = Resized(dev[u].queues)]
          /\ Goto(u, "pool")
          /\ UNCHANGED <<coexists, eal, probes, bus, memVars, opens, failed>>
       \/ (~Settable \/ Fails("configure")) /\ GiveUp(u)

\* NewMempool for the next queue; pools are named by port and queue.
NewMempool(u) ==
    LET i == dev[u].built + 1
        taken == \E p \in mempools : p[2] = i
    IN  /\ IsAt(u, "pool")
        /\ \/ /\ ~taken /\ mempools' = mempools \cup {Pool(u, i)}
              /\ Goto(u, "setup")
              /\ UNCHANGED <<coexists, eal, probes, portVars, region, opens, failed>>
           \/ (taken \/ Fails("pool")) /\ GiveUp(u)

AllBuilt(u, i) == i = dev[u].queues

\* The driver refuses a queue that the port is not configured for.
HasQueue(i) == Settable /\ i \in DOMAIN ethdev.queues

\* SetupTx or SetupRx (of a transmit queue it is the mbufs it sends that will
\* name the pool), and the queue over it; after the last the supplies are
\* filled, and the port is safe to close.
SetupQueue(u) ==
    LET i == dev[u].built + 1
    IN  /\ IsAt(u, "setup")
        /\ \/ /\ HasQueue(i)
              /\ ethdev' = [ethdev EXCEPT !.queues[i] = Pool(u, i)]
              /\ dev' = [dev EXCEPT ![u].built = i, ![u].ready = AllBuilt(u, i),
                                    ![u].at = IF AllBuilt(u, i) THEN "start" ELSE "pool"]
              /\ UNCHANGED <<coexists, eal, probes, bus, memVars, opens, failed>>
           \/ (~HasQueue(i) \/ Fails("setup")) /\ GiveUp(u)
           \/ /\ HasQueue(i) /\ Fails("newqueue")
              /\ ethdev' = [ethdev EXCEPT !.queues[i] = Pool(u, i)]
              /\ Goto(u, "close")
              /\ UNCHANGED <<coexists, eal, probes, bus, memVars, opens, failed>>

Start(u) ==
    /\ IsAt(u, "start")
    /\ \/ /\ ethdev.up /\ ethdev' = [ethdev EXCEPT !.started = TRUE]
          /\ dev' = [dev EXCEPT ![u].started = TRUE, ![u].at = "flow"]
          /\ UNCHANGED <<coexists, eal, probes, bus, memVars, opens, failed>>
       \/ (~ethdev.up \/ Fails("start")) /\ GiveUp(u)

\* The steering rules, which closing the port removes.
Flow(u) ==
    /\ IsAt(u, "flow")
    /\ \/ Goto(u, "open") /\ UNCHANGED <<coexists, envVars, opens, failed>>
       \/ dev[u].steer /\ Fails("flow") /\ GiveUp(u)

-----------------------------------------------------------------------------
(* Close, of a device or of what Open gave up on *)

CloseCall(u) ==
    /\ IsAt(u, "open") /\ Goto(u, "close")
    /\ UNCHANGED <<coexists, envVars, opens, failed>>

\* Variant: closes the port of a device that is not ready, too.
ClosesPortAlways(u) == TRUE

ClosesPort(u) == dev[u].ready

\* A call of Close goes on whether it worked or not; the error is
\* returned, or dropped when it is Open that closes.
Undo(u, call, works, port, to) ==
    /\ Goto(u, to)
    /\ \/ works /\ ethdev' = port /\ UNCHANGED failed
       \/ (~works \/ Fails(call)) /\ failed' = failed \cup {call} /\ UNCHANGED ethdev
    /\ UNCHANGED <<coexists, eal, probes, bus, memVars, opens>>

Skip(u, to) == Goto(u, to) /\ UNCHANGED <<coexists, envVars, opens, failed>>

\* The queues are told first, then the port is stopped.
Stop(u) ==
    LET to == IF ClosesPort(u) THEN "closeport" ELSE "unisolate"
    IN  /\ IsAt(u, "close")
        /\ \/ dev[u].started /\ Undo(u, "stop", TRUE, [ethdev EXCEPT !.started = FALSE], to)
           \/ ~dev[u].started /\ Skip(u, to)

ClosePort(u) ==
    /\ IsAt(u, "closeport")
    /\ Undo(u, "closeport", ~ethdev.started, NoPort, "pools")

Unisolate(u) ==
    /\ IsAt(u, "unisolate")
    /\ \/ /\ dev[u].isolated
          /\ Undo(u, "unisolate", ethdev.up, [ethdev EXCEPT !.isolated = FALSE], "unpromisc")
       \/ ~dev[u].isolated /\ Skip(u, "unpromisc")

\* Variant: promiscuous mode is left as it is.
UndoesPromiscNot(u) == FALSE

UndoesPromisc(u) == dev[u].promisc

Unpromisc(u) ==
    /\ IsAt(u, "unpromisc")
    /\ \/ /\ UndoesPromisc(u)
          /\ Undo(u, "unpromisc", ethdev.up, [ethdev EXCEPT !.promisc = FALSE], "pools")
       \/ ~UndoesPromisc(u) /\ Skip(u, "pools")

FreePools(u) ==
    /\ IsAt(u, "pools")
    /\ mempools' = mempools \ Pools(u) /\ Goto(u, "memory")
    /\ UNCHANGED <<coexists, eal, probes, portVars, region, opens, failed>>

FreeRegion(u) ==
    /\ IsAt(u, "memory")
    /\ \/ region' = (IF Holds(u) THEN Nobody ELSE region) /\ UNCHANGED failed
       \/ /\ Holds(u) /\ Fails("memory")
          /\ failed' = failed \cup {"memory"} /\ UNCHANGED region
    /\ IF dev[u].ready THEN Goto(u, "remove") ELSE Leave(u)
    /\ UNCHANGED <<coexists, eal, probes, portVars, mempools, opens>>

\* Without a handle there is nothing to do; one of an earlier probe is a
\* dangling pointer, and either happens.
RemoveDevice(u) ==
    /\ IsAt(u, "remove") /\ Leave(u)
    /\ \/ /\ dev[u].handle # 0 /\ bus' = 0 /\ ethdev' = NoPort /\ UNCHANGED failed
       \/ /\ dev[u].handle # bus \/ Fails("remove")
          /\ \/ dev[u].handle # bus /\ UNCHANGED failed
             \/ dev[u].handle # 0 /\ failed' = failed \cup {"remove"}
          /\ UNCHANGED portVars
    /\ UNCHANGED <<coexists, eal, probes, memVars, opens>>

-----------------------------------------------------------------------------

Opening(u) ==
    \/ OpenCall(u) \/ EalInit(u) \/ FindPort(u) \/ Probe(u) \/ TakeHandle(u)
    \/ AskInfo(u) \/ ReserveRegion(u) \/ Promiscuous(u) \/ Isolate(u)
    \/ Configure(u) \/ NewMempool(u) \/ SetupQueue(u) \/ Start(u) \/ Flow(u)
ClosingDevice(u) ==
    \/ CloseCall(u) \/ Stop(u) \/ ClosePort(u) \/ Unisolate(u) \/ Unpromisc(u)
    \/ FreePools(u) \/ FreeRegion(u) \/ RemoveDevice(u)

DevNext == \E u \in Users : Opening(u) \/ ClosingDevice(u)

DevSpec == DevInit /\ [][DevNext]_devVars

-----------------------------------------------------------------------------

\* About to close the port.  Removing the device closes it too; after a Close with a
\* failed call that may be a port whose pools are gone, and is not counted.
TearsDown(u) == IsAt(u, "closeport") \/ (IsAt(u, "remove") /\ failed = {})

\* Unless stopping the port failed, the driver is never run over, nor asked to
\* tear down, a queue without a live mempool: not one that a failed Open set up and
\* whose memory is gone ("the PMD keeps a stale mempool pointer in any queue it did
\* set up, which the next Open's queue setup replaces before anything reads it"),
\* and not a gap in the table of a port opened half-way (dpdk/device.go:630-638).
DriverHasLiveMemory ==
    \/ "stop" \in failed
    \/ (ethdev.started \/ \E u \in Users : TearsDown(u) /\ ethdev.up) =>
          \A i \in DOMAIN ethdev.queues : ethdev.queues[i] \in mempools

\* As long as no call of a Close has failed, the port is what the devices on it
\* say: an open device has its queues, its memory and the modes it reports, and no
\* other Open, refused or in progress, has changed them; with nobody in a call and
\* no device open, nothing is left of those that were or that failed to be
\* (dpdk/device.go:220-224, 677-682).
PortAsReported ==
    \/ failed # {}
    \/ /\ \A u \in Users : IsAt(u, "open") =>
             /\ ethdev = [up |-> TRUE, started |-> TRUE, isolated |-> dev[u].isolated,
                          promisc |-> dev[u].promisc,
                          queues |-> [i \in 1 .. dev[u].queues |-> Pool(u, i)]]
             /\ Holds(u) /\ Pools(u) = {Pool(u, i) : i \in 1 .. dev[u].queues}
       /\ (\A u \in Users : IsAt(u, "out")) =>
             /\ ~ethdev.started /\ ~ethdev.isolated /\ ~ethdev.promisc
             /\ region = Nobody /\ mempools = {}
=============================================================================
