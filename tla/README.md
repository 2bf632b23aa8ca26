# packetio in TLA+

packetio moves packets between Go programs and NICs through shared memory. All of
memory is cut into *frames*. A frame is at any moment with exactly one of three
owners: a free list (*pool*), the application, or the NIC. Almost every mistake that
matters in this code is a mistake about that ownership: a frame handed back while the
NIC still reads or writes it, a frame in two places, or a frame in none. These modules
model who owns each frame, step by step, with the NIC running beside the code, and
check that the ownership is kept.

Paths below are relative to `src/`. `PROJECT.json` gives, for each definition, the
lines it models.

## 1. Inventory

### Parts and their interaction

| Part | Code | State | Operations |
|---|---|---|---|
| frame pool | `internal/pool` | LIFO of addresses; in the checked build a bit per frame | New, Pop, Push, Owns, Base |
| mlx5 send ring | `mlx5/internal/ring/tx.go` | block cursors, slot ring, a record per block, completion cursor, failure latch | Post, postMulti, Complete, entryFor, FreeSlots |
| mlx5 transmit queue | `mlx5/txqueue.go` | several send rings, one pool, whose turn it is | Alloc, Transmit, Complete, Reclaim, Free, SendFunc, Close |
| mlx5 receive ring and queue | `mlx5/internal/ring/rx.go`, `mlx5/rxqueue.go` | cursors, posted frames, failure latch, pool | Fill, Receive, Recycle, Poll, Close |
| mlx5 NIC | `mlx5/internal/mocknic` (the hardware itself is external) | position, error state, completion queue | execute, complete, fail, flush |
| DPDK transmit queue | `dpdk/queues.go`, `dpdk/internal/queue` | per hardware queue: pool, frames the driver holds, returned ring, `inFlight`, `dead` | Alloc, Transmit, Complete, Reclaim, Free, SendFunc, Close |
| DPDK receive queue | the same files | pool, supply ring, returned ring, stash, `outstanding`, `dead`, `closed`, lock | Fill, Poll, NumReceived, Receive, Recycle, shut |
| DPDK device | `dpdk/device.go`, `dpdk/steering.go`, `dpdk/internal/eal` | the environment, the port, its memory; per Device what it has done so far | Open, Close |
| mlx5 device | `mlx5/device.go` | opened resources | Open, Close |
| AF_PACKET transmit queue | `afpacket/txqueue.go` | pool, pending list, message headers and iovecs, counters | Alloc, Transmit, TransmitOffload, TransmitGather, SendFunc, Complete, Reclaim, Free, Stats, Close |
| AF_PACKET receive queue | `afpacket/rxqueue.go`, `afpacket/tpacket.go` | block ring shared with the kernel, cursor, pool, lock, eventfd | Receive, Recycle, Poll, Close |
| AF_XDP | `afxdp` | spare list beside the library's pool | the queue operations |
| netstack | `netstack`, of `netstack/gvisor` the fifo discipline | device claim, receive loops, transmit locks, dispatchers | New, WritePackets, Close |
| neighbor table | `netstack/neigh.go`, `netstack/stack.go` | copy-on-write table, the stack's ARP cache | learn, AddNeighbor, AddHeader |
| flow matching | `match.go` | none (pure) | validation of rules |

A queue calls its ring (mlx5) or its driver (DPDK) and its pool. One goroutine owns a
queue, so the code of one queue is sequential. The concurrency is between this
goroutine and the NIC, which reads entries, writes completions and frees buffers at
any time, and between a poller and the goroutine that closes the device.
netstack and the examples drive queues through the interface of `queue.go`, whose
comments are the contract the properties quote. netstack adds goroutines of its own: a
receive loop per queue, a dispatcher per transmit queue, timers and connections that
write, and whoever calls Close.

### What is hard here

* Completions come back as a 16-bit index into a ring whose cursors are wider, and one
  completion stands for every entry before it.
* Records per block outlive the entries they describe, so a repeated or stale
  completion finds a record that looks like an answer.
* Blocks and packets advance at different rates; releases are counted in packets.
* A failed entry flushes everything behind it, and all of it must come back once.
* Rings are used in turn, so what Alloc promised on one ring is used later.
* A DPDK driver frees buffers only inside calls made to it, and takes any prefix.
* DPDK cannot look at a packet without taking it, so Poll keeps what it finds.
* Close races a poller that is about to enter the driver, or to look at memory that
  Close unmaps.
* AF_PACKET message headers are aimed once and reused; a chained call re-aims them.
* The DPDK environment and its port outlive a device, so what a failed Open leaves
  there is what the next Open starts from.
* A received packet that spans frames is begun and may have to be given up, in the
  middle of a block and of a batch.
* netstack's Close must see every goroutine out of the device's queues without holding
  a lock one of them needs.
* Two neighbor tables are kept in step by goroutines that hold no common lock.

`PROJECT.json` lists each of these under "hazards", at its line, with the properties
that cover it; a hazard no property covers yet says why.

## 2. Modules

Each component has a module; `MC<module>` instantiates it for TLC. A definition that
begins with the comment "Variant" is a form of its neighbour with a plausible mistake
in it. It is used only to confirm that the property named for it in
`PROJECT.json` ("mutants") can fail.

### FramePool

The free list, as in `internal/pool/pool.go` with `check_on.go` and `check_off.go`.
Two variables never change and are chosen at the start: `checked`, which build it is,
and `trusted`, whether callers return only what they hold. `Pop` and `Push` are the
code's; `Return` is a caller that rounds with `Base`, `PushRaw` one that does not.

### Mlx5Tx

The send ring with the NIC. Each iteration of the loops of `Post` and `Complete` is a
step of its own (`PostCall`, `PostEntry`, `PostPublish`, `CompleteCall`,
`CompleteEntry`, `CompleteReturn`), so the NIC may run between any two of them. `mode`
is fixed at the start: one entry per packet, or multi-packet entries that point at
their packets or carry copies of them. Cursors run free, as in the code, where they
wrap at 2^32; what passes through the hardware keeps its width, `W` for the code's
2^16. Lengths count octowords, the unit in which entries are sized. The size
arithmetic of entries is the code's. The bytes of an entry are left out.

The NIC executes published entries in order (`NicExecute`), may fail one
(`NicFails`) and then flushes the rest (`NicFlushes`). `NicMisbehaves` writes a
completion hardware in order never writes: of unknown opcode, of unknown format, or
naming any block within the last lap.

### TxContract, Mlx5TxImpl

`TxContract` is what `queue.go` promises of the frames that pass through any transmit
queue, in four variables: `held` (with the caller or the pool), `nic` (accepted, and
possibly still read), `finished` (accepted and done with) and `dead`. Its four steps
are Transmit, Finish, HandBack and Fail. Three implementations are shown to keep it,
each by a refinement mapping under the name `KeepsTxContract`: the mlx5 send ring
(`Mlx5TxImpl`, kept apart so that the proofs need not read it), the mlx5 queue over
several rings (`Mlx5TxQueue`) and the AF_PACKET queue (`AfpTx`).

### Mlx5TxQueue

Several rings behind one queue and one pool, with an application that either
transmits its own frames or forwards received ones (`forwards`, fixed). A ring here
is an abstraction of `Mlx5Tx`: the frames in flight in order and the points at
which completions are due. Calls that walk the rings (`Complete`, `Reclaim`,
`SendFunc`) take one step per ring. How much room a ring offers depends on lengths, so
here it is any number the blocks could come to; `multi` (fixed) says whether the rings
use multi-packet entries, which report once per batch and may take less than the room
they offered. The contract is kept at two levels: by the queue, which is out of service
when it is closed, and by each ring, which is out of service when it has failed.

### Mlx5Rx

Fill, Receive and Recycle, with one step per iteration of Receive's loop, beside a NIC
that fills buffers in order, reports failed packets, and loses, repeats or garbles one
completion. Poll (`PollCall`, `PollLock`, `PollLook`) and a close by another goroutine
(`CloseSwaps`, `CloseLocks`, `CloseUnmaps`) are cut where they can interleave: the flag,
the lock, and what is done under it.

### DpdkTx

Per hardware queue: the pool, the frames the driver holds (`hold`, of which `done` are
on the wire), the ring in which the driver returns frames (`ret`), `inFlight` and
`dead`. The driver takes any prefix of a burst and frees only when called, by its
free threshold (`thresh`, fixed). `DriverErrs` makes it forget an address (`forgotten`). `habit`
(fixed) is what the caller does: send what it allocated, forward received frames, send
again what was not accepted, or follow the documented cycle. `SendFunc` is two steps,
its reclaiming part and the rest.

### DpdkRx

The supply ring from which the driver draws bulks, buffers it holds empty (`bufs`) and
full (`full`), buffers it frees unused (`returned`), and Poll's stash. `Poll` is three
steps (`PollCall`, `PollLock`, `PollLook`) and so is closing (`CloseFlag`,
`CloseShut`, `PortStop`), because a poller and the closing goroutine interleave there.

### DpdkDevice

Open and Close of one device by several goroutines, one step per call into the
environment, which runs such calls one at a time (`onEAL`). Outside the Devices are the
bus device (`bus`, numbered by probe), the port (`ethdev`: what it was told, and the
mempool each queue was set up with), the memzone (`region`) and the mempools; of each
goroutine, `dev` is its Device and where it is. `MayFail` is the set of calls that may
fail, all of them in the run, those of Close included. Open that fails goes through
Close (`GiveUp`). What the environment does is external: a port is configured only when
stopped and keeps the queues an earlier Open set up, a started port refuses to be
closed, and a device on the bus is not probed again. A mempool is known by the Open
that made it, so one that was freed and one made later under its name differ.

### AfpTx

The queue over `sendmmsg`. `aim` is where each message header points: at the iovec of
its own that `wireOnePerPacket` gave it, or at a run of `chainIovs` a chained or
gathering call left behind; what an iovec of an earlier batch names is `Old`. A call
builds a batch and hands it over (`Send`, the kernel takes any prefix), publishes the
counters and the pending list (`Publish`), and goes round again when the whole batch
was taken. `Stats` is two loads by another goroutine.

### AfpRx

The TPACKET_V3 ring. The kernel retires whole blocks (`Retire`); Receive walks them
with one step per packet, by kind: it fits (`Copy`), spans frames (`Spread`,
`SpreadLater`, `BatchTooSmall`), was clipped (`Oversize`) or lies outside its block
(`BadFrame`). What the kernel wrote in the headers is part of the block: `last` marks a
frame whose header says it ends the block, with packets behind it or not, and a frame
may lie outside its block. Receive then reads nothing behind it, and `unreached` is the
set of packets hidden so. Poll and Close are cut at each shared access: the flag, `ringMu`, the
status word, `poll(2)`, the eventfd, `munmap`.

### Netstack

The life of a TCP stack over a device: `New` with each of its failures, a receive loop
per queue, writers, gVisor's fifo dispatchers or `DirectTx`, and `Close` called by two
goroutines and by a `New` that gives up. `once` is how far the body of Close has come.
`OtherStack` is another stack on the same device. Packets are counted, not told apart.

### NetNeigh

The neighbor table and the stack's ARP cache beside it. `Learn` is the test `learn`
makes before it has the mutex, `Write` what it does under it, `RemoveNeighbor` and
`AddStaticNeighbor` the two calls made after it is released.

### MCAfp, MCNetstack, MCDpdk

AfpTx, AfpRx and FramePool share no state, and neither do Netstack and NetNeigh; DpdkRx
and DpdkTx are queues within the life of one open device, which DpdkDevice goes round.
One TLC module holds each group, and its variable `part`, fixed at the start, says which
system a behaviour is one of; the others stand still. The states explored are the
sum of the parts', not their product.

## 3. Runs

`tlc -config <cfg> <module>` repeats a run.

| Run | Module, cfg | States | Question |
|---|---|---|---|
| `mlx5_tx` | MCMlx5Tx, Mlx5Tx | 348,499 | In all three modes, with failing entries and a completion that is stale, undecodable or of unknown opcode: is no frame released early, lost or released twice, does every frame come back, and is every step one the interface allows? |
| `mlx5_tx_promise` | MCMlx5Tx, Mlx5TxPromise | | Does Post take all FreeSlots offered in copy mode? (No: finding 1.) |
| `mlx5_txq` | MCMlx5TxQueue, Mlx5TxQueue | 438,040 | Over two rings and all calls of the queue: one owner per frame, the contract of the queue and of each ring, and no ring full for ever? |
| `mlx5_txq_err` | MCMlx5TxQueue, Mlx5TxQueueErr | | Does a queue that reports a failure take no more packets? (No: finding 2.) |
| `mlx5_rx` | MCMlx5Rx, Mlx5Rx | 313,854 | Is no frame the NIC may still write to ever with the application or on the pool, is a stopped queue reported, and does Close never unmap the ring under Poll? |
| `dpdk` | MCDpdk, Dpdk | 494,523 | Receive queue: one owner per frame, no packet skipped or out of order, and nobody in a stopped driver when Close races Poll? Transmit queue: over two hardware queues and a driver that frees only when called, one owner per frame, and no queue full for ever? Device: with any call of Open and Close failing and a second goroutine opening it, is the port never run over freed memory, an open device never disturbed and nothing left behind? |
| `dpdk_tx_retry` | MCDpdkTx, DpdkTxRetry | | Does a frame keep its owner if the unaccepted suffix is transmitted again? (No: finding 3.) |
| `dpdk_tx_cycle` | MCDpdkTx, DpdkTxCycle | | Does a full queue drain under the documented cycle? (No: finding 4.) |
| `afp` | MCAfp, Afp | 746,266 | AF_PACKET: does the kernel read exactly the packets asked for, does Receive lose, repeat or split none, and does Close wake Poll without unmapping under it? And does a pool lose no frame? |
| `afp_stats` | AfpTx, AfpStats | | Does Stats never wrap below zero? (No: finding 5.) |
| `netstack` | MCNetstack, Netstack | 94,364 | Is nothing inside a queue when Close returns, does Close return, does one stack drive a device, and does a pinned neighbor stay in the table? |
| `netstack_pin` | NetNeigh, NetNeighPin | | Is a pinned neighbor the one sent to? (No: finding 6.) |

### What the properties say

* `KeepsTxContract`: the detailed queue implements `TxContract`. For the mlx5 queue over
  several rings it also says so of each ring by itself, up to that ring's failure: a
  failed ring accepts nothing though its turn comes round.
* `NoEarlyRelease`, `NoSharedFrame`: a frame the NIC may still touch is with nobody else.
* `FramesConserved`, `OneOwner`, `TxOneOwner`, `AfpTxOneOwner`: every frame has exactly one owner.
* `NothingLost`: the pool loses no frame of callers that return only what they hold. (That
  it never holds one twice, in the checked build whatever its callers do, is proved.)
* `NicReadsOwnEntry`: Post never writes over an entry the NIC has yet to execute, and
  the doorbell never runs past what was written.
* `WireIsAsked`: the kernel reads the packets of this call, whole and in order, and
  those frames become pending, wherever earlier calls left the headers aimed.
* `AcceptedIsFinished`, `RightFrame`: a completion the code believes is about the entry
  or buffer the code thinks it is about.
* `CqNeverOverruns`: the completion queue, which has no flow control, is large enough.
* `FullQueueReports`, `FullRingDrains`, `AllReturned`: whoever waits for room gets it.
* `ConsumedOrReported`: a queue that has stopped says so.
* `OneOwner` of DpdkRx also says that the count of what the driver has, kept by hand, is
  right.
* `DriverHasLiveMemory`: the port never runs, and is never closed, with a queue whose
  mempool is gone or was never made, unless stopping it failed. Removing the device
  closes its port too, and counts as long as no call made by a Close has failed.
* `PortAsReported`: an open device's port is as that device set it up and reports it,
  whoever else tries to open it; with no device open nothing is left of one. Both as
  long as no call made by a Close has failed.
* `NoneSkipped`: what Poll took is handed out first, once and in order.
* `ReceiveAccounts`, `ContinuesIfWhole`: every packet of the block ring waits, was
  delivered once and in order, or was counted, but for those hidden behind a frame whose
  header ends the block, which are neither delivered nor counted; frames taken for a
  packet that was given up go back; a packet over several frames is delivered whole.
* `NotInStoppedDriver`, `NoUnmappedRead`: Close does not pull the driver or the ring
  from under a poller.
* `PollEnds`, `CloseEnds`: Poll and Close both get out.
* `NothingInsideAfterClose`, `OneStackDrives`: the device is the caller's again when
  Close returns, and never driven by two stacks.
* `NothingStranded`: no packet stays in the queue of a dispatcher that has ended.
* `PinKept`: learning never replaces or evicts a pinned entry of the table.

### Bounds, and why they are enough

* Rings have two or four blocks and the NIC's index has width `W` of 4 or 8. `MaxPi`
  lets each ring be lapped and the NIC's index wrap, so stale records and wrapped
  differences do occur. Entries take one or two blocks, so blocks and packets differ.
  In `mlx5_tx` no part of a packet is inlined (`InlineLen` is 0), so that two ordinary
  entries fit the ring and a descriptor can be refused behind one that did not ask for a
  report; there, three frames and one length fill the ring past its end, and in the
  modes of multi-packet entries two frames of any length. The theorems are for any `InlineLen`.
* Completion queues have one place per block in the ring, plus one per faulty
  completion allowed, so that an overrun is the code's doing.
* `MaxFaults` is 1: one wrong completion or address, at any time. Failing entries and
  failed packets are not counted as faults and happen at any time.
* `MaxBatch` of 2 or 3 gives short returns, partly built batches and batches with a
  refused descriptor in each position.
* Two rings are the fewest that take turns, and enough for a frame to end up on a ring
  other than its own, or for one ring to be served while the other waits. In
  `mlx5_txq` a caller takes frames back one at a time or all at once.
* In `DpdkRx` the supply holds fewer addresses than there are frames, as the unit tests
  arrange it and Open does not. Otherwise the path where Fill gives frames back would
  never be taken.
* `DpdkDevice` has two goroutines, two calls of Open and up to two queues: a failed Open
  followed by another, two at once, and a queue table with a gap. With three calls, where
  a Device can also outlive the probe it took its handle from, the same two properties
  hold (26 million states, too many to keep as a run). The goroutines are alike, so in
  `MCDpdk` the first is the one that opens first.
* `Afp` has two messages in a batch and three descriptors in a call, so a call takes
  several batches; three iovecs in a batch, so a chain can run out of them; two blocks
  of up to two packets and two frames, so a pool runs dry, a batch ends and a chain is
  given up in the middle of a block. Four packets lap the ring. A packet hidden behind a
  frame that ends its block is never looked at, so it is of one kind (`HiddenKinds`).
* `Netstack` has two receive loops, which also reply, one writer, one transmit queue
  shared by all of them, and two callers of Close: the fewest that contend for every
  lock. One neighbor in the table makes each second address evict.
* Frames are model values and interchangeable in `Mlx5Tx`, so `mlx5_tx_promise` uses
  symmetry. Runs that check liveness do not.
* Deadlock is checked except in the runs whose system may stop: a closed or dead queue,
  or a run that has used up its packets.

### Fairness, and why the code justifies it

* The NIC keeps executing, reporting, flushing and sending (weak fairness). It may
  also fail an entry, which no fairness forces.
* A call once made runs to its end (weak fairness of its steps). Nothing in these calls
  blocks.
* The owner's loop comes back to Complete, Reclaim or Receive however often it does
  other things (strong fairness of that call). The contract in `queue.go` makes these
  part of the cycle. Where a small `max` could be served by the first ring alone, it is
  the call with a large `max` that is fair.
* In `dpdk_tx_cycle` every part of the documented cycle is weakly fair, so the
  counterexample is not a caller that stopped.
* In `DpdkRx`, `Mlx5Rx` and `AfpRx` a goroutine inside Poll or Close that can run does,
  and the lock is granted. In `AfpRx`, `poll(2)` returns once the eventfd is readable;
  no fairness makes a packet, a signal or a timeout arrive.
* In `Netstack` every goroutine that can run again and again does (strong fairness):
  Poll has a timeout, a batch is given up after `ringWait`, and a `sync.Mutex` hands
  itself to whoever has waited long enough. Nobody has to send or to call Close.

## 4. Theorems

TLC shows the properties on the instances above; these hold for every value of the
constants that meets the named assumptions. `tlapm <module>.tla` repeats the proofs.
Each proof finds an inductive invariant, shows that every action keeps it, and reads the
property off it. The assumptions on constants are in the module of the component, under
the names given here, and TLC evaluates them in the runs.

**AfpProofs: the frame pool** (`PoolAssumption`: sizes are positive). `Typing`, and
`PoolCorrect`: `Spec => [](NoDuplicates /\ BitsMatchList /\ NothingLost)`. The three
properties with the type invariant are inductive together (`PoolInv`). The bit map is
what makes a second Push of a frame visible, so `NoDuplicates` rests on
`BitsMatchList`; and that a right caller is never refused needs a counting argument
(`RoomForMissing`): a list without duplicates that lacks a frame is shorter than
`Count`. The pigeonhole principle behind it (`PlacesForValues`) is proved from the least
counterexample.

**AfpProofs: the AF_PACKET receive queue** (`AfpRxAssumption`: sizes are numbers, a block
and the ring are not empty, a packet that spans frames needs at least two). Any ring, any
pool, any batch.

* `PollReadsRing` (`NoUnmappedRead`) needs only who holds `ringMu` when (`RingMu`).
* `NoPacketLost` (`ReceiveAccounts`) rests on the ring being a queue (`RingInv`): the
  blocks in user hands are those from the one Receive drains up to the one the kernel
  fills, cyclically, and the packets left in them, read in that order, are the numbers of
  those that arrived, are reached and were neither delivered nor counted. Of the block being
  read, what `left` still holds counts, so that a packet given up in the middle is the
  first of the next call. Frames are a sum: pool, application and the slots of the call (`CallInv`).
* `MarksMeanMore` (`ContinuesIfWhole`): the marks of the slots a call has filled say
  which pieces are not the last, and the marks of all others are clear, although a call
  that gave up a packet had marked some of them.

**Mlx5TxProofs, Mlx5TxSteps, Mlx5TxSafety: the mlx5 send ring** (`SizesAssumption`: the
ring fits its slot ring and its completion queue and divides the NIC's index range, as
powers of two do; `LengthsAssumption`, `BoundsAssumption`). `TxTyping`; `TxSafe`: `Spec =>
[](NoEarlyRelease /\ FramesConserved /\ NicReadsOwnEntry /\ AcceptedIsFinished)`, and
`TxConserves`, `TxReadsOwnEntry` and `TxAcceptsFinished` of three of them alone; and
`TxKeepsContract`: `Spec => KeepsTxContract`, the refinement of `TxContract`. For every
ring size, entry size, mode, signalling interval and kind of faulty completion.

None of the four properties is inductive. `TypeOK /\ RingInv` is, and the conjuncts of
`RingInv` (in Mlx5TxProofs) say why the code works:

* `Order`: head, the NIC, the doorbell and pi are in that order, within one ring.
* `Entries`, `Ordered`, `Covered`: the entries in flight tile the blocks from head to
  pi, their packets tile the slots, and the record of each is the one `entryFor` finds.
* `StaleRecords`: the record of any other block shows that it is stale, because its
  slot is behind slotHead. This is what `entryFor` relies on.
* `Boundaries`, `Reports`: the NIC stands between two entries, and so does every
  completion on its way; they name blocks less than a lap behind.
* `Batch`, `Taking`: the locals of Post and Complete, between their steps.

Two more properties rest on it, each with a hypothesis of its own about the sizes, which
the instance of run mlx5_tx meets.

* `TxCqHasRoom` (`CqNeverOverruns`), if the completion queue has a place for each block,
  which NewTx checks, and for each faulty completion. `Places` counts: completions read or
  unread are no more than the blocks executed since head and the faults. Complete moves
  head only as it returns, so the same is said of the completions behind the one taken
  back last and behind every one of the queue, counted from where the NIC stood.
* `TxFullQueueReports` (`FullQueueReports`), if an empty ring has room for a packet
  (`RoomWhenEmpty`; NewTx does not check it, and a ring shorter than one entry would
  offer no room and never report). `Asking`: a batch of ordinary entries may end without
  a report when a descriptor is refused, but then the room kept for that descriptor is
  still there; otherwise the youngest entry asks.

Mlx5TxProofs has the arithmetic modulo a ring's size, the facts about entry sizes and the
NIC's steps; Mlx5TxSteps those of Complete and the writing of an entry, and the steps of
`Places` and `Asking`; Mlx5TxSafety the choice of the entry, the refinement, and the
theorems.

**Mlx5RxProofs: the mlx5 receive queue** (`SizesAssumption`, `BoundsAssumption`: the ring
has two buffers or more, divides the index range and fits its completion queue; finitely
many frames). `NoFrameIsShared`, `EachFrameOwned`, `TakesRightFrame`, `PollReadsMapped`.
As long as Receive goes on, the completions still to be read name buffers from the last
one reported on, in order, and none beyond those the NIC has filled (`CqInv`). Within
such a window the low bits of an index tell buffers apart, so the one that matches is
the oldest outstanding. Each frame is in one list, under one index or in one set
(`Owners`), and there are as many places as frames (`Count`).

**DpdkProofs: the DPDK device** (`DpdkDeviceAssumption`). `DriverMemoryLives`
(`DriverHasLiveMemory`) and `PortStaysAsReported` (`PortAsReported`), for any number of
goroutines, Opens and queues and whichever calls fail. The port's memzone is a lock: it
is taken before the port is touched and let go of after the port and the pools are done
with. `DevSafe` says how far each Open or Close has come and what it has on the port by
then; an Open that never had the memzone has nothing to undo. `DevClean` says what more
holds until a call of a Close fails: the port's modes are those the holder remembers.
Only the removal of the device comes after the lock is gone, of a port that is closed:
while the device is on the bus nothing brings the port up again. That is why
`DriverHasLiveMemory` needs `DevClean` for the removal, and `DevSafe` alone for the rest.

**DpdkRxProofs: the DPDK receive queue** (`DpdkRxAssumption`: finitely many frames, rings
and bulks that are not empty). For every ring size and whatever the driver draws, frees
or forgets. The invariant `QueueInv` has three parts beside its types.

* `Owned`: no list has a frame twice, and each frame is with exactly one of eight owners.
  A step moves a set of frames from one owner to another (`Moves`), which keeps this.
  With `Counted` it gives `EveryFrameOwned` (`OneOwner`).
* `Counted`: `outstanding`, kept by hand in three places of the code, is the number of
  buffers the driver has, and not less once the queue is dead.
* `Numbered`: the filled buffers hold the last packets that arrived, in order; those
  before them are what the caller got, then the stash, and the refused ones cover the
  gaps. It gives `OnceInOrder` (`NoneSkipped`).

`PollLeavesFirst` (`NotInStoppedDriver`) needs only who holds the lock (`Locked`).

**NetProofs: netstack** (`NetNeighAssumption`). `CloseLeavesNothingInside`,
`OneStackAtATime`, `QueuesEndEmpty` from `NetInv`: each stage of the body of Close puts
something behind it for good, first the receive loops, then new senders, then the senders
that were past the test of `txClosed` (`TxInv`); the device is the stack's from its claim
to the end of Close (`ClaimInv`); and a dispatcher leaves only once the discipline admits
nothing any more (`FifoInv`). `PinsAreKept`, an action property: a learner tests for the
pin before it has the lock, but what it then writes is decided under the lock.

The type invariants are proved and are not properties of a run.

**Only model-checked.**

* Everything under fairness (`AllReturned`, `FullRingDrains`, `ConsumedOrReported`,
  `CloseEnds`, `PollEnds`), which this prover does not do, like ENABLED.
* Mlx5TxQueue, DpdkTx and AfpTx, with the contract for Mlx5TxQueue and AfpTx. Their
  calls filter and join batches with `SelectSeq` and `FlattenSeq`, whose definitions are
  recursive, so that what they return for every batch is out of the prover's reach. In
  DpdkRx the same is said with sets of positions in a burst.

## 5. Findings

1. **mlx5, copy mode: FreeSlots offers more than Post takes.** It counts packets
   without the entries' two leading segments and without rounding to blocks
   (`mlx5/internal/ring/tx.go:416`). The comment at line 404 says "everything it
   offers, the next Transmit takes".
2. **mlx5: a queue that reports a failure goes on sending.** `Err` and `SendFunc` hold a
   queue for failed when one of its rings is (`mlx5/txqueue.go:445`: "One dead ring fails
   the whole queue"), and the comment at line 428 says "A failed queue accepts no more
   packets". `Transmit` looks only at the ring whose turn it is (line 225), so packets are
   taken on the other rings, every second call with two of them. What holds is the
   contract of each ring (`KeepsTxContract`).
3. **DPDK: transmitting the unaccepted suffix again loses frames.** Transmit moves to
   the next ring, whose pool refuses the frames when they complete
   (`dpdk/queues.go:130`), although `queue.go:62` tells the caller to "transmit them
   later or return them with Free". Needs a queue with several rings.
4. **DPDK: the documented cycle can stop for good.** `NumCompleted` counts what the
   driver already freed and `Complete(0)` does not poke it (`dpdk/queues.go:194`), so
   with the driver holding every descriptor `q.Complete(q.NumCompleted())`
   (`queue.go:9`, followed by `netstack/tx.go:103`) never reclaims anything. A caller
   that passes a larger `max` is not affected (`dpdk`).
5. **AF_PACKET: Stats can report a Completed count that wrapped below zero.** It loads
   `sent` before `pendingN` (`afpacket/txqueue.go:502`); a batch published in between
   makes the unsigned difference wrap. The comment at line 295 says "never wrapped below
   zero by the unsigned subtraction", which holds only for the other order of loads.
6. **netstack: a pinned neighbor can be sent to its learned MAC.** The stack's cache is
   changed after the table's mutex is released (`netstack/stack.go:110`), so a learner's
   update can land after that of a pin that came later, and AddHeader prefers the cache.
   `netstack/endpoint.go:381` says "AddNeighbor pins the MAC for ip: learning will not
   change it". The table itself keeps the pin (`PinKept`).

Observations with no run of their own:

* A completion the send ring cannot decode stops it (`mlx5/internal/ring/tx.go:703`)
  and Err stays nil; the receive ring latches the same case (`rx.go:267`). `mlx5_tx`
  takes the step: no frame is lost or released by it, but none behind it comes back.
* A refused descriptor in the middle of a batch leaves the entries before it without a
  completion request until a later Post (`mlx5/internal/ring/tx.go:486`).
  `FullQueueReports` is the promise that holds: a ring without room always has a report
  coming.
* A dead mlx5 receive queue's Poll may go on saying that packets are ready, while
  Receive returns none: Poll looks at the completion queue and not at the failure
  (`mlx5/rxqueue.go:242`).
* The DPDK returned ring is sized from a queue's share of the frames, not from its
  depth (`dpdk/device.go:511`). The model assumes the share is at least the depth.
* Of a received packet over several buffers only the first is put back
  (`dpdk/internal/queue/queue.go:741`).
* `Device.Close` of DPDK frees the mempools and the region whether or not stopping the
  port worked (`dpdk/device.go:667`), so a driver that fails to stop is left running over
  freed memory; Close then returns the error. `DriverHasLiveMemory` excepts this case,
  and the removal of the device after a Close of which a call failed.
* A failed DPDK Open drops the error of the Close it makes (`dpdk/device.go:228`): its
  caller does not learn that the port stayed isolated or promiscuous.
* AF_PACKET opened with multi-buffer receive and without GSO: a packet that needs more
  frames than the queue's pool has stays at the head of the ring for good
  (`afpacket/tpacket.go:386`). `afpacket/options.go:94` refuses such sizes only together
  with GSO.
* AF_PACKET: a frame outside its block is counted once, and the packets behind it are
  neither delivered nor counted (`afpacket/tpacket.go:319`); nor are those behind a frame
  that says it is the last while the block's count says otherwise (line 273).
* The comment at `afpacket/txqueue.go:652` announces a correction of the refused count
  to "the frames actually lost"; the code adds one.
* Close of an AF_PACKET receive queue closes the eventfd while a poller may be about to
  enter `poll(2)` with its number (`afpacket/rxqueue.go:474`). In the model the call
  then finds it closed and returns; a number reused by another file is outside it.

## 6. What is left out

* *Within the modules*: packet bytes and the layout of entries and completions,
  statistics other than the two counters of `afp_stats`, timestamps, checksum and
  segmentation metadata, log messages. Memory barriers: each published store is one
  step. Cursors' wrap at 2^32.
* *netstack*: segmentation, the filters that choose what is delivered, Listen and Dial.
  Of the vendored gVisor fork only the fifo discipline and the removal of a NIC, on
  which Close depends. The rest of the fork is a third-party TCP/IP stack of about a
  hundred thousand lines, most of the lines in the repository. It is used through a
  handful of calls, and nothing packetio promises depends on how TCP works inside, so
  the share of all lines that is modelled here stays at a few percent; of the
  files with packetio's own queues and rings it is between a third and two thirds,
  comments counted.
* *AF_XDP*: `afxdp` is a layer over go-afxdp, whose rings and free list are not in the
  repository. Nearly every action would be about code nobody here can read. Its spare
  list (`afxdp/queues.go:184`) would be next if that source were at hand: freed frames
  go there unchecked against the library's own pool.
* *Devices*: Open and Close of mlx5 devices, a sequence of calls into libibverbs undone
  in reverse order. Of the DPDK device the sizes Open computes, the translation of rules,
  offloads, placement and counters.
* *Flow matching* is pure validation covered by its table tests.
* *Not modelled*: CPU affinity, the examples, the conformance suite, and the C libraries
  behind mlx5 and DPDK, which appear only as the steps of a NIC or a driver.

## 7. Plan

1. Proofs: `TxOneOwner` of DpdkTx, `OneOwner` of Mlx5TxQueue and `AfpTxOneOwner`, once their batches
   are sets of positions, as `Delivered` of DpdkRx is.
2. `TxContract` for DpdkTx, and a like contract for receive queues.
