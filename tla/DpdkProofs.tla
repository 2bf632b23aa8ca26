----------------------------- MODULE DpdkProofs -----------------------------
(***************************************************************************)
(* Proofs about the life of a DPDK device (DpdkDevice), for any number of  *)
(* goroutines, of Opens and of queues and whichever calls of the           *)
(* environment fail: the inductive invariant, what one device's part of it *)
(* asks of a step, that every action is one of a few kinds of step, that   *)
(* each kind keeps the invariant, and what follows.                        *)
(*                                                                         *)
(* The argument: the port's memzone is a lock.  It is taken before the     *)
(* port is touched and let go of after the port, and the pools, are done   *)
(* with, so one Open at most has queues on the port; and an Open that      *)
(* never had it has nothing to undo.  Only the removal of the device comes *)
(* after the lock, of a port that is closed: as long as the device is on   *)
(* the bus nothing makes the port come up again.                           *)
(***************************************************************************)
EXTENDS DpdkDevice, TLAPS

-----------------------------------------------------------------------------
(* The invariant. *)

Early == {"init", "find", "probe", "handle", "info", "region"}
Held == {"promisc", "isolate", "configure", "pool", "setup", "start", "flow", "open"}
Undoing == {"close", "closeport", "unisolate", "unpromisc", "pools", "memory"}
Places == {"out", "remove"} \cup Early \cup Held \cup Undoing

Device ==
    [at : Places, id : Nat, queues : Nat, wantPromisc : BOOLEAN, steer : BOOLEAN,
     handle : Nat, built : Nat, isolated : BOOLEAN, promisc : BOOLEAN, ready : BOOLEAN,
     started : BOOLEAN]

\* A port's record, whatever its table of queues is a table of.
IsPort(e) ==
    /\ e.up \in BOOLEAN /\ e.started \in BOOLEAN /\ e.isolated \in BOOLEAN /\ e.promisc \in BOOLEAN
    /\ e.queues = [i \in DOMAIN e.queues |-> e.queues[i]]
    /\ e = [up |-> e.up, started |-> e.started, isolated |-> e.isolated,
            promisc |-> e.promisc, queues |-> e.queues]

DevTypes ==
    /\ dev \in [Users -> Device] /\ IsPort(ethdev)
    /\ opens \in Nat /\ region \in Nat /\ bus \in Nat /\ probes \in Nat

\* Opens are told apart by their number.
Ids ==
    /\ \A u \in Users : dev[u].id <= opens /\ (dev[u].id = 0 <=> dev[u].at = "out")
    /\ \A u, v \in Users : dev[u].id = dev[v].id /\ dev[u].id # 0 => u = v
    /\ region <= opens
    /\ \A p \in mempools : p[1] \in Nat \ {0} /\ p[1] <= opens
                           /\ \E u \in Users : p[1] = dev[u].id

Bare(d) == ~d.ready /\ ~d.started /\ ~d.isolated /\ ~d.promisc /\ d.built = 0
NoPools(d, M) == \A p \in M : p[1] # d.id

\* What has become of a device by where its Open or Close is.
Progress(d, r, M) ==
    /\ d.at \in Early => r # d.id /\ Bare(d) /\ NoPools(d, M)
    /\ d.at \in Held => r = d.id
    /\ d.at \in Undoing /\ r # d.id => Bare(d) /\ NoPools(d, M)
    /\ d.at \in {"memory", "remove", "out"} => NoPools(d, M)
    /\ d.at \in {"start", "flow", "open", "closeport", "remove"} => d.ready
    /\ d.ready => d.at \in {"start", "flow", "open", "close", "closeport", "pools", "memory", "remove"}
    /\ d.started => d.ready /\ d.at # "start"
    /\ d.at \in {"flow", "open"} => d.started
    /\ d.at # "out" => d.queues > 0
    /\ d.ready => d.built = d.queues
    /\ d.at \in {"pool", "setup"} => d.built < d.queues
    /\ d.at \in {"promisc", "isolate", "configure"} => d.built = 0

\* Its queues are on the port.
Configured(d) ==
    d.at \in {"pool", "setup", "start", "flow", "open"}
    \/ (d.ready /\ d.at \in {"close", "closeport"})

\* The port's queues are set up as far as built, over pools that exist.
Tables(d, e, M) ==
    /\ Configured(d) =>
          /\ \A i \in DOMAIN e.queues :
                i \in 1 .. d.queues /\ (i <= d.built => e.queues[i] = <<d.id, i>>)
          /\ \A i \in 1 .. d.built : <<d.id, i>> \in M
    /\ d.at = "setup" => <<d.id, d.built + 1>> \in M
    /\ d.at \in Held => \A p \in M : p[1] = d.id =>
          p \in {<<d.id, i>> : i \in 1 .. IF d.at = "setup" THEN d.built + 1 ELSE d.built}

UserInv(d, e, r, M) == Progress(d, r, M) /\ Tables(d, e, M)

\* A port that runs is run by the holder of the memzone, unless it failed to stop.
RunBy(d, r) == r = d.id /\ d.started /\ d.at \in {"flow", "open", "close"}
StartedBy ==
    "stop" \notin failed /\ ethdev.started => \E u \in Users : RunBy(dev[u], region)

DevSafe ==
    /\ DevTypes /\ Ids /\ StartedBy
    /\ \A u \in Users : UserInv(dev[u], ethdev, region, mempools)

\* What holds as long as no call of a Close has failed.

\* The port is as the device that holds the memzone says.
CleanFor(d, e, r) ==
    /\ Configured(d) => e.up /\ DOMAIN e.queues = 1 .. d.queues
    /\ r = d.id =>
          /\ d.at \in Held \cup {"close", "unisolate", "unpromisc"} => e.promisc = d.promisc
          /\ d.at \in Held \cup {"close", "unisolate"} => e.isolated = d.isolated
          /\ d.at = "unpromisc" => ~e.isolated
          /\ d.at \in {"pools", "memory"} => ~e.promisc /\ ~e.isolated
          /\ d.at \in Held \cup Undoing =>
                (e.started <=> d.at \in {"flow", "open", "close"} /\ d.started)

\* A port that is closed, of a device that is still on the bus.
Removing(d) == d.ready /\ d.at \in {"pools", "memory", "remove"}

Clean ==
    /\ eal = "off" => ethdev = NoPort /\ \A u \in Users : dev[u].at \in {"out", "init"}
    /\ ~ethdev.up \/ bus = 0 => ethdev = NoPort
    /\ \A u \in Users : Removing(dev[u]) => bus # 0 /\ ethdev = NoPort
    /\ \A u, v \in Users : Removing(dev[u]) /\ Removing(dev[v]) => u = v
    /\ \A u \in Users : CleanFor(dev[u], ethdev, region)
    /\ region = 0 => ~ethdev.started /\ ~ethdev.isolated /\ ~ethdev.promisc
    /\ region # 0 => \E u \in Users : region = dev[u].id /\ dev[u].at \in Held \cup Undoing

DevClean == failed = {} => Clean

-----------------------------------------------------------------------------
(* The port's record. *)

LEMMA Ports ==
    /\ IsPort(NoPort) /\ IsPort(NewPort) /\ NewPort.up /\ ~NoPort.up
    /\ ~NoPort.started /\ ~NoPort.isolated /\ ~NoPort.promisc /\ DOMAIN NoPort.queues = {}
    /\ ~NewPort.started /\ ~NewPort.isolated /\ ~NewPort.promisc /\ DOMAIN NewPort.queues = {}
<1>0. <<>> \in [{} -> {}]
  OBVIOUS
<1>1. \A q \in [{} -> {}] : q = [i \in DOMAIN q |-> q[i]] /\ DOMAIN q = {}
  OBVIOUS
<1>2. NewPort = [up |-> TRUE, started |-> FALSE, isolated |-> FALSE, promisc |-> FALSE, queues |-> <<>>]
  <2>1. ASSUME NEW b, NEW e, e = [up |-> e.up, started |-> e.started, isolated |-> e.isolated,
                           promisc |-> e.promisc, queues |-> e.queues]
        PROVE  [e EXCEPT !.up = b] =
                  [up |-> b, started |-> e.started, isolated |-> e.isolated,
                   promisc |-> e.promisc, queues |-> e.queues]
    BY <2>1
  <2>2. NoPort = [up |-> NoPort.up, started |-> NoPort.started, isolated |-> NoPort.isolated,
                  promisc |-> NoPort.promisc, queues |-> NoPort.queues]
    BY Zenon DEF NoPort
  <2>3. ~NoPort.started /\ ~NoPort.isolated /\ ~NoPort.promisc /\ NoPort.queues = <<>>
    BY DEF NoPort
  <2>4. NewPort = [up |-> TRUE, started |-> NoPort.started, isolated |-> NoPort.isolated,
                   promisc |-> NoPort.promisc, queues |-> NoPort.queues]
    BY Zenon, <2>1, <2>2 DEF NewPort
  <2>5. NoPort.started = FALSE /\ NoPort.isolated = FALSE /\ NoPort.promisc = FALSE
    BY DEF NoPort
  <2> QED BY Zenon, <2>3, <2>4, <2>5
<1>3. <<>> = [i \in DOMAIN <<>> |-> <<>>[i]] /\ DOMAIN <<>> = {}
  BY Zenon, <1>0, <1>1
<1>4. IsPort(NoPort)
  BY Zenon, <1>3 DEF IsPort, NoPort
<1>5. IsPort(NewPort)
  BY Zenon, <1>2, <1>3 DEF IsPort
<1> QED BY Zenon, <1>2, <1>3, <1>4, <1>5 DEF NoPort

\* One field of a port is set, to b.
OneField(e2, e, field, b) ==
    /\ IsPort(e2)
    /\ e2.up = e.up /\ e2.queues = e.queues
    /\ e2.started = (IF field = "started" THEN b ELSE e.started)
    /\ e2.isolated = (IF field = "isolated" THEN b ELSE e.isolated)
    /\ e2.promisc = (IF field = "promisc" THEN b ELSE e.promisc)

LEMMA FieldSet ==
    ASSUME NEW e, IsPort(e), NEW b \in BOOLEAN
    PROVE  /\ OneField([e EXCEPT !.started = b], e, "started", b)
           /\ OneField([e EXCEPT !.isolated = b], e, "isolated", b)
           /\ OneField([e EXCEPT !.promisc = b], e, "promisc", b)
<1>1. e = [up |-> e.up, started |-> e.started, isolated |-> e.isolated,
           promisc |-> e.promisc, queues |-> e.queues]
  BY Zenon DEF IsPort
<1>2. [e EXCEPT !.started = b] = [up |-> e.up, started |-> b, isolated |-> e.isolated,
                                  promisc |-> e.promisc, queues |-> e.queues]
  BY <1>1
<1>3. [e EXCEPT !.isolated = b] = [up |-> e.up, started |-> e.started, isolated |-> b,
                                   promisc |-> e.promisc, queues |-> e.queues]
  BY <1>1
<1>4. [e EXCEPT !.promisc = b] = [up |-> e.up, started |-> e.started, isolated |-> e.isolated,
                                  promisc |-> b, queues |-> e.queues]
  BY <1>1
<1>5. /\ e.up \in BOOLEAN /\ e.started \in BOOLEAN /\ e.isolated \in BOOLEAN /\ e.promisc \in BOOLEAN
      /\ e.queues = [i \in DOMAIN e.queues |-> e.queues[i]]
  BY DEF IsPort
<1>6. OneField([e EXCEPT !.started = b], e, "started", b)
  BY Zenon, <1>2, <1>5 DEF IsPort, OneField
<1>7. OneField([e EXCEPT !.isolated = b], e, "isolated", b)
  BY Zenon, <1>3, <1>5 DEF IsPort, OneField
<1>8. OneField([e EXCEPT !.promisc = b], e, "promisc", b)
  BY Zenon, <1>4, <1>5 DEF IsPort, OneField
<1> QED BY <1>6, <1>7, <1>8

\* The port's queues change and nothing else of it.
SameModes(e2, e) ==
    e2.up = e.up /\ e2.started = e.started /\ e2.isolated = e.isolated /\ e2.promisc = e.promisc

Requeued(e2, e, q) == IsPort(e2) /\ e2.queues = q /\ SameModes(e2, e)

LEMMA QueuesSet ==
    ASSUME NEW e, IsPort(e), NEW q, q = [i \in DOMAIN q |-> q[i]]
    PROVE  Requeued([e EXCEPT !.queues = q], e, q)
<1>1. e = [up |-> e.up, started |-> e.started, isolated |-> e.isolated,
           promisc |-> e.promisc, queues |-> e.queues]
  BY Zenon DEF IsPort
<1>2. [e EXCEPT !.queues = q] = [up |-> e.up, started |-> e.started, isolated |-> e.isolated,
                                 promisc |-> e.promisc, queues |-> q]
  BY <1>1
<1> QED BY Zenon, <1>2 DEF IsPort, Requeued, SameModes

-----------------------------------------------------------------------------
(* One device, by its own steps. *)

\* d2 is d elsewhere.
Moved(d2, d, to) ==
    /\ d2.at = to /\ d2.id = d.id /\ d2.queues = d.queues /\ d2.built = d.built
    /\ d2.isolated = d.isolated /\ d2.promisc = d.promisc
    /\ d2.ready = d.ready /\ d2.started = d.started

\* Moves that leave the environment alone.
MayMove(d, to) ==
    \/ d.at \in Early /\ to \in Early
    \/ d.at \in {"info", "region"} /\ to = "close"
    \/ d.at \in Held /\ to = "close"
    \/ d.at = "promisc" /\ to = "isolate"
    \/ d.at = "isolate" /\ to = "configure"
    \/ d.at = "flow" /\ to = "open"
    \/ d.at = "close" /\ to = IF d.ready THEN "closeport" ELSE "unisolate"
    \/ d.at = "unisolate" /\ to = "unpromisc"
    \/ d.at \in {"closeport", "unpromisc"} /\ to = "pools"

LEMMA MoveProgress ==
    ASSUME NEW d, NEW r, NEW M, Progress(d, r, M), NEW to, MayMove(d, to), NEW d2, Moved(d2, d, to)
    PROVE  Progress(d2, r, M)
<1>1. Bare(d) => Bare(d2)
  BY DEF Bare, Moved
<1>2. NoPools(d, M) => NoPools(d2, M)
  BY DEF NoPools, Moved
<1>3. CASE d.at \in Early
  BY <1>1, <1>2, <1>3 DEF Progress, MayMove, Moved, Early, Held, Undoing, Bare
<1>4. CASE d.at \in Held
  BY <1>1, <1>2, <1>4 DEF Progress, MayMove, Moved, Early, Held, Undoing
<1>5. CASE d.at \in Undoing
  BY <1>1, <1>2, <1>5 DEF Progress, MayMove, Moved, Early, Held, Undoing, Bare
<1> QED BY <1>3, <1>4, <1>5 DEF MayMove, Early, Held, Undoing

LEMMA MoveTables ==
    ASSUME NEW d, NEW e, NEW r, NEW M, Progress(d, r, M), Tables(d, e, M),
           NEW to, MayMove(d, to), NEW d2, Moved(d2, d, to)
    PROVE  Tables(d2, e, M)
<1>1. Configured(d2) => Configured(d)
  BY DEF Progress, MayMove, Moved, Configured, Early, Held
<1>2. /\ d2.id = d.id /\ d2.queues = d.queues /\ d2.built = d.built
      /\ d2.at # "setup"
      /\ d2.at \in Held => d.at \in Held /\ d.at # "setup"
  BY DEF MayMove, Moved, Early, Held
<1> QED BY Zenon, <1>1, <1>2 DEF Tables

LEMMA MoveOwn ==
    ASSUME NEW d, NEW e, NEW r, NEW M, UserInv(d, e, r, M),
           NEW to, MayMove(d, to), NEW d2, Moved(d2, d, to)
    PROVE  UserInv(d2, e, r, M)
BY Zenon, MoveProgress, MoveTables DEF UserInv

\* Nothing of a device that is not configured is on the port.
LEMMA Unconfigured ==
    ASSUME NEW d, NEW e, NEW M, ~Configured(d), d.at \notin Held
    PROVE  Tables(d, e, M)
BY DEF Tables, Held

\* Undoing changes the port, which is not the device's any more.
LEMMA UndoOwn ==
    ASSUME NEW d, NEW e, NEW r, NEW M, UserInv(d, e, r, M), NEW e2,
           NEW to \in {"pools", "unpromisc"}, MayMove(d, to), NEW d2, Moved(d2, d, to)
    PROVE  UserInv(d2, e2, r, M)
<1>1. Progress(d2, r, M)
  BY Zenon, MoveProgress DEF UserInv
<1>2. ~Configured(d2) /\ d2.at \notin Held
  BY DEF Moved, Configured, Held
<1> QED BY <1>1, <1>2, Unconfigured DEF UserInv

\* A port with other modes.
LEMMA SamePort ==
    ASSUME NEW d, NEW e, NEW r, NEW M, UserInv(d, e, r, M), NEW e2, e2.queues = e.queues
    PROVE  UserInv(d, e2, r, M)
BY Zenon DEF UserInv, Tables

\* A new device, and none.
LEMMA OpenOwn ==
    ASSUME NEW d, d.at = "init", Bare(d), d.queues > 0, NEW r, r # d.id, NEW M, NoPools(d, M), NEW e
    PROVE  UserInv(d, e, r, M)
BY DEF UserInv, Progress, Tables, Configured, Bare, Early, Held, Undoing

LEMMA LeaveOwn ==
    ASSUME NEW d, d.at = "out", Bare(d), NEW r, NEW M, NoPools(d, M), NEW e
    PROVE  UserInv(d, e, r, M)
BY DEF UserInv, Progress, Tables, Configured, Bare, Early, Held, Undoing

\* ReserveRegion.
LEMMA ReserveOwn ==
    ASSUME NEW d, NEW e, NEW r, NEW M, UserInv(d, e, r, M), d.at = "region",
           NEW d2, Moved(d2, d, "promisc")
    PROVE  UserInv(d2, e, d2.id, M)
<1>1. Progress(d, r, M)
  BY DEF UserInv
<1>2. /\ d2.at = "promisc" /\ d2.id = d.id /\ d2.built = 0 /\ ~d2.ready /\ ~d2.started
      /\ d2.queues > 0 /\ NoPools(d2, M)
  BY <1>1 DEF Progress, Moved, Bare, Early, NoPools
<1>3. Progress(d2, d2.id, M)
  BY <1>2 DEF Progress, Early, Held, Undoing
<1>4. Tables(d2, e, M)
  BY <1>2 DEF Tables, Configured, NoPools
<1> QED BY <1>3, <1>4 DEF UserInv

\* A mode is switched on.
LEMMA ModeOwn ==
    ASSUME NEW d, NEW e, NEW r, NEW M, UserInv(d, e, r, M), NEW to,
           (d.at = "promisc" /\ to = "isolate") \/ (d.at = "isolate" /\ to = "configure"),
           NEW d2, d2.at = to, d2.id = d.id, d2.queues = d.queues, d2.built = d.built,
           d2.ready = d.ready, d2.started = d.started, NEW e2
    PROVE  UserInv(d2, e2, r, M)
<1>1. Progress(d, r, M) /\ Tables(d, e, M)
  BY DEF UserInv
<1>2. Progress(d2, r, M)
  BY <1>1 DEF Progress, Early, Held, Undoing
<1>3. ~Configured(d2) /\ d2.at # "setup" /\ d.at # "setup" /\ d.at \in Held
  BY <1>1 DEF Progress, Configured, Held
<1> QED BY Zenon, <1>1, <1>2, <1>3 DEF UserInv, Tables

LEMMA ConfigureOwn ==
    ASSUME NEW d, d.queues \in Nat, NEW e, NEW r, NEW M, UserInv(d, e, r, M), d.at = "configure",
           NEW d2, Moved(d2, d, "pool"), NEW e2, DOMAIN e2.queues = 1 .. d.queues
    PROVE  UserInv(d2, e2, r, M)
<1>1. Progress(d, r, M) /\ Tables(d, e, M) /\ d.built = 0
  BY DEF UserInv, Progress
<1>2. Progress(d2, r, M)
  BY <1>1 DEF Progress, Moved, Early, Held, Undoing
<1>3. d2.id = d.id /\ d2.queues = d.queues /\ d2.built = 0 /\ d2.at = "pool"
  BY <1>1 DEF Moved
<1>4. \A i \in DOMAIN e2.queues : i \in 1 .. d2.queues /\ ~(i <= d2.built)
  BY <1>3
<1>5. \A i \in 1 .. d2.built : FALSE
  BY <1>3
<1>6. \A p \in M : p[1] = d2.id => p \in {<<d2.id, i>> : i \in 1 .. d2.built}
  BY Zenon, <1>1, <1>3 DEF Tables, Held
<1> QED BY Zenon, <1>2, <1>3, <1>4, <1>5, <1>6 DEF UserInv, Tables

LEMMA PoolOwn ==
    ASSUME NEW d, d.built \in Nat, NEW e, NEW r, NEW M, UserInv(d, e, r, M), d.at = "pool",
           NEW d2, Moved(d2, d, "setup"), NEW M2, M2 = M \cup {<<d.id, d.built + 1>>}
    PROVE  UserInv(d2, e, r, M2)
<1>1. Progress(d, r, M) /\ Tables(d, e, M)
  BY DEF UserInv
<1>2. Progress(d2, r, M2)
  BY <1>1 DEF Progress, Moved, Early, Held, Undoing
<1>3. d2.id = d.id /\ d2.queues = d.queues /\ d2.built = d.built /\ d2.at = "setup"
  BY <1>1 DEF Moved
<1>4. \A i \in 1 .. d.built : i \in 1 .. d.built + 1
  BY DEF Moved
<1>5. d.built + 1 \in 1 .. d.built + 1
  OBVIOUS
<1>6. \A p \in M2 : p[1] = d2.id => p \in {<<d2.id, i>> : i \in 1 .. d2.built + 1}
  BY Zenon, <1>1, <1>3, <1>4, <1>5 DEF Tables, Held
<1>7. Configured(d)
  BY DEF Configured
<1> QED BY Zenon, <1>1, <1>2, <1>3, <1>6, <1>7 DEF UserInv, Tables

\* The next queue is set up: d2 is d with it, and e2 the port.
Built(d2, d, e2, e) ==
    /\ d2.id = d.id /\ d2.queues = d.queues /\ d2.built = d.built + 1
    /\ d2.isolated = d.isolated /\ d2.promisc = d.promisc /\ d2.started = d.started
    /\ d2.ready <=> d.built + 1 = d.queues
    /\ d2.at = IF d.built + 1 = d.queues THEN "start" ELSE "pool"
    /\ e2.queues = [e.queues EXCEPT ![d.built + 1] = <<d.id, d.built + 1>>]

LEMMA SetupOwn ==
    ASSUME NEW d, d.built \in Nat, d.queues \in Nat,
           NEW e, NEW r, NEW M, UserInv(d, e, r, M), d.at = "setup",
           NEW d2, NEW e2, Built(d2, d, e2, e)
    PROVE  UserInv(d2, e2, r, M)
<1>0. d2.id = d.id /\ d2.queues = d.queues /\ d2.built = d.built + 1 /\ d2.started = d.started
  BY DEF Built
<1>1. Progress(d, r, M) /\ Tables(d, e, M) /\ ~d.ready /\ ~d.started /\ r = d.id
      /\ d.built < d.queues /\ d.queues > 0
  BY DEF UserInv, Progress, Held
<1>2. Progress(d2, r, M)
  <2>1. CASE d.built + 1 = d.queues
    <3>1. d2.at = "start" /\ d2.ready /\ d2.built = d2.queues /\ d2.queues > 0 /\ r = d2.id
          /\ ~d2.started
      BY <1>0, <1>1, <2>1 DEF Built
    <3> QED BY <3>1 DEF Progress, Early, Held, Undoing
  <2>2. CASE d.built + 1 # d.queues
    <3>1. d2.at = "pool" /\ ~d2.ready /\ d2.built < d2.queues /\ d2.queues > 0 /\ r = d2.id
          /\ ~d2.started
      BY <1>0, <1>1, <2>2 DEF Built
    <3> QED BY <3>1 DEF Progress, Early, Held, Undoing
  <2> QED BY <2>1, <2>2
<1>3. Configured(d) /\ Configured(d2) /\ d2.at # "setup" /\ d.at \in Held
  BY DEF Configured, Held, Built
<1>4. \A i \in DOMAIN e2.queues : i \in 1 .. d2.queues /\ (i <= d2.built => e2.queues[i] = <<d2.id, i>>)
  <2> SUFFICES ASSUME NEW i \in DOMAIN e2.queues
               PROVE  i \in 1 .. d2.queues /\ (i <= d2.built => e2.queues[i] = <<d2.id, i>>)
    OBVIOUS
  <2>1. i \in DOMAIN e.queues /\ i \in 1 .. d.queues /\ (i <= d.built => e.queues[i] = <<d.id, i>>)
    BY Zenon, <1>1, <1>3 DEF Tables, Built
  <2>2. i # d.built + 1 => e2.queues[i] = e.queues[i]
    BY Zenon, <2>1 DEF Built
  <2>3. i = d.built + 1 => e2.queues[i] = <<d.id, i>>
    BY Zenon, <2>1 DEF Built
  <2>4. i <= d2.built => i <= d.built \/ i = d.built + 1
    BY <1>0, <2>1
  <2> QED BY Zenon, <1>0, <2>1, <2>2, <2>3, <2>4
<1>5. \A i \in 1 .. d2.built : i \in 1 .. d.built \/ i = d.built + 1
  BY <1>0
<1>6. \A i \in 1 .. d2.built : <<d2.id, i>> \in M
  BY Zenon, <1>0, <1>1, <1>3, <1>5 DEF Tables
<1>7. \A p \in M : p[1] = d2.id => p \in {<<d2.id, i>> : i \in 1 .. d2.built}
  <2>1. \A p \in M : p[1] = d.id => p \in {<<d.id, i>> : i \in 1 .. d.built + 1}
    BY <1>1, <1>3 DEF Tables
  <2> QED BY Zenon, <1>0, <2>1
<1> QED BY Zenon, <1>2, <1>3, <1>4, <1>6, <1>7 DEF UserInv, Tables

\* ... or its Open ends there.
LEMMA SetupFails ==
    ASSUME NEW d, NEW e, NEW r, NEW M, UserInv(d, e, r, M), d.at = "setup",
           NEW d2, Moved(d2, d, "close"), NEW e2
    PROVE  UserInv(d2, e2, r, M)
<1>1. MayMove(d, "close") /\ Progress(d, r, M)
  BY DEF MayMove, Held, UserInv
<1>2. Progress(d2, r, M)
  BY Zenon, <1>1, MoveProgress
<1>3. ~Configured(d2) /\ d2.at \notin Held
  BY <1>1 DEF Moved, Configured, Held, Progress
<1> QED BY <1>2, <1>3, Unconfigured DEF UserInv

LEMMA StartOwn ==
    ASSUME NEW d, NEW e, NEW r, NEW M, UserInv(d, e, r, M), d.at = "start",
           NEW d2, d2.at = "flow", d2.id = d.id, d2.queues = d.queues, d2.built = d.built,
           d2.ready = d.ready, d2.started = TRUE, NEW e2, e2.queues = e.queues
    PROVE  UserInv(d2, e2, r, M)
<1>1. Progress(d, r, M) /\ Tables(d, e, M)
  BY DEF UserInv
<1>2. Progress(d2, r, M)
  BY <1>1 DEF Progress, Early, Held, Undoing
<1>3. Configured(d) /\ d.at \in Held /\ d2.at # "setup" /\ d.at # "setup"
  BY DEF Configured, Held
<1> QED BY Zenon, <1>1, <1>2, <1>3 DEF UserInv, Tables

LEMMA FreeOwn ==
    ASSUME NEW d, NEW e, NEW r, NEW M, UserInv(d, e, r, M), d.at = "pools",
           NEW d2, Moved(d2, d, "memory"), NEW M2, NoPools(d2, M2)
    PROVE  UserInv(d2, e, r, M2)
<1>1. Progress(d2, r, M2)
  BY DEF UserInv, Progress, Moved, Early, Held, Undoing, Bare
<1>2. ~Configured(d2) /\ d2.at \notin Held
  BY DEF Moved, Configured, Held
<1> QED BY <1>1, <1>2, Unconfigured DEF UserInv

LEMMA RegionOwn ==
    ASSUME NEW d, NEW e, NEW r, NEW M, UserInv(d, e, r, M), d.at = "memory", d.ready,
           NEW d2, Moved(d2, d, "remove"), NEW r2
    PROVE  UserInv(d2, e, r2, M)
<1>0. NoPools(d2, M)
  BY DEF UserInv, Progress, Moved, NoPools
<1>1. Progress(d2, r2, M)
  BY <1>0 DEF UserInv, Progress, Moved, Early, Held, Undoing
<1>2. ~Configured(d2) /\ d2.at \notin Held
  BY DEF Moved, Configured, Held
<1> QED BY <1>1, <1>2, Unconfigured DEF UserInv

-----------------------------------------------------------------------------
(* One device, by the steps of another's Open or Close. *)

\* The port changes under who does not hold the memzone.
LEMMA PortOfOther ==
    ASSUME NEW d, NEW e, NEW r, NEW M, UserInv(d, e, r, M), r # d.id, NEW e2
    PROVE  UserInv(d, e2, r, M)
<1>1. ~Configured(d) /\ d.at \notin Held
  BY DEF UserInv, Progress, Configured, Held, Undoing, Bare
<1> QED BY <1>1, Unconfigured DEF UserInv

\* The port is new, or gone.
LEMMA PortReset ==
    ASSUME NEW d, NEW e, NEW r, NEW M, UserInv(d, e, r, M), NEW e2, DOMAIN e2.queues = {}
    PROVE  UserInv(d, e2, r, M)
BY Zenon DEF UserInv, Tables

LEMMA RegionOfOther ==
    ASSUME NEW d, NEW e, NEW r, NEW M, UserInv(d, e, r, M), NEW r2,
           d.at = "out" \/ (r # d.id /\ r2 # d.id)
    PROVE  UserInv(d, e, r2, M)
<1>1. Progress(d, r2, M)
  BY DEF UserInv, Progress, Early, Held, Undoing
<1> QED BY <1>1 DEF UserInv

PoolsSame(d, M, M2) == \A p : p[1] = d.id => (p \in M <=> p \in M2)

LEMMA PoolsOfOther ==
    ASSUME NEW d, NEW e, NEW r, NEW M, UserInv(d, e, r, M), NEW M2, PoolsSame(d, M, M2)
    PROVE  UserInv(d, e, r, M2)
<1>1. NoPools(d, M) => NoPools(d, M2)
  BY Zenon DEF NoPools, PoolsSame
<1>2. Progress(d, r, M2)
  BY Zenon, <1>1 DEF UserInv, Progress
<1>3. \A i : <<d.id, i>>[1] = d.id
  OBVIOUS
<1>4. Tables(d, e, M2)
  BY Zenon, <1>3 DEF UserInv, Tables, PoolsSame
<1> QED BY <1>2, <1>4 DEF UserInv

-----------------------------------------------------------------------------
(* One device, as long as no call of a Close has failed. *)

LEMMA WalkClean ==
    ASSUME NEW d, NEW e, NEW r, NEW M, CleanFor(d, e, r), Progress(d, r, M),
           NEW to, MayMove(d, to), NEW d2, Moved(d2, d, to),
           d.at = "close" => ~d.started, d.at = "unisolate" => ~d.isolated,
           d.at = "unpromisc" => ~d.promisc, d.at # "closeport"
    PROVE  CleanFor(d2, e, r) /\ (Removing(d2) => Removing(d))
<1>1. Configured(d2) => Configured(d)
  BY DEF Progress, MayMove, Moved, Configured, Early, Held
<1>2. CASE d.at \in Early
  BY <1>1, <1>2 DEF CleanFor, Progress, MayMove, Moved, Early, Held, Undoing, Removing, Bare
<1>3. CASE d.at \in Held
  BY <1>1, <1>3 DEF CleanFor, Progress, MayMove, Moved, Early, Held, Undoing, Removing
<1>4. CASE d.at \in Undoing
  BY <1>1, <1>4 DEF CleanFor, Progress, MayMove, Moved, Early, Held, Undoing, Removing
<1> QED BY <1>2, <1>3, <1>4 DEF MayMove, Early, Held, Undoing

LEMMA ElsewhereClean ==
    ASSUME NEW d, d.at \notin Held \cup Undoing, NEW e, NEW r
    PROVE  CleanFor(d, e, r)
BY DEF CleanFor, Configured, Held, Undoing

LEMMA OtherClean ==
    ASSUME NEW d, NEW e, NEW r, NEW M, UserInv(d, e, r, M), NEW r2, r2 # d.id, r # d.id, NEW e2
    PROVE  CleanFor(d, e2, r2)
BY DEF UserInv, Progress, CleanFor, Configured, Held, Undoing, Bare

LEMMA ResetClean ==
    ASSUME NEW d, NEW e, NEW r, CleanFor(d, e, r), ~e.up, NEW e2,
           e2.started = e.started, e2.isolated = e.isolated, e2.promisc = e.promisc
    PROVE  CleanFor(d, e2, r)
BY Zenon DEF CleanFor

LEMMA ReserveClean ==
    ASSUME NEW d, Bare(d), d.promisc \in BOOLEAN, d.isolated \in BOOLEAN,
           NEW e, IsPort(e), ~e.started, ~e.isolated, ~e.promisc,
           NEW d2, Moved(d2, d, "promisc"), NEW r
    PROVE  CleanFor(d2, e, r)
<1>1. ~Configured(d2) /\ d2.at = "promisc" /\ ~d2.started
  BY DEF Moved, Bare, Configured
<1>2. d2.promisc = e.promisc /\ d2.isolated = e.isolated
  BY Zenon DEF Moved, Bare, IsPort
<1> QED BY <1>1, <1>2 DEF CleanFor

LEMMA FreeClean ==
    ASSUME NEW d, NEW e, NEW r, CleanFor(d, e, r), d.at = "pools", NEW d2, Moved(d2, d, "memory")
    PROVE  CleanFor(d2, e, r) /\ (Removing(d2) => Removing(d))
BY DEF CleanFor, Moved, Configured, Held, Undoing, Removing

\* d2 is d elsewhere, with one of its flags set.
Switched(d2, d, to, field) ==
    /\ d2.at = to /\ d2.id = d.id /\ d2.queues = d.queues /\ d2.built = d.built /\ d2.ready = d.ready
    /\ d2.started = (IF field = "started" THEN TRUE ELSE d.started)
    /\ d2.isolated = (IF field = "isolated" THEN TRUE ELSE d.isolated)
    /\ d2.promisc = (IF field = "promisc" THEN TRUE ELSE d.promisc)

LEMMA PromiscClean ==
    ASSUME NEW d, NEW e, NEW r, NEW M, CleanFor(d, e, r), Progress(d, r, M), d.at = "promisc",
           NEW d2, Switched(d2, d, "isolate", "promisc"), NEW e2, OneField(e2, e, "promisc", TRUE)
    PROVE  CleanFor(d2, e2, r) /\ ~Removing(d2)
BY DEF CleanFor, Progress, Switched, OneField, Configured, Held, Undoing, Removing

LEMMA IsolateClean ==
    ASSUME NEW d, NEW e, NEW r, NEW M, CleanFor(d, e, r), Progress(d, r, M), d.at = "isolate",
           NEW d2, Switched(d2, d, "configure", "isolated"), NEW e2, OneField(e2, e, "isolated", TRUE)
    PROVE  CleanFor(d2, e2, r) /\ ~Removing(d2)
BY DEF CleanFor, Progress, Switched, OneField, Configured, Held, Undoing, Removing

LEMMA StartClean ==
    ASSUME NEW d, NEW e, NEW r, NEW M, CleanFor(d, e, r), Progress(d, r, M), d.at = "start",
           NEW d2, Switched(d2, d, "flow", "started"), NEW e2, OneField(e2, e, "started", TRUE)
    PROVE  CleanFor(d2, e2, r) /\ ~Removing(d2)
BY DEF CleanFor, Progress, Switched, OneField, Configured, Held, Undoing, Removing

LEMMA ConfigureClean ==
    ASSUME NEW d, NEW e, NEW r, CleanFor(d, e, r), d.at = "configure", e.up,
           NEW d2, Moved(d2, d, "pool"),
           NEW e2, SameModes(e2, e), DOMAIN e2.queues = 1 .. d.queues
    PROVE  CleanFor(d2, e2, r) /\ ~Removing(d2)
BY DEF CleanFor, Moved, SameModes, Configured, Held, Undoing, Removing

LEMMA SetupClean ==
    ASSUME NEW d, NEW e, NEW r, NEW M, CleanFor(d, e, r), Progress(d, r, M), d.at = "setup",
           NEW d2, NEW e2, Built(d2, d, e2, e), SameModes(e2, e)
    PROVE  CleanFor(d2, e2, r) /\ ~Removing(d2)
<1>1. DOMAIN e2.queues = DOMAIN e.queues /\ d2.queues = d.queues /\ d2.at \in {"start", "pool"}
  BY DEF Built
<1>2. Configured(d) /\ ~Removing(d2) /\ ~d.started /\ ~d2.started
  BY <1>1 DEF Configured, Removing, Progress, Built
<1> QED BY <1>1, <1>2 DEF CleanFor, Built, SameModes, Held, Undoing

LEMMA SetupFailsClean ==
    ASSUME NEW d, NEW e, NEW r, NEW M, CleanFor(d, e, r), Progress(d, r, M), d.at = "setup",
           NEW d2, Moved(d2, d, "close"), NEW e2, SameModes(e2, e)
    PROVE  CleanFor(d2, e2, r) /\ ~Removing(d2)
BY DEF CleanFor, Moved, Progress, SameModes, Configured, Held, Undoing, Removing

LEMMA StopClean ==
    ASSUME NEW d, NEW e, NEW r, NEW M, CleanFor(d, e, r), Progress(d, r, M), d.at = "close", d.started,
           NEW d2, Moved(d2, d, "closeport"), NEW e2, OneField(e2, e, "started", FALSE)
    PROVE  CleanFor(d2, e2, r) /\ ~Removing(d2) /\ e.up
BY DEF CleanFor, Moved, Progress, OneField, Configured, Held, Undoing, Removing

LEMMA ClosePortClean ==
    ASSUME NEW d, NEW e, NEW r, NEW M, CleanFor(d, e, r), Progress(d, r, M), d.at = "closeport",
           NEW d2, Moved(d2, d, "pools"), NEW e2, ~e2.started, ~e2.isolated, ~e2.promisc
    PROVE  CleanFor(d2, e2, r) /\ e.up
BY DEF CleanFor, Moved, Progress, Configured, Held, Undoing

LEMMA UnisolateClean ==
    ASSUME NEW d, NEW e, NEW r, NEW M, CleanFor(d, e, r), Progress(d, r, M), d.at = "unisolate",
           NEW d2, Moved(d2, d, "unpromisc"), NEW e2, OneField(e2, e, "isolated", FALSE)
    PROVE  CleanFor(d2, e2, r) /\ ~Removing(d2)
BY DEF CleanFor, Moved, Progress, OneField, Configured, Held, Undoing, Removing

LEMMA UnpromiscClean ==
    ASSUME NEW d, NEW e, NEW r, NEW M, CleanFor(d, e, r), Progress(d, r, M), d.at = "unpromisc",
           NEW d2, Moved(d2, d, "pools"), NEW e2, OneField(e2, e, "promisc", FALSE)
    PROVE  CleanFor(d2, e2, r) /\ ~Removing(d2)
BY DEF CleanFor, Moved, Progress, OneField, Configured, Held, Undoing, Removing

-----------------------------------------------------------------------------
(* The steps, by what they do. *)

Updated(u) ==
    dev' \in [Users -> Device] /\ \A v \in Users : v # u => dev'[v] = dev[v]

Moves(u, to) == Updated(u) /\ Moved(dev'[u], dev[u], to)

LEMMA GotoMoves ==
    ASSUME DevTypes, NEW u \in Users, NEW to \in Places, Goto(u, to)
    PROVE  Moves(u, to)
<1>1. dev \in [Users -> Device] /\ dev[u] \in Device
  BY DEF DevTypes
<1>2. dev' = [dev EXCEPT ![u] = [dev[u] EXCEPT !.at = to]]
  BY Zenon DEF Goto
<1>3. [dev[u] EXCEPT !.at = to] \in Device
  BY <1>1 DEF Device
<1>4. Moved([dev[u] EXCEPT !.at = to], dev[u], to)
  BY <1>1 DEF Device, Moved
<1> QED BY Zenon, <1>1, <1>2, <1>3, <1>4 DEF Updated, Moves

LEMMA LeaveMoves ==
    ASSUME DevTypes, NEW u \in Users, Leave(u)
    PROVE  Updated(u) /\ dev'[u] = NoDevice
<1>1. NoDevice \in Device
  BY DEF NoDevice, Device, Nobody, Places
<1> QED BY Zenon, <1>1 DEF DevTypes, Leave, Updated

\* Only a goroutine's own record changes, and perhaps failed.
EnvSame == UNCHANGED <<coexists, eal, probes, bus, ethdev, region, mempools, opens>>

\* A move past something that there was to undo has failed to.
Undone(u) ==
    /\ dev[u].at = "close" => ~dev[u].started
    /\ dev[u].at = "unisolate" => ~dev[u].isolated
    /\ dev[u].at = "unpromisc" => ~dev[u].promisc
    /\ dev[u].at # "closeport"

Walks(u, to) ==
    /\ to \in Places /\ MayMove(dev[u], to) /\ Moves(u, to) /\ EnvSame
    /\ dev[u].at = "init" => eal # "off"
    /\ \/ failed' = failed /\ Undone(u)
       \/ \E call : failed' = failed \cup {call} /\ (dev[u].at = "close" => call = "stop")

PortOnly == UNCHANGED <<coexists, eal, probes, bus, region, mempools, opens, failed>>

Quiet(u, to) == Goto(u, to) /\ UNCHANGED <<coexists, envVars, opens, failed>>

LEMMA QuietWalks ==
    ASSUME DevTypes, NEW u \in Users, NEW to \in Places, Quiet(u, to), MayMove(dev[u], to),
           Undone(u), dev[u].at = "init" => eal # "off"
    PROVE  Walks(u, to)
BY Zenon, GotoMoves DEF Quiet, Walks, EnvSame, envVars, portVars, memVars

LEMMA GivesUp ==
    ASSUME DevTypes, NEW u \in Users, dev[u].at \in {"info", "region"} \cup Held, GiveUp(u)
    PROVE  Walks(u, "close")
<1>1. MayMove(dev[u], "close") /\ Undone(u) /\ dev[u].at # "init" /\ "close" \in Places
  BY DEF MayMove, Undone, Held, Places, Undoing
<1>2. Quiet(u, "close")
  BY Zenon DEF GiveUp, Quiet
<1> QED BY Zenon, <1>1, <1>2, QuietWalks

\* A call of Close: it works on the port, or it fails and Close goes on.
LEMMA UndoIs ==
    ASSUME DevTypes, NEW u \in Users, NEW call, NEW works, NEW e2, NEW to \in Places,
           Undo(u, call, works, e2, to),
           MayMove(dev[u], to), dev[u].at # "init", dev[u].at = "close" => call = "stop"
    PROVE  \/ Walks(u, to)
           \/ works /\ ethdev' = e2 /\ Moves(u, to) /\ PortOnly
BY Zenon, GotoMoves DEF Undo, Walks, EnvSame, memVars, PortOnly

-----------------------------------------------------------------------------
(* The kinds of steps. *)

\* A device is given up, and with it perhaps the port or the memzone.
GoesOut(u) ==
    /\ Leave(u) /\ dev[u].at \in {"init", "probe", "memory", "remove"}
    /\ opens' = opens /\ mempools' = mempools /\ probes' = probes /\ failed \subseteq failed'
    /\ eal' = eal \/ (dev[u].at = "init" /\ eal' = "failed")
    /\ \/ ethdev' = ethdev /\ bus' = bus
       \/ dev[u].at = "remove" /\ ethdev' = NoPort /\ bus' = 0
    /\ \/ region' = region /\ (dev[u].at = "memory" /\ Holds(u) => failed' # {})
       \/ dev[u].at = "memory" /\ Holds(u) /\ region' = 0

\* The port comes up, new.
ComesUp(u, to) ==
    /\ to \in Places /\ MayMove(dev[u], to) /\ Moves(u, to) /\ dev[u].at \in Early
    /\ ethdev' = NewPort /\ bus' \in Nat /\ bus' # 0 /\ probes' \in Nat
    /\ (eal = "off" /\ eal' = "up") \/ (bus = 0 /\ eal' = eal /\ dev[u].at = "probe")
    /\ UNCHANGED <<region, mempools, opens, failed>>

\* The holder of the memzone changes the port.
HoldersStep(u) ==
    /\ dev[u].at \in Held \cup Undoing /\ dev'[u].at \in Held \cup Undoing
    /\ Holds(u) /\ Updated(u) /\ dev'[u].id = dev[u].id
    /\ PortOnly /\ IsPort(ethdev')
    /\ UserInv(dev'[u], ethdev', region, mempools)
    /\ ethdev'.started => RunBy(dev'[u], region) \/ (ethdev.started /\ ~RunBy(dev[u], region))

\* The memzone is reserved, or freed.
Reserves(u) ==
    /\ dev[u].at = "region" /\ region = 0 /\ region' = dev[u].id /\ Moves(u, "promisc")
    /\ UNCHANGED <<coexists, eal, probes, bus, ethdev, mempools, opens, failed>>
Releases(u) ==
    /\ dev[u].at = "memory" /\ dev[u].ready /\ Moves(u, "remove") /\ failed \subseteq failed'
    /\ \/ region' = region /\ failed' # {}
       \/ Holds(u) /\ region' = 0
    /\ UNCHANGED <<coexists, eal, probes, bus, ethdev, mempools, opens>>

\* A pool is created, or a device's are freed.
TakesPool(u) ==
    /\ dev[u].at = "pool" /\ Moves(u, "setup")
    /\ mempools' = mempools \cup {<<dev[u].id, dev[u].built + 1>>}
    /\ UNCHANGED <<coexists, eal, probes, bus, ethdev, region, opens, failed>>
FreesPools(u) ==
    /\ dev[u].at = "pools" /\ Moves(u, "memory") /\ mempools' = mempools \ Pools(u)
    /\ UNCHANGED <<coexists, eal, probes, bus, ethdev, region, opens, failed>>

\* A step of the holder on a port as it says leaves one, or a closed one.
KeepsClean(u) ==
    CleanFor(dev[u], ethdev, region) =>
        /\ ethdev.up /\ CleanFor(dev'[u], ethdev', region)
        /\ (ethdev'.up /\ ~Removing(dev'[u])) \/ ethdev' = NoPort

Kinds(u) ==
    \/ OpenCall(u) \/ GoesOut(u) \/ \E to : Walks(u, to) \/ ComesUp(u, to)
    \/ HoldersStep(u) /\ KeepsClean(u)
    \/ Reserves(u) \/ Releases(u) \/ TakesPool(u) \/ FreesPools(u)

-----------------------------------------------------------------------------
(* Every action is one of these. *)

\* The calls of an Open that change nothing but where it is.
LEMMA OpeningWalks ==
    ASSUME DevTypes, NEW u \in Users, FindPort(u) \/ AskInfo(u) \/ Flow(u) \/ CloseCall(u)
    PROVE  \E to : Walks(u, to)
<1>1. CASE FindPort(u)
  <2>1. PICK to \in {"handle", "probe"} : Quiet(u, to)
    BY Zenon, <1>1 DEF FindPort, Quiet
  <2>2. to \in Places /\ MayMove(dev[u], to) /\ Undone(u) /\ dev[u].at # "init"
    BY <1>1, <2>1 DEF FindPort, IsAt, MayMove, Undone, Places, Early
  <2> QED BY Zenon, <2>1, <2>2, QuietWalks
<1>2. CASE AskInfo(u)
  <2>1. dev[u].at = "info" /\ (Quiet(u, "region") \/ GiveUp(u))
    BY Zenon, <1>2 DEF AskInfo, IsAt, Quiet
  <2>2. "region" \in Places /\ MayMove(dev[u], "region") /\ Undone(u) /\ dev[u].at # "init"
    BY <2>1 DEF MayMove, Undone, Places, Early
  <2> QED BY Zenon, <2>1, <2>2, QuietWalks, GivesUp
<1>3. CASE Flow(u)
  <2>1. dev[u].at = "flow" /\ (Quiet(u, "open") \/ GiveUp(u))
    BY Zenon, <1>3 DEF Flow, IsAt, Quiet
  <2>2. /\ "open" \in Places /\ MayMove(dev[u], "open") /\ Undone(u) /\ dev[u].at # "init"
        /\ dev[u].at \in Held
    BY <2>1 DEF MayMove, Undone, Places, Held
  <2> QED BY Zenon, <2>1, <2>2, QuietWalks, GivesUp
<1>4. CASE CloseCall(u)
  <2>1. dev[u].at = "open" /\ GiveUp(u) /\ dev[u].at \in Held
    BY <1>4 DEF CloseCall, IsAt, GiveUp, Held
  <2> QED BY Zenon, <2>1, GivesUp
<1> QED BY <1>1, <1>2, <1>3, <1>4

LEMMA EalInitKind ==
    ASSUME DevTypes, NEW u \in Users, EalInit(u)
    PROVE  Kinds(u)
<1>1. dev[u].at = "init" /\ UNCHANGED <<region, mempools, opens, failed>>
  BY DEF EalInit, IsAt, memVars
<1>2. /\ MayMove(dev[u], "find") /\ Undone(u) /\ "find" \in Places /\ dev[u].at \in Early
      /\ 1 \in Nat /\ 1 # 0
  BY <1>1 DEF MayMove, Undone, Early, Places
<1>3. CASE eal = "off" /\ eal' = "up" /\ probes' = 1 /\ bus' = 1 /\ ethdev' = NewPort /\ Goto(u, "find")
  <2>1. ComesUp(u, "find")
    BY Zenon, <1>1, <1>2, <1>3, GotoMoves DEF ComesUp
  <2> QED BY Zenon, <2>1 DEF Kinds
<1>4. CASE (eal' = "failed" \/ eal' = eal) /\ Leave(u) /\ UNCHANGED <<probes, portVars>>
  <2>1. GoesOut(u)
    BY <1>1, <1>4 DEF GoesOut, portVars
  <2> QED BY <2>1 DEF Kinds
<1>5. CASE eal = "up" /\ Goto(u, "find") /\ UNCHANGED <<eal, probes, portVars>>
  <2>1. Quiet(u, "find") /\ eal # "off"
    BY <1>1, <1>5 DEF Quiet, EalInit, envVars, portVars, memVars
  <2>2. Walks(u, "find")
    BY Zenon, <1>2, <2>1, QuietWalks
  <2> QED BY Zenon, <2>2 DEF Kinds
<1> QED BY Zenon, <1>3, <1>4, <1>5 DEF EalInit

LEMMA ProbeKind ==
    ASSUME DevTypes, NEW u \in Users, Probe(u)
    PROVE  Kinds(u)
<1>1. dev[u].at = "probe" /\ UNCHANGED <<eal, region, mempools, opens, failed>>
  BY DEF Probe, IsAt, memVars
<1>2. MayMove(dev[u], "handle") /\ "handle" \in Places /\ dev[u].at \in Early
  BY <1>1 DEF MayMove, Early, Places
<1>3. CASE bus = 0 /\ probes' = probes + 1 /\ bus' = probes' /\ ethdev' = NewPort /\ Goto(u, "handle")
  <2>1. bus' \in Nat /\ bus' # 0 /\ probes' \in Nat
    BY <1>3 DEF DevTypes
  <2>2. ComesUp(u, "handle")
    BY Zenon, <1>1, <1>2, <1>3, <2>1, GotoMoves DEF ComesUp
  <2> QED BY Zenon, <2>2 DEF Kinds
<1>4. CASE Leave(u) /\ UNCHANGED <<probes, portVars>>
  <2>1. GoesOut(u)
    BY <1>1, <1>4 DEF GoesOut, portVars
  <2> QED BY <2>1 DEF Kinds
<1> QED BY Zenon, <1>3, <1>4 DEF Probe

LEMMA TakeHandleKind ==
    ASSUME DevTypes, NEW u \in Users, TakeHandle(u)
    PROVE  Kinds(u)
<1>1. /\ dev[u].at = "handle" /\ EnvSame /\ failed' = failed
      /\ dev' = [dev EXCEPT ![u].handle = IF ethdev.up THEN bus ELSE 0, ![u].at = "info"]
  BY DEF TakeHandle, IsAt, EnvSame, envVars, portVars, memVars
<1>2. /\ MayMove(dev[u], "info") /\ Undone(u) /\ "info" \in Places /\ dev[u].at # "init"
  BY <1>1 DEF MayMove, Undone, Early, Places
<1>3. PICK h \in Nat : dev' = [dev EXCEPT ![u].handle = h, ![u].at = "info"]
  <2>1. (IF ethdev.up THEN bus ELSE 0) \in Nat
    BY DEF DevTypes
  <2> QED BY Zenon, <1>1, <2>1
<1>4. dev \in [Users -> Device] /\ dev[u] \in Device
  BY DEF DevTypes
<1> DEFINE d == [dev[u] EXCEPT !.handle = h, !.at = "info"]
<1>5. dev' = [dev EXCEPT ![u] = d]
  BY Zenon, <1>3, <1>4
<1>6. d \in Device /\ Moved(d, dev[u], "info")
  BY Zenon, <1>2, <1>4 DEF Device, Moved
<1> HIDE DEF d
<1>7. Moves(u, "info")
  BY Zenon, <1>4, <1>5, <1>6 DEF Moves, Updated
<1>8. Walks(u, "info")
  BY Zenon, <1>1, <1>2, <1>7 DEF Walks
<1> QED BY Zenon, <1>8 DEF Kinds

LEMMA ReserveKind ==
    ASSUME DevTypes, NEW u \in Users, ReserveRegion(u)
    PROVE  Kinds(u)
<1>1. dev[u].at = "region" /\ "promisc" \in Places
  BY DEF ReserveRegion, IsAt, Places, Held
<1>2. CASE GiveUp(u)
  BY Zenon, <1>1, <1>2, GivesUp DEF Kinds
<1>3. CASE /\ RegionFree /\ region' = dev[u].id /\ Goto(u, "promisc")
           /\ UNCHANGED <<coexists, eal, probes, portVars, mempools, opens, failed>>
  <2>1. Reserves(u)
    BY Zenon, <1>1, <1>3, GotoMoves DEF Reserves, RegionFree, Nobody, portVars
  <2> QED BY <2>1 DEF Kinds
<1> QED BY Zenon, <1>2, <1>3 DEF ReserveRegion

LEMMA MempoolKind ==
    ASSUME DevTypes, NEW u \in Users, NewMempool(u)
    PROVE  Kinds(u)
<1>1. dev[u].at = "pool" /\ dev[u].at \in Held /\ "setup" \in Places
  BY DEF NewMempool, IsAt, Places, Held
<1>2. CASE GiveUp(u)
  BY Zenon, <1>1, <1>2, GivesUp DEF Kinds
<1>3. CASE /\ mempools' = mempools \cup {Pool(u, dev[u].built + 1)} /\ Goto(u, "setup")
           /\ UNCHANGED <<coexists, eal, probes, portVars, region, opens, failed>>
  <2>1. TakesPool(u)
    BY Zenon, <1>1, <1>3, GotoMoves DEF TakesPool, Pool, portVars
  <2> QED BY <2>1 DEF Kinds
<1> QED BY Zenon, <1>2, <1>3 DEF NewMempool

LEMMA FreePoolsKind ==
    ASSUME DevTypes, NEW u \in Users, FreePools(u)
    PROVE  Kinds(u)
<1>1. "memory" \in Places
  BY DEF Places, Undoing
<1>2. FreesPools(u)
  BY Zenon, <1>1, GotoMoves DEF FreePools, FreesPools, IsAt, portVars
<1> QED BY <1>2 DEF Kinds

LEMMA FreeRegionKind ==
    ASSUME DevSafe, NEW u \in Users, FreeRegion(u)
    PROVE  Kinds(u)
<1>1. /\ dev[u].at = "memory" /\ DevTypes /\ "remove" \in Places
      /\ UNCHANGED <<coexists, eal, probes, bus, ethdev, mempools, opens>>
  BY DEF FreeRegion, IsAt, DevSafe, portVars, Places
<1>2. dev[u].ready => Holds(u)
  BY <1>1 DEF DevSafe, UserInv, Progress, Undoing, Bare, Holds
<1>3. /\ failed \subseteq failed'
      /\ \/ region' = region /\ (Holds(u) => failed' # {})
         \/ Holds(u) /\ region' = 0
  BY DEF FreeRegion, Nobody
<1>4. CASE dev[u].ready
  <2>1. Moves(u, "remove")
    BY Zenon, <1>1, <1>4, GotoMoves DEF FreeRegion
  <2>2. Releases(u)
    BY Zenon, <1>1, <1>2, <1>3, <1>4, <2>1 DEF Releases
  <2> QED BY <2>2 DEF Kinds
<1>5. CASE ~dev[u].ready
  <2>1. Leave(u)
    BY Zenon, <1>5 DEF FreeRegion
  <2>2. GoesOut(u)
    BY Zenon, <1>1, <1>3, <2>1 DEF GoesOut
  <2> QED BY <2>2 DEF Kinds
<1> QED BY <1>4, <1>5

LEMMA RemoveKind ==
    ASSUME NEW u \in Users, RemoveDevice(u)
    PROVE  Kinds(u)
<1>1. dev[u].at = "remove" /\ Leave(u) /\ UNCHANGED <<eal, probes, region, mempools, opens>>
  BY DEF RemoveDevice, IsAt, memVars
<1>2. /\ failed \subseteq failed'
      /\ (ethdev' = ethdev /\ bus' = bus) \/ (ethdev' = NoPort /\ bus' = 0)
  BY DEF RemoveDevice, portVars
<1>3. GoesOut(u)
  BY <1>1, <1>2 DEF GoesOut
<1> QED BY <1>3 DEF Kinds

\* The flags of a device.
LEMMA SwitchMoves ==
    ASSUME DevTypes, NEW u \in Users, NEW to \in Places
    PROVE  /\ dev' = [dev EXCEPT ![u].promisc = TRUE, ![u].at = to]
                 => Updated(u) /\ Switched(dev'[u], dev[u], to, "promisc")
           /\ dev' = [dev EXCEPT ![u].isolated = TRUE, ![u].at = to]
                 => Updated(u) /\ Switched(dev'[u], dev[u], to, "isolated")
           /\ dev' = [dev EXCEPT ![u].started = TRUE, ![u].at = to]
                 => Updated(u) /\ Switched(dev'[u], dev[u], to, "started")
<1>1. dev \in [Users -> Device] /\ dev[u] \in Device
  BY DEF DevTypes
<1>2. ASSUME NEW d \in Device, dev' = [dev EXCEPT ![u] = d] PROVE Updated(u) /\ dev'[u] = d
  BY Zenon, <1>1, <1>2 DEF Updated
<1>3. ASSUME dev' = [dev EXCEPT ![u].promisc = TRUE, ![u].at = to]
      PROVE  Updated(u) /\ Switched(dev'[u], dev[u], to, "promisc")
  <2> DEFINE d == [dev[u] EXCEPT !.promisc = TRUE, !.at = to]
  <2>1. dev' = [dev EXCEPT ![u] = d]
    BY Zenon, <1>1, <1>3
  <2>2. d \in Device /\ Switched(d, dev[u], to, "promisc")
    BY Zenon, <1>1 DEF Device, Switched
  <2> HIDE DEF d
  <2> QED BY Zenon, <1>2, <2>1, <2>2
<1>4. ASSUME dev' = [dev EXCEPT ![u].isolated = TRUE, ![u].at = to]
      PROVE  Updated(u) /\ Switched(dev'[u], dev[u], to, "isolated")
  <2> DEFINE d == [dev[u] EXCEPT !.isolated = TRUE, !.at = to]
  <2>1. dev' = [dev EXCEPT ![u] = d]
    BY Zenon, <1>1, <1>4
  <2>2. d \in Device /\ Switched(d, dev[u], to, "isolated")
    BY Zenon, <1>1 DEF Device, Switched
  <2> HIDE DEF d
  <2> QED BY Zenon, <1>2, <2>1, <2>2
<1>5. ASSUME dev' = [dev EXCEPT ![u].started = TRUE, ![u].at = to]
      PROVE  Updated(u) /\ Switched(dev'[u], dev[u], to, "started")
  <2> DEFINE d == [dev[u] EXCEPT !.started = TRUE, !.at = to]
  <2>1. dev' = [dev EXCEPT ![u] = d]
    BY Zenon, <1>1, <1>5
  <2>2. d \in Device /\ Switched(d, dev[u], to, "started")
    BY Zenon, <1>1 DEF Device, Switched
  <2> HIDE DEF d
  <2> QED BY Zenon, <1>2, <2>1, <2>2
<1> QED BY Zenon, <1>3, <1>4, <1>5

\* Who has something on the port holds the memzone.
LEMMA HolderIs ==
    ASSUME DevSafe, NEW u \in Users,
           dev[u].at \in Held \/ (dev[u].at \in Undoing /\ ~Bare(dev[u]))
    PROVE  /\ Holds(u) /\ region = dev[u].id /\ DevTypes /\ IsPort(ethdev) /\ dev[u] \in Device
           /\ UserInv(dev[u], ethdev, region, mempools) /\ Progress(dev[u], region, mempools)
<1>1. UserInv(dev[u], ethdev, region, mempools) /\ DevTypes
  BY DEF DevSafe
<1>2. Progress(dev[u], region, mempools)
  BY <1>1 DEF UserInv
<1>3. region = dev[u].id
  BY <1>2 DEF Progress
<1> QED BY Zenon, <1>1, <1>2, <1>3 DEF DevTypes, Holds

LEMMA PromiscuousKind ==
    ASSUME DevSafe, NEW u \in Users, Promiscuous(u)
    PROVE  Kinds(u)
<1>1. dev[u].at = "promisc" /\ dev[u].at \in Held /\ DevTypes /\ "isolate" \in Places
      /\ MayMove(dev[u], "isolate") /\ Undone(u) /\ dev[u].at # "init"
  BY DEF Promiscuous, IsAt, DevSafe, Held, Places, MayMove, Undone
<1>2. CASE GiveUp(u)
  BY Zenon, <1>1, <1>2, GivesUp DEF Kinds
<1>3. CASE Goto(u, "isolate") /\ UNCHANGED <<coexists, envVars, opens, failed>>
  <2>1. Walks(u, "isolate")
    BY Zenon, <1>1, <1>3, QuietWalks DEF Quiet
  <2> QED BY Zenon, <2>1 DEF Kinds
<1>4. CASE /\ dev[u].wantPromisc /\ ethdev.up
           /\ ethdev' = [ethdev EXCEPT !.promisc = TRUE]
           /\ dev' = [dev EXCEPT ![u].promisc = TRUE, ![u].at = "isolate"]
           /\ UNCHANGED <<coexists, eal, probes, bus, memVars, opens, failed>>
  <2>1. /\ Holds(u) /\ IsPort(ethdev)
        /\ UserInv(dev[u], ethdev, region, mempools) /\ Progress(dev[u], region, mempools)
    BY Zenon, <1>1, HolderIs
  <2>2. Updated(u) /\ Switched(dev'[u], dev[u], "isolate", "promisc")
    BY Zenon, <1>1, <1>4, SwitchMoves
  <2>3. OneField(ethdev', ethdev, "promisc", TRUE)
    BY Zenon, <1>4, <2>1, FieldSet
  <2>4. PortOnly /\ IsPort(ethdev') /\ ethdev'.started = ethdev.started /\ ethdev'.up
    BY <1>4, <2>3 DEF PortOnly, OneField, memVars
  <2>5. /\ dev'[u].at = "isolate" /\ dev'[u].id = dev[u].id /\ dev'[u].queues = dev[u].queues
        /\ dev'[u].built = dev[u].built /\ dev'[u].ready = dev[u].ready
        /\ dev'[u].started = dev[u].started
    BY <2>2 DEF Switched
  <2>6. UserInv(dev'[u], ethdev', region, mempools)
    BY Zenon, <1>1, <2>1, <2>5, ModeOwn
  <2>7. dev[u].at \in Held \cup Undoing /\ dev'[u].at \in Held \cup Undoing /\ ~RunBy(dev[u], region)
    BY <1>1, <2>5 DEF Held, RunBy
  <2>8. HoldersStep(u)
    BY Zenon, <2>1, <2>2, <2>4, <2>5, <2>6, <2>7 DEF HoldersStep
  <2>9. KeepsClean(u)
    BY Zenon, <1>1, <1>4, <2>1, <2>2, <2>3, <2>4, PromiscClean DEF KeepsClean
  <2> QED BY <2>8, <2>9 DEF Kinds
<1> QED BY Zenon, <1>2, <1>3, <1>4 DEF Promiscuous

LEMMA IsolateKind ==
    ASSUME DevSafe, NEW u \in Users, Isolate(u)
    PROVE  Kinds(u)
<1>1. dev[u].at = "isolate" /\ dev[u].at \in Held /\ DevTypes /\ "configure" \in Places
      /\ MayMove(dev[u], "configure") /\ Undone(u) /\ dev[u].at # "init"
  BY DEF Isolate, IsAt, DevSafe, Held, Places, MayMove, Undone
<1>2. CASE GiveUp(u)
  BY Zenon, <1>1, <1>2, GivesUp DEF Kinds
<1>3. CASE Goto(u, "configure") /\ UNCHANGED <<coexists, envVars, opens, failed>>
  <2>1. Walks(u, "configure")
    BY Zenon, <1>1, <1>3, QuietWalks DEF Quiet
  <2> QED BY Zenon, <2>1 DEF Kinds
<1>4. CASE /\ Isolates(u) /\ ethdev.up
           /\ ethdev' = [ethdev EXCEPT !.isolated = TRUE]
           /\ dev' = [dev EXCEPT ![u].isolated = TRUE, ![u].at = "configure"]
           /\ UNCHANGED <<coexists, eal, probes, bus, memVars, opens, failed>>
  <2>1. /\ Holds(u) /\ IsPort(ethdev)
        /\ UserInv(dev[u], ethdev, region, mempools) /\ Progress(dev[u], region, mempools)
    BY Zenon, <1>1, HolderIs
  <2>2. Updated(u) /\ Switched(dev'[u], dev[u], "configure", "isolated")
    BY Zenon, <1>1, <1>4, SwitchMoves
  <2>3. OneField(ethdev', ethdev, "isolated", TRUE)
    BY Zenon, <1>4, <2>1, FieldSet
  <2>4. PortOnly /\ IsPort(ethdev') /\ ethdev'.started = ethdev.started /\ ethdev'.up
    BY <1>4, <2>3 DEF PortOnly, OneField, memVars
  <2>5. /\ dev'[u].at = "configure" /\ dev'[u].id = dev[u].id /\ dev'[u].queues = dev[u].queues
        /\ dev'[u].built = dev[u].built /\ dev'[u].ready = dev[u].ready
        /\ dev'[u].started = dev[u].started
    BY <2>2 DEF Switched
  <2>6. UserInv(dev'[u], ethdev', region, mempools)
    BY Zenon, <1>1, <2>1, <2>5, ModeOwn
  <2>7. dev[u].at \in Held \cup Undoing /\ dev'[u].at \in Held \cup Undoing /\ ~RunBy(dev[u], region)
    BY <1>1, <2>5 DEF Held, RunBy
  <2>8. HoldersStep(u)
    BY Zenon, <2>1, <2>2, <2>4, <2>5, <2>6, <2>7 DEF HoldersStep
  <2>9. KeepsClean(u)
    BY Zenon, <1>1, <1>4, <2>1, <2>2, <2>3, <2>4, IsolateClean DEF KeepsClean
  <2> QED BY <2>8, <2>9 DEF Kinds
<1> QED BY Zenon, <1>2, <1>3, <1>4 DEF Isolate

LEMMA StartKind ==
    ASSUME DevSafe, NEW u \in Users, Start(u)
    PROVE  Kinds(u)
<1>1. dev[u].at = "start" /\ dev[u].at \in Held /\ DevTypes /\ "flow" \in Places
  BY DEF Start, IsAt, DevSafe, Held, Places
<1>2. CASE GiveUp(u)
  BY Zenon, <1>1, <1>2, GivesUp DEF Kinds
<1>3. CASE /\ ethdev.up /\ ethdev' = [ethdev EXCEPT !.started = TRUE]
           /\ dev' = [dev EXCEPT ![u].started = TRUE, ![u].at = "flow"]
           /\ UNCHANGED <<coexists, eal, probes, bus, memVars, opens, failed>>
  <2>1. /\ Holds(u) /\ IsPort(ethdev)
        /\ UserInv(dev[u], ethdev, region, mempools) /\ Progress(dev[u], region, mempools)
    BY Zenon, <1>1, HolderIs
  <2>2. Updated(u) /\ Switched(dev'[u], dev[u], "flow", "started")
    BY Zenon, <1>1, <1>3, SwitchMoves
  <2>3. OneField(ethdev', ethdev, "started", TRUE)
    BY Zenon, <1>3, <2>1, FieldSet
  <2>4. PortOnly /\ IsPort(ethdev') /\ ethdev'.queues = ethdev.queues /\ ethdev'.up
    BY <1>3, <2>3 DEF PortOnly, OneField, memVars
  <2>5. /\ dev'[u].at = "flow" /\ dev'[u].id = dev[u].id /\ dev'[u].queues = dev[u].queues
        /\ dev'[u].built = dev[u].built /\ dev'[u].ready = dev[u].ready
        /\ dev'[u].started = TRUE
    BY <2>2 DEF Switched
  <2>6. UserInv(dev'[u], ethdev', region, mempools)
    BY Zenon, <1>1, <2>1, <2>4, <2>5, StartOwn
  <2>7. dev[u].at \in Held \cup Undoing /\ dev'[u].at \in Held \cup Undoing /\ RunBy(dev'[u], region)
    BY <1>1, <2>1, <2>5 DEF Held, RunBy, Holds
  <2>8. HoldersStep(u)
    BY Zenon, <2>1, <2>2, <2>4, <2>5, <2>6, <2>7 DEF HoldersStep
  <2>9. KeepsClean(u)
    BY Zenon, <1>1, <1>3, <2>1, <2>2, <2>3, <2>4, StartClean DEF KeepsClean
  <2> QED BY <2>8, <2>9 DEF Kinds
<1> QED BY Zenon, <1>2, <1>3 DEF Start

LEMMA ConfigureKind ==
    ASSUME DevSafe, NEW u \in Users, Configure(u)
    PROVE  Kinds(u)
<1>1. dev[u].at = "configure" /\ dev[u].at \in Held /\ DevTypes /\ "pool" \in Places
  BY DEF Configure, IsAt, DevSafe, Held, Places
<1>2. CASE GiveUp(u)
  BY Zenon, <1>1, <1>2, GivesUp DEF Kinds
<1>3. CASE /\ Settable /\ ethdev' = [ethdev EXCEPT !.queues = Resized(dev[u].queues)]
           /\ Goto(u, "pool")
           /\ UNCHANGED <<coexists, eal, probes, bus, memVars, opens, failed>>
  <2>1. /\ Holds(u) /\ IsPort(ethdev) /\ dev[u] \in Device
        /\ UserInv(dev[u], ethdev, region, mempools) /\ Progress(dev[u], region, mempools)
    BY Zenon, <1>1, HolderIs
  <2>2. Updated(u) /\ Moved(dev'[u], dev[u], "pool")
    BY Zenon, <1>1, <1>3, GotoMoves DEF Moves
  <2> DEFINE q == Resized(dev[u].queues)
  <2>3. DOMAIN q = 1 .. dev[u].queues /\ q = [i \in DOMAIN q |-> q[i]]
    BY DEF Resized
  <2> HIDE DEF q
  <2>4. /\ IsPort(ethdev') /\ SameModes(ethdev', ethdev) /\ DOMAIN ethdev'.queues = 1 .. dev[u].queues
    <3>1. ethdev' = [ethdev EXCEPT !.queues = q]
      BY <1>3 DEF q
    <3>2. Requeued(ethdev', ethdev, q)
      BY Zenon, <2>1, <2>3, <3>1, QueuesSet
    <3> QED BY Zenon, <2>3, <3>2 DEF Requeued
  <2>5. PortOnly /\ ethdev'.started = ethdev.started /\ ethdev.up /\ ethdev'.up
    BY <1>3, <2>4 DEF PortOnly, SameModes, memVars, Settable
  <2>6. dev[u].queues \in Nat
    BY <2>1 DEF Device
  <2>7. UserInv(dev'[u], ethdev', region, mempools)
    BY Zenon, <1>1, <2>1, <2>2, <2>4, <2>6, ConfigureOwn
  <2>8. /\ dev[u].at \in Held \cup Undoing /\ dev'[u].at \in Held \cup Undoing /\ ~RunBy(dev[u], region)
        /\ dev'[u].id = dev[u].id
    BY <1>1, <2>2 DEF Held, RunBy, Moved
  <2>9. HoldersStep(u)
    BY Zenon, <2>1, <2>2, <2>4, <2>5, <2>7, <2>8 DEF HoldersStep
  <2>10. KeepsClean(u)
    BY Zenon, <1>1, <2>1, <2>2, <2>4, <2>5, ConfigureClean DEF KeepsClean
  <2> QED BY <2>9, <2>10 DEF Kinds
<1> QED BY Zenon, <1>2, <1>3 DEF Configure

\* d2 is d elsewhere, with i queues.
Grown(d2, d, i, ready, to) ==
    /\ d2.at = to /\ d2.built = i /\ d2.ready = ready
    /\ d2.id = d.id /\ d2.queues = d.queues /\ d2.isolated = d.isolated
    /\ d2.promisc = d.promisc /\ d2.started = d.started

Grows(u, i, ready, to) ==
    dev' = [dev EXCEPT ![u].built = i, ![u].ready = ready, ![u].at = to]

LEMMA BuiltMoves ==
    ASSUME DevTypes, NEW u \in Users, NEW i \in Nat, NEW ready \in BOOLEAN, NEW to \in Places,
           Grows(u, i, ready, to)
    PROVE  Updated(u) /\ Grown(dev'[u], dev[u], i, ready, to)
<1>1. dev \in [Users -> Device] /\ dev[u] \in Device
  BY DEF DevTypes
<1> DEFINE d == [dev[u] EXCEPT !.built = i, !.ready = ready, !.at = to]
<1>2. dev' = [dev EXCEPT ![u] = d]
  BY Zenon, <1>1 DEF Grows
<1>3. d \in Device
  BY Zenon, <1>1 DEF Device
<1>4. Grown(d, dev[u], i, ready, to)
  BY Zenon, <1>1 DEF Device, Grown
<1> HIDE DEF d
<1> QED BY Zenon, <1>1, <1>2, <1>3, <1>4 DEF Updated

LEMMA SetupKind ==
    ASSUME DevSafe, NEW u \in Users, SetupQueue(u)
    PROVE  Kinds(u)
<1> DEFINE i == dev[u].built + 1
           q == [ethdev.queues EXCEPT ![i] = <<dev[u].id, i>>]
<1>1. dev[u].at = "setup" /\ dev[u].at \in Held /\ DevTypes /\ dev[u].at \in Held \cup Undoing
      /\ "close" \in Places /\ "start" \in Places /\ "pool" \in Places
  BY DEF SetupQueue, IsAt, DevSafe, Held, Places, Undoing
<1>2. CASE GiveUp(u)
  BY Zenon, <1>1, <1>2, GivesUp DEF Kinds
<1>3. CASE /\ HasQueue(i) /\ ethdev' = [ethdev EXCEPT !.queues[i] = Pool(u, i)]
           /\ UNCHANGED <<coexists, eal, probes, bus, memVars, opens, failed>>
           /\ \/ dev' = [dev EXCEPT ![u].built = i, ![u].ready = AllBuilt(u, i),
                                    ![u].at = IF AllBuilt(u, i) THEN "start" ELSE "pool"]
              \/ Goto(u, "close")
  <2>1. /\ Holds(u) /\ IsPort(ethdev) /\ dev[u] \in Device
        /\ UserInv(dev[u], ethdev, region, mempools) /\ Progress(dev[u], region, mempools)
    BY Zenon, <1>1, HolderIs
  <2>2. /\ IsPort(ethdev') /\ SameModes(ethdev', ethdev) /\ ethdev'.queues = q
    <3>1. ethdev' = [ethdev EXCEPT !.queues = q]
      BY Zenon, <1>3 DEF Pool
    <3>2. q = [j \in DOMAIN q |-> q[j]]
      BY Zenon, <2>1 DEF IsPort
    <3> HIDE DEF q
    <3>3. Requeued(ethdev', ethdev, q)
      BY Zenon, <2>1, <3>1, <3>2, QueuesSet
    <3> QED BY Zenon, <3>3 DEF Requeued
  <2>3. PortOnly /\ ethdev'.started = ethdev.started /\ ethdev.up /\ ethdev'.up
    BY <1>3, <2>2 DEF PortOnly, SameModes, memVars, HasQueue, Settable
  <2>4. dev[u].built \in Nat /\ dev[u].queues \in Nat /\ i \in Nat
    BY <2>1 DEF Device
  <2>5. ~RunBy(dev[u], region)
    BY <1>1 DEF RunBy
  <2>6. CASE dev' = [dev EXCEPT ![u].built = i, ![u].ready = AllBuilt(u, i),
                                ![u].at = IF AllBuilt(u, i) THEN "start" ELSE "pool"]
    <3>1. AllBuilt(u, i) \in BOOLEAN /\ (IF AllBuilt(u, i) THEN "start" ELSE "pool") \in Places
      BY Zenon, <1>1 DEF AllBuilt
    <3>2. /\ Updated(u)
          /\ Grown(dev'[u], dev[u], i, AllBuilt(u, i), IF AllBuilt(u, i) THEN "start" ELSE "pool")
      <4>1. Grows(u, i, AllBuilt(u, i), IF AllBuilt(u, i) THEN "start" ELSE "pool")
        BY <2>6 DEF Grows
      <4> HIDE DEF i
      <4> QED BY Zenon, <1>1, <2>4, <3>1, <4>1, BuiltMoves
    <3>3. Built(dev'[u], dev[u], ethdev', ethdev)
      BY Zenon, <2>2, <3>2 DEF Built, Grown, AllBuilt
    <3>4. UserInv(dev'[u], ethdev', region, mempools)
      BY Zenon, <1>1, <2>1, <2>4, <3>3, SetupOwn
    <3>5. dev'[u].at \in Held \cup Undoing /\ dev'[u].id = dev[u].id
      BY <3>2 DEF Held, Grown
    <3>6. HoldersStep(u)
      BY Zenon, <1>1, <2>1, <2>2, <2>3, <2>5, <3>2, <3>4, <3>5 DEF HoldersStep
    <3>7. KeepsClean(u)
      BY Zenon, <1>1, <2>1, <2>2, <2>3, <3>3, SetupClean DEF KeepsClean
    <3> QED BY <3>6, <3>7 DEF Kinds
  <2>7. CASE Goto(u, "close")
    <3>1. Updated(u) /\ Moved(dev'[u], dev[u], "close")
      BY Zenon, <1>1, <2>7, GotoMoves DEF Moves
    <3>2. UserInv(dev'[u], ethdev', region, mempools)
      BY Zenon, <1>1, <2>1, <3>1, SetupFails
    <3>3. dev'[u].at \in Held \cup Undoing /\ dev'[u].id = dev[u].id
      BY <3>1 DEF Undoing, Moved
    <3>4. HoldersStep(u)
      BY Zenon, <1>1, <2>1, <2>2, <2>3, <2>5, <3>1, <3>2, <3>3 DEF HoldersStep
    <3>5. KeepsClean(u)
      BY Zenon, <1>1, <2>1, <2>2, <2>3, <3>1, SetupFailsClean DEF KeepsClean
    <3> QED BY <3>4, <3>5 DEF Kinds
  <2> QED BY <1>3, <2>6, <2>7
<1> QED BY Zenon, <1>2, <1>3 DEF SetupQueue

\* A call of Close that works.
LEMMA UndoKind ==
    ASSUME DevSafe, NEW u \in Users, NEW to, dev[u].at \in Undoing, to \in Undoing, Holds(u),
           Moves(u, to), PortOnly, IsPort(ethdev'), ethdev'.started => ethdev.started,
           UserInv(dev'[u], ethdev', region, mempools), ethdev'.started => ~RunBy(dev[u], region),
           KeepsClean(u)
    PROVE  Kinds(u)
<1>1. Updated(u) /\ dev'[u].id = dev[u].id /\ dev'[u].at = to
  BY DEF Moves, Moved
<1>2. HoldersStep(u)
  BY Zenon, <1>1 DEF HoldersStep
<1> QED BY <1>2 DEF Kinds

LEMMA StopKind ==
    ASSUME DevSafe, NEW u \in Users, Stop(u)
    PROVE  Kinds(u)
<1> DEFINE to == IF ClosesPort(u) THEN "closeport" ELSE "unisolate"
<1>1. /\ dev[u].at = "close" /\ DevTypes /\ to \in Places /\ MayMove(dev[u], to)
      /\ dev[u].at # "init" /\ dev[u].at \in Undoing
  BY DEF Stop, IsAt, DevSafe, Places, Undoing, MayMove, ClosesPort
<1>2. CASE ~dev[u].started /\ Skip(u, to)
  <2>1. Undone(u)
    BY <1>1, <1>2 DEF Undone
  <2>2. Walks(u, to)
    BY Zenon, <1>1, <1>2, <2>1, QuietWalks DEF Quiet, Skip
  <2> QED BY Zenon, <2>2 DEF Kinds
<1>3. CASE dev[u].started /\ Undo(u, "stop", TRUE, [ethdev EXCEPT !.started = FALSE], to)
  <2>1. Walks(u, to) \/ (ethdev' = [ethdev EXCEPT !.started = FALSE] /\ Moves(u, to) /\ PortOnly)
    BY Zenon, <1>1, <1>3, UndoIs
  <2>2. CASE Walks(u, to)
    BY Zenon, <2>2 DEF Kinds
  <2>3. CASE ethdev' = [ethdev EXCEPT !.started = FALSE] /\ Moves(u, to) /\ PortOnly
    <3>1. ~Bare(dev[u])
      BY <1>3 DEF Bare
    <3>2. /\ Holds(u) /\ IsPort(ethdev)
          /\ UserInv(dev[u], ethdev, region, mempools) /\ Progress(dev[u], region, mempools)
      BY Zenon, <1>1, <3>1, HolderIs
    <3>3. OneField(ethdev', ethdev, "started", FALSE)
      BY Zenon, <2>3, <3>2, FieldSet
    <3>4. IsPort(ethdev') /\ ethdev'.queues = ethdev.queues /\ ethdev'.started = FALSE
          /\ ethdev'.up = ethdev.up
      BY Zenon, <3>3 DEF OneField
    <3>5. to = "closeport"
      BY <1>3, <3>2 DEF Progress, ClosesPort
    <3>6. UserInv(dev'[u], ethdev', region, mempools)
      <4>1. UserInv(dev'[u], ethdev, region, mempools)
        BY Zenon, <1>1, <2>3, <3>2, MoveOwn DEF Moves
      <4> QED BY Zenon, <3>4, <4>1, SamePort
    <3>7. KeepsClean(u)
      BY Zenon, <1>1, <1>3, <2>3, <3>2, <3>3, <3>4, <3>5, StopClean DEF KeepsClean, Moves
    <3>8. to \in Undoing
      BY <3>5 DEF Undoing
    <3> QED BY Zenon, <1>1, <2>3, <3>2, <3>4, <3>6, <3>7, <3>8, UndoKind
  <2> QED BY <2>1, <2>2, <2>3
<1> QED BY Zenon, <1>2, <1>3 DEF Stop

LEMMA ClosePortKind ==
    ASSUME DevSafe, NEW u \in Users, ClosePort(u)
    PROVE  Kinds(u)
<1>1. /\ dev[u].at = "closeport" /\ DevTypes /\ "pools" \in Places /\ MayMove(dev[u], "pools")
      /\ dev[u].at # "init" /\ dev[u].at # "close" /\ dev[u].at \in Undoing /\ "pools" \in Undoing
  BY DEF ClosePort, IsAt, DevSafe, Places, Undoing, MayMove
<1>2. Walks(u, "pools") \/ (ethdev' = NoPort /\ Moves(u, "pools") /\ PortOnly)
  BY Zenon, <1>1, UndoIs DEF ClosePort
<1>3. CASE Walks(u, "pools")
  BY Zenon, <1>3 DEF Kinds
<1>4. CASE ethdev' = NoPort /\ Moves(u, "pools") /\ PortOnly
  <2>1. ~Bare(dev[u])
    BY <1>1 DEF Bare, DevSafe, UserInv, Progress
  <2>2. /\ Holds(u) /\ UserInv(dev[u], ethdev, region, mempools) /\ Progress(dev[u], region, mempools)
    BY Zenon, <1>1, <2>1, HolderIs
  <2>3. IsPort(ethdev') /\ ~ethdev'.started /\ ~ethdev'.isolated /\ ~ethdev'.promisc
    BY Zenon, <1>4, Ports
  <2>4. UserInv(dev'[u], ethdev', region, mempools)
    BY Zenon, <1>1, <1>4, <2>2, UndoOwn DEF Moves
  <2>5. KeepsClean(u)
    BY Zenon, <1>1, <1>4, <2>2, <2>3, ClosePortClean DEF KeepsClean, Moves
  <2> QED BY Zenon, <1>1, <1>4, <2>2, <2>3, <2>4, <2>5, UndoKind
<1> QED BY <1>2, <1>3, <1>4

LEMMA UnisolateKind ==
    ASSUME DevSafe, NEW u \in Users, Unisolate(u)
    PROVE  Kinds(u)
<1>1. /\ dev[u].at = "unisolate" /\ DevTypes /\ "unpromisc" \in Places /\ MayMove(dev[u], "unpromisc")
      /\ dev[u].at # "init" /\ dev[u].at # "close" /\ dev[u].at \in Undoing /\ "unpromisc" \in Undoing
  BY DEF Unisolate, IsAt, DevSafe, Places, Undoing, MayMove
<1>2. CASE ~dev[u].isolated /\ Skip(u, "unpromisc")
  <2>1. Undone(u)
    BY <1>1, <1>2 DEF Undone
  <2>2. Walks(u, "unpromisc")
    BY Zenon, <1>1, <1>2, <2>1, QuietWalks DEF Quiet, Skip
  <2> QED BY Zenon, <2>2 DEF Kinds
<1>3. CASE /\ dev[u].isolated
           /\ Undo(u, "unisolate", ethdev.up, [ethdev EXCEPT !.isolated = FALSE], "unpromisc")
  <2>1. \/ Walks(u, "unpromisc")
        \/ /\ ethdev.up /\ ethdev' = [ethdev EXCEPT !.isolated = FALSE]
           /\ Moves(u, "unpromisc") /\ PortOnly
    BY Zenon, <1>1, <1>3, GotoMoves DEF Undo, Walks, EnvSame, memVars, PortOnly
  <2>2. CASE Walks(u, "unpromisc")
    BY Zenon, <2>2 DEF Kinds
  <2>3. CASE /\ ethdev.up /\ ethdev' = [ethdev EXCEPT !.isolated = FALSE]
             /\ Moves(u, "unpromisc") /\ PortOnly
    <3>1. ~Bare(dev[u])
      BY <1>3 DEF Bare
    <3>2. /\ Holds(u) /\ IsPort(ethdev)
          /\ UserInv(dev[u], ethdev, region, mempools) /\ Progress(dev[u], region, mempools)
      BY Zenon, <1>1, <3>1, HolderIs
    <3>3. OneField(ethdev', ethdev, "isolated", FALSE)
      BY Zenon, <2>3, <3>2, FieldSet
    <3>4. IsPort(ethdev') /\ ethdev'.started = ethdev.started /\ ethdev'.up
      BY <2>3, <3>3 DEF OneField
    <3>5. UserInv(dev'[u], ethdev', region, mempools)
      BY Zenon, <1>1, <2>3, <3>2, UndoOwn DEF Moves
    <3>6. KeepsClean(u)
      BY Zenon, <1>1, <2>3, <3>2, <3>3, <3>4, UnisolateClean DEF KeepsClean, Moves
    <3>7. ~RunBy(dev[u], region)
      BY <1>1 DEF RunBy
    <3> QED BY Zenon, <1>1, <2>3, <3>2, <3>4, <3>5, <3>6, <3>7, UndoKind
  <2> QED BY <2>1, <2>2, <2>3
<1> QED BY Zenon, <1>2, <1>3 DEF Unisolate

LEMMA UnpromiscKind ==
    ASSUME DevSafe, NEW u \in Users, Unpromisc(u)
    PROVE  Kinds(u)
<1>1. /\ dev[u].at = "unpromisc" /\ DevTypes /\ "pools" \in Places /\ MayMove(dev[u], "pools")
      /\ dev[u].at # "init" /\ dev[u].at # "close" /\ dev[u].at \in Undoing /\ "pools" \in Undoing
  BY DEF Unpromisc, IsAt, DevSafe, Places, Undoing, MayMove
<1>2. CASE ~dev[u].promisc /\ Skip(u, "pools")
  <2>1. Undone(u)
    BY <1>1, <1>2 DEF Undone
  <2>2. Walks(u, "pools")
    BY Zenon, <1>1, <1>2, <2>1, QuietWalks DEF Quiet, Skip
  <2> QED BY Zenon, <2>2 DEF Kinds
<1>3. CASE /\ dev[u].promisc
           /\ Undo(u, "unpromisc", ethdev.up, [ethdev EXCEPT !.promisc = FALSE], "pools")
  <2>1. \/ Walks(u, "pools")
        \/ /\ ethdev.up /\ ethdev' = [ethdev EXCEPT !.promisc = FALSE]
           /\ Moves(u, "pools") /\ PortOnly
    BY Zenon, <1>1, <1>3, GotoMoves DEF Undo, Walks, EnvSame, memVars, PortOnly
  <2>2. CASE Walks(u, "pools")
    BY Zenon, <2>2 DEF Kinds
  <2>3. CASE /\ ethdev.up /\ ethdev' = [ethdev EXCEPT !.promisc = FALSE]
             /\ Moves(u, "pools") /\ PortOnly
    <3>1. ~Bare(dev[u])
      BY <1>3 DEF Bare
    <3>2. /\ Holds(u) /\ IsPort(ethdev)
          /\ UserInv(dev[u], ethdev, region, mempools) /\ Progress(dev[u], region, mempools)
      BY Zenon, <1>1, <3>1, HolderIs
    <3>3. OneField(ethdev', ethdev, "promisc", FALSE)
      BY Zenon, <2>3, <3>2, FieldSet
    <3>4. IsPort(ethdev') /\ ethdev'.started = ethdev.started /\ ethdev'.up
      BY <2>3, <3>3 DEF OneField
    <3>5. UserInv(dev'[u], ethdev', region, mempools)
      BY Zenon, <1>1, <2>3, <3>2, UndoOwn DEF Moves
    <3>6. KeepsClean(u)
      BY Zenon, <1>1, <2>3, <3>2, <3>3, <3>4, UnpromiscClean DEF KeepsClean, Moves
    <3>7. ~RunBy(dev[u], region)
      BY <1>1 DEF RunBy
    <3> QED BY Zenon, <1>1, <2>3, <3>2, <3>4, <3>5, <3>6, <3>7, UndoKind
  <2> QED BY <2>1, <2>2, <2>3
<1> QED BY Zenon, <1>2, <1>3 DEF Unpromisc, UndoesPromisc


-----------------------------------------------------------------------------
(* What holds whatever fails. *)

LEMMA IdsKept ==
    ASSUME DevTypes, Ids, NEW u \in Users, Updated(u), dev'[u].id = dev[u].id,
           dev[u].at # "out", dev'[u].at # "out", opens' = opens,
           region' \in {region, 0, dev[u].id},
           \A p \in mempools' : p \in mempools \/ p[1] = dev[u].id
    PROVE  Ids'
<1>1. dev[u].id # 0 /\ dev[u].id <= opens /\ dev[u].id \in Nat /\ opens \in Nat
  BY DEF Ids, DevTypes, Device
<1>2. \A v \in Users : dev'[v].id = dev[v].id /\ (dev'[v].at = "out" <=> dev[v].at = "out")
  BY Zenon DEF Updated
<1>3. region' <= opens
  BY <1>1 DEF Ids
<1>4. \A p \in mempools' : p[1] \in Nat \ {0} /\ p[1] <= opens /\ \E v \in Users : p[1] = dev[v].id
  <2> SUFFICES ASSUME NEW p \in mempools'
               PROVE  p[1] \in Nat \ {0} /\ p[1] <= opens /\ \E v \in Users : p[1] = dev[v].id
    OBVIOUS
  <2>1. CASE p \in mempools
    BY Zenon, <2>1 DEF Ids
  <2>2. CASE p[1] = dev[u].id
    BY Zenon, <1>1, <2>2
  <2> QED BY <2>1, <2>2
<1>5. \A v \in Users : dev'[v].id <= opens' /\ (dev'[v].id = 0 <=> dev'[v].at = "out")
  BY Zenon, <1>2 DEF Ids
<1>6. \A v, w \in Users : dev'[v].id = dev'[w].id /\ dev'[v].id # 0 => v = w
  BY <1>2 DEF Ids
<1>7. \A p \in mempools' : p[1] \in Nat \ {0} /\ p[1] <= opens' /\ \E v \in Users : p[1] = dev'[v].id
  BY Zenon, <1>2, <1>4
<1> QED BY <1>3, <1>5, <1>6, <1>7 DEF Ids

LEMMA IdsLeft ==
    ASSUME DevTypes, Ids, NEW u \in Users, Updated(u), dev'[u] = NoDevice,
           NoPools(dev[u], mempools), opens' = opens, region' \in {region, 0}, mempools' = mempools
    PROVE  Ids'
<1>0. NoDevice.id = 0 /\ NoDevice.at = "out" /\ opens \in Nat /\ 0 <= opens
  BY DEF NoDevice, Nobody, DevTypes
<1>1. \A v \in Users : dev'[v].id <= opens /\ (dev'[v].id = 0 <=> dev'[v].at = "out")
  BY <1>0 DEF Updated, Ids
<1>2. \A v, w \in Users : dev'[v].id = dev'[w].id /\ dev'[v].id # 0 => v = w
  BY <1>0 DEF Updated, Ids
<1>3. region' <= opens
  BY <1>0 DEF Ids
<1>4. ASSUME NEW p \in mempools PROVE \E v \in Users : p[1] = dev'[v].id
  <2>1. PICK v \in Users : p[1] = dev[v].id
    BY Zenon DEF Ids
  <2>2. v # u
    BY Zenon, <2>1 DEF NoPools
  <2> QED BY Zenon, <2>1, <2>2 DEF Updated
<1> QED BY Zenon, <1>1, <1>2, <1>3, <1>4 DEF Ids

\* Nobody else has the memzone that a goroutine holds.
LEMMA OneHolder ==
    ASSUME Ids, NEW u \in Users, dev[u].at # "out", NEW v \in Users, v # u
    PROVE  dev[v].id # dev[u].id
BY Zenon DEF Ids

LEMMA WalkSafe ==
    ASSUME DevSafe, NEW u \in Users, NEW to, Walks(u, to)
    PROVE  DevSafe'
<1>0. DevTypes /\ Ids /\ StartedBy /\ \A v \in Users : UserInv(dev[v], ethdev, region, mempools)
  BY DEF DevSafe
<1>1. EnvSame /\ MayMove(dev[u], to) /\ to \in Places
  BY DEF Walks
<1>2. Updated(u) /\ Moved(dev'[u], dev[u], to)
  BY DEF Walks, Moves
<1>3. DevTypes'
  BY Zenon, <1>0, <1>1, <1>2 DEF DevTypes, EnvSame, Updated, IsPort
<1>4. dev'[u].id = dev[u].id /\ dev'[u].at = to /\ to # "out" /\ dev[u].at # "out"
  BY <1>1, <1>2 DEF Moved, MayMove, Early, Held
<1>5. Ids'
  <2>1. opens' = opens /\ region' \in {region, 0, dev[u].id}
        /\ \A p \in mempools' : p \in mempools \/ p[1] = dev[u].id
    BY Zenon, <1>1 DEF EnvSame
  <2> QED BY Zenon, <1>0, <1>2, <1>4, <2>1, IdsKept
<1>6. ASSUME NEW v \in Users PROVE UserInv(dev'[v], ethdev', region', mempools')
  <2>1. CASE v = u
    <3>1. UserInv(dev'[u], ethdev, region, mempools)
      BY Zenon, <1>0, <1>1, <1>2, MoveOwn
    <3> QED BY Zenon, <1>1, <2>1, <3>1 DEF EnvSame
  <2>2. CASE v # u
    BY Zenon, <1>0, <1>1, <1>2, <2>2 DEF EnvSame, Updated
  <2> QED BY <2>1, <2>2
<1>7. StartedBy'
  <2> SUFFICES ASSUME "stop" \notin failed', ethdev'.started
               PROVE  \E v \in Users : RunBy(dev'[v], region')
    BY DEF StartedBy, RunBy
  <2>1. "stop" \notin failed /\ region' = region /\ ethdev' = ethdev
        /\ (dev[u].at = "close" => ~dev[u].started)
    BY <1>1 DEF Walks, Undone, EnvSame
  <2>2. PICK w \in Users : RunBy(dev[w], region)
    BY Zenon, <1>0, <2>1 DEF StartedBy
  <2>3. CASE w = u
    <3>1. RunBy(dev'[u], region)
      BY <1>1, <1>2, <2>1, <2>2, <2>3 DEF RunBy, MayMove, Moved, Early, Held
    <3> QED BY Zenon, <2>1, <3>1
  <2>4. CASE w # u
    BY Zenon, <1>2, <2>1, <2>2, <2>4 DEF Updated
  <2> QED BY <2>3, <2>4
<1> QED BY Zenon, <1>3, <1>5, <1>6, <1>7 DEF DevSafe, UserInv, Progress, Tables, Configured, Bare, NoPools

LEMMA LeaveSafe ==
    ASSUME DevSafe, NEW u \in Users, GoesOut(u)
    PROVE  DevSafe'
<1>0. DevTypes /\ Ids /\ StartedBy /\ \A v \in Users : UserInv(dev[v], ethdev, region, mempools)
  BY DEF DevSafe
<1>1. /\ Leave(u) /\ dev[u].at \in {"init", "probe", "memory", "remove"} /\ dev[u].at # "out"
      /\ opens' = opens /\ mempools' = mempools /\ bus' \in Nat /\ probes' \in Nat
      /\ region' = region \/ (region = dev[u].id /\ region' = 0)
      /\ ethdev' = ethdev \/ ethdev' = NoPort
  BY <1>0 DEF GoesOut, DevTypes, Holds
<1>2. Updated(u) /\ dev'[u] = NoDevice
  BY Zenon, <1>0, <1>1, LeaveMoves
<1>3. DevTypes'
  <2>1. IsPort(ethdev')
    BY Zenon, <1>0, <1>1, Ports DEF DevTypes
  <2>2. region' \in Nat
    BY <1>0, <1>1 DEF DevTypes
  <2> QED BY Zenon, <1>0, <1>1, <1>2, <2>1, <2>2 DEF DevTypes, Updated, IsPort
<1>4. NoPools(dev[u], mempools)
  BY <1>0, <1>1 DEF UserInv, Progress, Early
<1>5. Ids'
  <2>1. region' \in {region, 0}
    BY <1>1
  <2> QED BY Zenon, <1>0, <1>1, <1>2, <1>4, <2>1, IdsLeft
<1>6. ASSUME NEW v \in Users PROVE UserInv(dev'[v], ethdev', region', mempools')
  <2>1. CASE v = u
    <3>1. NoDevice.at = "out" /\ Bare(NoDevice) /\ NoDevice.id = 0
      BY DEF NoDevice, Bare, Nobody
    <3>2. NoPools(NoDevice, mempools)
      BY <1>0, <3>1 DEF NoPools, Ids
    <3> QED BY Zenon, <1>1, <1>2, <2>1, <3>1, <3>2, LeaveOwn
  <2>2. CASE v # u
    <3>1. UserInv(dev[v], ethdev', region, mempools)
      BY Zenon, <1>0, <1>1, PortReset, Ports
    <3>2. region' = region \/ dev[v].at = "out" \/ (region # dev[v].id /\ region' # dev[v].id)
      BY Zenon, <1>0, <1>1, <2>2 DEF Ids
    <3>3. UserInv(dev[v], ethdev', region', mempools)
      BY Zenon, <3>1, <3>2, RegionOfOther
    <3> QED BY Zenon, <1>1, <1>2, <2>2, <3>3 DEF Updated
  <2> QED BY <2>1, <2>2
<1>7. StartedBy'
  <2> SUFFICES ASSUME "stop" \notin failed', ethdev'.started
               PROVE  \E v \in Users : RunBy(dev'[v], region')
    BY DEF StartedBy, RunBy
  <2>1. "stop" \notin failed /\ ethdev.started
    BY Zenon, <1>1, Ports DEF GoesOut
  <2>2. PICK w \in Users : RunBy(dev[w], region)
    BY Zenon, <1>0, <2>1 DEF StartedBy
  <2>3. w # u
    BY <1>1, <2>2 DEF RunBy
  <2>4. region' = region
    BY Zenon, <1>0, <1>1, <2>2, <2>3, OneHolder DEF RunBy
  <2> QED BY Zenon, <1>2, <2>2, <2>3, <2>4 DEF Updated
<1> QED BY Zenon, <1>3, <1>5, <1>6, <1>7 DEF DevSafe, UserInv, Progress, Tables, Configured, Bare, NoPools

Fresh(id, n, promisc, steer) ==
    [NoDevice EXCEPT !.at = "init", !.id = id, !.queues = n,
                     !.wantPromisc = promisc, !.steer = steer]

IsFresh(d, id) == d \in Device /\ d.at = "init" /\ d.id = id /\ d.queues > 0 /\ Bare(d)

LEMMA NewDevice ==
    ASSUME NEW id \in Nat, NEW n \in Nat, n > 0, NEW promisc \in BOOLEAN, NEW steer \in BOOLEAN
    PROVE  IsFresh(Fresh(id, n, promisc, steer), id)
<1> DEFINE d == Fresh(id, n, promisc, steer)
<1>0. d = [NoDevice EXCEPT !.at = "init", !.id = id, !.queues = n,
                           !.wantPromisc = promisc, !.steer = steer]
  BY Zenon DEF Fresh
<1> HIDE DEF d
<1>1. NoDevice \in Device /\ Bare(NoDevice)
  BY DEF NoDevice, Device, Nobody, Places, Bare
<1>2. "init" \in Places
  BY DEF Places, Early
<1>3. d \in Device
  BY Zenon, <1>0, <1>1, <1>2 DEF Device
<1>4. d.at = "init" /\ d.id = id /\ d.queues = n
  BY <1>0, <1>1 DEF Device
<1>5. Bare(d)
  BY <1>0, <1>1 DEF Device, Bare
<1>6. IsFresh(d, id)
  BY <1>3, <1>4, <1>5 DEF IsFresh
<1> QED BY <1>6 DEF d

LEMMA OpenSafe ==
    ASSUME DevSafe, NEW u \in Users, OpenCall(u)
    PROVE  DevSafe' /\ Updated(u) /\ dev'[u].at = "init" /\ ~dev'[u].ready
<1>0. DevTypes /\ Ids /\ StartedBy /\ \A v \in Users : UserInv(dev[v], ethdev, region, mempools)
  BY DEF DevSafe
<1>1. dev[u].at = "out" /\ opens' = opens + 1 /\ UNCHANGED <<ethdev, region, mempools, bus, probes, failed>>
  BY DEF OpenCall, IsAt, envVars, portVars, memVars
<1>2. PICK d2 : /\ dev' = [dev EXCEPT ![u] = d2] /\ d2 \in Device
                /\ d2.at = "init" /\ d2.id = opens + 1 /\ d2.queues > 0 /\ Bare(d2)
  <2>1. PICK n \in 1 .. MaxQueues, promisc \in BOOLEAN, steer \in BOOLEAN :
            dev' = [dev EXCEPT ![u] = Fresh(opens', n, promisc, steer)]
    BY Zenon DEF OpenCall, Fresh
  <2>2. opens' \in Nat /\ n \in Nat /\ n > 0
    BY <1>0, <1>1, DpdkDeviceAssumption DEF DevTypes
  <2>3. IsFresh(Fresh(opens', n, promisc, steer), opens')
    BY Zenon, <2>2, NewDevice
  <2> QED BY Zenon, <1>1, <2>1, <2>3 DEF IsFresh
<1>3. Updated(u) /\ dev'[u] = d2
  BY Zenon, <1>0, <1>2 DEF DevTypes, Updated
<1>4. DevTypes'
  <2>1. opens' \in Nat
    BY <1>0, <1>1 DEF DevTypes
  <2> QED BY Zenon, <1>0, <1>1, <1>3, <2>1 DEF DevTypes, Updated, IsPort
<1>5. /\ \A v \in Users : dev[v].id \in Nat /\ dev[v].id <= opens
      /\ region <= opens /\ opens \in Nat /\ region \in Nat
      /\ \A p \in mempools : p[1] \in Nat /\ p[1] <= opens
  BY <1>0 DEF DevTypes, Ids, Device
<1>6. /\ opens + 1 # 0 /\ region # opens + 1 /\ \A v \in Users : dev[v].id # opens + 1
      /\ \A p \in mempools : p[1] # opens + 1
  BY <1>5
<1>7. Ids'
  <2>1. \A v \in Users : dev'[v].id <= opens' /\ (dev'[v].id = 0 <=> dev'[v].at = "out")
    <3> SUFFICES ASSUME NEW v \in Users
                 PROVE  dev'[v].id <= opens' /\ (dev'[v].id = 0 <=> dev'[v].at = "out")
      OBVIOUS
    <3>1. CASE v = u
      BY <1>1, <1>2, <1>3, <1>5, <3>1
    <3>2. CASE v # u
      <4>1. dev'[v] = dev[v]
        BY Zenon, <1>3, <3>2 DEF Updated
      <4>2. dev[v].id <= opens' /\ (dev[v].id = 0 <=> dev[v].at = "out")
        BY <1>0, <1>1, <1>5 DEF Ids
      <4> QED BY Zenon, <4>1, <4>2
    <3> QED BY <3>1, <3>2
  <2>2. \A v, w \in Users : dev'[v].id = dev'[w].id /\ dev'[v].id # 0 => v = w
    BY <1>0, <1>2, <1>3, <1>6 DEF Ids, Updated
  <2>3. region' <= opens' /\ \A p \in mempools' : p[1] \in Nat \ {0} /\ p[1] <= opens'
    BY <1>0, <1>1, <1>5 DEF Ids
  <2>4. ASSUME NEW p \in mempools PROVE \E v \in Users : p[1] = dev'[v].id
    <3>1. PICK v \in Users : p[1] = dev[v].id
      BY Zenon, <1>0 DEF Ids
    <3>2. v # u
      BY <1>0, <1>1, <3>1 DEF Ids
    <3> QED BY Zenon, <1>3, <3>1, <3>2 DEF Updated
  <2> QED BY Zenon, <1>1, <2>1, <2>2, <2>3, <2>4 DEF Ids
<1>8. ASSUME NEW v \in Users PROVE UserInv(dev'[v], ethdev', region', mempools')
  <2>1. CASE v = u
    <3>1. NoPools(d2, mempools) /\ region # d2.id
      BY Zenon, <1>2, <1>6 DEF NoPools
    <3> QED BY Zenon, <1>1, <1>2, <1>3, <2>1, <3>1, OpenOwn
  <2>2. CASE v # u
    BY Zenon, <1>0, <1>1, <1>3, <2>2 DEF Updated
  <2> QED BY <2>1, <2>2
<1>9. StartedBy'
  <2> SUFFICES ASSUME "stop" \notin failed', ethdev'.started
               PROVE  \E v \in Users : RunBy(dev'[v], region')
    BY DEF StartedBy, RunBy
  <2>1. PICK w \in Users : RunBy(dev[w], region)
    BY Zenon, <1>0, <1>1 DEF StartedBy
  <2>2. w # u
    BY <1>1, <2>1 DEF RunBy
  <2> QED BY Zenon, <1>1, <1>3, <2>1, <2>2 DEF Updated
<1>10. DevSafe'
  BY Zenon, <1>4, <1>7, <1>8, <1>9 DEF DevSafe, UserInv, Progress, Tables, Configured, Bare, NoPools
<1> QED BY Zenon, <1>2, <1>3, <1>10 DEF Bare

LEMMA ResetSafe ==
    ASSUME DevSafe, NEW u \in Users, NEW to, ComesUp(u, to)
    PROVE  DevSafe'
<1>0. DevTypes /\ Ids /\ StartedBy /\ \A v \in Users : UserInv(dev[v], ethdev, region, mempools)
  BY DEF DevSafe
<1>1. /\ UNCHANGED <<region, mempools, opens, failed>> /\ MayMove(dev[u], to) /\ to \in Places
      /\ ethdev' = NewPort /\ bus' \in Nat /\ probes' \in Nat
  BY DEF ComesUp
<1>2. Updated(u) /\ Moved(dev'[u], dev[u], to)
  BY DEF ComesUp, Moves
<1>3. IsPort(ethdev') /\ ~ethdev'.started /\ DOMAIN ethdev'.queues = {}
  BY Zenon, <1>1, Ports
<1>4. DevTypes'
  BY Zenon, <1>0, <1>1, <1>2, <1>3 DEF DevTypes, Updated, IsPort
<1>5. dev'[u].id = dev[u].id /\ dev'[u].at = to /\ to # "out" /\ dev[u].at # "out"
  BY <1>1, <1>2 DEF Moved, MayMove, Early, Held
<1>6. Ids'
  <2>1. opens' = opens /\ region' \in {region, 0, dev[u].id}
        /\ \A p \in mempools' : p \in mempools \/ p[1] = dev[u].id
    BY Zenon, <1>1
  <2> QED BY Zenon, <1>0, <1>2, <1>5, <2>1, IdsKept
<1>7. ASSUME NEW v \in Users PROVE UserInv(dev'[v], ethdev', region', mempools')
  <2>1. UserInv(dev'[v], ethdev, region, mempools)
    BY Zenon, <1>0, <1>1, <1>2, MoveOwn DEF Updated
  <2> QED BY Zenon, <1>1, <1>3, <2>1, PortReset
<1>8. StartedBy'
  BY Zenon, <1>3 DEF StartedBy
<1> QED BY Zenon, <1>4, <1>6, <1>7, <1>8 DEF DevSafe, UserInv, Progress, Tables, Configured, Bare, NoPools

LEMMA HolderSafe ==
    ASSUME DevSafe, NEW u \in Users, HoldersStep(u)
    PROVE  DevSafe'
<1>0. DevTypes /\ Ids /\ StartedBy /\ \A v \in Users : UserInv(dev[v], ethdev, region, mempools)
  BY DEF DevSafe
<1>1. /\ UNCHANGED <<probes, bus, region, mempools, opens, failed>> /\ IsPort(ethdev')
      /\ Updated(u) /\ dev'[u].id = dev[u].id /\ region = dev[u].id
  BY DEF HoldersStep, PortOnly, Holds
<1>2. dev[u].at # "out" /\ dev'[u].at # "out"
  BY DEF HoldersStep, Held, Undoing
<1>3. DevTypes'
  BY Zenon, <1>0, <1>1 DEF DevTypes, Updated, IsPort
<1>4. Ids'
  <2>1. opens' = opens /\ region' \in {region, 0, dev[u].id}
        /\ \A p \in mempools' : p \in mempools \/ p[1] = dev[u].id
    BY Zenon, <1>1
  <2> QED BY Zenon, <1>0, <1>1, <1>2, <2>1, IdsKept
<1>5. ASSUME NEW v \in Users PROVE UserInv(dev'[v], ethdev', region', mempools')
  <2>1. CASE v = u
    BY Zenon, <1>1, <2>1 DEF HoldersStep
  <2>2. CASE v # u
    <3>1. dev'[v] = dev[v] /\ region # dev[v].id
      BY Zenon, <1>0, <1>1, <1>2, <2>2, OneHolder DEF Updated
    <3>2. UserInv(dev[v], ethdev', region, mempools)
      BY Zenon, <1>0, <3>1, PortOfOther
    <3> QED BY Zenon, <1>1, <3>1, <3>2
  <2> QED BY <2>1, <2>2
<1>6. StartedBy'
  <2> SUFFICES ASSUME "stop" \notin failed', ethdev'.started
               PROVE  \E v \in Users : RunBy(dev'[v], region')
    BY DEF StartedBy, RunBy
  <2>1. CASE RunBy(dev'[u], region)
    BY Zenon, <1>1, <2>1
  <2>2. CASE ethdev.started /\ ~RunBy(dev[u], region)
    <3>1. PICK w \in Users : RunBy(dev[w], region)
      BY Zenon, <1>0, <1>1, <2>2 DEF StartedBy
    <3>2. w = u
      BY Zenon, <1>0, <1>1, <1>2, <3>1, OneHolder DEF RunBy
    <3> QED BY Zenon, <2>2, <3>1, <3>2
  <2> QED BY <2>1, <2>2 DEF HoldersStep
<1> QED BY Zenon, <1>3, <1>4, <1>5, <1>6 DEF DevSafe, UserInv, Progress, Tables, Configured, Bare, NoPools

LEMMA RegionSafe ==
    ASSUME DevSafe, NEW u \in Users, Reserves(u) \/ Releases(u)
    PROVE  DevSafe'
<1>0. DevTypes /\ Ids /\ StartedBy /\ \A v \in Users : UserInv(dev[v], ethdev, region, mempools)
  BY DEF DevSafe
<1>1. /\ UNCHANGED <<probes, bus, ethdev, mempools, opens>> /\ failed \subseteq failed'
      /\ Updated(u) /\ dev'[u].id = dev[u].id
  BY DEF Reserves, Releases, Moves, Moved
<1>2. /\ dev[u].at # "out" /\ dev'[u].at # "out" /\ dev[u].at \notin {"flow", "open", "close"}
      /\ region' = region \/ (region \in {0, dev[u].id} /\ region' \in {0, dev[u].id})
  BY DEF Reserves, Releases, Moves, Moved, Holds
<1>3. DevTypes'
  <2>1. region' \in Nat
    BY <1>0, <1>2 DEF DevTypes, Device
  <2> QED BY Zenon, <1>0, <1>1, <2>1 DEF DevTypes, Updated, IsPort
<1>4. Ids'
  <2>1. opens' = opens /\ region' \in {region, 0, dev[u].id}
        /\ \A p \in mempools' : p \in mempools \/ p[1] = dev[u].id
    BY <1>1, <1>2
  <2> QED BY Zenon, <1>0, <1>1, <1>2, <2>1, IdsKept
<1>5. UserInv(dev'[u], ethdev, region', mempools)
  <2>1. CASE Reserves(u)
    <3>1. UserInv(dev'[u], ethdev, dev'[u].id, mempools)
      BY Zenon, <1>0, <2>1, ReserveOwn DEF Reserves, Moves
    <3> QED BY Zenon, <1>1, <2>1, <3>1 DEF Reserves
  <2>2. CASE Releases(u)
    BY Zenon, <1>0, <2>2, RegionOwn DEF Releases, Moves
  <2> QED BY <2>1, <2>2
<1>6. ASSUME NEW v \in Users PROVE UserInv(dev'[v], ethdev', region', mempools')
  <2>1. CASE v = u
    BY Zenon, <1>1, <1>5, <2>1
  <2>2. CASE v # u
    <3>1. dev'[v] = dev[v] /\ dev[v].id # dev[u].id /\ (dev[v].id = 0 <=> dev[v].at = "out")
      BY Zenon, <1>0, <1>1, <1>2, <2>2, OneHolder DEF Updated, Ids
    <3>2. region' = region \/ dev[v].at = "out" \/ (region # dev[v].id /\ region' # dev[v].id)
      BY Zenon, <1>2, <3>1
    <3>3. UserInv(dev[v], ethdev, region', mempools)
      BY Zenon, <1>0, <3>2, RegionOfOther
    <3> QED BY Zenon, <1>1, <3>1, <3>3
  <2> QED BY <2>1, <2>2
<1>7. StartedBy'
  <2> SUFFICES ASSUME "stop" \notin failed', ethdev'.started
               PROVE  \E v \in Users : RunBy(dev'[v], region')
    BY DEF StartedBy, RunBy
  <2>1. PICK w \in Users : RunBy(dev[w], region)
    BY Zenon, <1>0, <1>1 DEF StartedBy
  <2>2. w # u /\ region = dev[w].id /\ dev[w].at # "out"
    BY <1>2, <2>1 DEF RunBy
  <2>3. region' = region
    BY Zenon, <1>0, <1>2, <2>2, OneHolder DEF Ids
  <2> QED BY Zenon, <1>1, <2>1, <2>2, <2>3 DEF Updated
<1> QED BY Zenon, <1>3, <1>4, <1>6, <1>7 DEF DevSafe, UserInv, Progress, Tables, Configured, Bare, NoPools

LEMMA PoolsSafe ==
    ASSUME DevSafe, NEW u \in Users, TakesPool(u) \/ FreesPools(u)
    PROVE  DevSafe'
<1>0. DevTypes /\ Ids /\ StartedBy /\ \A v \in Users : UserInv(dev[v], ethdev, region, mempools)
  BY DEF DevSafe
<1>1. /\ UNCHANGED <<probes, bus, ethdev, region, opens, failed>>
      /\ Updated(u) /\ dev'[u].id = dev[u].id
  BY DEF TakesPool, FreesPools, Moves, Moved
<1>2. dev[u].at # "out" /\ dev'[u].at # "out" /\ dev[u].at \notin {"flow", "open", "close"}
  BY DEF TakesPool, FreesPools, Moves, Moved
<1>3. DevTypes'
  BY Zenon, <1>0, <1>1 DEF DevTypes, Updated, IsPort
<1>4. \A p : p \in mempools' => p \in mempools \/ p[1] = dev[u].id
  <2>1. <<dev[u].id, dev[u].built + 1>>[1] = dev[u].id
    OBVIOUS
  <2> QED BY Zenon, <2>1 DEF TakesPool, FreesPools
<1>5. \A p : p \in mempools /\ p[1] # dev[u].id => p \in mempools'
  BY Zenon DEF TakesPool, FreesPools, Pools
<1>6. Ids'
  <2>1. opens' = opens /\ region' \in {region, 0, dev[u].id}
        /\ \A p \in mempools' : p \in mempools \/ p[1] = dev[u].id
    BY Zenon, <1>1, <1>4
  <2> QED BY Zenon, <1>0, <1>1, <1>2, <2>1, IdsKept
<1>7. UserInv(dev'[u], ethdev, region, mempools')
  <2>1. CASE TakesPool(u)
    <3>1. dev[u].built \in Nat
      BY <1>0 DEF DevTypes, Device
    <3> QED BY Zenon, <1>0, <2>1, <3>1, PoolOwn DEF TakesPool, Moves
  <2>2. CASE FreesPools(u)
    <3>1. NoPools(dev'[u], mempools')
      BY Zenon, <1>1, <2>2 DEF FreesPools, Pools, NoPools
    <3> QED BY Zenon, <1>0, <2>2, <3>1, FreeOwn DEF FreesPools, Moves
  <2> QED BY <2>1, <2>2
<1>8. ASSUME NEW v \in Users PROVE UserInv(dev'[v], ethdev', region', mempools')
  <2>1. CASE v = u
    BY Zenon, <1>1, <1>7, <2>1
  <2>2. CASE v # u
    <3>1. dev'[v] = dev[v] /\ dev[v].id # dev[u].id
      BY Zenon, <1>0, <1>1, <1>2, <2>2, OneHolder DEF Updated
    <3>2. PoolsSame(dev[v], mempools, mempools')
      BY Zenon, <1>4, <1>5, <3>1 DEF PoolsSame
    <3>3. UserInv(dev[v], ethdev, region, mempools')
      BY Zenon, <1>0, <3>2, PoolsOfOther
    <3> QED BY Zenon, <1>1, <3>1, <3>3
  <2> QED BY <2>1, <2>2
<1>9. StartedBy'
  <2> SUFFICES ASSUME "stop" \notin failed', ethdev'.started
               PROVE  \E v \in Users : RunBy(dev'[v], region')
    BY DEF StartedBy, RunBy
  <2>1. PICK w \in Users : RunBy(dev[w], region)
    BY Zenon, <1>0, <1>1 DEF StartedBy
  <2>2. w # u
    BY <1>2, <2>1 DEF RunBy
  <2> QED BY Zenon, <1>1, <2>1, <2>2 DEF Updated
<1> QED BY Zenon, <1>3, <1>6, <1>8, <1>9 DEF DevSafe, UserInv, Progress, Tables, Configured, Bare, NoPools

-----------------------------------------------------------------------------
(* What holds as long as no call of a Close has failed. *)

\* Clean, of the next state.
CleanNext ==
    /\ eal' = "off" => ethdev' = NoPort /\ \A u \in Users : dev'[u].at \in {"out", "init"}
    /\ ~ethdev'.up \/ bus' = 0 => ethdev' = NoPort
    /\ \A u \in Users : Removing(dev'[u]) => bus' # 0 /\ ethdev' = NoPort
    /\ \A u, v \in Users : Removing(dev'[u]) /\ Removing(dev'[v]) => u = v
    /\ \A u \in Users : CleanFor(dev'[u], ethdev', region')
    /\ region' = 0 => ~ethdev'.started /\ ~ethdev'.isolated /\ ~ethdev'.promisc
    /\ region' # 0 => \E u \in Users : region' = dev'[u].id /\ dev'[u].at \in Held \cup Undoing

LEMMA CleanIsNext == ASSUME CleanNext PROVE Clean'
BY Zenon DEF CleanNext, Clean, CleanFor, Configured, Removing, NoPort, Held, Undoing

\* A step that leaves the port and the memzone alone.
StaysPut(u) ==
    /\ Updated(u) /\ dev'[u].id = dev[u].id /\ eal # "off"
    /\ UNCHANGED <<eal, bus, ethdev, region>>
    /\ CleanFor(dev'[u], ethdev, region)
    /\ Removing(dev'[u]) => Removing(dev[u])
    /\ region = dev[u].id /\ dev[u].at \in Held \cup Undoing => dev'[u].at \in Held \cup Undoing

LEMMA StayCleans ==
    ASSUME Clean, NEW u \in Users, StaysPut(u)
    PROVE  Clean'
<1>1. \A v \in Users : v # u => dev'[v] = dev[v]
  BY DEF StaysPut, Updated
<1>2. \A v \in Users : Removing(dev'[v]) => Removing(dev[v])
  BY Zenon, <1>1 DEF StaysPut
<1>3. \A v \in Users : CleanFor(dev'[v], ethdev', region')
  BY Zenon, <1>1 DEF StaysPut, Clean
<1>4. region' # 0 => \E v \in Users : region' = dev'[v].id /\ dev'[v].at \in Held \cup Undoing
  <2> SUFFICES ASSUME region' # 0
               PROVE  \E v \in Users : region' = dev'[v].id /\ dev'[v].at \in Held \cup Undoing
    OBVIOUS
  <2>1. PICK v \in Users : region = dev[v].id /\ dev[v].at \in Held \cup Undoing
    BY Zenon DEF StaysPut, Clean
  <2>2. CASE v = u
    BY Zenon, <2>1, <2>2 DEF StaysPut
  <2>3. CASE v # u
    BY Zenon, <1>1, <2>1, <2>3 DEF StaysPut
  <2> QED BY <2>2, <2>3
<1>5. eal' # "off" /\ UNCHANGED <<bus, ethdev, region>>
  BY DEF StaysPut
<1>6. /\ \A v \in Users : Removing(dev'[v]) => bus' # 0 /\ ethdev' = NoPort
      /\ \A v, w \in Users : Removing(dev'[v]) /\ Removing(dev'[w]) => v = w
  BY Zenon, <1>2, <1>5 DEF Clean
<1>7. CleanNext
  BY Zenon, <1>3, <1>4, <1>5, <1>6 DEF Clean, CleanNext
<1> QED BY <1>7, CleanIsNext

LEMMA WalkCleans ==
    ASSUME DevSafe, DevClean, NEW u \in Users, NEW to, Walks(u, to)
    PROVE  DevClean'
<1> SUFFICES ASSUME failed' = {} PROVE Clean'
  BY DEF DevClean
<1>1. Undone(u) /\ failed = {}
  BY DEF Walks
<1>2. Clean /\ UserInv(dev[u], ethdev, region, mempools)
  BY <1>1 DEF DevClean, DevSafe
<1>3. /\ Updated(u) /\ Moved(dev'[u], dev[u], to) /\ MayMove(dev[u], to)
      /\ UNCHANGED <<eal, bus, ethdev, region>>
  BY DEF Walks, Moves, EnvSame
<1>4. CleanFor(dev'[u], ethdev, region) /\ (Removing(dev'[u]) => Removing(dev[u]))
  <2>1. CleanFor(dev[u], ethdev, region) /\ Progress(dev[u], region, mempools)
    BY <1>2 DEF Clean, UserInv
  <2> QED BY Zenon, <1>1, <1>3, <2>1, WalkClean DEF Undone
<1>5. dev[u].at \in Held \cup Undoing => dev'[u].at \in Held \cup Undoing
  BY <1>3 DEF MayMove, Moved, Early, Held, Undoing
<1>6. eal # "off"
  BY <1>2, <1>3 DEF Clean, Walks, MayMove, Early, Held
<1>7. dev'[u].id = dev[u].id
  BY <1>3 DEF Moved
<1>8. StaysPut(u)
  BY Zenon, <1>3, <1>4, <1>5, <1>6, <1>7 DEF StaysPut
<1> QED BY Zenon, <1>2, <1>8, StayCleans

LEMMA PoolsClean ==
    ASSUME DevSafe, DevClean, NEW u \in Users, TakesPool(u) \/ FreesPools(u)
    PROVE  DevClean'
<1> SUFFICES ASSUME failed' = {} PROVE Clean'
  BY DEF DevClean
<1>1. failed = {} /\ UNCHANGED <<eal, bus, ethdev, region>>
  BY DEF TakesPool, FreesPools
<1>2. Clean /\ UserInv(dev[u], ethdev, region, mempools)
  BY <1>1 DEF DevClean, DevSafe
<1>3. CleanFor(dev[u], ethdev, region) /\ Progress(dev[u], region, mempools)
  BY <1>2 DEF Clean, UserInv
<1>4. CleanFor(dev'[u], ethdev, region) /\ (Removing(dev'[u]) => Removing(dev[u]))
  <2>1. CASE FreesPools(u)
    BY Zenon, <1>3, <2>1, FreeClean DEF FreesPools, Moves
  <2>2. CASE TakesPool(u)
    <3>1. dev[u].at = "pool" /\ Moved(dev'[u], dev[u], "setup")
      BY <2>2 DEF TakesPool, Moves
    <3> QED BY <1>3, <3>1 DEF CleanFor, Moved, Configured, Held, Undoing, Removing, Progress
  <2> QED BY <2>1, <2>2
<1>5. Updated(u) /\ dev'[u].id = dev[u].id /\ dev'[u].at \in Held \cup Undoing
  BY DEF TakesPool, FreesPools, Moves, Moved, Held, Undoing
<1>6. eal # "off"
  BY <1>2 DEF Clean, TakesPool, FreesPools
<1>7. StaysPut(u)
  BY Zenon, <1>1, <1>4, <1>5, <1>6 DEF StaysPut
<1> QED BY Zenon, <1>2, <1>7, StayCleans

LEMMA OpenCleans ==
    ASSUME DevSafe, DevClean, NEW u \in Users, OpenCall(u)
    PROVE  DevClean'
<1> SUFFICES ASSUME failed' = {} PROVE Clean'
  BY DEF DevClean
<1>1. failed = {} /\ UNCHANGED <<eal, bus, ethdev, region>> /\ dev[u].at = "out"
  BY DEF OpenCall, envVars, portVars, memVars, IsAt
<1>2. Clean
  BY <1>1 DEF DevClean
<1>3. Updated(u) /\ dev'[u].at = "init" /\ ~dev'[u].ready
  BY Zenon, OpenSafe
<1>4. \A v \in Users : v # u => dev'[v] = dev[v]
  BY <1>3 DEF Updated
<1>5. \A v \in Users : Removing(dev'[v]) => Removing(dev[v])
  BY Zenon, <1>3, <1>4 DEF Removing
<1>6. "init" \notin Held \cup Undoing /\ "out" \notin Held \cup Undoing
  BY DEF Held, Undoing
<1>7. \A v \in Users : CleanFor(dev'[v], ethdev', region')
  BY Zenon, <1>1, <1>2, <1>3, <1>4, <1>6, ElsewhereClean DEF Clean
<1>8. region' # 0 => \E v \in Users : region' = dev'[v].id /\ dev'[v].at \in Held \cup Undoing
  BY Zenon, <1>1, <1>2, <1>4, <1>6 DEF Clean
<1>9. /\ \A v \in Users : Removing(dev'[v]) => bus' # 0 /\ ethdev' = NoPort
      /\ \A v, w \in Users : Removing(dev'[v]) /\ Removing(dev'[w]) => v = w
  BY Zenon, <1>1, <1>2, <1>5 DEF Clean
<1>10. eal' = "off" => ethdev' = NoPort /\ \A v \in Users : dev'[v].at \in {"out", "init"}
  BY Zenon, <1>1, <1>2, <1>3, <1>4 DEF Clean
<1>11. CleanNext
  BY Zenon, <1>1, <1>2, <1>7, <1>8, <1>9, <1>10 DEF Clean, CleanNext
<1> QED BY <1>11, CleanIsNext

LEMMA ResetCleans ==
    ASSUME DevSafe, DevClean, NEW u \in Users, NEW to, ComesUp(u, to)
    PROVE  DevClean'
<1> SUFFICES ASSUME failed' = {} PROVE Clean'
  BY DEF DevClean
<1>1. failed = {} /\ region' = region /\ ethdev' = NewPort /\ bus' # 0
  BY DEF ComesUp
<1>2. Clean /\ \A v \in Users : UserInv(dev[v], ethdev, region, mempools)
  BY <1>1 DEF DevClean, DevSafe
<1>3. ethdev = NoPort
  BY <1>2 DEF Clean, ComesUp
<1>4. /\ Updated(u) /\ Moved(dev'[u], dev[u], to) /\ dev[u].at \in Early /\ MayMove(dev[u], to)
      /\ eal' # "off"
  BY <1>2 DEF ComesUp, Moves, Clean
<1>5. \A v \in Users : ~Removing(dev[v])
  <2> SUFFICES ASSUME NEW v \in Users, Removing(dev[v]) PROVE FALSE
    OBVIOUS
  <2>1. bus # 0 /\ eal # "off"
    BY <1>2 DEF Clean, Removing
  <2> QED BY <2>1 DEF ComesUp
<1>6. ~dev[u].ready /\ region # dev[u].id
  BY <1>2, <1>4 DEF UserInv, Progress, Bare
<1>7. \A v \in Users : ~Removing(dev'[v])
  BY Zenon, <1>4, <1>5, <1>6 DEF Removing, Moved, Updated
<1>8. \A v \in Users : CleanFor(dev'[v], ethdev', region')
  <2> SUFFICES ASSUME NEW v \in Users PROVE CleanFor(dev'[v], ethdev', region')
    OBVIOUS
  <2>1. CASE v = u
    <3>1. UserInv(dev'[u], ethdev, region, mempools) /\ dev'[u].id = dev[u].id
      BY Zenon, <1>2, <1>4, MoveOwn DEF Moved
    <3> QED BY Zenon, <1>1, <1>6, <2>1, <3>1, OtherClean
  <2>2. CASE v # u
    <3>1. CleanFor(dev[v], ethdev, region) /\ dev'[v] = dev[v]
      BY Zenon, <1>2, <1>4, <2>2 DEF Clean, Updated
    <3>2. /\ ~ethdev.up /\ ethdev'.started = ethdev.started /\ ethdev'.isolated = ethdev.isolated
          /\ ethdev'.promisc = ethdev.promisc
      BY Zenon, <1>1, <1>3, Ports DEF IsPort
    <3> QED BY Zenon, <1>1, <3>1, <3>2, ResetClean
  <2> QED BY <2>1, <2>2
<1>9. region' # 0 => \E v \in Users : region' = dev'[v].id /\ dev'[v].at \in Held \cup Undoing
  BY Zenon, <1>1, <1>2, <1>4, <1>6 DEF Clean, Updated
<1>10. ethdev'.up /\ ~ethdev'.started /\ ~ethdev'.isolated /\ ~ethdev'.promisc
  BY Zenon, <1>1, Ports
<1>11. CleanNext
  BY Zenon, <1>1, <1>4, <1>7, <1>8, <1>9, <1>10 DEF CleanNext
<1> QED BY <1>11, CleanIsNext

LEMMA LeaveCleans ==
    ASSUME DevSafe, DevClean, NEW u \in Users, GoesOut(u)
    PROVE  DevClean'
<1> SUFFICES ASSUME failed' = {} PROVE Clean'
  BY DEF DevClean
<1>1. failed = {} /\ Leave(u) /\ dev[u].at \in {"init", "probe", "memory", "remove"}
  BY DEF GoesOut
<1>2. Clean /\ DevTypes /\ Ids /\ \A v \in Users : UserInv(dev[v], ethdev, region, mempools)
  BY <1>1 DEF DevClean, DevSafe
<1>3. Updated(u) /\ dev'[u] = NoDevice
  BY Zenon, <1>1, <1>2, LeaveMoves
<1>4. \A v \in Users : v # u => dev'[v] = dev[v]
  BY <1>3 DEF Updated
<1>5. NoDevice.at = "out" /\ ~NoDevice.ready
  BY DEF NoDevice
<1>6. dev[u].at = "remove" => Removing(dev[u]) /\ ethdev = NoPort
  BY <1>2 DEF UserInv, Progress, Removing, Clean
<1>7. ethdev' = ethdev /\ (bus' = bus \/ (dev[u].at = "remove" /\ bus' = 0))
  BY Zenon, <1>6 DEF GoesOut
<1>8. \A v \in Users : Removing(dev'[v]) => bus' # 0 /\ ethdev' = NoPort
  <2> SUFFICES ASSUME NEW v \in Users, Removing(dev'[v]) PROVE bus' # 0 /\ ethdev' = NoPort
    OBVIOUS
  <2>1. v # u
    BY <1>3, <1>5 DEF Removing
  <2>2. Removing(dev[v]) /\ ~Removing(dev[u])
    BY Zenon, <1>2, <1>4, <2>1 DEF Clean
  <2>3. bus # 0 /\ ethdev = NoPort
    BY Zenon, <1>2, <2>2 DEF Clean
  <2> QED BY Zenon, <1>6, <1>7, <2>2, <2>3
<1>9. \A v, w \in Users : Removing(dev'[v]) /\ Removing(dev'[w]) => v = w
  <2>1. \A v \in Users : Removing(dev'[v]) => Removing(dev[v])
    BY Zenon, <1>3, <1>4, <1>5 DEF Removing
  <2> QED BY Zenon, <1>2, <2>1 DEF Clean
<1>10. region' = region \/ (region = dev[u].id /\ region' = 0 /\ dev[u].at = "memory")
  BY DEF GoesOut, Holds
<1>11. \A v \in Users : CleanFor(dev'[v], ethdev', region')
  <2> SUFFICES ASSUME NEW v \in Users PROVE CleanFor(dev'[v], ethdev', region')
    OBVIOUS
  <2>1. CASE v = u
    <3>1. "out" \notin Held \cup Undoing
      BY DEF Held, Undoing
    <3> QED BY Zenon, <1>3, <1>5, <2>1, <3>1, ElsewhereClean
  <2>2. CASE v # u
    <3>1. CleanFor(dev[v], ethdev, region) /\ dev'[v] = dev[v] /\ dev[v].id # dev[u].id
      BY <1>1, <1>2, <1>4, <2>2, OneHolder DEF Clean
    <3>2. CASE region' = region
      BY Zenon, <1>7, <3>1, <3>2
    <3>3. CASE region = dev[u].id /\ region' = 0
      <4>1. CASE dev[v].at = "out"
        <5>1. dev[v].at \notin Held \cup Undoing
          BY <4>1 DEF Held, Undoing
        <5> QED BY Zenon, <3>1, <5>1, ElsewhereClean
      <4>2. CASE dev[v].at # "out"
        <5>1. region' # dev[v].id /\ region # dev[v].id
          BY Zenon, <1>2, <3>1, <3>3, <4>2 DEF Ids
        <5> QED BY Zenon, <1>2, <3>1, <5>1, OtherClean
      <4> QED BY <4>1, <4>2
    <3> QED BY Zenon, <1>10, <3>2, <3>3
  <2> QED BY <2>1, <2>2
<1>12. region' = 0 => ~ethdev'.started /\ ~ethdev'.isolated /\ ~ethdev'.promisc
  <2>1. CASE region' = region
    BY Zenon, <1>2, <1>7, <2>1 DEF Clean
  <2>2. CASE region = dev[u].id /\ dev[u].at = "memory"
    <3>1. CleanFor(dev[u], ethdev, region)
      BY <1>2 DEF Clean
    <3>2. ~ethdev.started /\ ~ethdev.isolated /\ ~ethdev.promisc
      BY <2>2, <3>1 DEF CleanFor, Undoing
    <3> QED BY Zenon, <1>7, <3>2
  <2> QED BY <1>10, <2>1, <2>2
<1>13. region' # 0 => \E v \in Users : region' = dev'[v].id /\ dev'[v].at \in Held \cup Undoing
  <2> SUFFICES ASSUME region' # 0
               PROVE  \E v \in Users : region' = dev'[v].id /\ dev'[v].at \in Held \cup Undoing
    OBVIOUS
  <2>1. region' = region
    BY <1>10
  <2>2. PICK v \in Users : region = dev[v].id /\ dev[v].at \in Held \cup Undoing
    BY Zenon, <1>2, <2>1 DEF Clean
  <2>3. v # u
    <3> SUFFICES ASSUME v = u PROVE FALSE
      OBVIOUS
    <3>1. dev[u].at = "memory"
      BY <1>1, <2>2 DEF Held, Undoing
    <3> QED BY <2>1, <2>2, <3>1 DEF GoesOut, Holds
  <2> QED BY Zenon, <1>4, <2>1, <2>2, <2>3
<1>14. ~ethdev'.up \/ bus' = 0 => ethdev' = NoPort
  BY Zenon, <1>2, <1>6, <1>7 DEF Clean
<1>15. eal' = "off" => ethdev' = NoPort /\ \A v \in Users : dev'[v].at \in {"out", "init"}
  <2>1. eal' = "off" => eal = "off"
    BY DEF GoesOut
  <2> QED BY Zenon, <1>2, <1>3, <1>4, <1>5, <1>7, <2>1 DEF Clean
<1>16. CleanNext
  BY Zenon, <1>8, <1>9, <1>11, <1>12, <1>13, <1>14, <1>15 DEF CleanNext
<1> QED BY <1>16, CleanIsNext

LEMMA RegionCleans ==
    ASSUME DevSafe, DevClean, NEW u \in Users, Reserves(u) \/ Releases(u)
    PROVE  DevClean'
<1> SUFFICES ASSUME failed' = {} PROVE Clean'
  BY DEF DevClean
<1>1. failed = {} /\ UNCHANGED <<eal, bus, ethdev>>
  BY DEF Reserves, Releases
<1>2. Clean /\ DevTypes /\ Ids /\ \A v \in Users : UserInv(dev[v], ethdev, region, mempools)
  BY <1>1 DEF DevClean, DevSafe
<1>3. Updated(u) /\ dev'[u].id = dev[u].id /\ (\A v \in Users : v # u => dev'[v] = dev[v])
      /\ dev[u].at \in {"region", "memory"}
  BY DEF Reserves, Releases, Moves, Moved, Updated
<1>4. dev[u].id # 0 /\ dev[u].at # "out"
  BY <1>2, <1>3 DEF Ids
<1>5. \/ Reserves(u) /\ region = 0 /\ region' = dev[u].id
      \/ Releases(u) /\ region = dev[u].id /\ region' = 0
  BY DEF Reserves, Releases, Holds
<1>6. ~ethdev.started /\ ~ethdev.isolated /\ ~ethdev.promisc
  <2>1. CASE Reserves(u)
    BY <1>2, <2>1 DEF Clean, Reserves
  <2>2. CASE Releases(u) /\ region = dev[u].id
    <3>1. CleanFor(dev[u], ethdev, region)
      BY <1>2 DEF Clean
    <3> QED BY <2>2, <3>1 DEF CleanFor, Undoing, Releases
  <2> QED BY <1>5, <2>1, <2>2
<1>7. CleanFor(dev'[u], ethdev, region') /\ (Removing(dev'[u]) => Removing(dev[u]))
  <2>1. CASE Reserves(u)
    <3>1. Moved(dev'[u], dev[u], "promisc") /\ Bare(dev[u])
      BY <1>2, <2>1 DEF Reserves, Moves, UserInv, Progress, Early
    <3>2. dev[u].promisc \in BOOLEAN /\ dev[u].isolated \in BOOLEAN /\ IsPort(ethdev)
      BY Zenon, <1>2 DEF DevTypes, Device
    <3>3. CleanFor(dev'[u], ethdev, region')
      BY Zenon, <1>6, <3>1, <3>2, ReserveClean
    <3>4. ~Removing(dev'[u])
      BY <3>1 DEF Moved, Removing
    <3> QED BY <3>3, <3>4
  <2>2. CASE Releases(u)
    <3>1. dev'[u].at = "remove" /\ Removing(dev[u])
      BY <2>2 DEF Releases, Moves, Moved, Removing
    <3>2. dev'[u].at \notin Held \cup Undoing
      BY <3>1 DEF Held, Undoing
    <3> QED BY Zenon, <3>1, <3>2, ElsewhereClean
  <2> QED BY <2>1, <2>2
<1>8. \A v \in Users : CleanFor(dev'[v], ethdev', region')
  <2> SUFFICES ASSUME NEW v \in Users PROVE CleanFor(dev'[v], ethdev', region')
    OBVIOUS
  <2>1. CASE v = u
    BY Zenon, <1>1, <1>7, <2>1
  <2>2. CASE v # u
    <3>1. dev'[v] = dev[v] /\ dev[v].id # dev[u].id
      BY Zenon, <1>2, <1>3, <1>4, <2>2, OneHolder
    <3>2. CASE dev[v].at = "out"
      <4>1. dev[v].at \notin Held \cup Undoing
        BY <3>2 DEF Held, Undoing
      <4> QED BY Zenon, <3>1, <4>1, ElsewhereClean
    <3>3. CASE dev[v].at # "out"
      <4>1. region' # dev[v].id /\ region # dev[v].id
        BY Zenon, <1>2, <1>5, <3>1, <3>3 DEF Ids
      <4> QED BY Zenon, <1>2, <3>1, <4>1, OtherClean
    <3> QED BY <3>2, <3>3
  <2> QED BY <2>1, <2>2
<1>9. region' # 0 => \E v \in Users : region' = dev'[v].id /\ dev'[v].at \in Held \cup Undoing
  <2>1. Reserves(u) => dev'[u].at \in Held
    BY DEF Reserves, Moves, Moved, Held
  <2> QED BY Zenon, <1>3, <1>5, <2>1
<1>10. /\ \A v \in Users : Removing(dev'[v]) => bus' # 0 /\ ethdev' = NoPort
       /\ \A v, w \in Users : Removing(dev'[v]) /\ Removing(dev'[w]) => v = w
  <2>1. \A v \in Users : Removing(dev'[v]) => Removing(dev[v])
    BY Zenon, <1>3, <1>7
  <2> QED BY Zenon, <1>1, <1>2, <2>1 DEF Clean
<1>11. eal' # "off"
  BY <1>1, <1>2, <1>3 DEF Clean
<1>12. CleanNext
  BY Zenon, <1>1, <1>2, <1>6, <1>8, <1>9, <1>10, <1>11 DEF Clean, CleanNext
<1> QED BY <1>12, CleanIsNext

LEMMA HolderCleans ==
    ASSUME DevSafe, DevClean, NEW u \in Users, HoldersStep(u), KeepsClean(u)
    PROVE  DevClean'
<1> SUFFICES ASSUME failed' = {} PROVE Clean'
  BY DEF DevClean
<1>1. /\ failed = {} /\ UNCHANGED <<eal, bus, region>> /\ region = dev[u].id
      /\ dev'[u].id = dev[u].id /\ (\A v \in Users : v # u => dev'[v] = dev[v])
      /\ dev[u].at \in Held \cup Undoing /\ dev'[u].at \in Held \cup Undoing
  BY DEF HoldersStep, PortOnly, Updated, Holds
<1>2. Clean /\ Ids /\ \A v \in Users : UserInv(dev[v], ethdev, region, mempools)
  BY <1>1 DEF DevClean, DevSafe
<1>3. /\ ethdev.up /\ CleanFor(dev'[u], ethdev', region)
      /\ (ethdev'.up /\ ~Removing(dev'[u])) \/ ethdev' = NoPort
  BY Zenon, <1>2 DEF KeepsClean, Clean
<1>4. ethdev # NoPort /\ bus # 0 /\ eal # "off" /\ \A v \in Users : ~Removing(dev[v])
  BY Zenon, <1>2, <1>3, Ports DEF Clean
<1>5. dev[u].at # "out" /\ dev[u].id # 0
  BY <1>1, <1>2 DEF Held, Undoing, Ids
<1>6. \A v \in Users : CleanFor(dev'[v], ethdev', region')
  <2> SUFFICES ASSUME NEW v \in Users PROVE CleanFor(dev'[v], ethdev', region')
    OBVIOUS
  <2>1. CASE v = u
    BY Zenon, <1>1, <1>3, <2>1
  <2>2. CASE v # u
    <3>1. dev'[v] = dev[v] /\ dev[v].id # region
      BY Zenon, <1>1, <1>2, <1>5, <2>2, OneHolder
    <3> QED BY Zenon, <1>1, <1>2, <3>1, OtherClean
  <2> QED BY <2>1, <2>2
<1>7. \A v \in Users : Removing(dev'[v]) => v = u /\ ethdev' = NoPort
  BY Zenon, <1>1, <1>3, <1>4
<1>8. CleanNext
  BY Zenon, <1>1, <1>3, <1>4, <1>5, <1>6, <1>7 DEF CleanNext
<1> QED BY <1>8, CleanIsNext

-----------------------------------------------------------------------------
(* The theorems about the device. *)

LEMMA KindKeeps ==
    ASSUME DevSafe, DevClean, NEW u \in Users, Kinds(u)
    PROVE  DevSafe' /\ DevClean'
<1>1. CASE OpenCall(u)
  BY Zenon, <1>1, OpenSafe, OpenCleans
<1>2. CASE GoesOut(u)
  BY Zenon, <1>2, LeaveSafe, LeaveCleans
<1>3. ASSUME NEW to, Walks(u, to) PROVE DevSafe' /\ DevClean'
  BY Zenon, <1>3, WalkSafe, WalkCleans
<1>4. ASSUME NEW to, ComesUp(u, to) PROVE DevSafe' /\ DevClean'
  BY Zenon, <1>4, ResetSafe, ResetCleans
<1>5. CASE HoldersStep(u) /\ KeepsClean(u)
  BY Zenon, <1>5, HolderSafe, HolderCleans
<1>6. CASE Reserves(u) \/ Releases(u)
  BY Zenon, <1>6, RegionSafe, RegionCleans
<1>7. CASE TakesPool(u) \/ FreesPools(u)
  BY Zenon, <1>7, PoolsSafe, PoolsClean
<1> QED BY Zenon, <1>1, <1>2, <1>3, <1>4, <1>5, <1>6, <1>7 DEF Kinds

LEMMA DevStarts == ASSUME DevInit PROVE DevSafe /\ DevClean
<1>1. /\ eal = "off" /\ probes = 0 /\ bus = 0 /\ ethdev = NoPort /\ region = 0 /\ mempools = {}
      /\ dev = [u \in Users |-> NoDevice] /\ opens = 0
  BY DEF DevInit, Nobody
<1>2. /\ NoDevice \in Device /\ NoDevice.at = "out" /\ NoDevice.id = 0 /\ Bare(NoDevice)
      /\ NoDevice.at \notin Held \cup Undoing /\ ~NoDevice.ready
  BY DEF NoDevice, Device, Nobody, Places, Bare, Held, Undoing
<1>3. \A u \in Users : dev[u] = NoDevice
  BY <1>1
<1>4. DevTypes
  BY <1>1, <1>2, Ports DEF DevTypes
<1>5. Ids
  <2>1. \A u \in Users : dev[u].id = 0 /\ dev[u].at = "out"
    BY Zenon, <1>2, <1>3
  <2> QED BY <1>1, <2>1 DEF Ids
<1>6. StartedBy
  BY Zenon, <1>1, Ports DEF StartedBy
<1>7. \A u \in Users : UserInv(dev[u], ethdev, region, mempools)
  <2>1. NoPools(NoDevice, mempools)
    BY <1>1 DEF NoPools
  <2> QED BY Zenon, <1>2, <1>3, <2>1, LeaveOwn
<1>8. Clean
  <2>1. \A u \in Users : CleanFor(dev[u], ethdev, region) /\ ~Removing(dev[u]) /\ dev[u].at = "out"
    BY Zenon, <1>2, <1>3, ElsewhereClean DEF Removing
  <2> QED BY Zenon, <1>1, <2>1, Ports DEF Clean
<1> QED BY <1>4, <1>5, <1>6, <1>7, <1>8 DEF DevSafe, DevClean

LEMMA DevSteps == ASSUME DevSafe, DevClean, [DevNext]_devVars PROVE DevSafe' /\ DevClean'
<1>1. CASE DevNext
  <2>1. PICK u \in Users : Opening(u) \/ ClosingDevice(u)
    BY <1>1 DEF DevNext
  <2>2. DevTypes
    BY DEF DevSafe
  <2>3. Opening(u) => Kinds(u)
    BY Zenon, <2>2, OpeningWalks, EalInitKind, ProbeKind, TakeHandleKind, ReserveKind,
       PromiscuousKind, IsolateKind, ConfigureKind, MempoolKind, SetupKind, StartKind
       DEF Opening, Kinds
  <2>4. ClosingDevice(u) => Kinds(u)
    BY Zenon, <2>2, OpeningWalks, StopKind, ClosePortKind, UnisolateKind, UnpromiscKind,
       FreePoolsKind, FreeRegionKind, RemoveKind
       DEF ClosingDevice, Kinds
  <2> QED BY Zenon, <2>1, <2>3, <2>4, KindKeeps
<1>2. CASE UNCHANGED devVars
  <2>1. UNCHANGED <<eal, probes, bus, ethdev, region, mempools, dev, opens, failed>>
    BY <1>2 DEF devVars, envVars, portVars, memVars
  <2>2. DevSafe'
    <3>1. DevTypes' /\ Ids' /\ StartedBy'
      BY <2>1 DEF DevSafe, DevTypes, IsPort, Ids, StartedBy, RunBy
    <3>2. \A u \in Users : UserInv(dev'[u], ethdev', region', mempools')
      BY Zenon, <2>1 DEF DevSafe
    <3> QED BY Zenon, <3>1, <3>2 DEF DevSafe, UserInv, Progress, Tables, Configured, Bare, NoPools
  <2>3. DevClean'
    <3>1. Clean => CleanNext
      BY Zenon, <2>1 DEF Clean, CleanNext
    <3> QED BY Zenon, <2>1, <3>1, CleanIsNext DEF DevClean
  <2> QED BY <2>2, <2>3
<1> QED BY <1>1, <1>2

\* The invariant implies DriverHasLiveMemory: the port runs, or is closed, under a
\* device that is ready, the table of a ready device is complete, and a device is
\* removed when its port is closed already.
LEMMA LiveMemory == ASSUME DevSafe, DevClean PROVE DriverHasLiveMemory
<1> SUFFICES ASSUME "stop" \notin failed,
                    ethdev.started \/ \E u \in Users : TearsDown(u) /\ ethdev.up,
                    NEW i \in DOMAIN ethdev.queues
             PROVE  ethdev.queues[i] \in mempools
  BY DEF DriverHasLiveMemory
<1>1. PICK u \in Users : dev[u].ready /\ Configured(dev[u])
  <2>1. CASE ethdev.started
    <3>1. PICK u \in Users : RunBy(dev[u], region)
      BY <2>1 DEF DevSafe, StartedBy
    <3>2. Progress(dev[u], region, mempools)
      BY DEF DevSafe, UserInv
    <3> QED BY <3>1, <3>2 DEF RunBy, Progress, Configured
  <2>2. CASE \E u \in Users : IsAt(u, "closeport")
    <3>1. PICK u \in Users : IsAt(u, "closeport")
      BY <2>2
    <3>2. Progress(dev[u], region, mempools)
      BY DEF DevSafe, UserInv
    <3> QED BY <3>1, <3>2 DEF IsAt, Progress, Configured
  <2>3. CASE \E u \in Users : IsAt(u, "remove") /\ failed = {} /\ ethdev.up
    <3>1. PICK u \in Users : dev[u].at = "remove"
      BY <2>3 DEF IsAt
    <3>2. Progress(dev[u], region, mempools)
      BY DEF DevSafe, UserInv
    <3>3. Removing(dev[u])
      BY <3>1, <3>2 DEF Progress, Removing
    <3>4. ethdev = NoPort
      BY Zenon, <2>3, <3>3 DEF DevClean, Clean
    <3> QED BY Zenon, <2>3, <3>4, Ports
  <2> QED BY Zenon, <2>1, <2>2, <2>3 DEF TearsDown
<1>2. Progress(dev[u], region, mempools) /\ Tables(dev[u], ethdev, mempools)
  BY DEF DevSafe, UserInv
<1>3. dev[u].built = dev[u].queues /\ dev[u].queues \in Nat
  BY <1>1, <1>2 DEF Progress, DevSafe, DevTypes, Device
<1>4. i \in 1 .. dev[u].queues /\ (i <= dev[u].built => ethdev.queues[i] = <<dev[u].id, i>>)
  BY Zenon, <1>1, <1>2 DEF Tables
<1>5. i <= dev[u].built /\ i \in 1 .. dev[u].built
  BY <1>3, <1>4
<1> QED BY Zenon, <1>1, <1>2, <1>4, <1>5 DEF Tables

\* Both together imply PortAsReported.
LEMMA AsReported == ASSUME DevSafe, DevClean PROVE PortAsReported
<1> SUFFICES ASSUME failed = {}
             PROVE  /\ \A u \in Users : IsAt(u, "open") =>
                          /\ ethdev = [up |-> TRUE, started |-> TRUE, isolated |-> dev[u].isolated,
                                       promisc |-> dev[u].promisc,
                                       queues |-> [i \in 1 .. dev[u].queues |-> Pool(u, i)]]
                          /\ Holds(u) /\ Pools(u) = {Pool(u, i) : i \in 1 .. dev[u].queues}
                    /\ (\A u \in Users : IsAt(u, "out")) =>
                          /\ ~ethdev.started /\ ~ethdev.isolated /\ ~ethdev.promisc
                          /\ region = Nobody /\ mempools = {}
  BY Zenon DEF PortAsReported
<1>1. Clean /\ DevTypes /\ Ids /\ \A u \in Users : UserInv(dev[u], ethdev, region, mempools)
  BY DEF DevClean, DevSafe
<1>2. ASSUME NEW u \in Users, IsAt(u, "open")
      PROVE  /\ ethdev = [up |-> TRUE, started |-> TRUE, isolated |-> dev[u].isolated,
                          promisc |-> dev[u].promisc,
                          queues |-> [i \in 1 .. dev[u].queues |-> Pool(u, i)]]
             /\ Holds(u) /\ Pools(u) = {Pool(u, i) : i \in 1 .. dev[u].queues}
  <2>1. /\ dev[u].at = "open" /\ dev[u].at \in Held /\ Configured(dev[u])
        /\ dev[u].at \in {"flow", "open", "close"} /\ dev[u].at # "setup"
        /\ CleanFor(dev[u], ethdev, region)
    BY <1>1, <1>2 DEF IsAt, Held, Configured, Clean
  <2>2. Progress(dev[u], region, mempools) /\ Tables(dev[u], ethdev, mempools)
    BY <1>1 DEF UserInv
  <2>3. region = dev[u].id /\ dev[u].started /\ dev[u].built = dev[u].queues
    BY <2>1, <2>2 DEF Progress
  <2>4. /\ ethdev.up /\ ethdev.started /\ ethdev.isolated = dev[u].isolated
        /\ ethdev.promisc = dev[u].promisc /\ DOMAIN ethdev.queues = 1 .. dev[u].queues
    BY Zenon, <2>1, <2>3 DEF CleanFor
  <2>5. dev[u].queues \in Nat /\ \A i \in 1 .. dev[u].queues : i <= dev[u].queues
    BY <1>1 DEF DevTypes, Device
  <2>6. \A i \in 1 .. dev[u].queues : ethdev.queues[i] = Pool(u, i)
    BY Zenon, <2>1, <2>2, <2>3, <2>4, <2>5 DEF Tables, Pool
  <2>7. ethdev.queues = [i \in 1 .. dev[u].queues |-> Pool(u, i)]
    <3>1. ethdev.queues = [i \in 1 .. dev[u].queues |-> ethdev.queues[i]]
      BY Zenon, <1>1, <2>4 DEF DevTypes, IsPort
    <3> QED BY <2>6, <3>1
  <2>8. ethdev = [up |-> TRUE, started |-> TRUE, isolated |-> dev[u].isolated,
                  promisc |-> dev[u].promisc,
                  queues |-> [i \in 1 .. dev[u].queues |-> Pool(u, i)]]
    <3>1. ethdev.up = TRUE /\ ethdev.started = TRUE
      BY Zenon, <1>1, <2>4 DEF DevTypes, IsPort
    <3>2. ethdev = [up |-> ethdev.up, started |-> ethdev.started, isolated |-> ethdev.isolated,
                    promisc |-> ethdev.promisc, queues |-> ethdev.queues]
      BY Zenon, <1>1 DEF DevTypes, IsPort
    <3> QED BY Zenon, <2>4, <2>7, <3>1, <3>2
  <2>9. Pools(u) = {Pool(u, i) : i \in 1 .. dev[u].queues}
    <3>1. \A i \in 1 .. dev[u].queues : Pool(u, i) \in mempools
      BY Zenon, <2>1, <2>2, <2>3 DEF Tables, Pool
    <3>2. \A i : Pool(u, i)[1] = dev[u].id
      BY DEF Pool
    <3>3. \A p \in mempools : p[1] = dev[u].id => p \in {Pool(u, i) : i \in 1 .. dev[u].queues}
      BY Zenon, <2>1, <2>2, <2>3 DEF Tables, Pool
    <3> QED BY Zenon, <3>1, <3>2, <3>3 DEF Pools
  <2> QED BY <2>3, <2>8, <2>9 DEF Holds
<1>3. ASSUME \A u \in Users : IsAt(u, "out")
      PROVE  /\ ~ethdev.started /\ ~ethdev.isolated /\ ~ethdev.promisc
             /\ region = Nobody /\ mempools = {}
  <2>1. \A u \in Users : dev[u].at = "out" /\ dev[u].id = 0
    BY <1>1, <1>3 DEF IsAt, Ids
  <2>2. "out" \notin Held \cup Undoing
    BY DEF Held, Undoing
  <2>3. region = 0
    BY Zenon, <1>1, <2>1, <2>2 DEF Clean
  <2>4. ASSUME NEW p \in mempools PROVE FALSE
    BY <1>1, <2>1 DEF Ids
  <2> QED BY <1>1, <2>3, <2>4 DEF Clean, Nobody
<1> QED BY Zenon, <1>2, <1>3

\* Whatever fails but the stopping of the port, the driver is never run over, nor
\* asked to close, a queue whose mempool is gone; nor does removing the device close
\* one, as long as no call of a Close has failed (dpdk/device.go, Close's portReady
\* and Open's retries).
THEOREM DriverMemoryLives == DevSpec => []DriverHasLiveMemory
<1>1. DevInit => DevSafe /\ DevClean
  BY DevStarts
<1>2. DevSafe /\ DevClean /\ [DevNext]_devVars => (DevSafe /\ DevClean)'
  BY DevSteps
<1>3. DevSafe /\ DevClean => DriverHasLiveMemory
  BY LiveMemory
<1> QED BY <1>1, <1>2, <1>3, PTL DEF DevSpec

\* As long as no call of a Close has failed, an open device has the port, the queues,
\* the memory and the modes it reports, and with no device open nothing is left.
THEOREM PortStaysAsReported == DevSpec => []PortAsReported
<1>1. DevInit => DevSafe /\ DevClean
  BY DevStarts
<1>2. DevSafe /\ DevClean /\ [DevNext]_devVars => (DevSafe /\ DevClean)'
  BY DevSteps
<1>3. DevSafe /\ DevClean => PortAsReported
  BY AsReported
<1> QED BY <1>1, <1>2, <1>3, PTL DEF DevSpec

=============================================================================
