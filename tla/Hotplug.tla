-------------------------------- MODULE Hotplug --------------------------------
(***************************************************************************)
(* The hot-plug core of serial_bridge (src/src/main.cpp with the parts of  *)
(* port_scanner.cpp and bridge_node.cpp it drives): the scanner thread,    *)
(* the executor running the callbacks of every SerialBridgeNode, the main  *)
(* thread that shuts both down, and the devices a user plugs, unplugs and  *)
(* moves between ports meanwhile.                                          *)
(*                                                                         *)
(* map_mutex is left out: only the scanner thread ever takes it.  Time is  *)
(* left out too (BridgeLink has it): an interval or a timeout that may     *)
(* have elapsed is a choice, and fairness says that it eventually does.    *)
(***************************************************************************)
EXTENDS Naturals

CONSTANTS
  Device,     \* physical devices
  Id,         \* device IDs, ordered as std::map orders them
  Port,       \* serial ports, numbered in the order glob() lists them
  Excluded,   \* the parameter excluded_ports
  Flashings,  \* the ways DEVICE_IDs are flashed into the devices
  NoPort,     \* no port / no node
  Closed,     \* fd_ = -1
  Gone,       \* a descriptor whose device has been unplugged
  MaxEvents   \* MaxEvents[f]: bound on the events with flashing f: a device is
              \* plugged in or unplugged, hangs or resumes, does not open, or
              \* damages the frame being scanned

ASSUME IdAssumption     == Id \subseteq Nat
ASSUME PortAssumption   == Port \subseteq Nat /\ NoPort \notin Port \cup Excluded
ASSUME FlashingAssumption == Flashings \subseteq [Device -> Id]
ASSUME FdAssumption     == Closed # Gone /\ {Closed, Gone} \cap Device = {}
ASSUME EventsAssumption == MaxEvents \in [Flashings -> Nat]

VARIABLES
  idOf,       \* idOf[d]: DEVICE_ID of device d
  at,         \* at[d]: the port device d is plugged into
  silent,     \* the devices whose firmware does not send
  events,     \* number of environment events so far
  ok,         \* rclcpp::ok()
  proc,       \* main thread: "spin", "join", "done"; or "crashed"
  scanPc,     \* scanner: "wait" "scan" "read" "merge" "remove" "replace" "done"
  todo,       \* ports of the glob list the scan has still to try
  scanPort,   \* the port the scanner has open
  scanFd,     \* its descriptor
  found,      \* result of detect_serial_devices: found[id] = port
  known,      \* known_ports
  executing,  \* IDs whose node is in the executor
  port,       \* port[i]: port_ of node_map[i]; NoPort: i is not in node_map
  fd,         \* fd[i]: fd_ of node_map[i]
  connected,  \* connected[i]: connected_ of node_map[i]
  stage,      \* stage[i]: the callback of node_map[i] being executed
  orphans,    \* destroyed nodes one of whose callbacks is still executing
  leaked      \* descriptors still open whose node has been destroyed

envVars  == <<idOf, at, silent, events>>
scanVars == <<scanPc, todo, scanPort, scanFd, found>>
nodeVars == <<port, fd, connected, stage>>
mapVars  == <<known, executing>>
lostVars == <<orphans, leaked>>
vars == <<envVars, ok, proc, scanVars, mapVars, nodeVars, lostVars>>

Fd    == Device \cup {Closed, Gone}
Stage == {"idle", "update", "opened", "tx"}

Alive == proc \in {"spin", "join"}
Plugged == {at[d] : d \in Device} \ {NoPort}

(* open() of port p returns f: the device that is there, or failure.  On a *)
(* present device it may fail too (permissions not yet set by udev): that  *)
(* is an event.                                                            *)
Opens(p, f) ==
  \/ f \in Device /\ at[f] = p /\ UNCHANGED events
  \/ f = Closed /\ p \notin Plugged /\ UNCHANGED events
  \/ f = Closed /\ p \in Plugged /\ events < MaxEvents[idOf] /\ events' = events + 1

TypeOK ==
  /\ idOf \in Flashings
  /\ at \in [Device -> Port \cup {NoPort}]
  /\ silent \subseteq Device
  /\ events \in Nat
  /\ ok \in BOOLEAN
  /\ proc \in {"spin", "join", "done", "crashed"}
  /\ scanPc \in {"wait", "scan", "read", "merge", "remove", "replace", "done"}
  /\ todo \subseteq Port
  /\ scanPort \in Port \cup {NoPort}
  /\ scanFd \in Fd
  /\ found \in [Id -> Port \cup {NoPort}]
  /\ known \subseteq Port
  /\ executing \subseteq Id
  /\ port \in [Id -> Port \cup {NoPort}]
  /\ fd \in [Id -> Fd]
  /\ connected \in [Id -> BOOLEAN]
  /\ stage \in [Id -> Stage]
  /\ orphans \subseteq
       [port : Port \cup {NoPort}, fd : Fd, stage : Stage \ {"idle"}]
  /\ leaked \subseteq Device \cup {Gone}

Init ==
  /\ idOf \in Flashings
  /\ at \in [Device -> Port \cup {NoPort}]
  /\ \A d, e \in Device : at[d] = at[e] /\ at[d] # NoPort => d = e
  /\ silent = {}
  /\ events = 0
  /\ ok = TRUE
  /\ proc = "spin"
  /\ scanPc = "wait"
  /\ todo = {}
  /\ scanPort = NoPort
  /\ scanFd = Closed
  /\ found = [i \in Id |-> NoPort]
  /\ known = {}
  /\ executing = {}
  /\ port = [i \in Id |-> NoPort]
  /\ fd = [i \in Id |-> Closed]
  /\ connected = [i \in Id |-> FALSE]
  /\ stage = [i \in Id |-> "idle"]
  /\ orphans = {}
  /\ leaked = {}

-------------------------------------------------------------------------------
(* The environment: users and firmware.                                    *)

Plug(d, p) ==
  /\ events < MaxEvents[idOf]
  /\ at[d] = NoPort
  /\ p \notin Plugged
  /\ at' = [at EXCEPT ![d] = p]
  /\ events' = events + 1
  /\ UNCHANGED <<idOf, silent, ok, proc, scanVars, mapVars, nodeVars, lostVars>>

(* Descriptor f once device d has been unplugged: it never comes back to   *)
(* life, even when d returns to the same port.                             *)
Unplugged(d, f) == IF f = d THEN Gone ELSE f

Unplug(d) ==
  /\ events < MaxEvents[idOf]
  /\ at[d] # NoPort
  /\ at' = [at EXCEPT ![d] = NoPort]
  /\ events' = events + 1
  /\ scanFd' = Unplugged(d, scanFd)
  /\ fd' = [i \in Id |-> Unplugged(d, fd[i])]
  /\ orphans' = {[o EXCEPT !.fd = Unplugged(d, @)] : o \in orphans}
  /\ leaked' = {Unplugged(d, f) : f \in leaked}
  /\ UNCHANGED <<idOf, silent, ok, proc, scanPc, todo, scanPort, found, mapVars,
                 port, connected, stage>>

(* The firmware of d stops sending, or sends again.                        *)
Hang(d) ==
  /\ events < MaxEvents[idOf]
  /\ d \notin silent
  /\ silent' = silent \cup {d}
  /\ events' = events + 1
  /\ UNCHANGED <<idOf, at, ok, proc, scanVars, mapVars, nodeVars, lostVars>>

Resume(d) ==
  /\ events < MaxEvents[idOf]
  /\ d \in silent
  /\ silent' = silent \ {d}
  /\ events' = events + 1
  /\ UNCHANGED <<idOf, at, ok, proc, scanVars, mapVars, nodeVars, lostVars>>

Environment ==
  \/ \E d \in Device, p \in Port : Plug(d, p)
  \/ \E d \in Device : Unplug(d) \/ Hang(d) \/ Resume(d)

-------------------------------------------------------------------------------
(* The executor: callbacks of the nodes.  A node's timer and subscription  *)
(* are in one mutually exclusive callback group, so at most one runs.      *)

CallbackBegins(i, cb) ==
  /\ proc = "spin" /\ ok
  /\ i \in executing
  /\ stage[i] = "idle"
  /\ cb \in {"update", "tx"}
  /\ stage' = [stage EXCEPT ![i] = cb]
  /\ UNCHANGED <<envVars, ok, proc, scanVars, mapVars, port, fd, connected,
                 lostVars>>

(* The node of i is in the body of callback cb.                            *)
Running(i, cb) == Alive /\ port[i] # NoPort /\ stage[i] = cb

(* The callback returns and leaves the connection as it is: interval not   *)
(* elapsed, port not opened, data read or none, a message sent or dropped. *)
CallbackReturns(i) ==
  /\ Running(i, "update") \/ Running(i, "tx")
  /\ stage' = [stage EXCEPT ![i] = "idle"]
  /\ UNCHANGED <<envVars, ok, proc, scanVars, mapVars, port, fd, connected,
                 lostVars>>

(* update(), fd_ < 0, interval elapsed: try_open_port up to a successful   *)
(* open(); when it fails the callback returns (CallbackReturns).           *)
UpdateOpens(i) ==
  /\ Running(i, "update")
  /\ fd[i] = Closed
  /\ \E f \in Device :
       /\ Opens(port[i], f)
       /\ fd' = [fd EXCEPT ![i] = f]
       /\ stage' = [stage EXCEPT ![i] = "opened"]
  /\ UNCHANGED <<idOf, at, silent, ok, proc, scanVars, mapVars, port, connected,
                 lostVars>>

(* The rest of try_open_port: tcsetattr, tcflush, connected_ = true.       *)
UpdateConnects(i) ==
  /\ Running(i, "opened")
  /\ connected' = [connected EXCEPT ![i] = TRUE]
  /\ stage' = [stage EXCEPT ![i] = "idle"]
  /\ UNCHANGED <<envVars, ok, proc, scanVars, mapVars, port, fd, lostVars>>

(* The device behind fd_ is unplugged (read or write fails with EIO,       *)
(* ENODEV or ENXIO, or read returns 0 until rx_timeout) or silent for      *)
(* rx_timeout: close_port().                                               *)
CallbackCloses(i) ==
  /\ \/ Running(i, "update") /\ fd[i] \in silent \cup {Gone}
     \/ Running(i, "tx") /\ fd[i] = Gone
  /\ fd' = [fd EXCEPT ![i] = Closed]
  /\ connected' = [connected EXCEPT ![i] = FALSE]
  /\ stage' = [stage EXCEPT ![i] = "idle"]
  /\ UNCHANGED <<envVars, ok, proc, scanVars, mapVars, port, lostVars>>

(* A callback of a destroyed node goes on.  SerialBridgeNode has no        *)
(* destructor that closes fd_, and the callback is bound to a raw "this":  *)
(* from here on the behaviour is undefined.  As long as the freed memory   *)
(* is intact it continues as before; it may also bring the process down.   *)
OrphanReturns(o) ==
  /\ Alive
  /\ orphans' = orphans \ {o}
  /\ leaked' = leaked \cup ({o.fd} \ {Closed})
  /\ UNCHANGED <<envVars, ok, proc, scanVars, mapVars, nodeVars>>

OrphanCloses(o) ==
  /\ Alive
  /\ \/ o.stage = "update" /\ o.fd \in silent \cup {Gone}
     \/ o.stage = "tx" /\ o.fd = Gone
  /\ orphans' = orphans \ {o}
  /\ UNCHANGED <<envVars, ok, proc, scanVars, mapVars, nodeVars, leaked>>

OrphanOpens(o) ==
  /\ Alive
  /\ o.stage = "update"
  /\ o.fd = Closed
  /\ \E f \in Device :
       /\ Opens(o.port, f)
       /\ orphans' = (orphans \ {o})
                       \cup {[port |-> o.port, fd |-> f, stage |-> "opened"]}
  /\ UNCHANGED <<idOf, at, silent, ok, proc, scanVars, mapVars, nodeVars, leaked>>

OrphanCrashes(o) ==
  /\ Alive
  /\ proc' = "crashed"
  /\ UNCHANGED <<envVars, ok, scanVars, mapVars, nodeVars, lostVars>>

Orphan(o) ==
  OrphanReturns(o) \/ OrphanCloses(o) \/ OrphanOpens(o) \/ OrphanCrashes(o)

Executor ==
  \/ \E i \in Id :
       \/ \E cb \in {"update", "tx"} : CallbackBegins(i, cb)
       \/ CallbackReturns(i) \/ UpdateOpens(i) \/ UpdateConnects(i)
       \/ CallbackCloses(i)
  \/ \E o \in orphans : Orphan(o)

-------------------------------------------------------------------------------
(* The scanner thread.                                                     *)

(* running && rclcpp::ok(), the condition of its loop.                     *)
KeepsScanningForever == TRUE
KeepsScanning == proc = "spin" /\ ok

(* The ports detect_serial_devices tries: skip = known_ports.              *)
ToScanKnownToo == Plugged \ Excluded
ToScanExcludedToo == Plugged \ known
ToScan == (Plugged \ known) \ Excluded

ScanBegins ==
  /\ Alive /\ scanPc = "wait"
  /\ KeepsScanning
  /\ todo' = ToScan
  /\ found' = [i \in Id |-> NoPort]
  /\ scanPc' = "scan"
  /\ UNCHANGED <<envVars, ok, proc, scanPort, scanFd, mapVars, nodeVars,
                 lostVars>>

(* The next port of the list is opened; one that does not open is passed.  *)
ScanOpens(p) ==
  /\ Alive /\ scanPc = "scan"
  /\ p \in todo /\ \A q \in todo : p <= q
  /\ todo' = todo \ {p}
  /\ \E f \in Device \cup {Closed} :
       /\ Opens(p, f)
       /\ IF f = Closed THEN UNCHANGED <<scanPc, scanPort, scanFd>>
          ELSE /\ scanPc' = "read"
               /\ scanPort' = p
               /\ scanFd' = f
  /\ UNCHANGED <<idOf, at, silent, ok, proc, found, mapVars, nodeVars, lostVars>>

ScanCloses ==
  /\ scanPc' = "scan"
  /\ scanPort' = NoPort
  /\ scanFd' = Closed
  /\ UNCHANGED <<idOf, at, silent, ok, proc, todo, mapVars, nodeVars, lostVars>>

(* read_frame returns a valid frame of the device: result[frame.id] = p.   *)
(* A second device with the same ID overwrites the first.                  *)
ScanDetects ==
  /\ Alive /\ scanPc = "read"
  /\ scanFd \in Device \ silent
  /\ found' = [found EXCEPT ![idOf[scanFd]] = scanPort]
  /\ UNCHANGED events
  /\ ScanCloses

(* read_frame gives up: the device is gone or silent; a frame damaged on   *)
(* the line is an event.                                                   *)
ScanFails ==
  /\ Alive /\ scanPc = "read"
  /\ IF scanFd \in Device \ silent
     THEN events < MaxEvents[idOf] /\ events' = events + 1
     ELSE UNCHANGED events
  /\ UNCHANGED found
  /\ ScanCloses

ScanEnds ==
  /\ Alive /\ scanPc = "scan" /\ todo = {}
  /\ scanPc' = "merge"
  /\ UNCHANGED <<envVars, ok, proc, todo, scanPort, scanFd, found, mapVars,
                 nodeVars, lostVars>>

(* known_ports.insert and .erase.                                          *)
KnownWithNone(p) == known
KnownWithLast(p) == known \cup {scanPort}
KnownWith(p) == known \cup {p}

KnownWithoutNone(p) == known
KnownWithout(p) == known \ {p}

(* is_connected() of the node of i.                                        *)
IsConnectedAlways(i) == TRUE
IsConnected(i) == connected[i]

(* ID i is the entry the merge loop is at.                                 *)
Merging(i) ==
  /\ found[i] # NoPort
  /\ \A j \in Id : found[j] # NoPort => i <= j

(* Constructing the node of i at the port found: the constructor tries to  *)
(* open the port at once.  rclcpp::Node throws when the context has been   *)
(* shut down; nobody catches it in the scanner thread: std::terminate.     *)
Construct(i) ==
  IF ~ok
  THEN /\ proc' = "crashed"
       /\ UNCHANGED <<events, scanPc, found, mapVars, nodeVars>>
  ELSE /\ port' = [port EXCEPT ![i] = found[i]]
       /\ \E f \in Device \cup {Closed} :
            /\ Opens(found[i], f)
            /\ fd' = [fd EXCEPT ![i] = f]
            /\ connected' = [connected EXCEPT ![i] = f # Closed]
       /\ stage' = [stage EXCEPT ![i] = "idle"]
       /\ known' = KnownWith(found[i])
       /\ executing' = executing \cup {i}
       /\ found' = [found EXCEPT ![i] = NoPort]
       /\ scanPc' = "merge"
       /\ UNCHANGED proc

(* An ID not in node_map gets a node.                                      *)
MergeNew(i) ==
  /\ Alive /\ scanPc = "merge" /\ Merging(i)
  /\ port[i] = NoPort
  /\ Construct(i)
  /\ UNCHANGED <<idOf, at, silent, ok, todo, scanPort, scanFd, lostVars>>

(* A connected node is left alone.                                         *)
MergeKeeps(i) ==
  /\ Alive /\ scanPc = "merge" /\ Merging(i)
  /\ port[i] # NoPort /\ IsConnected(i)
  /\ found' = [found EXCEPT ![i] = NoPort]
  /\ UNCHANGED <<envVars, ok, proc, scanPc, todo, scanPort, scanFd, mapVars,
                 nodeVars, lostVars>>

(* The scanner reads connected_ = false: it is going to replace the node.  *)
MergeFindsLost(i) ==
  /\ Alive /\ scanPc = "merge" /\ Merging(i)
  /\ port[i] # NoPort /\ ~IsConnected(i)
  /\ scanPc' = "remove"
  /\ UNCHANGED <<envVars, ok, proc, todo, scanPort, scanFd, found, mapVars,
                 nodeVars, lostVars>>

(* executor.remove_node and known_ports.erase.  A callback that is being   *)
(* executed is not waited for.                                             *)
MergeRemoves(i) ==
  /\ Alive /\ scanPc = "remove" /\ Merging(i)
  /\ executing' = executing \ {i}
  /\ known' = KnownWithout(port[i])
  /\ scanPc' = "replace"
  /\ UNCHANGED <<envVars, ok, proc, todo, scanPort, scanFd, found, nodeVars,
                 lostVars>>

(* The new node is constructed, takes the old one's place in node_map (the *)
(* old one is destroyed, its descriptor stays open) and is executed.       *)
MergeReplaces(i) ==
  /\ Alive /\ scanPc = "replace" /\ Merging(i)
  /\ Construct(i)
  /\ IF ok /\ stage[i] # "idle"
     THEN orphans' = orphans \cup
            {[port |-> port[i], fd |-> fd[i], stage |-> stage[i]]}
     ELSE UNCHANGED orphans
  /\ IF ok /\ stage[i] = "idle"
     THEN leaked' = leaked \cup ({fd[i]} \ {Closed})
     ELSE UNCHANGED leaked
  /\ UNCHANGED <<idOf, at, silent, ok, todo, scanPort, scanFd>>

MergeEnds ==
  /\ Alive /\ scanPc = "merge"
  /\ \A i \in Id : found[i] = NoPort
  /\ scanPc' = "wait"
  /\ UNCHANGED <<envVars, ok, proc, todo, scanPort, scanFd, found, mapVars,
                 nodeVars, lostVars>>

ScannerExits ==
  /\ Alive /\ scanPc = "wait"
  /\ ~KeepsScanning
  /\ scanPc' = "done"
  /\ UNCHANGED <<envVars, ok, proc, todo, scanPort, scanFd, found, mapVars,
                 nodeVars, lostVars>>

Scanner ==
  \/ ScanBegins \/ ScanDetects \/ ScanFails \/ ScanEnds
  \/ MergeEnds \/ ScannerExits
  \/ \E p \in Port : ScanOpens(p)
  \/ \E i \in Id :
       \/ MergeNew(i) \/ MergeKeeps(i) \/ MergeFindsLost(i)
       \/ MergeRemoves(i) \/ MergeReplaces(i)

-------------------------------------------------------------------------------
(* The main thread.                                                        *)

(* SIGINT: rclcpp's handler shuts the context down.                        *)
Signal ==
  /\ proc = "spin" /\ ok
  /\ ok' = FALSE
  /\ UNCHANGED <<envVars, proc, scanVars, mapVars, nodeVars, lostVars>>

(* executor.spin() returns when the callbacks being executed have ended.   *)
SpinReturns ==
  /\ proc = "spin" /\ ~ok
  /\ \A i \in Id : stage[i] = "idle"
  /\ orphans = {}
  /\ proc' = "join"
  /\ UNCHANGED <<envVars, ok, scanVars, mapVars, nodeVars, lostVars>>

(* scanner.join(), then main returns.                                      *)
MainReturns ==
  /\ proc = "join"
  /\ scanPc = "done"
  /\ proc' = "done"
  /\ UNCHANGED <<envVars, ok, scanVars, mapVars, nodeVars, lostVars>>

Halted == proc \in {"done", "crashed"}

(* The process is gone: what is left is stuttering.                        *)
Terminated == Halted /\ UNCHANGED vars

Main == Signal \/ SpinReturns \/ MainReturns

Next == Environment \/ Executor \/ Scanner \/ Main \/ Terminated

Spec == Init /\ [][Next]_vars

(* The threads run: the executor prefers timers over subscriptions and no  *)
(* callback or scanner step is put off for ever; an interval or a timeout  *)
(* elapses at last, so an unconnected node keeps trying its port and a     *)
(* connected one notices that its device is gone or silent.                *)
Fairness ==
  /\ \A i \in Id :
       /\ SF_vars(CallbackBegins(i, "update"))
       /\ WF_vars(CallbackReturns(i) \/ UpdateConnects(i))
       /\ SF_vars(UpdateOpens(i) \/ CallbackCloses(i))
  /\ WF_vars(\E o \in orphans : Orphan(o))
  /\ WF_vars(Scanner)
  /\ WF_vars(SpinReturns \/ MainReturns)

FairSpec == Spec /\ Fairness
-------------------------------------------------------------------------------
(* Safety.                                                                 *)

(* The ports the nodes of node_map are bound to.                           *)
Bound == {port[i] : i \in Id} \ {NoPort}

(* known_ports (main.cpp:55) is exactly the set of ports of the nodes in   *)
(* the executor, through every add, removal and replacement; a port that   *)
(* stayed in it without a node would never be scanned again.               *)
KnownPortsExact == known = {port[i] : i \in executing}

(* No two nodes are bound to the same port: the bytes of a port would be   *)
(* split between two readers.                                              *)
PortsDistinct ==
  \A i, j \in Id : port[i] # NoPort /\ port[i] = port[j] => i = j

(* Everything a scan is about to open, has open, or has found but not yet  *)
(* merged, is a port no node is bound to, although known_ports was copied  *)
(* before the scan and is not looked at again (main.cpp:64-70).            *)
ScanAvoidsNodes ==
  \A i \in Id :
    port[i] # NoPort
      => port[i] \notin todo \cup {scanPort} \cup {found[j] : j \in Id}

(* A device's byte stream has at most one reader among the nodes in the    *)
(* executor and the scanner, whatever was plugged where in the meantime.   *)
SingleReader ==
  \A d \in Device :
    /\ \A i, j \in executing : fd[i] = d /\ fd[j] = d => i = j
    /\ scanFd = d => \A i \in executing : fd[i] # d

(* A port the configuration excludes is neither scanned nor bridged.       *)
ExcludedUntouched ==
  /\ Excluded \cap (Bound \cup todo \cup {found[i] : i \in Id}) = {}
  /\ scanPort \notin Excluded

(* What makes these invariants inductive: where the scanner is says what   *)
(* it may hold, the ports of a scan are different from each other, a node  *)
(* of node_map is in the executor except while it is being replaced, and a *)
(* descriptor that is not dead leads to the device at the node's port.     *)
ScanShape ==
  /\ scanPc = "read" <=> scanPort # NoPort
  /\ scanPc # "read" => scanFd = Closed
  /\ scanPc \in {"merge", "remove", "replace"} => todo = {}

ScanDistinct ==
  /\ scanPort \notin todo
  /\ \A i \in Id : found[i] # NoPort => found[i] \notin todo \cup {scanPort}
  /\ \A i, j \in Id : found[i] # NoPort /\ found[i] = found[j] => i = j

NodeShape ==
  /\ \A i \in Id : port[i] = NoPort => i \notin executing /\ fd[i] = Closed
  /\ \A i \in Id \ executing :
       port[i] # NoPort => scanPc = "replace" /\ Merging(i)
  /\ \A i \in Id : scanPc = "remove" /\ Merging(i) => i \in executing
  /\ \A i \in Id : scanPc = "replace" /\ Merging(i) => i \notin executing

DescriptorsLive ==
  /\ \A i \in Id, d \in Device : fd[i] = d => at[d] = port[i]
  /\ \A d \in Device : scanFd = d => at[d] = scanPort

IInv ==
  /\ TypeOK
  /\ ScanShape
  /\ ScanDistinct
  /\ NodeShape
  /\ DescriptorsLive
  /\ KnownPortsExact
  /\ PortsDistinct
  /\ ScanAvoidsNodes
  /\ ExcludedUntouched

(* The bindings of nodes to ports implement the abstract registry.         *)
Registry == INSTANCE PortRegistry WITH owner <- port
RegistrySpec == Registry!Spec

-------------------------------------------------------------------------------
(* Liveness.                                                               *)

(* Device d is where the scanner may find it, and sends.                   *)
Available(d) ==
  /\ ok
  /\ at[d] \notin Excluded \cup {NoPort}
  /\ d \notin silent

(* The node of d's ID reads and writes d.                                  *)
Bridged(d) ==
  LET i == idOf[d] IN
  port[i] # NoPort /\ i \in executing /\ connected[i] /\ fd[i] = d

(* No device is plugged into the port of another ID's node.                *)
PortsOwn ==
  \A d \in Device, i \in Id :
    at[d] # NoPort /\ port[i] = at[d] => idOf[d] = i

(* The other devices flashed with the ID of d do not hang.                 *)
TwinsSend(d) == \A e \in silent : e # d => idOf[e] # idOf[d]

(* README 4.3: the ID of a device that stays plugged in and sends is       *)
(* served by a device in the end and stays served, on whatever port it was *)
(* plugged in, after any number of moves, hangs and losses.  Of two with   *)
(* one ID the spare takes over when the other is unplugged; of two found   *)
(* by one scan the last wins (port_scanner.cpp:257).  Left out are         *)
(* - a device that stays in another ID's port: there it is not scanned,    *)
(*   and its bytes keep that ID's node connected;                          *)
(* - a twin that hangs: its node reopens the port and says at every retry  *)
(*   that it is connected, and the scanner may always look then.           *)
EventuallyBridged ==
  \A d \in Device :
    <>[](Available(d) /\ PortsOwn /\ TwinsSend(d))
      => <>[](Halted \/ \E e \in Device : idOf[e] = idOf[d] /\ Bridged(e))

(* Once SIGINT has been received the process ends: spin() returns, the     *)
(* scan under way finishes and the scanner is joined (main.cpp:114-117).   *)
ShutdownCompletes == ~ok ~> Halted

-------------------------------------------------------------------------------
(* What comments and README say and the code does not do.                  *)

(* README features: an MCU is known by its ID and not by its port, so that *)
(* it may be plugged into any port, another lost device's included.        *)
AnyPortServes ==
  \A d \in Device : <>[]Available(d) => <>[](Bridged(d) \/ Halted)

(* main.cpp:89-91: replacing a node that has just connected does no harm.  *)
(* It does: a callback may still be executing in the object destroyed, and *)
(* a descriptor opened in it at the last moment is never closed.           *)
ReplacementHarmless == orphans = {} /\ leaked = {}
===============================================================================
