----------------------------- MODULE HotplugProofs -----------------------------
(***************************************************************************)
(* Proofs about Hotplug, for any number of devices, IDs, ports and events. *)
(***************************************************************************)
EXTENDS Hotplug, TLAPS

USE IdAssumption, PortAssumption, FlashingAssumption, FdAssumption,
    EventsAssumption

(* Constructing a node keeps the types of everything it touches.           *)
LEMMA ConstructType ==
  ASSUME TypeOK, NEW i \in Id, Merging(i), Construct(i)
  PROVE  /\ events' \in Nat
         /\ proc' \in {"spin", "join", "done", "crashed"}
         /\ scanPc' \in {"wait", "scan", "read", "merge", "remove", "replace", "done"}
         /\ found' \in [Id -> Port \cup {NoPort}]
         /\ known' \subseteq Port
         /\ executing' \subseteq Id
         /\ port' \in [Id -> Port \cup {NoPort}]
         /\ fd' \in [Id -> Fd]
         /\ connected' \in [Id -> BOOLEAN]
         /\ stage' \in [Id -> Stage]
<1> USE DEF TypeOK, Fd, Stage, nodeVars, mapVars
<1>1. found[i] \in Port
  BY DEF Merging
<1>2. CASE ~ok
  BY <1>2 DEF Construct, KnownWith
<1>3. CASE ok
  <2>1. PICK f \in Device \cup {Closed} :
          /\ Opens(found[i], f)
          /\ fd' = [fd EXCEPT ![i] = f]
          /\ connected' = [connected EXCEPT ![i] = f # Closed]
    BY <1>3 DEF Construct, KnownWith
  <2>2. events' \in Nat /\ fd' \in [Id -> Fd]
    BY <2>1 DEF Opens
  <2>3. connected' \in [Id -> BOOLEAN]
    <3>1. (f # Closed) \in BOOLEAN
      OBVIOUS
    <3> QED BY <2>1, <3>1, Zenon
  <2>4. found' \in [Id -> Port \cup {NoPort}] /\ port' \in [Id -> Port \cup {NoPort}]
    BY <1>1, <1>3 DEF Construct, KnownWith
  <2>5. known' \subseteq Port /\ executing' \subseteq Id /\ stage' \in [Id -> Stage]
    <3>1. /\ known' = known \cup {found[i]}
          /\ executing' = executing \cup {i}
          /\ stage' = [stage EXCEPT ![i] = "idle"]
      BY <1>3 DEF Construct, KnownWith
    <3>2. stage' \in [Id -> Stage]
      BY <3>1
    <3> QED BY <1>1, <3>1, <3>2
  <2>6. proc' = proc /\ scanPc' = "merge"
    BY <1>3 DEF Construct, KnownWith
  <2> QED BY <2>2, <2>3, <2>4, <2>5, <2>6
<1> QED BY <1>2, <1>3

(* The type invariant: every action of users, executor, scanner and main   *)
(* thread leaves every variable in its type.                               *)
THEOREM TypeCorrect == Spec => []TypeOK
<1>1. Init => TypeOK
  BY DEF Init, TypeOK, Fd, Stage
<1>2. TypeOK /\ [Next]_vars => TypeOK'
  <2> SUFFICES ASSUME TypeOK, [Next]_vars PROVE TypeOK'
    OBVIOUS
  <2> USE DEF TypeOK, Fd, Stage, envVars, scanVars, nodeVars, mapVars, lostVars
  <2>1. CASE Environment
    <3>1. ASSUME NEW d \in Device, NEW p \in Port, Plug(d, p) PROVE TypeOK'
      BY <3>1 DEF Plug
    <3>2. ASSUME NEW d \in Device, Unplug(d) PROVE TypeOK'
      <4>1. fd' \in [Id -> Fd] /\ scanFd' \in Fd
        BY <3>2 DEF Unplug, Unplugged
      <4>2. leaked' \subseteq Device \cup {Gone}
        BY <3>2 DEF Unplug, Unplugged
      <4>3. orphans' \subseteq
              [port : Port \cup {NoPort}, fd : Fd, stage : Stage \ {"idle"}]
        <5>1. ASSUME NEW o \in orphans
              PROVE  [o EXCEPT !.fd = Unplugged(d, o.fd)] \in
                [port : Port \cup {NoPort}, fd : Fd, stage : Stage \ {"idle"}]
          <6>1. /\ o \in [port : Port \cup {NoPort}, fd : Fd,
                          stage : Stage \ {"idle"}]
                /\ Unplugged(d, o.fd) \in Fd
            BY <5>1 DEF Unplugged
          <6> HIDE DEF TypeOK, Fd, Stage
          <6> QED BY <6>1
        <5>2. orphans' = {[o EXCEPT !.fd = Unplugged(d, o.fd)] : o \in orphans}
          BY <3>2 DEF Unplug
        <5> HIDE DEF TypeOK, Fd, Stage
        <5> QED BY <5>1, <5>2
      <4> QED BY <3>2, <4>1, <4>2, <4>3 DEF Unplug
    <3>3. ASSUME NEW d \in Device, Hang(d) PROVE TypeOK'
      BY <3>3 DEF Hang
    <3>4. ASSUME NEW d \in Device, Resume(d) PROVE TypeOK'
      BY <3>4 DEF Resume
    <3> QED BY <2>1, <3>1, <3>2, <3>3, <3>4 DEF Environment
  <2>2. CASE Executor
    <3>1. ASSUME NEW i \in Id, NEW cb \in {"update", "tx"}, CallbackBegins(i, cb)
          PROVE  TypeOK'
      BY <3>1 DEF CallbackBegins
    <3>2. ASSUME NEW i \in Id, CallbackReturns(i) \/ UpdateConnects(i)
          PROVE  TypeOK'
      BY <3>2 DEF CallbackReturns, UpdateConnects
    <3>3. ASSUME NEW i \in Id, UpdateOpens(i) PROVE TypeOK'
      BY <3>3 DEF UpdateOpens, Opens
    <3>4. ASSUME NEW i \in Id, CallbackCloses(i) PROVE TypeOK'
      BY <3>4 DEF CallbackCloses
    <3>5. ASSUME NEW o \in orphans, Orphan(o) PROVE TypeOK'
      <4>1. CASE OrphanReturns(o)
        BY <4>1 DEF OrphanReturns
      <4>2. CASE OrphanCloses(o)
        BY <4>2 DEF OrphanCloses
      <4>3. CASE OrphanOpens(o)
        BY <4>3 DEF OrphanOpens, Opens
      <4>4. CASE OrphanCrashes(o)
        BY <4>4 DEF OrphanCrashes
      <4> QED BY <3>5, <4>1, <4>2, <4>3, <4>4 DEF Orphan
    <3> HIDE DEF TypeOK
    <3> QED
      <4>1. CASE \E i \in Id : \E cb \in {"update", "tx"} : CallbackBegins(i, cb)
        BY <4>1, <3>1
      <4>2. CASE \E i \in Id : \/ CallbackReturns(i) \/ UpdateOpens(i)
                             \/ UpdateConnects(i) \/ CallbackCloses(i)
        BY <4>2, <3>2, <3>3, <3>4
      <4>3. CASE \E o \in orphans : Orphan(o)
        BY <4>3, <3>5
      <4> QED BY <2>2, <4>1, <4>2, <4>3 DEF Executor
  <2>3. CASE Scanner
    <3>1. CASE ScanBegins
      <4>1. todo' \subseteq Port
        BY <3>1 DEF ScanBegins, KeepsScanning, ToScan, Plugged
      <4> QED BY <3>1, <4>1 DEF ScanBegins, ToScan, Plugged
    <3>2. CASE ScanDetects
      <4>1. idOf[scanFd] \in Id /\ scanPort \in Port \cup {NoPort}
        BY <3>2 DEF ScanDetects
      <4> QED BY <3>2, <4>1 DEF ScanDetects, ScanCloses
    <3>8. CASE ScanFails
      BY <3>8 DEF ScanFails, ScanCloses
    <3>3. CASE ScanEnds \/ MergeEnds \/ ScannerExits
      BY <3>3 DEF ScanEnds, MergeEnds, ScannerExits
    <3>4. ASSUME NEW p \in Port, ScanOpens(p) PROVE TypeOK'
      BY <3>4 DEF ScanOpens, Opens
    <3>5. ASSUME NEW i \in Id, MergeKeeps(i) \/ MergeFindsLost(i) \/ MergeRemoves(i)
          PROVE  TypeOK'
      BY <3>5 DEF MergeKeeps, MergeFindsLost, MergeRemoves, KnownWithout
    <3>6. ASSUME NEW i \in Id, MergeNew(i) PROVE TypeOK'
      <4> HIDE DEF TypeOK
      <4>1. Construct(i) /\ Merging(i)
        BY <3>6 DEF MergeNew
      <4> QED BY <3>6, <4>1, ConstructType DEF MergeNew, TypeOK
    <3>7. ASSUME NEW i \in Id, MergeReplaces(i) PROVE TypeOK'
      <4> HIDE DEF TypeOK
      <4>1. Construct(i) /\ Merging(i)
        BY <3>7 DEF MergeReplaces
      <4>2. orphans' \subseteq
              [port : Port \cup {NoPort}, fd : Fd, stage : Stage \ {"idle"}]
        BY <3>7 DEF MergeReplaces, TypeOK
      <4>3. leaked' \subseteq Device \cup {Gone}
        BY <3>7 DEF MergeReplaces, TypeOK
      <4> QED BY <3>7, <4>1, <4>2, <4>3, ConstructType DEF MergeReplaces, TypeOK
    <3> QED BY <2>3, <3>1, <3>2, <3>3, <3>4, <3>5, <3>6, <3>7, <3>8
             DEF Scanner
  <2>4. CASE Main
    BY <2>4 DEF Main, Signal, SpinReturns, MainReturns
  <2>5. CASE Terminated \/ UNCHANGED vars
    BY <2>5 DEF Terminated, vars
  <2> QED BY <2>1, <2>2, <2>3, <2>4, <2>5 DEF Next
<1> QED BY <1>1, <1>2, PTL DEF Spec

-------------------------------------------------------------------------------
(* The inductive invariant, action by action.                              *)

(* Nothing the invariant is about changes.                                 *)
LEMMA UntouchedInv ==
  ASSUME IInv, TypeOK', UNCHANGED <<at, scanVars, mapVars, port, fd>>
  PROVE  IInv'
BY DEF IInv, ScanShape, ScanDistinct, NodeShape, DescriptorsLive,
       KnownPortsExact, PortsDistinct, ScanAvoidsNodes, ExcludedUntouched,
       Bound, Merging, envVars, scanVars, mapVars, TypeOK

(* A device is plugged in: no descriptor leads to it yet.                  *)
LEMMA PlugInv ==
  ASSUME IInv, TypeOK', NEW d \in Device, NEW p \in Port, Plug(d, p)
  PROVE  IInv'
<1> USE DEF IInv, TypeOK, Fd
<1>1. ScanShape'
  BY DEF Plug, scanVars, mapVars, nodeVars, ScanShape
<1>2. ScanDistinct'
  BY DEF Plug, scanVars, mapVars, nodeVars, ScanDistinct
<1>3. NodeShape'
  BY DEF Plug, scanVars, mapVars, nodeVars, NodeShape, Merging
<1>4. DescriptorsLive'
  BY DEF Plug, envVars, scanVars, mapVars, nodeVars,
         DescriptorsLive, ScanShape, NodeShape
<1>5. KnownPortsExact'
  BY DEF Plug, scanVars, mapVars, nodeVars, KnownPortsExact
<1>6. PortsDistinct'
  BY DEF Plug, scanVars, mapVars, nodeVars, PortsDistinct
<1>7. ScanAvoidsNodes'
  BY DEF Plug, scanVars, mapVars, nodeVars, ScanAvoidsNodes
<1>8. ExcludedUntouched'
  BY DEF Plug, scanVars, mapVars, nodeVars, ExcludedUntouched, Bound
<1> QED BY <1>1, <1>2, <1>3, <1>4, <1>5, <1>6, <1>7, <1>8

(* A device is unplugged: descriptors that led to it are dead.             *)
LEMMA UnplugInv ==
  ASSUME IInv, TypeOK', NEW d \in Device, Unplug(d)
  PROVE  IInv'
<1> USE DEF IInv, TypeOK, Fd
<1>1. ScanShape'
  BY DEF Unplug, Unplugged, scanVars, mapVars, nodeVars, ScanShape
<1>2. ScanDistinct'
  BY DEF Unplug, Unplugged, scanVars, mapVars, nodeVars, ScanDistinct
<1>3. NodeShape'
  BY DEF Unplug, Unplugged, scanVars, mapVars, nodeVars, NodeShape, Merging
<1>4. DescriptorsLive'
  BY DEF Unplug, Unplugged, envVars, scanVars, mapVars, nodeVars,
         DescriptorsLive
<1>5. KnownPortsExact'
  BY DEF Unplug, Unplugged, scanVars, mapVars, nodeVars, KnownPortsExact
<1>6. PortsDistinct'
  BY DEF Unplug, Unplugged, scanVars, mapVars, nodeVars, PortsDistinct
<1>7. ScanAvoidsNodes'
  BY DEF Unplug, Unplugged, scanVars, mapVars, nodeVars, ScanAvoidsNodes
<1>8. ExcludedUntouched'
  BY DEF Unplug, Unplugged, scanVars, mapVars, nodeVars, ExcludedUntouched,
         Bound
<1> QED BY <1>1, <1>2, <1>3, <1>4, <1>5, <1>6, <1>7, <1>8

(* A node opens the device at its own port.                                *)
LEMMA UpdateOpensInv ==
  ASSUME IInv, TypeOK', NEW i \in Id, UpdateOpens(i)
  PROVE  IInv'
<1> USE DEF IInv, TypeOK, Fd
<1>1. ScanShape'
  BY DEF UpdateOpens, Running, Opens, scanVars, mapVars, nodeVars, ScanShape
<1>2. ScanDistinct'
  BY DEF UpdateOpens, Running, Opens, scanVars, mapVars, nodeVars, ScanDistinct
<1>3. NodeShape'
  BY DEF UpdateOpens, Running, Opens, scanVars, mapVars, nodeVars, NodeShape,
         Merging
<1>4. DescriptorsLive'
  BY DEF UpdateOpens, Running, Opens, envVars, scanVars, mapVars, nodeVars,
         DescriptorsLive
<1>5. KnownPortsExact'
  BY DEF UpdateOpens, Running, Opens, scanVars, mapVars, nodeVars,
         KnownPortsExact
<1>6. PortsDistinct'
  BY DEF UpdateOpens, Running, Opens, scanVars, mapVars, nodeVars, PortsDistinct
<1>7. ScanAvoidsNodes'
  BY DEF UpdateOpens, Running, Opens, scanVars, mapVars, nodeVars,
         ScanAvoidsNodes
<1>8. ExcludedUntouched'
  BY DEF UpdateOpens, Running, Opens, scanVars, mapVars, nodeVars,
         ExcludedUntouched, Bound
<1> QED BY <1>1, <1>2, <1>3, <1>4, <1>5, <1>6, <1>7, <1>8

(* A node closes its descriptor.                                           *)
LEMMA CallbackClosesInv ==
  ASSUME IInv, TypeOK', NEW i \in Id, CallbackCloses(i)
  PROVE  IInv'
<1> USE DEF IInv, TypeOK, Fd
<1>1. ScanShape'
  BY DEF CallbackCloses, Running, scanVars, mapVars, nodeVars, ScanShape
<1>2. ScanDistinct'
  BY DEF CallbackCloses, Running, scanVars, mapVars, nodeVars, ScanDistinct
<1>3. NodeShape'
  BY DEF CallbackCloses, Running, scanVars, mapVars, nodeVars, NodeShape,
         Merging
<1>4. DescriptorsLive'
  BY DEF CallbackCloses, Running, envVars, scanVars, mapVars, nodeVars,
         DescriptorsLive
<1>5. KnownPortsExact'
  BY DEF CallbackCloses, Running, scanVars, mapVars, nodeVars, KnownPortsExact
<1>6. PortsDistinct'
  BY DEF CallbackCloses, Running, scanVars, mapVars, nodeVars, PortsDistinct
<1>7. ScanAvoidsNodes'
  BY DEF CallbackCloses, Running, scanVars, mapVars, nodeVars, ScanAvoidsNodes
<1>8. ExcludedUntouched'
  BY DEF CallbackCloses, Running, scanVars, mapVars, nodeVars,
         ExcludedUntouched, Bound
<1> QED BY <1>1, <1>2, <1>3, <1>4, <1>5, <1>6, <1>7, <1>8

(* The ports to scan are those no node is bound to.                        *)
LEMMA ScanBeginsInv ==
  ASSUME IInv, TypeOK', ScanBegins
  PROVE  IInv'
<1> USE DEF IInv, TypeOK, Fd
<1>1. ScanShape'
  BY DEF ScanBegins, KeepsScanning, ToScan, Plugged, scanVars, mapVars,
         nodeVars, ScanShape
<1>2. ScanDistinct'
  BY DEF ScanBegins, KeepsScanning, ToScan, Plugged, scanVars, mapVars,
         nodeVars, ScanDistinct, ScanShape
<1>3. NodeShape'
  BY DEF ScanBegins, KeepsScanning, ToScan, Plugged, scanVars, mapVars,
         nodeVars, NodeShape, Merging
<1>4. DescriptorsLive'
  BY DEF ScanBegins, KeepsScanning, ToScan, Plugged, envVars, scanVars, mapVars,
         nodeVars,
         DescriptorsLive
<1>5. KnownPortsExact'
  BY DEF ScanBegins, KeepsScanning, ToScan, Plugged, scanVars, mapVars,
         nodeVars, KnownPortsExact
<1>6. PortsDistinct'
  BY DEF ScanBegins, KeepsScanning, ToScan, Plugged, scanVars, mapVars,
         nodeVars, PortsDistinct
<1>7. ScanAvoidsNodes'
  BY DEF ScanBegins, KeepsScanning, ToScan, Plugged, scanVars, mapVars,
         nodeVars, ScanAvoidsNodes, ScanShape, NodeShape,
         KnownPortsExact
<1>8. ExcludedUntouched'
  BY DEF ScanBegins, KeepsScanning, ToScan, Plugged, scanVars, mapVars,
         nodeVars, ExcludedUntouched, Bound
<1> QED BY <1>1, <1>2, <1>3, <1>4, <1>5, <1>6, <1>7, <1>8

(* The scanner opens the next port of the list, or passes it.              *)
LEMMA ScanOpensInv ==
  ASSUME IInv, TypeOK', NEW p \in Port, ScanOpens(p)
  PROVE  IInv'
<1> USE DEF IInv, TypeOK, Fd
<1>1. ScanShape'
  BY DEF ScanOpens, Opens, scanVars, mapVars, nodeVars, ScanShape
<1>2. ScanDistinct'
  BY DEF ScanOpens, Opens, scanVars, mapVars, nodeVars, ScanDistinct
<1>3. NodeShape'
  BY DEF ScanOpens, Opens, scanVars, mapVars, nodeVars, NodeShape, Merging
<1>4. DescriptorsLive'
  BY DEF ScanOpens, Opens, envVars, scanVars, mapVars, nodeVars,
         DescriptorsLive
<1>5. KnownPortsExact'
  BY DEF ScanOpens, Opens, scanVars, mapVars, nodeVars, KnownPortsExact
<1>6. PortsDistinct'
  BY DEF ScanOpens, Opens, scanVars, mapVars, nodeVars, PortsDistinct
<1>7. ScanAvoidsNodes'
  BY DEF ScanOpens, Opens, scanVars, mapVars, nodeVars, ScanAvoidsNodes
<1>8. ExcludedUntouched'
  BY DEF ScanOpens, Opens, scanVars, mapVars, nodeVars, ExcludedUntouched, Bound
<1> QED BY <1>1, <1>2, <1>3, <1>4, <1>5, <1>6, <1>7, <1>8

(* The port being read is found.                                           *)
LEMMA ScanDetectsInv ==
  ASSUME IInv, TypeOK', ScanDetects
  PROVE  IInv'
<1> USE DEF IInv, TypeOK, Fd
<1>1. ScanShape'
  BY DEF ScanDetects, ScanCloses, scanVars, mapVars, nodeVars, ScanShape
<1>2. ScanDistinct'
  BY DEF ScanDetects, ScanCloses, scanVars, mapVars, nodeVars, ScanDistinct
<1>3. NodeShape'
  BY DEF ScanDetects, ScanCloses, scanVars, mapVars, nodeVars, NodeShape,
         Merging
<1>4. DescriptorsLive'
  BY DEF ScanDetects, ScanCloses, envVars, scanVars, mapVars, nodeVars,
         DescriptorsLive
<1>5. KnownPortsExact'
  BY DEF ScanDetects, ScanCloses, scanVars, mapVars, nodeVars, KnownPortsExact
<1>6. PortsDistinct'
  BY DEF ScanDetects, ScanCloses, scanVars, mapVars, nodeVars, PortsDistinct
<1>7. ScanAvoidsNodes'
  BY DEF ScanDetects, ScanCloses, scanVars, mapVars, nodeVars, ScanAvoidsNodes
<1>8. ExcludedUntouched'
  BY DEF ScanDetects, ScanCloses, scanVars, mapVars, nodeVars,
         ExcludedUntouched, Bound
<1> QED BY <1>1, <1>2, <1>3, <1>4, <1>5, <1>6, <1>7, <1>8

(* The port being read is given up.                                        *)
LEMMA ScanFailsInv ==
  ASSUME IInv, TypeOK', ScanFails
  PROVE  IInv'
<1> USE DEF IInv, TypeOK, Fd
<1>1. ScanShape'
  BY DEF ScanFails, ScanCloses, scanVars, mapVars, nodeVars, ScanShape
<1>2. ScanDistinct'
  BY DEF ScanFails, ScanCloses, scanVars, mapVars, nodeVars, ScanDistinct
<1>3. NodeShape'
  BY DEF ScanFails, ScanCloses, scanVars, mapVars, nodeVars, NodeShape, Merging
<1>4. DescriptorsLive'
  BY DEF ScanFails, ScanCloses, envVars, scanVars, mapVars, nodeVars,
         DescriptorsLive
<1>5. KnownPortsExact'
  BY DEF ScanFails, ScanCloses, scanVars, mapVars, nodeVars, KnownPortsExact
<1>6. PortsDistinct'
  BY DEF ScanFails, ScanCloses, scanVars, mapVars, nodeVars, PortsDistinct
<1>7. ScanAvoidsNodes'
  BY DEF ScanFails, ScanCloses, scanVars, mapVars, nodeVars, ScanAvoidsNodes
<1>8. ExcludedUntouched'
  BY DEF ScanFails, ScanCloses, scanVars, mapVars, nodeVars, ExcludedUntouched,
         Bound
<1> QED BY <1>1, <1>2, <1>3, <1>4, <1>5, <1>6, <1>7, <1>8

(* The scan, the merge or the scanner thread ends.                         *)
LEMMA ScanStepsInv ==
  ASSUME IInv, TypeOK', ScanEnds \/ MergeEnds \/ ScannerExits
  PROVE  IInv'
<1> USE DEF IInv, TypeOK, Fd
<1>1. ScanShape'
  BY DEF ScanEnds, MergeEnds, ScannerExits, scanVars, mapVars, nodeVars,
         ScanShape
<1>2. ScanDistinct'
  BY DEF ScanEnds, MergeEnds, ScannerExits, scanVars, mapVars, nodeVars,
         ScanDistinct
<1>3. NodeShape'
  BY DEF ScanEnds, MergeEnds, ScannerExits, scanVars, mapVars, nodeVars,
         NodeShape, Merging
<1>4. DescriptorsLive'
  BY DEF ScanEnds, MergeEnds, ScannerExits, envVars, scanVars, mapVars,
         nodeVars,
         DescriptorsLive
<1>5. KnownPortsExact'
  BY DEF ScanEnds, MergeEnds, ScannerExits, scanVars, mapVars, nodeVars,
         KnownPortsExact
<1>6. PortsDistinct'
  BY DEF ScanEnds, MergeEnds, ScannerExits, scanVars, mapVars, nodeVars,
         PortsDistinct
<1>7. ScanAvoidsNodes'
  BY DEF ScanEnds, MergeEnds, ScannerExits, scanVars, mapVars, nodeVars,
         ScanAvoidsNodes
<1>8. ExcludedUntouched'
  BY DEF ScanEnds, MergeEnds, ScannerExits, scanVars, mapVars, nodeVars,
         ExcludedUntouched, Bound
<1> QED BY <1>1, <1>2, <1>3, <1>4, <1>5, <1>6, <1>7, <1>8

(* An entry of the result is dropped.                                      *)
LEMMA MergeKeepsInv ==
  ASSUME IInv, TypeOK', NEW i \in Id, MergeKeeps(i)
  PROVE  IInv'
<1> USE DEF IInv, TypeOK, Fd
<1>1. ScanShape'
  BY DEF MergeKeeps, Merging, scanVars, mapVars, nodeVars, ScanShape
<1>2. ScanDistinct'
  BY DEF MergeKeeps, Merging, scanVars, mapVars, nodeVars, ScanDistinct
<1>3. NodeShape'
  BY DEF MergeKeeps, Merging, scanVars, mapVars, nodeVars, NodeShape, Merging
<1>4. DescriptorsLive'
  BY DEF MergeKeeps, Merging, envVars, scanVars, mapVars, nodeVars,
         DescriptorsLive
<1>5. KnownPortsExact'
  BY DEF MergeKeeps, Merging, scanVars, mapVars, nodeVars, KnownPortsExact
<1>6. PortsDistinct'
  BY DEF MergeKeeps, Merging, scanVars, mapVars, nodeVars, PortsDistinct
<1>7. ScanAvoidsNodes'
  BY DEF MergeKeeps, Merging, scanVars, mapVars, nodeVars, ScanAvoidsNodes
<1>8. ExcludedUntouched'
  BY DEF MergeKeeps, Merging, scanVars, mapVars, nodeVars, ExcludedUntouched,
         Bound
<1> QED BY <1>1, <1>2, <1>3, <1>4, <1>5, <1>6, <1>7, <1>8

(* The scanner has decided to replace the node of i.                       *)
LEMMA MergeFindsLostInv ==
  ASSUME IInv, TypeOK', NEW i \in Id, MergeFindsLost(i)
  PROVE  IInv'
<1> USE DEF IInv, TypeOK, Fd
<1>1. ScanShape'
  BY DEF MergeFindsLost, Merging, scanVars, mapVars, nodeVars, ScanShape
<1>2. ScanDistinct'
  BY DEF MergeFindsLost, Merging, scanVars, mapVars, nodeVars, ScanDistinct
<1>3. NodeShape'
  <2>1. /\ scanPc' = "remove"
        /\ UNCHANGED <<found, executing, port, fd>>
    BY DEF MergeFindsLost, mapVars, nodeVars
  <2>2. executing = {j \in Id : port[j] # NoPort}
    BY DEF MergeFindsLost, NodeShape
  <2>3. Merging(i) /\ port[i] # NoPort
    BY DEF MergeFindsLost
  <2>4. \A j \in Id : Merging(j) => j = i
    BY <2>3 DEF Merging
  <2> QED BY <2>1, <2>2, <2>3, <2>4 DEF NodeShape, Merging
<1>4. DescriptorsLive'
  BY DEF MergeFindsLost, Merging, envVars, scanVars, mapVars, nodeVars,
         DescriptorsLive
<1>5. KnownPortsExact'
  BY DEF MergeFindsLost, Merging, scanVars, mapVars, nodeVars, KnownPortsExact
<1>6. PortsDistinct'
  BY DEF MergeFindsLost, Merging, scanVars, mapVars, nodeVars, PortsDistinct
<1>7. ScanAvoidsNodes'
  BY DEF MergeFindsLost, Merging, scanVars, mapVars, nodeVars, ScanAvoidsNodes
<1>8. ExcludedUntouched'
  BY DEF MergeFindsLost, Merging, scanVars, mapVars, nodeVars,
         ExcludedUntouched, Bound
<1> QED BY <1>1, <1>2, <1>3, <1>4, <1>5, <1>6, <1>7, <1>8

(* The node of i leaves executor and known_ports.                          *)
LEMMA MergeRemovesInv ==
  ASSUME IInv, TypeOK', NEW i \in Id, MergeRemoves(i)
  PROVE  IInv'
<1> USE DEF IInv, TypeOK, Fd
<1>1. ScanShape'
  BY DEF MergeRemoves, KnownWithout, Merging, scanVars, mapVars, nodeVars,
         ScanShape
<1>2. ScanDistinct'
  BY DEF MergeRemoves, KnownWithout, Merging, scanVars, mapVars, nodeVars,
         ScanDistinct
<1>3. NodeShape'
  BY DEF MergeRemoves, KnownWithout, Merging, scanVars, mapVars, nodeVars,
         NodeShape, Merging
<1>4. DescriptorsLive'
  BY DEF MergeRemoves, KnownWithout, Merging, envVars, scanVars, mapVars,
         nodeVars,
         DescriptorsLive
<1>5. KnownPortsExact'
  <2>1. i \in executing /\ port[i] # NoPort
    BY DEF MergeRemoves, KnownWithout, NodeShape
  <2>2. \A j \in executing : port[j] = port[i] => j = i
    BY <2>1 DEF PortsDistinct
  <2>3. /\ known' = known \ {port[i]}
        /\ executing' = executing \ {i}
        /\ port' = port
    BY DEF MergeRemoves, KnownWithout, nodeVars
  <2>4. known = {port[j] : j \in executing}
    BY DEF KnownPortsExact
  <2>5. known' = {port[j] : j \in executing \ {i}}
    BY <2>1, <2>2, <2>3, <2>4
  <2>6. {port[j] : j \in executing \ {i}} = {port'[j] : j \in executing'}
    BY <2>3
  <2> QED BY <2>5, <2>6, Zenon DEF KnownPortsExact
<1>6. PortsDistinct'
  BY DEF MergeRemoves, KnownWithout, Merging, scanVars, mapVars, nodeVars,
         PortsDistinct
<1>7. ScanAvoidsNodes'
  BY DEF MergeRemoves, KnownWithout, Merging, scanVars, mapVars, nodeVars,
         ScanAvoidsNodes
<1>8. ExcludedUntouched'
  BY DEF MergeRemoves, KnownWithout, Merging, scanVars, mapVars, nodeVars,
         ExcludedUntouched, Bound
<1> QED BY <1>1, <1>2, <1>3, <1>4, <1>5, <1>6, <1>7, <1>8

(* A node is constructed at the port found, or the construction throws and *)
(* nothing but proc changes.                                               *)
LEMMA ConstructBinds ==
  ASSUME TypeOK, NEW i \in Id, Merging(i), Construct(i)
  PROVE  \/ UNCHANGED <<scanPc, found, known, executing, port, fd>>
         \/ /\ scanPc' = "merge"
            /\ found' = [found EXCEPT ![i] = NoPort]
            /\ known' = known \cup {found[i]}
            /\ executing' = executing \cup {i}
            /\ port' = [port EXCEPT ![i] = found[i]]
            /\ \E f \in Device \cup {Closed} :
                 /\ fd' = [fd EXCEPT ![i] = f]
                 /\ f \in Device => at[f] = found[i]
<1>1. CASE ~ok
  BY <1>1 DEF Construct, mapVars, nodeVars
<1>2. CASE ok
  BY <1>2, FdAssumption DEF Construct, KnownWith, Opens
<1> QED BY <1>1, <1>2

(* Binding the node of i, which is not in the executor, to the port found  *)
(* for it keeps the invariant.                                             *)
LEMMA ConstructInv ==
  ASSUME IInv, TypeOK', NEW i \in Id, Merging(i), Construct(i),
         scanPc \in {"merge", "replace"}, i \notin executing,
         UNCHANGED <<at, todo, scanPort, scanFd>>
  PROVE  IInv'
<1> USE DEF IInv, TypeOK, Fd
<1>1. CASE UNCHANGED <<scanPc, found, known, executing, port, fd>>
  BY <1>1 DEF IInv, ScanShape, ScanDistinct, NodeShape, DescriptorsLive,
     KnownPortsExact, PortsDistinct, ScanAvoidsNodes, ExcludedUntouched,
     Bound, Merging
<1>2. ASSUME scanPc' = "merge",
             found' = [found EXCEPT ![i] = NoPort],
             known' = known \cup {found[i]},
             executing' = executing \cup {i},
             port' = [port EXCEPT ![i] = found[i]],
             NEW f \in Device \cup {Closed},
             fd' = [fd EXCEPT ![i] = f],
             f \in Device => at[f] = found[i]
      PROVE  IInv'
  <2>1. found[i] \in Port /\ found[i] # NoPort
    BY DEF Merging
  <2>2. /\ port'[i] = found[i] /\ fd'[i] = f /\ found'[i] = NoPort
        /\ \A j \in Id \ {i} :
             port'[j] = port[j] /\ fd'[j] = fd[j] /\ found'[j] = found[j]
    BY <1>2
  <2>3. \A j \in Id : port[j] # NoPort => port[j] # found[i]
    BY DEF ScanAvoidsNodes
  <2>4. todo = {} /\ scanPort = NoPort /\ scanFd = Closed
    BY DEF ScanShape
  <2>5. ScanShape'
    BY <1>2, <2>4 DEF ScanShape
  <2>6. ScanDistinct'
    BY <2>2, <2>4 DEF ScanDistinct
  <2>7. NodeShape'
    <3>1. \A j \in Id \ (executing \cup {i}) : port[j] = NoPort
      BY DEF NodeShape, Merging
    <3> QED BY <1>2, <2>1, <2>2, <3>1 DEF NodeShape
  <2>8. DescriptorsLive'
    BY <1>2, <2>2, <2>4 DEF DescriptorsLive
  <2>9. KnownPortsExact'
    BY <1>2, <2>2 DEF KnownPortsExact
  <2>10. PortsDistinct'
    BY <2>2, <2>3 DEF PortsDistinct
  <2>11. ScanAvoidsNodes'
    <3>1. todo' = {} /\ scanPort' = NoPort
      BY <2>4
    <3>2. ASSUME NEW j \in Id, NEW k \in Id, port'[j] # NoPort
          PROVE  port'[j] # found'[k]
      <4>1. found[k] # found[i] \/ k = i \/ found[k] = NoPort
        BY DEF ScanDistinct
      <4>2. port[j] # NoPort => port[j] # found[k]
        BY DEF ScanAvoidsNodes
      <4> QED BY <2>1, <2>2, <3>2, <4>1, <4>2
    <3> QED BY <3>1, <3>2 DEF ScanAvoidsNodes
  <2>12. ExcludedUntouched'
    BY <2>1, <2>2, <2>4 DEF ExcludedUntouched, Bound
  <2> QED BY <2>5, <2>6, <2>7, <2>8, <2>9, <2>10, <2>11, <2>12
<1> QED BY <1>1, <1>2, ConstructBinds

(* A new ID gets a node at the port found.                                 *)
LEMMA MergeNewInv ==
  ASSUME IInv, TypeOK', NEW i \in Id, MergeNew(i)
  PROVE  IInv'
BY ConstructInv DEF MergeNew, IInv, NodeShape

(* The node of i moves to the port found.                                  *)
LEMMA MergeReplacesInv ==
  ASSUME IInv, TypeOK', NEW i \in Id, MergeReplaces(i)
  PROVE  IInv'
BY ConstructInv DEF MergeReplaces, IInv, NodeShape

(* The strengthened invariant, from which the safety properties follow.    *)
THEOREM Inductive == Spec => []IInv
<1>1. Init => IInv
  <2> SUFFICES ASSUME Init PROVE IInv
    OBVIOUS
  <2>1. TypeOK
    BY DEF Init, TypeOK, Fd, Stage
  <2> QED
    BY <2>1 DEF Init, IInv, ScanShape, ScanDistinct, NodeShape, DescriptorsLive,
       KnownPortsExact, PortsDistinct, ScanAvoidsNodes, ExcludedUntouched, Bound
<1>2. IInv /\ TypeOK' /\ [Next]_vars => IInv'
  <2> SUFFICES ASSUME IInv, TypeOK', [Next]_vars PROVE IInv'
    OBVIOUS
  <2>1. CASE Environment
    <3>1. ASSUME NEW d \in Device, Hang(d) \/ Resume(d) PROVE IInv'
      BY <3>1, UntouchedInv DEF Hang, Resume, nodeVars
    <3> QED BY <2>1, <3>1, PlugInv, UnplugInv DEF Environment
  <2>2. CASE Executor
    <3>1. ASSUME NEW i \in Id, NEW cb \in {"update", "tx"}, CallbackBegins(i, cb)
          PROVE  IInv'
      BY <3>1, UntouchedInv DEF CallbackBegins, envVars
    <3>2. ASSUME NEW i \in Id, CallbackReturns(i) \/ UpdateConnects(i)
          PROVE  IInv'
      BY <3>2, UntouchedInv DEF CallbackReturns, UpdateConnects, envVars
    <3>3. ASSUME NEW o \in orphans, Orphan(o) PROVE IInv'
      BY <3>3, UntouchedInv DEF Orphan, OrphanReturns, OrphanCloses,
          OrphanOpens,
                                OrphanCrashes, envVars, nodeVars
    <3> QED BY <2>2, <3>1, <3>2, <3>3, UpdateOpensInv, CallbackClosesInv
            DEF Executor
  <2>3. CASE Scanner
    BY <2>3, ScanBeginsInv, ScanOpensInv, ScanDetectsInv, ScanFailsInv, ScanStepsInv,
       MergeNewInv, MergeKeepsInv, MergeFindsLostInv, MergeRemovesInv,
       MergeReplacesInv DEF Scanner
  <2>4. CASE Main
    BY <2>4, UntouchedInv DEF Main, Signal, SpinReturns, MainReturns, envVars,
          nodeVars
  <2>5. CASE Terminated \/ UNCHANGED vars
    BY <2>5, UntouchedInv DEF Terminated, vars, envVars, nodeVars
  <2> QED BY <2>1, <2>2, <2>3, <2>4, <2>5 DEF Next
<1> QED BY <1>1, <1>2, TypeCorrect, PTL DEF Spec

(* The scanner never opens, and never holds for its merge, the port of a   *)
(* node, although it works with a copy of known_ports of long ago.         *)
THEOREM PortsNeverShared == Spec => []ScanAvoidsNodes
BY Inductive, PTL DEF IInv

(* known_ports holds the ports of the nodes and no others, through every   *)
(* add, loss, move and replacement.                                        *)
THEOREM KnownPortsAlwaysExact == Spec => []KnownPortsExact
BY Inductive, PTL DEF IInv

(* Two nodes never have the same port, through every add, loss, move and   *)
(* replacement.                                                            *)
THEOREM PortsAlwaysDistinct == Spec => []PortsDistinct
BY Inductive, PTL DEF IInv

(* A port of excluded_ports is neither scanned nor bridged.                *)
THEOREM ExcludedNeverTouched == Spec => []ExcludedUntouched
BY Inductive, PTL DEF IInv

(* In the words of the abstract registry: two IDs never share a port, and  *)
(* nobody is bound to an excluded one.                                     *)
THEOREM BindingsExclusive == Spec => []Registry!Exclusive
<1>1. IInv => Registry!Exclusive
  <2> SUFFICES ASSUME IInv PROVE Registry!Exclusive
    OBVIOUS
  <2>1. \A i, j \in Id : port[i] # NoPort /\ port[i] = port[j] => i = j
    BY DEF IInv, PortsDistinct
  <2>2. \A i \in Id : port[i] \notin Excluded
    BY PortAssumption DEF IInv, ExcludedUntouched, Bound
  <2> QED BY <2>1, <2>2 DEF Registry!Exclusive
<1> QED BY <1>1, Inductive, PTL

(* A device's bytes have one reader at most, wherever it has been plugged. *)
THEOREM OneReader == Spec => []SingleReader
<1>1. IInv => SingleReader
  <2> SUFFICES ASSUME IInv, NEW d \in Device
               PROVE  /\ \A i, j \in executing : fd[i] = d /\ fd[j] = d => i = j
                      /\ scanFd = d => \A i \in executing : fd[i] # d
    BY DEF SingleReader
  <2>1. \A i \in executing : i \in Id /\ port[i] # NoPort
    BY DEF IInv, TypeOK, NodeShape
  <2>2. \A i \in executing : fd[i] = d => at[d] = port[i]
    BY <2>1 DEF IInv, DescriptorsLive
  <2>3. \A i, j \in executing : fd[i] = d /\ fd[j] = d => i = j
    BY <2>1, <2>2 DEF IInv, PortsDistinct
  <2>4. scanFd = d => \A i \in executing : fd[i] # d
    BY <2>1, <2>2 DEF IInv, DescriptorsLive, ScanAvoidsNodes
  <2> QED BY <2>3, <2>4
<1> QED BY <1>1, Inductive, PTL

(* The nodes' bindings to ports implement the abstract registry: an ID is  *)
(* bound or moved only to a port that nobody is bound to.                  *)
THEOREM ImplementsRegistry == Spec => RegistrySpec
<1>1. Init => Registry!Init
  BY DEF Init, Registry!Init
<1>2. IInv /\ [Next]_vars => [Registry!Next]_port
  <2> SUFFICES ASSUME IInv, [Next]_vars, port' # port
               PROVE  Registry!Next
    OBVIOUS
  <2>1. PICK i \in Id : Merging(i) /\ Construct(i)
    BY DEF Next, Environment, Executor, Scanner, Main, Terminated, vars,
           nodeVars,
           Plug, Unplug, Hang, Resume, CallbackBegins, CallbackReturns, UpdateOpens,
           UpdateConnects, CallbackCloses, Orphan, OrphanReturns, OrphanCloses,
           OrphanOpens, OrphanCrashes, ScanBegins, ScanOpens, ScanDetects, ScanFails,
           ScanCloses, ScanEnds, MergeNew, MergeKeeps, MergeFindsLost, MergeRemoves,
           MergeReplaces, MergeEnds, ScannerExits, Signal, SpinReturns, MainReturns
  <2>2. found[i] \in Port \ Excluded
    BY <2>1 DEF IInv, TypeOK, ExcludedUntouched, Merging
  <2>3. port' = [port EXCEPT ![i] = found[i]]
    BY <2>1 DEF Construct, KnownWith, nodeVars
  <2>4. \A j \in Id : port[j] # found[i]
    BY <2>1 DEF IInv, ScanAvoidsNodes, Merging
  <2> QED BY <2>2, <2>3, <2>4 DEF Registry!Next, Registry!Claim
<1> QED BY <1>1, <1>2, Inductive, PTL DEF Spec, RegistrySpec, Registry!Spec
===============================================================================
