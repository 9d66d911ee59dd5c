--------------------------- MODULE BridgeLinkProofs ---------------------------
(***************************************************************************)
(* Proofs about BridgeLink, for every timeout, retry interval, sending     *)
(* period and executor delay.                                              *)
(***************************************************************************)
EXTENDS BridgeLink, TLAPS

USE TimingAssumption

(* An age grows by a tick, or stays at the horizon.                        *)
LEMMA AgedAge ==
  ASSUME NEW age \in Age
  PROVE  /\ Aged(age) \in Age
         /\ age <= Aged(age) /\ Aged(age) <= age + 1
         /\ age < Horizon => Aged(age) = age + 1
         /\ age = Horizon => Aged(age) = Horizon
BY DEF Age, Aged, Horizon

(* A read takes no longer than MaxLate.                                    *)
LEMMA ResidueGrows ==
  ASSUME NEW n \in 0..MaxReads
  PROVE  /\ Residue(n) \in Nat
         /\ n > 0 => /\ Residue(n - 1) = Residue(n) + MaxLate
                     /\ Residue(n) + MaxLate <= Residue(0)
<1>1. \A a \in Nat : a * MaxLate \in Nat /\ (a + 1) * MaxLate = a * MaxLate + MaxLate
  OBVIOUS
<1>2. \A a, b \in Nat : (a + b) * MaxLate = a * MaxLate + b * MaxLate
  OBVIOUS
<1>3. MaxReads - n \in Nat
  OBVIOUS
<1>4. Residue(n) \in Nat
  BY <1>1, <1>3 DEF Residue
<1>5. ASSUME n > 0
      PROVE  /\ Residue(n - 1) = Residue(n) + MaxLate
             /\ Residue(n) + MaxLate <= Residue(0)
  <2>1. MaxReads - (n - 1) = (MaxReads - n) + 1
    OBVIOUS
  <2>2. Residue(n - 1) = Residue(n) + MaxLate
    BY <1>1, <1>3, <2>1 DEF Residue
  <2>3. n - 1 \in Nat /\ MaxReads - 0 = (MaxReads - (n - 1)) + (n - 1)
    BY <1>5
  <2>4. Residue(0) = Residue(n - 1) + (n - 1) * MaxLate
    BY <1>2, <1>3, <2>1, <2>3 DEF Residue
  <2>5. (n - 1) * MaxLate \in Nat
    BY <1>1, <2>3
  <2> QED BY <1>4, <2>2, <2>4, <2>5
<1> QED BY <1>4, <1>5

(* No bound on an age reaches the horizon.                                 *)
LEMMA HorizonFar ==
  /\ Horizon \in Nat
  /\ RxTimeout + Residue(0) + MaxLate < Horizon
  /\ Interval < Horizon
<1>1. Residue(0) \in Nat
  BY ResidueGrows
<1>2. \A a \in Nat : (a + 1) * MaxLate = a * MaxLate + MaxLate
  OBVIOUS
<1>3. (MaxReads + 1) * MaxLate = Residue(0) + MaxLate
  BY <1>2 DEF Residue
<1> QED BY <1>1, <1>3 DEF Horizon

(* The bounds on ages, with the parts of the buffers that belong to the    *)
(* session, are kept by every step.                                        *)
THEOREM LinkInvariant == Spec => []LinkInv
<1>1. Init => LinkInv
  <2> SUFFICES ASSUME Init PROVE LinkInv
    OBVIOUS
  <2>1. /\ fd \in {"open", "closed"} /\ kernel \subseteq {"before"}
        /\ backlog \in 0..MaxReads /\ Backlog
    BY DEF Init, Backlog
  <2>2. retried \in BOOLEAN /\ (retried => fd = "open")
    BY Zenon DEF Init
  <2>3. /\ flushed => kernel = {}
        /\ rxBuffer = {}
        /\ sinceRx = 0 /\ late = 0 /\ silence = 0 /\ waited = 0
        /\ sinceTry = Interval
        /\ plugged \in BOOLEAN /\ sending \in BOOLEAN /\ flushed \in BOOLEAN
    BY DEF Init
  <2>4. TypeOK
    BY HorizonFar, <2>1, <2>2, <2>3 DEF TypeOK, Age, Tag
  <2>5. Freshness /\ Arrivals
    BY <2>1, <2>3, ResidueGrows DEF NothingToRead, Freshness, Arrivals
  <2>6. Sessions /\ Pacing
    BY <2>1, <2>2, <2>3 DEF Sessions, Pacing
  <2> QED BY <2>1, <2>4, <2>5, <2>6 DEF LinkInv
<1>2. LinkInv /\ [Next]_vars => LinkInv'
  <2> SUFFICES ASSUME LinkInv, [Next]_vars PROVE LinkInv'
    OBVIOUS
  <2> USE HorizonFar DEF LinkInv, TypeOK, Backlog, Age, Tag, envVars, clockVars, driver
  <2>1. /\ Residue(0) \in Nat /\ Residue(backlog) \in Nat
        /\ backlog > 0 => Residue(backlog) + MaxLate <= Residue(0)
    BY ResidueGrows
  <2>2. CASE Plug \/ Switch
    <3>1. TypeOK' /\ Backlog'
      BY <2>2 DEF Plug, Switch
    <3> QED BY <2>2, <3>1 DEF Plug, Switch, NothingToRead, Freshness, Arrivals, Sessions, Pacing
  <2>3. CASE Unplug
    <3>1. kernel' = {} /\ backlog' = 0 /\ fd' \in {"closed", "open", "gone"}
      BY <2>3 DEF Unplug
    <3>2. Backlog'
      BY <3>1, Zenon DEF Backlog
    <3>3. kernel' \subseteq Tag
      BY <3>1
    <3>4. backlog' \in 0..MaxReads
      BY <3>1
    <3>5. plugged' = FALSE
      BY <2>3, Zenon DEF Unplug
    <3>6. TypeOK'
      BY <2>3, <3>1, <3>3, <3>4, <3>5 DEF Unplug
    <3>7. TypeOK' /\ Backlog'
      BY <3>2, <3>6
    <3>8. Freshness' /\ Arrivals'
      BY <2>3, <2>1 DEF Unplug, NothingToRead, Freshness, Arrivals
    <3>9. Sessions' /\ Pacing'
      BY <2>3 DEF Unplug, Sessions, Pacing
    <3> QED BY <3>7, <3>8, <3>9
  <2>4. CASE ByteArrives
    <3>1. TypeOK' /\ Backlog'
      BY <2>4 DEF ByteArrives
    <3>2. backlog' > 0 /\ Residue(backlog') \in Nat
      BY <2>4, <3>1, ResidueGrows DEF ByteArrives
    <3>3. Freshness' /\ Arrivals'
      BY <2>4, <2>1, <3>2 DEF ByteArrives, NothingToRead, Freshness, Arrivals
    <3>4. Sessions' /\ Pacing'
      BY <2>4 DEF ByteArrives, Sessions, Pacing
    <3> QED BY <3>1, <3>3, <3>4
  <2>5. CASE Tick
    <3>1. TypeOK' /\ Backlog'
      BY <2>5, AgedAge DEF Tick
    <3>2. Freshness'
      BY <2>5, <2>1, AgedAge DEF Tick, NothingToRead, Freshness
    <3>3. Arrivals'
      BY <2>5, AgedAge DEF Tick, Arrivals
    <3>4. Sessions'
      BY <2>5 DEF Tick, Sessions
    <3>5. Pacing'
      BY <2>5, AgedAge DEF Tick, Pacing
    <3> QED BY <3>1, <3>2, <3>3, <3>4, <3>5
  <2>6. CASE UpdateWaits
    <3>1. TypeOK' /\ Backlog'
      BY <2>6 DEF UpdateWaits
    <3>2. Freshness' /\ Arrivals'
      BY <2>6, <2>1 DEF UpdateWaits, NothingToRead, Freshness, Arrivals
    <3>3. Sessions' /\ Pacing'
      BY <2>6 DEF UpdateWaits, Sessions, Pacing
    <3> QED BY <3>1, <3>2, <3>3
  <2>7. CASE UpdateReadsNothing
    <3>1. TypeOK' /\ Backlog'
      BY <2>7 DEF UpdateReadsNothing, NothingToRead
    <3>2. Freshness' /\ Arrivals'
      BY <2>7, <2>1 DEF UpdateReadsNothing, NothingToRead, Freshness, Arrivals
    <3>3. Sessions' /\ Pacing'
      BY <2>7 DEF UpdateReadsNothing, Sessions, Pacing
    <3> QED BY <3>1, <3>2, <3>3
  <2>8. CASE UpdateTries
    <3>1. CASE OpenPort
      BY <2>8, <2>1, <3>1, ResidueGrows DEF UpdateTries, OpenPort, Cleared, NothingToRead, Freshness, Arrivals,
             Sessions, Pacing
    <3>2. CASE OpenFails
      BY <2>8, <3>2 DEF UpdateTries, OpenFails, ClosePort, Cleared, NothingToRead, Freshness, Arrivals,
                        Sessions, Pacing
    <3> QED BY <2>8, <3>1, <3>2 DEF UpdateTries
  <2>9. CASE UpdateLoses
    <3>1. TypeOK' /\ Backlog'
      BY <2>9 DEF UpdateLoses, ClosePort, Cleared
    <3>2. Freshness' /\ Arrivals'
      BY <2>9, <2>1 DEF UpdateLoses, ClosePort, Cleared, NothingToRead, Freshness, Arrivals
    <3>3. Sessions' /\ Pacing'
      BY <2>9 DEF UpdateLoses, ClosePort, Cleared, Sessions, Pacing
    <3> QED BY <3>1, <3>2, <3>3
  <2>10. CASE UpdateTimesOut
    <3>1. TypeOK' /\ Backlog'
      BY <2>10 DEF UpdateTimesOut, ClosePort, Cleared
    <3>2. Freshness' /\ Arrivals'
      BY <2>10, <2>1 DEF UpdateTimesOut, ClosePort, Cleared, NothingToRead, Freshness, Arrivals
    <3>3. Sessions' /\ Pacing'
      BY <2>10 DEF UpdateTimesOut, NothingToRead, ClosePort, Cleared, Sessions, Pacing
    <3> QED BY <3>1, <3>2, <3>3
  <2>11. CASE TxLoses
    <3>1. TypeOK' /\ Backlog'
      BY <2>11 DEF TxLoses, ClosePort, Cleared
    <3>2. Freshness' /\ Arrivals'
      BY <2>11, <2>1 DEF TxLoses, ClosePort, Cleared, NothingToRead, Freshness, Arrivals
    <3>3. Sessions' /\ Pacing'
      BY <2>11 DEF TxLoses, ClosePort, Cleared, Sessions, Pacing
    <3> QED BY <3>1, <3>2, <3>3
  <2>12. CASE UpdateReads
    <3>1. TypeOK' /\ Backlog'
      BY <2>12 DEF UpdateReads, ReadBytes
    <3>2. fd = "open" /\ kernel # {} /\ fd # "closed" /\ fd # "gone"
      BY <2>12 DEF UpdateReads
    <3>3. backlog # 0
      BY <3>2, Zenon DEF LinkInv, Backlog
    <3>4. /\ silence <= late + Residue(backlog) /\ late <= MaxLate
          /\ fd = "open" /\ backlog > 0
      BY <3>2, <3>3 DEF NothingToRead, Freshness
    <3>5. Sessions' /\ Pacing'
      BY <2>12 DEF UpdateReads, ReadBytes, Sessions, Pacing
    <3>6. /\ sinceRx' = 0 /\ late' = 0 /\ silence' = silence
          /\ fd' = "open" /\ backlog' = backlog - 1 /\ Backlog'
      BY <2>12, <3>4 DEF UpdateReads, ReadBytes
    <3>7. Residue(backlog') = Residue(backlog) + MaxLate
      BY <3>4, <3>6, ResidueGrows
    <3>8. silence' <= Residue(backlog')
      BY <2>1, <3>4, <3>6, <3>7
    <3>9. kernel' = {} => Residue(backlog') = Residue(0)
      BY <3>6
    <3>10. Freshness' /\ Arrivals'
      BY <2>1, <3>4, <3>6, <3>7, <3>8, <3>9 DEF NothingToRead, Freshness, Arrivals
    <3> QED BY <3>1, <3>5, <3>6, <3>10
  <2>13. CASE UNCHANGED vars
    BY <2>13 DEF vars, NothingToRead, Freshness, Arrivals, Sessions, Pacing
  <2> QED BY <2>2, <2>3, <2>4, <2>5, <2>6, <2>8, <2>9, <2>12, <2>13,
             <2>7, <2>10, <2>11 DEF Next, Update
<1> QED BY <1>1, <1>2, PTL DEF Spec

(* The state of a connection keeps its type: the ages of the time points   *)
(* stay within Horizon, and rx_buffer_ and the driver hold tags only.      *)
THEOREM TypeCorrect == Spec => []TypeOK
<1>1. LinkInv => TypeOK
  BY DEF LinkInv
<1> QED BY <1>1, LinkInvariant, PTL

(* A port from which nothing comes is closed within rx_timeout and the     *)
(* lateness of the executor, once for every read of a full buffer and once *)
(* more, for every value of the three.                                     *)
THEOREM DeadLinksClose == Spec => []DeadLinkCloses
<1>1. LinkInv => DeadLinkCloses
  <2> SUFFICES ASSUME LinkInv, fd # "closed"
               PROVE  silence < RxTimeout + (MaxReads + 1) * MaxLate
    BY DEF DeadLinkCloses
  <2>1. /\ sinceRx \in Nat /\ silence \in Nat /\ late \in Nat /\ late <= MaxLate
        /\ backlog \in 0..MaxReads /\ (~NothingToRead => backlog > 0)
        /\ fd \in {"closed", "open", "gone"}
    BY DEF LinkInv, TypeOK, Age, Backlog, NothingToRead
  <2>2. /\ Residue(0) \in Nat /\ Residue(backlog) \in Nat
        /\ backlog > 0 => Residue(backlog) + MaxLate <= Residue(0)
    BY <2>1, ResidueGrows
  <2>3. silence < RxTimeout + Residue(0) + MaxLate
    BY <2>1, <2>2 DEF LinkInv, Freshness
  <2>4. \A a \in Nat : (a + 1) * MaxLate = a * MaxLate + MaxLate
    OBVIOUS
  <2>5. (MaxReads + 1) * MaxLate = Residue(0) + MaxLate
    BY <2>4 DEF Residue
  <2> QED BY <2>1, <2>2, <2>3, <2>5
<1> QED BY <1>1, LinkInvariant, PTL

(* Bytes of two sessions of a port are not put together in rx_buffer_.     *)
THEOREM NeverSpliced == Spec => []NoSplice
<1>1. LinkInv => NoSplice
  BY DEF LinkInv, Sessions, NoSplice
<1> QED BY <1>1, LinkInvariant, PTL

(* A port is not closed while bytes come at least every rx_timeout.        *)
THEOREM TimeoutsJustified == Spec => NoPrematureTimeout
<1>1. LinkInv /\ [Next]_vars => [fd = "open" /\ fd' = "closed" => silence >= RxTimeout]_vars
  <2> SUFFICES ASSUME LinkInv, Next, fd = "open", fd' = "closed"
               PROVE  silence >= RxTimeout
    OBVIOUS
  <2>1. UpdateTimesOut
    BY DEF Next, Update, Plug, Unplug, Switch, ByteArrives, Tick, UpdateWaits,
           UpdateTries, UpdateLoses, UpdateReadsNothing, UpdateReads, TxLoses
  <2> QED
    BY <2>1, HorizonFar DEF UpdateTimesOut, NothingToRead, LinkInv, TypeOK, Age, Arrivals
<1> QED BY <1>1, LinkInvariant, PTL DEF Spec, NoPrematureTimeout

(* Attempts of update() to open the port are an interval apart, and an     *)
(* interval after the connection was lost.                                 *)
THEOREM AttemptsPaced == Spec => RetriesPaced
<1>1. LinkInv /\ [Next]_vars => [Attempt /\ retried => waited >= Interval]_vars
  BY HorizonFar DEF LinkInv, TypeOK, Age, Pacing, Attempt
<1> QED BY <1>1, LinkInvariant, PTL DEF Spec, RetriesPaced
===============================================================================
