----------------------------- MODULE FocLoopProofs -----------------------------
(***************************************************************************)
(* Proofs about FocLoop, for any commands, periods and duration of a loop. *)
(***************************************************************************)
EXTENDS FocLoop, TLAPS

USE TimeAssumption

(* What apply_rx makes of a command is something the motor can do.         *)
LEMMA AppliedType == \A c \in Command : Applied(c) \in Drive
<1> SUFFICES ASSUME NEW c \in Command PROVE Applied(c) \in Drive
  OBVIOUS
<1>1. c.velocity \in Int /\ c.angle \in Int
  BY CommandAssumption
<1> QED BY <1>1 DEF Applied, Drive, Stopped, Velocity, Angle

(* An age stays in range, and grows by one while it is below the horizon.  *)
LEMMA CappedAge ==
  ASSUME NEW age \in 0..Horizon
  PROVE  Capped(age) \in 0..Horizon /\ Capped(age) <= age + 1
BY DEF Capped, Horizon

(* The two kinds of batch, and what the loop finds in one.                 *)
LEMMA BatchType ==
  ASSUME NEW c \in Command, NEW torn \in BOOLEAN
  PROVE  /\ Whole(c, torn) \in Batch /\ Rest(torn) \in Batch
         /\ Whole(c, torn).whole /\ Whole(c, torn).command = c
         /\ ~Rest(torn).whole /\ Rest(torn).torn = torn
BY CommandAssumption DEF Whole, Rest, Batch

(* Type correctness.                                                       *)
LEMMA TypeInit == Init => TypeOK
<1> SUFFICES ASSUME Init PROVE TypeOK
  OBVIOUS
<1>1. first \in Batch /\ second \in Batch /\ latest \in Command
  BY BatchType, CommandAssumption DEF Init
<1>2. motor \in Drive /\ driven \in Drive
  BY DEF Init, Drive, Stopped, Velocity
<1>3. /\ rxAge \in 0..Horizon /\ latestAge \in 0..Horizon
      /\ txAge \in 0..SetupTime + LoopTime /\ frameAge \in Nat
      /\ draining \in 0..DrainTime /\ loopAge \in 0..LoopTime
  <2>1. /\ rxAge = Horizon /\ latestAge = 0 /\ txAge = SetupTime
        /\ frameAge = SetupTime /\ draining = 0 /\ loopAge = 0
    BY Zenon DEF Init
  <2> QED BY <2>1 DEF Horizon
<1>4. /\ pc = "serial" /\ rx \in Command
      /\ sent \in BOOLEAN /\ began \in BOOLEAN
      /\ astray \in BOOLEAN /\ exposed \in BOOLEAN
  BY CommandAssumption, Zenon DEF Init
<1> QED BY <1>1, <1>2, <1>3, <1>4 DEF TypeOK

LEMMA BehindType == TypeOK => Behind(first) \in BOOLEAN
BY DEF TypeOK, Batch, Behind

LEMMA TypeStep == FocInv /\ [Next]_vars => TypeOK'
<1> SUFFICES ASSUME TypeOK, Telemetry, [Next]_vars PROVE TypeOK'
  BY DEF FocInv
<1> USE DEF TypeOK, ageVars, buffer
<1>1. ASSUME NEW c \in Command, Arrives(c) PROVE TypeOK'
  <2>1. first' \in Batch /\ second' \in Batch
    BY <1>1, BatchType DEF Arrives
  <2>2. exposed' \in BOOLEAN
    BY <1>1, BehindType, Zenon DEF Arrives
  <2>3. latestAge' \in 0..Horizon
    BY <1>1 DEF Arrives, Horizon
  <2> QED BY <1>1, <2>1, <2>2, <2>3 DEF Arrives
<1>2. CASE Tears
  BY <1>2 DEF Tears, Batch
<1>3. CASE Tick
  <2>1. rxAge' \in 0..Horizon /\ latestAge' \in 0..Horizon
    BY <1>3, CappedAge DEF Tick
  <2>2. loopAge' \in 0..LoopTime /\ txAge' \in 0..SetupTime + LoopTime
    BY <1>3 DEF Tick, Telemetry
  <2>3. draining' \in 0..DrainTime /\ frameAge' \in Nat
    BY <1>3 DEF Tick
  <2> QED BY <1>3, <2>1, <2>2, <2>3 DEF Tick
<1>4. CASE Serial
  <2>1. first' \in Batch /\ second' \in Batch
    BY <1>4, BatchType, CommandAssumption DEF Serial, Receive, ReadBatch
  <2>2. rx' \in Command /\ rxAge' \in 0..Horizon
    BY <1>4 DEF Serial, Receive, ReadBatch, Takes, Batch, Horizon
  <2>3. astray' \in BOOLEAN
    BY <1>4, BehindType, Zenon DEF Serial, Receive, ReadBatch
  <2>4. /\ txAge' \in 0..SetupTime + LoopTime /\ frameAge' \in Nat
        /\ draining' \in 0..DrainTime
    BY <1>4 DEF Serial, Transmit, SendFrame
  <2>5. sent' \in BOOLEAN /\ began' \in BOOLEAN
    <3>1. sent' = FALSE \/ sent' = (draining = 0)
      BY <1>4, Zenon DEF Serial, Transmit, SendFrame
    <3>2. began' = began \/ began' = (began \/ draining = 0)
      BY <1>4, Zenon DEF Serial, Transmit, SendFrame
    <3> QED BY <3>1, <3>2, Zenon
  <2>6. /\ pc' = "apply" /\ loopAge' = 0
        /\ UNCHANGED <<motor, driven, latest, latestAge, exposed>>
    BY <1>4 DEF Serial
  <2> QED BY <2>1, <2>2, <2>3, <2>4, <2>5, <2>6
<1>5. CASE Apply
  BY <1>5, AppliedType DEF Apply
<1>6. CASE Move
  BY <1>6 DEF Move
<1>7. CASE UNCHANGED vars
  BY <1>7 DEF vars
<1> QED BY <1>1, <1>2, <1>3, <1>4, <1>5, <1>6, <1>7 DEF Next

(* When the command in each batch will drive the motor.                    *)
LEMMA QueueInit == Init => Queue
<1> SUFFICES ASSUME Init PROVE Queue
  OBVIOUS
<1>1. ~first.torn /\ ~astray
  BY BatchType DEF Init, Whole, Rest
<1>2. /\ second.whole => latest = second.command
      /\ first.whole /\ ~second.whole => latest = first.command
      /\ ~first.whole /\ ~second.whole => latest = NoCommand
  BY BatchType DEF Init
<1>3. /\ latestAge = 0 /\ loopAge = 0 /\ pc = "serial"
      /\ rx = NoCommand /\ driven = Stopped
  BY Zenon DEF Init
<1>4. Applied(NoCommand) = Stopped
  BY DEF Applied, NoCommand
<1>5. ~Behind(first) \/ (~first.whole /\ ~second.whole) \/ first.whole \/ second.whole
  OBVIOUS
<1>6. ~Behind(first)
  BY <1>1 DEF Behind
<1> QED BY <1>1, <1>2, <1>3, <1>4, <1>6 DEF Queue, Settled

LEMMA QueueStep == FocInv /\ TypeOK' /\ [Next]_vars => Queue'
<1> SUFFICES ASSUME TypeOK, TypeOK', Queue, [Next]_vars PROVE Queue'
  BY DEF FocInv
<1> USE DEF ageVars, buffer, Settled
<1>1. /\ loopAge \in Nat /\ loopAge <= LoopTime /\ latestAge \in Nat
      /\ first \in Batch /\ second \in Batch
  BY DEF TypeOK
<1>2. ASSUME NEW c \in Command, Arrives(c) PROVE Queue'
  <2>1. latest' = c /\ latestAge' = 0 /\ UNCHANGED <<loopAge, astray>>
    BY <1>2 DEF Arrives
  <2>2. CASE first = Rest(FALSE)
    <3>1. /\ first'.whole /\ first'.command = c
          /\ ~second'.whole /\ exposed' = astray
      BY <1>2, <2>2, BatchType DEF Arrives
    <3> QED BY <1>1, <2>1, <3>1 DEF Queue
  <2>3. CASE first # Rest(FALSE)
    <3>1. /\ second'.whole /\ second'.command = c
          /\ exposed' = Behind(first) /\ first' = first
      BY <1>2, <2>3, BatchType DEF Arrives
    <3>2. ~exposed' => ~Behind(first)'
      BY <2>1, <3>1 DEF Behind
    <3> QED BY <1>1, <2>1, <3>1, <3>2 DEF Queue
  <2> QED BY <2>2, <2>3
<1>3. CASE Tears
  <2>1. /\ second'.whole = second.whole /\ second'.command = second.command
        /\ UNCHANGED <<pc, ageVars, first, astray, rx, motor, driven, latest, exposed>>
    BY <1>1, <1>3 DEF Tears, Batch
  <2> QED BY <2>1 DEF Queue, Behind
<1>4. CASE Tick
  <2>1. latestAge' \in Nat /\ latestAge' <= latestAge + 1
    BY <1>4, CappedAge DEF Tick, TypeOK
  <2>2. /\ loopAge' = loopAge + 1
        /\ UNCHANGED <<pc, buffer, astray, rx, motor, driven, latest, exposed>>
    BY <1>4 DEF Tick
  <2> QED BY <1>1, <2>1, <2>2 DEF Queue, Behind
<1>5. CASE Serial
  <2>1. /\ pc = "serial" /\ pc' = "apply" /\ loopAge' = 0
        /\ first' = second /\ ~second'.whole /\ astray' = Behind(first)
        /\ UNCHANGED <<motor, driven, latest, latestAge, exposed>>
    BY <1>5 DEF Serial, Receive, ReadBatch, Rest
  <2>2. CASE second.whole
    BY <1>1, <2>1, <2>2 DEF Queue
  <2>3. CASE first.whole /\ ~second.whole
    <3>1. ~exposed => rx' = latest
      BY <1>5, <2>3 DEF Serial, Receive, ReadBatch, Takes, Queue
    <3> QED BY <1>1, <2>1, <2>3, <3>1 DEF Queue
  <2>4. CASE ~first.whole /\ ~second.whole
    <3>1. rx' = rx
      BY <1>5, <2>4 DEF Serial, Receive, ReadBatch
    <3> QED BY <1>1, <2>1, <2>4, <3>1 DEF Queue
  <2> QED BY <2>2, <2>3, <2>4
<1>6. CASE Apply
  BY <1>6 DEF Apply, Queue, Behind
<1>7. CASE Move
  BY <1>7 DEF Move, Queue, Behind
<1>8. CASE UNCHANGED vars
  BY <1>8 DEF vars, Queue, Behind
<1> QED BY <1>2, <1>3, <1>4, <1>5, <1>6, <1>7, <1>8 DEF Next

(* What a refused frame leaves of the time the last one drains.            *)
LEMMA TelemetryStep == FocInv /\ [Next]_vars => Telemetry'
<1> SUFFICES ASSUME TypeOK, Telemetry, [Next]_vars PROVE Telemetry'
  BY DEF FocInv
<1> USE DEF TypeOK, ageVars
<1>1. CASE Serial
  <2>1. loopAge' = 0
    BY <1>1 DEF Serial
  <2>2. CASE ~Due
    <3>1. UNCHANGED <<began, draining, frameAge, txAge>> /\ began
      BY <1>1, <2>2 DEF Serial, Transmit, Due, Telemetry
    <3> QED BY <2>1, <2>2, <3>1 DEF Telemetry, Due
  <2>3. CASE Due /\ draining = 0
    <3>1. began'
      BY <1>1, <2>3, Zenon DEF Serial, Transmit, SendFrame
    <3>2. txAge' = 0 /\ frameAge' = 0 /\ draining' = DrainTime
      BY <1>1, <2>3 DEF Serial, Transmit, SendFrame
    <3> QED BY <2>1, <3>1, <3>2 DEF Telemetry
  <2>4. CASE Due /\ draining # 0
    <3>1. UNCHANGED <<began, draining, frameAge>> /\ txAge' = 0 /\ began
      BY <1>1, <2>4 DEF Serial, Transmit, SendFrame, Telemetry
    <3>2. frameAge >= TxPeriod /\ draining + frameAge = DrainTime
      BY <2>4, <3>1 DEF Telemetry, Due
    <3> QED BY <2>1, <2>4, <3>1, <3>2 DEF Telemetry
  <2> QED BY <2>2, <2>3, <2>4
<1>2. CASE Tick
  BY <1>2 DEF Tick, Telemetry
<1>3. CASE (\E c \in Command : Arrives(c)) \/ Tears \/ Apply \/ Move \/ UNCHANGED vars
  <2>1. UNCHANGED <<loopAge, txAge, draining, frameAge, began>>
    BY <1>3 DEF Arrives, Tears, Apply, Move, vars
  <2> QED BY <2>1 DEF Telemetry
<1> QED BY <1>1, <1>2, <1>3 DEF Next

(* The inductive invariant of the loop.                                    *)
THEOREM FocInvariant == Spec => []FocInv
<1>1. Init => FocInv
  <2>1. Init => Telemetry
    BY DEF Init, Telemetry
  <2> QED BY <2>1, TypeInit, QueueInit DEF FocInv
<1>2. FocInv /\ [Next]_vars => FocInv'
  BY TypeStep, QueueStep, TelemetryStep DEF FocInv
<1> QED BY <1>1, <1>2, PTL DEF Spec

(* The last command to have arrived drives the motor within three loops,   *)
(* unless it came behind a frame that was cut.                             *)
THEOREM Prompt == Spec => []CommandsPrompt
<1>1. FocInv => CommandsPrompt
  <2> SUFFICES ASSUME TypeOK, Queue, latestAge > 3 * LoopTime, ~exposed PROVE Settled
    BY DEF FocInv, CommandsPrompt, Settled
  <2>1. latestAge \in Nat /\ loopAge \in Nat /\ loopAge <= LoopTime
    BY DEF TypeOK
  <2>2. ~first.whole /\ ~second.whole
    BY <2>1 DEF Queue
  <2> QED BY <2>1, <2>2 DEF Queue
<1> QED BY <1>1, FocInvariant, PTL

(* The gap between two frames, whether or not a frame finds room.          *)
THEOREM Regular == Spec => []TelemetryRegular
<1>1. FocInv => TelemetryRegular
  BY DEF FocInv, TypeOK, Telemetry, TelemetryRegular, Refused
<1> QED BY <1>1, FocInvariant, PTL

(* Two frames are a period apart, and no frame is written without room.    *)
THEOREM Spaced == Spec => TelemetrySpaced
<1>1. FocInv /\ [Next]_vars
        => [pc = "serial" /\ pc' = "apply" /\ sent' =>
              frameAge >= TxPeriod /\ frameAge >= DrainTime]_vars
  <2> SUFFICES ASSUME TypeOK, Telemetry, [Next]_vars, pc = "serial",
                      pc' = "apply", sent'
               PROVE  frameAge >= TxPeriod /\ frameAge >= DrainTime
    BY DEF FocInv
  <2>1. Serial
    BY DEF Next, Arrives, Tears, Tick, Apply, Move, vars
  <2>2. txAge >= TxPeriod
    BY <2>1, Zenon DEF Serial, Transmit, Due
  <2>3. draining = 0
    <3>1. sent' = (draining = 0)
      BY <2>1, <2>2 DEF Serial, Transmit, Due, SendFrame
    <3> QED BY <3>1
  <2>4. frameAge >= TxPeriod
    BY <2>2 DEF TypeOK, Telemetry
  <2>5. frameAge >= DrainTime
    <3>1. CASE began
      BY <2>3, <3>1, TimeAssumption DEF TypeOK, Telemetry
    <3>2. CASE ~began
      BY <3>2, TimeAssumption DEF TypeOK, Telemetry
    <3> QED BY <3>1, <3>2
  <2> QED BY <2>4, <2>5
<1> QED BY <1>1, FocInvariant, PTL DEF Spec, TelemetrySpaced
===============================================================================
