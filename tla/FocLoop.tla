-------------------------------- MODULE FocLoop --------------------------------
(***************************************************************************)
(* The loop of the B-G431 motor firmware                                   *)
(* (firmware/b-g431-esc1_simplefoc_serial_bridge/src: loop, apply_rx,      *)
(* serial_task_update) in time: when a command that has arrived drives the *)
(* motor, and when telemetry is sent.                                      *)
(*                                                                         *)
(* A tick is a millisecond.  millis() is only used in differences, which   *)
(* are right across its overflow: time points are kept as ages.  What      *)
(* motor.move() does with controller and target is SimpleFOC's.            *)
(*                                                                         *)
(* A loop reads 52 bytes at most, which have one end of a frame at most,   *)
(* and Serial's buffer has 63: it is kept as the two batches the loop will *)
(* read.  A buffer that is full cuts a frame off in the middle, and the    *)
(* state machine takes the next one for the rest of it.  The bytes         *)
(* themselves are McuRx's: here data hold nothing like a frame's header,   *)
(* DEVICE_ID is not START_BYTE, a frame put together from two fails its    *)
(* checksum, and the tail of a frame without its start is skipped.         *)
(***************************************************************************)
EXTENDS Integers

CONSTANTS
  Command,     \* commands: enable, mode, velocity, angle of Rx_16Data
  TxPeriod,    \* TX_PERIOD_MS
  CmdTimeout,  \* CMD_TIMEOUT_MS
  LoopTime,    \* at most this long from one serial_task_update to the next
  FillTime,    \* the line takes this long for as many bytes as a loop reads
  DrainTime,   \* the line takes this long to make room for another frame
  SetupTime    \* from the last frame of setup() to the first loop

NoCommand == [enable |-> 0, mode |-> 0, velocity |-> 0, angle |-> 0]

ASSUME CommandAssumption ==
  /\ Command \subseteq [enable : Int, mode : Int, velocity : Int, angle : Int]
  /\ NoCommand \in Command

ASSUME TimeAssumption ==
  /\ TxPeriod \in Nat \ {0} /\ CmdTimeout \in Nat /\ LoopTime \in Nat \ {0}
  /\ FillTime \in Nat \ {0} /\ DrainTime \in Nat \ {0}
  /\ SetupTime \in Nat /\ SetupTime >= TxPeriod /\ SetupTime >= DrainTime

VARIABLES
  pc,         \* what the loop does next: "serial", "apply", "move"
  loopAge,    \* time since serial_task_update was last entered
  first,      \* what the loop reads next of Serial's receive buffer
  second,     \* what it reads after that
  astray,     \* receive_frame may be in the middle of a frame that was cut
  rx,         \* Rx_16Data
  rxAge,      \* millis() - last_rx_ms
  txAge,      \* millis() - last_tx_ms
  draining,   \* time until availableForWrite() is a whole frame
  motor,      \* controller and target of the motor
  driven,     \* what motor.move() last drove
  sent,       \* observer: the last serial_task_update sent a frame
  began,      \* observer: loop() has sent a frame
  frameAge,   \* observer: time since a frame was sent
  latest,     \* observer: the last command that got into the buffer
  latestAge,  \* observer: time since it did, in loop()
  exposed     \* observer: it comes after a frame that was cut

ageVars == <<loopAge, rxAge, txAge, draining, frameAge, latestAge>>
buffer == <<first, second>>
vars == <<pc, ageVars, buffer, astray, rx, motor, driven, sent, began, latest,
          exposed>>

(* The bytes of one read: the end of a whole command or none, and then the *)
(* end of the bytes that found room.                                       *)
Batch == [whole : BOOLEAN, command : Command, torn : BOOLEAN]
Whole(c, torn) == [whole |-> TRUE, command |-> c, torn |-> torn]
Rest(torn) == [whole |-> FALSE, command |-> NoCommand, torn |-> torn]

(* Ages beyond this one are alike to everything that looks at them.        *)
Horizon == CmdTimeout + 3 * LoopTime + 1
Capped(age) == IF age < Horizon THEN age + 1 ELSE age

Drive == [controller : {"velocity", "angle"}, target : Int]
Velocity(v) == [controller |-> "velocity", target |-> v]
Angle(a) == [controller |-> "angle", target |-> a]
Stopped == Velocity(0)

TypeOK ==
  /\ pc \in {"serial", "apply", "move"}
  /\ loopAge \in 0..LoopTime
  /\ first \in Batch /\ second \in Batch
  /\ rx \in Command /\ latest \in Command
  /\ rxAge \in 0..Horizon /\ latestAge \in 0..Horizon
  /\ txAge \in 0..SetupTime + LoopTime
  /\ frameAge \in Nat
  /\ draining \in 0..DrainTime
  /\ motor \in Drive /\ driven \in Drive
  /\ sent \in BOOLEAN /\ began \in BOOLEAN
  /\ astray \in BOOLEAN /\ exposed \in BOOLEAN

(* After setup(): the motor is stopped, nothing was read yet.  The buffer  *)
(* has the first 63 bytes to have arrived: one whole command at most, in   *)
(* the second read if the tail of another came first.                      *)
Init ==
  /\ pc = "serial"
  /\ loopAge = 0
  /\ \E c \in Command, torn \in BOOLEAN :
       \/ first = Rest(FALSE) /\ second = Rest(torn) /\ latest = NoCommand
       \/ first = Whole(c, FALSE) /\ second = Rest(torn) /\ latest = c
       \/ first = Rest(FALSE) /\ second = Whole(c, torn) /\ latest = c
  /\ astray = FALSE /\ exposed = FALSE
  /\ rx = NoCommand
  /\ rxAge = Horizon
  /\ txAge = SetupTime
  /\ draining = 0
  /\ motor = Stopped /\ driven = Stopped
  /\ sent = FALSE /\ began = FALSE
  /\ frameAge = SetupTime
  /\ latestAge = 0

-------------------------------------------------------------------------------
(* Whether receive_frame may be in a frame that was cut, after a batch.    *)
Behind(batch) == batch.torn \/ (astray /\ ~batch.whole)

(* The last byte of a command arrives: the end of the first batch, or of   *)
(* the second behind another end.                                          *)
Arrives(c) ==
  /\ second = Rest(FALSE)
  /\ IF first = Rest(FALSE)
     THEN first' = Whole(c, FALSE) /\ exposed' = astray /\ UNCHANGED second
     ELSE second' = Whole(c, FALSE) /\ exposed' = Behind(first)
                                    /\ UNCHANGED first
  /\ latest' = c
  /\ latestAge' = 0
  /\ UNCHANGED <<pc, loopAge, astray, rx, rxAge, txAge, draining, motor, driven,
                 sent, began, frameAge>>

(* The buffer is full in the middle of a frame: until the loop reads, what *)
(* arrives is lost.  A loop leaves room for as much as it reads.           *)
Tears ==
  /\ loopAge >= FillTime
  /\ ~second.torn
  /\ second' = [second EXCEPT !.torn = TRUE]
  /\ UNCHANGED <<pc, ageVars, first, astray, rx, motor, driven, sent, began,
                 latest, exposed>>

(* A millisecond passes, unless the loop is due.                           *)
Tick ==
  /\ loopAge < LoopTime
  /\ loopAge' = loopAge + 1
  /\ rxAge' = Capped(rxAge)
  /\ txAge' = txAge + 1
  /\ draining' = IF draining = 0 THEN 0 ELSE draining - 1
  /\ frameAge' = frameAge + 1
  /\ latestAge' = Capped(latestAge)
  /\ UNCHANGED <<pc, buffer, astray, rx, motor, driven, sent, began, latest,
                 exposed>>

Due == txAge >= TxPeriod

(* receive_frame: a batch is read, and its command taken over unless its   *)
(* bytes went to a frame that was cut.                                     *)
Takes(c) == rx' = c /\ rxAge' = 0
ReadBatch ==
  /\ \/ first.whole /\ Takes(first.command)
     \/ (~first.whole \/ astray) /\ UNCHANGED <<rx, rxAge>>
  /\ first' = second
  /\ second' = Rest(FALSE)
  /\ astray' = Behind(first)
ReceiveWhenDue ==
  IF Due THEN ReadBatch ELSE UNCHANGED <<buffer, astray, rx, rxAge>>
Receive == ReadBatch

(* send_frame: without room for the frame nothing is sent.                 *)
SendFrameUnasked ==
  /\ sent' = TRUE /\ began' = TRUE
  /\ draining' = DrainTime /\ frameAge' = 0
SendFrame ==
  /\ sent' = (draining = 0)
  /\ began' = (began \/ draining = 0)
  /\ draining' = IF draining = 0 THEN DrainTime ELSE draining
  /\ frameAge' = IF draining = 0 THEN 0 ELSE frameAge

(* The telemetry part of serial_task_update.                               *)
TransmitAlwaysMarked ==
  IF Due THEN SendFrame /\ txAge' = 0
  ELSE sent' = FALSE /\ txAge' = 0 /\ UNCHANGED <<began, draining, frameAge>>
Transmit ==
  IF Due THEN SendFrame /\ txAge' = 0
  ELSE sent' = FALSE /\ UNCHANGED <<began, draining, frameAge, txAge>>

Serial ==
  /\ pc = "serial"
  /\ Receive
  /\ Transmit
  /\ loopAge' = 0
  /\ pc' = "apply"
  /\ UNCHANGED <<motor, driven, latest, latestAge, exposed>>

(* What apply_rx makes of a command.                                       *)
Applied(c) ==
  IF c.enable = 0 THEN Stopped
  ELSE IF c.mode = 1 THEN Angle(c.angle) ELSE Velocity(c.velocity)

Apply ==
  /\ pc = "apply"
  /\ motor' = Applied(rx)
  /\ pc' = "move"
  /\ UNCHANGED <<ageVars, buffer, astray, rx, driven, sent, began, latest,
                 exposed>>

(* motor.move(), then update_tx and the next loopFOC.                      *)
Move ==
  /\ pc = "move"
  /\ driven' = motor
  /\ pc' = "serial"
  /\ UNCHANGED <<ageVars, buffer, astray, rx, motor, sent, began, latest, exposed>>

Next == (\E c \in Command : Arrives(c)) \/ Tears \/ Tick \/ Serial \/ Apply \/ Move

Spec == Init /\ [][Next]_vars

-------------------------------------------------------------------------------
(* A command that has got into the buffer whole, and not behind a frame    *)
(* that was cut, drives the motor within three loops, a stop like any      *)
(* other, unless a newer one arrives: however many batches and cut frames  *)
(* there were before, the motor does not stay behind for good              *)
(* (serial_task.cpp:89, 138-200, main.cpp:287-297).                        *)
CommandsPrompt == latestAge > 3 * LoopTime /\ ~exposed => driven = Applied(latest)

(* From its first frame on, loop() never leaves more than a period and a   *)
(* loop without one, and what the last one takes to drain when that is     *)
(* longer than a period: last_tx_ms is also set when send_frame found no   *)
(* room (serial_task.cpp:93-95, 112).  The first frame comes in the first  *)
(* loop, however long setup() took.  The bridge's rx_timeout rests on it.  *)
Refused == IF DrainTime > TxPeriod THEN DrainTime - 1 ELSE 0
TelemetryRegular ==
  frameAge <= IF began THEN TxPeriod + LoopTime + Refused
              ELSE SetupTime + LoopTime

(* Two frames are a period apart at least, and a frame is only written     *)
(* when there is room for the whole of it, so that Serial.write never      *)
(* makes the loop wait (serial_task.cpp:93-95, 112).                       *)
TelemetrySpaced ==
  [][pc = "serial" /\ pc' = "apply" /\ sent' =>
       frameAge >= TxPeriod /\ frameAge >= DrainTime]_vars

(* What makes these inductive: when the command in each batch will drive,  *)
(* and what a refused frame leaves of the time a frame drains.             *)
Settled == driven = Applied(latest)

Queue ==
  /\ second.whole => /\ latest = second.command
                     /\ latestAge <= loopAge
                     /\ ~exposed => ~Behind(first)
  /\ first.whole /\ ~second.whole => /\ latest = first.command
                                     /\ latestAge <= loopAge + LoopTime
                                     /\ ~exposed => ~astray
  /\ ~first.whole /\ ~second.whole /\ ~exposed =>
       /\ rx = latest
       /\ pc = "serial" => Settled
       /\ pc = "move" => motor = Applied(latest)
       /\ Settled \/ latestAge <= loopAge + 2 * LoopTime

Telemetry ==
  /\ ~began => draining = 0 /\ txAge = SetupTime + loopAge /\ frameAge = txAge
  /\ began => /\ txAge <= TxPeriod + loopAge
              /\ draining = IF frameAge < DrainTime THEN DrainTime - frameAge ELSE 0
              /\ \/ frameAge = txAge
                 \/ frameAge >= txAge + TxPeriod /\ frameAge - txAge < DrainTime

FocInv == TypeOK /\ Queue /\ Telemetry

(* config.hpp:26-28 and the firmware's README: without commands for        *)
(* CMD_TIMEOUT_MS the motor is stopped.  Nothing in the loop looks at      *)
(* last_rx_ms: it goes on with the last command.                           *)
StopsWithoutCommands == rxAge > CmdTimeout + LoopTime => driven = Stopped
===============================================================================
