------------------------------- MODULE BridgeLink -------------------------------
(***************************************************************************)
(* The connection of one SerialBridgeNode (bridge_node.cpp) in time: when  *)
(* update() reopens its port, when silence closes it, and which bytes are  *)
(* in the receive buffer.  One tick is one period of the node's timer      *)
(* (config.hpp, kUpdatePeriodMs).  The steady_clock time points of the     *)
(* code are kept as ages, capped where no comparison tells them apart.     *)
(***************************************************************************)
EXTENDS Naturals

CONSTANTS
  RxTimeout,  \* rx_timeout_sec, in ticks
  Interval,   \* reconnect_interval_sec, in ticks
  SendPeriod, \* a sending device sends a byte at least every SendPeriod ticks
  MaxLate,    \* how many ticks may go by between two updates that get as far
              \* as looking at the data: a busy executor, or a read() that
              \* fails with an error other than EIO, ENODEV and ENXIO
  MaxReads    \* read()s of kReadBufferSize bytes that empty a full buffer of
              \* the driver (512 of some 4096 bytes)

ASSUME TimingAssumption ==
  /\ RxTimeout \in Nat \ {0}
  /\ Interval \in Nat
  /\ SendPeriod \in Nat \ {0}
  /\ MaxLate \in Nat \ {0}
  /\ MaxReads \in Nat \ {0}

VARIABLES
  plugged,     \* the device is plugged in
  sending,     \* its firmware sends
  kernel,      \* what the driver's buffer holds: bytes of this session of the
               \* port ("now"), bytes of an earlier one ("before")
  backlog,     \* how many read()s take what it holds
  fd,          \* fd_: "closed", "open", or "gone" once the device was unplugged
  rxBuffer,    \* what rx_buffer_ holds, likewise
  flushed,     \* tcflush succeeded when the port was opened
  sinceRx,     \* age of last_rx_time_
  sinceTry,    \* age of last_reconnect_attempt_
  late,        \* ticks since an update has looked at the data
  silence,     \* ticks since a byte has arrived, or the port was opened
  waited,      \* ticks since the port was closed or could not be opened
  retried      \* update() has tried to open the port, or it has been open

envVars   == <<plugged, sending>>
clockVars == <<late, silence, waited>>
driver    == <<kernel, backlog>>
vars == <<envVars, driver, fd, rxBuffer, flushed, sinceRx, sinceTry, clockVars,
          retried>>

(* Ages beyond this one are alike.                                         *)
Horizon == RxTimeout + Interval + SendPeriod + (MaxReads + 1) * MaxLate + 2

(* system_clock in place of steady_clock: the time may be set back.        *)
AgedBySystemClock(age) == age - 1
Aged(age) == IF age < Horizon THEN age + 1 ELSE age

Tag == {"before", "now"}
Age == 0..Horizon

TypeOK ==
  /\ plugged \in BOOLEAN /\ sending \in BOOLEAN
  /\ kernel \subseteq Tag
  /\ backlog \in 0..MaxReads
  /\ fd \in {"closed", "open", "gone"}
  /\ rxBuffer \subseteq Tag
  /\ flushed \in BOOLEAN
  /\ sinceRx \in Age /\ sinceTry \in Age
  /\ silence \in Age /\ waited \in Age
  /\ late \in 0..MaxLate
  /\ retried \in BOOLEAN

(* The state the constructor leaves: its own try_open_port has succeeded   *)
(* or failed, and last_reconnect_attempt_ lies an interval back.           *)
Init ==
  /\ plugged \in BOOLEAN /\ sending \in BOOLEAN
  /\ fd \in IF plugged THEN {"open", "closed"} ELSE {"closed"}
  /\ flushed \in BOOLEAN
  /\ backlog \in IF flushed THEN {0} ELSE 0..MaxReads
  /\ kernel = IF backlog = 0 THEN {} ELSE {"before"}
  /\ rxBuffer = {}
  /\ sinceRx = 0
  /\ sinceTry = Interval
  /\ late = 0 /\ silence = 0 /\ waited = 0
  /\ retried = (fd = "open")

-------------------------------------------------------------------------------
(* Device and clock.                                                       *)

Plug ==
  /\ ~plugged
  /\ plugged' = TRUE
  /\ UNCHANGED <<sending, driver, fd, rxBuffer, flushed, sinceRx, sinceTry,
                 clockVars, retried>>

Unplug ==
  /\ plugged
  /\ plugged' = FALSE
  /\ kernel' = {} /\ backlog' = 0
  /\ fd' = IF fd = "open" THEN "gone" ELSE fd
  /\ UNCHANGED <<sending, rxBuffer, flushed, sinceRx, sinceTry, clockVars,
                 retried>>

(* The firmware hangs, or runs again.                                      *)
Switch ==
  /\ sending' = ~sending
  /\ UNCHANGED <<plugged, driver, fd, rxBuffer, flushed, sinceRx, sinceTry,
                 clockVars, retried>>

(* A full buffer loses the byte.                                           *)
ByteArrives ==
  /\ plugged /\ sending
  /\ kernel' = kernel \cup {"now"}
  /\ backlog' \in {backlog, backlog + 1} \cap 1..MaxReads
  /\ silence' = 0
  /\ UNCHANGED <<envVars, fd, rxBuffer, flushed, sinceRx, sinceTry, late,
                 waited, retried>>

(* Time does not pass over an update that is due, nor over the next byte   *)
(* of a device that sends.                                                 *)
Tick ==
  /\ late < MaxLate
  /\ plugged /\ sending => silence < SendPeriod
  /\ late' = late + 1
  /\ sinceRx' = Aged(sinceRx)
  /\ sinceTry' = Aged(sinceTry)
  /\ silence' = Aged(silence)
  /\ waited' = Aged(waited)
  /\ UNCHANGED <<envVars, driver, fd, rxBuffer, flushed, retried>>

-------------------------------------------------------------------------------
(* update()                                                                *)

(* rx_buffer_.clear()                                                      *)
Uncleared == rxBuffer' = IF rxBuffer = {} THEN {} ELSE {"before"}
Cleared == rxBuffer' = {}

ClosePort ==
  /\ fd' = "closed"
  /\ Cleared
  /\ waited' = 0
  /\ UNCHANGED <<flushed, sinceRx>>

(* try_open_port after its close_port: open() succeeds.  tcflush drops what*)
(* the driver holds, and may fail.                                         *)
OpenPort ==
  /\ plugged
  /\ fd' = "open"
  /\ Cleared
  /\ flushed' \in BOOLEAN
  /\ backlog' = IF flushed' THEN 0 ELSE backlog
  /\ kernel' = IF backlog' = 0 THEN {} ELSE {"before"}
  /\ sinceRx' = 0
  /\ silence' = 0
  /\ retried' = TRUE
  /\ UNCHANGED waited

(* open() fails: no device, or a device whose permissions are not set yet. *)
OpenFails ==
  /\ ClosePort
  /\ retried' = TRUE
  /\ UNCHANGED <<driver, silence>>

(* With last_reconnect_attempt_ set on every call.                         *)
UpdateWaitsAnew ==
  /\ fd = "closed"
  /\ sinceTry < Interval
  /\ sinceTry' = 0
  /\ late' = 0
  /\ UNCHANGED <<envVars, driver, fd, rxBuffer, flushed, sinceRx, silence,
                 waited, retried>>

UpdateWaits ==
  /\ fd = "closed"
  /\ sinceTry < Interval
  /\ late' = 0
  /\ UNCHANGED <<envVars, driver, fd, rxBuffer, flushed, sinceRx, sinceTry,
                 silence, waited, retried>>

UpdateTries ==
  /\ fd = "closed"
  /\ sinceTry >= Interval
  /\ sinceTry' = 0
  /\ late' = 0
  /\ OpenPort \/ OpenFails
  /\ UNCHANGED envVars

(* With last_reconnect_attempt_ not set when the device is lost.           *)
UpdateLosesUnmarked ==
  /\ fd = "gone"
  /\ ClosePort
  /\ late' = 0
  /\ UNCHANGED <<envVars, driver, sinceTry, silence, retried>>

(* read() fails with EIO, ENODEV or ENXIO.                                 *)
UpdateLoses ==
  /\ fd = "gone"
  /\ ClosePort
  /\ sinceTry' = 0
  /\ late' = 0
  /\ UNCHANGED <<envVars, driver, silence, retried>>

(* There is nothing to read: what the driver may hold after the device was *)
(* unplugged and plugged in again is not for the old descriptor.           *)
NothingToRead == fd = "gone" \/ (fd = "open" /\ kernel = {})

(* read() returns 0 and rx_timeout_ has elapsed.                           *)
UpdateTimesOut ==
  /\ NothingToRead
  /\ sinceRx >= RxTimeout
  /\ ClosePort
  /\ sinceTry' = 0
  /\ late' = 0
  /\ UNCHANGED <<envVars, driver, silence, retried>>

(* With last_rx_time_ set although nothing was read.                       *)
UpdateReadsNothingAnew ==
  /\ NothingToRead
  /\ sinceRx < RxTimeout
  /\ sinceRx' = 0
  /\ late' = 0
  /\ UNCHANGED <<envVars, driver, fd, rxBuffer, flushed, sinceTry, silence,
                 waited, retried>>

UpdateReadsNothing ==
  /\ NothingToRead
  /\ sinceRx < RxTimeout
  /\ late' = 0
  /\ UNCHANGED <<envVars, driver, fd, rxBuffer, flushed, sinceRx, sinceTry,
                 silence, waited, retried>>

(* One read() takes kReadBufferSize bytes, or what there is; the oldest    *)
(* first.  They are appended to rx_buffer_; parsing leaves any part.       *)
ReadBytes ==
  /\ backlog' = backlog - 1
  /\ \E taken, left \in SUBSET kernel :
       /\ taken # {} /\ taken \cup left = kernel
       /\ left = {} <=> backlog' = 0
       /\ "before" \in left => taken = {"before"}
       /\ kernel' = left
       /\ rxBuffer' \in SUBSET (rxBuffer \cup taken)

(* With last_rx_time_ only set when the port is opened.                    *)
UpdateReadsUnmarked ==
  /\ fd = "open"
  /\ kernel # {}
  /\ ReadBytes
  /\ late' = 0
  /\ UNCHANGED <<envVars, fd, flushed, sinceRx, sinceTry, silence, waited,
                 retried>>

(* read() returns bytes, of whatever age: last_rx_time_ is set.            *)
UpdateReads ==
  /\ fd = "open"
  /\ kernel # {}
  /\ ReadBytes
  /\ sinceRx' = 0
  /\ late' = 0
  /\ UNCHANGED <<envVars, fd, flushed, sinceTry, silence, waited, retried>>

Update == \/ UpdateWaits \/ UpdateTries \/ UpdateLoses \/ UpdateTimesOut
          \/ UpdateReadsNothing \/ UpdateReads

(* tx_callback: write() fails with EIO, ENODEV or ENXIO.  Every other      *)
(* outcome leaves the connection as it is.                                 *)
TxLoses ==
  /\ fd = "gone"
  /\ ClosePort
  /\ sinceTry' = 0
  /\ UNCHANGED <<envVars, driver, late, silence, retried>>

Next == \/ Plug \/ Unplug \/ Switch \/ ByteArrives \/ Tick
        \/ Update \/ TxLoses

Spec == Init /\ [][Next]_vars

(* Time passes, the timer fires, and a port that is tried over and over    *)
(* opens.  Nothing is assumed of the device: it is Tick that does not pass *)
(* over the bytes of a device that sends.                                  *)
Fairness ==
  /\ WF_vars(Tick)
  /\ WF_vars(ByteArrives)
  /\ WF_vars(Update)
  /\ SF_vars(UpdateTries /\ OpenPort)

FairSpec == Spec /\ Fairness

-------------------------------------------------------------------------------
(* Properties.                                                             *)

(* bridge_node.cpp:171-184: a port from which nothing comes is closed in   *)
(* time, whether it is unplugged or the firmware hangs, although a byte    *)
(* counts from when it is read and not from when it arrived: every read of *)
(* a backlog, of this session or left by a failed tcflush, counts as life. *)
DeadLinkCloses ==
  fd # "closed" => silence < RxTimeout + (MaxReads + 1) * MaxLate

(* ... and not before: a port whose device is there is only closed when    *)
(* nothing came from it for rx_timeout.                                    *)
NoPrematureTimeout ==
  [][fd = "open" /\ fd' = "closed" => silence >= RxTimeout]_vars

(* An attempt of update() to open the port.                                *)
Attempt == sinceTry >= Interval /\ sinceTry' = 0 /\ fd = "closed"

(* config/serial_bridge.yaml: after a connection was lost, in whichever of *)
(* the three places that notice it (lines 159, 174 and 309), or an attempt *)
(* of update() failed, the next attempt comes an interval later.           *)
RetriesPaced ==
  [][Attempt /\ retried => waited >= Interval]_vars

(* bridge_node.cpp:124-126: a frame is never put together from bytes of    *)
(* two sessions of the port, unless tcflush failed.                        *)
NoSplice == flushed => "before" \notin rxBuffer

(* README 4.3: a device that stays plugged in and sends is connected in    *)
(* the end, and stays connected: silence of the shape its firmware may     *)
(* make never closes the port.                                             *)
StreamConnects ==
  <>[](plugged /\ sending) => <>[](fd = "open")

-------------------------------------------------------------------------------
(* Since the last byte came, the reads before the n that remain have taken *)
(* no longer than this.                                                    *)
Residue(n) == (MaxReads - n) * MaxLate

(* What makes these inductive: how old the last byte read and the last     *)
(* byte arrived can be, and what an unread byte says about it.             *)
Freshness ==
  fd # "closed" =>
    /\ sinceRx < RxTimeout + late
    /\ NothingToRead => silence <= sinceRx + Residue(0)
    /\ ~NothingToRead => silence <= late + Residue(backlog)

Backlog == kernel = {} <=> backlog = 0

Arrivals == fd = "open" /\ kernel = {} => silence >= sinceRx

Sessions ==
  /\ flushed => "before" \notin kernel \cup rxBuffer
  /\ fd = "closed" => rxBuffer = {}

Pacing == fd = "closed" /\ retried => waited >= sinceTry

LinkInv == TypeOK /\ Backlog /\ Freshness /\ Arrivals /\ Sessions /\ Pacing
===============================================================================
