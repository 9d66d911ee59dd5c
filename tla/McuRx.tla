--------------------------------- MODULE McuRx ---------------------------------
(***************************************************************************)
(* How the firmware turns the bytes the bridge writes into commands: the   *)
(* state machine of receive_frame(), which takes the stream one byte at a  *)
(* time and never looks at a byte again.  There are two versions of it:    *)
(* ESP32, STM32 and Arduino accept any header and judge the frame at its   *)
(* end; the B-G431 firmware drops a header that is not its own at once.    *)
(***************************************************************************)
EXTENDS Messages

CONSTANTS
  Payloads,  \* Payloads[s]: the words of serial_tx_<id> messages, Rx16Num in
             \* each, for the version s
  FifoSize   \* a frame is written when the UART has room for it

ASSUME SizeAssumption ==
  /\ Payloads \in [BOOLEAN -> SUBSET [1..Rx16Num -> Word]]
  /\ FifoSize \in Nat

VARIABLES
  strict,      \* the firmware has the B-G431 version
  line,        \* bytes the bridge has written and the firmware not yet read
  rxState,     \* rx_state
  rxId,        \* rx_id
  rxLen,       \* rx_len
  rxBuf,       \* rx_buf[0 .. rx_index - 1]
  rxChecksum,  \* rx_checksum
  commands,    \* Rx_16Data
  fresh,       \* the last byte completed a frame whose words were taken over
  inFlight,    \* while nothing was damaged: messages written, not taken over
  damage       \* number of damaged frames

rxVars == <<rxState, rxId, rxLen, rxBuf, rxChecksum>>
vars == <<strict, line, rxVars, commands, fresh, inFlight, damage>>

TypeOK ==
  /\ strict \in BOOLEAN
  /\ line \in Seq(Byte) /\ Len(line) <= FifoSize
  /\ rxState \in {"start", "id", "len", "data", "checksum"}
  /\ rxId \in Byte /\ rxLen \in Byte /\ rxChecksum \in Byte
  /\ rxBuf \in Seq(Byte)
  /\ commands \in [1..Rx16Num -> Word]
  /\ fresh \in BOOLEAN
  /\ inFlight \in Seq(Payloads[strict])
  /\ damage \in 0..MaxDamage

Init ==
  /\ strict \in BOOLEAN
  /\ line = <<>>
  /\ rxState = "start"
  /\ rxId = 0 /\ rxLen = 0 /\ rxChecksum = 0
  /\ rxBuf = <<>>
  /\ commands = [i \in 1..Rx16Num |-> 0]
  /\ fresh = FALSE
  /\ inFlight = <<>>
  /\ damage = 0

-------------------------------------------------------------------------------
(* tx_callback of the bridge, and the line.                                *)

Write(w) ==
  LET f == Frame(DeviceId, w) IN
  /\ Len(line) + Len(f) <= FifoSize
  /\ line' = line \o f
  /\ inFlight' = IF damage = 0 THEN Append(inFlight, w) ELSE <<>>
  /\ UNCHANGED <<strict, rxVars, commands, fresh, damage>>

(* A byte is lost or damaged: on the line, or in a UART nobody emptied.    *)
WriteGarbled(w) ==
  LET f == Frame(DeviceId, w) IN
  /\ damage < MaxDamage
  /\ Len(line) + Len(f) <= FifoSize
  /\ \E g \in Garbled(f) : line' = line \o g
  /\ inFlight' = <<>>
  /\ damage' = damage + 1
  /\ UNCHANGED <<strict, rxVars, commands, fresh>>

(* The bridge is killed, or its port closed, while it writes.              *)
WriteCut(w) ==
  LET f == Frame(DeviceId, w) IN
  /\ damage < MaxDamage
  /\ Len(line) + Len(f) <= FifoSize
  /\ \E n \in 1..(Len(f) - 1) : line' = line \o SubSeq(f, 1, n)
  /\ inFlight' = <<>>
  /\ damage' = damage + 1
  /\ UNCHANGED <<strict, rxVars, commands, fresh>>

-------------------------------------------------------------------------------
(* receive_frame(), one byte b of its loop.                                *)

Keep == UNCHANGED <<commands, inFlight>> /\ fresh' = FALSE

WaitStart(b) ==
  /\ rxState = "start"
  /\ rxState' = IF b = StartByte THEN "id" ELSE "start"
  /\ UNCHANGED <<rxId, rxLen, rxBuf, rxChecksum>>
  /\ Keep

WaitId(b) ==
  /\ rxState = "id"
  /\ IF strict /\ b # DeviceId
     THEN rxState' = "start" /\ UNCHANGED <<rxId, rxChecksum>>
     ELSE rxState' = "len" /\ rxId' = b /\ rxChecksum' = b
  /\ UNCHANGED <<rxLen, rxBuf>>
  /\ Keep

LengthOkAny(b) == TRUE
LengthOkLess(b) == b < 2 * Rx16Num
LengthOk(b) == IF strict THEN b = 2 * Rx16Num ELSE b <= 2 * Rx16Num

(* rx_index = 0.                                                           *)
WaitLen(b) ==
  /\ rxState = "len"
  /\ rxLen' = b
  /\ rxChecksum' = XorOf[<<rxChecksum, b>>]
  /\ IF LengthOk(b) THEN rxState' = "data" /\ rxBuf' = <<>>
                    ELSE rxState' = "start" /\ UNCHANGED rxBuf
  /\ UNCHANGED rxId
  /\ Keep

(* A first byte is taken even if the length is 0.                          *)
WaitData(b) ==
  /\ rxState = "data"
  /\ rxBuf' = Append(rxBuf, b)
  /\ rxChecksum' = XorOf[<<rxChecksum, b>>]
  /\ rxState' = IF Len(rxBuf') >= rxLen THEN "checksum" ELSE "data"
  /\ UNCHANGED <<rxId, rxLen>>
  /\ Keep

Accepted(b) == rxChecksum = b /\ rxId = DeviceId

(* The state after the checksum byte b.                                    *)
AfterFrameOnlyIfAccepted(b) == IF Accepted(b) THEN "start" ELSE "checksum"
AfterFrame(b) == "start"

(* Words of a shorter frame replace only the first commands.               *)
WaitChecksum(b) ==
  /\ rxState = "checksum"
  /\ rxState' = AfterFrame(b)
  /\ fresh' = Accepted(b)
  /\ LET w == Words(SubSeq(rxBuf, 1, rxLen)) IN
     commands' = IF fresh'
                 THEN [i \in 1..Rx16Num |-> IF i <= Len(w) THEN w[i] ELSE commands[i]]
                 ELSE commands
  /\ inFlight' = IF damage = 0 /\ fresh' THEN Tail(inFlight) ELSE inFlight
  /\ UNCHANGED <<rxId, rxLen, rxBuf, rxChecksum>>

Receive ==
  /\ line # <<>>
  /\ line' = Tail(line)
  /\ LET b == Head(line) IN
     \/ WaitStart(b) \/ WaitId(b) \/ WaitLen(b) \/ WaitData(b) \/ WaitChecksum(b)
  /\ UNCHANGED <<strict, damage>>

Next ==
  \/ \E w \in Payloads[strict] : Write(w) \/ WriteGarbled(w) \/ WriteCut(w)
  \/ Receive

Spec == Init /\ [][Next]_vars

(* serialTask runs every millisecond, and commands keep coming.            *)
FairSpec ==
  /\ Spec
  /\ WF_vars(\E w \in Payloads[strict] : Write(w))
  /\ WF_vars(Receive)

-------------------------------------------------------------------------------
(* serial_task.cpp:195-202: no byte is stored outside rx_buf, whatever LEN *)
(* bytes and damage the stream contains.                                   *)
BufferInBounds == rxState = "data" => Len(rxBuf) < 2 * Rx16Num

(* The bytes of the frame being received that have been read.              *)
Consumed ==
  CASE rxState = "start"    -> <<>>
    [] rxState = "id"       -> <<StartByte>>
    [] rxState = "len"      -> <<StartByte, rxId>>
    [] rxState \in {"data", "checksum"} -> <<StartByte, rxId, rxLen>> \o rxBuf

(* While the line does no damage every message is taken over once, in      *)
(* order and word for word, and none that was written is missing from      *)
(* what is still to come.                                                  *)
CommandsExact ==
  damage = 0 =>
    Consumed \o line =
      FlattenSeq([k \in DOMAIN inFlight |-> Frame(DeviceId, inFlight[k])])
CommandsInOrder ==
  [][damage = 0 /\ fresh' /\ Receive => commands' = Head(inFlight)]_vars

(* serial_task.cpp:47: START_BYTE brings reception back after a damaged    *)
(* frame: commands that keep coming are taken over again.                  *)
CommandsResume == []<>fresh

(* ... and from some point on they are the ones that were sent.            *)
Resynchronises == CommandsResume /\ <>[](commands \in Payloads[strict])
===============================================================================
