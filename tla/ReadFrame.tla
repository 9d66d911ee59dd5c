------------------------------- MODULE ReadFrame -------------------------------
(***************************************************************************)
(* How the scanner identifies the device at a port: read_frame()           *)
(* (port_scanner.cpp) reads the port byte by byte from wherever the device *)
(* happens to be in its stream, until it has a frame, or gives up.  Each   *)
(* read waits for a byte for VTIME (open_serial_port); the loop counts one *)
(* millisecond for one that got none.                                      *)
(***************************************************************************)
EXTENDS FrameCodec

CONSTANTS
  Stream,        \* what the device sends over and over
  Boundaries,    \* the positions in Stream before which it may pause
  MaxGap,        \* reads in vain during a pause
  MaxDamage,     \* bound on the bytes damaged on the line
  TimeoutMs,     \* timeout_ms
  MaxFrameSize   \* MAX_FRAME_SIZE

ASSUME StreamAssumption ==
  /\ Stream \in Seq(Byte) /\ Stream # <<>>
  /\ Boundaries \subseteq DOMAIN Stream
  /\ MaxGap \in Nat /\ MaxDamage \in Nat
  /\ TimeoutMs \in Nat /\ MaxFrameSize \in Nat /\ MaxFrameSize >= 4

(* The byte at a position up to one round ahead.                           *)
At(p) == IF p <= Len(Stream) THEN Stream[p] ELSE Stream[p - Len(Stream)]

(* The device sends a start byte now and then.                             *)
Starts == \E p \in DOMAIN Stream : Stream[p] = StartByte

(* A device a scan can identify: each start byte it sends begins a frame   *)
(* of its own that fits into buf and has no other start byte in it, and it *)
(* pauses, for less than the timeout, between frames only.                 *)
PlainDevice ==
  /\ Len(Stream) >= 4 /\ Starts
  /\ \A p \in DOMAIN Stream : Stream[p] = StartByte =>
       LET size == 4 + At(p + 2) IN
       /\ size <= MaxFrameSize /\ size <= Len(Stream)
       /\ At(p + 1) = DeviceId
       /\ \A i \in 1..(size - 1) : At(p + i) # StartByte
       /\ Checksum([i \in 1..(size - 2) |-> At(p + i)]) = At(p + size - 1)
  /\ \A p \in Boundaries : Stream[p] = StartByte
  /\ MaxGap < TimeoutMs

VARIABLES
  silent,     \* the device was unplugged, or its firmware hangs
  damage,     \* number of bytes damaged
  pos,        \* position in Stream of the byte the device sends next
  gap,        \* reads in vain of the present pause
  buf,        \* buf[0 .. idx - 1]
  totalWait,  \* total_wait
  result      \* "reading", or what read_frame has returned

vars == <<silent, damage, pos, gap, buf, totalWait, result>>

TypeOK ==
  /\ silent \in BOOLEAN
  /\ damage \in 0..MaxDamage
  /\ pos \in DOMAIN Stream
  /\ gap \in 0..MaxGap
  /\ buf \in Seq(Byte) /\ Len(buf) <= MaxFrameSize
  /\ totalWait \in 0..TimeoutMs
  /\ result \in {"reading", "true", "false"}

Init ==
  /\ silent = FALSE
  /\ damage = 0
  /\ pos \in DOMAIN Stream
  /\ gap = 0
  /\ buf = <<>>
  /\ totalWait = 0
  /\ result = "reading"

-------------------------------------------------------------------------------
Silence ==
  /\ ~silent
  /\ silent' = TRUE
  /\ UNCHANGED <<damage, pos, gap, buf, totalWait, result>>

(* Length of the frame begun in b, once its LEN has been read.             *)
SizeOfBegunShort(b) == 3 + b[3]
SizeOfBegun(b) == 3 + b[3] + 1

TooLong(b) == SizeOfBegun(b) > MaxFrameSize

(* What is returned, if anything, once b has been read.                    *)
ResultOf(b) ==
  IF Len(b) = 3 /\ TooLong(b) THEN "false"
  ELSE IF Len(b) < 3 \/ Len(b) # SizeOfBegun(b) THEN "reading"
  ELSE IF Checksum(SubSeq(b, 2, Len(b) - 1)) = b[Len(b)] THEN "true"
  ELSE "false"

(* Before a start byte everything is skipped.                              *)
SkippedNever(b) == FALSE
Skipped(b) == buf = <<>> /\ b # StartByte

(* A byte is read, the one the device sent or a damaged one.               *)
ReadByte ==
  /\ result = "reading" /\ totalWait < TimeoutMs
  /\ ~silent
  /\ \E b \in Byte :
       /\ damage' = IF b = Stream[pos] THEN damage ELSE damage + 1
       /\ damage' <= MaxDamage
       /\ buf' = IF Skipped(b) THEN buf ELSE Append(buf, b)
       /\ result' = ResultOf(buf')
  /\ pos' = (pos % Len(Stream)) + 1
  /\ gap' = 0
  /\ UNCHANGED <<silent, totalWait>>

(* The read is in vain: it times out, then usleep(1000).                   *)
ReadNothingUncounted ==
  /\ result = "reading" /\ totalWait < TimeoutMs
  /\ silent \/ (pos \in Boundaries /\ gap < MaxGap)
  /\ gap' = IF silent THEN gap ELSE gap + 1
  /\ UNCHANGED <<silent, damage, pos, buf, totalWait, result>>

ReadNothing ==
  /\ result = "reading" /\ totalWait < TimeoutMs
  /\ silent \/ (pos \in Boundaries /\ gap < MaxGap)
  /\ totalWait' = totalWait + 1
  /\ gap' = IF silent THEN gap ELSE gap + 1
  /\ UNCHANGED <<silent, damage, pos, buf, result>>

GiveUp ==
  /\ result = "reading" /\ totalWait >= TimeoutMs
  /\ result' = "false"
  /\ UNCHANGED <<silent, damage, pos, gap, buf, totalWait>>

(* read_frame has returned.                                                *)
Returned == result # "reading" /\ UNCHANGED vars

Next == Silence \/ ReadByte \/ ReadNothing \/ GiveUp \/ Returned

Spec == Init /\ [][Next]_vars
FairSpec == Spec /\ WF_vars(ReadByte \/ ReadNothing \/ GiveUp)

-------------------------------------------------------------------------------
(* port_scanner.cpp:2-3: a PlainDevice that sends is recognised by one     *)
(* scan, wherever in its stream the scan finds it and however it pauses.   *)
Recognised == result = "false" => silent \/ damage > 0

(* port_scanner.cpp:3, README features: and under the ID it was given.     *)
IdentifiedRight == result = "true" /\ damage = 0 => buf[2] = DeviceId

(* port_scanner.cpp:130-173: read_frame comes to an end once the device is *)
(* silent, and if it sends start bytes, whatever follows them.             *)
Ends == Starts \/ <>silent => <>(result # "reading")
===============================================================================
