------------------------------- MODULE BridgeRx -------------------------------
(***************************************************************************)
(* How SerialBridgeNode::update() (bridge_node.cpp) turns the bytes its    *)
(* device sends into messages on serial_rx_<id>.  read() returns whatever  *)
(* happens to have arrived, so a frame may come in any number of pieces    *)
(* and several in one; bytes may be lost or damaged on the line; and a     *)
(* session of the port may start in the middle of a frame.                 *)
(***************************************************************************)
EXTENDS Messages

CONSTANTS
  ReadSize,   \* kReadBufferSize
  MaxFrames,  \* MAX_FRAMES
  Feedback,   \* the words a device may send, the same number in each
  KernelSize  \* the driver's buffer: a frame is sent when there is room for it

FrameLen == 4 + 2 * Rx16Num
MaxFrameLen == 4 + (Base - 1)

(* The driver holds a frame.                                               *)
ASSUME BridgeAssumption ==
  /\ Feedback \subseteq [1..Rx16Num -> Word]
  /\ {ReadSize, MaxFrames, KernelSize} \subseteq Nat
  /\ FrameLen <= KernelSize

(* An update has turns for all the whole frames a read can complete.       *)
TurnsSuffice == ReadSize + FrameLen <= MaxFrames * FrameLen

VARIABLES
  kernel,    \* bytes that have arrived and have not been read
  rxBuffer,  \* rx_buffer_
  out,       \* the messages the last update() has published
  sent,      \* while nothing was damaged: what was sent and not yet published
  harm       \* number of damaged frames and new sessions

bridgeVars == <<kernel, rxBuffer, out, sent, harm>>

BridgeTypeOK ==
  /\ kernel \in Seq(Byte) /\ Len(kernel) <= KernelSize
  /\ rxBuffer \in Seq(Byte)
  /\ out \in Seq([1..Rx16Num -> Word])
  /\ sent \in Seq(Feedback)
  /\ harm \in 0..MaxDamage

BridgeInit ==
  /\ kernel = <<>> /\ rxBuffer = <<>>
  /\ out = <<>> /\ sent = <<>>
  /\ harm = 0

-------------------------------------------------------------------------------
(* The device and the line.                                                *)

Send(w) ==
  LET f == Frame(DeviceId, w) IN
  /\ Len(kernel) + Len(f) <= KernelSize
  /\ kernel' = kernel \o f
  /\ sent' = IF harm = 0 THEN Append(sent, w) ELSE <<>>
  /\ UNCHANGED <<rxBuffer, out, harm>>

SendGarbled(w) ==
  LET f == Frame(DeviceId, w) IN
  /\ harm < MaxDamage
  /\ Len(kernel) + Len(f) <= KernelSize
  /\ \E g \in Garbled(f) : kernel' = kernel \o g
  /\ sent' = <<>>
  /\ harm' = harm + 1
  /\ UNCHANGED <<rxBuffer, out>>

(* close_port() and try_open_port(): both buffers are emptied while the    *)
(* device is in the middle of a frame.                                     *)
Reopen(w) ==
  /\ harm < MaxDamage
  /\ kernel' \in Suffixes(Frame(DeviceId, w))
  /\ rxBuffer' = <<>>
  /\ sent' = <<>>
  /\ harm' = harm + 1
  /\ UNCHANGED out

-------------------------------------------------------------------------------
(* update()                                                                *)

(* Length of the frame that starts s, if it is one.                        *)
SizeOfShort(s) == 3 + s[3]
SizeOf(s) == 4 + s[3]

ChecksumOk(s) == Checksum(SubSeq(s, 2, SizeOf(s) - 1)) = s[SizeOf(s)]

(* The message made of a frame: missing words are 0, excess ones dropped.  *)
Message(s) ==
  LET w == Words(SubSeq(s, 4, SizeOf(s) - 1)) IN
  [i \in 1..Rx16Num |-> IF i <= Len(w) THEN w[i] ELSE 0]

(* Not enough bytes: for any frame, or for the one that starts s.          *)
IncompleteLonger(s) == Len(s) < 4 \/ (s[1] = StartByte /\ Len(s) <= SizeOf(s))
Incomplete(s) == Len(s) < 4 \/ (s[1] = StartByte /\ Len(s) < SizeOf(s))

Valid(s) == s[1] = StartByte /\ ChecksumOk(s)

(* A turn of the loop of update() on the messages published and what is    *)
(* left of rx_buffer_.  A byte that starts no valid frame is dropped, a    *)
(* valid frame as a whole.                                                 *)
Parsed == [out : Seq([1..Rx16Num -> Word]), rest : Seq(Byte)]

(* MAX_FRAMES own frames have been published.                              *)
SpentEarly(p) == Len(p.out) = MaxFrames - 1
Spent(p) == Len(p.out) = MaxFrames

Turn[p \in Parsed] ==
  LET s     == p.rest
      after == SubSeq(s, SizeOf(s) + 1, Len(s))
  IN IF Spent(p) \/ Incomplete(s) THEN p
     ELSE IF ~Valid(s) THEN [out |-> p.out, rest |-> Tail(s)]
     ELSE IF s[2] # DeviceId THEN [out |-> p.out, rest |-> after]
     ELSE [out |-> Append(p.out, Message(s)), rest |-> after]

(* With what the limit leaves thrown away.                                 *)
ParseDropping(s) ==
  LET loop[k \in 0..Len(s)] ==
        IF k = 0 THEN [out |-> <<>>, rest |-> s] ELSE Turn[loop[k - 1]]
      p == loop[Len(s)]
  IN IF Spent(p) THEN [out |-> p.out, rest |-> <<>>] ELSE p

(* The whole loop: every turn but the last ones, which find it ended,      *)
(* drops a byte at least.                                                  *)
Parse(s) ==
  LET loop[k \in 0..Len(s)] ==
        IF k = 0 THEN [out |-> <<>>, rest |-> s] ELSE Turn[loop[k - 1]]
  IN loop[Len(s)]

(* rx_buffer_ with the first n bytes appended.                             *)
Appended(n) == rxBuffer \o SubSeq(kernel, 1, n)

(* An update in which read() returns the first n bytes.                    *)
Update(n) ==
  /\ n <= ReadSize
  /\ LET p == Parse(Appended(n)) IN
       /\ rxBuffer' = p.rest
       /\ out' = p.out
  /\ kernel' = SubSeq(kernel, n + 1, Len(kernel))
  /\ sent' = IF harm = 0
                 THEN SubSeq(sent, Len(out') + 1, Len(sent))
                 ELSE <<>>
  /\ UNCHANGED harm

Reads == \E n \in DOMAIN kernel : Update(n)

BridgeNext ==
  \/ \E w \in Feedback : Send(w) \/ SendGarbled(w) \/ Reopen(w)
  \/ Reads

BridgeSpec == BridgeInit /\ [][BridgeNext]_bridgeVars

(* The device goes on sending and the timer goes on firing.                *)
BridgeFairSpec ==
  /\ BridgeSpec
  /\ WF_bridgeVars(\E w \in Feedback : Send(w))
  /\ WF_bridgeVars(Reads)

-------------------------------------------------------------------------------
(* The frames of a whole byte string, without buffer, loop or limit: a     *)
(* frame is taken where a start byte is followed by a body with the right  *)
(* checksum, unless it overlaps an earlier one, or comes after a start     *)
(* byte whose frame is not complete yet.  Scanned is what position p of s  *)
(* makes of t, which stands for the positions before: the first one behind *)
(* the last frame, whether a frame is waited for, the messages.            *)
Scanned(s, p, t) ==
  LET size == 4 + s[p + 2] IN
  IF t.waits \/ p < t.free \/ s[p] # StartByte \/ p + 3 > Len(s) THEN t
  ELSE IF p + size - 1 > Len(s) THEN [t EXCEPT !.waits = TRUE]
  ELSE IF Checksum(SubSeq(s, p + 1, p + size - 1)) # 0 THEN t
  ELSE [t EXCEPT !.free = p + size,
                 !.own  = IF s[p + 1] = DeviceId
                          THEN Append(@, Message(SubSeq(s, p, Len(s)))) ELSE @]

Unscanned == [free |-> 1, waits |-> FALSE, own |-> <<>>]

Deframe(s) ==
  LET scan[p \in 0..Len(s)] ==
        IF p = 0 THEN Unscanned ELSE Scanned(s, p, scan[p - 1])
  IN scan[Len(s)].own

(* README 4.4: whatever the reads cut the stream into, and whatever is in  *)
(* it, the same messages come out, each once and in order.                 *)
FindsTheSame ==
  Reads => Deframe(rxBuffer \o kernel) = out' \o Deframe(rxBuffer' \o kernel')

ChunkingIndependent == [][FindsTheSame]_bridgeVars

(* As long as the line does no harm the messages are exactly what the    *)
(* device has sent, in order, word for word, sign included; and what has   *)
(* not been published yet is all there.                                    *)
ExactUpdate ==
  Reads /\ harm = 0 =>
    /\ out' = SubSeq(sent, 1, Len(out'))
    /\ rxBuffer' \o kernel' =
         FlattenSeq([k \in DOMAIN sent' |-> Frame(DeviceId, sent'[k])])

StreamExact == [][ExactUpdate]_bridgeVars

(* An update that MAX_FRAMES does not end leaves no complete frame in      *)
(* rx_buffer_, and less than the longest a LEN byte can announce.          *)
WithheldAtLimit ==
  Len(out) < MaxFrames => /\ Deframe(rxBuffer) = <<>>
                          /\ Len(rxBuffer) < MaxFrameLen

(* bridge_node.cpp:194-196: a complete frame waits in rx_buffer_ for more  *)
(* bytes to arrive only if MAX_FRAMES has ended the update, and MAX_FRAMES *)
(* ends none before the line has done harm.                                *)
NothingWithheld ==
  /\ WithheldAtLimit
  /\ harm = 0 => Len(out) < MaxFrames

(* What is read and not consumed consists of frames the device has sent.   *)
Aligned ==
  LET s == rxBuffer \o kernel IN
  /\ Len(s) % FrameLen = 0
  /\ \A k \in 0..(Len(s) \div FrameLen - 1) :
       \E w \in Feedback :
         SubSeq(s, k * FrameLen + 1, (k + 1) * FrameLen) = Frame(DeviceId, w)

(* README, features: reception recovers.  A device that goes on sending is *)
(* heard again after any harm.                                           *)
FeedbackResumes == []<>(out # <<>>)

(* ... and from some point on nothing it sends is lost or misread.         *)
BridgeResynchronises == FeedbackResumes /\ <>[]Aligned
===============================================================================
