------------------------------ MODULE FrameCodec ------------------------------
(***************************************************************************)
(* The frame both ends of a serial line exchange:                          *)
(*   [START_BYTE] [ID] [LEN] [DATA ...] [CHECKSUM]                         *)
(* with int16 words in DATA, high byte first, and the XOR of everything    *)
(* between the start byte and itself as checksum.  A byte is a number      *)
(* below Base, so that a small Base gives small instances; a word has the  *)
(* width of two bytes and is signed.                                       *)
(***************************************************************************)
EXTENDS Integers, Sequences, SequencesExt

CONSTANTS
  Base,       \* number of values of a byte (256 in the code)
  StartByte,  \* kStartByte
  DeviceId    \* the ID of the device on this line

ASSUME BaseAssumption ==
  /\ Base \in {2, 4, 8, 16, 32, 64, 128, 256}
  /\ {StartByte, DeviceId} \subseteq 0..(Base - 1)

Byte == 0..(Base - 1)

(* The int16_t values.                                                     *)
Word == (-(Base * Base) \div 2)..((Base * Base) \div 2 - 1)

(* Bit by bit, the lowest first.                                           *)
XorOf[p \in Byte \X Byte] ==
  IF p = <<0, 0>> THEN 0
  ELSE ((p[1] + p[2]) % 2) + 2 * XorOf[<<p[1] \div 2, p[2] \div 2>>]

Checksum(s) ==
  LET sum[k \in 0..Len(s)] == IF k = 0 THEN 0 ELSE XorOf[<<sum[k - 1], s[k]>>]
  IN sum[Len(s)]

(* (uint8_t)(w >> 8), w & 0xFF and back: two's complement both ways.       *)
HighByte(w) == (w \div Base) % Base
LowByte(w)  == w % Base
ToWordUnsigned(hi, lo) == hi * Base + lo
ToWordSwapped(hi, lo) ==
  LET u == lo * Base + hi IN
  IF u < (Base * Base) \div 2 THEN u ELSE u - Base * Base
ToWord(hi, lo) ==
  LET u == hi * Base + lo IN
  IF u < (Base * Base) \div 2 THEN u ELSE u - Base * Base

(* The words of a DATA field; the last byte of an odd one is ignored.      *)
Words(data) ==
  [i \in 1..(Len(data) \div 2) |-> ToWord(data[2 * i - 1], data[2 * i])]

(* What send_frame() and tx_callback() write.                              *)
Frame(id, words) ==
  LET data == [k \in 1..(2 * Len(words)) |->
                 IF k % 2 = 1 THEN HighByte(words[(k + 1) \div 2])
                              ELSE LowByte(words[k \div 2])]
      body == <<id, 2 * Len(words)>> \o data
  IN <<StartByte>> \o body \o <<Checksum(body)>>

(* What the line may make of a frame: one byte is lost, or another.        *)
Garbled(f) ==
  ({RemoveAt(f, k) : k \in DOMAIN f}
     \cup {ReplaceAt(f, k, b) : k \in DOMAIN f, b \in Byte}) \ {f}
===============================================================================
