---------------------------- MODULE ReadFrameProofs ----------------------------
(***************************************************************************)
(* Proofs about ReadFrame, for every stream and every timing: read_frame() *)
(* never writes outside buf, and it identifies every PlainDevice.          *)
(***************************************************************************)
EXTENDS ReadFrame, TLAPS

L == Len(Stream)

LEMMA StreamFacts ==
  /\ L \in Nat \ {0} /\ DOMAIN Stream = 1 .. L
  /\ \A p \in 1 .. L : Stream[p] \in Byte
  /\ \A b \in Byte : b \in Nat
  /\ StartByte \in Byte /\ DeviceId \in Byte
  /\ Boundaries \subseteq 1 .. L
BY StreamAssumption, BaseAssumption DEF Byte, L

(* A position ahead, brought back into the stream.                         *)
Wrap(p) == IF p <= L THEN p ELSE p - L

LEMMA NextPosition ==
  ASSUME NEW n \in Nat \ {0}, NEW q \in 1 .. n
  PROVE  /\ (q % n) + 1 = IF q = n THEN 1 ELSE q + 1
         /\ (q % n) + 1 \in 1 .. n
OBVIOUS

LEMMA WrapFacts ==
  /\ \A p \in 1 .. (2 * L) : Wrap(p) \in 1 .. L /\ At(p) = Stream[Wrap(p)]
  /\ \A p \in 1 .. (2 * L - 1) : Wrap(p + 1) = (Wrap(p) % L) + 1
<1>1. ASSUME NEW p \in 1 .. (2 * L)
      PROVE  Wrap(p) \in 1 .. L /\ At(p) = Stream[Wrap(p)]
  BY StreamFacts DEF Wrap, At, L
<1>2. ASSUME NEW p \in 1 .. (2 * L - 1) PROVE Wrap(p + 1) = (Wrap(p) % L) + 1
  <2>1. Wrap(p) \in 1 .. L /\ L \in Nat \ {0}
    BY StreamFacts DEF Wrap
  <2>2. (Wrap(p) % L) + 1 = IF Wrap(p) = L THEN 1 ELSE Wrap(p) + 1
    BY <2>1, NextPosition
  <2>3. p < L => Wrap(p) = p /\ Wrap(p + 1) = p + 1
    BY <2>1 DEF Wrap
  <2>4. p = L => Wrap(p) = L /\ Wrap(p + 1) = 1
    BY <2>1 DEF Wrap
  <2>5. p > L => Wrap(p) = p - L /\ Wrap(p + 1) = (p - L) + 1 /\ p - L # L
    BY <2>1 DEF Wrap
  <2> QED
    BY <2>1, <2>2, <2>3, <2>4, <2>5
<1> QED
  BY <1>1, <1>2

-------------------------------------------------------------------------------
(* The buffer, whatever is read.                                           *)

(* While it reads, a frame whose LEN is known fits and is not complete.    *)
BufInv ==
  /\ TypeOK
  /\ result = "reading" =>
       \/ Len(buf) < 3
       \/ Len(buf) < SizeOfBegun(buf) /\ SizeOfBegun(buf) <= MaxFrameSize

LEMMA BufReadByte == ASSUME BufInv, ReadByte PROVE BufInv'
<1>1. PICK b \in Byte :
        /\ damage' = IF b = Stream[pos] THEN damage ELSE damage + 1
        /\ damage' <= MaxDamage
        /\ buf' = IF Skipped(b) THEN buf ELSE Append(buf, b)
        /\ result' = ResultOf(buf')
  BY DEF ReadByte
<1>2. /\ buf \in Seq(Byte) /\ Len(buf) \in Nat /\ damage \in Nat
      /\ pos \in 1 .. L /\ MaxFrameSize \in Nat /\ MaxFrameSize >= 4
      /\ result = "reading" /\ MaxDamage \in Nat
  BY StreamFacts, StreamAssumption DEF BufInv, TypeOK, ReadByte
<1>3. damage' \in 0 .. MaxDamage
  BY <1>1, <1>2
<1>4. pos' \in DOMAIN Stream /\ gap' \in 0 .. MaxGap
  <2>1. pos' = (pos % L) + 1
    BY DEF ReadByte, L
  <2>2. (pos % L) + 1 \in 1 .. L
    BY <1>2, StreamFacts, NextPosition
  <2> QED
    BY <2>1, <2>2, StreamFacts, StreamAssumption DEF ReadByte
<1>5. /\ buf' \in Seq(Byte) /\ Len(buf') \in Nat
      /\ Len(buf') = Len(buf) \/ Len(buf') = Len(buf) + 1
      /\ Len(buf') = Len(buf) => buf' = buf
      /\ Len(buf) >= 3 => buf'[3] = buf[3]
  <2>1. /\ Append(buf, b) \in Seq(Byte) /\ Len(Append(buf, b)) = Len(buf) + 1
        /\ \A i \in 1 .. Len(buf) : Append(buf, b)[i] = buf[i]
    BY <1>2
  <2>2. Len(buf) >= 3 => 3 \in 1 .. Len(buf)
    BY <1>2
  <2>3. buf' = buf \/ buf' = Append(buf, b)
    BY <1>1
  <2> QED
    BY <1>2, <2>1, <2>2, <2>3
<1> DEFINE n == Len(buf')
           size == SizeOfBegun(buf')
<1>6. n >= 3 => buf'[3] \in Nat /\ size \in Nat /\ size = 4 + buf'[3]
  <2>1. n >= 3 => 3 \in 1 .. Len(buf')
    BY <1>5
  <2>2. n >= 3 => buf'[3] \in Byte
    BY <1>5, <2>1
  <2>3. n >= 3 => buf'[3] \in Nat
    BY <2>2, StreamFacts
  <2>4. size = 3 + buf'[3] + 1
    BY DEF SizeOfBegun
  <2> HIDE DEF n, size
  <2> QED
    BY <2>3, <2>4
<1>7. Len(buf) >= 3 => SizeOfBegun(buf) = size
  BY <1>5 DEF SizeOfBegun
<1>8. \/ result' = "false" /\ n = 3
      \/ result' = "reading" /\ n < 3
      \/ result' = "reading" /\ n >= 3 /\ n # size /\ (n = 3 => size <= MaxFrameSize)
      \/ result' \in {"true", "false"} /\ n = size /\ n >= 3
  <2>1. result' = ResultOf(buf')
    BY <1>1
  <2>2. TooLong(buf') <=> size > MaxFrameSize
    BY DEF TooLong
  <2>3. n = 3 /\ ~TooLong(buf') => size <= MaxFrameSize
    BY <1>2, <1>6, <2>2
  <2>4. n < 3 \/ n >= 3
    BY <1>5
  <2> QED
    BY <2>1, <2>3, <2>4, <1>5 DEF ResultOf
<1> HIDE DEF n, size
<1>9. Len(buf) < 3 \/ (Len(buf) < size /\ size <= MaxFrameSize /\ n >= 3)
  <2>1. Len(buf) < 3 \/ (Len(buf) < SizeOfBegun(buf) /\ SizeOfBegun(buf) <= MaxFrameSize)
    BY <1>2 DEF BufInv
  <2> QED
    BY <1>2, <1>5, <1>7, <2>1 DEF n
<1>10. n = Len(buf) \/ n = Len(buf) + 1
  BY <1>5 DEF n
<1>11. n <= MaxFrameSize
  BY <1>2, <1>6, <1>9, <1>10
<1>12. result' = "reading" => n < 3 \/ (n < size /\ size <= MaxFrameSize)
  BY <1>2, <1>6, <1>8, <1>9, <1>10
<1>13. result' \in {"reading", "true", "false"}
  BY <1>8
<1>14. totalWait' = totalWait /\ silent' = silent
  BY DEF ReadByte
<1> QED
  BY <1>3, <1>4, <1>5, <1>11, <1>12, <1>13, <1>14 DEF BufInv, TypeOK, n, size

LEMMA BufStep == ASSUME BufInv, [Next]_vars PROVE BufInv'
<1>1. CASE ReadByte
  BY <1>1, BufReadByte
<1>2. CASE Silence
  BY <1>2 DEF Silence, BufInv, TypeOK
<1>3. CASE ReadNothing
  BY <1>3, StreamAssumption DEF ReadNothing, BufInv, TypeOK
<1>4. CASE GiveUp
  BY <1>4 DEF GiveUp, BufInv, TypeOK
<1>5. CASE Returned \/ UNCHANGED vars
  BY <1>5 DEF Returned, vars, BufInv, TypeOK
<1> QED
  BY <1>1, <1>2, <1>3, <1>4, <1>5 DEF Next

LEMMA BufInit == ASSUME Init PROVE BufInv
<1>1. buf \in Seq(Byte) /\ Len(buf) = 0
  BY DEF Init
<1>2. Len(buf) <= MaxFrameSize /\ Len(buf) < 3
  BY <1>1, StreamAssumption
<1>3. damage \in 0 .. MaxDamage /\ gap \in 0 .. MaxGap /\ totalWait \in 0 .. TimeoutMs
  BY StreamAssumption DEF Init
<1> QED
  BY <1>1, <1>2, <1>3 DEF Init, BufInv, TypeOK

LEMMA BufInvariant == Spec => []BufInv
BY BufInit, BufStep, PTL DEF Spec

(* port_scanner.cpp:131: nothing is stored outside buf, whatever the port  *)
(* delivers; the wait never exceeds the timeout.                           *)
THEOREM NeverOverrun == Spec => []TypeOK
<1>1. BufInv => TypeOK
  BY DEF BufInv
<1> QED
  BY <1>1, BufInvariant, PTL

-------------------------------------------------------------------------------
(* A PlainDevice: the scan reads a frame of it from its start byte on, and *)
(* the time lost in vain is that of one pause.                             *)

(* What has been read is the beginning of the frame that starts at p.      *)
Inside(p) ==
  /\ Stream[p] = StartByte
  /\ Len(buf) \in 1 .. (3 + At(p + 2))
  /\ \A i \in 1 .. Len(buf) : buf[i] = At(p + i - 1)
  /\ pos = Wrap(p + Len(buf))

Undamaged == result = "reading" /\ damage = 0

InsideFrame == Undamaged /\ buf # <<>> => \E p \in 1 .. L : Inside(p)

OnePause ==
  Undamaged /\ ~silent =>
    /\ totalWait <= MaxGap
    /\ buf = <<>> => totalWait = gap
    /\ buf = <<>> /\ pos \notin Boundaries => gap = 0

ReadInv == BufInv /\ InsideFrame /\ OnePause /\ Recognised /\ IdentifiedRight

(* A frame of a PlainDevice, byte by byte.                                 *)
LEMMA FrameAt ==
  ASSUME PlainDevice, NEW p \in 1 .. L, Stream[p] = StartByte
  PROVE  /\ At(p) = StartByte /\ At(p + 1) = DeviceId /\ At(p + 2) \in Nat
         /\ 4 + At(p + 2) <= MaxFrameSize /\ 4 + At(p + 2) <= L
         /\ \A i \in 1 .. (3 + At(p + 2)) :
              At(p + i) # StartByte /\ At(p + i) \in Byte
         /\ Checksum([i \in 1 .. (2 + At(p + 2)) |-> At(p + i)])
              = At(p + 3 + At(p + 2))
<1>1. At(p) = StartByte
  BY StreamFacts DEF At, L
<1>2. ASSUME NEW q \in 1 .. (2 * L) PROVE At(q) \in Byte
  BY WrapFacts, StreamFacts
<1>3. /\ 4 + At(p + 2) <= MaxFrameSize /\ 4 + At(p + 2) <= L
      /\ At(p + 1) = DeviceId
      /\ \A i \in 1 .. ((4 + At(p + 2)) - 1) : At(p + i) # StartByte
      /\ Checksum([i \in 1 .. ((4 + At(p + 2)) - 2) |-> At(p + i)])
           = At(p + (4 + At(p + 2)) - 1)
  BY StreamFacts DEF PlainDevice, L
<1>4. p + 2 \in 1 .. (2 * L) /\ p \in DOMAIN Stream /\ L >= 4
  BY StreamFacts DEF PlainDevice, L
<1>5. At(p + 2) \in Nat
  BY <1>2, <1>4, StreamFacts
<1> DEFINE n == At(p + 2)
<1>6. /\ 4 + n <= MaxFrameSize /\ 4 + n <= L
      /\ \A i \in 1 .. (3 + n) : At(p + i) # StartByte
      /\ Checksum([i \in 1 .. (2 + n) |-> At(p + i)]) = At(p + 3 + n)
  <2>1. n \in Nat
    BY <1>5
  <2> HIDE DEF n
  <2>2. (4 + n) - 1 = 3 + n /\ (4 + n) - 2 = 2 + n /\ p + (4 + n) - 1 = p + 3 + n
    BY <2>1
  <2> QED
    BY <1>3, <2>1, <2>2 DEF n
<1>7. ASSUME NEW i \in 1 .. (3 + n) PROVE At(p + i) \in Byte
  <2>1. n \in Nat
    BY <1>5
  <2> HIDE DEF n
  <2>2. p + i \in 1 .. (2 * L)
    BY <1>6, <2>1, StreamFacts
  <2> QED
    BY <1>2, <2>2
<1> QED
  BY <1>1, <1>3, <1>5, <1>6, <1>7

LEMMA ReadInit == ASSUME PlainDevice, Init PROVE ReadInv
<1>1. BufInv
  BY BufInit
<1>2. buf = <<>> /\ gap = 0 /\ totalWait = 0 /\ result = "reading" /\ MaxGap \in Nat
  BY StreamAssumption DEF Init
<1> QED
  BY <1>1, <1>2 DEF ReadInv, InsideFrame, OnePause, Recognised, IdentifiedRight

(* A byte of an undamaged stream outside a frame: skipped, or its start.   *)
LEMMA SkipOrBegin ==
  ASSUME PlainDevice, ReadInv, ReadByte, damage' = 0, buf = <<>>,
         NEW p \in 1 .. L, p = pos
  PROVE  /\ result' = "reading" /\ damage = 0
         /\ \/ buf' = <<>> /\ Stream[pos] # StartByte
            \/ buf' # <<>> /\ Inside(p)'
<1>1. PICK b \in Byte :
        /\ damage' = IF b = Stream[pos] THEN damage ELSE damage + 1
        /\ buf' = IF Skipped(b) THEN buf ELSE Append(buf, b)
        /\ result' = ResultOf(buf')
  BY DEF ReadByte
<1>2. damage \in Nat /\ pos \in 1 .. L
  BY StreamFacts, StreamAssumption DEF ReadInv, BufInv, TypeOK
<1>3. damage = 0 /\ b = Stream[pos]
  BY <1>1, <1>2
<1>4. pos' = (pos % L) + 1
  BY DEF ReadByte, L
<1>5. buf' = IF b # StartByte THEN <<>> ELSE <<b>>
  BY <1>1 DEF Skipped
<1>6. Len(buf') < 3 /\ Len(buf') # 3
  BY <1>5
<1>7. result' = "reading"
  BY <1>1, <1>6 DEF ResultOf
<1>8. ASSUME b = StartByte PROVE Inside(p)'
  <2>1. buf' = <<b>> /\ Len(buf') = 1 /\ buf'[1] = b
    BY <1>5, <1>8
  <2>2. At(p) = StartByte /\ At(p + 2) \in Nat
    BY <1>2, <1>3, <1>8, FrameAt
  <2>3. p \in 1 .. (2 * L - 1) /\ Wrap(p) = p
    BY <1>2, StreamFacts DEF Wrap
  <2>4. pos' = Wrap(p + 1)
    BY <1>4, <2>3, WrapFacts
  <2>5. ASSUME NEW i \in 1 .. Len(buf') PROVE buf'[i] = At(p + i - 1)
    <3>1. i = 1 /\ p + i - 1 = p
      BY <2>1
    <3> QED
      BY <1>8, <2>1, <2>2, <3>1
  <2>6. Len(buf') \in 1 .. (3 + At(p + 2))
    BY <2>1, <2>2
  <2>7. pos' = Wrap(p + Len(buf'))
    BY <2>1, <2>4
  <2> QED
    BY <1>3, <1>8, <2>5, <2>6, <2>7 DEF Inside
<1> QED
  BY <1>3, <1>5, <1>7, <1>8

(* What is between the start byte and the checksum.                        *)
LEMMA BodyOf ==
  ASSUME NEW s \in Seq(Byte), NEW n \in Nat, Len(s) = 4 + n,
         NEW F(_), \A i \in 1 .. Len(s) : s[i] = F(i)
  PROVE  SubSeq(s, 2, Len(s) - 1) = [i \in 1 .. (2 + n) |-> F(i + 1)]
<1>1. Len(s) - 1 = 3 + n
  OBVIOUS
<1>2. SubSeq(s, 2, 3 + n) = [i \in 1 .. (2 + n) |-> s[i + 1]]
  OBVIOUS
<1> QED
  BY <1>1, <1>2

(* A byte of an undamaged stream inside a frame: the next of the frame.    *)
LEMMA Onward ==
  ASSUME PlainDevice, ReadInv, ReadByte, damage' = 0, buf # <<>>,
         NEW p \in 1 .. L, Inside(p)
  PROVE  /\ damage = 0 /\ buf' # <<>>
         /\ \/ result' = "reading" /\ Inside(p)'
            \/ result' = "true" /\ buf'[2] = DeviceId
<1>1. PICK b \in Byte :
        /\ damage' = IF b = Stream[pos] THEN damage ELSE damage + 1
        /\ buf' = IF Skipped(b) THEN buf ELSE Append(buf, b)
        /\ result' = ResultOf(buf')
  BY DEF ReadByte
<1>2. /\ damage \in Nat /\ pos \in 1 .. L /\ buf \in Seq(Byte)
      /\ BufInv'
  BY StreamFacts, StreamAssumption, BufReadByte DEF ReadInv, BufInv, TypeOK
<1>3. damage = 0 /\ b = Stream[pos]
  BY <1>1, <1>2
<1>4. pos' = (pos % L) + 1
  BY DEF ReadByte, L
<1> DEFINE n == At(p + 2)
           m == Len(buf)
<1>5. /\ n \in Nat /\ 4 + n <= MaxFrameSize /\ 4 + n <= L /\ At(p + 1) = DeviceId
      /\ Checksum([i \in 1 .. (2 + n) |-> At(p + i)]) = At(p + 3 + n)
  BY FrameAt DEF Inside
<1>6. m \in 1 .. (3 + n) /\ pos = Wrap(p + m) /\ \A i \in 1 .. m : buf[i] = At(p + i - 1)
  BY DEF Inside
<1>7. /\ buf' = Append(buf, b) /\ buf' \in Seq(Byte) /\ Len(buf') = m + 1
      /\ buf'[m + 1] = b /\ \A i \in 1 .. m : buf'[i] = buf[i]
  BY <1>1, <1>2 DEF Skipped
<1> HIDE DEF m, n
<1>8. p + m \in 1 .. (2 * L - 1)
  BY <1>5, <1>6, StreamFacts
<1>9. pos' = Wrap(p + (m + 1)) /\ b = At(p + m)
  <2>1. m \in Nat /\ p \in Nat /\ L \in Nat
    BY <1>5, <1>6, StreamFacts
  <2>2. (p + m) + 1 = p + (m + 1)
    BY <2>1
  <2>3. p + m \in 1 .. (2 * L)
    BY <1>8, <2>1
  <2>4. At(p + m) = Stream[Wrap(p + m)]
    BY <2>3, WrapFacts
  <2>5. Wrap((p + m) + 1) = (Wrap(p + m) % L) + 1
    BY <1>8, WrapFacts
  <2> QED
    BY <1>3, <1>4, <1>6, <2>2, <2>4, <2>5
<1>10. ASSUME NEW i \in 1 .. (m + 1) PROVE buf'[i] = At(p + i - 1)
  <2>1. i \in 1 .. m => buf'[i] = At(p + i - 1)
    BY <1>6, <1>7
  <2>2. i = m + 1 => p + i - 1 = p + m
    BY <1>6
  <2>3. i \in 1 .. m \/ i = m + 1
    BY <1>6
  <2> QED
    BY <1>7, <1>9, <2>1, <2>2, <2>3
<1>11. m + 1 >= 2 => buf'[2] = DeviceId
  <2>1. m + 1 >= 2 => 2 \in 1 .. (m + 1) /\ p + 2 - 1 = p + 1
    BY <1>6
  <2> QED
    BY <1>5, <1>10, <2>1
<1>12. m + 1 >= 3 => buf'[3] = n /\ SizeOfBegun(buf') = 4 + n
  <2>1. m + 1 >= 3 => 3 \in 1 .. (m + 1) /\ p + 3 - 1 = p + 2
    BY <1>6
  <2>2. m + 1 >= 3 => buf'[3] = n
    BY <1>10, <2>1 DEF n
  <2> QED
    BY <1>5, <2>2 DEF SizeOfBegun
<1>13. ASSUME m + 1 < 4 + n PROVE result' = "reading" /\ Inside(p)'
  <2>1. m + 1 = 3 => ~TooLong(buf')
    <3>1. MaxFrameSize \in Nat /\ ~(4 + n > MaxFrameSize)
      BY <1>5, StreamAssumption
    <3>2. m + 1 = 3 => SizeOfBegun(buf') = 4 + n
      BY <1>6, <1>12
    <3> QED
      BY <3>1, <3>2 DEF TooLong
  <2>2. m + 1 < 3 \/ m + 1 # SizeOfBegun(buf')
    BY <1>5, <1>6, <1>12, <1>13
  <2>3. result' = "reading"
    BY <1>1, <1>7, <2>1, <2>2 DEF ResultOf
  <2>4. Len(buf') \in 1 .. (3 + n)
    BY <1>5, <1>6, <1>7, <1>13
  <2>5. Stream[p] = StartByte
    BY DEF Inside
  <2> QED
    BY <1>7, <1>9, <1>10, <2>3, <2>4, <2>5 DEF Inside, n
<1>14. ASSUME m + 1 = 4 + n PROVE result' = "true"
  <2>1. Len(buf') = 4 + n /\ Len(buf') >= 4 /\ Len(buf') = SizeOfBegun(buf')
    BY <1>5, <1>6, <1>7, <1>12, <1>14
  <2>2. buf'[Len(buf')] = At(p + 3 + n)
    <3>1. Len(buf') \in 1 .. (m + 1) /\ p + Len(buf') - 1 = p + 3 + n
      BY <1>5, <1>6, <1>7, <1>14
    <3> QED
      BY <1>10, <3>1
  <2>3. SubSeq(buf', 2, Len(buf') - 1) = [i \in 1 .. (2 + n) |-> At(p + i)]
    <3> DEFINE F(i) == At(p + i - 1)
    <3>1. \A i \in 1 .. Len(buf') : buf'[i] = F(i)
      BY <1>7, <1>10
    <3>2. \A i \in 1 .. (2 + n) : p + (i + 1) - 1 = p + i
      BY <1>5
    <3>3. \A i \in 1 .. (2 + n) : F(i + 1) = At(p + i)
      BY <3>2
    <3> HIDE DEF F
    <3>4. SubSeq(buf', 2, Len(buf') - 1) = [i \in 1 .. (2 + n) |-> F(i + 1)]
      BY <1>5, <1>7, <2>1, <3>1, BodyOf
    <3> QED
      BY <3>3, <3>4
  <2>4. Len(buf') # 3 /\ ~(Len(buf') < 3)
    BY <1>5, <2>1
  <2>5. Checksum(SubSeq(buf', 2, Len(buf') - 1)) = buf'[Len(buf')]
    BY <1>5, <2>2, <2>3
  <2> HIDE DEF n, m
  <2> QED
    BY <1>1, <2>1, <2>4, <2>5 DEF ResultOf
<1>15. buf' # <<>>
  BY <1>6, <1>7
<1>16. m + 1 < 4 + n \/ m + 1 = 4 + n
  BY <1>5, <1>6
<1>17. m + 1 = 4 + n => m + 1 >= 2
  BY <1>5
<1> QED
  BY <1>3, <1>11, <1>13, <1>14, <1>15, <1>16, <1>17

(* A byte of an undamaged stream keeps the scan on course.                 *)
LEMMA ReadReadByte ==
  ASSUME PlainDevice, ReadInv, ReadByte PROVE ReadInv'
<1>1. BufInv' /\ damage' \in Nat /\ damage \in Nat
  BY BufReadByte, StreamAssumption DEF ReadInv, BufInv, TypeOK
<1>2. /\ silent' = silent /\ totalWait' = totalWait /\ gap' = 0 /\ ~silent
      /\ result = "reading" /\ pos \in 1 .. L
  BY StreamFacts DEF ReadByte, ReadInv, BufInv, TypeOK
<1>3. CASE damage' # 0
  <2>1. damage' > 0
    BY <1>1, <1>3
  <2> QED
    BY <1>1, <1>3, <2>1
    DEF ReadInv, InsideFrame, OnePause, Undamaged, Recognised, IdentifiedRight
<1>4. CASE damage' = 0 /\ buf = <<>>
  <2>1. PICK p \in 1 .. L : p = pos
    BY <1>2
  <2>2. /\ result' = "reading" /\ damage = 0
        /\ \/ buf' = <<>> /\ Stream[pos] # StartByte
           \/ buf' # <<>> /\ Inside(p)'
    BY <1>4, <2>1, SkipOrBegin
  <2>3. InsideFrame'
    BY <2>2 DEF InsideFrame
  <2>4. totalWait <= MaxGap /\ totalWait = gap /\ (pos \notin Boundaries => gap = 0)
    BY <1>2, <1>4, <2>2 DEF ReadInv, OnePause, Undamaged
  <2>5. buf' = <<>> => pos \notin Boundaries
    BY <2>2 DEF PlainDevice
  <2>6. OnePause'
    BY <1>2, <2>4, <2>5 DEF OnePause
  <2> QED
    BY <1>1, <2>2, <2>3, <2>6 DEF ReadInv, Recognised, IdentifiedRight
<1>5. CASE damage' = 0 /\ buf # <<>>
  <2>1. damage = 0
    BY <1>1, <1>5 DEF ReadByte
  <2>2. PICK p \in 1 .. L : Inside(p)
    BY <1>2, <1>5, <2>1 DEF ReadInv, InsideFrame, Undamaged
  <2>3. /\ buf' # <<>>
        /\ \/ result' = "reading" /\ Inside(p)'
           \/ result' = "true" /\ buf'[2] = DeviceId
    BY <1>5, <2>2, Onward
  <2>4. InsideFrame'
    BY <2>3 DEF InsideFrame, Undamaged
  <2>5. OnePause'
    BY <1>2, <2>1, <2>3 DEF ReadInv, OnePause, Undamaged
  <2> QED
    BY <1>1, <2>3, <2>4, <2>5 DEF ReadInv, Recognised, IdentifiedRight
<1> QED
  BY <1>3, <1>4, <1>5

(* Nothing is read: a device that sends pauses, and not inside a frame.    *)
LEMMA ReadReadNothing ==
  ASSUME PlainDevice, ReadInv, ReadNothing PROVE ReadInv'
<1>1. BufInv' /\ gap \in 0 .. MaxGap /\ totalWait \in Nat /\ MaxGap \in Nat
  BY BufStep, StreamAssumption DEF ReadInv, Next, BufInv, TypeOK
<1>2. /\ result = "reading" /\ totalWait' = totalWait + 1
      /\ silent \/ (pos \in Boundaries /\ gap < MaxGap /\ gap' = gap + 1)
      /\ UNCHANGED <<silent, damage, pos, buf, result>>
  BY DEF ReadNothing
<1>3. InsideFrame'
  BY <1>2 DEF ReadInv, InsideFrame, Undamaged, Inside
<1>4. OnePause'
  <2>1. ASSUME Undamaged, ~silent PROVE buf = <<>>
    <3>1. SUFFICES ASSUME buf # <<>> PROVE FALSE
      OBVIOUS
    <3>2. PICK p \in 1 .. L : Inside(p)
      BY <2>1, <3>1 DEF ReadInv, InsideFrame
    <3>3. Stream[pos] = StartByte
      BY <1>2, <2>1 DEF PlainDevice
    <3> DEFINE n == At(p + 2)
               m == Len(buf)
    <3>4. /\ n \in Nat /\ 4 + n <= L
          /\ \A i \in 1 .. (3 + n) : At(p + i) # StartByte
      BY <3>2, FrameAt DEF Inside
    <3>5. m \in 1 .. (3 + n) /\ pos = Wrap(p + m)
      BY <3>2 DEF Inside
    <3> HIDE DEF n, m
    <3>6. p + m \in 1 .. (2 * L)
      BY <3>4, <3>5, StreamFacts
    <3>7. At(p + m) = Stream[pos]
      BY <3>5, <3>6, WrapFacts
    <3> QED
      BY <3>3, <3>4, <3>5, <3>7
  <2>2. SUFFICES ASSUME Undamaged', ~silent'
                 PROVE  /\ totalWait' <= MaxGap
                        /\ totalWait' = gap' /\ pos \in Boundaries
    BY <1>2 DEF OnePause
  <2>3. Undamaged /\ ~silent
    BY <1>2, <2>2 DEF Undamaged
  <2>4. totalWait = gap
    BY <2>1, <2>3 DEF ReadInv, OnePause
  <2> QED
    BY <1>1, <1>2, <2>3, <2>4
<1> QED
  BY <1>1, <1>2, <1>3, <1>4 DEF ReadInv, Recognised, IdentifiedRight

(* A device that sends is not given up.                                    *)
LEMMA ReadGiveUp ==
  ASSUME PlainDevice, ReadInv, GiveUp PROVE ReadInv'
<1>1. BufInv' /\ damage \in Nat /\ totalWait \in Nat /\ MaxGap < TimeoutMs
      /\ MaxGap \in Nat /\ TimeoutMs \in Nat
  BY BufStep, StreamAssumption DEF ReadInv, Next, BufInv, TypeOK, PlainDevice
<1>2. /\ result = "reading" /\ totalWait >= TimeoutMs /\ result' = "false"
      /\ UNCHANGED <<silent, damage, pos, gap, buf, totalWait>>
  BY DEF GiveUp
<1>3. silent \/ damage > 0
  <2>1. SUFFICES ASSUME ~silent, damage = 0 PROVE FALSE
    BY <1>1
  <2>2. totalWait <= MaxGap
    BY <1>2, <2>1 DEF ReadInv, OnePause, Undamaged
  <2> QED
    BY <1>1, <1>2, <2>2
<1> QED
  BY <1>1, <1>2, <1>3
  DEF ReadInv, InsideFrame, OnePause, Undamaged, Recognised, IdentifiedRight

LEMMA ReadStep == ASSUME PlainDevice, ReadInv, [Next]_vars PROVE ReadInv'
<1>1. BufInv'
  BY BufStep DEF ReadInv
<1>2. CASE ReadByte
  BY <1>2, ReadReadByte
<1>3. CASE ReadNothing
  BY <1>3, ReadReadNothing
<1>4. CASE GiveUp
  BY <1>4, ReadGiveUp
<1>5. CASE Silence
  BY <1>1, <1>5
  DEF Silence, ReadInv, InsideFrame, OnePause, Undamaged, Inside, Recognised,
      IdentifiedRight
<1>6. CASE Returned \/ UNCHANGED vars
  BY <1>1, <1>6
  DEF Returned, vars, ReadInv, InsideFrame, OnePause, Undamaged, Inside,
      Recognised, IdentifiedRight
<1> QED
  BY <1>2, <1>3, <1>4, <1>5, <1>6 DEF Next

LEMMA ReadInvariant == PlainDevice => (Spec => []ReadInv)
<1> SUFFICES ASSUME PlainDevice PROVE Spec => []ReadInv
  OBVIOUS
<1>1. Init => ReadInv
  BY ReadInit
<1>2. ReadInv /\ [Next]_vars => ReadInv'
  BY ReadStep
<1> QED
  BY <1>1, <1>2, PTL DEF Spec

(* port_scanner.cpp:2-3: one scan finds a PlainDevice that sends, for any  *)
(* stream of such frames, wherever in it the scan begins and however the   *)
(* device pauses: it fails only if the device fell silent or a byte was    *)
(* damaged.                                                                *)
THEOREM DeviceRecognised == PlainDevice => (Spec => []Recognised)
<1>1. ReadInv => Recognised
  BY DEF ReadInv
<1> QED
  BY <1>1, ReadInvariant, PTL

(* port_scanner.cpp:3, README features: and a PlainDevice is found under   *)
(* the ID it was given.                                                    *)
THEOREM DeviceIdentified == PlainDevice => (Spec => []IdentifiedRight)
<1>1. ReadInv => IdentifiedRight
  BY DEF ReadInv
<1> QED
  BY <1>1, ReadInvariant, PTL
================================================================================
