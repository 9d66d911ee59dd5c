---------------------------- MODULE ReceptionProofs ----------------------------
(***************************************************************************)
(* Proofs about the frame protocol and the two ends that receive frames:   *)
(* McuRx, the micro-controller, and BridgeRx, the bridge.                  *)
(*                                                                         *)
(* McuRx, for any number of words in a command and any bytes in them:      *)
(* rx_buf is never overrun, and on a line that does no damage the commands *)
(* taken over are those sent.                                              *)
(*                                                                         *)
(* BridgeRx, for any sizes: whatever the bytes are and however the reads   *)
(* cut them up, the updates publish what a scan of the whole stream finds; *)
(* until there is damage, what they publish is what the device has sent,   *)
(* and no frame is left waiting.                                           *)
(***************************************************************************)
EXTENDS McuRx, BridgeRx, SequenceTheorems, WellFoundedInduction, TLAPS

-------------------------------------------------------------------------------
(* Induction over the natural numbers, from the well-foundedness of <.     *)

LEMMA Induct ==
  ASSUME NEW S, 0 \in S, \A n \in Nat : n \in S => n + 1 \in S
  PROVE  Nat \subseteq S
<1> DEFINE T == {n \in Nat : n \notin S}
           Less == {p \in Nat \X Nat : p[1] < p[2]}
<1>1. IsWellFoundedOn(Less, Nat)
  BY NatLessThanWellFounded DEF OpToRel
<1>2. SUFFICES ASSUME T # {} PROVE FALSE
  OBVIOUS
<1> HIDE DEF Less
<1>3. PICK x \in T : \A y \in T : ~(<<y, x>> \in Less)
  <2>1. T \subseteq Nat
    OBVIOUS
  <2> HIDE DEF T
  <2> QED
    BY <1>1, <1>2, <2>1, WFMin
<1>4. x # 0 /\ x \in Nat
  OBVIOUS
<1>5. x - 1 \in Nat /\ (x - 1) + 1 = x
  BY <1>4
<1>6. x - 1 \in T
  BY <1>4, <1>5
<1>7. <<x - 1, x>> \in Less
  BY <1>4, <1>5 DEF Less
<1> QED
  BY <1>3, <1>6, <1>7

-------------------------------------------------------------------------------
(* The exclusive or of two bytes.                                          *)

LEMMA BaseFacts ==
  /\ Base \in Nat /\ Base >= 2
  /\ StartByte \in Byte /\ DeviceId \in Byte /\ 0 \in Byte
  /\ \A b \in Byte : b \in Nat /\ b <= Base - 1
BY BaseAssumption DEF Byte

IsXor(f, n) ==
  f = [p \in (0 .. n) \X (0 .. n) |->
        IF p = <<0, 0>> THEN 0
        ELSE ((p[1] + p[2]) % 2) + 2 * f[<<p[1] \div 2, p[2] \div 2>>]]

LEMMA XorExists == ASSUME NEW m \in Nat PROVE \E f : IsXor(f, m)
<1> DEFINE S == {n \in Nat : \E f : IsXor(f, n)}
<1>1. 0 \in S
  <2> DEFINE f == [p \in (0 .. 0) \X (0 .. 0) |-> 0]
  <2>1. \A p \in (0 .. 0) \X (0 .. 0) : p = <<0, 0>>
    OBVIOUS
  <2>2. IsXor(f, 0)
    BY <2>1 DEF IsXor
  <2> QED
    BY <2>2
<1>2. ASSUME NEW n \in Nat, n \in S PROVE n + 1 \in S
  <2>1. PICK f : IsXor(f, n)
    BY <1>2
  <2> DEFINE D(k) == (0 .. k) \X (0 .. k)
             Half(p) == <<p[1] \div 2, p[2] \div 2>>
             g == [p \in D(n + 1) |->
                    IF p \in D(n) THEN f[p] ELSE ((p[1] + p[2]) % 2) + 2 * f[Half(p)]]
  <2>2. \A p \in D(n) : f[p] = IF p = <<0, 0>> THEN 0
                               ELSE ((p[1] + p[2]) % 2) + 2 * f[Half(p)]
    BY <2>1 DEF IsXor
  <2>3. \A p \in D(n + 1) : Half(p) \in D(n)
    OBVIOUS
  <2>4. \A p \in D(n) : p \in D(n + 1)
    OBVIOUS
  <2>5. <<0, 0>> \in D(n)
    OBVIOUS
  <2> HIDE DEF D, Half
  <2>6. \A p \in D(n) : g[p] = f[p]
    BY <2>4
  <2>7. \A p \in D(n + 1) : g[p] = IF p = <<0, 0>> THEN 0
                                   ELSE ((p[1] + p[2]) % 2) + 2 * g[Half(p)]
    BY <2>2, <2>3, <2>5, <2>6
  <2>8. IsXor(g, n + 1)
    <3> HIDE DEF g
    <3>1. g = [p \in D(n + 1) |-> g[p]]
      BY DEF g
    <3> QED
      BY <2>7, <3>1 DEF IsXor, D, Half
  <2> QED
    BY <2>8
<1> HIDE DEF S
<1>3. Nat \subseteq S
  BY <1>1, <1>2, Induct
<1> QED
  BY <1>3 DEF S

LEMMA XorUnfold ==
  ASSUME NEW a \in Byte, NEW b \in Byte
  PROVE  XorOf[<<a, b>>] = IF a = 0 /\ b = 0 THEN 0
                           ELSE ((a + b) % 2) + 2 * XorOf[<<a \div 2, b \div 2>>]
<1>1. Base - 1 \in Nat
  BY BaseFacts
<1>2. \E f : IsXor(f, Base - 1)
  BY <1>1, XorExists
<1>3. IsXor(XorOf, Base - 1)
  BY <1>2 DEF XorOf, IsXor, Byte
<1>4. <<a, b>> \in Byte \X Byte
  OBVIOUS
<1> QED
  BY <1>3, <1>4 DEF IsXor, Byte

(* Xor stays below a power of two.                                         *)
LEMMA XorDoubled ==
  ASSUME NEW n \in Nat, 2 * n <= Base,
         \A a, b \in 0 .. n - 1 : XorOf[<<a, b>>] \in 0 .. n - 1
  PROVE  \A a, b \in 0 .. 2 * n - 1 : XorOf[<<a, b>>] \in 0 .. 2 * n - 1
<1> SUFFICES ASSUME NEW a \in 0 .. 2 * n - 1, NEW b \in 0 .. 2 * n - 1
             PROVE  XorOf[<<a, b>>] \in 0 .. 2 * n - 1
  OBVIOUS
<1>1. a \in Byte /\ b \in Byte /\ n >= 1
  BY BaseFacts DEF Byte
<1>2. a \div 2 \in 0 .. n - 1 /\ b \div 2 \in 0 .. n - 1
  OBVIOUS
<1>3. XorOf[<<a \div 2, b \div 2>>] \in 0 .. n - 1
  BY <1>2
<1>4. (a + b) % 2 \in 0 .. 1
  OBVIOUS
<1>5. XorOf[<<a, b>>] = 0
      \/ XorOf[<<a, b>>] = ((a + b) % 2) + 2 * XorOf[<<a \div 2, b \div 2>>]
  BY <1>1, XorUnfold
<1> QED
  BY <1>1, <1>3, <1>4, <1>5

LEMMA XorByte ==
  ASSUME NEW a \in Byte, NEW b \in Byte PROVE XorOf[<<a, b>>] \in Byte
<1> DEFINE Closed(n) ==
      \A x, y \in 0 .. n - 1 : XorOf[<<x, y>>] \in 0 .. n - 1
<1>1. Closed(1)
  <2>1. XorOf[<<0, 0>>] = 0
    BY BaseFacts, XorUnfold
  <2>2. \A x \in 0 .. 1 - 1 : x = 0
    OBVIOUS
  <2> QED
    BY <2>1, <2>2
<1>2. ASSUME NEW n \in Nat, 2 * n <= Base, Closed(n) PROVE Closed(2 * n)
  BY <1>2, XorDoubled
<1> HIDE DEF Closed
<1>3. Closed(2)
  BY <1>1, <1>2, BaseFacts
<1>4. Base >= 4 => Closed(4)
  BY <1>2, <1>3, BaseFacts
<1>5. Base >= 8 => Closed(8)
  BY <1>2, <1>4, BaseFacts
<1>6. Base >= 16 => Closed(16)
  BY <1>2, <1>5, BaseFacts
<1>7. Base >= 32 => Closed(32)
  BY <1>2, <1>6, BaseFacts
<1>8. Base >= 64 => Closed(64)
  BY <1>2, <1>7, BaseFacts
<1>9. Base >= 128 => Closed(128)
  BY <1>2, <1>8, BaseFacts
<1>10. Base >= 256 => Closed(256)
  BY <1>2, <1>9, BaseFacts
<1>11. Closed(Base)
  BY <1>3, <1>4, <1>5, <1>6, <1>7, <1>8, <1>9, <1>10, BaseAssumption
<1> QED
  BY <1>11 DEF Closed, Byte

LEMMA XorZero == ASSUME NEW b \in Byte PROVE XorOf[<<0, b>>] = b
<1> DEFINE S == {n \in Nat : \A x \in Byte : x <= n => XorOf[<<0, x>>] = x}
<1>1. 0 \in S
  BY BaseFacts, XorUnfold
<1>2. ASSUME NEW n \in Nat, n \in S PROVE n + 1 \in S
  <2> SUFFICES ASSUME NEW x \in Byte, x <= n + 1 PROVE XorOf[<<0, x>>] = x
    OBVIOUS
  <2>1. x \in Nat
    BY BaseFacts
  <2>2. CASE x = 0
    BY <2>2, BaseFacts, XorUnfold
  <2>3. CASE x # 0
    <3>1. x \div 2 \in Byte /\ x \div 2 <= n
      BY <2>1, <2>3, BaseFacts DEF Byte
    <3>2. XorOf[<<0, x \div 2>>] = x \div 2
      BY <1>2, <3>1
    <3>3. 0 \div 2 = 0 /\ 0 + x = x
      BY <2>1
    <3>4. XorOf[<<0, x>>] = ((0 + x) % 2) + 2 * XorOf[<<0 \div 2, x \div 2>>]
      BY <2>3, BaseFacts, XorUnfold
    <3>5. x = (x % 2) + 2 * (x \div 2)
      BY <2>1
    <3> QED
      BY <3>2, <3>3, <3>4, <3>5
  <2> QED
    BY <2>2, <2>3
<1> HIDE DEF S
<1>3. Nat \subseteq S
  BY <1>1, <1>2, Induct
<1>4. b \in S /\ b <= b
  BY <1>3, BaseFacts
<1> QED
  BY <1>4 DEF S

-------------------------------------------------------------------------------
(* Checksums.                                                              *)

IsSum(g, s, n) ==
  g = [k \in 0 .. n |-> IF k = 0 THEN 0 ELSE XorOf[<<g[k - 1], s[k]>>]]

LEMMA SumSteps ==
  ASSUME NEW n \in Nat, NEW s, NEW g, IsSum(g, s, n)
  PROVE  /\ g[0] = 0
         /\ \A k \in 0 .. n - 1 : g[k + 1] = XorOf[<<g[k], s[k + 1]>>]
<1>1. \A k \in 0 .. n : g[k] = IF k = 0 THEN 0 ELSE XorOf[<<g[k - 1], s[k]>>]
  BY DEF IsSum
<1>2. 0 \in 0 .. n
  OBVIOUS
<1>3. ASSUME NEW k \in 0 .. n - 1 PROVE g[k + 1] = XorOf[<<g[k], s[k + 1]>>]
  <2>1. k + 1 \in 0 .. n /\ k + 1 # 0 /\ (k + 1) - 1 = k
    OBVIOUS
  <2>2. g[k + 1] = XorOf[<<g[(k + 1) - 1], s[k + 1]>>]
    BY <1>1, <2>1
  <2> QED
    BY <2>1, <2>2
<1> QED
  BY <1>1, <1>2, <1>3

LEMMA SumExists == ASSUME NEW s, NEW m \in Nat PROVE \E g : IsSum(g, s, m)
<1> DEFINE S == {n \in Nat : \E g : IsSum(g, s, n)}
<1>1. 0 \in S
  <2> DEFINE g == [k \in 0 .. 0 |-> 0]
  <2>1. IsSum(g, s, 0)
    BY DEF IsSum
  <2> QED
    BY <2>1
<1>2. ASSUME NEW n \in Nat, n \in S PROVE n + 1 \in S
  <2>1. PICK g : IsSum(g, s, n)
    BY <1>2
  <2> DEFINE h == [k \in 0 .. n + 1 |->
                    IF k <= n THEN g[k] ELSE XorOf[<<g[n], s[n + 1]>>]]
  <2>2. \A j \in 0 .. n : g[j] = IF j = 0 THEN 0 ELSE XorOf[<<g[j - 1], s[j]>>]
    BY <2>1 DEF IsSum
  <2>3. ASSUME NEW k \in 0 .. n + 1
        PROVE  h[k] = IF k = 0 THEN 0 ELSE XorOf[<<h[k - 1], s[k]>>]
    <3>1. CASE k \in 0 .. n
      <4>1. h[k] = g[k]
        BY <3>1
      <4>2. k # 0 => k - 1 \in 0 .. n /\ k - 1 \in 0 .. n + 1 /\ h[k - 1] = g[k - 1]
        BY <3>1
      <4> HIDE DEF h
      <4> QED
        BY <2>2, <3>1, <4>1, <4>2
    <3>2. CASE k = n + 1
      <4>1. /\ h[n + 1] = XorOf[<<g[n], s[n + 1]>>]
            /\ h[n] = g[n] /\ n + 1 # 0 /\ (n + 1) - 1 = n
        OBVIOUS
      <4> HIDE DEF h
      <4> QED
        BY <3>2, <4>1
    <3> QED
      BY <3>1, <3>2
  <2>4. IsSum(h, s, n + 1)
    <3>1. h = [k \in 0 .. n + 1 |-> h[k]]
      OBVIOUS
    <3> HIDE DEF h
    <3> QED
      BY <2>3, <3>1 DEF IsSum
  <2> QED
    BY <2>4
<1> HIDE DEF S
<1>3. Nat \subseteq S
  BY <1>1, <1>2, Induct
<1> QED
  BY <1>3 DEF S

LEMMA SumOf ==
  ASSUME NEW s, Len(s) \in Nat
  PROVE  \E g : IsSum(g, s, Len(s)) /\ Checksum(s) = g[Len(s)]
<1>1. \E g : IsSum(g, s, Len(s))
  BY SumExists
<1> QED
  BY <1>1 DEF Checksum, IsSum

(* The sum depends on the bytes summed up only.                            *)
LEMMA SumAgrees ==
  ASSUME NEW n \in Nat, NEW s, NEW g, IsSum(g, s, n),
         NEW m \in Nat, NEW t, NEW h, IsSum(h, t, m),
         NEW j \in Nat, j <= n, j <= m, \A k \in 1 .. j : s[k] = t[k]
  PROVE  g[j] = h[j]
<1> DEFINE S == {i \in Nat : i <= j => g[i] = h[i]}
<1>1. g[0] = 0 /\ \A i \in 0 .. n - 1 : g[i + 1] = XorOf[<<g[i], s[i + 1]>>]
  BY SumSteps
<1>2. h[0] = 0 /\ \A i \in 0 .. m - 1 : h[i + 1] = XorOf[<<h[i], t[i + 1]>>]
  BY SumSteps
<1>3. 0 \in S
  BY <1>1, <1>2
<1>4. ASSUME NEW i \in Nat, i \in S PROVE i + 1 \in S
  <2> SUFFICES ASSUME i + 1 <= j PROVE g[i + 1] = h[i + 1]
    OBVIOUS
  <2>1. i \in 0 .. n - 1 /\ i \in 0 .. m - 1 /\ i + 1 \in 1 .. j /\ i <= j
    OBVIOUS
  <2>2. g[i] = h[i] /\ s[i + 1] = t[i + 1]
    BY <1>4, <2>1
  <2> QED
    BY <1>1, <1>2, <2>1, <2>2
<1> HIDE DEF S
<1>5. Nat \subseteq S
  BY <1>3, <1>4, Induct
<1>6. j \in S /\ j <= j
  BY <1>5
<1> QED
  BY <1>6 DEF S

LEMMA ChecksumEmpty == Checksum(<<>>) = 0
<1>1. PICK g : IsSum(g, <<>>, Len(<<>>)) /\ Checksum(<<>>) = g[Len(<<>>)]
  BY SumOf
<1> QED
  BY <1>1 DEF IsSum

LEMMA ChecksumAppend ==
  ASSUME NEW s \in Seq(Byte), NEW b
  PROVE  Checksum(Append(s, b)) = XorOf[<<Checksum(s), b>>]
<1> DEFINE n == Len(s)
           t == Append(s, b)
<1>1. /\ n \in Nat /\ Len(t) = n + 1 /\ t[n + 1] = b
      /\ \A k \in 1 .. n : t[k] = s[k]
  OBVIOUS
<1>2. PICK g : IsSum(g, s, n) /\ Checksum(s) = g[n]
  BY <1>1, SumOf
<1>3. Len(t) \in Nat
  BY <1>1
<1>4. PICK h : IsSum(h, t, n + 1) /\ Checksum(t) = h[n + 1]
  BY <1>1, <1>3, SumOf
<1> HIDE DEF n, t
<1>5. h[n] = g[n]
  BY <1>1, <1>2, <1>4, SumAgrees
<1>6. h[n + 1] = XorOf[<<h[n], t[n + 1]>>]
  <2>1. n \in 0 .. (n + 1) - 1 /\ n + 1 \in Nat
    BY <1>1
  <2> QED
    BY <1>4, <2>1, SumSteps
<1> QED
  BY <1>1, <1>2, <1>4, <1>5, <1>6 DEF t

LEMMA ChecksumByte ==
  ASSUME NEW s \in Seq(Byte) PROVE Checksum(s) \in Byte
<1>1. Len(s) \in Nat /\ \A k \in 1 .. Len(s) : s[k] \in Byte
  OBVIOUS
<1>2. PICK g : IsSum(g, s, Len(s)) /\ Checksum(s) = g[Len(s)]
  BY <1>1, SumOf
<1>3. /\ g[0] = 0
      /\ \A k \in 0 .. Len(s) - 1 : g[k + 1] = XorOf[<<g[k], s[k + 1]>>]
  BY <1>1, <1>2, SumSteps
<1> DEFINE S == {n \in Nat : n <= Len(s) => g[n] \in Byte}
<1>4. 0 \in S
  BY <1>1, <1>3, BaseFacts
<1>5. ASSUME NEW n \in Nat, n \in S PROVE n + 1 \in S
  <2> SUFFICES ASSUME n + 1 <= Len(s) PROVE g[n + 1] \in Byte
    OBVIOUS
  <2>1. n \in 0 .. Len(s) - 1 /\ n + 1 \in 1 .. Len(s) /\ n <= Len(s)
    BY <1>1
  <2>2. g[n] \in Byte /\ s[n + 1] \in Byte
    BY <1>1, <1>5, <2>1
  <2> QED
    BY <1>3, <2>1, <2>2, XorByte
<1> HIDE DEF S
<1>6. Nat \subseteq S
  BY <1>4, <1>5, Induct
<1>7. Len(s) \in S /\ Len(s) <= Len(s)
  BY <1>1, <1>6
<1> QED
  BY <1>2, <1>7 DEF S

LEMMA ChecksumShort ==
  /\ \A b \in Byte : Checksum(<<b>>) = b
  /\ \A a, b \in Byte : Checksum(<<a, b>>) = XorOf[<<a, b>>]
<1>1. ASSUME NEW b \in Byte PROVE Checksum(<<b>>) = b
  <2>1. <<b>> = Append(<<>>, b) /\ <<>> \in Seq(Byte)
    OBVIOUS
  <2> QED
    BY <2>1, ChecksumAppend, ChecksumEmpty, XorZero
<1>2. ASSUME NEW a \in Byte, NEW b \in Byte
      PROVE  Checksum(<<a, b>>) = XorOf[<<a, b>>]
  <2>1. <<a, b>> = Append(<<a>>, b) /\ <<a>> \in Seq(Byte)
    OBVIOUS
  <2> QED
    BY <1>1, <2>1, ChecksumAppend
<1> QED
  BY <1>1, <1>2

-------------------------------------------------------------------------------
(* Sequences of byte sequences, one after the other.                       *)

Bytes == Seq(Byte)

Cat(s, t) == s \o t

LEMMA CatBytes ==
  ASSUME NEW r \in Bytes, NEW s \in Bytes, NEW t \in Bytes
  PROVE  /\ Cat(r, s) \in Bytes
         /\ Cat(Cat(r, s), t) = Cat(r, Cat(s, t))
         /\ Cat(r, <<>>) = r /\ Cat(<<>>, r) = r /\ <<>> \in Bytes
BY DEF Bytes, Cat

IsFlat(g, ss, n) ==
  g = [i \in 1 .. n |-> IF i = 1 THEN ss[i] ELSE Cat(g[i - 1], ss[i])]

LEMMA FlatSteps ==
  ASSUME NEW n \in Nat \ {0}, NEW ss, NEW g, IsFlat(g, ss, n)
  PROVE  /\ g[1] = ss[1]
         /\ \A k \in 1 .. n - 1 : g[k + 1] = Cat(g[k], ss[k + 1])
<1>1. \A k \in 1 .. n : g[k] = IF k = 1 THEN ss[k] ELSE Cat(g[k - 1], ss[k])
  BY DEF IsFlat
<1>2. 1 \in 1 .. n
  OBVIOUS
<1>3. ASSUME NEW k \in 1 .. n - 1 PROVE g[k + 1] = Cat(g[k], ss[k + 1])
  <2>1. k + 1 \in 1 .. n /\ k + 1 # 1 /\ (k + 1) - 1 = k
    OBVIOUS
  <2>2. g[k + 1] = Cat(g[(k + 1) - 1], ss[k + 1])
    BY <1>1, <2>1
  <2> QED
    BY <2>1, <2>2
<1> QED
  BY <1>1, <1>2, <1>3

LEMMA FlatExists == ASSUME NEW ss, NEW m \in Nat PROVE \E g : IsFlat(g, ss, m)
<1> DEFINE S == {n \in Nat : \E g : IsFlat(g, ss, n)}
<1>1. 0 \in S
  <2> DEFINE g == [k \in 1 .. 0 |-> 0]
  <2>1. g = [k \in 1 .. 0 |-> IF k = 1 THEN ss[k] ELSE Cat(g[k - 1], ss[k])]
    OBVIOUS
  <2>2. IsFlat(g, ss, 0)
    BY <2>1 DEF IsFlat
  <2> QED
    BY <2>2
<1>2. ASSUME NEW n \in Nat, n \in S PROVE n + 1 \in S
  <2>1. PICK g : IsFlat(g, ss, n)
    BY <1>2
  <2> DEFINE h == [k \in 1 .. n + 1 |->
                    IF k <= n THEN g[k]
                    ELSE IF k = 1 THEN ss[1] ELSE Cat(g[n], ss[n + 1])]
  <2>2. \A j \in 1 .. n : g[j] = IF j = 1 THEN ss[j] ELSE Cat(g[j - 1], ss[j])
    BY <2>1 DEF IsFlat
  <2>3. ASSUME NEW k \in 1 .. n + 1
        PROVE  h[k] = IF k = 1 THEN ss[k] ELSE Cat(h[k - 1], ss[k])
    <3>1. CASE k \in 1 .. n
      <4>1. h[k] = g[k]
        BY <3>1
      <4>2. k # 1 => k - 1 \in 1 .. n /\ k - 1 \in 1 .. n + 1 /\ h[k - 1] = g[k - 1]
        BY <3>1
      <4> HIDE DEF h
      <4> QED
        BY <2>2, <3>1, <4>1, <4>2
    <3>2. CASE k = n + 1
      <4>1. CASE n = 0
        <5>1. k = 1 /\ h[1] = ss[1]
          BY <3>2, <4>1
        <5> HIDE DEF h
        <5> QED
          BY <5>1
      <4>2. CASE n # 0
        <5>1. /\ n \in 1 .. n + 1 /\ n <= n /\ n + 1 # 1 /\ (n + 1) - 1 = n
              /\ n + 1 \in 1 .. n + 1 /\ ~(n + 1 <= n)
          BY <4>2
        <5>2. h[n] = g[n] /\ h[n + 1] = Cat(g[n], ss[n + 1])
          BY <5>1
        <5> HIDE DEF h
        <5> QED
          BY <3>2, <5>1, <5>2
      <4> QED
        BY <4>1, <4>2
    <3> QED
      BY <3>1, <3>2
  <2>4. IsFlat(h, ss, n + 1)
    <3>1. h = [k \in 1 .. n + 1 |-> h[k]]
      OBVIOUS
    <3> HIDE DEF h
    <3> QED
      BY <2>3, <3>1 DEF IsFlat
  <2> QED
    BY <2>4
<1> HIDE DEF S
<1>3. Nat \subseteq S
  BY <1>1, <1>2, Induct
<1> QED
  BY <1>3 DEF S

LEMMA FlatOf ==
  ASSUME NEW ss, Len(ss) \in Nat \ {0}
  PROVE  \E g : IsFlat(g, ss, Len(ss)) /\ FlattenSeq(ss) = g[Len(ss)]
<1>1. \E g : IsFlat(g, ss, Len(ss))
  BY FlatExists
<1> QED
  BY <1>1 DEF FlattenSeq, IsFlat, Cat

LEMMA FlatAgrees ==
  ASSUME NEW n \in Nat \ {0}, NEW ss, NEW g, IsFlat(g, ss, n),
         NEW m \in Nat \ {0}, NEW tt, NEW h, IsFlat(h, tt, m),
         NEW j \in Nat \ {0}, j <= n, j <= m, \A k \in 1 .. j : ss[k] = tt[k]
  PROVE  g[j] = h[j]
<1> DEFINE S == {i \in Nat : i + 1 <= j => g[i + 1] = h[i + 1]}
<1>1. g[1] = ss[1] /\ \A i \in 1 .. n - 1 : g[i + 1] = Cat(g[i], ss[i + 1])
  BY FlatSteps
<1>2. h[1] = tt[1] /\ \A i \in 1 .. m - 1 : h[i + 1] = Cat(h[i], tt[i + 1])
  BY FlatSteps
<1>3. 0 \in S
  BY <1>1, <1>2
<1>4. ASSUME NEW i \in Nat, i \in S PROVE i + 1 \in S
  <2> SUFFICES ASSUME (i + 1) + 1 <= j PROVE g[(i + 1) + 1] = h[(i + 1) + 1]
    OBVIOUS
  <2>1. /\ i + 1 \in 1 .. n - 1 /\ i + 1 \in 1 .. m - 1
        /\ (i + 1) + 1 \in 1 .. j /\ i + 1 <= j
    OBVIOUS
  <2>2. g[i + 1] = h[i + 1] /\ ss[(i + 1) + 1] = tt[(i + 1) + 1]
    BY <1>4, <2>1
  <2> QED
    BY <1>1, <1>2, <2>1, <2>2
<1> HIDE DEF S
<1>5. Nat \subseteq S
  BY <1>3, <1>4, Induct
<1>6. j - 1 \in S /\ (j - 1) + 1 = j /\ j <= j
  BY <1>5
<1> QED
  BY <1>6 DEF S

LEMMA FlattenEmpty == FlattenSeq(<<>>) = <<>>
BY DEF FlattenSeq

LEMMA FlattenBytes ==
  ASSUME NEW ss \in Seq(Bytes) PROVE FlattenSeq(ss) \in Bytes
<1>1. CASE ss = <<>>
  <2>1. <<>> \in Bytes
    BY DEF Bytes
  <2> QED
    BY <1>1, <2>1, FlattenEmpty
<1>2. CASE ss # <<>>
  <2>1. Len(ss) \in Nat \ {0} /\ \A k \in 1 .. Len(ss) : ss[k] \in Bytes
    BY <1>2
  <2>2. PICK g : IsFlat(g, ss, Len(ss)) /\ FlattenSeq(ss) = g[Len(ss)]
    BY <2>1, FlatOf
  <2>3. /\ g[1] = ss[1]
        /\ \A k \in 1 .. Len(ss) - 1 : g[k + 1] = Cat(g[k], ss[k + 1])
    BY <2>1, <2>2, FlatSteps
  <2> DEFINE S == {n \in Nat : n + 1 <= Len(ss) => g[n + 1] \in Bytes}
  <2>4. 0 \in S
    BY <2>1, <2>3
  <2>5. ASSUME NEW n \in Nat, n \in S PROVE n + 1 \in S
    <3> SUFFICES ASSUME (n + 1) + 1 <= Len(ss) PROVE g[(n + 1) + 1] \in Bytes
      OBVIOUS
    <3>1. /\ n + 1 \in 1 .. Len(ss) - 1 /\ n + 1 <= Len(ss)
          /\ (n + 1) + 1 \in 1 .. Len(ss)
      BY <2>1
    <3>2. g[n + 1] \in Bytes /\ ss[(n + 1) + 1] \in Bytes
      BY <2>1, <2>5, <3>1
    <3>3. g[(n + 1) + 1] = Cat(g[n + 1], ss[(n + 1) + 1])
      BY <2>3, <3>1
    <3> QED
      BY <3>2, <3>3, CatBytes
  <2> HIDE DEF S
  <2>6. Nat \subseteq S
    BY <2>4, <2>5, Induct
  <2>7. Len(ss) - 1 \in S /\ (Len(ss) - 1) + 1 = Len(ss) /\ Len(ss) <= Len(ss)
    BY <2>1, <2>6
  <2> QED
    BY <2>2, <2>7 DEF S
<1> QED
  BY <1>1, <1>2

LEMMA FlattenAppend ==
  ASSUME NEW ss \in Seq(Bytes), NEW f \in Bytes
  PROVE  FlattenSeq(Append(ss, f)) = Cat(FlattenSeq(ss), f)
<1> DEFINE n == Len(ss)
           tt == Append(ss, f)
<1>1. /\ n \in Nat /\ Len(tt) = n + 1 /\ tt[n + 1] = f
      /\ \A k \in 1 .. n : tt[k] = ss[k]
  OBVIOUS
<1>6. n + 1 \in Nat \ {0} /\ Len(tt) \in Nat \ {0}
  BY <1>1
<1>2. PICK h : IsFlat(h, tt, n + 1) /\ FlattenSeq(tt) = h[n + 1]
  <2> HIDE DEF n, tt
  <2> QED
    BY <1>1, <1>6, FlatOf
<1>3. h[1] = tt[1] /\ \A k \in 1 .. (n + 1) - 1 : h[k + 1] = Cat(h[k], tt[k + 1])
  <2> HIDE DEF n, tt
  <2> QED
    BY <1>2, <1>6, FlatSteps
<1>4. CASE n = 0
  <2>1. FlattenSeq(tt) = f
    BY <1>1, <1>2, <1>3, <1>4
  <2>2. ss = <<>>
    BY <1>4
  <2>3. Cat(<<>>, f) = f
    BY CatBytes
  <2> QED
    BY <2>1, <2>2, <2>3, FlattenEmpty
<1>5. CASE n # 0
  <2>1. PICK g : IsFlat(g, ss, n) /\ FlattenSeq(ss) = g[n]
    BY <1>1, <1>5, FlatOf
  <2> HIDE DEF n, tt
  <2>2. h[n] = g[n]
    BY <1>1, <1>2, <1>5, <1>6, <2>1, FlatAgrees
  <2>3. h[n + 1] = Cat(h[n], tt[n + 1])
    BY <1>1, <1>3, <1>5
  <2> QED
    BY <1>1, <1>2, <2>1, <2>2, <2>3 DEF tt
<1> QED
  BY <1>4, <1>5

LEMMA FlattenHead ==
  ASSUME NEW ss \in Seq(Bytes), ss # <<>>
  PROVE  /\ ss[1] \in Bytes /\ Tail(ss) \in Seq(Bytes)
         /\ FlattenSeq(ss) = Cat(ss[1], FlattenSeq(Tail(ss)))
<1> DEFINE n == Len(ss)
           tt == Tail(ss)
<1>1. /\ n \in Nat \ {0} /\ tt \in Seq(Bytes) /\ Len(tt) = n - 1
      /\ \A k \in 1 .. n - 1 : tt[k] = ss[k + 1]
      /\ \A k \in 1 .. n : ss[k] \in Bytes
  OBVIOUS
<1>2. PICK g : IsFlat(g, ss, n) /\ FlattenSeq(ss) = g[n]
  BY <1>1, FlatOf
<1>3. g[1] = ss[1] /\ \A k \in 1 .. n - 1 : g[k + 1] = Cat(g[k], ss[k + 1])
  BY <1>1, <1>2, FlatSteps
<1>4. ss[1] \in Bytes
  BY <1>1
<1>5. CASE n = 1
  <2>1. tt = <<>>
    <3>1. tt \in Seq(Bytes) /\ Len(tt) = 0
      BY <1>1, <1>5
    <3> HIDE DEF tt
    <3> QED
      BY <3>1, EmptySeq
  <2>2. Cat(ss[1], <<>>) = ss[1]
    BY <1>4, CatBytes
  <2> QED
    BY <1>1, <1>2, <1>3, <1>4, <1>5, <2>1, <2>2, FlattenEmpty
<1>6. CASE n # 1
  <2>1. n - 1 \in Nat \ {0}
    BY <1>1, <1>6
  <2>2. PICK h : IsFlat(h, tt, n - 1) /\ FlattenSeq(tt) = h[n - 1]
    BY <1>1, <2>1, FlatOf
  <2>3. /\ h[1] = tt[1]
        /\ \A k \in 1 .. (n - 1) - 1 : h[k + 1] = Cat(h[k], tt[k + 1])
    BY <2>1, <2>2, FlatSteps
  <2> HIDE DEF n, tt
  <2> DEFINE S == {i \in Nat : i + 2 <= n =>
                     h[i + 1] \in Bytes /\ g[i + 2] = Cat(ss[1], h[i + 1])}
  <2>4. 0 \in S
    <3>1. g[2] = Cat(g[1], ss[2]) /\ tt[1] = ss[2] /\ ss[2] \in Bytes
      BY <1>1, <1>3, <2>1
    <3> QED
      BY <1>3, <2>3, <3>1
  <2>5. ASSUME NEW i \in Nat, i \in S PROVE i + 1 \in S
    <3> SUFFICES ASSUME (i + 1) + 2 <= n
                 PROVE  /\ h[(i + 1) + 1] \in Bytes
                        /\ g[(i + 1) + 2] = Cat(ss[1], h[(i + 1) + 1])
      OBVIOUS
    <3>1. h[i + 1] \in Bytes /\ g[i + 2] = Cat(ss[1], h[i + 1])
      BY <1>1, <2>5
    <3>2. g[(i + 2) + 1] = Cat(g[i + 2], ss[(i + 2) + 1])
      BY <1>1, <1>3
    <3>3. h[(i + 1) + 1] = Cat(h[i + 1], tt[(i + 1) + 1])
      BY <1>1, <2>3
    <3>4. /\ tt[(i + 1) + 1] = ss[(i + 2) + 1] /\ ss[(i + 2) + 1] \in Bytes
          /\ (i + 2) + 1 = (i + 1) + 2
      <4>1. (i + 1) + 1 \in 1 .. n - 1 /\ (i + 2) + 1 \in 1 .. n
            /\ ((i + 1) + 1) + 1 = (i + 2) + 1
        BY <1>1
      <4> QED
        BY <1>1, <4>1
    <3>5. /\ Cat(h[i + 1], tt[(i + 1) + 1]) \in Bytes
          /\ Cat(Cat(ss[1], h[i + 1]), tt[(i + 1) + 1])
               = Cat(ss[1], Cat(h[i + 1], tt[(i + 1) + 1]))
      <4>1. tt[(i + 1) + 1] \in Bytes
        BY <3>4
      <4>2. h[i + 1] \in Bytes
        BY <3>1
      <4>3. \A r, s, t \in Bytes :
               Cat(s, t) \in Bytes /\ Cat(Cat(r, s), t) = Cat(r, Cat(s, t))
        BY CatBytes
      <4> HIDE DEF S
      <4> QED
        BY <1>4, <4>1, <4>2, <4>3
    <3> QED
      BY <3>1, <3>2, <3>3, <3>4, <3>5
  <2> HIDE DEF S
  <2>6. Nat \subseteq S
    BY <2>4, <2>5, Induct
  <2>7. n - 2 \in S /\ (n - 2) + 2 = n /\ (n - 2) + 1 = n - 1 /\ n <= n
    BY <1>1, <2>1, <2>6
  <2>8. g[n] = Cat(ss[1], h[n - 1])
    BY <2>7 DEF S
  <2> QED
    BY <1>1, <1>2, <1>4, <2>2, <2>8 DEF tt
<1> QED
  BY <1>1, <1>4, <1>5, <1>6

-------------------------------------------------------------------------------
(* Words and their bytes: two's complement there and back.                 *)

DividesBy(b) ==
  \A x \in Int : /\ x \div b \in Int /\ x % b \in 0 .. b - 1
                 /\ x = b * (x \div b) + (x % b)

LEMMA Division == DividesBy(Base)
<1>1. DividesBy(2) /\ DividesBy(4) /\ DividesBy(8) /\ DividesBy(16)
  BY DEF DividesBy
<1>2. DividesBy(32) /\ DividesBy(64) /\ DividesBy(128) /\ DividesBy(256)
  BY DEF DividesBy
<1> QED
  BY <1>1, <1>2, BaseAssumption

LEMMA Times ==
  ASSUME NEW a \in Int, NEW b \in Int, NEW n \in Nat, a <= b
  PROVE  n * a <= n * b
OBVIOUS

Halves(b, h) ==
  /\ b = 2 * h /\ h \in Nat /\ b * h \in Nat \ {0}
  /\ b * b = 2 * (b * h)
  /\ (b * b) \div 2 = b * h /\ (-(b * b)) \div 2 = -(b * h)

LEMMA BaseHalves == \E h \in Nat : Halves(Base, h)
<1>1. Halves(2, 1) /\ Halves(4, 2) /\ Halves(8, 4) /\ Halves(16, 8)
  BY DEF Halves
<1>2. Halves(32, 16) /\ Halves(64, 32) /\ Halves(128, 64) /\ Halves(256, 128)
  BY DEF Halves
<1> QED
  BY <1>1, <1>2, BaseAssumption

LEMMA WordRoundTrip ==
  ASSUME NEW w \in Word
  PROVE  /\ HighByte(w) \in Byte /\ LowByte(w) \in Byte
         /\ ToWord(HighByte(w), LowByte(w)) = w
<1>1. PICK H \in Nat : Halves(Base, H)
  BY BaseHalves
<1> DEFINE M == Base * H
           q == w \div Base
           l == w % Base
           h == q % Base
<1>2. Base \in Nat /\ Base >= 2 /\ Base = 2 * H /\ M \in Nat
  BY <1>1, BaseAssumption DEF Halves
<1>3. Word = (-M)..(M - 1) /\ (Base * Base) \div 2 = M /\ Base * Base = 2 * M
  BY <1>1 DEF Halves, Word
<1>4. w \in Int /\ -M <= w /\ w <= M - 1
  <2> HIDE DEF M
  <2> QED BY <1>2, <1>3
<1>5. q \in Int /\ l \in 0 .. Base - 1 /\ w = Base * q + l
  BY <1>4, Division DEF DividesBy
<1>6. h \in 0 .. Base - 1 /\ \E k \in Int : q = Base * k + h
  BY <1>5, Division DEF DividesBy
<1> HIDE DEF q, l
<1>7. -H <= q /\ q <= H - 1
  <2>1. ASSUME q <= -H - 1 PROVE FALSE
    <3>1. Base * q <= Base * (-H - 1)
      BY <1>2, <1>5, <2>1, Times
    <3>2. Base * (-H - 1) = -M - Base
      BY <1>2
    <3> HIDE DEF M
    <3> QED
      BY <1>2, <1>4, <1>5, <3>1, <3>2
  <2>2. ASSUME q >= H PROVE FALSE
    <3>1. Base * H <= Base * q
      BY <1>2, <1>5, <2>2, Times
    <3> HIDE DEF M
    <3> QED
      BY <1>2, <1>4, <1>5, <3>1 DEF M
  <2> QED
    BY <1>2, <1>5, <2>1, <2>2
<1> HIDE DEF M, h
<1>8. h = q \/ (h = q + Base /\ q < 0)
  <2>1. PICK k \in Int : q = Base * k + h
    BY <1>6
  <2>2. k >= 1 => Base * 1 <= Base * k
    BY <1>2, Times
  <2>3. k <= -2 => Base * k <= Base * (-2)
    BY <1>2, Times
  <2> QED
    BY <1>2, <1>5, <1>6, <1>7, <2>1, <2>2, <2>3
<1> DEFINE u == h * Base + l
<1>9. ToWord(h, l) = IF u < M THEN u ELSE u - 2 * M
  BY <1>2, <1>3, <1>5, <1>6 DEF ToWord
<1>10. h = q => ToWord(h, l) = w
  <2> SUFFICES ASSUME h = q PROVE ToWord(h, l) = w
    OBVIOUS
  <2>1. u = w
    BY <1>2, <1>5
  <2> QED
    BY <1>2, <1>4, <1>9, <2>1
<1>11. h = q + Base /\ q < 0 => ToWord(h, l) = w
  <2> SUFFICES ASSUME h = q + Base, q < 0 PROVE ToWord(h, l) = w
    OBVIOUS
  <2>1. h * Base = Base * q + 2 * M
    BY <1>2, <1>3, <1>5
  <2>2. u = w + 2 * M
    BY <1>2, <1>4, <1>5, <2>1
  <2> HIDE DEF u
  <2> QED
    BY <1>2, <1>4, <1>9, <2>2
<1>12. ToWord(h, l) = w
  BY <1>8, <1>10, <1>11
<1>13. HighByte(w) = h /\ LowByte(w) = l
  BY DEF HighByte, LowByte, h, l, q
<1> QED
  BY <1>5, <1>6, <1>12, <1>13 DEF Byte

LEMMA WordOfBytes ==
  ASSUME NEW hi \in Byte, NEW lo \in Byte PROVE ToWord(hi, lo) \in Word
<1>1. PICK H \in Nat : Halves(Base, H)
  BY BaseHalves
<1> DEFINE M == Base * H
           u == hi * Base + lo
<1>2. Base \in Nat /\ Base >= 2 /\ M \in Nat
  BY <1>1, BaseAssumption DEF Halves
<1>3. Word = (-M)..(M - 1) /\ (Base * Base) \div 2 = M /\ Base * Base = 2 * M
  BY <1>1 DEF Halves, Word
<1>4. hi \in Nat /\ hi <= Base - 1 /\ lo \in Nat /\ lo <= Base - 1
  BY <1>2 DEF Byte
<1>5. u \in Nat /\ u <= 2 * M - 1
  <2>1. Base * hi <= Base * (Base - 1)
    BY <1>2, <1>4, Times
  <2>2. Base * (Base - 1) = Base * Base - Base /\ hi * Base = Base * hi
    BY <1>2, <1>4
  <2> HIDE DEF M
  <2>3. Base * hi \in Nat
    BY <1>2, <1>4
  <2> QED
    BY <1>2, <1>3, <1>4, <2>1, <2>2, <2>3
<1>6. ToWord(hi, lo) = IF u < M THEN u ELSE u - 2 * M
  BY <1>3 DEF ToWord
<1> HIDE DEF M, u
<1> QED
  BY <1>2, <1>3, <1>5, <1>6

-------------------------------------------------------------------------------
(* The frame of a command.                                                 *)

Command == [1 .. Rx16Num -> Word]

Data(w) ==
  [k \in 1 .. (2 * Rx16Num) |->
    IF k % 2 = 1 THEN HighByte(w[(k + 1) \div 2]) ELSE LowByte(w[k \div 2])]

Body(w) == <<DeviceId, 2 * Rx16Num>> \o Data(w)

LEMMA AsSequence ==
  ASSUME NEW n \in Nat, NEW S, NEW f \in [1 .. n -> S]
  PROVE  f \in Seq(S) /\ Len(f) = n
OBVIOUS

LEMMA SizeFacts ==
  /\ Rx16Num \in Nat /\ Rx16Num >= 1 /\ 2 * Rx16Num \in Byte
  /\ \A b \in BOOLEAN : Payloads[b] \subseteq Command
BY SizeAssumption, MessageAssumption, BaseFacts DEF Byte, Command

LEMMA DataBytes ==
  ASSUME NEW w \in Command
  PROVE  /\ Data(w) \in Bytes /\ Len(Data(w)) = 2 * Rx16Num
         /\ \A i \in 1 .. Rx16Num : /\ Data(w)[2 * i - 1] = HighByte(w[i])
                                    /\ Data(w)[2 * i] = LowByte(w[i])
<1>1. \A i \in 1 .. Rx16Num :
        w[i] \in Word /\ HighByte(w[i]) \in Byte /\ LowByte(w[i]) \in Byte
  BY WordRoundTrip DEF Command
<1>2. \A k \in 1 .. (2 * Rx16Num) :
        /\ k % 2 = 1 => (k + 1) \div 2 \in 1 .. Rx16Num
        /\ k % 2 # 1 => k \div 2 \in 1 .. Rx16Num
  BY SizeFacts
<1>3. \A k \in 1 .. (2 * Rx16Num) : Data(w)[k] \in Byte
  BY <1>1, <1>2 DEF Data
<1>4. Data(w) \in [1 .. (2 * Rx16Num) -> Byte]
  BY <1>3 DEF Data
<1>5. 2 * Rx16Num \in Nat
  BY SizeFacts
<1>6. Data(w) \in Bytes /\ Len(Data(w)) = 2 * Rx16Num
  BY <1>4, <1>5, AsSequence DEF Bytes
<1>7. ASSUME NEW i \in 1 .. Rx16Num
      PROVE  Data(w)[2 * i - 1] = HighByte(w[i]) /\ Data(w)[2 * i] = LowByte(w[i])
  <2>1. /\ 2 * i - 1 \in 1 .. (2 * Rx16Num) /\ 2 * i \in 1 .. (2 * Rx16Num)
        /\ (2 * i - 1) % 2 = 1 /\ (2 * i) % 2 = 0
        /\ ((2 * i - 1) + 1) \div 2 = i /\ (2 * i) \div 2 = i
    BY SizeFacts
  <2> QED
    BY <2>1 DEF Data
<1> QED
  BY <1>6, <1>7

LEMMA BodyBytes ==
  ASSUME NEW w \in Command
  PROVE  /\ Body(w) \in Bytes /\ Len(Body(w)) = 2 * Rx16Num + 2
         /\ Body(w)[1] = DeviceId /\ Body(w)[2] = 2 * Rx16Num
         /\ \A k \in 1 .. (2 * Rx16Num) : Body(w)[2 + k] = Data(w)[k]
<1>1. <<DeviceId, 2 * Rx16Num>> \in Seq(Byte)
  BY BaseFacts, SizeFacts
<1>2. Data(w) \in Seq(Byte) /\ Len(Data(w)) = 2 * Rx16Num /\ 2 * Rx16Num \in Nat
  BY DataBytes, SizeFacts DEF Bytes
<1> QED
  BY <1>1, <1>2 DEF Body, Bytes

LEMMA FrameBytes ==
  ASSUME NEW w \in Command
  PROVE  /\ Frame(DeviceId, w) \in Bytes
         /\ Len(Frame(DeviceId, w)) = 2 * Rx16Num + 4
         /\ Frame(DeviceId, w)[1] = StartByte
         /\ Frame(DeviceId, w)[2] = DeviceId
         /\ Frame(DeviceId, w)[3] = 2 * Rx16Num
         /\ \A k \in 1 .. (2 * Rx16Num) : Frame(DeviceId, w)[3 + k] = Data(w)[k]
         /\ Frame(DeviceId, w)[2 * Rx16Num + 4] = Checksum(Body(w))
<1>1. Len(w) = Rx16Num
  BY AsSequence, SizeFacts DEF Command
<1> DEFINE f == <<StartByte>> \o Body(w) \o <<Checksum(Body(w))>>
<1>2. Frame(DeviceId, w) = f
  BY <1>1 DEF Frame, Body, Data
<1>3. /\ Body(w) \in Seq(Byte) /\ Len(Body(w)) = 2 * Rx16Num + 2
      /\ 2 * Rx16Num \in Nat /\ Checksum(Body(w)) \in Byte
  BY BodyBytes, ChecksumByte, SizeFacts DEF Bytes
<1>4. /\ f \in Seq(Byte) /\ Len(f) = 2 * Rx16Num + 4
      /\ f[1] = StartByte /\ f[2 * Rx16Num + 4] = Checksum(Body(w))
      /\ \A k \in 1 .. (2 * Rx16Num + 2) : f[1 + k] = Body(w)[k]
  BY <1>3, BaseFacts
<1> HIDE DEF f
<1>5. /\ 1 \in 1 .. (2 * Rx16Num + 2) /\ 2 \in 1 .. (2 * Rx16Num + 2)
      /\ \A k \in 1 .. (2 * Rx16Num) :
           2 + k \in 1 .. (2 * Rx16Num + 2) /\ 1 + (2 + k) = 3 + k
  BY SizeFacts
<1>6. f[2] = DeviceId /\ f[3] = 2 * Rx16Num
  BY <1>4, <1>5, BodyBytes
<1>7. ASSUME NEW k \in 1 .. (2 * Rx16Num) PROVE f[3 + k] = Data(w)[k]
  BY <1>4, <1>5, BodyBytes
<1> QED
  BY <1>2, <1>4, <1>6, <1>7 DEF Bytes

LEMMA GarbledBytes ==
  ASSUME NEW f \in Bytes, NEW g \in Garbled(f)
  PROVE  g \in Bytes /\ Len(g) <= Len(f)
<1>1. /\ f \in Seq(Byte) /\ Len(f) \in Nat /\ DOMAIN f = 1 .. Len(f)
      /\ \A k \in 1 .. Len(f) : f[k] \in Byte
  BY DEF Bytes
<1>2. CASE \E k \in DOMAIN f : g = RemoveAt(f, k)
  <2>1. PICK k \in 1 .. Len(f) : g = SubSeq(f, 1, k - 1) \o SubSeq(f, k + 1, Len(f))
    BY <1>1, <1>2 DEF RemoveAt
  <2> DEFINE n == Len(f)
             s == SubSeq(f, 1, k - 1)
             t == SubSeq(f, k + 1, n)
  <2>2. s \in Seq(Byte) /\ Len(s) = k - 1
    BY <1>1, SubSeqProperties
  <2>3. t \in Seq(Byte) /\ Len(t) = n - k
    <3>1. \A i \in (k + 1) .. n : f[i] \in Byte
      BY <1>1
    <3>2. n \in Nat /\ k + 1 \in Int /\ n \in Int
      BY <1>1
    <3> HIDE DEF n
    <3>3. /\ t \in Seq(Byte)
          /\ Len(t) = IF k + 1 <= n THEN n - (k + 1) + 1 ELSE 0
      BY <3>1, <3>2, SubSeqProperties
    <3> HIDE DEF t
    <3>4. k <= n /\ k \in Nat
      BY <1>1 DEF n
    <3> QED
      BY <3>2, <3>3, <3>4
  <2>4. g = s \o t
    BY <2>1
  <2> HIDE DEF s, t
  <2>5. g \in Seq(Byte) /\ Len(g) = (k - 1) + (n - k)
    <3>1. s \o t \in Seq(Byte) /\ Len(s \o t) = Len(s) + Len(t)
      BY <2>2, <2>3, ConcatProperties, Zenon
    <3> QED
      BY <2>2, <2>3, <2>4, <3>1, Zenon
  <2> QED
    BY <1>1, <2>5 DEF Bytes
<1>3. CASE \E k \in DOMAIN f, b \in Byte : g = ReplaceAt(f, k, b)
  BY <1>1, <1>3, ExceptSeq DEF ReplaceAt, Bytes
<1> QED
  BY <1>2, <1>3 DEF Garbled

LEMMA CutBytes ==
  ASSUME NEW f \in Bytes, NEW n \in 0 .. Len(f)
  PROVE  /\ SubSeq(f, 1, n) \in Bytes /\ Len(SubSeq(f, 1, n)) = n
         /\ \A i \in 1 .. n : SubSeq(f, 1, n)[i] = f[i]
<1>1. \A k \in 1 .. n : f[k] \in Byte
  BY DEF Bytes
<1>2. n \in Int /\ 1 \in Int /\ n \in Nat
  BY DEF Bytes
<1> QED
  BY <1>1, <1>2, SubSeqProperties DEF Bytes

(* Whatever the bytes are, they give words.                                *)
LEMMA WordsOfBytes ==
  ASSUME NEW d \in Bytes
  PROVE  /\ Len(Words(d)) = Len(d) \div 2
         /\ \A i \in 1 .. Len(Words(d)) : Words(d)[i] \in Word
<1>1. Len(d) \in Nat /\ Len(d) \div 2 \in Nat
  BY DEF Bytes
<1>2. \A i \in 1 .. (Len(d) \div 2) : 2 * i - 1 \in 1 .. Len(d) /\ 2 * i \in 1 .. Len(d)
  BY <1>1
<1>3. \A i \in 1 .. (Len(d) \div 2) : ToWord(d[2 * i - 1], d[2 * i]) \in Word
  BY <1>2, WordOfBytes DEF Bytes
<1>4. Words(d) \in [1 .. (Len(d) \div 2) -> Word]
  BY <1>3 DEF Words
<1> QED
  BY <1>1, <1>4, AsSequence

LEMMA WordsOfData ==
  ASSUME NEW w \in Command, NEW d \in Bytes, Len(d) = 2 * Rx16Num,
         \A k \in 1 .. (2 * Rx16Num) : d[k] = Data(w)[k]
  PROVE  /\ Len(Words(d)) = Rx16Num
         /\ \A i \in 1 .. Rx16Num : Words(d)[i] = w[i]
<1>1. Len(d) \div 2 = Rx16Num
  BY SizeFacts
<1>2. ASSUME NEW i \in 1 .. Rx16Num PROVE Words(d)[i] = w[i]
  <2>1. Words(d)[i] = ToWord(d[2 * i - 1], d[2 * i])
    BY <1>1 DEF Words
  <2>2. 2 * i - 1 \in 1 .. (2 * Rx16Num) /\ 2 * i \in 1 .. (2 * Rx16Num)
    BY SizeFacts
  <2>3. d[2 * i - 1] = HighByte(w[i]) /\ d[2 * i] = LowByte(w[i])
    BY <2>2, DataBytes
  <2>4. w[i] \in Word
    BY DEF Command
  <2> QED
    BY <2>1, <2>3, <2>4, WordRoundTrip
<1> QED
  BY <1>1, <1>2, WordsOfBytes

-------------------------------------------------------------------------------
(* The bytes of a stream, read and still to come.                          *)

LEMMA StreamHead ==
  ASSUME NEW c \in Bytes, NEW l \in Bytes, NEW f \in Bytes, NEW r \in Bytes,
         Cat(c, l) = Cat(f, r), l # <<>>, Len(c) < Len(f)
  PROVE  /\ Head(l) = f[Len(c) + 1] /\ \A k \in 1 .. Len(c) : c[k] = f[k]
         /\ Head(l) \in Byte /\ Tail(l) \in Bytes
         /\ Cat(Append(c, Head(l)), Tail(l)) = Cat(f, r)
<1> USE DEF Cat
<1>1. /\ Len(c) \in Nat /\ Len(f) \in Nat /\ Len(l) \in Nat \ {0}
      /\ Head(l) = l[1] /\ Head(l) \in Byte /\ Tail(l) \in Bytes
      /\ l = <<Head(l)>> \o Tail(l)
  BY DEF Bytes
<1>2. \A k \in 1 .. Len(c) : (c \o l)[k] = c[k]
  BY <1>1 DEF Bytes
<1>3. (c \o l)[Len(c) + 1] = l[1]
  BY <1>1 DEF Bytes
<1>4. \A k \in 1 .. Len(f) : (f \o r)[k] = f[k]
  BY <1>1 DEF Bytes
<1>5. Append(c, Head(l)) \o Tail(l) = c \o l
  <2>1. Append(c, Head(l)) = c \o <<Head(l)>>
    <3>1. c \in Seq(Byte) /\ Head(l) \in Byte
      BY <1>1 DEF Bytes
    <3> QED
      BY <3>1, AppendIsConcat
  <2>2. /\ c \in Seq(Byte) /\ <<Head(l)>> \in Seq(Byte) /\ Tail(l) \in Seq(Byte)
    BY <1>1 DEF Bytes
  <2>3. (c \o <<Head(l)>>) \o Tail(l) = c \o (<<Head(l)>> \o Tail(l))
    BY <2>2, ConcatAssociative
  <2> QED
    BY <1>1, <2>1, <2>3
<1>6. Len(c) + 1 \in 1 .. Len(f) /\ \A k \in 1 .. Len(c) : k \in 1 .. Len(f)
  BY <1>1
<1>7. c \o l = f \o r
  OBVIOUS
<1> QED
  BY <1>1, <1>2, <1>3, <1>4, <1>5, <1>6, <1>7

LEMMA StreamSplit ==
  ASSUME NEW c \in Bytes, NEW l \in Bytes, NEW r \in Bytes,
         Cat(c, l) = Cat(c, r)
  PROVE  l = r
BY ConcatSimplifications DEF Bytes, Cat

-------------------------------------------------------------------------------
(* The inductive invariant: where the checksum and the length of what is   *)
(* being received stand.                                                   *)

SumInv ==
  /\ rxState = "len" => rxChecksum = rxId
  /\ rxState \in {"data", "checksum"} =>
       rxChecksum = Checksum(<<rxId, rxLen>> \o rxBuf)

(* A frame of length 0 is given up one byte later.                         *)
LengthInv ==
  /\ rxState \in {"data", "checksum"} => rxLen <= 2 * Rx16Num
  /\ rxState = "data" => Len(rxBuf) = 0 \/ Len(rxBuf) < rxLen
  /\ rxState = "checksum" => Len(rxBuf) = rxLen \/ (rxLen = 0 /\ Len(rxBuf) = 1)

RxInv == TypeOK /\ SumInv /\ LengthInv /\ CommandsExact

(* The bytes read of the current frame, by the state.                      *)
LEMMA ConsumedBytes ==
  ASSUME TypeOK, LengthInv
  PROVE  /\ Consumed \in Bytes /\ line \in Bytes
         /\ rxState = "start" => Consumed = <<>> /\ Len(Consumed) = 0
         /\ rxState = "id" => Consumed = <<StartByte>> /\ Len(Consumed) = 1
         /\ rxState = "len" => Consumed = <<StartByte, rxId>> /\ Len(Consumed) = 2
         /\ rxState \in {"data", "checksum"} =>
              /\ Consumed = <<StartByte, rxId, rxLen>> \o rxBuf
              /\ Len(Consumed) = 3 + Len(rxBuf)
              /\ Consumed[2] = rxId /\ Consumed[3] = rxLen
              /\ \A k \in 1 .. Len(rxBuf) : Consumed[3 + k] = rxBuf[k]
         /\ Len(Consumed) < 2 * Rx16Num + 4
<1>1. /\ rxBuf \in Seq(Byte) /\ rxId \in Byte /\ rxLen \in Byte /\ StartByte \in Byte
      /\ line \in Seq(Byte) /\ Len(rxBuf) \in Nat /\ Rx16Num \in Nat /\ Rx16Num >= 1
      /\ rxLen \in Nat
      /\ rxState \in {"start", "id", "len", "data", "checksum"}
  BY BaseFacts, SizeFacts DEF TypeOK
<1>2. CASE rxState = "start"
  BY <1>1, <1>2 DEF Consumed, Bytes
<1>3. CASE rxState = "id"
  BY <1>1, <1>3 DEF Consumed, Bytes
<1>4. CASE rxState = "len"
  BY <1>1, <1>4 DEF Consumed, Bytes
<1>5. CASE rxState \in {"data", "checksum"}
  <2>1. Consumed = <<StartByte, rxId, rxLen>> \o rxBuf
    BY <1>5 DEF Consumed
  <2>2. <<StartByte, rxId, rxLen>> \in Seq(Byte)
    BY <1>1
  <2>3. /\ Consumed \in Seq(Byte) /\ Len(Consumed) = 3 + Len(rxBuf)
        /\ Consumed[2] = rxId /\ Consumed[3] = rxLen
        /\ \A k \in 1 .. Len(rxBuf) : Consumed[3 + k] = rxBuf[k]
    BY <1>1, <2>1, <2>2
  <2>4. Len(rxBuf) <= 2 * Rx16Num
    <3>1. rxLen <= 2 * Rx16Num
      BY <1>5 DEF LengthInv
    <3>2. CASE rxState = "data"
      <4>1. Len(rxBuf) = 0 \/ Len(rxBuf) < rxLen
        BY <3>2 DEF LengthInv
      <4> QED
        BY <1>1, <3>1, <4>1
    <3>3. CASE rxState = "checksum"
      <4>1. Len(rxBuf) = rxLen \/ Len(rxBuf) = 1
        BY <3>3 DEF LengthInv
      <4>2. 1 <= 2 * Rx16Num
        BY <1>1
      <4> QED
        BY <3>1, <4>1, <4>2
    <3> QED
      BY <1>5, <3>2, <3>3
  <2> QED
    BY <1>1, <1>5, <2>1, <2>3, <2>4 DEF Bytes
<1> QED
  BY <1>1, <1>2, <1>3, <1>4, <1>5

(* The frames of the messages in q.                                        *)
FramesOf(q) == [k \in DOMAIN q |-> Frame(DeviceId, q[k])]

LEMMA FramesBytes ==
  ASSUME NEW q \in Seq(Command)
  PROVE  FramesOf(q) \in Seq(Bytes) /\ Len(FramesOf(q)) = Len(q)
<1>1. Len(q) \in Nat /\ DOMAIN q = 1 .. Len(q) /\ \A k \in 1 .. Len(q) : q[k] \in Command
  OBVIOUS
<1>2. FramesOf(q) \in [1 .. Len(q) -> Bytes]
  BY <1>1, FrameBytes DEF FramesOf
<1> QED
  BY <1>1, <1>2, AsSequence

LEMMA FramesAppend ==
  ASSUME NEW q \in Seq(Command), NEW w \in Command
  PROVE  FramesOf(Append(q, w)) = Append(FramesOf(q), Frame(DeviceId, w))
<1> DEFINE f == Frame(DeviceId, w)
           s == FramesOf(Append(q, w))
           t == Append(FramesOf(q), f)
<1>1. Append(q, w) \in Seq(Command) /\ Len(Append(q, w)) = Len(q) + 1 /\ Len(q) \in Nat
  OBVIOUS
<1>2. s \in Seq(Bytes) /\ Len(s) = Len(q) + 1
  BY <1>1, FramesBytes
<1>3. f \in Bytes /\ FramesOf(q) \in Seq(Bytes) /\ Len(FramesOf(q)) = Len(q)
  BY FrameBytes, FramesBytes
<1>4. /\ t \in Seq(Bytes) /\ Len(t) = Len(q) + 1 /\ t[Len(q) + 1] = f
      /\ \A k \in 1 .. Len(q) : t[k] = FramesOf(q)[k]
  BY <1>1, <1>3
<1>5. /\ \A k \in 1 .. Len(q) : FramesOf(q)[k] = Frame(DeviceId, q[k])
      /\ \A k \in 1 .. Len(q) + 1 : s[k] = Frame(DeviceId, Append(q, w)[k])
  BY <1>1 DEF FramesOf
<1>6. /\ \A k \in 1 .. Len(q) : Append(q, w)[k] = q[k]
      /\ Append(q, w)[Len(q) + 1] = w
  OBVIOUS
<1>7. ASSUME NEW k \in 1 .. Len(q) + 1 PROVE s[k] = t[k]
  <2>1. CASE k \in 1 .. Len(q)
    BY <1>1, <1>4, <1>5, <1>6, <2>1
  <2>2. CASE k = Len(q) + 1
    BY <1>1, <1>4, <1>5, <1>6, <2>2
  <2>3. k \in 1 .. Len(q) \/ k = Len(q) + 1
    BY <1>1
  <2> QED
    BY <2>1, <2>2, <2>3
<1> HIDE DEF s, t
<1> QED
  BY <1>2, <1>4, <1>7, SeqEqual DEF s, t

LEMMA FramesTail ==
  ASSUME NEW q \in Seq(Command), q # <<>>
  PROVE  /\ Head(q) \in Command /\ Tail(q) \in Seq(Command)
         /\ FramesOf(q) # <<>> /\ FramesOf(q)[1] = Frame(DeviceId, Head(q))
         /\ FramesOf(Tail(q)) = Tail(FramesOf(q))
<1>1. /\ Len(q) \in Nat \ {0} /\ DOMAIN q = 1 .. Len(q)
      /\ Head(q) \in Command /\ Head(q) = q[1]
      /\ Tail(q) \in Seq(Command) /\ Len(Tail(q)) = Len(q) - 1
      /\ \A k \in 1 .. Len(q) - 1 : Tail(q)[k] = q[k + 1]
  OBVIOUS
<1> DEFINE s == FramesOf(Tail(q))
           t == Tail(FramesOf(q))
<1>2. FramesOf(q) \in Seq(Bytes) /\ Len(FramesOf(q)) = Len(q)
  BY FramesBytes
<1>3. s \in Seq(Bytes) /\ Len(s) = Len(q) - 1
  BY <1>1, FramesBytes
<1>4. /\ FramesOf(q) # <<>>
      /\ t \in Seq(Bytes) /\ Len(t) = Len(q) - 1
      /\ \A k \in 1 .. Len(q) - 1 : t[k] = FramesOf(q)[k + 1]
  BY <1>1, <1>2
<1>5. /\ \A k \in 1 .. Len(q) : FramesOf(q)[k] = Frame(DeviceId, q[k])
      /\ \A k \in 1 .. Len(q) - 1 : s[k] = Frame(DeviceId, Tail(q)[k])
  BY <1>1 DEF FramesOf
<1>6. ASSUME NEW k \in 1 .. Len(q) - 1 PROVE s[k] = t[k]
  <2>1. k + 1 \in 1 .. Len(q)
    BY <1>1
  <2> QED
    BY <1>1, <1>4, <1>5, <2>1
<1>7. FramesOf(q)[1] = Frame(DeviceId, Head(q))
  <2>1. 1 \in 1 .. Len(q)
    BY <1>1
  <2> QED
    BY <1>1, <1>5, <2>1
<1> HIDE DEF s, t
<1>8. s = t
  BY <1>3, <1>4, <1>6, SeqEqual
<1> QED
  BY <1>1, <1>4, <1>7, <1>8 DEF s, t

(* The frame being received on an undamaged line, and what follows it.     *)
Current == Frame(DeviceId, Head(inFlight))
Rest == FlattenSeq(FramesOf(Tail(inFlight)))

LEMMA InFlightFacts ==
  ASSUME TypeOK, inFlight # <<>>
  PROVE  /\ Head(inFlight) \in Command
         /\ Tail(inFlight) \in Seq(Payloads[strict])
         /\ Current \in Bytes /\ Rest \in Bytes
         /\ FlattenSeq(FramesOf(inFlight)) = Current \o Rest
<1>1. inFlight \in Seq(Payloads[strict]) /\ Payloads[strict] \subseteq Command
  BY SizeFacts DEF TypeOK
<1>2. inFlight \in Seq(Command)
  BY <1>1, SeqMonotonic
<1>3. FramesOf(inFlight) \in Seq(Bytes)
  BY <1>2, FramesBytes
<1>4. /\ Head(inFlight) \in Command /\ Tail(inFlight) \in Seq(Command)
      /\ FramesOf(inFlight) # <<>> /\ FramesOf(inFlight)[1] = Current
      /\ FramesOf(Tail(inFlight)) = Tail(FramesOf(inFlight))
  BY <1>2, FramesTail DEF Current
<1>5. FlattenSeq(FramesOf(inFlight)) = Cat(Current, Rest)
  BY <1>3, <1>4, FlattenHead DEF Rest
<1>6. Current \in Bytes
  BY <1>4, FrameBytes DEF Current
<1>7. Rest \in Bytes
  BY <1>4, FramesBytes, FlattenBytes DEF Rest
<1>8. Tail(inFlight) \in Seq(Payloads[strict])
  BY <1>1
<1> QED
  BY <1>4, <1>5, <1>6, <1>7, <1>8 DEF Cat

LEMMA NextByte ==
  ASSUME RxInv, damage = 0, line # <<>>
  PROVE  /\ inFlight # <<>>
         /\ Head(line) = Current[Len(Consumed) + 1]
         /\ \A k \in 1 .. Len(Consumed) : Consumed[k] = Current[k]
         /\ Cat(Append(Consumed, Head(line)), Tail(line)) = Cat(Current, Rest)
<1>1. Consumed \in Bytes /\ line \in Bytes /\ Len(Consumed) < 2 * Rx16Num + 4
  BY ConsumedBytes DEF RxInv
<1>2. Consumed \o line = FlattenSeq(FramesOf(inFlight))
  BY DEF RxInv, CommandsExact, FramesOf
<1>3. inFlight # <<>>
  <2> SUFFICES ASSUME inFlight = <<>> PROVE FALSE
    OBVIOUS
  <2>1. DOMAIN inFlight = {}
    OBVIOUS
  <2>2. FramesOf(inFlight) = <<>>
    BY <2>1 DEF FramesOf
  <2>3. Consumed \o line = <<>>
    BY <1>2, <2>2, FlattenEmpty
  <2>4. Consumed \in Seq(Byte) /\ line \in Seq(Byte)
    BY <1>1 DEF Bytes
  <2> QED
    BY <2>3, <2>4, ConcatEqualIffEmpty
<1>4. /\ Current \in Bytes /\ Rest \in Bytes /\ Cat(Consumed, line) = Cat(Current, Rest)
      /\ Head(inFlight) \in Command
  BY <1>2, <1>3, InFlightFacts DEF RxInv, Cat
<1>5. Len(Consumed) < Len(Current)
  BY <1>1, <1>4, FrameBytes DEF Current
<1> HIDE DEF Current, Rest
<1> QED
  BY <1>1, <1>3, <1>4, <1>5, StreamHead

(* A step that reads one more byte of the frame.                           *)
LEMMA ReadsOn ==
  ASSUME RxInv, Receive, inFlight' = inFlight,
         damage = 0 => Consumed' = Append(Consumed, Head(line))
  PROVE  CommandsExact'
<1> SUFFICES ASSUME damage' = 0
             PROVE  Consumed' \o line' = FlattenSeq(FramesOf(inFlight)')
  BY DEF CommandsExact, FramesOf
<1>1. damage = 0 /\ line # <<>> /\ line' = Tail(line)
  BY DEF Receive
<1>2. Append(Consumed, Head(line)) \o Tail(line) = Current \o Rest /\ inFlight # <<>>
  BY <1>1, NextByte DEF Cat
<1>3. FlattenSeq(FramesOf(inFlight)) = Current \o Rest
  BY <1>2, InFlightFacts DEF RxInv
<1>4. FramesOf(inFlight)' = FramesOf(inFlight)
  BY DEF FramesOf
<1> QED
  BY <1>1, <1>2, <1>3, <1>4

-------------------------------------------------------------------------------
(* A byte is read.                                                         *)

LEMMA ReceiveFacts ==
  ASSUME TypeOK, Receive
  PROVE  /\ line # <<>> /\ Head(line) \in Byte /\ line' = Tail(line)
         /\ line' \in Seq(Byte) /\ Len(line') <= FifoSize
         /\ strict' = strict /\ damage' = damage
<1>1. /\ line # <<>> /\ line' = Tail(line) /\ line \in Seq(Byte)
      /\ Len(line) <= FifoSize /\ FifoSize \in Nat
  BY SizeAssumption, MessageAssumption DEF Receive, TypeOK
<1>2. Head(line) \in Byte /\ Tail(line) \in Seq(Byte) /\ Len(Tail(line)) = Len(line) - 1
  BY <1>1
<1> QED
  BY <1>1, <1>2 DEF Receive

LEMMA StartStep ==
  ASSUME RxInv, Receive, WaitStart(Head(line)) PROVE RxInv'
<1>1. TypeOK
  BY DEF RxInv
<1>2. TypeOK'
  BY <1>1, ReceiveFacts DEF TypeOK, WaitStart, Keep
<1>3. SumInv' /\ LengthInv'
  BY DEF SumInv, LengthInv, WaitStart
<1>4. ASSUME damage = 0 PROVE Consumed' = Append(Consumed, Head(line))
  <2>1. rxState = "start" /\ Consumed = <<>> /\ Len(Consumed) = 0
    BY ConsumedBytes DEF RxInv, WaitStart
  <2>2. Head(line) = Current[1] /\ Head(inFlight) \in Command
    BY <1>1, <1>4, <2>1, ReceiveFacts, NextByte, InFlightFacts
  <2>3. Head(line) = StartByte
    BY <2>2, FrameBytes DEF Current
  <2> QED
    BY <2>1, <2>3 DEF WaitStart, Consumed
<1>5. CommandsExact'
  BY <1>4, ReadsOn DEF WaitStart, Keep
<1> QED
  BY <1>2, <1>3, <1>5 DEF RxInv

LEMMA IdStep ==
  ASSUME RxInv, Receive, WaitId(Head(line)) PROVE RxInv'
<1>1. TypeOK
  BY DEF RxInv
<1>2. TypeOK'
  BY <1>1, ReceiveFacts DEF TypeOK, WaitId, Keep
<1>3. SumInv' /\ LengthInv'
  BY DEF SumInv, LengthInv, WaitId
<1>4. ASSUME damage = 0 PROVE Consumed' = Append(Consumed, Head(line))
  <2>1. rxState = "id" /\ Consumed = <<StartByte>> /\ Len(Consumed) = 1
    BY ConsumedBytes DEF RxInv, WaitId
  <2>2. Head(line) = Current[1 + 1] /\ Head(inFlight) \in Command
    BY <1>1, <1>4, <2>1, ReceiveFacts, NextByte, InFlightFacts
  <2>3. Head(line) = DeviceId
    BY <2>2, FrameBytes DEF Current
  <2> QED
    BY <2>1, <2>3 DEF WaitId, Consumed
<1>5. CommandsExact'
  BY <1>4, ReadsOn DEF WaitId, Keep
<1> QED
  BY <1>2, <1>3, <1>5 DEF RxInv

LEMMA LenStep ==
  ASSUME RxInv, Receive, WaitLen(Head(line)) PROVE RxInv'
<1> DEFINE b == Head(line)
<1>1. TypeOK
  BY DEF RxInv
<1>2. b \in Byte /\ rxChecksum \in Byte /\ rxId \in Byte
  BY <1>1, ReceiveFacts DEF TypeOK
<1>3. TypeOK'
  <2>1. XorOf[<<rxChecksum, b>>] \in Byte /\ <<>> \in Seq(Byte)
    BY <1>2, XorByte
  <2> HIDE DEF b
  <2> QED
    BY <1>1, <1>2, <2>1, ReceiveFacts DEF TypeOK, WaitLen, Keep, b
<1>4. SumInv'
  <2>1. rxChecksum = rxId
    BY DEF RxInv, SumInv, WaitLen
  <2>2. rxChecksum' = Checksum(<<rxId, b>>)
    BY <1>2, <2>1, ChecksumShort DEF WaitLen
  <2>3. <<rxId, b>> \o <<>> = <<rxId, b>>
    BY <1>2
  <2>4. rxState' # "len"
    BY DEF WaitLen
  <2>5. rxState' = "data" \/ rxState' = "start"
    BY DEF WaitLen
  <2>6. rxState' = "data" => rxBuf' = <<>> /\ rxLen' = b /\ rxId' = rxId
    BY DEF WaitLen
  <2> HIDE DEF b
  <2> QED
    BY <2>2, <2>3, <2>4, <2>5, <2>6 DEF SumInv
<1>5. LengthInv'
  <2>1. rxState' = "start" \/ (rxState' = "data" /\ LengthOk(b) /\ rxBuf' = <<>>)
    BY DEF WaitLen
  <2>2. LengthOk(b) => b <= 2 * Rx16Num
    BY <1>2, SizeFacts DEF LengthOk
  <2>3. rxLen' = b /\ Len(<<>>) = 0
    BY DEF WaitLen
  <2> QED
    BY <2>1, <2>2, <2>3 DEF LengthInv
<1>6. ASSUME damage = 0 PROVE Consumed' = Append(Consumed, Head(line))
  <2>1. rxState = "len" /\ Consumed = <<StartByte, rxId>> /\ Len(Consumed) = 2
    BY ConsumedBytes DEF RxInv, WaitLen
  <2>2. b = Current[2 + 1] /\ Head(inFlight) \in Command
    BY <1>1, <1>6, <2>1, ReceiveFacts, NextByte, InFlightFacts
  <2>3. b = 2 * Rx16Num
    BY <2>2, FrameBytes DEF Current
  <2>4. LengthOk(b)
    BY <2>3, SizeFacts DEF LengthOk
  <2>5. rxState' = "data" /\ rxBuf' = <<>> /\ rxLen' = b /\ rxId' = rxId
    BY <2>4 DEF WaitLen
  <2>6. Consumed' = <<StartByte, rxId, b>> \o <<>>
    BY <2>5 DEF Consumed
  <2>7. StartByte \in Byte
    BY BaseFacts
  <2> QED
    BY <1>2, <2>1, <2>6, <2>7
<1>7. CommandsExact'
  BY <1>6, ReadsOn DEF WaitLen, Keep
<1> QED
  BY <1>3, <1>4, <1>5, <1>7 DEF RxInv

LEMMA DataStep ==
  ASSUME RxInv, Receive, WaitData(Head(line)) PROVE RxInv'
<1> DEFINE b == Head(line)
           start == <<rxId, rxLen>>
<1>1. TypeOK
  BY DEF RxInv
<1>2. /\ b \in Byte /\ rxChecksum \in Byte /\ rxId \in Byte /\ rxLen \in Byte
      /\ rxBuf \in Seq(Byte) /\ StartByte \in Byte /\ Len(rxBuf) \in Nat
      /\ rxLen \in Nat /\ Rx16Num \in Nat
  BY <1>1, ReceiveFacts, BaseFacts, SizeFacts DEF TypeOK
<1>3. /\ rxState = "data" /\ rxBuf' = Append(rxBuf, b)
      /\ rxChecksum' = XorOf[<<rxChecksum, b>>]
      /\ rxId' = rxId /\ rxLen' = rxLen /\ rxState' \in {"data", "checksum"}
      /\ rxState' = IF Len(rxBuf') >= rxLen THEN "checksum" ELSE "data"
  BY DEF WaitData
<1> HIDE DEF b
<1>4. rxBuf' \in Seq(Byte) /\ Len(rxBuf') = Len(rxBuf) + 1
  BY <1>2, <1>3
<1>5. TypeOK'
  <2>1. rxChecksum' \in Byte
    BY <1>2, <1>3, XorByte
  <2> QED
    BY <1>1, <1>3, <1>4, <2>1, ReceiveFacts DEF TypeOK, WaitData, Keep
<1>6. SumInv'
  <2>1. rxChecksum = Checksum(start \o rxBuf)
    BY <1>3 DEF RxInv, SumInv
  <2>2. start \o rxBuf \in Seq(Byte)
    BY <1>2
  <2>3. start \o Append(rxBuf, b) = Append(start \o rxBuf, b)
    BY <1>2
  <2>4. rxChecksum' = Checksum(start \o rxBuf')
    BY <1>2, <1>3, <2>1, <2>2, <2>3, ChecksumAppend
  <2> QED
    BY <1>3, <2>4 DEF SumInv
<1>7. LengthInv'
  <2>1. rxLen <= 2 * Rx16Num /\ (Len(rxBuf) = 0 \/ Len(rxBuf) < rxLen)
    BY <1>3 DEF RxInv, LengthInv
  <2> DEFINE n == Len(rxBuf)
             m == 2 * Rx16Num
             n2 == Len(rxBuf')
  <2>2. n2 = n + 1 /\ n \in Nat /\ m \in Nat /\ (n = 0 \/ n < rxLen) /\ rxLen <= m
    BY <1>2, <1>4, <2>1
  <2>3. rxState' = IF n2 >= rxLen THEN "checksum" ELSE "data"
    BY <1>3
  <2>4. /\ rxState' \in {"data", "checksum"} => rxLen' <= m
        /\ rxState' = "data" => n2 = 0 \/ n2 < rxLen'
        /\ rxState' = "checksum" => n2 = rxLen' \/ (rxLen' = 0 /\ n2 = 1)
    <3> HIDE DEF n, m, n2
    <3> QED
      BY <1>2, <1>3, <2>2, <2>3
  <2> QED
    BY <2>4 DEF LengthInv
<1>8. Consumed' = Append(Consumed, Head(line))
  <2>1. Consumed = <<StartByte, rxId, rxLen>> \o rxBuf
    BY <1>3 DEF Consumed
  <2>2. Consumed' = <<StartByte, rxId, rxLen>> \o Append(rxBuf, b)
    BY <1>3 DEF Consumed
  <2> QED
    BY <1>2, <2>1, <2>2 DEF b
<1>9. CommandsExact'
  BY <1>8, ReadsOn DEF WaitData, Keep
<1> QED
  BY <1>5, <1>6, <1>7, <1>9 DEF RxInv

LEMMA ChecksumTypes ==
  ASSUME TypeOK, LengthInv, rxState = "checksum"
  PROVE  /\ rxLen \in Nat /\ rxBuf \in Bytes /\ rxLen \in 0 .. Len(rxBuf)
         /\ SubSeq(rxBuf, 1, rxLen) \in Bytes
<1>1. rxLen \in Nat /\ rxBuf \in Bytes /\ Len(rxBuf) \in Nat
  BY BaseFacts DEF TypeOK, Bytes
<1>2. Len(rxBuf) = rxLen \/ rxLen = 0
  BY DEF LengthInv
<1> QED
  BY <1>1, <1>2, CutBytes

(* On an undamaged line the checksum byte completes the oldest message on  *)
(* its way, and the frames of the others follow.                           *)
LEMMA FrameComplete ==
  ASSUME RxInv, Receive, WaitChecksum(Head(line)), damage = 0
  PROVE  /\ inFlight # <<>> /\ fresh'
         /\ commands' = Head(inFlight) /\ line' = Rest
<1> DEFINE b == Head(line)
           w == Head(inFlight)
           n == 2 * Rx16Num
<1>1. TypeOK /\ LengthInv /\ line # <<>> /\ b \in Byte /\ rxState = "checksum"
  BY ReceiveFacts DEF RxInv, WaitChecksum
<1>2. /\ inFlight # <<>>
      /\ b = Current[Len(Consumed) + 1]
      /\ \A k \in 1 .. Len(Consumed) : Consumed[k] = Current[k]
      /\ Cat(Append(Consumed, b), Tail(line)) = Cat(Current, Rest)
  BY <1>1, NextByte
<1>3. w \in Command /\ Current \in Bytes /\ Rest \in Bytes
  BY <1>1, <1>2, InFlightFacts
<1> HIDE DEF w
<1>4. Current = Frame(DeviceId, w)
  BY DEF Current, w
<1>5. /\ Len(Current) = n + 4 /\ Current[2] = DeviceId /\ Current[3] = n
      /\ \A k \in 1 .. n : Current[3 + k] = Data(w)[k]
      /\ Current[n + 4] = Checksum(Body(w))
  BY <1>3, <1>4, FrameBytes
<1>6. /\ Consumed \in Bytes /\ Len(Consumed) = 3 + Len(rxBuf)
      /\ Consumed[2] = rxId /\ Consumed[3] = rxLen
      /\ \A k \in 1 .. Len(rxBuf) : Consumed[3 + k] = rxBuf[k]
  BY <1>1, ConsumedBytes
<1>7. /\ rxBuf \in Bytes /\ Len(rxBuf) \in Nat /\ n \in Nat /\ n >= 1
      /\ n \in Byte /\ DeviceId \in Byte
  BY <1>1, SizeFacts, BaseFacts DEF TypeOK, Bytes
<1>8. rxId = DeviceId /\ rxLen = n
  <2>1. 2 \in 1 .. Len(Consumed) /\ 3 \in 1 .. Len(Consumed)
    BY <1>6, <1>7
  <2> QED
    BY <1>2, <1>5, <1>6, <2>1
<1>9. Len(rxBuf) = n
  BY <1>1, <1>7, <1>8 DEF LengthInv
<1>10. ASSUME NEW k \in 1 .. n PROVE rxBuf[k] = Data(w)[k]
  <2>1. 3 + k \in 1 .. Len(Consumed) /\ k \in 1 .. Len(rxBuf)
    BY <1>6, <1>7, <1>9
  <2> QED
    BY <1>2, <1>5, <1>6, <2>1
<1>11. rxBuf = Data(w)
  <2>1. Data(w) \in Seq(Byte) /\ Len(Data(w)) = n /\ rxBuf \in Seq(Byte)
    BY <1>3, <1>7, DataBytes DEF Bytes
  <2> QED
    BY <1>9, <1>10, <2>1, SeqEqual
<1>12. Len(Consumed) + 1 = n + 4
  BY <1>6, <1>7, <1>9
<1>13. b = rxChecksum
  <2>1. rxChecksum = Checksum(<<rxId, rxLen>> \o rxBuf)
    BY <1>1 DEF RxInv, SumInv
  <2>2. rxChecksum = Checksum(Body(w))
    BY <1>8, <1>11, <2>1 DEF Body
  <2> QED
    BY <1>2, <1>5, <1>12, <2>2
<1>14. fresh'
  BY <1>8, <1>13 DEF WaitChecksum, Accepted
<1>15. Append(Consumed, b) = Current
  <2>1. /\ Consumed \in Seq(Byte) /\ Current \in Seq(Byte)
        /\ Append(Consumed, b) \in Seq(Byte)
        /\ Len(Append(Consumed, b)) = Len(Consumed) + 1
        /\ Append(Consumed, b)[Len(Consumed) + 1] = b
        /\ \A k \in 1 .. Len(Consumed) : Append(Consumed, b)[k] = Consumed[k]
        /\ Len(Consumed) \in Nat
    BY <1>1, <1>3, <1>6 DEF Bytes
  <2>2. ASSUME NEW k \in 1 .. (n + 4) PROVE Append(Consumed, b)[k] = Current[k]
    <3>1. CASE k \in 1 .. Len(Consumed)
      BY <1>2, <2>1, <3>1
    <3>2. CASE k = Len(Consumed) + 1
      BY <1>2, <2>1, <3>2
    <3>3. k \in 1 .. Len(Consumed) \/ k = Len(Consumed) + 1
      BY <1>7, <1>12, <2>1
    <3> QED
      BY <3>1, <3>2, <3>3
  <2>3. Len(Append(Consumed, b)) = n + 4
    BY <1>12, <2>1
  <2> QED
    BY <1>5, <2>1, <2>2, <2>3, SeqEqual
<1>16. line' = Rest
  <2>1. Tail(line) \in Bytes /\ line' = Tail(line)
    BY <1>1, ReceiveFacts DEF Bytes
  <2> QED
    BY <1>2, <1>3, <1>15, <2>1, StreamSplit
<1>17. commands' = w
  <2> DEFINE d == SubSeq(rxBuf, 1, n)
  <2>1. n \in 0 .. Len(rxBuf)
    BY <1>7, <1>9
  <2>2. d \in Bytes /\ Len(d) = n /\ \A k \in 1 .. n : d[k] = rxBuf[k]
    BY <1>7, <2>1, CutBytes
  <2>3. \A k \in 1 .. n : d[k] = Data(w)[k]
    BY <1>10, <2>2
  <2> HIDE DEF d
  <2>4. Len(Words(d)) = Rx16Num /\ \A i \in 1 .. Rx16Num : Words(d)[i] = w[i]
    BY <1>3, <2>2, <2>3, WordsOfData
  <2>5. commands' = [i \in 1 .. Rx16Num |->
                      IF i <= Len(Words(d)) THEN Words(d)[i] ELSE commands[i]]
    BY <1>8, <1>14 DEF WaitChecksum, d
  <2>6. commands' = [i \in 1 .. Rx16Num |-> w[i]]
    BY <2>4, <2>5, SizeFacts
  <2> QED
    BY <1>3, <2>6 DEF Command
<1> QED
  BY <1>2, <1>14, <1>16, <1>17 DEF w

LEMMA ChecksumStep ==
  ASSUME RxInv, Receive, WaitChecksum(Head(line)) PROVE RxInv'
<1>1. TypeOK /\ LengthInv
  BY DEF RxInv
<1>2. rxState = "checksum" /\ rxState' = "start"
  BY DEF WaitChecksum, AfterFrame
<1>3. commands' \in [1 .. Rx16Num -> Word]
  <2> DEFINE v == Words(SubSeq(rxBuf, 1, rxLen))
  <2>1. \A i \in 1 .. Len(v) : v[i] \in Word
    BY <1>1, <1>2, ChecksumTypes, WordsOfBytes
  <2>2. Len(v) \in Nat
    BY <1>1, <1>2, ChecksumTypes, WordsOfBytes DEF Bytes
  <2>3. commands \in [1 .. Rx16Num -> Word] /\ Rx16Num \in Nat
    BY <1>1, SizeFacts DEF TypeOK
  <2>4. commands' = [i \in 1 .. Rx16Num |-> IF i <= Len(v) THEN v[i] ELSE commands[i]]
        \/ commands' = commands
    BY DEF WaitChecksum
  <2> HIDE DEF v
  <2>5. \A i \in 1 .. Rx16Num : i <= Len(v) => i \in 1 .. Len(v)
    BY <2>2
  <2>6. \A i \in 1 .. Rx16Num : (IF i <= Len(v) THEN v[i] ELSE commands[i]) \in Word
    BY <2>1, <2>3, <2>5
  <2> QED
    BY <2>3, <2>4, <2>6
<1>4. damage = 0 => inFlight # <<>> /\ fresh' /\ line' = Rest
  BY FrameComplete
<1>5. inFlight' = IF damage = 0 /\ fresh' THEN Tail(inFlight) ELSE inFlight
  BY DEF WaitChecksum
<1>6. TypeOK'
  <2>1. inFlight' \in Seq(Payloads[strict])
    BY <1>1, <1>4, <1>5, InFlightFacts DEF TypeOK
  <2>2. fresh' \in BOOLEAN
    BY DEF WaitChecksum, Accepted
  <2> QED
    BY <1>1, <1>2, <1>3, <2>1, <2>2, ReceiveFacts DEF TypeOK, WaitChecksum
<1>7. SumInv' /\ LengthInv'
  BY <1>2 DEF SumInv, LengthInv
<1>8. CommandsExact'
  <2> SUFFICES ASSUME damage' = 0
               PROVE  Consumed' \o line' = FlattenSeq(FramesOf(inFlight)')
    BY DEF CommandsExact, FramesOf
  <2>1. damage = 0
    BY <1>1, ReceiveFacts
  <2>2. inFlight' = Tail(inFlight) /\ line' = Rest /\ Rest \in Bytes
    BY <1>1, <1>4, <1>5, <2>1, InFlightFacts
  <2>3. Consumed' = <<>>
    BY <1>2 DEF Consumed
  <2>4. FlattenSeq(FramesOf(inFlight)') = Rest
    BY <2>2 DEF Rest, FramesOf
  <2>5. <<>> \o Rest = Rest
    BY <2>2 DEF Bytes
  <2> QED
    BY <2>2, <2>3, <2>4, <2>5
<1> QED
  BY <1>6, <1>7, <1>8 DEF RxInv

-------------------------------------------------------------------------------
(* A message is written, whole or damaged.                                 *)

LEMMA Unread ==
  ASSUME SumInv, LengthInv, UNCHANGED rxVars PROVE SumInv' /\ LengthInv'
BY DEF rxVars, SumInv, LengthInv

LEMMA LongerLine ==
  ASSUME TypeOK, NEW w \in Payloads[strict], NEW g \in Bytes,
         Len(g) <= Len(Frame(DeviceId, w)),
         Len(line) + Len(Frame(DeviceId, w)) <= FifoSize
  PROVE  line \o g \in Seq(Byte) /\ Len(line \o g) <= FifoSize
<1>1. line \in Seq(Byte) /\ g \in Seq(Byte)
  BY DEF TypeOK, Bytes
<1>2. Len(line \o g) = Len(line) + Len(g)
  BY <1>1
<1>3. w \in Command
  BY SizeFacts DEF TypeOK
<1>4. Len(Frame(DeviceId, w)) \in Nat /\ Len(line) \in Nat /\ Len(g) \in Nat
  BY <1>1, <1>3, FrameBytes DEF Bytes
<1>5. Len(line) + Len(g) <= FifoSize
  BY <1>4, SizeAssumption, MessageAssumption
<1> QED
  BY <1>1, <1>2, <1>5

LEMMA WriteStep ==
  ASSUME RxInv, NEW w \in Payloads[strict], Write(w) PROVE RxInv'
<1> DEFINE f == Frame(DeviceId, w)
<1>1. TypeOK /\ SumInv /\ LengthInv /\ w \in Command
  BY SizeFacts DEF RxInv, TypeOK
<1>2. f \in Bytes /\ Len(f) \in Nat
  BY <1>1, FrameBytes DEF Bytes
<1>3. /\ Len(line) + Len(f) <= FifoSize /\ line' = line \o f
      /\ inFlight' = IF damage = 0 THEN Append(inFlight, w) ELSE <<>>
      /\ strict' = strict /\ damage' = damage /\ commands' = commands /\ fresh' = fresh
      /\ UNCHANGED rxVars
  BY DEF Write
<1>4. TypeOK'
  <2>1. line' \in Seq(Byte) /\ Len(line') <= FifoSize
    BY <1>1, <1>2, <1>3, LongerLine
  <2>2. inFlight' \in Seq(Payloads[strict])
    <3>1. inFlight \in Seq(Payloads[strict])
      BY <1>1 DEF TypeOK
    <3>2. Append(inFlight, w) \in Seq(Payloads[strict]) /\ <<>> \in Seq(Payloads[strict])
      BY <3>1
    <3>3. inFlight' = Append(inFlight, w) \/ inFlight' = <<>>
      BY <1>3
    <3> QED
      BY <3>2, <3>3
  <2> HIDE DEF f
  <2> QED
    BY <1>1, <1>3, <2>1, <2>2 DEF TypeOK, rxVars
<1>5. SumInv' /\ LengthInv'
  BY <1>1, <1>3, Unread
<1>6. CommandsExact'
  <2> SUFFICES ASSUME damage' = 0
               PROVE  Consumed' \o line' = FlattenSeq(FramesOf(inFlight)')
    BY DEF CommandsExact, FramesOf
  <2>1. inFlight' = Append(inFlight, w) /\ damage = 0
    BY <1>3
  <2>2. inFlight \in Seq(Command)
    BY <1>1, SizeFacts, SeqMonotonic DEF TypeOK
  <2>3. FramesOf(inFlight)' = Append(FramesOf(inFlight), f)
    BY <1>1, <2>1, <2>2, FramesAppend DEF FramesOf
  <2>4. FlattenSeq(FramesOf(inFlight)') = Cat(FlattenSeq(FramesOf(inFlight)), f)
    BY <1>2, <2>2, <2>3, FramesBytes, FlattenAppend
  <2>5. FlattenSeq(FramesOf(inFlight)) = Cat(Consumed, line)
    BY <2>1 DEF RxInv, CommandsExact, FramesOf, Cat
  <2>6. Consumed' = Consumed
    BY <1>3 DEF Consumed, rxVars
  <2>7. Consumed \in Bytes /\ line \in Bytes
    BY <1>1, ConsumedBytes
  <2>8. Cat(Cat(Consumed, line), f) = Cat(Consumed, Cat(line, f))
    BY <1>2, <2>7, CatBytes
  <2>9. line' = Cat(line, f) /\ Consumed' \o line' = Cat(Consumed', line')
    BY <1>3 DEF Cat
  <2> QED
    BY <2>4, <2>5, <2>6, <2>8, <2>9
<1> QED
  BY <1>4, <1>5, <1>6 DEF RxInv

LEMMA DamageStep ==
  ASSUME RxInv, NEW w \in Payloads[strict], WriteGarbled(w) \/ WriteCut(w)
  PROVE  RxInv'
<1> DEFINE f == Frame(DeviceId, w)
<1>1. TypeOK /\ SumInv /\ LengthInv /\ w \in Command
  BY SizeFacts DEF RxInv, TypeOK
<1>2. f \in Bytes /\ Len(f) \in Nat
  BY <1>1, FrameBytes DEF Bytes
<1>3. /\ Len(line) + Len(f) <= FifoSize
      /\ damage < MaxDamage /\ damage' = damage + 1 /\ inFlight' = <<>>
      /\ strict' = strict /\ commands' = commands /\ fresh' = fresh
      /\ UNCHANGED rxVars
  BY DEF WriteGarbled, WriteCut
<1>4. \E g \in Bytes : Len(g) <= Len(f) /\ line' = line \o g
  <2>1. CASE WriteGarbled(w)
    <3>1. PICK g \in Garbled(f) : line' = line \o g
      BY <2>1 DEF WriteGarbled
    <3> QED
      BY <1>2, <3>1, GarbledBytes
  <2>2. CASE WriteCut(w)
    <3>1. PICK n \in 1 .. (Len(f) - 1) : line' = line \o SubSeq(f, 1, n)
      BY <2>2 DEF WriteCut
    <3>2. n \in 0 .. Len(f) /\ n <= Len(f)
      BY <1>2, <3>1
    <3>3. SubSeq(f, 1, n) \in Bytes /\ Len(SubSeq(f, 1, n)) = n
      BY <1>2, <3>2, CutBytes
    <3> QED
      BY <3>1, <3>2, <3>3
  <2> QED
    BY <2>1, <2>2
<1>5. line' \in Seq(Byte) /\ Len(line') <= FifoSize
  BY <1>1, <1>3, <1>4, LongerLine
<1>6. damage' \in 0 .. MaxDamage /\ damage' # 0
  BY <1>1, <1>3, SizeAssumption, MessageAssumption DEF TypeOK
<1> HIDE DEF f
<1>7. inFlight' \in Seq(Payloads[strict])
  BY <1>3
<1>8. TypeOK'
  BY <1>1, <1>3, <1>5, <1>6, <1>7 DEF TypeOK, rxVars
<1>9. SumInv' /\ LengthInv'
  BY <1>1, <1>3, Unread
<1>10. CommandsExact'
  BY <1>6 DEF CommandsExact
<1> QED
  BY <1>8, <1>9, <1>10 DEF RxInv

-------------------------------------------------------------------------------
(* The theorems.                                                           *)

LEMMA RxInit == ASSUME Init PROVE RxInv
<1>1. TypeOK
  <2>1. 0 \in Word
    <3>1. PICK H \in Nat : Halves(Base, H)
      BY BaseHalves
    <3> DEFINE M == Base * H
    <3>2. M \in Nat \ {0} /\ Word = (-M) .. (M - 1)
      BY <3>1 DEF Halves, Word
    <3> HIDE DEF M
    <3> QED
      BY <3>2
  <2>2. commands \in [1 .. Rx16Num -> Word]
    BY <2>1 DEF Init
  <2>3. line \in Seq(Byte) /\ Len(line) <= FifoSize
    BY SizeAssumption, MessageAssumption DEF Init
  <2>4. rxBuf \in Seq(Byte) /\ inFlight \in Seq(Payloads[strict])
    BY DEF Init
  <2>5. damage \in 0 .. MaxDamage
    BY SizeAssumption, MessageAssumption DEF Init
  <2> QED
    BY <2>2, <2>3, <2>4, <2>5, BaseFacts DEF Init, TypeOK
<1>2. SumInv /\ LengthInv
  BY DEF Init, SumInv, LengthInv
<1>3. CommandsExact
  <2>1. Consumed = <<>> /\ line = <<>>
    BY DEF Init, Consumed
  <2>2. FramesOf(inFlight) = <<>>
    <3>1. DOMAIN inFlight = {}
      BY DEF Init
    <3> QED
      BY <3>1 DEF FramesOf
  <2>3. Consumed \o line = <<>>
    BY <2>1
  <2> QED
    BY <2>2, <2>3, FlattenEmpty DEF CommandsExact, FramesOf
<1> QED
  BY <1>1, <1>2, <1>3 DEF RxInv

LEMMA RxStep == ASSUME RxInv, [Next]_vars PROVE RxInv'
<1>1. ASSUME NEW w \in Payloads[strict], Write(w) PROVE RxInv'
  BY <1>1, WriteStep
<1>2. ASSUME NEW w \in Payloads[strict], WriteGarbled(w) \/ WriteCut(w) PROVE RxInv'
  BY <1>2, DamageStep
<1>3. CASE Receive
  <2>1. \/ WaitStart(Head(line)) \/ WaitId(Head(line)) \/ WaitLen(Head(line))
        \/ WaitData(Head(line)) \/ WaitChecksum(Head(line))
    BY <1>3 DEF Receive
  <2> QED
    BY <1>3, <2>1, StartStep, IdStep, LenStep, DataStep, ChecksumStep
<1>4. CASE UNCHANGED vars
  BY <1>4 DEF vars, rxVars, RxInv, TypeOK, SumInv, LengthInv, CommandsExact, Consumed
<1> QED
  BY <1>1, <1>2, <1>3, <1>4 DEF Next

(* The invariant of the receiver: the fields, the running checksum, and    *)
(* what the state says of the frame being read.                            *)
THEOREM Invariance == Spec => []RxInv
BY RxInit, RxStep, PTL DEF Spec

(* The variables keep their types, for every damage of every stream: what  *)
(* is taken over as commands is always a full set of int16 words.          *)
THEOREM TypesRight == Spec => []TypeOK
<1>1. RxInv => TypeOK
  BY DEF RxInv
<1> QED
  BY <1>1, Invariance, PTL

(* serial_task.cpp:195-202: receive_frame() never stores a byte outside    *)
(* rx_buf, whatever the stream and the damage are.                         *)
THEOREM NeverOverrun == Spec => []BufferInBounds
<1>1. ASSUME RxInv PROVE BufferInBounds
  <2> SUFFICES ASSUME rxState = "data" PROVE Len(rxBuf) < 2 * Rx16Num
    BY DEF BufferInBounds
  <2>1. rxLen <= 2 * Rx16Num /\ (Len(rxBuf) = 0 \/ Len(rxBuf) < rxLen)
    BY <1>1 DEF RxInv, LengthInv
  <2>2. Len(rxBuf) \in Nat /\ rxLen \in Nat
    BY <1>1, BaseFacts DEF RxInv, TypeOK
  <2>3. 2 * Rx16Num \in Nat /\ 1 <= 2 * Rx16Num
    BY SizeFacts
  <2> DEFINE n == Len(rxBuf)
             m == 2 * Rx16Num
  <2> HIDE DEF n, m
  <2>4. n < m
    BY <2>1, <2>2, <2>3 DEF n, m
  <2> QED
    BY <2>4 DEF n, m
<1> QED
  BY <1>1, Invariance, PTL

(* Until the line does damage, what has been read of a frame and what is   *)
(* still to be read are the frames of the messages written and not yet     *)
(* taken over, in order and without a byte too few or too many.            *)
THEOREM NothingLost == Spec => []CommandsExact
<1>1. RxInv => CommandsExact
  BY DEF RxInv
<1> QED
  BY <1>1, Invariance, PTL

(* Until then a frame that is accepted sets every command to the word of   *)
(* the oldest message not yet taken over.                                  *)
THEOREM TakenInOrder == Spec => CommandsInOrder
<1>1. ASSUME RxInv, [Next]_vars
      PROVE  [damage = 0 /\ fresh' /\ Receive => commands' = Head(inFlight)]_vars
  <2> SUFFICES ASSUME damage = 0, fresh', Receive PROVE commands' = Head(inFlight)
    OBVIOUS
  <2>1. WaitChecksum(Head(line))
    BY DEF Receive, WaitStart, WaitId, WaitLen, WaitData, Keep
  <2> QED
    BY <1>1, <2>1, FrameComplete
<1>2. RxInv /\ [Next]_vars
      => [damage = 0 /\ fresh' /\ Receive => commands' = Head(inFlight)]_vars
  BY <1>1
<1>3. Spec => [][damage = 0 /\ fresh' /\ Receive => commands' = Head(inFlight)]_vars
  BY <1>2, Invariance, PTL DEF Spec
<1> QED
  BY <1>3 DEF CommandsInOrder

-------------------------------------------------------------------------------
(* A turn of the bridge's loop.                                            *)

LEMMA ZeroWord == 0 \in Word
<1>1. PICK H \in Nat : Halves(Base, H)
  BY BaseHalves
<1> DEFINE M == Base * H
<1>2. M \in Nat \ {0} /\ Word = (-M) .. (M - 1)
  BY <1>1 DEF Halves, Word
<1> HIDE DEF M
<1> QED
  BY <1>2

-------------------------------------------------------------------------------
(* The loop of update(): what a turn does, for any bytes.                  *)

LEMMA PartBytes ==
  ASSUME NEW s \in Bytes, NEW a \in Nat \ {0}, NEW b \in Nat,
         b <= Len(s), a <= b + 1
  PROVE  /\ SubSeq(s, a, b) \in Bytes /\ Len(SubSeq(s, a, b)) = (b - a) + 1
         /\ \A i \in 1 .. (b - a) + 1 : SubSeq(s, a, b)[i] = s[a + i - 1]
<1>1. s \in Seq(Byte) /\ \A i \in a .. b : s[i] \in Byte
  BY DEF Bytes
<1>2. /\ SubSeq(s, a, b) \in Seq(Byte)
      /\ Len(SubSeq(s, a, b)) = IF a <= b THEN b - a + 1 ELSE 0
      /\ \A i \in 1 .. b - a + 1 : SubSeq(s, a, b)[i] = s[a + i - 1]
  BY <1>1, SubSeqProperties
<1> DEFINE t == SubSeq(s, a, b)
<1> HIDE DEF t
<1>3. Len(t) = (b - a) + 1
  BY <1>2 DEF t
<1> QED
  BY <1>2, <1>3 DEF Bytes, t

LEMMA ParsedIs == Parsed = [out : Seq(Command), rest : Bytes]
BY DEF Parsed, Command, Bytes

(* A frame that starts s and is there as a whole.                          *)
LEMMA WholeFrame ==
  ASSUME NEW s \in Bytes, ~Incomplete(s)
  PROVE  /\ Len(s) \in Nat /\ Len(s) >= 4 /\ s # <<>>
         /\ s[1] \in Byte /\ s[2] \in Byte /\ s[3] \in Nat
         /\ s[1] = StartByte => SizeOf(s) \in 4 .. Len(s)
<1>1. Len(s) \in Nat /\ Len(s) >= 4 /\ (s[1] = StartByte => ~(Len(s) < SizeOf(s)))
  BY DEF Incomplete, Bytes
<1>2. 1 \in 1 .. Len(s) /\ 2 \in 1 .. Len(s) /\ 3 \in 1 .. Len(s)
  BY <1>1
<1>3. s[1] \in Byte /\ s[2] \in Byte /\ s[3] \in Byte
  BY <1>2 DEF Bytes
<1>4. s[3] \in Nat
  BY <1>3, BaseFacts
<1> QED
  BY <1>1, <1>3, <1>4 DEF SizeOf

(* Whatever a frame contains, it gives a full message.                     *)
LEMMA MessageWords ==
  ASSUME NEW s \in Bytes, SizeOf(s) \in 4 .. Len(s)
  PROVE  Message(s) \in Command
<1> DEFINE z == SizeOf(s)
           d == SubSeq(s, 4, z - 1)
<1>1. z \in Nat /\ z >= 4 /\ z <= Len(s) /\ Len(s) \in Nat
  BY DEF Bytes
<1> HIDE DEF z
<1>2. d \in Bytes
  <2>1. 4 \in Nat \ {0} /\ z - 1 \in Nat /\ z - 1 <= Len(s) /\ 4 <= (z - 1) + 1
    BY <1>1
  <2> QED
    BY <2>1, PartBytes
<1> HIDE DEF d
<1>3. \A i \in 1 .. Len(Words(d)) : Words(d)[i] \in Word
  BY <1>2, WordsOfBytes
<1>4. Len(Words(d)) \in Nat
  BY <1>2, WordsOfBytes DEF Bytes
<1>5. Message(s) = [i \in 1 .. Rx16Num |-> IF i <= Len(Words(d)) THEN Words(d)[i] ELSE 0]
  BY DEF Message, d, z
<1>6. \A i \in 1 .. Rx16Num : i <= Len(Words(d)) => i \in 1 .. Len(Words(d))
  BY <1>4
<1> QED
  BY <1>3, <1>5, <1>6, ZeroWord DEF Command

Over(p) == Spent(p) \/ Incomplete(p.rest)
After(s) == SubSeq(s, SizeOf(s) + 1, Len(s))

LEMMA TurnIs ==
  ASSUME NEW p \in [out : Seq(Command), rest : Bytes]
  PROVE  /\ Over(p) => Turn[p] = p
         /\ ~Over(p) =>
              /\ ~Valid(p.rest) =>
                   Turn[p] = [out |-> p.out, rest |-> Tail(p.rest)]
              /\ Valid(p.rest) /\ p.rest[2] # DeviceId =>
                   Turn[p] = [out |-> p.out, rest |-> After(p.rest)]
              /\ Valid(p.rest) /\ p.rest[2] = DeviceId =>
                   Turn[p] = [out  |-> Append(p.out, Message(p.rest)),
                                     rest |-> After(p.rest)]
BY ParsedIs DEF Turn, Spent, Over, After

(* A turn keeps the types, and drops something unless the loop is over.    *)
LEMMA TurnTypes ==
  ASSUME NEW p \in [out : Seq(Command), rest : Bytes]
  PROVE  /\ Turn[p] \in [out : Seq(Command), rest : Bytes]
         /\ ~Over(p) => Len(Turn[p].rest) < Len(p.rest)
<1> DEFINE s == p.rest
           z == SizeOf(s)
<1>1. s \in Bytes /\ p.out \in Seq(Command) /\ Len(s) \in Nat
  BY DEF Bytes
<1>2. CASE Over(p)
  BY <1>2, TurnIs
<1>3. CASE ~Over(p)
  <2>1. /\ Len(s) >= 4 /\ s # <<>> /\ (s[1] = StartByte => z \in 4 .. Len(s))
    BY <1>1, <1>3, WholeFrame DEF Over
  <2>2. Tail(s) \in Bytes /\ Len(Tail(s)) < Len(s)
    BY <1>1, <2>1 DEF Bytes
  <2>3. ASSUME Valid(s)
        PROVE  /\ After(s) \in Bytes /\ Len(After(s)) < Len(s)
               /\ Message(s) \in Command
    <3>1. z \in 4 .. Len(s)
      BY <2>1, <2>3 DEF Valid
    <3> HIDE DEF z
    <3>2. z + 1 \in Nat \ {0} /\ Len(s) <= Len(s) /\ z + 1 <= Len(s) + 1
          /\ (Len(s) - (z + 1)) + 1 < Len(s)
      BY <1>1, <3>1
    <3>3. SubSeq(s, z + 1, Len(s)) \in Bytes
          /\ Len(SubSeq(s, z + 1, Len(s))) = (Len(s) - (z + 1)) + 1
      BY <1>1, <3>2, PartBytes
    <3> QED
      BY <1>1, <3>1, <3>2, <3>3, MessageWords DEF After, z
  <2> HIDE DEF s, z
  <2>4. ASSUME ~Valid(s)
        PROVE  /\ Turn[p] \in [out : Seq(Command), rest : Bytes]
               /\ Len(Turn[p].rest) < Len(s)
    <3>1. Turn[p] = [out |-> p.out, rest |-> Tail(s)]
      BY <1>3, <2>4, TurnIs DEF s
    <3> QED
      BY <1>1, <2>2, <2>4, <3>1
  <2>5. ASSUME Valid(s), s[2] # DeviceId
        PROVE  /\ Turn[p] \in [out : Seq(Command), rest : Bytes]
               /\ Len(Turn[p].rest) < Len(s)
    <3>1. Turn[p] = [out |-> p.out, rest |-> After(s)]
      BY <1>3, <2>5, TurnIs DEF s
    <3> QED
      BY <1>1, <2>3, <2>5, <3>1
  <2>6. ASSUME Valid(s), s[2] = DeviceId
        PROVE  /\ Turn[p] \in [out : Seq(Command), rest : Bytes]
               /\ Len(Turn[p].rest) < Len(s)
    <3>1. Turn[p] = [out |-> Append(p.out, Message(s)), rest |-> After(s)]
      BY <1>3, <2>6, TurnIs DEF s
    <3>2. Append(p.out, Message(s)) \in Seq(Command)
      BY <1>1, <2>3, <2>6
    <3> QED
      BY <1>1, <2>3, <2>6, <3>1, <3>2
  <2> QED
    BY <1>3, <2>4, <2>5, <2>6 DEF s
<1> QED
  BY <1>2, <1>3

-------------------------------------------------------------------------------
(* The loop of update(): a rule for its invariants, and its end.           *)

IsLoop(g, s, n) ==
  g = [k \in 0 .. n |-> IF k = 0 THEN [out |-> <<>>, rest |-> s]
                        ELSE Turn[g[k - 1]]]

LEMMA LoopExists == ASSUME NEW s, NEW m \in Nat PROVE \E g : IsLoop(g, s, m)
<1> DEFINE S == {n \in Nat : \E g : IsLoop(g, s, n)}
           start == [out |-> <<>>, rest |-> s]
<1>1. 0 \in S
  <2> DEFINE g == [k \in 0 .. 0 |-> start]
  <2>1. IsLoop(g, s, 0)
    BY DEF IsLoop
  <2> QED
    BY <2>1
<1>2. ASSUME NEW n \in Nat, n \in S PROVE n + 1 \in S
  <2>1. PICK g : IsLoop(g, s, n)
    BY <1>2
  <2> DEFINE h == [k \in 0 .. n + 1 |->
                    IF k <= n THEN g[k] ELSE Turn[g[n]]]
  <2>2. \A j \in 0 .. n : g[j] = IF j = 0 THEN start ELSE Turn[g[j - 1]]
    BY <2>1 DEF IsLoop
  <2> HIDE DEF start
  <2>3. ASSUME NEW k \in 0 .. n + 1
        PROVE  h[k] = IF k = 0 THEN start ELSE Turn[h[k - 1]]
    <3>1. CASE k \in 0 .. n
      <4>1. h[k] = g[k]
        BY <3>1
      <4>2. k # 0 => k - 1 \in 0 .. n /\ k - 1 \in 0 .. n + 1 /\ h[k - 1] = g[k - 1]
        BY <3>1
      <4> HIDE DEF h
      <4> QED
        BY <2>2, <3>1, <4>1, <4>2
    <3>2. CASE k = n + 1
      <4>1. /\ h[n + 1] = Turn[g[n]]
            /\ h[n] = g[n] /\ n + 1 # 0 /\ (n + 1) - 1 = n
        OBVIOUS
      <4> HIDE DEF h
      <4> QED
        BY <3>2, <4>1
    <3> QED
      BY <3>1, <3>2
  <2>4. IsLoop(h, s, n + 1)
    <3>1. h = [k \in 0 .. n + 1 |-> h[k]]
      OBVIOUS
    <3> HIDE DEF h
    <3> QED
      BY <2>3, <3>1 DEF IsLoop, start
  <2> QED
    BY <2>4
<1> HIDE DEF S
<1>3. Nat \subseteq S
  BY <1>1, <1>2, Induct
<1> QED
  BY <1>3 DEF S

LEMMA ParseOf ==
  ASSUME NEW s \in Bytes
  PROVE  \E g : /\ Parse(s) = g[Len(s)]
                /\ g[0] = [out |-> <<>>, rest |-> s]
                /\ \A k \in 0 .. Len(s) - 1 : g[k + 1] = Turn[g[k]]
<1>1. Len(s) \in Nat
  BY DEF Bytes
<1>2. \E g : IsLoop(g, s, Len(s))
  BY <1>1, LoopExists
<1>3. PICK g : IsLoop(g, s, Len(s)) /\ Parse(s) = g[Len(s)]
  BY <1>2 DEF Parse, IsLoop
<1>4. \A k \in 0 .. Len(s) : g[k] = IF k = 0 THEN [out |-> <<>>, rest |-> s]
                                    ELSE Turn[g[k - 1]]
  BY <1>3 DEF IsLoop
<1>5. 0 \in 0 .. Len(s)
  BY <1>1
<1>6. ASSUME NEW k \in 0 .. Len(s) - 1 PROVE g[k + 1] = Turn[g[k]]
  <2>1. k + 1 \in 0 .. Len(s) /\ k + 1 # 0 /\ (k + 1) - 1 = k
    BY <1>1
  <2>2. g[k + 1] = Turn[g[(k + 1) - 1]]
    BY <1>4, <2>1
  <2> QED
    BY <2>1, <2>2
<1>7. g[0] = [out |-> <<>>, rest |-> s]
  BY <1>4, <1>5
<1> QED
  BY <1>3, <1>6, <1>7

(* What holds before the loop and is kept by its turns holds after it.     *)
LEMMA LoopRule ==
  ASSUME NEW s \in Bytes, NEW P, [out |-> <<>>, rest |-> s] \in P,
         \A p \in P : Turn[p] \in P
  PROVE  Parse(s) \in P
<1>1. Len(s) \in Nat
  BY DEF Bytes
<1>2. PICK g : /\ Parse(s) = g[Len(s)]
               /\ g[0] = [out |-> <<>>, rest |-> s]
               /\ \A k \in 0 .. Len(s) - 1 : g[k + 1] = Turn[g[k]]
  BY ParseOf
<1> DEFINE S == {n \in Nat : n <= Len(s) => g[n] \in P}
<1>3. 0 \in S
  BY <1>2
<1>4. ASSUME NEW n \in Nat, n \in S PROVE n + 1 \in S
  <2> SUFFICES ASSUME n + 1 <= Len(s) PROVE g[n + 1] \in P
    OBVIOUS
  <2>1. n \in 0 .. Len(s) - 1 /\ n <= Len(s)
    BY <1>1
  <2>2. g[n] \in P
    BY <1>4, <2>1
  <2> QED
    BY <1>2, <2>1, <2>2
<1> HIDE DEF S
<1>5. Nat \subseteq S
  BY <1>3, <1>4, Induct
<1>6. Len(s) \in S /\ Len(s) <= Len(s)
  BY <1>1, <1>5
<1> QED
  BY <1>2, <1>6 DEF S

(* Len(s) turns are enough: the while loop of the code has ended then.     *)
LEMMA LoopEnds == ASSUME NEW s \in Bytes PROVE Over(Parse(s))
<1>1. Len(s) \in Nat
  BY DEF Bytes
<1>2. PICK g : /\ Parse(s) = g[Len(s)]
               /\ g[0] = [out |-> <<>>, rest |-> s]
               /\ \A k \in 0 .. Len(s) - 1 : g[k + 1] = Turn[g[k]]
  BY ParseOf
<1> DEFINE Fits(p, k) ==
             /\ p \in [out : Seq(Command), rest : Bytes]
             /\ Over(p) \/ Len(p.rest) <= Len(s) - k
           S == {n \in Nat : n <= Len(s) => Fits(g[n], n)}
<1>3. 0 \in S
  <2>1. g[0] \in [out : Seq(Command), rest : Bytes] /\ g[0].rest = s
    BY <1>2
  <2>2. Len(s) <= Len(s) - 0
    BY <1>1
  <2> QED
    BY <2>1, <2>2
<1>4. ASSUME NEW n \in Nat, n \in S PROVE n + 1 \in S
  <2> SUFFICES ASSUME n + 1 <= Len(s) PROVE Fits(g[n + 1], n + 1)
    OBVIOUS
  <2>1. n \in 0 .. Len(s) - 1 /\ n <= Len(s)
    BY <1>1
  <2>2. Fits(g[n], n) /\ g[n + 1] = Turn[g[n]]
    BY <1>2, <1>4, <2>1
  <2>3. Over(g[n]) => g[n + 1] = g[n]
    BY <2>2, TurnIs
  <2>4. /\ g[n + 1] \in [out : Seq(Command), rest : Bytes]
        /\ ~Over(g[n]) => Len(g[n + 1].rest) < Len(g[n].rest)
    BY <2>2, TurnTypes
  <2>5. Len(g[n + 1].rest) \in Nat /\ Len(g[n].rest) \in Nat
    BY <2>2, <2>4 DEF Bytes
  <2>6. ~Over(g[n]) => Len(g[n + 1].rest) <= Len(s) - (n + 1)
    BY <1>1, <2>2, <2>4, <2>5
  <2> QED
    BY <2>2, <2>3, <2>4, <2>6
<1>5. Nat \subseteq S
  <2> HIDE DEF S
  <2> QED
    BY <1>3, <1>4, Induct
<1>6. Fits(g[Len(s)], Len(s))
  <2>1. Len(s) \in S /\ Len(s) <= Len(s)
    BY <1>1, <1>5
  <2> QED
    BY <2>1
<1>7. Len(g[Len(s)].rest) <= 0 => Incomplete(g[Len(s)].rest)
  <2>1. Len(g[Len(s)].rest) \in Nat
    BY <1>6 DEF Bytes
  <2> QED
    BY <2>1 DEF Incomplete
<1>8. Len(s) - Len(s) = 0
  BY <1>1
<1> QED
  BY <1>2, <1>6, <1>7, <1>8 DEF Over

-------------------------------------------------------------------------------
(* What the loop makes of the frames of a device.                          *)

LEMMA LenBytes == ASSUME NEW s \in Bytes PROVE Len(s) \in Nat
BY DEF Bytes

LEMMA CatAt ==
  ASSUME NEW c \in Bytes, NEW t \in Bytes
  PROVE  /\ Cat(c, t) \in Bytes /\ Len(Cat(c, t)) = Len(c) + Len(t)
         /\ \A i \in 1 .. Len(c) : Cat(c, t)[i] = c[i]
         /\ \A i \in 1 .. Len(t) : Cat(c, t)[Len(c) + i] = t[i]
BY DEF Bytes, Cat

LEMMA CutJoin ==
  ASSUME NEW s \in Bytes, NEW n \in 0 .. Len(s)
  PROVE  /\ SubSeq(s, 1, n) \in Bytes /\ SubSeq(s, n + 1, Len(s)) \in Bytes
         /\ Len(SubSeq(s, 1, n)) = n /\ Len(SubSeq(s, n + 1, Len(s))) = Len(s) - n
         /\ s = Cat(SubSeq(s, 1, n), SubSeq(s, n + 1, Len(s)))
<1> DEFINE a == SubSeq(s, 1, n)
           b == SubSeq(s, n + 1, Len(s))
           m == Len(s)
<1>1. m \in Nat /\ n \in Nat /\ n <= m /\ n + 1 \in Nat \ {0}
  BY DEF Bytes
<1>2. a \in Bytes /\ Len(a) = n /\ \A i \in 1 .. n : a[i] = s[i]
  BY CutBytes
<1>3. /\ b \in Bytes /\ Len(b) = (m - (n + 1)) + 1
      /\ \A i \in 1 .. (m - (n + 1)) + 1 : b[i] = s[(n + 1) + i - 1]
  BY <1>1, PartBytes
<1> HIDE DEF a, b, m
<1>4. (m - (n + 1)) + 1 = m - n /\ \A i \in Int : (n + 1) + i - 1 = n + i
  BY <1>1
<1>5. Len(b) = m - n /\ \A i \in 1 .. m - n : b[i] = s[n + i]
  BY <1>1, <1>3, <1>4
<1>6. /\ Cat(a, b) \in Bytes /\ Len(Cat(a, b)) = m
      /\ \A i \in 1 .. n : Cat(a, b)[i] = a[i]
      /\ \A i \in 1 .. m - n : Cat(a, b)[n + i] = b[i]
  <2>1. /\ Cat(a, b) \in Bytes /\ Len(Cat(a, b)) = Len(a) + Len(b)
        /\ \A i \in 1 .. Len(a) : Cat(a, b)[i] = a[i]
        /\ \A i \in 1 .. Len(b) : Cat(a, b)[Len(a) + i] = b[i]
    BY <1>2, <1>3, CatAt
  <2>2. n + (m - n) = m
    BY <1>1
  <2> QED
    BY <1>2, <1>5, <2>1, <2>2
<1>7. ASSUME NEW i \in 1 .. m PROVE s[i] = Cat(a, b)[i]
  <2>1. i \in 1 .. n => Cat(a, b)[i] = s[i]
    BY <1>2, <1>6
  <2>2. i > n => i - n \in 1 .. m - n /\ n + (i - n) = i
    BY <1>1
  <2>3. i > n => Cat(a, b)[n + (i - n)] = b[i - n]
    BY <1>6, <2>2
  <2>4. i \in 1 .. n \/ i > n
    BY <1>1
  <2> QED
    BY <1>5, <2>1, <2>2, <2>3, <2>4
<1>8. s = Cat(a, b)
  <2>1. s \in Seq(Byte) /\ Cat(a, b) \in Seq(Byte) /\ Len(s) = Len(Cat(a, b))
    BY <1>6 DEF Bytes, m
  <2> QED
    BY <1>7, <2>1, SeqEqual DEF m
<1> QED
  BY <1>2, <1>3, <1>5, <1>8 DEF a, b, m

LEMMA FrameLenIs == FrameLen = 2 * Rx16Num + 4 /\ FrameLen \in Nat
BY SizeFacts DEF FrameLen

(* A frame of the device is taken, and gives the words it was made of.     *)
LEMMA FrameTaken ==
  ASSUME NEW w \in Command, NEW t \in Bytes, NEW s \in Bytes,
         s = Cat(Frame(DeviceId, w), t)
  PROVE  /\ SizeOf(s) = FrameLen /\ FrameLen <= Len(s)
         /\ ~Incomplete(s) /\ Valid(s) /\ s[2] = DeviceId
         /\ Message(s) = w /\ After(s) = t
<1> DEFINE f == Frame(DeviceId, w)
           n == 2 * Rx16Num
           z == SizeOf(s)
<1>1. /\ f \in Bytes /\ Len(f) = n + 4 /\ f[1] = StartByte /\ f[2] = DeviceId
      /\ f[3] = n /\ \A k \in 1 .. n : f[3 + k] = Data(w)[k]
      /\ f[n + 4] = Checksum(Body(w))
  BY FrameBytes
<1>2. /\ Len(s) = Len(f) + Len(t) /\ Len(t) \in Nat
      /\ \A i \in 1 .. Len(f) : s[i] = f[i]
      /\ \A i \in 1 .. Len(t) : s[Len(f) + i] = t[i]
  <2>1. f \in Bytes /\ t \in Bytes /\ s = Cat(f, t)
    BY <1>1
  <2>2. Len(t) \in Nat
    BY DEF Bytes
  <2> HIDE DEF f
  <2>3. /\ Len(Cat(f, t)) = Len(f) + Len(t)
        /\ \A i \in 1 .. Len(f) : Cat(f, t)[i] = f[i]
        /\ \A i \in 1 .. Len(t) : Cat(f, t)[Len(f) + i] = t[i]
    BY <2>1, CatAt
  <2> QED
    BY <2>1, <2>2, <2>3, Zenon
<1>3. n \in Nat /\ n >= 2
  BY SizeFacts
<1> HIDE DEF f, n
<1>4. /\ 1 \in 1 .. n + 4 /\ 2 \in 1 .. n + 4 /\ 3 \in 1 .. n + 4 /\ n + 4 \in 1 .. n + 4
      /\ \A k \in 1 .. n : 3 + k \in 1 .. n + 4
  BY <1>3
<1>5. /\ s[1] = StartByte /\ s[2] = DeviceId /\ s[3] = n
      /\ s[n + 4] = Checksum(Body(w)) /\ \A k \in 1 .. n : s[3 + k] = Data(w)[k]
  BY <1>1, <1>2, <1>4
<1>6. z = n + 4 /\ z = FrameLen /\ z <= Len(s) /\ Len(s) >= 4
  <2>1. z = 4 + n
    BY <1>5 DEF SizeOf
  <2>2. z = n + 4
    BY <1>3, <2>1
  <2>3. FrameLen = n + 4
    BY FrameLenIs DEF n
  <2> QED
    BY <1>1, <1>2, <1>3, <2>2, <2>3
<1> HIDE DEF z
<1>7. ~Incomplete(s)
  <2>1. Len(s) \in Nat /\ ~(Len(s) < 4) /\ ~(Len(s) < z)
    BY <1>1, <1>2, <1>3, <1>6
  <2> QED
    BY <2>1 DEF Incomplete, z
<1>8. SubSeq(s, 2, z - 1) = Body(w)
  <2> DEFINE b == SubSeq(s, 2, z - 1)
  <2>1. /\ b \in Bytes /\ Len(b) = ((z - 1) - 2) + 1
        /\ \A i \in 1 .. ((z - 1) - 2) + 1 : b[i] = s[2 + i - 1]
    <3>1. 2 \in Nat \ {0} /\ z - 1 \in Nat /\ z - 1 <= Len(s) /\ 2 <= (z - 1) + 1
      BY <1>1, <1>2, <1>3, <1>6
    <3> QED
      BY <3>1, PartBytes
  <2>2. ((z - 1) - 2) + 1 = n + 2
    BY <1>3, <1>6
  <2>3. /\ Body(w) \in Bytes /\ Len(Body(w)) = n + 2
        /\ Body(w)[1] = DeviceId /\ Body(w)[2] = n
        /\ \A k \in 1 .. n : Body(w)[2 + k] = Data(w)[k]
    BY BodyBytes DEF n
  <2> HIDE DEF b
  <2>4. ASSUME NEW i \in 1 .. n + 2 PROVE b[i] = Body(w)[i]
    <3>1. b[i] = s[2 + i - 1]
      BY <2>1, <2>2
    <3>2. i = 1 => 2 + i - 1 = 2
      OBVIOUS
    <3>3. i = 2 => 2 + i - 1 = 3
      OBVIOUS
    <3>4. i > 2 => /\ i - 2 \in 1 .. n /\ 2 + (i - 2) = i
                   /\ 3 + (i - 2) = 2 + i - 1
      BY <1>3
    <3>5. i > 2 => b[i] = Data(w)[i - 2] /\ Body(w)[i] = Data(w)[i - 2]
      BY <1>5, <2>3, <3>1, <3>4
    <3>6. i = 1 \/ i = 2 \/ i > 2
      BY <1>3
    <3> QED
      BY <1>5, <2>3, <3>1, <3>2, <3>3, <3>5, <3>6
  <2>5. b \in Seq(Byte) /\ Body(w) \in Seq(Byte) /\ Len(b) = n + 2
    BY <2>1, <2>2, <2>3 DEF Bytes
  <2> QED
    BY <2>3, <2>4, <2>5, SeqEqual DEF b
<1>9. Valid(s)
  BY <1>5, <1>6, <1>8 DEF Valid, ChecksumOk, z
<1>10. Message(s) = w
  <2> DEFINE d == SubSeq(s, 4, z - 1)
  <2>1. /\ d \in Bytes /\ Len(d) = ((z - 1) - 4) + 1
        /\ \A i \in 1 .. ((z - 1) - 4) + 1 : d[i] = s[4 + i - 1]
    <3>1. 4 \in Nat \ {0} /\ z - 1 \in Nat /\ z - 1 <= Len(s) /\ 4 <= (z - 1) + 1
      BY <1>1, <1>2, <1>3, <1>6
    <3> QED
      BY <3>1, PartBytes
  <2>2. ((z - 1) - 4) + 1 = n /\ \A i \in Int : 4 + i - 1 = 3 + i
    BY <1>3, <1>6
  <2> HIDE DEF d
  <2>3. Len(d) = n /\ \A k \in 1 .. n : d[k] = Data(w)[k]
    BY <1>3, <1>5, <2>1, <2>2
  <2>4. Len(Words(d)) = Rx16Num /\ \A i \in 1 .. Rx16Num : Words(d)[i] = w[i]
    BY <2>1, <2>3, WordsOfData DEF n
  <2>5. Message(s) = [i \in 1 .. Rx16Num |-> IF i <= Len(Words(d)) THEN Words(d)[i] ELSE 0]
    BY DEF Message, d, z
  <2>6. Message(s) = [i \in 1 .. Rx16Num |-> w[i]]
    BY <2>4, <2>5, SizeFacts
  <2> QED
    BY <2>6 DEF Command
<1>11. After(s) = t
  <2> DEFINE a == SubSeq(s, z + 1, Len(s))
  <2>1. /\ a \in Bytes /\ Len(a) = (Len(s) - (z + 1)) + 1
        /\ \A i \in 1 .. (Len(s) - (z + 1)) + 1 : a[i] = s[(z + 1) + i - 1]
    <3>1. z + 1 \in Nat \ {0} /\ Len(s) \in Nat /\ Len(s) <= Len(s) /\ z + 1 <= Len(s) + 1
      BY <1>1, <1>2, <1>3, <1>6
    <3> QED
      BY <3>1, PartBytes
  <2>2. (Len(s) - (z + 1)) + 1 = Len(t) /\ \A i \in Int : (z + 1) + i - 1 = Len(f) + i
    BY <1>1, <1>2, <1>3, <1>6
  <2> HIDE DEF a
  <2>3. Len(a) = Len(t) /\ \A i \in 1 .. Len(t) : a[i] = t[i]
    BY <1>2, <2>1, <2>2
  <2>4. a \in Seq(Byte) /\ t \in Seq(Byte)
    BY <2>1 DEF Bytes
  <2>5. a = t
    BY <2>3, <2>4, SeqEqual
  <2> QED
    BY <2>5 DEF After, a, z
<1> QED
  BY <1>5, <1>6, <1>7, <1>9, <1>10, <1>11 DEF z

(* A frame that has not arrived as a whole waits.                          *)
LEMMA FrameWaits ==
  ASSUME NEW w \in Command, NEW c \in Bytes, NEW t \in Bytes, NEW r \in Bytes,
         Cat(c, t) = Cat(Frame(DeviceId, w), r), Len(c) < FrameLen
  PROVE  Incomplete(c)
<1> DEFINE f == Frame(DeviceId, w)
           n == 2 * Rx16Num
<1>1. /\ f \in Bytes /\ Len(f) = n + 4 /\ f[1] = StartByte /\ f[3] = n
      /\ FrameLen = n + 4 /\ n \in Nat
  BY FrameBytes, FrameLenIs, SizeFacts
<1> HIDE DEF f, n
<1>2. Len(c) \in Nat
  BY DEF Bytes
<1>3. \A i \in 1 .. Len(c) : Cat(c, t)[i] = c[i]
  BY CatAt
<1>4. \A i \in 1 .. Len(f) : Cat(f, r)[i] = f[i]
  BY <1>1, CatAt
<1>5. Cat(c, t) = Cat(f, r)
  BY DEF f
<1>6. ASSUME Len(c) >= 4 PROVE c[1] = StartByte /\ c[3] = n
  <2>1. 1 \in 1 .. Len(c) /\ 3 \in 1 .. Len(c) /\ 1 \in 1 .. Len(f) /\ 3 \in 1 .. Len(f)
    BY <1>1, <1>2, <1>6
  <2> QED
    BY <1>1, <1>3, <1>4, <1>5, <2>1
<1>7. Len(c) >= 4 => SizeOf(c) = n + 4
  BY <1>1, <1>6 DEF SizeOf
<1>8. Len(c) >= 4 => c[1] = StartByte /\ Len(c) < SizeOf(c)
  BY <1>1, <1>2, <1>6, <1>7
<1>9. Len(c) < 4 \/ Len(c) >= 4
  BY <1>2
<1> QED
  BY <1>8, <1>9 DEF Incomplete

(* One that has arrived is at the head of what was read.                   *)
LEMMA FrameArrived ==
  ASSUME NEW c \in Bytes, NEW t \in Bytes, NEW f \in Bytes, NEW r \in Bytes,
         Cat(c, t) = Cat(f, r), Len(f) <= Len(c)
  PROVE  \E u \in Bytes : c = Cat(f, u) /\ Cat(u, t) = r
<1> DEFINE n == Len(f)
           a == SubSeq(c, 1, n)
           u == SubSeq(c, n + 1, Len(c))
<1>1. n \in 0 .. Len(c)
  BY DEF Bytes
<1>2. a \in Bytes /\ u \in Bytes /\ Len(a) = n /\ c = Cat(a, u)
  <2> HIDE DEF n
  <2> QED
    BY <1>1, CutJoin
<1>3. \A i \in 1 .. n : a[i] = c[i]
  <2> HIDE DEF n
  <2> QED
    BY <1>1, CutBytes
<1>4. \A i \in 1 .. Len(c) : Cat(c, t)[i] = c[i]
  BY CatAt
<1>5. \A i \in 1 .. n : Cat(f, r)[i] = f[i]
  BY CatAt
<1> HIDE DEF a, u
<1>6. a = f
  <2>1. \A i \in 1 .. n : i \in 1 .. Len(c)
    BY <1>1
  <2>2. \A i \in 1 .. n : a[i] = f[i]
    BY <1>3, <1>4, <1>5, <2>1
  <2>3. a \in Seq(Byte) /\ f \in Seq(Byte) /\ Len(a) = Len(f)
    BY <1>2 DEF Bytes
  <2> QED
    BY <2>2, <2>3, SeqEqual
<1>7. Cat(f, Cat(u, t)) = Cat(f, r)
  <2>1. Cat(Cat(f, u), t) = Cat(f, Cat(u, t))
    BY <1>2, CatBytes
  <2> QED
    BY <1>2, <1>6, <2>1
<1>8. Cat(u, t) \in Bytes
  BY <1>2, CatBytes
<1>9. Cat(u, t) = r
  BY <1>7, <1>8, StreamSplit
<1> QED
  BY <1>2, <1>6, <1>9

(* The messages of q without the first j.                                  *)
Left(q, j) == SubSeq(q, j + 1, Len(q))

LEMMA LeftFacts ==
  ASSUME NEW q \in Seq(Command)
  PROVE  /\ Left(q, 0) = q /\ SubSeq(q, 1, 0) = <<>>
         /\ \A j \in 0 .. Len(q) :
              Left(q, j) \in Seq(Command) /\ Len(Left(q, j)) = Len(q) - j
         /\ \A j \in 0 .. Len(q) - 1 :
              /\ Left(q, j) # <<>> /\ Head(Left(q, j)) = q[j + 1]
              /\ Tail(Left(q, j)) = Left(q, j + 1)
              /\ Append(SubSeq(q, 1, j), q[j + 1]) = SubSeq(q, 1, j + 1)
<1> DEFINE n == Len(q)
<1>1. n \in Nat /\ \A i \in 1 .. n : q[i] \in Command
  OBVIOUS
<1>2. ASSUME NEW j \in 0 .. n
      PROVE  /\ Left(q, j) \in Seq(Command) /\ Len(Left(q, j)) = n - j
             /\ \A i \in 1 .. n - j : Left(q, j)[i] = q[j + i]
             /\ SubSeq(q, 1, j) \in Seq(Command) /\ Len(SubSeq(q, 1, j)) = j
             /\ \A i \in 1 .. j : SubSeq(q, 1, j)[i] = q[i]
  <2>1. j \in Nat /\ j + 1 \in Int /\ 1 \in Int /\ n \in Int
    BY <1>1
  <2>2. \A i \in (j + 1) .. n : q[i] \in Command
    BY <1>1, <2>1
  <2>3. \A i \in 1 .. j : q[i] \in Command
    BY <1>1, <2>1
  <2> HIDE DEF n
  <2>4. /\ SubSeq(q, j + 1, n) \in Seq(Command)
        /\ Len(SubSeq(q, j + 1, n)) = IF j + 1 <= n THEN n - (j + 1) + 1 ELSE 0
        /\ \A i \in 1 .. n - (j + 1) + 1 : SubSeq(q, j + 1, n)[i] = q[(j + 1) + i - 1]
    BY <2>1, <2>2, SubSeqProperties
  <2>5. /\ SubSeq(q, 1, j) \in Seq(Command)
        /\ Len(SubSeq(q, 1, j)) = IF 1 <= j THEN j - 1 + 1 ELSE 0
        /\ \A i \in 1 .. j - 1 + 1 : SubSeq(q, 1, j)[i] = q[1 + i - 1]
    BY <2>1, <2>3, SubSeqProperties
  <2>6. Left(q, j) = SubSeq(q, j + 1, n)
    BY DEF Left, n
  <2> DEFINE a == SubSeq(q, j + 1, n)
             b == SubSeq(q, 1, j)
  <2> HIDE DEF a, b
  <2>7. /\ Len(a) = n - j /\ n - (j + 1) + 1 = n - j
        /\ \A i \in Int : (j + 1) + i - 1 = j + i
    BY <1>1, <2>1, <2>4 DEF a
  <2>8. ASSUME NEW i \in 1 .. n - j PROVE a[i] = q[j + i]
    <3>1. i \in 1 .. n - (j + 1) + 1 /\ (j + 1) + i - 1 = j + i
      BY <2>7
    <3>2. a[i] = q[(j + 1) + i - 1]
      BY <2>4, <3>1 DEF a
    <3> QED
      BY <3>1, <3>2
  <2>9. Len(b) = j /\ j - 1 + 1 = j /\ \A i \in Int : 1 + i - 1 = i
    BY <2>1, <2>5 DEF b
  <2>10. \A i \in 1 .. j : b[i] = q[i]
    BY <2>5, <2>9 DEF b
  <2> QED
    BY <2>4, <2>5, <2>6, <2>7, <2>8, <2>9, <2>10 DEF a, b
<1>3. ASSUME NEW j \in 0 .. n - 1
      PROVE  /\ Left(q, j) # <<>> /\ Head(Left(q, j)) = q[j + 1]
             /\ Tail(Left(q, j)) = Left(q, j + 1)
             /\ Append(SubSeq(q, 1, j), q[j + 1]) = SubSeq(q, 1, j + 1)
  <2> DEFINE a == Left(q, j)
             a2 == Left(q, j + 1)
             b == SubSeq(q, 1, j)
             b2 == SubSeq(q, 1, j + 1)
  <2>1. j \in 0 .. n /\ j + 1 \in 0 .. n /\ j + 1 \in 1 .. n /\ j \in Nat
    BY <1>1
  <2> HIDE DEF n
  <2>2. /\ a \in Seq(Command) /\ Len(a) = n - j /\ \A i \in 1 .. n - j : a[i] = q[j + i]
        /\ b \in Seq(Command) /\ Len(b) = j /\ \A i \in 1 .. j : b[i] = q[i]
    BY <1>2, <2>1
  <2>3. /\ a2 \in Seq(Command) /\ Len(a2) = n - (j + 1)
        /\ \A i \in 1 .. n - (j + 1) : a2[i] = q[(j + 1) + i]
        /\ b2 \in Seq(Command) /\ Len(b2) = j + 1 /\ \A i \in 1 .. j + 1 : b2[i] = q[i]
    BY <1>2, <2>1
  <2> HIDE DEF a, a2, b, b2
  <2>4. a # <<>> /\ Head(a) = q[j + 1]
    <3>1. Len(a) \in Nat \ {0} /\ 1 \in 1 .. n - j
      BY <1>1, <2>1, <2>2
    <3> QED
      BY <2>2, <3>1
  <2>5. Tail(a) = a2
    <3>1. Tail(a) \in Seq(Command) /\ Len(Tail(a)) = Len(a) - 1
          /\ \A i \in 1 .. Len(a) - 1 : Tail(a)[i] = a[i + 1]
      BY <2>2, <2>4
    <3>2. Len(a) - 1 = n - (j + 1) /\ \A i \in 1 .. n - (j + 1) :
            i + 1 \in 1 .. n - j /\ j + (i + 1) = (j + 1) + i
      BY <1>1, <2>1, <2>2
    <3>3. ASSUME NEW i \in 1 .. n - (j + 1) PROVE Tail(a)[i] = a2[i]
      <4>1. Tail(a)[i] = a[i + 1]
        BY <3>1, <3>2
      <4>2. a[i + 1] = q[j + (i + 1)]
        BY <2>2, <3>2
      <4>3. a2[i] = q[(j + 1) + i]
        BY <2>3
      <4> QED
        BY <3>2, <4>1, <4>2, <4>3
    <3>4. Len(Tail(a)) = n - (j + 1)
      BY <3>1, <3>2
    <3> QED
      BY <2>3, <3>1, <3>3, <3>4, SeqEqual
  <2>6. Append(b, q[j + 1]) = b2
    <3> DEFINE c == Append(b, q[j + 1])
    <3>1. q[j + 1] \in Command
      BY <1>1, <2>1 DEF n
    <3>2. /\ c \in Seq(Command) /\ Len(c) = j + 1 /\ c[j + 1] = q[j + 1]
          /\ \A i \in 1 .. j : c[i] = b[i]
      BY <2>1, <2>2, <3>1
    <3> HIDE DEF c
    <3>3. \A i \in 1 .. j + 1 : i \in 1 .. j \/ i = j + 1
      BY <2>1
    <3>4. \A i \in 1 .. j + 1 : c[i] = b2[i]
      BY <2>2, <2>3, <3>2, <3>3
    <3>5. c = b2
      BY <2>3, <3>2, <3>4, SeqEqual
    <3> QED
      BY <3>5 DEF c
  <2> QED
    BY <2>4, <2>5, <2>6 DEF a, a2, b, b2
<1>4. Left(q, 0) = q
  <2> DEFINE a == Left(q, 0)
  <2>1. 0 \in 0 .. n /\ n - 0 = n /\ \A i \in 1 .. n : 0 + i = i
    BY <1>1
  <2> HIDE DEF n
  <2>2. a \in Seq(Command) /\ Len(a) = n - 0 /\ \A i \in 1 .. n - 0 : a[i] = q[0 + i]
    BY <1>2, <2>1
  <2> HIDE DEF a
  <2>3. Len(a) = Len(q) /\ \A i \in 1 .. Len(q) : a[i] = q[i]
    BY <2>1, <2>2 DEF n
  <2>4. a = q
    BY <2>2, <2>3, SeqEqual
  <2> QED
    BY <2>4 DEF a
<1>5. SubSeq(q, 1, 0) = <<>>
  <2> DEFINE b == SubSeq(q, 1, 0)
  <2>1. b \in Seq(Command) /\ Len(b) = 0
    <3>1. 0 \in 0 .. n
      BY <1>1
    <3> HIDE DEF n
    <3> QED
      BY <1>2, <3>1
  <2> HIDE DEF b
  <2>2. b = <<>>
    BY <2>1, EmptySeq
  <2> QED
    BY <2>2 DEF b
<1> QED
  BY <1>2, <1>3, <1>4, <1>5

(* At a frame boundary of a stream of frames either no frame has arrived   *)
(* as a whole, and the loop ends, or one is at the head.                   *)
LEMMA AtBoundary ==
  ASSUME NEW c \in Bytes, NEW t \in Bytes, NEW q \in Seq(Command),
         Cat(c, t) = FlattenSeq(FramesOf(q))
  PROVE  \/ Len(c) < FrameLen /\ Incomplete(c)
         \/ /\ q # <<>>
            /\ \E u \in Bytes : /\ c = Cat(Frame(DeviceId, Head(q)), u)
                                /\ Cat(u, t) = FlattenSeq(FramesOf(Tail(q)))
<1>1. Len(c) \in Nat /\ Len(t) \in Nat /\ Len(Cat(c, t)) = Len(c) + Len(t)
  BY LenBytes, CatAt
<1>2. CASE q = <<>>
  <2>1. FramesOf(q) = <<>>
    <3>1. DOMAIN q = {}
      BY <1>2
    <3> QED
      BY <3>1 DEF FramesOf
  <2>2. Len(Cat(c, t)) = 0
    BY <2>1, FlattenEmpty
  <2>3. Len(c) = 0
    <3> DEFINE x == Len(c)
               y == Len(t)
    <3>1. x \in Nat /\ y \in Nat /\ 0 = x + y
      BY <1>1, <2>2, Zenon
    <3> HIDE DEF x, y
    <3>2. x = 0
      BY <3>1
    <3> QED
      BY <3>2 DEF x
  <2>4. 0 < FrameLen
    BY FrameLenIs, SizeFacts
  <2> QED
    BY <2>3, <2>4 DEF Incomplete
<1>3. CASE q # <<>>
  <2> DEFINE w == Head(q)
             f == Frame(DeviceId, w)
             r == FlattenSeq(FramesOf(Tail(q)))
  <2>1. /\ w \in Command /\ Tail(q) \in Seq(Command)
        /\ FramesOf(q) # <<>> /\ FramesOf(q)[1] = f
        /\ FramesOf(Tail(q)) = Tail(FramesOf(q))
    BY <1>3, FramesTail
  <2>2. FramesOf(q) \in Seq(Bytes)
    BY FramesBytes
  <2>3. FlattenSeq(FramesOf(q)) = Cat(f, r)
    BY <2>1, <2>2, FlattenHead
  <2>4. f \in Bytes /\ Len(f) = FrameLen
    BY <2>1, FrameBytes, FrameLenIs
  <2>5. r \in Bytes
    BY <2>1, FramesBytes, FlattenBytes
  <2> HIDE DEF w, r
  <2>6. Cat(c, t) = Cat(f, r)
    BY <2>3
  <2>7. CASE Len(c) < FrameLen
    BY <2>1, <2>5, <2>6, <2>7, FrameWaits
  <2>8. CASE ~(Len(c) < FrameLen)
    <3>1. Len(f) <= Len(c)
      BY <1>1, <2>4, <2>8, FrameLenIs
    <3> HIDE DEF f
    <3>2. \E u \in Bytes : c = Cat(f, u) /\ Cat(u, t) = r
      BY <2>4, <2>5, <2>6, <3>1, FrameArrived
    <3> QED
      BY <1>3, <3>2 DEF f, w, r
  <2> QED
    BY <2>7, <2>8
<1> QED
  BY <1>2, <1>3

(* The loop, on m bytes of the frames of q, of which t is still to come.   *)
OfStream(q, t, m) ==
  {p \in [out : Seq(Command), rest : Bytes] :
     /\ Len(p.out) <= Len(q) /\ p.out = SubSeq(q, 1, Len(p.out))
     /\ Cat(p.rest, t) = FlattenSeq(FramesOf(Left(q, Len(p.out))))
     /\ m = Len(p.out) * FrameLen + Len(p.rest)}

LEMMA TurnOnStream ==
  ASSUME NEW q \in Seq(Command), NEW t \in Bytes, NEW m \in Nat,
         NEW p \in OfStream(q, t, m)
  PROVE  Turn[p] \in OfStream(q, t, m)
<1> DEFINE j == Len(p.out)
           c == p.rest
           F == FrameLen
<1>1. /\ p \in [out : Seq(Command), rest : Bytes]
      /\ j <= Len(q) /\ p.out = SubSeq(q, 1, j)
      /\ Cat(c, t) = FlattenSeq(FramesOf(Left(q, j)))
      /\ m = j * F + Len(c)
  BY DEF OfStream
<1>2. j \in Nat /\ c \in Bytes /\ p.out \in Seq(Command) /\ Len(q) \in Nat
  BY <1>1
<1>3. CASE Over(p)
  BY <1>1, <1>3, TurnIs
<1>4. CASE ~Over(p)
  <2>1. j \in 0 .. Len(q)
    BY <1>1, <1>2
  <2>2. Left(q, j) \in Seq(Command) /\ Len(Left(q, j)) = Len(q) - j
    BY <2>1, LeftFacts
  <2>3. ~Incomplete(c)
    BY <1>4 DEF Over
  <2> DEFINE L == Left(q, j)
  <2>4. L # <<>> /\ \E u \in Bytes : /\ c = Cat(Frame(DeviceId, Head(L)), u)
                                     /\ Cat(u, t) = FlattenSeq(FramesOf(Tail(L)))
    <3> HIDE DEF L, c, j
    <3> QED
      BY <1>1, <1>2, <2>2, <2>3, AtBoundary DEF L
  <2>5. j \in 0 .. Len(q) - 1
    <3>1. Len(q) - j = 0 => L = <<>>
      <4>1. L \in Seq(Command) /\ (Len(q) - j = 0 => Len(L) = 0)
        BY <2>2
      <4> HIDE DEF L
      <4> QED
        BY <4>1, EmptySeq
    <3> QED
      BY <1>2, <2>1, <2>4, <3>1
  <2> DEFINE w == q[j + 1]
  <2>6. Head(L) = w /\ Tail(L) = Left(q, j + 1) /\ w \in Command
    <3>1. Head(L) = w /\ Tail(L) = Left(q, j + 1)
      BY <2>5, LeftFacts
    <3>2. j + 1 \in 1 .. Len(q)
      BY <1>2, <2>5
    <3> QED
      BY <3>1, <3>2
  <2>7. PICK u \in Bytes : /\ c = Cat(Frame(DeviceId, w), u)
                           /\ Cat(u, t) = FlattenSeq(FramesOf(Left(q, j + 1)))
    BY <2>4, <2>6
  <2> HIDE DEF w, c, j, L
  <2>8. /\ Valid(c) /\ c[2] = DeviceId /\ Message(c) = w
        /\ After(c) = u
    BY <1>2, <2>6, <2>7, FrameTaken
  <2>9. Turn[p] = [out |-> Append(p.out, w), rest |-> u]
    BY <1>1, <1>4, <2>8, TurnIs DEF c
  <2>10. /\ Append(p.out, w) \in Seq(Command) /\ Len(Append(p.out, w)) = j + 1
         /\ Append(p.out, w) = SubSeq(q, 1, j + 1)
    <3>1. Append(SubSeq(q, 1, j), q[j + 1]) = SubSeq(q, 1, j + 1)
      BY <2>5, LeftFacts
    <3> QED
      BY <1>1, <1>2, <2>6, <3>1 DEF j, w
  <2>11. m = (j + 1) * F + Len(u)
    <3>1. Len(c) = F + Len(u) /\ Len(u) \in Nat /\ Len(c) \in Nat
      <4>1. Frame(DeviceId, w) \in Bytes /\ Len(Frame(DeviceId, w)) = F
        BY <2>6, FrameBytes, FrameLenIs
      <4> DEFINE f == Frame(DeviceId, w)
      <4> HIDE DEF f, F
      <4>2. Len(Cat(f, u)) = Len(f) + Len(u) /\ Len(u) \in Nat /\ Len(c) \in Nat
        BY <1>2, <4>1, CatAt, LenBytes DEF f
      <4> QED
        BY <2>7, <4>1, <4>2 DEF f
    <3>2. F \in Nat
      BY FrameLenIs
    <3> HIDE DEF F
    <3>3. (j + 1) * F = j * F + F /\ j * F \in Nat
      BY <1>2, <3>2
    <3> QED
      BY <1>1, <3>1, <3>2, <3>3 DEF c
  <2>12. j + 1 <= Len(q)
    BY <1>2, <2>5
  <2> DEFINE o == Append(p.out, w)
  <2> HIDE DEF o
  <2>13. [out |-> o, rest |-> u] \in OfStream(q, t, m)
    BY <2>7, <2>10, <2>11, <2>12 DEF OfStream, o
  <2> QED
    BY <2>9, <2>13 DEF o
<1> QED
  BY <1>3, <1>4

LEMMA ParseOfStream ==
  ASSUME NEW s \in Bytes, NEW t \in Bytes, NEW q \in Seq(Command),
         Cat(s, t) = FlattenSeq(FramesOf(q))
  PROVE  Parse(s) \in OfStream(q, t, Len(s))
<1>1. Len(s) \in Nat
  BY DEF Bytes
<1>2. [out |-> <<>>, rest |-> s] \in OfStream(q, t, Len(s))
  <2>1. Left(q, 0) = q /\ SubSeq(q, 1, 0) = <<>>
    BY LeftFacts
  <2>2. Len(s) = 0 * FrameLen + Len(s)
    BY <1>1, FrameLenIs
  <2>3. <<>> \in Seq(Command) /\ Len(<<>>) = 0 /\ 0 <= Len(q)
    OBVIOUS
  <2> QED
    BY <2>1, <2>2, <2>3 DEF OfStream
<1>3. \A p \in OfStream(q, t, Len(s)) : Turn[p] \in OfStream(q, t, Len(s))
  BY <1>1, TurnOnStream
<1> QED
  BY <1>2, <1>3, LoopRule

-------------------------------------------------------------------------------
(* The bridge: until there is damage, what has arrived and has not been    *)
(* published are the frames of the messages sent.                          *)

BridgeInv ==
  /\ BridgeTypeOK
  /\ harm = 0 => Cat(rxBuffer, kernel) = FlattenSeq(FramesOf(sent))

LEMMA BridgeSizes ==
  /\ Feedback \subseteq Command /\ ReadSize \in Nat /\ MaxFrames \in Nat
  /\ KernelSize \in Nat /\ MaxDamage \in Nat /\ FrameLen <= KernelSize
BY MessageAssumption, BridgeAssumption DEF Command

LEMMA BridgeTypes ==
  BridgeTypeOK <=>
           /\ kernel \in Bytes /\ Len(kernel) <= KernelSize /\ rxBuffer \in Bytes
           /\ out \in Seq(Command) /\ sent \in Seq(Feedback)
           /\ harm \in 0 .. MaxDamage
BY DEF BridgeTypeOK, Bytes, Command

LEMMA InitBridge == ASSUME BridgeInit PROVE BridgeInv
<1>1. /\ kernel = <<>> /\ rxBuffer = <<>> /\ out = <<>> /\ sent = <<>> /\ harm = 0
  BY DEF BridgeInit
<1>2. BridgeTypeOK
  <2>1. <<>> \in Bytes /\ <<>> \in Seq(Command) /\ <<>> \in Seq(Feedback) /\ Len(<<>>) = 0
    BY DEF Bytes
  <2>2. 0 <= KernelSize /\ 0 \in 0 .. MaxDamage
    BY BridgeSizes
  <2> QED
    BY <1>1, <2>1, <2>2, BridgeTypes
<1>3. Cat(rxBuffer, kernel) = <<>>
  BY <1>1 DEF Cat
<1>4. FramesOf(sent) = <<>>
  <2>1. DOMAIN sent = {}
    BY <1>1
  <2> QED
    BY <1>1, <2>1 DEF FramesOf
<1> QED
  BY <1>2, <1>3, <1>4, FlattenEmpty DEF BridgeInv

LEMMA SendStep ==
  ASSUME BridgeInv, NEW w \in Feedback, Send(w)
  PROVE  BridgeInv'
<1> DEFINE f == Frame(DeviceId, w)
<1>1. /\ kernel \in Bytes /\ rxBuffer \in Bytes /\ out \in Seq(Command)
      /\ sent \in Seq(Feedback) /\ harm \in 0 .. MaxDamage
  BY BridgeTypes DEF BridgeInv
<1>2. w \in Command /\ f \in Bytes
  BY BridgeSizes, FrameBytes
<1>3. /\ Len(kernel) + Len(f) <= KernelSize /\ kernel' = Cat(kernel, f)
      /\ sent' = IF harm = 0 THEN Append(sent, w) ELSE <<>>
      /\ rxBuffer' = rxBuffer /\ out' = out /\ harm' = harm
  BY DEF Send, Cat
<1> HIDE DEF f
<1>4. kernel' \in Bytes /\ Len(kernel') <= KernelSize
  <2>1. Cat(kernel, f) \in Bytes /\ Len(Cat(kernel, f)) = Len(kernel) + Len(f)
    BY <1>1, <1>2, CatAt
  <2> QED
    BY <1>3, <2>1
<1>5. sent' \in Seq(Feedback)
  BY <1>1, <1>3
<1>6. BridgeTypeOK'
  BY <1>1, <1>3, <1>4, <1>5 DEF BridgeTypeOK, Bytes, Command
<1>7. ASSUME harm' = 0 PROVE Cat(rxBuffer', kernel') = FlattenSeq(FramesOf(sent'))
  <2>1. sent \in Seq(Command)
    BY <1>1, BridgeSizes, SeqMonotonic
  <2>2. Cat(rxBuffer, kernel) = FlattenSeq(FramesOf(sent))
    BY <1>3, <1>7 DEF BridgeInv
  <2>3. Cat(rxBuffer, Cat(kernel, f)) = Cat(Cat(rxBuffer, kernel), f)
    BY <1>1, <1>2, CatBytes
  <2>4. FramesOf(Append(sent, w)) = Append(FramesOf(sent), f)
    BY <1>2, <2>1, FramesAppend DEF f
  <2>5. FramesOf(sent) \in Seq(Bytes)
    BY <2>1, FramesBytes
  <2>6. FlattenSeq(Append(FramesOf(sent), f)) = Cat(FlattenSeq(FramesOf(sent)), f)
    BY <1>2, <2>5, FlattenAppend
  <2>7. sent' = Append(sent, w)
    BY <1>3, <1>7
  <2> QED
    BY <1>3, <2>2, <2>3, <2>4, <2>6, <2>7
<1> QED
  BY <1>6, <1>7 DEF BridgeInv

(* After damage there is nothing left to keep but the types.               *)
LEMMA HarmStep ==
  ASSUME BridgeInv, NEW w \in Feedback,
         SendGarbled(w) \/ Reopen(w)
  PROVE  BridgeInv'
<1> DEFINE f == Frame(DeviceId, w)
<1>1. /\ kernel \in Bytes /\ rxBuffer \in Bytes /\ out \in Seq(Command)
      /\ sent \in Seq(Feedback) /\ harm \in 0 .. MaxDamage
      /\ Len(kernel) <= KernelSize
  BY BridgeTypes DEF BridgeInv
<1>2. f \in Bytes /\ Len(f) = FrameLen
  BY BridgeSizes, FrameBytes, FrameLenIs
<1>3. /\ harm < MaxDamage /\ harm' = harm + 1 /\ sent' = <<>> /\ out' = out
  BY DEF SendGarbled, Reopen
<1>4. harm' \in 0 .. MaxDamage /\ harm' # 0 /\ sent' \in Seq(Feedback)
  <2>1. MaxDamage \in Nat
    BY BridgeSizes
  <2>2. harm \in Nat /\ harm' = harm + 1 /\ harm < MaxDamage
    BY <1>1, <1>3, <2>1
  <2>3. <<>> \in Seq(Feedback)
    OBVIOUS
  <2> QED
    BY <1>3, <2>1, <2>2, <2>3
<1>5. rxBuffer' \in Bytes /\ kernel' \in Bytes /\ Len(kernel') <= KernelSize
  <2>1. CASE SendGarbled(w)
    <3>1. PICK g \in Garbled(f) : kernel' = Cat(kernel, g)
      BY <2>1 DEF SendGarbled, Cat
    <3>2. Len(kernel) + Len(f) <= KernelSize /\ rxBuffer' = rxBuffer
      BY <2>1 DEF SendGarbled
    <3> HIDE DEF f
    <3>3. g \in Bytes /\ Len(g) <= Len(f)
      BY <1>2, GarbledBytes
    <3>4. Cat(kernel, g) \in Bytes /\ Len(Cat(kernel, g)) = Len(kernel) + Len(g)
      BY <1>1, <3>3, CatAt
    <3>5. Len(kernel) \in Nat /\ Len(g) \in Nat /\ Len(f) \in Nat /\ KernelSize \in Nat
      BY <1>1, <1>2, <3>3, LenBytes, BridgeSizes
    <3> QED
      BY <1>1, <3>1, <3>2, <3>3, <3>4, <3>5
  <2>2. CASE Reopen(w)
    <3>1. rxBuffer' = <<>> /\ kernel' \in Suffixes(f)
      BY <2>2 DEF Reopen
    <3> HIDE DEF f
    <3>2. Len(f) \in Nat /\ KernelSize \in Nat /\ Len(f) <= KernelSize
      BY <1>2, LenBytes, BridgeSizes
    <3>3. <<>> \in Bytes /\ Len(<<>>) = 0
      BY DEF Bytes
    <3>4. kernel' = <<>> \/ \E l \in 1 .. Len(f) : kernel' = SubSeq(f, l, Len(f))
      BY <3>1 DEF Suffixes
    <3>5. ASSUME NEW l \in 1 .. Len(f)
          PROVE  SubSeq(f, l, Len(f)) \in Bytes /\ Len(SubSeq(f, l, Len(f))) <= Len(f)
      <4>1. l \in Nat \ {0} /\ Len(f) <= Len(f) /\ l <= Len(f) + 1
            /\ (Len(f) - l) + 1 <= Len(f)
        BY <3>2
      <4>2. /\ SubSeq(f, l, Len(f)) \in Bytes
            /\ Len(SubSeq(f, l, Len(f))) = (Len(f) - l) + 1
        BY <1>2, <3>2, <4>1, PartBytes
      <4> QED
        BY <4>1, <4>2
    <3>6. kernel' \in Bytes /\ Len(kernel') <= Len(f)
      <4>1. CASE kernel' = <<>>
        BY <3>2, <3>3, <4>1
      <4>2. CASE \E l \in 1 .. Len(f) : kernel' = SubSeq(f, l, Len(f))
        <5>1. PICK l \in 1 .. Len(f) : kernel' = SubSeq(f, l, Len(f))
          BY <4>2
        <5> QED
          BY <3>5, <5>1
      <4> QED
        BY <3>4, <4>1, <4>2
    <3>7. Len(kernel') \in Nat
      BY <3>6, LenBytes
    <3> QED
      BY <3>1, <3>2, <3>3, <3>6, <3>7
  <2> QED
    BY <2>1, <2>2
<1>6. BridgeTypeOK'
  BY <1>1, <1>3, <1>4, <1>5 DEF BridgeTypeOK, Bytes, Command
<1> QED
  BY <1>4, <1>6 DEF BridgeInv

(* An update, with what it has read and what it leaves.                    *)
LEMMA UpdateFacts ==
  ASSUME BridgeInv, NEW n \in DOMAIN kernel, Update(n)
  PROVE  \E s \in Bytes :
           /\ rxBuffer' = Parse(s).rest /\ out' = Parse(s).out
           /\ kernel' \in Bytes /\ Cat(s, kernel') = Cat(rxBuffer, kernel)
           /\ Len(s) = Len(rxBuffer) + n /\ n \in Nat /\ n <= ReadSize
           /\ Len(kernel') <= KernelSize
           /\ harm' = harm
           /\ sent' = IF harm = 0 THEN Left(sent, Len(out')) ELSE <<>>
<1> DEFINE a == SubSeq(kernel, 1, n)
           b == SubSeq(kernel, n + 1, Len(kernel))
           s == Cat(rxBuffer, a)
<1>1. kernel \in Bytes /\ rxBuffer \in Bytes /\ Len(kernel) \in Nat
      /\ Len(kernel) <= KernelSize /\ KernelSize \in Nat
  BY BridgeTypes, LenBytes, BridgeSizes DEF BridgeInv
<1>2. n \in 0 .. Len(kernel)
  BY <1>1 DEF Bytes
<1>3. /\ a \in Bytes /\ b \in Bytes /\ Len(a) = n /\ Len(b) = Len(kernel) - n
      /\ kernel = Cat(a, b)
  BY <1>1, <1>2, CutJoin
<1>4. /\ n <= ReadSize /\ kernel' = b /\ harm' = harm
      /\ sent' = IF harm = 0 THEN SubSeq(sent, Len(out') + 1, Len(sent)) ELSE <<>>
      /\ rxBuffer' = Parse(s).rest /\ out' = Parse(s).out
  BY DEF Update, Appended, Cat
<1> HIDE DEF a, b
<1>5. s \in Bytes /\ Len(s) = Len(rxBuffer) + n
  BY <1>1, <1>3, CatAt
<1>6. Cat(s, b) = Cat(rxBuffer, kernel)
  BY <1>1, <1>3, CatBytes
<1>7. Len(b) <= KernelSize
  BY <1>1, <1>2, <1>3
<1> HIDE DEF s
<1> QED
  BY <1>2, <1>3, <1>4, <1>5, <1>6, <1>7 DEF Left

LEMMA UpdateStep ==
  ASSUME BridgeInv, NEW n \in DOMAIN kernel, Update(n)
  PROVE  /\ BridgeInv'
         /\ harm = 0 => Len(out') <= Len(sent) /\ out' = SubSeq(sent, 1, Len(out'))
<1>1. PICK s \in Bytes :
        /\ rxBuffer' = Parse(s).rest /\ out' = Parse(s).out
        /\ kernel' \in Bytes /\ Cat(s, kernel') = Cat(rxBuffer, kernel)
        /\ Len(kernel') <= KernelSize
        /\ harm' = harm
        /\ sent' = IF harm = 0 THEN Left(sent, Len(out')) ELSE <<>>
  BY UpdateFacts
<1>2. sent \in Seq(Feedback) /\ sent \in Seq(Command) /\ harm \in 0 .. MaxDamage
  <2>1. sent \in Seq(Feedback) /\ harm \in 0 .. MaxDamage
    BY BridgeTypes DEF BridgeInv
  <2> QED
    BY <2>1, BridgeSizes, SeqMonotonic
<1>3. rxBuffer' \in Bytes /\ out' \in Seq(Command)
  <2>1. [out |-> <<>>, rest |-> s] \in [out : Seq(Command), rest : Bytes]
    OBVIOUS
  <2>2. Parse(s) \in [out : Seq(Command), rest : Bytes]
    BY <2>1, TurnTypes, LoopRule
  <2> QED
    BY <1>1, <2>2
<1>4. ASSUME harm = 0
      PROVE  /\ Len(out') <= Len(sent) /\ out' = SubSeq(sent, 1, Len(out'))
             /\ Cat(rxBuffer', kernel') = FlattenSeq(FramesOf(sent'))
  <2>1. Cat(s, kernel') = FlattenSeq(FramesOf(sent))
    BY <1>1, <1>4 DEF BridgeInv
  <2>2. Parse(s) \in OfStream(sent, kernel', Len(s))
    BY <1>1, <1>2, <2>1, ParseOfStream
  <2> QED
    BY <1>1, <1>4, <2>2 DEF OfStream
<1>5. sent' \in Seq(Feedback)
  <2>1. ASSUME harm = 0 PROVE Left(sent, Len(out')) \in Seq(Feedback)
    <3>1. Len(out') \in Nat /\ Len(sent) \in Nat
      BY <1>2, <1>3
    <3>2. \A i \in (Len(out') + 1) .. Len(sent) : sent[i] \in Feedback
      BY <1>2, <3>1
    <3>3. Len(out') + 1 \in Int /\ Len(sent) \in Int
      BY <3>1
    <3> QED
      BY <1>2, <3>2, <3>3, SubSeqProperties DEF Left
  <2> QED
    BY <1>1, <2>1
<1>6. BridgeTypeOK'
  BY <1>1, <1>2, <1>3, <1>5 DEF BridgeTypeOK, Bytes, Command
<1> QED
  BY <1>1, <1>4, <1>6 DEF BridgeInv

LEMMA BridgeStep ==
  ASSUME BridgeInv, [BridgeNext]_bridgeVars PROVE BridgeInv'
<1>1. ASSUME NEW w \in Feedback, Send(w) \/ SendGarbled(w) \/ Reopen(w)
      PROVE  BridgeInv'
  BY <1>1, SendStep, HarmStep
<1>2. ASSUME NEW n \in DOMAIN kernel, Update(n) PROVE BridgeInv'
  BY <1>2, UpdateStep
<1>3. CASE UNCHANGED bridgeVars
  BY <1>3 DEF bridgeVars, BridgeInv, BridgeTypeOK
<1> QED
  BY <1>1, <1>2, <1>3 DEF BridgeNext, Reads

LEMMA BridgeInvariant == BridgeSpec => []BridgeInv
<1>1. BridgeInit => BridgeInv
  BY InitBridge
<1>2. BridgeInv /\ [BridgeNext]_bridgeVars => BridgeInv'
  BY BridgeStep
<1> QED
  BY <1>1, <1>2, PTL DEF BridgeSpec

(* The variables keep their types, whatever arrives: what is published is  *)
(* always a full set of int16 words.                                       *)
THEOREM MessagesWhole == BridgeSpec => []BridgeTypeOK
<1>1. BridgeInv => BridgeTypeOK
  BY DEF BridgeInv
<1> QED
  BY <1>1, BridgeInvariant, PTL

(* Until there is damage an update publishes the oldest messages sent and  *)
(* not yet published, word for word, and what it leaves, read or not, are  *)
(* the frames of the others.                                               *)
THEOREM FeedbackExact == BridgeSpec => StreamExact
<1>1. ASSUME BridgeInv, [BridgeNext]_bridgeVars
      PROVE  [ExactUpdate]_bridgeVars
  <2> SUFFICES ASSUME Reads, harm = 0
               PROVE  /\ out' = SubSeq(sent, 1, Len(out'))
                      /\ rxBuffer' \o kernel' =
                           FlattenSeq([k \in DOMAIN sent' |->
                                                Frame(DeviceId, sent'[k])])
    BY DEF ExactUpdate
  <2>1. PICK n \in DOMAIN kernel : Update(n)
    BY DEF Reads
  <2>2. BridgeInv' /\ out' = SubSeq(sent, 1, Len(out')) /\ harm' = 0
    BY <1>1, <2>1, UpdateStep DEF Update
  <2>3. Cat(rxBuffer', kernel') = FlattenSeq(FramesOf(sent'))
    BY <2>2 DEF BridgeInv
  <2>4. FlattenSeq([k \in DOMAIN sent' |-> Frame(DeviceId, sent'[k])])
          = FlattenSeq(FramesOf(sent'))
    BY DEF FramesOf
  <2> QED
    BY <2>2, <2>3, <2>4 DEF Cat
<1>2. BridgeInv /\ [BridgeNext]_bridgeVars => [ExactUpdate]_bridgeVars
  BY <1>1
<1> QED
  BY <1>2, BridgeInvariant, PTL DEF BridgeSpec, StreamExact

-------------------------------------------------------------------------------
(* Equal bytes, and only those, have an exclusive or of 0.                 *)
LEMMA XorSelf ==
  ASSUME NEW a \in Byte, NEW b \in Byte PROVE XorOf[<<a, b>>] = 0 <=> a = b
<1> DEFINE S == {n \in Nat : \A x, y \in Byte :
                   x <= n /\ y <= n => (XorOf[<<x, y>>] = 0 <=> x = y)}
<1>1. 0 \in S
  <2>1. ASSUME NEW x \in Byte, NEW y \in Byte, x <= 0, y <= 0
        PROVE  XorOf[<<x, y>>] = 0 <=> x = y
    <3>1. x = 0 /\ y = 0
      BY <2>1, BaseFacts
    <3> QED
      BY <2>1, <3>1, XorUnfold
  <2> QED
    BY <2>1
<1>2. ASSUME NEW n \in Nat, n \in S PROVE n + 1 \in S
  <2>1. ASSUME NEW x \in Byte, NEW y \in Byte, x <= n + 1, y <= n + 1
        PROVE  XorOf[<<x, y>>] = 0 <=> x = y
    <3> DEFINE x2 == x \div 2
               y2 == y \div 2
               r  == XorOf[<<x2, y2>>]
    <3>1. x \in Nat /\ y \in Nat /\ x <= Base - 1 /\ y <= Base - 1 /\ Base \in Nat
      BY BaseFacts
    <3>2. x2 \in Byte /\ y2 \in Byte /\ x2 <= n /\ y2 <= n
      BY <2>1, <3>1 DEF Byte
    <3>3. (r = 0 <=> x2 = y2) /\ r \in Nat
      <4>1. r \in Byte
        BY <3>2, XorByte
      <4> QED
        BY <1>2, <3>2, <4>1, BaseFacts
    <3>4. XorOf[<<x, y>>] = IF x = 0 /\ y = 0 THEN 0 ELSE ((x + y) % 2) + 2 * r
      BY XorUnfold
    <3>5. (x + y) % 2 \in 0 .. 1 /\ (x = y <=> x2 = y2 /\ (x + y) % 2 = 0)
      BY <3>1
    <3> HIDE DEF r, x2, y2
    <3>6. ((x + y) % 2) + 2 * r = 0 <=> r = 0 /\ (x + y) % 2 = 0
      BY <3>3, <3>5
    <3> QED
      BY <3>3, <3>4, <3>5, <3>6
  <2> QED
    BY <2>1
<1> HIDE DEF S
<1>3. Nat \subseteq S
  BY <1>1, <1>2, Induct
<1>4. Base - 1 \in S /\ a <= Base - 1 /\ b <= Base - 1
  BY <1>3, BaseFacts
<1> QED
  BY <1>4 DEF S

-------------------------------------------------------------------------------
(* The scan of Deframe: its steps, and what it takes from each position.   *)

Scan == [free : Nat, waits : BOOLEAN, own : Seq(Command)]

IsScan(g, s, n) ==
  g = [k \in 0 .. n |-> IF k = 0 THEN Unscanned
                        ELSE Scanned(s, k, g[k - 1])]

LEMMA ScanExists == ASSUME NEW s, NEW m \in Nat PROVE \E g : IsScan(g, s, m)
<1> DEFINE S == {n \in Nat : \E g : IsScan(g, s, n)}
<1>1. 0 \in S
  <2> DEFINE g == [k \in 0 .. 0 |-> Unscanned]
  <2>1. IsScan(g, s, 0)
    BY DEF IsScan
  <2> QED
    BY <2>1
<1>2. ASSUME NEW n \in Nat, n \in S PROVE n + 1 \in S
  <2>1. PICK g : IsScan(g, s, n)
    BY <1>2
  <2> DEFINE h == [k \in 0 .. n + 1 |->
                    IF k <= n THEN g[k] ELSE Scanned(s, k, g[n])]
  <2>2. \A j \in 0 .. n : g[j] = IF j = 0 THEN Unscanned
                                 ELSE Scanned(s, j, g[j - 1])
    BY <2>1 DEF IsScan
  <2>3. ASSUME NEW k \in 0 .. n + 1
        PROVE  h[k] = IF k = 0 THEN Unscanned ELSE Scanned(s, k, h[k - 1])
    <3>1. CASE k \in 0 .. n
      <4>1. h[k] = g[k]
        BY <3>1
      <4>2. k # 0 => k - 1 \in 0 .. n /\ k - 1 \in 0 .. n + 1 /\ h[k - 1] = g[k - 1]
        BY <3>1
      <4> HIDE DEF h
      <4> QED
        BY <2>2, <3>1, <4>1, <4>2
    <3>2. CASE k = n + 1
      <4>1. /\ h[n + 1] = Scanned(s, n + 1, g[n])
            /\ h[n] = g[n] /\ n + 1 # 0 /\ (n + 1) - 1 = n
        OBVIOUS
      <4> HIDE DEF h
      <4> QED
        BY <3>2, <4>1
    <3> QED
      BY <3>1, <3>2
  <2>4. IsScan(h, s, n + 1)
    <3>1. h = [k \in 0 .. n + 1 |-> h[k]]
      OBVIOUS
    <3> HIDE DEF h
    <3> QED
      BY <2>3, <3>1 DEF IsScan
  <2> QED
    BY <2>4
<1> HIDE DEF S
<1>3. Nat \subseteq S
  BY <1>1, <1>2, Induct
<1> QED
  BY <1>3 DEF S

(* A scan of s, by its steps.                                              *)
Scans(g, s) ==
  /\ Deframe(s) = g[Len(s)].own
  /\ g[0] = Unscanned
  /\ \A k \in 0 .. Len(s) - 1 : g[k + 1] = Scanned(s, k + 1, g[k])

LEMMA ScanOf == ASSUME NEW s \in Bytes PROVE \E g : Scans(g, s)
<1>1. Len(s) \in Nat
  BY LenBytes
<1>2. \E g : IsScan(g, s, Len(s))
  BY <1>1, ScanExists
<1>3. PICK g : IsScan(g, s, Len(s)) /\ Deframe(s) = g[Len(s)].own
  BY <1>2 DEF Deframe, IsScan
<1>4. \A k \in 0 .. Len(s) : g[k] = IF k = 0 THEN Unscanned
                                    ELSE Scanned(s, k, g[k - 1])
  BY <1>3 DEF IsScan
<1>5. 0 \in 0 .. Len(s)
  BY <1>1
<1>6. ASSUME NEW k \in 0 .. Len(s) - 1 PROVE g[k + 1] = Scanned(s, k + 1, g[k])
  <2>1. k + 1 \in 0 .. Len(s) /\ k + 1 # 0 /\ (k + 1) - 1 = k
    BY <1>1
  <2>2. g[k + 1] = Scanned(s, k + 1, g[(k + 1) - 1])
    BY <1>4, <2>1
  <2> QED
    BY <2>1, <2>2
<1>7. g[0] = Unscanned
  BY <1>4, <1>5
<1> QED
  BY <1>3, <1>6, <1>7 DEF Scans

(* What position p of s makes of t.                                        *)
Passes(s, p, t) == t.waits \/ p < t.free \/ s[p] # StartByte \/ p + 3 > Len(s)
LastOf(s, p)    == p + (4 + s[p + 2]) - 1
Unsound(s, p)   == Checksum(SubSeq(s, p + 1, LastOf(s, p))) # 0
MessageAt(s, p) == Message(SubSeq(s, p, Len(s)))
OwnAt(s, p)     == IF s[p + 1] = DeviceId THEN <<MessageAt(s, p)>> ELSE <<>>

LEMMA HeaderAt ==
  ASSUME NEW s \in Bytes, NEW p \in 1 .. Len(s), p + 3 <= Len(s)
  PROVE  /\ s[p + 1] \in Byte /\ s[p + 2] \in Nat /\ LastOf(s, p) \in Nat
         /\ LastOf(s, p) >= p + 3
<1>1. Len(s) \in Nat /\ p \in Nat /\ p + 1 \in 1 .. Len(s) /\ p + 2 \in 1 .. Len(s)
  BY LenBytes
<1>2. s[p + 1] \in Byte /\ s[p + 2] \in Byte
  BY <1>1 DEF Bytes
<1> QED
  BY <1>1, <1>2, BaseFacts DEF LastOf

LEMMA MessageAtTypes ==
  ASSUME NEW s \in Bytes, NEW p \in 1 .. Len(s), p + 3 <= Len(s), LastOf(s, p) <= Len(s)
  PROVE  MessageAt(s, p) \in Command
<1> DEFINE u == SubSeq(s, p, Len(s))
<1>1. Len(s) \in Nat /\ p \in Nat \ {0} /\ Len(s) <= Len(s) /\ p <= Len(s) + 1
  BY LenBytes
<1>2. /\ u \in Bytes /\ Len(u) = (Len(s) - p) + 1
      /\ \A i \in 1 .. (Len(s) - p) + 1 : u[i] = s[p + i - 1]
  BY <1>1, PartBytes
<1> HIDE DEF u
<1>3. 3 \in 1 .. (Len(s) - p) + 1 /\ p + 3 - 1 = p + 2
  BY <1>1
<1>4. u[3] = s[p + 2]
  BY <1>2, <1>3
<1>5. s[p + 2] \in Nat
  BY HeaderAt
<1>6. SizeOf(u) \in 4 .. Len(u)
  BY <1>1, <1>2, <1>4, <1>5 DEF SizeOf, LastOf
<1>7. Message(u) \in Command
  BY <1>2, <1>6, MessageWords
<1> QED
  BY <1>7 DEF MessageAt, u

LEMMA ScannedIs ==
  ASSUME NEW s \in Bytes, NEW p \in 1 .. Len(s), NEW t \in Scan
  PROVE  /\ Passes(s, p, t) => Scanned(s, p, t) = t
         /\ ~Passes(s, p, t) =>
              /\ ~t.waits /\ p + 3 <= Len(s)
              /\ LastOf(s, p) > Len(s) =>
                   Scanned(s, p, t)
                     = [free |-> t.free, waits |-> TRUE, own |-> t.own]
              /\ LastOf(s, p) <= Len(s) /\ Unsound(s, p) =>
                   Scanned(s, p, t) = t
              /\ LastOf(s, p) <= Len(s) /\ ~Unsound(s, p) =>
                   Scanned(s, p, t)
                     = [free |-> LastOf(s, p) + 1, waits |-> FALSE,
                        own  |-> t.own \o OwnAt(s, p)]
<1>1. CASE Passes(s, p, t)
  BY <1>1 DEF Passes, Scanned
<1>2. CASE ~Passes(s, p, t)
  <2>1. /\ ~t.waits /\ ~(p < t.free) /\ ~(s[p] # StartByte) /\ ~(p + 3 > Len(s))
        /\ Len(s) \in Nat /\ p \in Nat /\ p + 3 <= Len(s)
    <3>1. Len(s) \in Nat
      BY LenBytes
    <3> QED
      BY <1>2, <3>1 DEF Passes
  <2>2. s[p + 2] \in Nat /\ LastOf(s, p) \in Nat
    BY <2>1, HeaderAt
  <2>3. t = [free |-> t.free, waits |-> t.waits, own |-> t.own]
        /\ t.free \in Nat /\ t.waits \in BOOLEAN /\ t.own \in Seq(Command)
    BY DEF Scan
  <2> DEFINE l == p + (4 + s[p + 2]) - 1
  <2>4. LastOf(s, p) = l /\ p + (4 + s[p + 2]) = l + 1 /\ l \in Nat
    BY <2>1, <2>2 DEF LastOf
  <2>5. Scanned(s, p, t)
          = IF l > Len(s) THEN [t EXCEPT !.waits = TRUE]
            ELSE IF Checksum(SubSeq(s, p + 1, l)) # 0 THEN t
            ELSE [t EXCEPT !.free = p + (4 + s[p + 2]),
                           !.own = IF s[p + 1] = DeviceId
                                   THEN Append(@, MessageAt(s, p)) ELSE @]
    BY <2>1 DEF Scanned, MessageAt
  <2>6. l <= Len(s) <=> ~(l > Len(s))
    BY <2>1, <2>4
  <2>7. CASE l > Len(s)
    <3>1. Scanned(s, p, t) = [t EXCEPT !.waits = TRUE]
      BY <2>5, <2>7
    <3>2. Scanned(s, p, t) = [free |-> t.free, waits |-> TRUE, own |-> t.own]
      BY <2>3, <3>1
    <3> HIDE DEF l
    <3> QED
      BY <1>2, <2>1, <2>4, <2>6, <2>7, <3>2
  <2>8. CASE l <= Len(s) /\ Unsound(s, p)
    BY <1>2, <2>1, <2>4, <2>5, <2>6, <2>8 DEF Unsound
  <2>9. CASE l <= Len(s) /\ ~Unsound(s, p)
    <3>1. MessageAt(s, p) \in Command
      BY <2>1, <2>4, <2>9, MessageAtTypes
    <3>2. /\ t.own \o <<>> = t.own
          /\ Append(t.own, MessageAt(s, p)) = t.own \o <<MessageAt(s, p)>>
      BY <2>3, <3>1
    <3>3. t.own \o OwnAt(s, p) = IF s[p + 1] = DeviceId
                                 THEN Append(t.own, MessageAt(s, p)) ELSE t.own
      BY <3>2 DEF OwnAt
    <3>4. Scanned(s, p, t)
            = [t EXCEPT !.free = p + (4 + s[p + 2]),
                        !.own = IF s[p + 1] = DeviceId
                                THEN Append(@, MessageAt(s, p)) ELSE @]
      BY <2>4, <2>5, <2>6, <2>9 DEF Unsound
    <3> DEFINE o == IF s[p + 1] = DeviceId
                    THEN Append(t.own, MessageAt(s, p)) ELSE t.own
    <3>5. Scanned(s, p, t)
            = [free |-> p + (4 + s[p + 2]), waits |-> FALSE, own |-> o]
      BY <2>1, <2>3, <3>4
    <3> HIDE DEF o
    <3>6. Scanned(s, p, t)
            = [free |-> LastOf(s, p) + 1, waits |-> FALSE, own |-> t.own \o OwnAt(s, p)]
      BY <2>4, <3>3, <3>5 DEF o
    <3> HIDE DEF l
    <3> QED
      BY <1>2, <2>1, <2>4, <2>6, <2>9, <3>6
  <2> QED
    BY <1>2, <2>1, <2>4, <2>6, <2>7, <2>8, <2>9
<1> QED
  BY <1>1, <1>2

-------------------------------------------------------------------------------
(* A scan of y, which is x without its first d bytes, finds what the scan  *)
(* of x finds from there on, if no frame reaches over that place.          *)

From(x, y, d) ==
  /\ Len(x) = d + Len(y)
  /\ \A i \in 1 .. Len(y) : y[i] = x[d + i]

LEMMA ScannedTypes ==
  ASSUME NEW s \in Bytes, NEW p \in 1 .. Len(s), NEW t \in Scan
  PROVE  Scanned(s, p, t) \in Scan
<1>1. t.free \in Nat /\ t.waits \in BOOLEAN /\ t.own \in Seq(Command)
  BY DEF Scan
<1>2. CASE Passes(s, p, t)
  BY <1>2, ScannedIs
<1>3. CASE ~Passes(s, p, t)
  <2>1. p + 3 <= Len(s)
    BY <1>3, ScannedIs
  <2>2. LastOf(s, p) \in Nat /\ Len(s) \in Nat
    BY <2>1, HeaderAt, LenBytes
  <2>3. ASSUME LastOf(s, p) > Len(s) PROVE Scanned(s, p, t) \in Scan
    <3>1. Scanned(s, p, t) = [free |-> t.free, waits |-> TRUE, own |-> t.own]
      BY <1>3, <2>3, ScannedIs
    <3> QED
      BY <1>1, <3>1 DEF Scan
  <2>4. ASSUME LastOf(s, p) <= Len(s), Unsound(s, p) PROVE Scanned(s, p, t) \in Scan
    <3>1. Scanned(s, p, t) = t
      BY <1>3, <2>4, ScannedIs
    <3> QED
      BY <3>1
  <2>5. ASSUME LastOf(s, p) <= Len(s), ~Unsound(s, p) PROVE Scanned(s, p, t) \in Scan
    <3>1. Scanned(s, p, t)
            = [free |-> LastOf(s, p) + 1, waits |-> FALSE, own |-> t.own \o OwnAt(s, p)]
      BY <1>3, <2>5, ScannedIs
    <3>2. MessageAt(s, p) \in Command
      BY <2>1, <2>5, MessageAtTypes
    <3>3. OwnAt(s, p) \in Seq(Command)
      BY <3>2 DEF OwnAt
    <3>4. t.own \o OwnAt(s, p) \in Seq(Command)
      BY <1>1, <3>3
    <3> QED
      BY <2>2, <3>1, <3>4 DEF Scan
  <2> QED
    BY <2>2, <2>3, <2>4, <2>5
<1> QED
  BY <1>2, <1>3

LEMMA PartShift ==
  ASSUME NEW x \in Bytes, NEW y \in Bytes, NEW d \in Nat, From(x, y, d),
         NEW a \in Nat \ {0}, NEW b \in Nat, b <= Len(y), a <= b + 1
  PROVE  SubSeq(x, d + a, d + b) = SubSeq(y, a, b)
<1> DEFINE u == SubSeq(x, d + a, d + b)
           v == SubSeq(y, a, b)
<1>1. Len(x) \in Nat /\ Len(y) \in Nat /\ Len(x) = d + Len(y)
  BY LenBytes DEF From
<1>2. /\ d + a \in Nat \ {0} /\ d + b \in Nat /\ d + b <= Len(x)
      /\ d + a <= (d + b) + 1 /\ ((d + b) - (d + a)) + 1 = (b - a) + 1
  BY <1>1
<1>3. /\ u \in Bytes /\ Len(u) = ((d + b) - (d + a)) + 1
      /\ \A i \in 1 .. ((d + b) - (d + a)) + 1 : u[i] = x[(d + a) + i - 1]
  BY <1>2, PartBytes
<1>4. /\ v \in Bytes /\ Len(v) = (b - a) + 1
      /\ \A i \in 1 .. (b - a) + 1 : v[i] = y[a + i - 1]
  BY PartBytes
<1> HIDE DEF u, v
<1>5. ASSUME NEW i \in 1 .. (b - a) + 1 PROVE u[i] = v[i]
  <2>1. a + i - 1 \in 1 .. Len(y) /\ d + (a + i - 1) = (d + a) + i - 1
    BY <1>1
  <2>2. y[a + i - 1] = x[d + (a + i - 1)]
    BY <2>1 DEF From
  <2> QED
    BY <1>2, <1>3, <1>4, <2>1, <2>2
<1>6. u = v
  <2>1. u \in Seq(Byte) /\ v \in Seq(Byte) /\ Len(u) = Len(v)
    BY <1>2, <1>3, <1>4 DEF Bytes
  <2> QED
    BY <1>2, <1>3, <1>5, <2>1, SeqEqual
<1> QED
  BY <1>6 DEF u, v

LEMMA HeaderShift ==
  ASSUME NEW x \in Bytes, NEW y \in Bytes, NEW d \in Nat, From(x, y, d),
         NEW p \in 1 .. Len(y), p + 3 <= Len(y)
  PROVE  /\ LastOf(x, d + p) = d + LastOf(y, p)
         /\ LastOf(y, p) <= Len(y) =>
              /\ Unsound(x, d + p) <=> Unsound(y, p)
              /\ OwnAt(x, d + p) = OwnAt(y, p)
<1>1. Len(y) \in Nat /\ p \in Nat \ {0} /\ Len(x) = d + Len(y)
  BY LenBytes DEF From
<1>2. /\ p + 1 \in 1 .. Len(y) /\ p + 2 \in 1 .. Len(y)
      /\ d + (p + 1) = (d + p) + 1 /\ d + (p + 2) = (d + p) + 2
  BY <1>1
<1>3. y[p + 1] = x[(d + p) + 1] /\ y[p + 2] = x[(d + p) + 2]
  BY <1>2 DEF From
<1>4. y[p + 2] \in Nat /\ LastOf(y, p) \in Nat /\ LastOf(y, p) >= p + 3
  BY HeaderAt
<1>5. LastOf(x, d + p) = d + LastOf(y, p)
  <2>1. LastOf(x, d + p) = (d + p) + (4 + y[p + 2]) - 1
    BY <1>3 DEF LastOf
  <2>2. LastOf(y, p) = p + (4 + y[p + 2]) - 1
    BY DEF LastOf
  <2> QED
    BY <1>1, <1>4, <2>1, <2>2
<1>6. ASSUME LastOf(y, p) <= Len(y) PROVE Unsound(x, d + p) <=> Unsound(y, p)
  <2> DEFINE l == LastOf(y, p)
  <2>1. p + 1 \in Nat \ {0} /\ l \in Nat /\ l <= Len(y) /\ p + 1 <= l + 1
    BY <1>1, <1>4, <1>6
  <2> HIDE DEF l
  <2>2. SubSeq(x, d + (p + 1), d + l) = SubSeq(y, p + 1, l)
    BY <2>1, PartShift
  <2> QED
    BY <1>2, <1>5, <2>2 DEF Unsound, l
<1>7. OwnAt(x, d + p) = OwnAt(y, p)
  <2>1. p \in Nat \ {0} /\ Len(y) \in Nat /\ Len(y) <= Len(y) /\ p <= Len(y) + 1
    BY <1>1
  <2>2. SubSeq(x, d + p, d + Len(y)) = SubSeq(y, p, Len(y))
    BY <2>1, PartShift
  <2> QED
    BY <1>1, <1>3, <2>2 DEF OwnAt, MessageAt
<1> QED
  BY <1>5, <1>6, <1>7

(* t and u, after d + k positions of x and k of y.                         *)
Matches(t, u, o, d, k) ==
  /\ t \in Scan /\ u \in Scan
  /\ t.waits = u.waits /\ t.own = Cat(o, u.own)
  /\ \A p \in Nat : p > k => (p < u.free <=> d + p < t.free)

LEMMA CatMessages ==
  ASSUME NEW a \in Seq(Command), NEW b \in Seq(Command), NEW c \in Seq(Command)
  PROVE  /\ Cat(a, b) \in Seq(Command)
         /\ Cat(Cat(a, b), c) = Cat(a, Cat(b, c))
BY DEF Cat

LEMMA CatNone ==
  ASSUME NEW a \in Seq(Command)
  PROVE  Cat(a, <<>>) = a /\ Cat(<<>>, a) = a
BY DEF Cat

LEMMA ScannedShift ==
  ASSUME NEW x \in Bytes, NEW y \in Bytes, NEW d \in Nat, From(x, y, d),
         NEW o \in Seq(Command), NEW t, NEW u, NEW k \in 0 .. Len(y) - 1,
         Matches(t, u, o, d, k)
  PROVE  Matches(Scanned(x, d + (k + 1), t), Scanned(y, k + 1, u),
                 o, d, k + 1)
<1> DEFINE p == k + 1
           q == d + p
           t2 == Scanned(x, q, t)
           u2 == Scanned(y, p, u)
<1>1. /\ Len(y) \in Nat /\ k \in Nat /\ Len(x) = d + Len(y)
      /\ p \in 1 .. Len(y) /\ q \in 1 .. Len(x) /\ p \in Nat /\ p > k /\ q \in Nat
  BY LenBytes DEF From
<1>2. t \in Scan /\ u \in Scan /\ t.waits = u.waits /\ t.own = Cat(o, u.own)
      /\ (p < u.free <=> q < t.free)
  BY <1>1 DEF Matches
<1> HIDE DEF p, q
<1>3. t2 \in Scan /\ u2 \in Scan
  BY <1>1, <1>2, ScannedTypes
<1>4. y[p] = x[q]
  BY <1>1 DEF From, q
<1>5. Passes(x, q, t) <=> Passes(y, p, u)
  <2>1. q + 3 > Len(x) <=> p + 3 > Len(y)
    BY <1>1 DEF q
  <2> QED
    BY <1>2, <1>4, <2>1 DEF Passes
<1>6. ASSUME t2 = t, u2 = u PROVE Matches(t2, u2, o, d, p)
  <2>1. \A r \in Nat : r > p => r > k
    BY <1>1
  <2> HIDE DEF t2, u2
  <2> QED
    BY <1>6, <2>1 DEF Matches
<1>7. CASE Passes(y, p, u)
  <2>1. t2 = t /\ u2 = u
    BY <1>1, <1>2, <1>5, <1>7, ScannedIs
  <2> QED
    BY <1>6, <2>1 DEF p, q
<1>8. CASE ~Passes(y, p, u)
  <2>1. p + 3 <= Len(y) /\ q + 3 <= Len(x)
    BY <1>1, <1>2, <1>5, <1>8, ScannedIs
  <2>2. /\ LastOf(x, q) = d + LastOf(y, p)
        /\ LastOf(y, p) <= Len(y) =>
             /\ Unsound(x, q) <=> Unsound(y, p)
             /\ OwnAt(x, q) = OwnAt(y, p)
    BY <1>1, <2>1, HeaderShift DEF q
  <2> DEFINE l == LastOf(y, p)
             m == LastOf(x, q)
  <2>3. l \in Nat /\ m \in Nat /\ (l <= Len(y) <=> m <= Len(x))
        /\ (l > Len(y) <=> m > Len(x)) /\ (l <= Len(y) \/ l > Len(y))
    BY <1>1, <2>1, <2>2, HeaderAt
  <2>4. u.free \in Nat /\ t.free \in Nat /\ u.own \in Seq(Command)
    BY <1>2 DEF Scan
  <2> HIDE DEF l, m, t2, u2
  <2>5. CASE l > Len(y)
    <3>1. /\ u2 = [free |-> u.free, waits |-> TRUE, own |-> u.own]
          /\ t2 = [free |-> t.free, waits |-> TRUE, own |-> t.own]
      BY <1>1, <1>2, <1>5, <1>8, <2>3, <2>5, ScannedIs DEF l, m, t2, u2
    <3>2. \A r \in Nat : r > p => r > k
      BY <1>1
    <3>3. \A r \in Nat : r > p => (r < u2.free <=> d + r < t2.free)
      BY <3>1, <3>2 DEF Matches
    <3>4. t2.waits = u2.waits /\ t2.own = Cat(o, u2.own)
      BY <1>2, <3>1
    <3>5. Matches(t2, u2, o, d, p)
      BY <1>3, <3>3, <3>4 DEF Matches
    <3> QED
      BY <3>5 DEF p, q, t2, u2
  <2>6. CASE l <= Len(y) /\ Unsound(y, p)
    <3>1. t2 = t /\ u2 = u
      BY <1>1, <1>2, <1>5, <1>8, <2>2, <2>3, <2>6, ScannedIs DEF l, m, t2, u2
    <3> QED
      BY <1>6, <3>1 DEF p, q, t2, u2
  <2>7. CASE l <= Len(y) /\ ~Unsound(y, p)
    <3>1. /\ u2 = [free |-> l + 1, waits |-> FALSE, own |-> Cat(u.own, OwnAt(y, p))]
          /\ t2 = [free |-> m + 1, waits |-> FALSE, own |-> Cat(t.own, OwnAt(x, q))]
      BY <1>1, <1>2, <1>5, <1>8, <2>2, <2>3, <2>7, ScannedIs DEF l, m, t2, u2, Cat
    <3>2. MessageAt(y, p) \in Command
      BY <1>1, <2>1, <2>7, MessageAtTypes DEF l
    <3>3. OwnAt(y, p) \in Seq(Command) /\ OwnAt(x, q) = OwnAt(y, p)
      BY <2>2, <2>7, <3>2 DEF OwnAt, l
    <3> DEFINE n == OwnAt(y, p)
    <3> HIDE DEF n
    <3>4. Cat(Cat(o, u.own), n) = Cat(o, Cat(u.own, n))
      BY <2>4, <3>3, CatMessages DEF n
    <3>5. m = d + l
      BY <2>2 DEF l, m
    <3>6. \A r \in Nat : r > p => (r < u2.free <=> d + r < t2.free)
      BY <2>3, <3>1, <3>5
    <3>7. t2.waits = u2.waits /\ t2.own = Cat(o, u2.own)
      BY <1>2, <3>1, <3>3, <3>4 DEF n
    <3>8. Matches(t2, u2, o, d, p)
      BY <1>3, <3>6, <3>7 DEF Matches
    <3> QED
      BY <3>8 DEF p, q, t2, u2
  <2> QED
    BY <2>3, <2>5, <2>6, <2>7
<1> QED
  BY <1>7, <1>8

LEMMA UnscannedIs ==
  Unscanned = [free |-> 1, waits |-> FALSE, own |-> <<>>] /\ Unscanned \in Scan
BY DEF Unscanned, Scan

LEMMA DeframeShift ==
  ASSUME NEW x \in Bytes, NEW y \in Bytes, NEW d \in Nat, From(x, y, d),
         NEW g, Scans(g, x), g[d] \in Scan, ~g[d].waits, g[d].free <= d + 1
  PROVE  Deframe(x) = Cat(g[d].own, Deframe(y))
<1>1. Len(y) \in Nat /\ Len(x) = d + Len(y)
  BY LenBytes DEF From
<1>2. PICK h : Scans(h, y)
  BY ScanOf
<1> DEFINE o == g[d].own
           S == {k \in Nat : k <= Len(y) => Matches(g[d + k], h[k], o, d, k)}
<1>3. o \in Seq(Command) /\ g[d].free \in Nat /\ g[d].waits = FALSE
  BY DEF Scan
<1>4. 0 \in S
  <2>1. h[0] = [free |-> 1, waits |-> FALSE, own |-> <<>>] /\ h[0] \in Scan
    BY <1>2, UnscannedIs DEF Scans
  <2>2. d + 0 = d /\ Cat(o, <<>>) = o
    BY <1>3, CatNone
  <2> HIDE DEF o
  <2>3. \A p \in Nat : p > 0 => ~(p < 1) /\ ~(d + p < g[d].free)
    BY <1>3
  <2>4. \A p \in Nat : p > 0 => (p < h[0].free <=> d + p < g[d].free)
    BY <2>1, <2>3
  <2>5. g[d].waits = h[0].waits /\ g[d].own = Cat(o, h[0].own)
    <3>1. h[0].own = <<>> /\ h[0].waits = FALSE
      BY <2>1
    <3>2. g[d].own = Cat(o, <<>>)
      BY <2>2 DEF o
    <3> QED
      BY <1>3, <3>1, <3>2
  <2>6. Matches(g[d], h[0], o, d, 0)
    BY <2>1, <2>4, <2>5 DEF Matches
  <2> QED
    BY <2>2, <2>6
<1>5. ASSUME NEW k \in Nat, k \in S PROVE k + 1 \in S
  <2> SUFFICES ASSUME k + 1 <= Len(y) PROVE Matches(g[d + (k + 1)], h[k + 1], o, d, k + 1)
    OBVIOUS
  <2>1. /\ k <= Len(y) /\ k \in 0 .. Len(y) - 1 /\ d + k \in 0 .. Len(x) - 1
        /\ d + (k + 1) = (d + k) + 1
    BY <1>1
  <2>2. Matches(g[d + k], h[k], o, d, k)
    BY <1>5, <2>1
  <2> HIDE DEF o
  <2>3. h[k + 1] = Scanned(y, k + 1, h[k])
    BY <1>2, <2>1 DEF Scans
  <2>4. g[(d + k) + 1] = Scanned(x, (d + k) + 1, g[d + k])
    BY <2>1 DEF Scans
  <2>5. Matches(Scanned(x, d + (k + 1), g[d + k]), Scanned(y, k + 1, h[k]),
                o, d, k + 1)
    BY <1>3, <2>1, <2>2, ScannedShift DEF o
  <2> QED
    BY <2>1, <2>3, <2>4, <2>5
<1> HIDE DEF S
<1>6. Nat \subseteq S
  BY <1>4, <1>5, Induct
<1>7. Matches(g[d + Len(y)], h[Len(y)], o, d, Len(y))
  <2>1. Len(y) \in S /\ Len(y) <= Len(y)
    BY <1>1, <1>6
  <2> QED
    BY <2>1 DEF S
<1> QED
  BY <1>1, <1>2, <1>7 DEF Matches, Scans

-------------------------------------------------------------------------------
(* Deframe finds what the turns of the loop find, whatever the bytes are.  *)

LEMMA DeframeTypes == ASSUME NEW s \in Bytes PROVE Deframe(s) \in Seq(Command)
<1>1. Len(s) \in Nat
  BY LenBytes
<1>2. PICK g : Scans(g, s)
  BY ScanOf
<1> DEFINE S == {k \in Nat : k <= Len(s) => g[k] \in Scan}
<1>3. 0 \in S
  BY <1>2, UnscannedIs DEF Scans
<1>4. ASSUME NEW k \in Nat, k \in S PROVE k + 1 \in S
  <2> SUFFICES ASSUME k + 1 <= Len(s) PROVE g[k + 1] \in Scan
    OBVIOUS
  <2>1. k \in 0 .. Len(s) - 1 /\ k <= Len(s) /\ k + 1 \in 1 .. Len(s)
    BY <1>1
  <2>2. g[k] \in Scan /\ g[k + 1] = Scanned(s, k + 1, g[k])
    BY <1>2, <1>4, <2>1 DEF Scans
  <2> QED
    BY <2>1, <2>2, ScannedTypes
<1> HIDE DEF S
<1>5. Nat \subseteq S
  BY <1>3, <1>4, Induct
<1>6. g[Len(s)] \in Scan
  <2>1. Len(s) \in S /\ Len(s) <= Len(s)
    BY <1>1, <1>5
  <2> QED
    BY <2>1 DEF S
<1> QED
  BY <1>2, <1>6 DEF Scans, Scan

(* The first bytes of c are those of c followed by t.                      *)
LEMMA PartOfCat ==
  ASSUME NEW c \in Bytes, NEW t \in Bytes, NEW a \in Nat \ {0}, NEW b \in Nat,
         b <= Len(c), a <= b + 1
  PROVE  SubSeq(Cat(c, t), a, b) = SubSeq(c, a, b)
<1> DEFINE x == Cat(c, t)
           u == SubSeq(x, a, b)
           v == SubSeq(c, a, b)
<1>1. /\ Len(c) \in Nat /\ Len(t) \in Nat /\ x \in Bytes /\ Len(x) = Len(c) + Len(t)
      /\ \A i \in 1 .. Len(c) : x[i] = c[i]
  BY LenBytes, CatAt
<1> HIDE DEF x
<1>2. b <= Len(x)
  BY <1>1
<1>3. /\ u \in Bytes /\ Len(u) = (b - a) + 1
      /\ \A i \in 1 .. (b - a) + 1 : u[i] = x[a + i - 1]
  BY <1>1, <1>2, PartBytes
<1>4. /\ v \in Bytes /\ Len(v) = (b - a) + 1
      /\ \A i \in 1 .. (b - a) + 1 : v[i] = c[a + i - 1]
  BY PartBytes
<1> HIDE DEF u, v
<1>5. ASSUME NEW i \in 1 .. (b - a) + 1 PROVE u[i] = v[i]
  <2>1. a + i - 1 \in 1 .. Len(c)
    BY <1>1
  <2> QED
    BY <1>1, <1>3, <1>4, <2>1
<1>6. u = v
  <2>1. u \in Seq(Byte) /\ v \in Seq(Byte) /\ Len(u) = Len(v)
    BY <1>3, <1>4 DEF Bytes
  <2> QED
    BY <1>3, <1>5, <2>1, SeqEqual
<1> QED
  BY <1>6 DEF u, v, x

(* What is left of c without its first d bytes, followed by t.             *)
LEMMA FromCat ==
  ASSUME NEW c \in Bytes, NEW t \in Bytes, NEW r \in Bytes, NEW d \in Nat, From(c, r, d)
  PROVE  From(Cat(c, t), Cat(r, t), d)
<1> DEFINE x == Cat(c, t)
           y == Cat(r, t)
<1>1. /\ Len(c) \in Nat /\ Len(t) \in Nat /\ Len(r) \in Nat /\ Len(c) = d + Len(r)
      /\ \A i \in 1 .. Len(r) : r[i] = c[d + i]
  BY LenBytes DEF From
<1>2. /\ Len(x) = Len(c) + Len(t)
      /\ \A i \in 1 .. Len(c) : x[i] = c[i]
      /\ \A i \in 1 .. Len(t) : x[Len(c) + i] = t[i]
  BY CatAt
<1>3. /\ Len(y) = Len(r) + Len(t)
      /\ \A i \in 1 .. Len(r) : y[i] = r[i]
      /\ \A i \in 1 .. Len(t) : y[Len(r) + i] = t[i]
  BY CatAt
<1> HIDE DEF x, y
<1>4. ASSUME NEW i \in 1 .. Len(y) PROVE y[i] = x[d + i]
  <2>1. CASE i <= Len(r)
    <3>1. i \in 1 .. Len(r) /\ d + i \in 1 .. Len(c)
      BY <1>1, <2>1
    <3> QED
      BY <1>1, <1>2, <1>3, <3>1
  <2>2. CASE ~(i <= Len(r))
    <3> DEFINE j == i - Len(r)
    <3>1. j \in 1 .. Len(t) /\ Len(r) + j = i /\ Len(c) + j = d + i
      BY <1>1, <1>3, <2>2
    <3> HIDE DEF j
    <3>2. y[Len(r) + j] = t[j] /\ x[Len(c) + j] = t[j]
      BY <1>2, <1>3, <3>1
    <3> QED
      BY <3>1, <3>2
  <2> QED
    BY <2>1, <2>2
<1> QED
  BY <1>1, <1>2, <1>3, <1>4 DEF From, x, y

(* What a scan makes of the first byte, when c has arrived.                *)
LEMMA FirstScanned ==
  ASSUME NEW c \in Bytes, NEW t \in Bytes, ~Incomplete(c)
  PROVE  LET x == Cat(c, t)
             n == Scanned(x, 1, Unscanned)
         IN  /\ ~Valid(c) => n = Unscanned
             /\ Valid(c) =>
                  n = [free  |-> SizeOf(c) + 1, waits |-> FALSE,
                       own   |-> IF c[2] = DeviceId THEN <<Message(c)>> ELSE <<>>]
<1> DEFINE x == Cat(c, t)
           z == SizeOf(c)
           n == Scanned(x, 1, Unscanned)
<1>1. /\ Len(c) \in Nat /\ Len(c) >= 4 /\ c[1] \in Byte /\ c[2] \in Byte /\ c[3] \in Nat
      /\ c[1] = StartByte => z \in 4 .. Len(c)
  BY WholeFrame
<1>2. /\ x \in Bytes /\ Len(x) \in Nat /\ Len(x) >= Len(c) /\ 1 \in 1 .. Len(x)
      /\ x[1] = c[1] /\ x[2] = c[2] /\ x[3] = c[3]
  <2>1. /\ x \in Bytes /\ Len(x) = Len(c) + Len(t) /\ Len(t) \in Nat
        /\ \A i \in 1 .. Len(c) : x[i] = c[i]
    BY LenBytes, CatAt
  <2> HIDE DEF x
  <2>2. 1 \in 1 .. Len(c) /\ 2 \in 1 .. Len(c) /\ 3 \in 1 .. Len(c)
    BY <1>1
  <2> QED
    BY <1>1, <2>1, <2>2
<1>3. z = 4 + c[3] /\ LastOf(x, 1) = 1 + (4 + x[3]) - 1
  BY DEF SizeOf, LastOf
<1>4. LastOf(x, 1) = z /\ z \in Nat
  BY <1>1, <1>2, <1>3
<1>5. /\ Unscanned \in Scan /\ Unscanned.free = 1
      /\ Unscanned.waits = FALSE /\ Unscanned.own = <<>>
  BY UnscannedIs
<1> HIDE DEF x, z
<1>6. Passes(x, 1, Unscanned) <=> c[1] # StartByte
  BY <1>1, <1>2, <1>5 DEF Passes
<1>7. CASE c[1] # StartByte
  <2>1. n = Unscanned
    BY <1>2, <1>5, <1>6, <1>7, ScannedIs
  <2> QED
    BY <1>7, <2>1 DEF Valid, x
<1>8. CASE c[1] = StartByte
  <2>1. z \in 4 .. Len(c) /\ LastOf(x, 1) <= Len(x)
    BY <1>1, <1>2, <1>4, <1>8
  <2> DEFINE b == SubSeq(c, 2, z - 1)
  <2>2. Unsound(x, 1) <=> ~ChecksumOk(c)
    <3>1. z - 1 \in Nat /\ z - 1 <= Len(c) /\ 2 <= (z - 1) + 1 /\ z <= Len(c) /\ 2 <= z + 1
          /\ 2 \in Nat \ {0} /\ z \in 1 .. Len(c)
      BY <1>1, <2>1
    <3>2. SubSeq(x, 2, z) = SubSeq(c, 2, z)
      BY <1>4, <3>1, PartOfCat DEF x
    <3>3. SubSeq(c, 2, z) = Append(b, c[z])
      BY <3>1, SubSeqRecursiveSecond DEF Bytes
    <3>4. b \in Seq(Byte) /\ c[z] \in Byte
      BY <3>1, PartBytes DEF Bytes
    <3> HIDE DEF b
    <3>5. Checksum(SubSeq(x, 2, z)) = XorOf[<<Checksum(b), c[z]>>]
      BY <3>2, <3>3, <3>4, ChecksumAppend
    <3>6. XorOf[<<Checksum(b), c[z]>>] = 0 <=> Checksum(b) = c[z]
      BY <3>4, ChecksumByte, XorSelf
    <3>7. ChecksumOk(c) <=> Checksum(b) = c[z]
      BY DEF ChecksumOk, b, z
    <3> QED
      BY <1>4, <3>5, <3>6, <3>7 DEF Unsound
  <2>3. ASSUME ~Valid(c) PROVE n = Unscanned
    <3>1. Unsound(x, 1)
      BY <1>8, <2>2, <2>3 DEF Valid
    <3> QED
      BY <1>2, <1>5, <1>6, <1>8, <2>1, <3>1, ScannedIs
  <2>4. ASSUME Valid(c)
        PROVE  n = [free |-> z + 1, waits |-> FALSE,
                    own  |-> IF c[2] = DeviceId THEN <<Message(c)>> ELSE <<>>]
    <3>1. ~Unsound(x, 1)
      BY <2>2, <2>4 DEF Valid
    <3>2. n = [free |-> LastOf(x, 1) + 1, waits |-> FALSE,
               own |-> Cat(Unscanned.own, OwnAt(x, 1))]
      BY <1>2, <1>5, <1>6, <1>8, <2>1, <3>1, ScannedIs DEF Cat
    <3>3. SubSeq(x, 1, Len(x)) = x
      BY <1>2, SubSeqFull DEF Bytes
    <3>4. Message(x) = Message(c)
      <4>1. z - 1 \in Nat /\ z - 1 <= Len(c) /\ 4 <= (z - 1) + 1 /\ 4 \in Nat \ {0}
        BY <1>1, <2>1
      <4>2. SubSeq(x, 4, z - 1) = SubSeq(c, 4, z - 1)
        BY <4>1, PartOfCat DEF x
      <4>3. SizeOf(x) = z
        BY <1>2, <1>3 DEF SizeOf
      <4> QED
        BY <4>2, <4>3 DEF Message, z
    <3>5. OwnAt(x, 1) = IF c[2] = DeviceId THEN <<Message(c)>> ELSE <<>>
      <4>1. MessageAt(x, 1) = Message(c)
        BY <3>3, <3>4, Zenon DEF MessageAt
      <4>2. x[1 + 1] = c[2]
        BY <1>2
      <4> QED
        BY <4>1, <4>2 DEF OwnAt
    <3>6. Message(c) \in Command
      BY <2>1, MessageWords DEF z
    <3>7. OwnAt(x, 1) \in Seq(Command)
      <4>1. <<Message(c)>> \in Seq(Command) /\ <<>> \in Seq(Command)
        BY <3>6
      <4> QED
        BY <3>5, <4>1, Zenon
    <3>8. Cat(Unscanned.own, OwnAt(x, 1)) = OwnAt(x, 1)
      BY <1>5, <3>7, CatNone
    <3> QED
      BY <1>4, <3>2, <3>5, <3>8
  <2> QED
    BY <2>3, <2>4 DEF x, z
<1> QED
  BY <1>7, <1>8

(* A byte that starts no frame can be dropped.                             *)
LEMMA DropByte ==
  ASSUME NEW c \in Bytes, NEW t \in Bytes, ~Incomplete(c), ~Valid(c)
  PROVE  Deframe(Cat(c, t)) = Deframe(Cat(Tail(c), t))
<1> DEFINE x == Cat(c, t)
           y == Cat(Tail(c), t)
<1>1. Len(c) \in Nat /\ Len(c) >= 4 /\ c # <<>>
  BY WholeFrame
<1>2. Tail(c) \in Bytes /\ From(c, Tail(c), 1)
  <2>1. /\ Tail(c) \in Seq(Byte) /\ Len(Tail(c)) = Len(c) - 1
        /\ \A i \in 1 .. Len(Tail(c)) : Tail(c)[i] = c[i + 1]
    BY <1>1, HeadTailProperties DEF Bytes
  <2> DEFINE r == Tail(c)
  <2> HIDE DEF r
  <2>2. r \in Seq(Byte) /\ Len(r) = Len(c) - 1 /\ \A i \in 1 .. Len(r) : r[i] = c[i + 1]
    BY <2>1 DEF r
  <2>3. \A i \in 1 .. Len(r) : i + 1 = 1 + i
    OBVIOUS
  <2>4. Len(c) = 1 + Len(r)
    BY <1>1, <2>2
  <2>5. r \in Bytes /\ From(c, r, 1)
    BY <2>2, <2>3, <2>4 DEF From, Bytes
  <2> QED
    BY <2>5 DEF r
<1>3. x \in Bytes /\ y \in Bytes /\ From(x, y, 1)
  BY <1>2, CatAt, FromCat
<1>4. Scanned(x, 1, Unscanned) = Unscanned
  BY FirstScanned
<1> HIDE DEF x, y
<1>5. PICK g : Scans(g, x)
  BY <1>3, ScanOf
<1>6. 0 \in 0 .. Len(x) - 1 /\ 0 + 1 = 1
  BY <1>3, LenBytes DEF From
<1>7. g[1] = Unscanned
  <2>1. g[0 + 1] = Scanned(x, 0 + 1, g[0]) /\ g[0] = Unscanned
    BY <1>5, <1>6 DEF Scans
  <2> QED
    BY <1>4, <1>6, <2>1
<1>8. /\ g[1] \in Scan /\ ~g[1].waits /\ g[1].own = <<>> /\ g[1].free = 1
  BY <1>7, UnscannedIs
<1>9. Deframe(x) = Cat(<<>>, Deframe(y))
  <2>1. g[1].free <= 1 + 1
    BY <1>8
  <2>2. Deframe(x) = Cat(g[1].own, Deframe(y))
    BY <1>3, <1>5, <1>8, <2>1, DeframeShift
  <2> QED
    BY <1>8, <2>2
<1> QED
  BY <1>3, <1>9, DeframeTypes, CatNone DEF x, y

(* A valid frame can be taken out, with its message.                       *)
LEMMA TakeFrame ==
  ASSUME NEW c \in Bytes, NEW t \in Bytes, ~Incomplete(c), Valid(c)
  PROVE  Deframe(Cat(c, t))
           = Cat(IF c[2] = DeviceId THEN <<Message(c)>> ELSE <<>>,
                 Deframe(Cat(After(c), t)))
<1> DEFINE x == Cat(c, t)
           y == Cat(After(c), t)
           z == SizeOf(c)
           o == IF c[2] = DeviceId THEN <<Message(c)>> ELSE <<>>
<1>1. Len(c) \in Nat /\ z \in 4 .. Len(c)
  BY WholeFrame DEF Valid
<1>2. o \in Seq(Command)
  <2>1. Message(c) \in Command
    BY <1>1, MessageWords
  <2> QED
    BY <2>1
<1>3. Scanned(x, 1, Unscanned) = [free |-> z + 1, waits |-> FALSE, own |-> o]
  BY FirstScanned
<1> HIDE DEF z, o
<1>4. After(c) \in Bytes /\ From(c, After(c), z)
  <2> DEFINE r == After(c)
  <2>1. /\ z + 1 \in Nat \ {0} /\ Len(c) <= Len(c) /\ z + 1 <= Len(c) + 1 /\ z \in Nat
        /\ \A i \in Nat : (z + 1) + i - 1 = z + i
    BY <1>1
  <2>2. r = SubSeq(c, z + 1, Len(c))
    BY DEF After, z
  <2>3. /\ SubSeq(c, z + 1, Len(c)) \in Bytes
        /\ Len(SubSeq(c, z + 1, Len(c))) = (Len(c) - (z + 1)) + 1
        /\ \A i \in 1 .. (Len(c) - (z + 1)) + 1 :
             SubSeq(c, z + 1, Len(c))[i] = c[(z + 1) + i - 1]
    BY <1>1, <2>1, PartBytes
  <2> HIDE DEF r
  <2>4. /\ r \in Bytes /\ Len(r) = (Len(c) - (z + 1)) + 1
        /\ \A i \in 1 .. Len(r) : r[i] = c[(z + 1) + i - 1]
    BY <2>2, <2>3
  <2>5. Len(c) = z + Len(r)
    BY <1>1, <2>4
  <2>6. \A i \in 1 .. Len(r) : r[i] = c[z + i]
    BY <2>1, <2>4
  <2>7. r \in Bytes /\ From(c, r, z)
    BY <2>4, <2>5, <2>6 DEF From
  <2> QED
    BY <2>7 DEF r
<1>5. x \in Bytes /\ y \in Bytes /\ From(x, y, z)
  <2>1. z \in Nat
    BY <1>1
  <2> QED
    BY <1>4, <2>1, CatAt, FromCat
<1> HIDE DEF x, y
<1>6. PICK g : Scans(g, x)
  BY <1>5, ScanOf
<1>7. Len(x) \in Nat /\ Len(y) \in Nat /\ Len(x) = z + Len(y) /\ z \in Nat
  BY <1>1, <1>5, LenBytes DEF From
<1> DEFINE u == [free |-> z + 1, waits |-> FALSE, own |-> o]
           S == {k \in Nat : k + 1 <= z => g[k + 1] = u}
<1>8. u \in Scan /\ u.free = z + 1 /\ u.waits = FALSE /\ u.own = o
  BY <1>2, <1>7 DEF Scan
<1> HIDE DEF u
<1>9. 0 \in S
  <2>1. 0 \in 0 .. Len(x) - 1 /\ 0 + 1 = 1
    BY <1>1, <1>7
  <2>2. g[0 + 1] = Scanned(x, 0 + 1, g[0]) /\ g[0] = Unscanned
    BY <1>6, <2>1 DEF Scans
  <2> QED
    BY <1>3, <2>1, <2>2 DEF u
<1>10. ASSUME NEW k \in Nat, k \in S PROVE k + 1 \in S
  <2> SUFFICES ASSUME (k + 1) + 1 <= z PROVE g[(k + 1) + 1] = u
    OBVIOUS
  <2>1. /\ k + 1 <= z /\ k + 1 \in 0 .. Len(x) - 1 /\ (k + 1) + 1 \in 1 .. Len(x)
        /\ (k + 1) + 1 < z + 1
    BY <1>1, <1>7
  <2>2. g[k + 1] = u
    BY <1>10, <2>1
  <2>3. g[(k + 1) + 1] = Scanned(x, (k + 1) + 1, g[k + 1])
    BY <1>6, <2>1 DEF Scans
  <2>4. Passes(x, (k + 1) + 1, u)
    BY <1>8, <2>1 DEF Passes
  <2> QED
    BY <1>5, <1>8, <2>1, <2>2, <2>3, <2>4, ScannedIs
<1> HIDE DEF S
<1>11. Nat \subseteq S
  BY <1>9, <1>10, Induct
<1>12. g[z] = u
  <2>1. z - 1 \in Nat /\ (z - 1) + 1 = z /\ z <= z
    BY <1>1
  <2>2. z - 1 \in S
    BY <1>11, <2>1
  <2> QED
    BY <2>1, <2>2 DEF S
<1>13. Deframe(x) = Cat(o, Deframe(y))
  <2>1. g[z] \in Scan /\ ~g[z].waits /\ g[z].free <= z + 1 /\ g[z].own = o
    BY <1>7, <1>8, <1>12
  <2>2. Deframe(x) = Cat(g[z].own, Deframe(y))
    BY <1>5, <1>6, <1>7, <2>1, DeframeShift
  <2> QED
    BY <2>1, <2>2
<1> QED
  BY <1>13 DEF x, y, o

(* What has been found so far and what the rest holds make up r.           *)
Finds(t, r) ==
  {p \in [out : Seq(Command), rest : Bytes] :
     Cat(p.out, Deframe(Cat(p.rest, t))) = r}

LEMMA TurnFinds ==
  ASSUME NEW t \in Bytes, NEW r, NEW p \in Finds(t, r)
  PROVE  Turn[p] \in Finds(t, r)
<1> DEFINE c == p.rest
           o == p.out
<1>1. /\ p \in [out : Seq(Command), rest : Bytes] /\ o \in Seq(Command) /\ c \in Bytes
      /\ Cat(o, Deframe(Cat(c, t))) = r
  BY DEF Finds
<1>2. CASE Over(p)
  BY <1>1, <1>2, TurnIs
<1>3. CASE ~Over(p)
  <2>1. ~Incomplete(c)
    BY <1>3 DEF Over
  <2>2. Turn[p] \in [out : Seq(Command), rest : Bytes]
    BY <1>1, TurnTypes
  <2> DEFINE q == Turn[p]
  <2>3. SUFFICES Cat(q.out, Deframe(Cat(q.rest, t))) = r
    BY <2>2 DEF Finds
  <2>4. CASE ~Valid(c)
    <3> HIDE DEF o, c
    <3>1. q = [out |-> o, rest |-> Tail(c)]
      BY <1>1, <1>3, <2>4, TurnIs DEF o, c
    <3> HIDE DEF q
    <3>2. q.out = o /\ q.rest = Tail(c)
      BY <3>1
    <3> QED
      BY <1>1, <2>1, <2>4, <3>2, DropByte
  <2>5. CASE Valid(c)
    <3> DEFINE m == IF c[2] = DeviceId THEN <<Message(c)>> ELSE <<>>
               d == Deframe(Cat(After(c), t))
    <3> HIDE DEF o, c
    <3>1. q.rest = After(c)
          /\ q.out = IF c[2] = DeviceId THEN Append(o, Message(c)) ELSE o
      <4>1. c[2] # DeviceId => q = [out |-> o, rest |-> After(c)]
        BY <1>1, <1>3, <2>5, TurnIs DEF o, c
      <4>2. c[2] = DeviceId =>
              q = [out |-> Append(o, Message(c)), rest |-> After(c)]
        BY <1>1, <1>3, <2>5, TurnIs DEF o, c
      <4> HIDE DEF q
      <4>3. CASE c[2] = DeviceId
        <5> DEFINE a == Append(o, Message(c))
        <5>1. q = [out |-> a, rest |-> After(c)]
          BY <4>2, <4>3
        <5> HIDE DEF a
        <5>2. q.rest = After(c) /\ q.out = a
          BY <5>1
        <5> QED
          BY <4>3, <5>2 DEF a
      <4>4. CASE c[2] # DeviceId
        <5>1. q.rest = After(c) /\ q.out = o
          BY <4>1, <4>4
        <5> QED
          BY <4>4, <5>1
      <4> QED
        BY <4>3, <4>4
    <3> HIDE DEF q
    <3>2. Message(c) \in Command
      <4>1. SizeOf(c) \in 4 .. Len(c)
        BY <1>1, <2>1, <2>5, WholeFrame DEF Valid
      <4> QED
        BY <1>1, <4>1, MessageWords
    <3>3. m \in Seq(Command)
      <4>1. <<Message(c)>> \in Seq(Command) /\ <<>> \in Seq(Command)
        BY <3>2
      <4> QED
        BY <4>1, Zenon
    <3>4. q.out = Cat(o, m)
      <4>1. Append(o, Message(c)) = Cat(o, <<Message(c)>>)
        BY <1>1, <3>2 DEF Cat
      <4>2. o = Cat(o, <<>>)
        BY <1>1, CatNone
      <4> QED
        BY <3>1, <4>1, <4>2
    <3>5. d \in Seq(Command)
      <4>1. After(c) \in Bytes
        BY <2>2, <3>1 DEF q
      <4> QED
        BY <4>1, CatAt, DeframeTypes
    <3>6. Deframe(Cat(c, t)) = Cat(m, d)
      BY <1>1, <2>1, <2>5, TakeFrame
    <3> HIDE DEF m, d
    <3>7. Cat(Cat(o, m), d) = Cat(o, Cat(m, d))
      BY <1>1, <3>3, <3>5, CatMessages
    <3> QED
      BY <1>1, <3>1, <3>4, <3>6, <3>7 DEF d
  <2> QED
    BY <2>4, <2>5
<1> QED
  BY <1>2, <1>3

LEMMA ParseFinds ==
  ASSUME NEW s \in Bytes, NEW t \in Bytes
  PROVE  /\ Parse(s) \in [out : Seq(Command), rest : Bytes]
         /\ Deframe(Cat(s, t))
              = Cat(Parse(s).out, Deframe(Cat(Parse(s).rest, t)))
<1> DEFINE r == Deframe(Cat(s, t))
           start == [out |-> <<>>, rest |-> s]
<1>1. r \in Seq(Command)
  BY CatAt, DeframeTypes
<1>2. start \in Finds(t, r)
  <2>1. start \in [out : Seq(Command), rest : Bytes] /\ start.out = <<>> /\ start.rest = s
    OBVIOUS
  <2>2. Cat(<<>>, r) = r
    BY <1>1, CatNone
  <2> HIDE DEF start
  <2> QED
    BY <2>1, <2>2 DEF Finds
<1> HIDE DEF r
<1>3. \A p \in Finds(t, r) : Turn[p] \in Finds(t, r)
  BY TurnFinds
<1>4. Parse(s) \in Finds(t, r)
  BY <1>2, <1>3, LoopRule
<1> QED
  BY <1>4 DEF Finds, r

(* Bytes that are no frame yet hold none.                                  *)
LEMMA PartHoldsNone ==
  ASSUME NEW s \in Bytes, Incomplete(s)
  PROVE  Deframe(s) = <<>> /\ Len(s) < MaxFrameLen
<1>1. Len(s) \in Nat
  BY LenBytes
<1>2. PICK g : Scans(g, s)
  BY ScanOf
<1>3. Len(s) >= 4 =>
        /\ s[1] = StartByte /\ s[3] \in Nat /\ s[3] <= Base - 1
        /\ Len(s) < 4 + s[3] /\ LastOf(s, 1) = 4 + s[3] /\ 1 \in 1 .. Len(s) /\ 1 + 3 <= Len(s)
  <2> SUFFICES ASSUME Len(s) >= 4
               PROVE  /\ s[1] = StartByte /\ s[3] \in Nat /\ s[3] <= Base - 1
                      /\ Len(s) < 4 + s[3] /\ LastOf(s, 1) = 4 + s[3]
                      /\ 1 \in 1 .. Len(s) /\ 1 + 3 <= Len(s)
    OBVIOUS
  <2>1. s[1] = StartByte /\ Len(s) < 4 + s[3]
    BY <1>1 DEF Incomplete, SizeOf
  <2>2. 3 \in 1 .. Len(s) /\ 1 \in 1 .. Len(s) /\ 1 + 3 <= Len(s)
    BY <1>1
  <2>3. s[3] \in Byte
    BY <2>2 DEF Bytes
  <2>4. s[3] \in Nat /\ s[3] <= Base - 1
    BY <2>3, BaseFacts
  <2>5. LastOf(s, 1) = 1 + (4 + s[1 + 2]) - 1 /\ 1 + 2 = 3
    BY DEF LastOf
  <2> QED
    BY <2>1, <2>2, <2>4, <2>5
<1> DEFINE None(u, k) ==
             /\ u \in Scan /\ u.own = <<>>
             /\ u.waits \/ (u.free = 1 /\ (k = 0 \/ Len(s) < 4))
           S == {k \in Nat : k <= Len(s) => None(g[k], k)}
<1>4. 0 \in S
  <2>1. g[0] = Unscanned
    BY <1>2 DEF Scans
  <2> QED
    BY <2>1, UnscannedIs
<1>5. ASSUME NEW k \in Nat, k \in S PROVE k + 1 \in S
  <2> SUFFICES ASSUME k + 1 <= Len(s) PROVE None(g[k + 1], k + 1)
    OBVIOUS
  <2>1. k \in 0 .. Len(s) - 1 /\ k <= Len(s) /\ k + 1 \in 1 .. Len(s)
    BY <1>1
  <2> DEFINE u == g[k]
             p == k + 1
             v == Scanned(s, p, u)
  <2>2. None(u, k) /\ g[k + 1] = v
    BY <1>2, <1>5, <2>1 DEF Scans
  <2>3. CASE u.waits \/ Len(s) < 4
    <3>1. Passes(s, p, u)
      BY <1>1, <2>1, <2>3 DEF Passes
    <3>2. v = u
      BY <2>1, <2>2, <3>1, ScannedIs
    <3> QED
      BY <2>2, <2>3, <3>2
  <2>4. CASE ~u.waits /\ ~(Len(s) < 4)
    <3>1. k = 0 /\ p = 1 /\ u.free = 1 /\ u.waits = FALSE /\ Len(s) >= 4
      BY <1>1, <2>2, <2>4 DEF Scan
    <3>2. ~Passes(s, 1, u) /\ LastOf(s, 1) > Len(s)
      BY <1>1, <1>3, <3>1 DEF Passes
    <3>3. v = [free |-> u.free, waits |-> TRUE, own |-> u.own]
      BY <2>1, <2>2, <3>1, <3>2, ScannedIs
    <3>4. u.free \in Nat /\ u.own \in Seq(Command) /\ u.own = <<>>
      BY <2>2 DEF Scan
    <3>5. v \in Scan /\ v.own = <<>> /\ v.waits
      <4> HIDE DEF u, v
      <4> QED
        BY <3>3, <3>4 DEF Scan
    <3> QED
      BY <2>2, <3>5
  <2> QED
    BY <2>3, <2>4
<1>6. Nat \subseteq S
  <2> HIDE DEF S
  <2> QED
    BY <1>4, <1>5, Induct
<1>7. Len(s) \in S /\ Len(s) <= Len(s)
  BY <1>1, <1>6
<1>8. g[Len(s)].own = <<>>
  BY <1>7
<1>9. Len(s) < MaxFrameLen
  BY <1>1, <1>3, BaseFacts DEF MaxFrameLen
<1> QED
  BY <1>2, <1>8, <1>9 DEF Scans

-------------------------------------------------------------------------------
(* Any way to cut the bytes into reads, and any bytes.                     *)

(* README 4.4, for every way the reads can cut the bytes up and whatever   *)
(* damage they have: an update publishes, in order, messages that a scan   *)
(* of the uncut stream finds, and leaves the ones it finds in the rest.    *)
THEOREM AnyChunks == BridgeSpec => ChunkingIndependent
<1>1. ASSUME BridgeInv, [BridgeNext]_bridgeVars
      PROVE  [FindsTheSame]_bridgeVars
  <2> SUFFICES ASSUME Reads
               PROVE  Deframe(rxBuffer \o kernel)
                        = out' \o Deframe(rxBuffer' \o kernel')
    BY DEF FindsTheSame
  <2>1. PICK n \in DOMAIN kernel : Update(n)
    BY DEF Reads
  <2>2. PICK s \in Bytes :
          /\ rxBuffer' = Parse(s).rest /\ out' = Parse(s).out
          /\ kernel' \in Bytes /\ Cat(s, kernel') = Cat(rxBuffer, kernel)
    BY <1>1, <2>1, UpdateFacts
  <2>3. Deframe(Cat(s, kernel'))
          = Cat(Parse(s).out, Deframe(Cat(Parse(s).rest, kernel')))
    BY <2>2, ParseFinds
  <2>4. Deframe(Cat(rxBuffer, kernel))
          = Cat(out', Deframe(Cat(rxBuffer', kernel')))
    BY <2>2, <2>3
  <2> QED
    BY <2>4 DEF Cat
<1>2. BridgeInv /\ [BridgeNext]_bridgeVars => [FindsTheSame]_bridgeVars
  BY <1>1
<1> QED
  BY <1>2, BridgeInvariant, PTL DEF BridgeSpec, ChunkingIndependent

-------------------------------------------------------------------------------
(* What an update leaves in rx_buffer_.                                    *)

BridgeRest == BridgeInv /\ WithheldAtLimit

LEMMA RestInit == ASSUME BridgeInit PROVE BridgeRest
<1>1. rxBuffer = <<>>
  BY DEF BridgeInit
<1>2. <<>> \in Bytes /\ Incomplete(<<>>)
  BY DEF Bytes, Incomplete
<1> QED
  BY <1>1, <1>2, InitBridge, PartHoldsNone DEF BridgeRest, WithheldAtLimit

LEMMA RestStep ==
  ASSUME BridgeRest, [BridgeNext]_bridgeVars PROVE BridgeRest'
<1>1. BridgeInv /\ BridgeInv'
  BY BridgeStep DEF BridgeRest
<1>2. CASE UNCHANGED <<rxBuffer, out>>
  BY <1>1, <1>2 DEF BridgeRest, WithheldAtLimit
<1>3. ASSUME NEW w \in Feedback, Reopen(w) PROVE BridgeRest'
  <2>1. rxBuffer' = <<>>
    BY <1>3 DEF Reopen
  <2>2. <<>> \in Bytes /\ Incomplete(<<>>)
    BY DEF Bytes, Incomplete
  <2> QED
    BY <1>1, <2>1, <2>2, PartHoldsNone DEF BridgeRest, WithheldAtLimit
<1>4. ASSUME NEW n \in DOMAIN kernel, Update(n) PROVE BridgeRest'
  <2>1. PICK s \in Bytes :
          rxBuffer' = Parse(s).rest /\ out' = Parse(s).out
    BY <1>1, <1>4, UpdateFacts
  <2>2. rxBuffer' \in Bytes /\ out' \in Seq(Command)
    <3>1. <<>> \in Bytes
      BY DEF Bytes
    <3> QED
      BY <2>1, <3>1, ParseFinds
  <2>3. Len(out') = MaxFrames \/ Incomplete(rxBuffer')
    BY <2>1, LoopEnds DEF Over, Spent
  <2>4. ASSUME Len(out') < MaxFrames
        PROVE  Deframe(rxBuffer') = <<>> /\ Len(rxBuffer') < MaxFrameLen
    <3>1. Len(out') # MaxFrames
      BY <2>2, <2>4, BridgeSizes
    <3> QED
      BY <2>2, <2>3, <3>1, PartHoldsNone
  <2> QED
    BY <1>1, <2>4 DEF BridgeRest, WithheldAtLimit
<1> QED
  BY <1>2, <1>3, <1>4
     DEF BridgeNext, Reads, Send, SendGarbled, bridgeVars

(* bridge_node.cpp:194: an update that has published less than MAX_FRAMES  *)
(* messages leaves no complete frame behind, and less than the longest one *)
(* there can be, whatever has arrived.                                     *)
THEOREM WithheldOnlyAtLimit ==
  BridgeSpec => []WithheldAtLimit
<1>1. BridgeInit => BridgeRest
  BY RestInit
<1>2. BridgeRest /\ [BridgeNext]_bridgeVars => BridgeRest'
  BY RestStep
<1>3. BridgeRest => WithheldAtLimit
  BY DEF BridgeRest
<1> QED
  BY <1>1, <1>2, <1>3, PTL DEF BridgeSpec

(* Until there is damage the limit is out of reach, if a read cannot bring *)
(* that many frames.                                                       *)
BridgeRoom ==
  /\ BridgeRest
  /\ harm = 0 => Len(out) < MaxFrames /\ Len(rxBuffer) < FrameLen

LEMMA RoomInit ==
  ASSUME TurnsSuffice, BridgeInit PROVE BridgeRoom
<1>1. rxBuffer = <<>> /\ out = <<>>
  BY DEF BridgeInit
<1>2. 0 < MaxFrames /\ 0 < FrameLen
  <2> DEFINE F == FrameLen
  <2>1. F \in Nat \ {0}
    BY FrameLenIs, SizeFacts
  <2>2. MaxFrames \in Nat /\ ReadSize \in Nat /\ ReadSize + F <= MaxFrames * F
    BY BridgeSizes DEF TurnsSuffice
  <2> HIDE DEF F
  <2>3. MaxFrames # 0
    BY <2>1, <2>2
  <2> QED
    BY <2>1, <2>2, <2>3 DEF F
<1> QED
  BY <1>1, <1>2, RestInit DEF BridgeRoom

LEMMA RoomStep ==
  ASSUME TurnsSuffice, BridgeRoom, [BridgeNext]_bridgeVars
  PROVE  BridgeRoom'
<1>1. BridgeRest' /\ BridgeInv
  BY RestStep DEF BridgeRoom, BridgeRest
<1>2. CASE UNCHANGED <<rxBuffer, out, harm>>
  BY <1>1, <1>2 DEF BridgeRoom
<1>3. ASSUME NEW w \in Feedback, SendGarbled(w) \/ Reopen(w)
      PROVE  BridgeRoom'
  <2>1. harm' = harm + 1 /\ harm \in Nat
    <3>1. harm' = harm + 1
      BY <1>3 DEF SendGarbled, Reopen
    <3>2. harm \in 0 .. MaxDamage /\ MaxDamage \in Nat
      BY <1>1, BridgeTypes, BridgeSizes DEF BridgeInv
    <3> QED
      BY <3>1, <3>2
  <2>2. harm' # 0
    BY <2>1
  <2> QED
    BY <1>1, <2>2 DEF BridgeRoom
<1>4. ASSUME NEW n \in DOMAIN kernel, Update(n) PROVE BridgeRoom'
  <2>1. PICK s \in Bytes :
          /\ rxBuffer' = Parse(s).rest /\ out' = Parse(s).out
          /\ kernel' \in Bytes /\ Cat(s, kernel') = Cat(rxBuffer, kernel)
          /\ Len(s) = Len(rxBuffer) + n /\ n \in Nat /\ n <= ReadSize
          /\ harm' = harm
    BY <1>1, <1>4, UpdateFacts
  <2>2. SUFFICES ASSUME harm = 0
                 PROVE  Len(out') < MaxFrames /\ Len(rxBuffer') < FrameLen
    BY <1>1, <2>1 DEF BridgeRoom
  <2>3. /\ sent \in Seq(Command) /\ rxBuffer \in Bytes
        /\ Cat(s, kernel') = FlattenSeq(FramesOf(sent))
    <3>1. sent \in Seq(Feedback) /\ rxBuffer \in Bytes
      BY <1>1, BridgeTypes DEF BridgeInv
    <3> QED
      BY <1>1, <2>1, <2>2, <3>1, BridgeSizes, SeqMonotonic DEF BridgeInv
  <2>4. Parse(s) \in OfStream(sent, kernel', Len(s))
    BY <2>1, <2>3, ParseOfStream
  <2> DEFINE j == Len(out')
             F == FrameLen
             c == rxBuffer'
  <2>5. /\ c \in Bytes /\ out' \in Seq(Command) /\ j <= Len(sent)
        /\ Cat(c, kernel') = FlattenSeq(FramesOf(Left(sent, j)))
        /\ Len(s) = j * F + Len(c)
    BY <2>1, <2>4 DEF OfStream
  <2>6. j < MaxFrames
    <3>1. /\ F \in Nat \ {0} /\ j \in Nat /\ Len(c) \in Nat /\ Len(rxBuffer) \in Nat
          /\ MaxFrames \in Nat /\ ReadSize \in Nat
      BY <2>3, <2>5, FrameLenIs, SizeFacts, LenBytes, BridgeSizes
    <3>2. ReadSize + F <= MaxFrames * F /\ Len(rxBuffer) < F
      BY <2>2 DEF TurnsSuffice, BridgeRoom
    <3>3. Len(s) = Len(rxBuffer) + n /\ n <= ReadSize /\ n \in Nat /\ Len(s) = j * F + Len(c)
      BY <2>1, <2>5
    <3> HIDE DEF F, j, c
    <3>4. j * F < MaxFrames * F
      <4> DEFINE u == j * F
                 v == MaxFrames * F
      <4>1. u \in Nat /\ v \in Nat
        BY <3>1
      <4>2. ReadSize + F <= v /\ Len(s) = u + Len(c)
        BY <3>2, <3>3
      <4> HIDE DEF u, v
      <4>3. u < v
        BY <3>1, <3>2, <3>3, <4>1, <4>2
      <4> QED
        BY <4>3 DEF u, v
    <3>5. MaxFrames <= j => MaxFrames * F <= j * F
      BY <3>1
    <3> QED
      BY <3>1, <3>4, <3>5
  <2>7. Incomplete(c)
    <3>1. j = MaxFrames \/ Incomplete(c)
      BY <2>1, LoopEnds DEF Over, Spent
    <3>2. j \in Nat /\ MaxFrames \in Nat
      BY <2>5, BridgeSizes
    <3> HIDE DEF j, c
    <3> QED
      BY <2>6, <3>1, <3>2
  <2>8. Left(sent, j) \in Seq(Command)
    <3>1. j \in 0 .. Len(sent)
      BY <2>3, <2>5
    <3> QED
      BY <2>3, <3>1, LeftFacts
  <2>9. Len(c) < F
    <3> DEFINE q == Left(sent, j)
    <3> HIDE DEF q, c, j
    <3>1. q \in Seq(Command) /\ Cat(c, kernel') = FlattenSeq(FramesOf(q))
      BY <2>5, <2>8 DEF q
    <3>2. SUFFICES ASSUME q # <<>>,
                          NEW u \in Bytes, c = Cat(Frame(DeviceId, Head(q)), u)
                   PROVE  FALSE
      BY <2>1, <2>5, <3>1, AtBoundary
    <3>3. Head(q) \in Command
      BY <3>1, <3>2
    <3> QED
      BY <2>5, <2>7, <3>2, <3>3, FrameTaken
  <2> QED
    BY <2>6, <2>9
<1> QED
  BY <1>2, <1>3, <1>4 DEF BridgeNext, Reads, Send, bridgeVars

(* bridge_node.cpp:194-196: a complete frame waits in rx_buffer_ only when *)
(* MAX_FRAMES has ended the update, and never before there is damage.      *)
THEOREM NothingLeftWaiting ==
  TurnsSuffice => (BridgeSpec => []NothingWithheld)
<1> SUFFICES ASSUME TurnsSuffice
             PROVE  BridgeSpec => []NothingWithheld
  OBVIOUS
<1>1. BridgeInit => BridgeRoom
  BY RoomInit
<1>2. BridgeRoom /\ [BridgeNext]_bridgeVars => BridgeRoom'
  BY RoomStep
<1>3. BridgeRoom => NothingWithheld
  BY DEF BridgeRoom, BridgeRest, NothingWithheld
<1> QED
  BY <1>1, <1>2, <1>3, PTL DEF BridgeSpec
================================================================================
