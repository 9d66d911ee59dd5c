------------------------------ MODULE ShaftProofs ------------------------------
(***************************************************************************)
(* Proofs about Shaft, for any number of motors, any length of the queue   *)
(* and any resolution of the encoder.                                      *)
(***************************************************************************)
EXTENDS Shaft, SequenceTheorems, TLAPS

Frames == [motor : Motors, angle : Int, at : Int]

(* An angle is the position less some whole turns.                         *)
Consistent(angle, n) ==
  /\ angle \in 0 .. EncoderMax - 1
  /\ \E k \in Int : n = k * EncoderMax + angle

QueueTrue ==
  \A i \in 1 .. Len(queue) : Consistent(queue[i].angle, queue[i].at)
LastTrue == \A m \in Motors : Consistent(last_encoder[m], sampled[m])
TurnsAdded ==
  \A m \in Motors :
    total_encoder[m] = rotation_count[m] * EncoderMax + last_encoder[m]

AngleInv == QueueTrue /\ LastTrue /\ TurnsAdded /\ AnglesExact

(* The frames of a motor that wait in the queue.  Where it was is known    *)
(* from the last frame taken, "frame 0", and from these.                   *)
Of(m) == {i \in 1 .. Len(queue) : queue[i].motor = m}
Known(m, i) == IF i = 0 THEN sampled[m] ELSE queue[i].at

(* Frames of a motor that come one after the other are near each other.    *)
FramesNear(m) ==
  \A i \in Of(m) \cup {0}, j \in Of(m) :
    i < j /\ (\A k \in Of(m) : k <= i \/ j <= k) => Near(Known(m, j), Known(m, i))

(* A motor has turned at most n counts since its last frame in the queue.  *)
Lag(m, n) ==
  \A i \in Of(m) \cup {0} :
    (\A k \in Of(m) : k <= i) => Abs(position[m] - Known(m, i)) <= n

(* How far it may have turned: once the queue is empty its next frame is   *)
(* kept, and in a queue that is not empty there is one of this pass, or of *)
(* the pass before while this pass still receives.                         *)
LagBound(m) ==
  /\ queue = <<>> => Lag(m, HALF_ENCODER - MaxStep - 1)
  /\ queue # <<>> /\ pc = "receive" => Lag(m, (PassTicks + ticks) * MaxStep)
  /\ queue # <<>> /\ pc \in {"send", "delay"} =>
       ticks >= 1 /\ Lag(m, (ticks - 1) * MaxStep)

SlipInv ==
  /\ Len(queue) <= QueueLen
  /\ ticks <= PassTicks
  /\ NeverSlips
  /\ \A m \in Handled : FramesNear(m) /\ LagBound(m)

(* What the counter says and what was already added make up the pulses, at *)
(* each point of pid_control.                                              *)
PulseInv ==
  /\ pc = "get" => total_cnt + counter = pulses - origin - gap
  /\ pc = "clear" => total_cnt + cnt = pulses - origin - gap
  /\ pc = "add" => total_cnt + cnt + counter = pulses - origin - gap

-------------------------------------------------------------------------------
(* The arithmetic of the turns.                                            *)

LEMMA AngleConsistent ==
  ASSUME NEW n \in Int PROVE Consistent(AngleOf(n), n) /\ AngleOf(n) \in Int
<1>1. EncoderMax \in Nat \ {0}
  BY EncoderAssumption
<1>2. n % EncoderMax \in 0 .. EncoderMax - 1
  BY <1>1
<1>3. n = (n \div EncoderMax) * EncoderMax + (n % EncoderMax)
  BY <1>1
<1>4. n \div EncoderMax \in Int
  BY <1>1
<1>5. \E k \in Int : n = k * EncoderMax + AngleOf(n)
  BY <1>3, <1>4 DEF AngleOf
<1>6. AngleOf(n) \in 0 .. EncoderMax - 1
  BY <1>2 DEF AngleOf
<1>7. AngleOf(n) \in Int
  BY <1>1, <1>6
<1> QED
  BY <1>5, <1>6, <1>7 DEF Consistent

(* Less than half a turn apart, the shorter way is the right one.          *)
LEMMA ShorterWay ==
  ASSUME NEW a, NEW b, NEW last, NEW angle, NEW r \in Int,
         a \in Int, b \in Int,
         Consistent(last, a), Consistent(angle, b), Near(b, a),
         a = r * EncoderMax + last
  PROVE  b = (r + Turns(angle, last)) * EncoderMax + angle
<1> DEFINE M == EncoderMax
           H == HALF_ENCODER
<1>1. M \in Nat \ {0} /\ M = 2 * H /\ H \in Int
  BY EncoderAssumption DEF HALF_ENCODER
<1>2. last \in 0 .. M - 1 /\ angle \in 0 .. M - 1
  BY DEF Consistent
<1>3. PICK k \in Int : b = k * M + angle
  BY DEF Consistent
<1>4. b - a < H /\ a - b < H
  BY <1>1 DEF Near, Abs
<1> HIDE DEF M, H
<1>5. PICK d \in Int : k = r + d
  <2>1. k - r \in Int /\ k = r + (k - r)
    BY <1>3
  <2> QED
    BY <2>1
<1>6. b - a = d * M + (angle - last)
  <2>1. k * M = r * M + d * M
    BY <1>1, <1>5
  <2>2. r * M \in Int /\ d * M \in Int
    BY <1>1
  <2> QED
    BY <1>1, <1>2, <1>3, <2>1, <2>2 DEF M
<1>7. d \in -1 .. 1
  <2>1. CASE d >= 2
    <3>1. d * M >= 2 * M
      BY <1>1, <2>1
    <3>2. d * M \in Int
      BY <1>1
    <3> QED
      BY <1>1, <1>2, <1>4, <1>6, <3>1, <3>2
  <2>2. CASE d <= -2
    <3>1. d * M <= -2 * M
      BY <1>1, <2>2
    <3>2. d * M \in Int
      BY <1>1
    <3> QED
      BY <1>1, <1>2, <1>4, <1>6, <3>1, <3>2
  <2> QED
    BY <2>1, <2>2
<1>8. Turns(angle, last) = d
  <2>1. CASE d = 0
    <3>1. b - a = angle - last
      BY <1>1, <1>2, <1>6, <2>1
    <3> QED
      BY <1>1, <1>2, <1>4, <2>1, <3>1 DEF Turns, H
  <2>2. CASE d = 1
    <3>1. b - a = M + (angle - last)
      BY <1>1, <1>2, <1>6, <2>2
    <3> QED
      BY <1>1, <1>2, <1>4, <2>2, <3>1 DEF Turns, H
  <2>3. CASE d = -1
    <3>1. b - a = -M + (angle - last)
      BY <1>1, <1>2, <1>6, <2>3
    <3> QED
      BY <1>1, <1>2, <1>4, <2>3, <3>1 DEF Turns, H
  <2> QED
    BY <1>7, <2>1, <2>2, <2>3
<1> QED
  BY <1>3, <1>5, <1>8 DEF M

-------------------------------------------------------------------------------
(* Type correctness.                                                       *)

LEMMA TypeInit == Init => TypeOK
<1> SUFFICES ASSUME Init PROVE TypeOK
  OBVIOUS
<1>1. FirstPositions \subseteq Int
  BY EncoderAssumption DEF FirstPositions, HALF_ENCODER
<1>2. position \in [Motors -> Int]
  BY <1>1 DEF Init
<1>3. queue \in Seq(Frames)
  BY DEF Init
<1> QED
  BY <1>2, <1>3 DEF Init, TypeOK, Frames

LEMMA QueueFacts ==
  ASSUME TypeOK
  PROVE  /\ queue \in Seq(Frames) /\ Len(queue) \in Nat
         /\ \A i \in 1 .. Len(queue) : queue[i] \in Frames
         /\ queue # <<>> =>
              /\ Head(queue) = queue[1] /\ 1 \in 1 .. Len(queue)
              /\ Tail(queue) \in Seq(Frames) /\ Len(Tail(queue)) = Len(queue) - 1
              /\ \A i \in 1 .. Len(queue) - 1 : Tail(queue)[i] = queue[i + 1]
<1>1. queue \in Seq(Frames)
  BY DEF TypeOK, Frames
<1> QED
  BY <1>1, HeadTailProperties, ElementOfSeq, LenProperties

LEMMA FrameTrue ==
  ASSUME NEW m \in Motors, NEW n \in Int
  PROVE  Frame(m, n) \in Frames /\ Consistent(Frame(m, n).angle, Frame(m, n).at)
BY AngleConsistent DEF Frame, Frames

LEMMA FunctionAsSequence ==
  ASSUME NEW n \in Nat, NEW S, NEW f \in [1 .. n -> S]
  PROVE  f \in Seq(S) /\ Len(f) = n
<1>1. f \in Seq(S)
  BY SeqDef
<1>2. Len(f) \in Nat /\ 1 .. Len(f) = 1 .. n
  BY <1>1, LenProperties
<1> DEFINE l == Len(f)
<1> HIDE DEF l
<1>3. l \in Nat /\ (l > 0 => l \in 1 .. n) /\ (n > 0 => n \in 1 .. l)
  <2>1. l \in Nat /\ 1 .. l = 1 .. n
    BY <1>2 DEF l
  <2>2. (l > 0 => l \in 1 .. l) /\ (n > 0 => n \in 1 .. n)
    BY <2>1
  <2> QED
    BY <2>1, <2>2
<1>4. l = n
  BY <1>3
<1> QED
  BY <1>1, <1>4 DEF l

LEMMA ArrivedFrames ==
  ASSUME TypeOK, NEW at \in [Motors -> Int]
  PROVE  /\ Arrived(at) \in Seq(Frames)
         /\ Len(Arrived(at)) =
              IF Len(queue) + Cardinality(Motors) > QueueLen
                THEN QueueLen ELSE Len(queue) + Cardinality(Motors)
         /\ \A i \in 1 .. Len(Arrived(at)) :
              \/ i \in 1 .. Len(queue) /\ Arrived(at)[i] = queue[i]
              \/ \E m \in Motors :
                   i = Len(queue) + m /\ Arrived(at)[i] = Frame(m, at[m])
<1> DEFINE new == [m \in Motors |-> Frame(m, at[m])]
           all == queue \o new
           n == Cardinality(Motors)
<1>1. n \in Nat /\ Motors = 1 .. n /\ QueueLen \in Nat
  BY QueueAssumption
<1>2. \A m \in Motors : new[m] \in Frames
  BY FrameTrue
<1> HIDE DEF n
<1>3. new \in Seq(Frames) /\ Len(new) = n
  BY <1>1, <1>2, FunctionAsSequence
<1>4. queue \in Seq(Frames) /\ Len(queue) \in Nat
  BY QueueFacts
<1> HIDE DEF new
<1>5. /\ all \in Seq(Frames)
      /\ Len(all) = Len(queue) + n
      /\ \A i \in 1 .. Len(all) :
           all[i] = IF i <= Len(queue) THEN queue[i] ELSE new[i - Len(queue)]
  BY <1>3, <1>4, ConcatProperties
<1>6. \A i \in 1 .. Len(all) :
        \/ i \in 1 .. Len(queue) /\ all[i] = queue[i]
        \/ \E m \in Motors : i = Len(queue) + m /\ all[i] = Frame(m, at[m])
  <2> SUFFICES ASSUME NEW i \in 1 .. Len(all)
               PROVE  \/ i \in 1 .. Len(queue) /\ all[i] = queue[i]
                      \/ \E m \in Motors :
                           i = Len(queue) + m /\ all[i] = Frame(m, at[m])
    OBVIOUS
  <2> HIDE DEF all
  <2>1. CASE i <= Len(queue)
    BY <1>1, <1>4, <1>5, <2>1
  <2>2. CASE ~(i <= Len(queue))
    <3>1. /\ i - Len(queue) \in Motors
          /\ i = Len(queue) + (i - Len(queue))
          /\ all[i] = new[i - Len(queue)]
      BY <1>1, <1>4, <1>5, <2>2
    <3> QED
      BY <3>1 DEF new
  <2> QED
    BY <2>1, <2>2
<1> HIDE DEF all
<1>7. CASE Len(all) > QueueLen
  <2>1. Arrived(at) = SubSeq(all, 1, QueueLen)
    BY <1>7 DEF Arrived, all, new
  <2>2. Len(all) \in Nat
    BY <1>1, <1>4, <1>5
  <2>3. \A i \in 1 .. QueueLen : i \in 1 .. Len(all) /\ all[i] \in Frames
    BY <1>1, <1>5, <1>7, <2>2, ElementOfSeq
  <2>4. /\ SubSeq(all, 1, QueueLen) \in Seq(Frames)
        /\ Len(SubSeq(all, 1, QueueLen)) = QueueLen
        /\ \A i \in 1 .. QueueLen : SubSeq(all, 1, QueueLen)[i] = all[i]
    BY <1>1, <1>5, <2>2, <2>3, SubSeqProperties
  <2>5. \A i \in 1 .. Len(Arrived(at)) : i \in 1 .. Len(all) /\ Arrived(at)[i] = all[i]
    BY <2>1, <2>3, <2>4
  <2> QED
    BY <1>5, <1>6, <1>7, <2>1, <2>4, <2>5 DEF n
<1>8. CASE ~(Len(all) > QueueLen)
  <2>1. Arrived(at) = all
    BY <1>8 DEF Arrived, all, new
  <2> QED
    BY <1>5, <1>6, <1>8, <2>1 DEF n
<1> QED
  BY <1>7, <1>8

LEMMA ArrivedTrue ==
  ASSUME TypeOK, QueueTrue, NEW at \in [Motors -> Int]
  PROVE  /\ Arrived(at) \in Seq(Frames)
         /\ \A i \in 1 .. Len(Arrived(at)) :
              Consistent(Arrived(at)[i].angle, Arrived(at)[i].at)
BY ArrivedFrames, FrameTrue DEF QueueTrue

LEMMA TakeFrameFacts ==
  ASSUME TypeOK, TakeFrame
  PROVE  /\ Head(queue) = queue[1] /\ 1 \in 1 .. Len(queue)
         /\ Head(queue).motor \in Motors
         /\ Head(queue).angle \in Int /\ Head(queue).at \in Int
         /\ \A m \in Motors :
              Turns(Head(queue).angle, last_encoder[m]) \in -1 .. 1
<1>1. queue # <<>>
  BY DEF TakeFrame
<1>2. Head(queue) = queue[1] /\ 1 \in 1 .. Len(queue) /\ queue[1] \in Frames
  BY <1>1, QueueFacts
<1> QED
  BY <1>2 DEF Frames, Turns

LEMMA TypeStep == TypeOK /\ QueueTrue /\ [Next]_vars => TypeOK'
<1> SUFFICES ASSUME TypeOK, QueueTrue, [Next]_vars PROVE TypeOK'
  OBVIOUS
<1>1. CASE Millisecond
  <2>1. position' \in [Motors -> Int]
    <3>1. PICK step \in [Handled -> -MaxStep .. MaxStep] :
            position' = [m \in Motors |->
              IF m \in Handled THEN position[m] + step[m] ELSE position[m]]
      BY <1>1 DEF Millisecond
    <3>2. \A m \in Handled : step[m] \in Int
      BY QueueAssumption
    <3> QED
      BY <3>1, <3>2 DEF TypeOK
  <2>2. queue' \in Seq(Frames)
    BY <1>1, <2>1, ArrivedTrue DEF Millisecond
  <2>3. ticks' \in Nat /\ pc' \in {"receive", "send", "delay"}
    BY <1>1 DEF Millisecond, TypeOK
  <2> QED
    BY <1>1, <2>1, <2>2, <2>3 DEF Millisecond, TypeOK, Frames, pulseVars
<1>2. CASE TakeFrame
  <2> DEFINE f == Head(queue)
  <2>1. /\ f.motor \in Motors /\ f.angle \in Int /\ f.at \in Int
        /\ Turns(f.angle, last_encoder[f.motor]) \in Int
    BY <1>2, TakeFrameFacts
  <2>2. queue' \in Seq(Frames)
    BY <1>2, QueueFacts DEF TakeFrame
  <2> HIDE DEF f
  <2>3. rotation_count' \in [Motors -> Int]
    <3>1. rotation_count' = [rotation_count EXCEPT
            ![f.motor] = rotation_count[f.motor] + Turns(f.angle, last_encoder[f.motor])]
      BY <1>2 DEF TakeFrame, f
    <3>2. rotation_count \in [Motors -> Int]
      BY DEF TypeOK
    <3>3. rotation_count[f.motor] + Turns(f.angle, last_encoder[f.motor]) \in Int
      BY <2>1, <3>2
    <3> QED
      BY <2>1, <3>1, <3>2, <3>3
  <2>4. total_encoder' \in [Motors -> Int]
    <3>1. rotation_count'[f.motor] * EncoderMax + f.angle \in Int
      BY <2>1, <2>3, EncoderAssumption
    <3>2. total_encoder' = [total_encoder EXCEPT
            ![f.motor] = rotation_count'[f.motor] * EncoderMax + f.angle]
      BY <1>2 DEF TakeFrame, f
    <3> QED
      BY <2>1, <3>1, <3>2 DEF TypeOK
  <2>5. last_encoder' \in [Motors -> Int] /\ sampled' \in [Motors -> Int]
    BY <1>2, <2>1 DEF TakeFrame, TypeOK, f
  <2>6. slipped' \subseteq Motors
    BY <1>2, <2>1 DEF TakeFrame, TypeOK, f
  <2> QED
    BY <1>2, <2>2, <2>3, <2>4, <2>5, <2>6
    DEF TakeFrame, TypeOK, Frames, pulseVars
<1>3. CASE SkipFrame
  <2>1. queue' \in Seq(Frames)
    BY <1>3, QueueFacts DEF SkipFrame
  <2> QED
    BY <1>3, <2>1 DEF SkipFrame, TypeOK, Frames, pulseVars
<1>4. CASE QueueEmpty \/ CurrentsSent
  BY <1>4 DEF QueueEmpty, CurrentsSent, TypeOK, canVars, pulseVars
<1>5. CASE Pulse
  BY <1>5 DEF Pulse, TypeOK, canVars
<1>6. CASE GetCounter \/ ClearCounter \/ AddCount
  BY <1>6 DEF GetCounter, ClearCounter, AddCount, TypeOK, canVars
<1>7. CASE UNCHANGED vars
  BY <1>7 DEF vars, canVars, pulseVars, TypeOK
<1> QED
  BY <1>1, <1>2, <1>3, <1>4, <1>5, <1>6, <1>7 DEF Next

-------------------------------------------------------------------------------
(* Motors                                                                  *)

LEMMA AngleInit == Init => AngleInv
<1> SUFFICES ASSUME Init PROVE AngleInv
  OBVIOUS
<1>1. EncoderMax \in Nat \ {0}
  BY EncoderAssumption
<1>2. Consistent(0, 0)
  <2>1. 0 = 0 * EncoderMax + 0 /\ 0 \in Int /\ 0 \in 0 .. EncoderMax - 1
    BY <1>1
  <2> QED
    BY <2>1 DEF Consistent
<1>3. QueueTrue
  BY DEF Init, QueueTrue
<1>4. LastTrue
  BY <1>2 DEF Init, LastTrue
<1>5. TurnsAdded /\ AnglesExact
  BY <1>1 DEF Init, TurnsAdded, AnglesExact
<1> QED
  BY <1>3, <1>4, <1>5 DEF AngleInv

LEMMA TakeFrameAngle ==
  ASSUME TypeOK, AngleInv, TakeFrame
  PROVE  LastTrue' /\ TurnsAdded' /\ AnglesExact'
<1> DEFINE f == Head(queue)
           m == f.motor
           r == rotation_count[m]
           d == Turns(f.angle, last_encoder[m])
<1>1. /\ f = queue[1] /\ 1 \in 1 .. Len(queue)
      /\ m \in Motors /\ f.angle \in Int /\ f.at \in Int /\ d \in Int
  BY TakeFrameFacts
<1>2. Consistent(f.angle, f.at)
  BY <1>1 DEF AngleInv, QueueTrue
<1>3. Consistent(last_encoder[m], sampled[m])
  BY <1>1 DEF AngleInv, LastTrue
<1>4. /\ rotation_count' = [rotation_count EXCEPT ![m] = r + d]
      /\ last_encoder' = [last_encoder EXCEPT ![m] = f.angle]
      /\ total_encoder' =
           [total_encoder EXCEPT ![m] = rotation_count'[m] * EncoderMax + f.angle]
      /\ sampled' = [sampled EXCEPT ![m] = f.at]
      /\ slipped' = IF Near(f.at, sampled[m]) THEN slipped ELSE slipped \cup {m}
  BY DEF TakeFrame
<1>5. /\ rotation_count \in [Motors -> Int] /\ last_encoder \in [Motors -> Int]
      /\ total_encoder \in [Motors -> Int] /\ sampled \in [Motors -> Int]
  BY DEF TypeOK
<1>6. m \notin slipped' => f.at = (r + d) * EncoderMax + f.angle
  <2> SUFFICES ASSUME m \notin slipped'
               PROVE  f.at = (r + d) * EncoderMax + f.angle
    OBVIOUS
  <2>1. Near(f.at, sampled[m]) /\ m \notin slipped
    BY <1>4
  <2>2. sampled[m] = r * EncoderMax + last_encoder[m]
    BY <1>1, <2>1 DEF AngleInv, AnglesExact, TurnsAdded
  <2>3. sampled[m] \in Int /\ r \in Int
    BY <1>1, <1>5
  <2> QED
    BY <1>1, <1>2, <1>3, <2>1, <2>2, <2>3, ShorterWay
<1> HIDE DEF f, m, r, d
<1>7. /\ rotation_count'[m] = r + d /\ last_encoder'[m] = f.angle
      /\ total_encoder'[m] = (r + d) * EncoderMax + f.angle /\ sampled'[m] = f.at
  BY <1>1, <1>4, <1>5
<1>8. \A n \in Motors \ {m} :
        /\ rotation_count'[n] = rotation_count[n]
        /\ last_encoder'[n] = last_encoder[n]
        /\ total_encoder'[n] = total_encoder[n]
        /\ sampled'[n] = sampled[n]
  BY <1>4, <1>5
<1>9. LastTrue'
  <2> SUFFICES ASSUME NEW n \in Motors
               PROVE  Consistent(last_encoder'[n], sampled'[n])
    BY DEF LastTrue, Consistent
  <2>1. CASE n = m
    BY <1>2, <1>7, <2>1
  <2>2. CASE n # m
    BY <1>8, <2>2 DEF AngleInv, LastTrue
  <2> QED
    BY <2>1, <2>2
<1>10. TurnsAdded'
  <2> SUFFICES ASSUME NEW n \in Motors
               PROVE  total_encoder'[n]
                        = rotation_count'[n] * EncoderMax + last_encoder'[n]
    BY DEF TurnsAdded
  <2>1. CASE n = m
    BY <1>7, <2>1
  <2>2. CASE n # m
    BY <1>8, <2>2 DEF AngleInv, TurnsAdded
  <2> QED
    BY <2>1, <2>2
<1>11. AnglesExact'
  <2> SUFFICES ASSUME NEW n \in Motors \ slipped'
               PROVE  total_encoder'[n] = sampled'[n]
    BY DEF AnglesExact
  <2>1. CASE n = m
    BY <1>6, <1>7, <2>1
  <2>2. CASE n # m
    <3>1. n \notin slipped
      BY <1>4
    <3> QED
      BY <1>8, <2>2, <3>1 DEF AngleInv, AnglesExact
  <2> QED
    BY <2>1, <2>2
<1> QED
  BY <1>9, <1>10, <1>11

LEMMA TailTrue ==
  ASSUME TypeOK, QueueTrue, queue # <<>>, queue' = Tail(queue)
  PROVE  QueueTrue'
<1>1. /\ Len(queue') = Len(queue) - 1 /\ Len(queue) \in Nat
      /\ \A i \in 1 .. Len(queue) - 1 : queue'[i] = queue[i + 1]
  BY QueueFacts
<1> SUFFICES ASSUME NEW i \in 1 .. Len(queue')
             PROVE  Consistent(queue'[i].angle, queue'[i].at)
  BY DEF QueueTrue, Consistent
<1>2. i + 1 \in 1 .. Len(queue) /\ queue'[i] = queue[i + 1]
  BY <1>1
<1> QED
  BY <1>2 DEF QueueTrue

LEMMA AngleStep == TypeOK /\ AngleInv /\ [Next]_vars => AngleInv'
<1> SUFFICES ASSUME TypeOK, AngleInv, [Next]_vars PROVE AngleInv'
  OBVIOUS
<1>0. TypeOK'
  BY TypeStep DEF AngleInv
<1>1. CASE Millisecond
  <2>1. queue' = Arrived(position') /\ position' \in [Motors -> Int]
    BY <1>0, <1>1 DEF Millisecond, TypeOK
  <2>2. QueueTrue'
    <3>1. \A i \in 1 .. Len(queue') : Consistent(queue'[i].angle, queue'[i].at)
      BY <2>1, ArrivedTrue DEF AngleInv
    <3> QED
      BY <3>1 DEF QueueTrue, Consistent
  <2>3. UNCHANGED <<last_encoder, rotation_count, total_encoder, sampled, slipped>>
    BY <1>1 DEF Millisecond
  <2> QED
    BY <2>2, <2>3 DEF AngleInv, LastTrue, TurnsAdded, AnglesExact, Consistent
<1>2. CASE TakeFrame
  <2>1. QueueTrue'
    BY <1>2, TailTrue DEF TakeFrame, AngleInv
  <2> QED
    BY <1>2, <2>1, TakeFrameAngle DEF AngleInv
<1>3. CASE SkipFrame
  <2>1. QueueTrue'
    BY <1>3, TailTrue DEF SkipFrame, AngleInv
  <2> QED
    BY <1>3, <2>1
    DEF SkipFrame, AngleInv, LastTrue, TurnsAdded, AnglesExact, Consistent
<1>4. CASE UNCHANGED canVars
  BY <1>4 DEF canVars, AngleInv, QueueTrue, LastTrue, TurnsAdded, AnglesExact,
              Consistent
<1> QED
  BY <1>1, <1>2, <1>3, <1>4
  DEF Next, QueueEmpty, CurrentsSent, Pulse, GetCounter, ClearCounter, AddCount,
      vars

(* Every variable keeps its type, and the angles, turns and totals of the  *)
(* motors stay consistent with the frames.                                 *)
THEOREM AngleInvariant == Spec => [](TypeOK /\ AngleInv)
<1>1. Init => TypeOK /\ AngleInv
  BY TypeInit, AngleInit
<1>2. TypeOK /\ AngleInv /\ [Next]_vars => TypeOK' /\ AngleInv'
  BY TypeStep, AngleStep DEF AngleInv
<1> QED
  BY <1>1, <1>2, PTL DEF Spec

(* twai_receive_feedback has the position of a motor exactly, whatever the *)
(* resolution, the direction and the number of turns, as long as no two    *)
(* frames it took were half a turn apart.                                  *)
THEOREM AnglesAlwaysExact == Spec => []AnglesExact
<1>1. AngleInv => AnglesExact
  BY DEF AngleInv
<1> QED
  BY <1>1, AngleInvariant, PTL

-------------------------------------------------------------------------------
(* The frames that are kept are not too far apart.                         *)

LEMMA PassArithmetic ==
  ASSUME RoomAndTime, NEW t \in Nat, t <= PassTicks
  PROVE  /\ MaxStep \in Nat /\ PassTicks \in Nat /\ HALF_ENCODER \in Int
         /\ HALF_ENCODER - MaxStep - 1 \in Int
         /\ (PassTicks + t) * MaxStep \in Nat
         /\ (PassTicks + t) * MaxStep <= HALF_ENCODER - MaxStep - 1
         /\ (PassTicks + (t + 1)) * MaxStep = (PassTicks + t) * MaxStep + MaxStep
         /\ t >= 1 => /\ (t - 1) * MaxStep \in Nat
                      /\ (t - 1) * MaxStep <= HALF_ENCODER - MaxStep - 1
                      /\ ((t + 1) - 1) * MaxStep = (t - 1) * MaxStep + MaxStep
                      /\ (t - 1) * MaxStep + MaxStep <= (PassTicks + 0) * MaxStep
<1> DEFINE S == MaxStep
           P == PassTicks
           H == HALF_ENCODER
<1>1. S \in Nat /\ P \in Nat /\ H \in Int /\ (2 * P + 1) * S < H
  BY EncoderAssumption, QueueAssumption DEF RoomAndTime, HALF_ENCODER
<1> HIDE DEF S, P, H
<1>2. PICK d \in Nat : P = t + d
  <2>1. P - t \in Nat /\ P = t + (P - t)
    BY <1>1 DEF P
  <2> QED
    BY <2>1
<1>3. d * S \in Nat /\ t * S \in Nat /\ P * S \in Nat
  BY <1>1
<1>4. P * S = t * S + d * S
  BY <1>1, <1>2
<1>5. (P + t) * S = P * S + t * S /\ (2 * P + 1) * S = P * S + P * S + S
  BY <1>1
<1>6. (P + (t + 1)) * S = P * S + t * S + S
  BY <1>1
<1>7. (t - 1) * S = t * S - S /\ ((t + 1) - 1) * S = t * S /\ (P + 0) * S = P * S
  BY <1>1
<1>8. t >= 1 => t * S >= S
  <2>1. SUFFICES ASSUME t >= 1 PROVE t * S >= S
    OBVIOUS
  <2>2. PICK e \in Nat : t = e + 1
    <3>1. t - 1 \in Nat /\ t = (t - 1) + 1
      BY <2>1
    <3> QED
      BY <3>1
  <2>3. t * S = e * S + S /\ e * S \in Nat
    BY <1>1, <2>2
  <2> QED
    BY <1>1, <2>3
<1> QED
  BY <1>1, <1>3, <1>4, <1>5, <1>6, <1>7, <1>8 DEF S, P, H

LEMMA AbsMoves ==
  ASSUME NEW p \in Int, NEW q \in Int, NEW k \in Int, NEW n \in Int,
         NEW s \in Nat, Abs(p - k) <= n, q - p \in -s .. s
  PROVE  Abs(q - k) <= n + s
<1>1. p - k <= n /\ k - p <= n
  BY DEF Abs
<1>2. q - p <= s /\ p - q <= s
  OBVIOUS
<1>3. q - k <= n + s /\ k - q <= n + s
  BY <1>1, <1>2
<1> QED
  BY <1>3 DEF Abs

LEMMA KnownInt ==
  ASSUME TypeOK, NEW m \in Motors
  PROVE  /\ position[m] \in Int
         /\ Of(m) \subseteq 1 .. Len(queue)
         /\ \A i \in Of(m) \cup {0} : i \in Nat /\ Known(m, i) \in Int
<1>1. /\ position[m] \in Int /\ sampled[m] \in Int
      /\ Len(queue) \in Nat /\ \A i \in 1 .. Len(queue) : queue[i].at \in Int
  BY QueueFacts DEF TypeOK, Frames
<1> QED
  BY <1>1 DEF Of, Known

(* In every state the next frame of a motor would be near enough.          *)
LEMMA LagShort ==
  ASSUME TypeOK, RoomAndTime, SlipInv, pc \in {"receive", "send", "delay"},
         NEW m \in Handled
  PROVE  Lag(m, HALF_ENCODER - MaxStep - 1)
<1>1. m \in Motors /\ LagBound(m) /\ ticks \in Nat /\ ticks <= PassTicks
  BY QueueAssumption DEF SlipInv, TypeOK
<1>2. ASSUME NEW n \in Int, Lag(m, n), n <= HALF_ENCODER - MaxStep - 1
      PROVE  Lag(m, HALF_ENCODER - MaxStep - 1)
  <2>1. \A i \in Of(m) \cup {0} : Abs(position[m] - Known(m, i)) \in Int
    BY <1>1, KnownInt DEF Abs
  <2>2. HALF_ENCODER - MaxStep - 1 \in Int
    BY <1>1, PassArithmetic
  <2> QED
    BY <1>2, <2>1, <2>2 DEF Lag
<1>3. CASE queue = <<>>
  BY <1>1, <1>3 DEF LagBound
<1>4. CASE queue # <<>> /\ pc = "receive"
  <2>1. Lag(m, (PassTicks + ticks) * MaxStep)
    BY <1>1, <1>4 DEF LagBound
  <2>2. /\ (PassTicks + ticks) * MaxStep \in Int
        /\ (PassTicks + ticks) * MaxStep <= HALF_ENCODER - MaxStep - 1
    BY <1>1, PassArithmetic
  <2> QED
    BY <1>2, <2>1, <2>2
<1>5. CASE queue # <<>> /\ pc \in {"send", "delay"}
  <2>1. Lag(m, (ticks - 1) * MaxStep) /\ ticks >= 1
    BY <1>1, <1>5 DEF LagBound
  <2>2. /\ (ticks - 1) * MaxStep \in Int
        /\ (ticks - 1) * MaxStep <= HALF_ENCODER - MaxStep - 1
    BY <1>1, <2>1, PassArithmetic
  <2> QED
    BY <1>2, <2>1, <2>2
<1> QED
  BY <1>3, <1>4, <1>5

(* A millisecond leaves the frames of a motor, and may add one.            *)
LEMMA MillisecondFrames ==
  ASSUME TypeOK, RoomAndTime, SlipInv, Millisecond, NEW m \in Handled
  PROVE  /\ Len(queue)' <= QueueLen
         /\ queue' # <<>>
         /\ \A i \in Of(m) \cup {0} : Known(m, i)' = Known(m, i)
         /\ \/ \E j \in Nat : /\ j > Len(queue)
                               /\ Of(m)' = Of(m) \cup {j}
                               /\ Known(m, j)' = position'[m]
            \/ Of(m)' = Of(m) /\ queue # <<>>
         /\ position'[m] \in Int
         /\ position'[m] - position[m] \in -MaxStep .. MaxStep
<1> DEFINE N == Cardinality(Motors)
           l == Len(queue)
<1>1. /\ N \in Nat /\ Motors = 1 .. N /\ QueueLen \in Nat /\ MaxStep \in Nat
      /\ m \in Motors /\ N <= QueueLen /\ l \in Nat /\ l <= QueueLen
  BY QueueAssumption, QueueFacts DEF RoomAndTime, SlipInv
<1>2. /\ position' \in [Motors -> Int]
      /\ position'[m] - position[m] \in -MaxStep .. MaxStep
  <2>1. PICK step \in [Handled -> -MaxStep .. MaxStep] :
          position' = [o \in Motors |->
            IF o \in Handled THEN position[o] + step[o] ELSE position[o]]
    BY DEF Millisecond
  <2>2. \A o \in Handled : step[o] \in Int /\ step[o] \in -MaxStep .. MaxStep
    BY <1>1, <2>1
  <2>3. \A o \in Motors : position[o] \in Int
    BY DEF TypeOK
  <2>4. position'[m] = position[m] + step[m]
    BY <1>1, <2>1
  <2>5. position'[m] - position[m] = step[m]
    BY <1>1, <2>2, <2>3, <2>4
  <2> QED
    BY <2>1, <2>2, <2>3, <2>5
<1>3. queue' = Arrived(position') /\ sampled' = sampled
  BY DEF Millisecond
<1> HIDE DEF N, l
<1>4. /\ queue' \in Seq(Frames) /\ Len(queue') \in Nat
      /\ Len(queue') = IF l + N > QueueLen THEN QueueLen ELSE l + N
      /\ \A i \in 1 .. Len(queue') :
           \/ i \in 1 .. l /\ queue'[i] = queue[i]
           \/ \E o \in Motors : i = l + o /\ queue'[i] = Frame(o, position'[o])
  BY <1>2, <1>3, ArrivedFrames, LenProperties DEF N, l
<1>5. Len(queue') \in l .. QueueLen /\ Len(queue') > 0
  BY <1>1, <1>4
<1>6. \A i \in 1 .. l : i \in 1 .. Len(queue') /\ queue'[i] = queue[i]
  BY <1>1, <1>4, <1>5
<1>7. \A i \in 1 .. Len(queue') :
        i \notin 1 .. l /\ queue'[i].motor = m
          => i = l + m /\ queue'[i].at = position'[m]
  <2> SUFFICES ASSUME NEW i \in 1 .. Len(queue'), i \notin 1 .. l,
                      queue'[i].motor = m
               PROVE  i = l + m /\ queue'[i].at = position'[m]
    OBVIOUS
  <2>1. PICK o \in Motors : i = l + o /\ queue'[i] = Frame(o, position'[o])
    BY <1>4
  <2> QED
    BY <2>1 DEF Frame
<1>8. l + m \in 1 .. Len(queue')
        => queue'[l + m].motor = m /\ queue'[l + m].at = position'[m]
  <2> SUFFICES ASSUME l + m \in 1 .. Len(queue')
               PROVE  queue'[l + m] = Frame(m, position'[m])
    BY DEF Frame
  <2>1. PICK o \in Motors : l + m = l + o /\ queue'[l + m] = Frame(o, position'[o])
    BY <1>1, <1>4
  <2>2. o = m
    BY <1>1, <2>1
  <2> QED
    BY <2>1, <2>2
<1>9. Of(m) = {i \in 1 .. l : queue[i].motor = m}
  BY DEF Of, l
<1>10. Of(m)' = {i \in 1 .. Len(queue') : queue'[i].motor = m}
  BY DEF Of
<1>11. \A i \in Of(m) \cup {0} : Known(m, i)' = Known(m, i)
  BY <1>3, <1>6, <1>9 DEF Known
<1>12. CASE l + m <= Len(queue')
  <2>1. l + m \in 1 .. Len(queue') /\ l + m # 0
    BY <1>1, <1>4, <1>12
  <2>2. Of(m)' = Of(m) \cup {l + m}
    BY <1>6, <1>7, <1>8, <1>9, <1>10, <2>1
  <2>3. ASSUME NEW j, j = l + m PROVE Known(m, j)' = position'[m]
    BY <1>8, <2>1, <2>3 DEF Known
  <2>4. \E j \in Nat : /\ j > Len(queue)
                      /\ Of(m)' = Of(m) \cup {j}
                      /\ Known(m, j)' = position'[m]
    <3> DEFINE j == l + m
    <3>1. j \in Nat /\ j > Len(queue)
      BY <1>1 DEF l
    <3> HIDE DEF j
    <3>2. j = l + m
      BY DEF j
    <3> QED
      BY <2>2, <2>3, <3>1, <3>2
  <2> QED
    BY <1>2, <1>1, <1>5, <1>11, <2>4
<1>13. CASE ~(l + m <= Len(queue'))
  <2>1. l # 0
    BY <1>1, <1>4, <1>13
  <2>2. l + m \notin 1 .. Len(queue')
    BY <1>13
  <2>3. Of(m)' = Of(m)
    BY <1>6, <1>7, <1>9, <1>10, <2>2
  <2>4. queue # <<>>
    BY <2>1 DEF l
  <2> QED
    BY <1>1, <1>2, <1>5, <1>11, <2>3, <2>4 DEF l
<1> QED
  BY <1>12, <1>13

LEMMA MillisecondSlip ==
  ASSUME TypeOK, RoomAndTime, SlipInv, Millisecond, NEW m \in Handled
  PROVE  FramesNear(m)' /\ LagBound(m)'
<1> DEFINE H == HALF_ENCODER
           S == MaxStep
           Later(b) == \A i \in Of(m)' \cup {0} :
             (\A k \in Of(m)' : k <= i) => Abs(position'[m] - Known(m, i)') <= b
<1>1. /\ m \in Motors /\ FramesNear(m) /\ LagBound(m)
      /\ ticks \in Nat /\ ticks <= PassTicks
      /\ pc \in {"receive", "send", "delay"}
  BY QueueAssumption DEF SlipInv, TypeOK, Millisecond
<1>2. S \in Nat /\ H \in Int /\ H - S - 1 \in Int /\ PassTicks \in Nat
  BY <1>1, PassArithmetic
<1>3. /\ queue' # <<>>
      /\ \A i \in Of(m) \cup {0} : Known(m, i)' = Known(m, i)
      /\ position'[m] \in Int /\ position'[m] - position[m] \in -S .. S
  BY MillisecondFrames
<1>4. /\ position[m] \in Int /\ Of(m) \subseteq 1 .. Len(queue)
      /\ Len(queue) \in Nat
      /\ \A i \in Of(m) \cup {0} : i \in Nat /\ i <= Len(queue) /\ Known(m, i) \in Int
  BY <1>1, KnownInt, QueueFacts
<1>5. Lag(m, H - S - 1)
  BY <1>1, LagShort DEF Millisecond
<1> HIDE DEF H, S
<1>6. ASSUME NEW n \in Int, Lag(m, n), NEW i \in Of(m) \cup {0},
             \A k \in Of(m) : k <= i
      PROVE  Abs(position'[m] - Known(m, i)) <= n + S
  <2>1. Abs(position[m] - Known(m, i)) <= n
    BY <1>6 DEF Lag
  <2>2. Known(m, i) \in Int
    BY <1>4, <1>6
  <2> QED
    BY <1>2, <1>3, <1>4, <1>6, <2>1, <2>2, AbsMoves
<1>7. ASSUME NEW b \in Int,
             /\ pc = "receive" => b = (PassTicks + (ticks + 1)) * S
             /\ pc = "send" => b = ((ticks + 1) - 1) * S
             /\ pc = "delay" => b = (PassTicks + 0) * S
      PROVE  Later(b)
  <2>1. CASE Of(m)' = Of(m) /\ queue # <<>>
    <3>1. PICK n \in Int : Lag(m, n) /\ n + S <= b
      <4>1. CASE pc = "receive"
        BY <1>1, <1>7, <2>1, <4>1, PassArithmetic DEF LagBound, S
      <4>2. CASE pc \in {"send", "delay"}
        <5>1. ticks >= 1 /\ Lag(m, (ticks - 1) * S)
          BY <1>1, <2>1, <4>2 DEF LagBound, S
        <5>2. (ticks - 1) * S \in Int /\ (ticks - 1) * S + S <= b
          BY <1>1, <1>7, <4>2, <5>1, PassArithmetic DEF S
        <5> QED
          BY <5>1, <5>2
      <4> QED
        BY <1>1, <4>1, <4>2
    <3> SUFFICES ASSUME NEW i \in Of(m) \cup {0}, \A k \in Of(m) : k <= i
                 PROVE  Abs(position'[m] - Known(m, i)) <= b
      BY <1>3, <2>1
    <3>2. Abs(position'[m] - Known(m, i)) <= n + S
      BY <1>6, <3>1
    <3>3. Abs(position'[m] - Known(m, i)) \in Int
      BY <1>3, <1>4 DEF Abs
    <3> QED
      BY <1>2, <3>1, <3>2, <3>3
  <2>2. ASSUME NEW j \in Nat, j > Len(queue), Of(m)' = Of(m) \cup {j},
               Known(m, j)' = position'[m]
        PROVE  Later(b)
    <3> SUFFICES ASSUME NEW i \in Of(m)' \cup {0}, \A k \in Of(m)' : k <= i
                 PROVE  Abs(position'[m] - Known(m, i)') <= b
      OBVIOUS
    <3>1. i = j
      <4>1. j <= i
        BY <2>2
      <4>2. i \notin Of(m) \cup {0}
        <5> SUFFICES ASSUME i \in Of(m) \cup {0} PROVE FALSE
          OBVIOUS
        <5>1. i \in Nat /\ i <= Len(queue)
          BY <1>4
        <5> QED
          BY <1>4, <2>2, <4>1, <5>1
      <4> QED
        BY <2>2, <4>2
    <3>2. b >= 0
      <4>1. (PassTicks + (ticks + 1)) \in Nat /\ (ticks + 1) - 1 \in Nat
            /\ PassTicks + 0 \in Nat
        BY <1>1, <1>2
      <4>2. \A x \in Nat : x * S \in Nat
        BY <1>2
      <4> QED
        BY <1>1, <1>7, <4>1, <4>2
    <3>3. Abs(position'[m] - Known(m, i)') = 0
      BY <1>3, <2>2, <3>1 DEF Abs
    <3> QED
      BY <3>2, <3>3
  <2> QED
    BY <2>1, <2>2, MillisecondFrames
<1> HIDE DEF Later
<1>8. LagBound(m)'
  <2>1. /\ pc = "receive" => pc' = "receive" /\ ticks' = ticks + 1
        /\ pc = "send" => pc' = "send" /\ ticks' = ticks + 1
        /\ pc = "delay" => pc' = "receive" /\ ticks' = 0
    BY DEF Millisecond
  <2>2. /\ (PassTicks + (ticks + 1)) * S \in Int
        /\ ((ticks + 1) - 1) * S \in Int
        /\ (PassTicks + 0) * S \in Int
    BY <1>1, <1>2
  <2>3. /\ pc' = "receive" => Later((PassTicks + ticks') * S)
        /\ pc' \in {"send", "delay"} => ticks' >= 1 /\ Later((ticks' - 1) * S)
    BY <1>1, <1>7, <2>1, <2>2
  <2> QED
    BY <1>3, <2>3 DEF LagBound, Lag, Later, S, Abs
<1>9. FramesNear(m)'
  <2>1. CASE Of(m)' = Of(m)
    BY <1>1, <1>3, <2>1 DEF FramesNear, Near, Abs, HALF_ENCODER
  <2>2. ASSUME NEW j \in Nat, j > Len(queue), Of(m)' = Of(m) \cup {j},
               Known(m, j)' = position'[m]
        PROVE  FramesNear(m)'
    <3>1. ASSUME NEW a \in Of(m)' \cup {0}, NEW c \in Of(m)', a < c,
                 \A k \in Of(m)' : k <= a \/ c <= k
          PROVE  Near(Known(m, c)', Known(m, a)')
      <4>1. a \in Of(m) \cup {0}
        BY <1>4, <2>2, <3>1
      <4>2. CASE c = j
        <5>1. \A k \in Of(m) : k <= a
          BY <1>4, <2>2, <3>1, <4>2
        <5>2. Abs(position'[m] - Known(m, a)) <= (H - S - 1) + S
          BY <1>2, <1>5, <1>6, <4>1, <5>1
        <5>3. Abs(position'[m] - Known(m, a)) \in Int
          BY <1>3, <1>4, <4>1 DEF Abs
        <5>4. Abs(position'[m] - Known(m, a)) < H
          BY <1>2, <5>2, <5>3
        <5> QED
          BY <1>3, <2>2, <4>1, <4>2, <5>4 DEF Near, H
      <4>3. CASE c # j
        <5>1. c \in Of(m)
          BY <2>2, <4>3
        <5>2. Near(Known(m, c), Known(m, a))
          BY <1>1, <2>2, <3>1, <4>1, <5>1 DEF FramesNear
        <5> QED
          BY <1>3, <4>1, <5>1, <5>2
      <4> QED
        BY <4>2, <4>3
    <3> QED
      BY <3>1 DEF FramesNear, Near, Abs, HALF_ENCODER
  <2> QED
    BY <2>1, <2>2, MillisecondFrames
<1> QED
  BY <1>8, <1>9

(* A frame is taken out of the queue, and remembered if it is the motor's. *)
LEMMA HeadSlip ==
  ASSUME TypeOK, RoomAndTime, SlipInv, pc = "receive", queue # <<>>,
         queue' = Tail(queue), UNCHANGED <<pc, ticks, position>>,
         NEW m \in Handled,
         sampled'[m] = IF queue[1].motor = m THEN queue[1].at ELSE sampled[m]
  PROVE  /\ FramesNear(m)' /\ LagBound(m)'
         /\ queue[1].motor = m => Near(queue[1].at, sampled[m])
<1> DEFINE l == Len(queue)
           first == IF queue[1].motor = m THEN 1 ELSE 0
           Up(i) == IF i = 0 THEN first ELSE i + 1
           Later(b) == \A i \in Of(m)' \cup {0} :
             (\A k \in Of(m)' : k <= i) => Abs(position[m] - Known(m, i)') <= b
<1>1. /\ m \in Motors /\ FramesNear(m) /\ LagBound(m)
      /\ l \in Nat /\ 1 \in 1 .. l
      /\ Len(queue') = l - 1
      /\ \A i \in 1 .. l - 1 : queue'[i] = queue[i + 1]
  BY QueueAssumption, QueueFacts DEF SlipInv
<1> HIDE DEF l
<1>2. /\ Of(m) = {i \in 1 .. l : queue[i].motor = m}
      /\ Of(m)' = {i \in 1 .. l - 1 : queue[i + 1].motor = m}
  BY <1>1 DEF Of, l
<1>3. first \in Of(m) \cup {0} /\ first \in {0, 1}
  BY <1>1, <1>2
<1>4. \A i \in Of(m)' : i \in Nat /\ i >= 1 /\ i + 1 \in Of(m)
  BY <1>1, <1>2
<1>5. \A k \in Of(m) : k \in Nat /\ (k = first \/ k - 1 \in Of(m)')
  <2> SUFFICES ASSUME NEW k \in Of(m)
               PROVE  k \in Nat /\ (k = first \/ k - 1 \in Of(m)')
    OBVIOUS
  <2>1. k \in 1 .. l /\ queue[k].motor = m
    BY <1>2
  <2>2. CASE k = 1
    BY <2>1, <2>2
  <2>3. CASE k # 1
    <3>1. k - 1 \in 1 .. l - 1 /\ (k - 1) + 1 = k
      BY <1>1, <2>1, <2>3
    <3> QED
      BY <1>2, <2>1, <3>1
  <2> QED
    BY <2>2, <2>3
<1>6. ASSUME NEW i \in Of(m)' PROVE Known(m, i)' = Known(m, i + 1)
  BY <1>1, <1>2, <1>4 DEF Known
<1>7. ASSUME NEW i \in Of(m)' \cup {0}
      PROVE  Up(i) \in Of(m) \cup {0} /\ Known(m, i)' = Known(m, Up(i))
  <2>1. CASE i = 0
    BY <1>3, <2>1 DEF Known
  <2>2. CASE i # 0
    BY <1>4, <1>6, <2>2
  <2> QED
    BY <2>1, <2>2
<1> HIDE DEF first
<1>8. \A i \in Of(m)' \cup {0} : i \in Nat /\ Up(i) \in Nat
  BY <1>3, <1>4
<1>9. FramesNear(m)'
  <2>1. ASSUME NEW i \in Of(m)' \cup {0}, NEW j \in Of(m)', i < j,
               \A k \in Of(m)' : k <= i \/ j <= k
        PROVE  Near(Known(m, j)', Known(m, i)')
    <3>1. /\ i \in Nat /\ j \in Nat /\ j >= 1
          /\ Up(i) \in Of(m) \cup {0} /\ j + 1 \in Of(m)
      BY <1>4, <1>7, <1>8
    <3>2. Up(i) < j + 1
      BY <1>3, <2>1, <3>1
    <3>3. \A k \in Of(m) : k <= Up(i) \/ j + 1 <= k
      <4> SUFFICES ASSUME NEW k \in Of(m) PROVE k <= Up(i) \/ j + 1 <= k
        OBVIOUS
      <4>1. k \in Nat /\ (k = first \/ k - 1 \in Of(m)')
        BY <1>5
      <4>2. CASE k = first
        BY <1>3, <3>1, <4>1, <4>2
      <4>3. CASE k - 1 \in Of(m)'
        <5>1. k - 1 <= i \/ j <= k - 1
          BY <2>1, <4>3
        <5>2. k - 1 >= 1
          BY <1>4, <4>3
        <5> QED
          BY <3>1, <4>1, <5>1, <5>2
      <4> QED
        BY <4>1, <4>2, <4>3
    <3> HIDE DEF Up
    <3>4. Near(Known(m, j + 1), Known(m, Up(i)))
      BY <1>1, <3>1, <3>2, <3>3 DEF FramesNear
    <3> QED
      BY <1>6, <1>7, <3>4
  <2> QED
    BY <2>1 DEF FramesNear, Near, Abs, HALF_ENCODER
<1>10. ASSUME NEW n, Lag(m, n) PROVE Later(n)
  <2> SUFFICES ASSUME NEW i \in Of(m)' \cup {0}, \A k \in Of(m)' : k <= i
               PROVE  Abs(position[m] - Known(m, i)') <= n
    OBVIOUS
  <2>1. \A k \in Of(m) : k <= Up(i)
    <3> SUFFICES ASSUME NEW k \in Of(m) PROVE k <= Up(i)
      OBVIOUS
    <3>1. k \in Nat /\ (k = first \/ k - 1 \in Of(m)') /\ i \in Nat
      BY <1>5, <1>8
    <3>2. CASE k = first
      BY <1>3, <3>1, <3>2
    <3>3. CASE k - 1 \in Of(m)'
      <4>1. k - 1 <= i /\ k - 1 >= 1
        BY <1>4, <3>3
      <4> QED
        BY <3>1, <4>1
    <3> QED
      BY <3>1, <3>2, <3>3
  <2> HIDE DEF Up
  <2>2. Abs(position[m] - Known(m, Up(i))) <= n
    BY <1>7, <1>10, <2>1 DEF Lag
  <2> QED
    BY <1>7, <2>2
<1>11. LagBound(m)'
  <2>1. Later(HALF_ENCODER - MaxStep - 1)
    BY <1>10, LagShort
  <2>2. Later((PassTicks + ticks) * MaxStep)
    BY <1>1, <1>10 DEF LagBound
  <2> HIDE DEF Later
  <2>3. Later((PassTicks + ticks') * MaxStep) /\ pc' = "receive"
    BY <2>2
  <2> QED
    BY <2>1, <2>3 DEF LagBound, Lag, Later, Abs, HALF_ENCODER
<1>12. ASSUME queue[1].motor = m PROVE Near(queue[1].at, sampled[m])
  <2>1. 1 \in Of(m) /\ 0 \in Of(m) \cup {0} /\ \A k \in Of(m) : 1 <= k
    BY <1>1, <1>2, <1>12
  <2>2. Near(Known(m, 1), Known(m, 0))
    BY <1>1, <2>1 DEF FramesNear
  <2> QED
    BY <2>2 DEF Known
<1> QED
  BY <1>9, <1>11, <1>12

LEMMA SlipInit == RoomAndTime /\ Init => SlipInv
<1> SUFFICES ASSUME RoomAndTime, Init PROVE SlipInv
  OBVIOUS
<1>1. /\ queue = <<>> /\ Len(queue) = 0 /\ ticks = 0 /\ slipped = {}
      /\ QueueLen \in Nat /\ PassTicks \in Nat /\ MaxStep \in Nat
      /\ HALF_ENCODER \in Int
  BY QueueAssumption, PassArithmetic DEF Init, RoomAndTime
<1>2. ASSUME NEW m \in Handled PROVE FramesNear(m) /\ LagBound(m)
  <2>1. Of(m) = {}
    BY <1>1 DEF Of
  <2>2. position[m] \in FirstPositions /\ sampled[m] = 0
    BY QueueAssumption DEF Init
  <2>3. position[m] \in Int /\ Abs(position[m]) + MaxStep < HALF_ENCODER
    BY <1>1, <2>2 DEF FirstPositions
  <2>4. Abs(position[m] - 0) <= HALF_ENCODER - MaxStep - 1
    BY <1>1, <2>3 DEF Abs
  <2>5. Lag(m, HALF_ENCODER - MaxStep - 1)
    BY <2>1, <2>2, <2>4 DEF Lag, Known
  <2> QED
    BY <1>1, <2>1, <2>5 DEF FramesNear, LagBound
<1> QED
  BY <1>1, <1>2 DEF SlipInv, NeverSlips, RoomAndTime

LEMMA SlipStep ==
  ASSUME RoomAndTime, TypeOK, TypeOK', SlipInv, [Next]_vars
  PROVE  SlipInv'
<1> USE DEF NeverSlips
<1>0. /\ ticks \in Nat /\ ticks <= PassTicks /\ PassTicks \in Nat
      /\ Len(queue) <= QueueLen /\ QueueLen \in Nat /\ slipped = {}
      /\ Handled \subseteq Motors
      /\ queue # <<>> => Len(Tail(queue)) <= QueueLen
  BY QueueAssumption, QueueFacts DEF TypeOK, SlipInv, RoomAndTime
<1>1. CASE Millisecond
  <2>1. \A m \in Handled : FramesNear(m)' /\ LagBound(m)'
    BY <1>1, MillisecondSlip
  <2>2. Len(queue') <= QueueLen
    <3>1. queue' = Arrived(position') /\ position' \in [Motors -> Int]
      BY <1>1 DEF Millisecond, TypeOK
    <3>2. Len(Arrived(position')) =
            IF Len(queue) + Cardinality(Motors) > QueueLen
              THEN QueueLen ELSE Len(queue) + Cardinality(Motors)
      BY <3>1, ArrivedFrames
    <3>3. Len(queue) + Cardinality(Motors) \in Nat
      BY QueueFacts, QueueAssumption
    <3> QED
      BY <1>0, <3>1, <3>2, <3>3
  <2>3. ticks' <= PassTicks /\ slipped' = {}
    BY <1>0, <1>1 DEF Millisecond
  <2> QED
    BY <2>1, <2>2, <2>3 DEF SlipInv
<1>2. CASE TakeFrame
  <2>1. /\ pc = "receive" /\ queue # <<>> /\ queue' = Tail(queue)
        /\ UNCHANGED <<pc, ticks, position>>
        /\ sampled' = [sampled EXCEPT ![queue[1].motor] = queue[1].at]
        /\ slipped' = IF Near(queue[1].at, sampled[queue[1].motor])
                        THEN slipped ELSE slipped \cup {queue[1].motor}
        /\ queue[1].motor \in Handled
    BY <1>2, TakeFrameFacts DEF TakeFrame
  <2>2. ASSUME NEW m \in Handled
        PROVE  /\ FramesNear(m)' /\ LagBound(m)'
               /\ queue[1].motor = m => Near(queue[1].at, sampled[m])
    <3>1. sampled'[m] = IF queue[1].motor = m THEN queue[1].at ELSE sampled[m]
      BY <1>0, <2>1 DEF TypeOK
    <3> QED
      BY <2>1, <3>1, HeadSlip
  <2>3. slipped' = {}
    BY <1>0, <2>1, <2>2
  <2> QED
    BY <1>0, <2>1, <2>2, <2>3 DEF SlipInv
<1>3. CASE SkipFrame
  <2>1. /\ pc = "receive" /\ queue # <<>> /\ queue' = Tail(queue)
        /\ UNCHANGED <<pc, ticks, position, sampled, slipped>>
        /\ queue[1].motor \notin Handled
    BY <1>3, QueueFacts DEF SkipFrame
  <2>2. ASSUME NEW m \in Handled PROVE FramesNear(m)' /\ LagBound(m)'
    <3>1. sampled'[m] = IF queue[1].motor = m THEN queue[1].at ELSE sampled[m]
      BY <2>1, <2>2
    <3> QED
      BY <2>1, <3>1, HeadSlip
  <2> QED
    BY <1>0, <2>1, <2>2 DEF SlipInv
<1>4. ASSUME UNCHANGED canVars,
             \/ pc' = pc
             \/ pc' \notin {"receive", "send", "delay"}
             \/ pc = "receive" /\ queue = <<>> /\ pc' = "send"
             \/ pc = "send" /\ pc' = "delay"
      PROVE  SlipInv'
  <2>1. UNCHANGED <<ticks, position, queue, sampled, slipped>>
    BY <1>4 DEF canVars
  <2>2. ASSUME NEW m \in Handled PROVE FramesNear(m)'
    BY <2>1, <2>2 DEF SlipInv, FramesNear, Of, Known, Near, Abs, HALF_ENCODER
  <2>3. ASSUME NEW m \in Handled PROVE LagBound(m)'
    <3>1. LagBound(m)
      BY DEF SlipInv
    <3>2. ASSUME NEW n PROVE Lag(m, n)' <=> Lag(m, n)
      BY <2>1 DEF Lag, Of, Known, Abs
    <3> QED
      BY <1>4, <2>1, <3>1, <3>2 DEF LagBound, HALF_ENCODER
  <2> QED
    BY <1>0, <2>1, <2>2, <2>3 DEF SlipInv
<1>5. CASE QueueEmpty \/ CurrentsSent
  BY <1>4, <1>5 DEF QueueEmpty, CurrentsSent
<1>6. CASE Pulse \/ GetCounter \/ ClearCounter \/ AddCount \/ UNCHANGED vars
  BY <1>4, <1>6 DEF Pulse, GetCounter, ClearCounter, AddCount, vars
<1> QED
  BY <1>1, <1>2, <1>3, <1>5, <1>6 DEF Next

(* twai_receive_feedback judges the turns right although the driver loses  *)
(* frames: the queue has room for one of every motor and passes are short, *)
(* so those that it keeps are never half a turn apart.                     *)
THEOREM NeverSlipsInTime == RoomAndTime => (Spec => []NeverSlips)
<1> SUFFICES ASSUME RoomAndTime PROVE Spec => []NeverSlips
  OBVIOUS
<1>1. Init => SlipInv
  BY SlipInit
<1>2. TypeOK /\ TypeOK' /\ SlipInv /\ [Next]_vars => SlipInv'
  BY SlipStep
<1>3. SlipInv => NeverSlips
  BY DEF SlipInv
<1> QED
  BY <1>1, <1>2, <1>3, AngleInvariant, PTL DEF Spec

(* The position of a motor is then always the one of the last frame taken. *)
THEOREM PositionsExact ==
  RoomAndTime => (Spec => [](\A m \in Motors : total_encoder[m] = sampled[m]))
<1> SUFFICES ASSUME RoomAndTime
             PROVE  Spec => [](\A m \in Motors : total_encoder[m] = sampled[m])
  OBVIOUS
<1>1. NeverSlips /\ AnglesExact => \A m \in Motors : total_encoder[m] = sampled[m]
  BY DEF NeverSlips, AnglesExact
<1> QED
  BY <1>1, NeverSlipsInTime, AnglesAlwaysExact, PTL

-------------------------------------------------------------------------------
(* Pulses                                                                  *)

LEMMA PulseStep == TypeOK /\ PulseInv /\ [Next]_vars => PulseInv'
<1> SUFFICES ASSUME TypeOK, PulseInv, [Next]_vars PROVE PulseInv'
  OBVIOUS
<1>1. CASE Pulse
  BY <1>1 DEF Pulse, TypeOK, PulseInv
<1>2. CASE GetCounter
  BY <1>2 DEF GetCounter, TypeOK, PulseInv
<1>3. CASE ClearCounter
  BY <1>3 DEF ClearCounter, TypeOK, PulseInv
<1>4. CASE AddCount
  <2>1. /\ pulses \in Int /\ counter \in Int /\ cnt \in Int
        /\ total_cnt \in Int /\ origin \in Int /\ gap \in Int
    BY DEF TypeOK
  <2>2. /\ pc' = "get" /\ UNCHANGED <<pulses, counter, gap>>
        /\ total_cnt + cnt + counter = pulses - origin - gap
    BY <1>4 DEF AddCount, PulseInv
  <2>3. CASE total_cnt' = total_cnt + cnt /\ UNCHANGED origin
    BY <2>1, <2>2, <2>3 DEF PulseInv
  <2>4. CASE total_cnt' = 0 /\ origin' = pulses - gap - counter
    BY <2>1, <2>2, <2>4 DEF PulseInv
  <2> QED
    BY <1>4, <2>3, <2>4 DEF AddCount
<1>5. CASE UNCHANGED vars
  BY <1>5 DEF vars, pulseVars, PulseInv
<1>6. CASE Millisecond \/ TakeFrame \/ SkipFrame \/ QueueEmpty \/ CurrentsSent
  BY <1>6
  DEF Millisecond, TakeFrame, SkipFrame, QueueEmpty, CurrentsSent, PulseInv,
      pulseVars
<1> QED
  BY <1>1, <1>2, <1>3, <1>4, <1>5, <1>6 DEF Next

(* pid_control only loses the pulses between its two calls to the counter. *)
THEOREM PulsesAlwaysKept == Spec => []PulsesKept
<1>1. Init => PulseInv
  BY DEF Init, PulseInv
<1>2. TypeOK /\ PulseInv /\ [Next]_vars => PulseInv'
  BY PulseStep
<1>3. PulseInv => PulsesKept
  BY DEF PulseInv, PulsesKept
<1> QED
  BY <1>1, <1>2, <1>3, AngleInvariant, PTL DEF Spec
================================================================================
