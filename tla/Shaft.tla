--------------------------------- MODULE Shaft ---------------------------------
(***************************************************************************)
(* How the firmware knows where a shaft is.  The Robomas motors send their *)
(* encoder angle, within a turn, in a CAN frame every millisecond; the     *)
(* control task takes the frames out of the queue of the TWAI driver once  *)
(* per pass and counts the turns.  Encoders on the pins feed a pulse       *)
(* counter, which pid_control reads and clears in every pass.  Motors and  *)
(* pulses go on while the tasks work.                                      *)
(*                                                                         *)
(* The regulation itself, floating-point arithmetic, is left out: it       *)
(* changes none of this state.                                             *)
(***************************************************************************)
EXTENDS Integers, Sequences, FiniteSets

CONSTANTS
  Motors,      \* 1 .. n, in the order in which their frames win the bus
  Handled,     \* the motors whose identifiers the task looks for
  EncoderMax,  \* ENCODER_MAX, counts per turn
  QueueLen,    \* rx_queue_len of TWAI_GENERAL_CONFIG_DEFAULT
  MaxStep,     \* counts a motor turns at most in a millisecond
  PassTicks,   \* milliseconds a pass takes at most before its vTaskDelay
  MaxPosition, \* bound on the positions
  MaxPulses    \* bound on the pulses

HALF_ENCODER == EncoderMax \div 2

VARIABLES
  pc,              \* what the control task does next
  ticks,           \* milliseconds this pass has taken
  position,        \* counts each motor has turned, since it was nearest to 0
  queue,           \* frames the TWAI driver holds
  last_encoder,    \* the encoder angle of the last frame
  rotation_count,  \* whole turns
  total_encoder,   \* position as the task has it
  sampled,         \* position when the last frame was made
  slipped          \* motors two successive frames of which were too far apart

canVars == <<ticks, position, queue, last_encoder, rotation_count,
             total_encoder, sampled, slipped>>

VARIABLES
  pulses,     \* pulses of an encoder so far, backward ones negative
  counter,    \* the value of its pulse counter
  cnt,        \* cnt0 or cnt1
  total_cnt,  \* position as pid_control has it
  origin,     \* pulses when the position was last set to 0
  gap         \* pulses between reading the counter and clearing it

pulseVars == <<pulses, counter, cnt, total_cnt, origin, gap>>
vars == <<pc, canVars, pulseVars>>

ASSUME EncoderAssumption ==
  EncoderMax \in Nat \ {0} /\ EncoderMax = 2 * HALF_ENCODER

ASSUME QueueAssumption ==
  /\ Cardinality(Motors) \in Nat /\ Motors = 1 .. Cardinality(Motors)
  /\ Handled \subseteq Motors
  /\ QueueLen \in Nat
  /\ MaxStep \in Nat

(* The queue has room for a frame of every motor, and no motor turns half  *)
(* a turn in the time of two passes.                                       *)
RoomAndTime ==
  /\ Cardinality(Motors) <= QueueLen
  /\ PassTicks \in Nat
  /\ (2 * PassTicks + 1) * MaxStep < HALF_ENCODER

Abs(n) == IF n < 0 THEN -n ELSE n
Near(a, b) == Abs(a - b) < HALF_ENCODER

(* The encoder angle within the turn, as a frame carries it.               *)
AngleOf(n) == n % EncoderMax

(* Which of its turns a motor is in has no meaning before its first frame, *)
(* so it can be taken to be less than half a turn from 0 then.             *)
FirstPositions ==
  {n \in -HALF_ENCODER .. HALF_ENCODER : Abs(n) + MaxStep < HALF_ENCODER}

Init ==
  /\ pc \in {"receive", "get"}
  /\ ticks = 0
  /\ position \in {p \in [Motors -> FirstPositions] :
                     \A m \in Motors \ Handled : p[m] = 0}
  /\ queue = <<>>
  /\ last_encoder = [m \in Motors |-> 0]
  /\ rotation_count = [m \in Motors |-> 0]
  /\ total_encoder = [m \in Motors |-> 0]
  /\ sampled = [m \in Motors |-> 0]
  /\ slipped = {}
  /\ pulses = 0
  /\ counter = 0
  /\ cnt = 0
  /\ total_cnt = 0
  /\ origin = 0
  /\ gap = 0

-------------------------------------------------------------------------------
(* Robomas motors                                                          *)

Frame(m, n) == [motor |-> m, angle |-> AngleOf(n), at |-> n]

(* A millisecond passes: every motor turns and sends a frame.  The driver  *)
(* drops what does not fit into its queue.                                 *)
Arrived(at) ==
  LET all == queue \o [m \in Motors |-> Frame(m, at[m])] IN
  IF Len(all) > QueueLen THEN SubSeq(all, 1, QueueLen) ELSE all

Millisecond ==
  /\ \/ pc \in {"receive", "send"} /\ ticks < PassTicks
        /\ ticks' = ticks + 1 /\ UNCHANGED pc
     \/ pc = "delay" /\ ticks' = 0 /\ pc' = "receive"
  /\ \E step \in [Handled -> -MaxStep .. MaxStep] :
       position' = [m \in Motors |->
         IF m \in Handled THEN position[m] + step[m] ELSE position[m]]
  /\ \A m \in Motors : Abs(position'[m]) <= MaxPosition
  /\ queue' = Arrived(position')
  /\ UNCHANGED <<last_encoder, rotation_count, total_encoder, sampled, slipped,
                 pulseVars>>

(* mistake: the turns are counted the other way round                      *)
TurnsWrong(angle, last) ==
  LET diff == angle - last IN
  IF diff > HALF_ENCODER THEN 1 ELSE IF diff < -HALF_ENCODER THEN -1 ELSE 0

(* How many turns further a frame is, judged by the shorter way.           *)
Turns(angle, last) ==
  LET diff == angle - last IN
  IF diff > HALF_ENCODER THEN -1 ELSE IF diff < -HALF_ENCODER THEN 1 ELSE 0

(* twai_receive_feedback: one round of its loop, for a frame of a motor    *)
(* it handles,                                                             *)
TakeFrame ==
  LET f == Head(queue)
      m == f.motor IN
  /\ pc = "receive"
  /\ queue # <<>>
  /\ m \in Handled
  /\ queue' = Tail(queue)
  /\ rotation_count' =
       [rotation_count EXCEPT ![m] = @ + Turns(f.angle, last_encoder[m])]
  /\ last_encoder' = [last_encoder EXCEPT ![m] = f.angle]
  /\ total_encoder' =
       [total_encoder EXCEPT ![m] = rotation_count'[m] * EncoderMax + f.angle]
  /\ sampled' = [sampled EXCEPT ![m] = f.at]
  /\ slipped' = IF Near(f.at, sampled[m]) THEN slipped ELSE slipped \cup {m}
  /\ UNCHANGED <<pc, ticks, position, pulseVars>>

(* and for any other frame.                                                *)
SkipFrame ==
  /\ pc = "receive"
  /\ queue # <<>>
  /\ Head(queue).motor \notin Handled
  /\ queue' = Tail(queue)
  /\ UNCHANGED <<pc, ticks, position, last_encoder, rotation_count,
                 total_encoder, sampled, slipped, pulseVars>>

(* mistake: frames may be left in the queue, as with "if" for "while"      *)
QueueEmptyOrNot ==
  /\ pc = "receive"
  /\ pc' = "send"
  /\ UNCHANGED <<canVars, pulseVars>>

QueueEmpty ==
  /\ pc = "receive"
  /\ queue = <<>>
  /\ pc' = "send"
  /\ UNCHANGED <<canVars, pulseVars>>

(* twai_transmit comes back, with or without success.                      *)
CurrentsSent ==
  /\ pc = "send"
  /\ pc' = "delay"
  /\ UNCHANGED <<canVars, pulseVars>>

-------------------------------------------------------------------------------
(* Pulse counters and pid_control                                          *)

Pulse ==
  /\ pc \in {"get", "clear", "add"}
  /\ \E d \in {-1, 1} :
       /\ Abs(pulses + d) <= MaxPulses
       /\ pulses' = pulses + d
       /\ counter' = counter + d
       /\ gap' = IF pc = "clear" THEN gap + d ELSE gap
       /\ Abs(gap') <= MaxPulses
  /\ UNCHANGED <<pc, canVars, cnt, total_cnt, origin>>

(* pcnt_get_counter_value                                                  *)
GetCounter ==
  /\ pc = "get"
  /\ cnt' = counter
  /\ pc' = "clear"
  /\ UNCHANGED <<canVars, pulses, counter, total_cnt, origin, gap>>

(* pcnt_counter_clear                                                      *)
ClearCounter ==
  /\ pc = "clear"
  /\ counter' = 0
  /\ pc' = "add"
  /\ UNCHANGED <<canVars, pulses, cnt, total_cnt, origin, gap>>

(* mistake: the counter is read again instead of the copy                  *)
AddCountAgain ==
  /\ pc = "add"
  /\ total_cnt' = total_cnt + counter
  /\ pc' = "get"
  /\ UNCHANGED <<canVars, pulses, counter, cnt, origin, gap>>

(* The count is added up, and the position is set to 0 if a command says so. *)
AddCount ==
  /\ pc = "add"
  /\ \/ total_cnt' = total_cnt + cnt /\ UNCHANGED origin
     \/ total_cnt' = 0 /\ origin' = pulses - gap - counter
  /\ pc' = "get"
  /\ UNCHANGED <<canVars, pulses, counter, cnt, gap>>

-------------------------------------------------------------------------------
Next ==
  \/ Millisecond \/ TakeFrame \/ SkipFrame \/ QueueEmpty \/ CurrentsSent
  \/ Pulse \/ GetCounter \/ ClearCounter \/ AddCount

Spec == Init /\ [][Next]_vars

-------------------------------------------------------------------------------
(* Properties                                                              *)

TypeOK ==
  /\ pc \in {"receive", "send", "delay", "get", "clear", "add"}
  /\ ticks \in Nat
  /\ position \in [Motors -> Int]
  /\ queue \in Seq([motor : Motors, angle : Int, at : Int])
  /\ last_encoder \in [Motors -> Int]
  /\ rotation_count \in [Motors -> Int]
  /\ total_encoder \in [Motors -> Int]
  /\ sampled \in [Motors -> Int]
  /\ slipped \subseteq Motors
  /\ pulses \in Int /\ counter \in Int /\ cnt \in Int
  /\ total_cnt \in Int /\ origin \in Int /\ gap \in Int

(* The position the task computes is the one of the last frame it took,    *)
(* however often the angle ran through 0 and in both directions, unless    *)
(* the motor once turned half a turn or more between two frames taken.     *)
AnglesExact ==
  \A m \in Motors \ slipped : total_encoder[m] = sampled[m]

(* That never happens when RoomAndTime: although frames are lost, those    *)
(* that stay are not too far apart.                                        *)
NeverSlips == slipped = {}

(* No pulse is lost or counted twice, except for those that come after the *)
(* counter was read and before it is cleared.                              *)
PulsesKept ==
  pc = "get" => total_cnt + counter = pulses - origin - gap
================================================================================
