-------------------------------- MODULE McuTasks --------------------------------
(***************************************************************************)
(* A microcontroller that runs one firmware image: the tasks of the image  *)
(* share Rx_16Data, which serialTask fills from command frames, and        *)
(* Tx_16Data, from which it makes telemetry frames.  No lock protects      *)
(* either; the ESP32 has two cores and the tasks are not pinned, so any    *)
(* two of them interleave word by word.                                    *)
(*                                                                         *)
(* A command is known by its number: a word of Rx_16Data, a local copy of  *)
(* it and an output hold the number of the frame their value comes from.   *)
(***************************************************************************)
EXTENDS Integers, Sequences

CONSTANTS
  Images,     \* Images[m]: the pins and the tasks of the image m
  RxWatched,  \* the words of Rx_16Data and of Tx_16Data that are looked at;
  TxWatched,  \* what tasks do with the other words is left out
  Rx16Num,    \* Rx16NUM
  MaxFrames,  \* bound on the command frames
  Miswired    \* images in which a unit in use loses its pins or never gets any

None == ""

Watched(s) ==
  /\ s.op \in {"copy", "drive", "preset"} => s.word \in RxWatched
  /\ s.op = "sample" => s.word \in TxWatched

Tasks == UNION {DOMAIN Images[m].tasks : m \in DOMAIN Images}

(* The steps of a task, first those done once; where those done for ever   *)
(* begin.  A task that has none (setup of the ESP32s) ends.                *)
Boot == [m \in DOMAIN Images |-> [t \in DOMAIN Images[m].tasks |->
           SelectSeq(Images[m].tasks[t].boot, Watched)]]
Loop == [m \in DOMAIN Images |-> [t \in DOMAIN Images[m].tasks |->
           SelectSeq(Images[m].tasks[t].loop, Watched)]]
Program == [m \in DOMAIN Images |-> [t \in DOMAIN Images[m].tasks |->
  LET task == Images[m].tasks[t]
  IN  SelectSeq(task.boot, Watched) \o SelectSeq(task.loop, Watched)]]
PassBegins(m, t) == Len(Boot[m][t]) + 1

(* The watched words and the outputs that the tasks of an image access.    *)
Accesses(m, op) ==
  UNION {{s \in {Program[m][t][i] : i \in DOMAIN Program[m][t]} : s.op = op} :
           t \in DOMAIN Program[m]}
RxUsed == [m \in DOMAIN Images |-> {s.word : s \in Accesses(m, "copy")}]
TxUsed == [m \in DOMAIN Images |-> {s.word : s \in Accesses(m, "sample")}]
Driven == [m \in DOMAIN Images |-> {s.unit : s \in Accesses(m, "drive")}]
Outputs == UNION {Driven[m] : m \in DOMAIN Images}

(* The word that drives an output: no two images differ in it.             *)
WordOf == [o \in Outputs |->
             CHOOSE w \in RxWatched :
               \E m \in DOMAIN Images : \E s \in Accesses(m, "drive") :
                 s.unit = o /\ s.word = w]

(* The peripherals a task goes on using, in words that are not watched too. *)
Uses == [m \in DOMAIN Images |-> [t \in DOMAIN Images[m].tasks |->
           LET steps == Images[m].tasks[t].loop
           IN  UNION {steps[i].via : i \in DOMAIN steps}]]
(* The drive steps and the sample steps of a task.                         *)
StepsOf(op) == [m \in DOMAIN Images |-> [t \in DOMAIN Program[m] |->
  {s \in {Program[m][t][i] : i \in DOMAIN Program[m][t]} : s.op = op}]]
Drives == StepsOf("drive")
Samples == StepsOf("sample")

PinsOf(m, u) == IF u \in DOMAIN Images[m].pins THEN Images[m].pins[u] ELSE {}
AllPins(m) == UNION {PinsOf(m, u) : u \in DOMAIN Images[m].pins}

ASSUME SizeAssumption == RxWatched \subseteq Nat /\ MaxFrames \in Nat

Steps == [op : STRING, word : Int, unit : STRING, via : SUBSET STRING]

(* The steps name words and outputs that are there.                        *)
ASSUME ProgramAssumption ==
  \A m \in DOMAIN Images :
    /\ "setup" \in DOMAIN Program[m]
    /\ \A t \in DOMAIN Program[m] :
         /\ Boot[m][t] \in Seq(Steps)
         /\ Loop[m][t] \in Seq(Steps)
         /\ \A i \in DOMAIN Program[m][t] :
              LET s == Program[m][t][i] IN
              /\ s.op \in {"copy", "drive", "preset"} => s.word \in RxWatched
              /\ s.op = "sample" => s.word \in TxWatched
              /\ s.op = "start" => s.unit \in DOMAIN Program[m]
              /\ s.op = "drive" => s.unit \in Outputs /\ s.word = WordOf[s.unit]

(* An output is driven by one task of an image only.                       *)
ASSUME DriverAssumption ==
  \A m \in DOMAIN Images : \A t, u \in DOMAIN Program[m] :
    \A i \in DOMAIN Program[m][t], j \in DOMAIN Program[m][u] :
      LET r == Program[m][t][i]
          s == Program[m][u][j] IN
      r.op = "drive" /\ s.op = "drive" /\ r.unit = s.unit => t = u

(* Words are preset before the loop begins, by the task that copies them.  *)
ASSUME PresetAssumption ==
  \A m \in DOMAIN Images : \A t, u \in DOMAIN Program[m] :
    \A i \in DOMAIN Program[m][t], j \in DOMAIN Program[m][u] :
      LET r == Program[m][t][i]
          s == Program[m][u][j] IN
      r.op = "preset" =>
        /\ i < PassBegins(m, t)
        /\ s.op = "copy" /\ r.word = s.word => t = u /\ i < j

(* A task copies a word before it sets any output from it, and it sets an  *)
(* output once in a pass, which it does not break off.                     *)
ASSUME CarryAssumption ==
  \A m \in DOMAIN Images : \A t \in DOMAIN Program[m] :
    \A i, j \in DOMAIN Program[m][t] :
      LET r == Program[m][t][i]
          s == Program[m][t][j] IN
      r.op = "drive" =>
        /\ PassBegins(m, t) <= i
        /\ s.op = "copy" /\ r.word = s.word => PassBegins(m, t) <= j /\ j < i
        /\ s.op = "drive" /\ r.unit = s.unit => i = j
        /\ s.op # "await"

(* Only one task of an image measures, and all that its image samples is    *)
(* sampled by it, after it measured and has no more to wait for.           *)
ASSUME MeasureAssumption ==
  \A m \in DOMAIN Images : \A t, u \in DOMAIN Program[m] :
    \A i \in DOMAIN Program[m][t], j \in DOMAIN Program[m][u] :
      Program[m][t][i].op \in {"measure", "await"} =>
        /\ PassBegins(m, t) <= i
        /\ Program[m][u][j].op = "sample" => t = u /\ i < j

(* Step i of the initialisation of t gives a unit its pins for good: what   *)
(* takes one of them away comes before it.                                 *)
Secures(m, t, i, unit) ==
  LET s == Program[m][t][i] IN
  /\ i < PassBegins(m, t)
  /\ s.op = "configure" /\ unit \in s.via
  /\ \A u \in DOMAIN Program[m] : \A j \in DOMAIN Program[m][u] :
       LET r == Program[m][u][j] IN
       r.op = "configure" =>
         \/ u = t /\ j < i
         \/ \A o \in r.via \ {unit} : PinsOf(m, o) \cap PinsOf(m, unit) = {}

(* A task does it itself, or nobody starts the task before it is done.     *)
InTime(m, t, i, user) ==
  \/ user = t
  \/ /\ user # "setup"
     /\ \A u \in DOMAIN Program[m] : \A j \in DOMAIN Program[m][u] :
          LET r == Program[m][u][j] IN
          r.op = "start" /\ r.unit = user => u = t /\ i < j

(* Each peripheral a task uses has pins, and one of the initialisations    *)
(* secures them.                                                           *)
WiredRight(m) ==
  \A user \in DOMAIN Program[m] : \A unit \in Uses[m][user] :
    /\ PinsOf(m, unit) # {}
    /\ \E t \in DOMAIN Program[m] : \E i \in DOMAIN Program[m][t] :
         Secures(m, t, i, unit) /\ InTime(m, t, i, user)

ASSUME WiringAssumption == \A m \in DOMAIN Images \ Miswired : WiredRight(m)

VARIABLES
  image,        \* the mode of config.hpp the firmware was built for
  started,      \* the tasks that have been created
  pc,           \* the next step of each task
  frames,       \* number of command frames accepted so far
  storing,      \* words of the last frame that receive_frame has yet to store
  rx,           \* Rx_16Data
  accepted,     \* the last frame that set each word
  overwritten,  \* words given an initial value since a frame last set them
  copy,         \* copy[t]: local variables of task t
  out,          \* what the outputs were last set from
  wired,        \* the peripheral each pin was last configured for
  echo,         \* whether the last measurement succeeded
  tx,           \* Tx_16Data: whether a word is from a measurement that succeeded
  sending,      \* words of the frame that send_frame has yet to copy
  high          \* of the least of these: whether its high byte was copied, and
                \* whether it was sampled since

vars == <<image, started, pc, frames, storing, rx, accepted, overwritten,
          copy, out, wired, echo, tx, sending, high>>
commandVars == <<frames, storing, rx, accepted, overwritten, copy, out>>
telemetryVars == <<echo, tx, sending, high>>

Init ==
  /\ image \in DOMAIN Images
  /\ started = {"setup"}
  /\ pc = [t \in DOMAIN Program[image] |-> 1]
  /\ frames = 0
  /\ storing = {}
  /\ rx = [w \in RxWatched |-> 0]
  /\ accepted = [w \in RxWatched |-> 0]
  /\ overwritten = {}
  /\ copy = [t \in DOMAIN Program[image] |-> [w \in RxWatched |-> 0]]
  /\ out = [o \in Outputs |-> 0]
  /\ wired = [p \in AllPins(image) |-> None]
  /\ echo = FALSE
  /\ tx = [w \in TxWatched |-> FALSE]
  /\ sending = {}
  /\ high = "no"

IsLeast(w, S) == w \in S /\ \A v \in S : w <= v

-------------------------------------------------------------------------------
(* Tasks                                                                   *)

Ready(t, op) ==
  /\ t \in started
  /\ pc[t] <= Len(Program[image][t])
  /\ Program[image][t][pc[t]].op = op

Current(t) == Program[image][t][pc[t]]

(* After the last step comes the first one of the loop, if there is one.   *)
After(t) ==
  IF pc[t] = Len(Program[image][t]) /\ Loop[image][t] # <<>>
    THEN PassBegins(image, t) ELSE pc[t] + 1
Advance(t) == pc' = [pc EXCEPT ![t] = After(t)]

(* xTaskCreate: the new task may run at once, on the other core.           *)
StartTask(t) ==
  /\ Ready(t, "start")
  /\ started' = started \cup {Current(t).unit}
  /\ Advance(t)
  /\ UNCHANGED <<image, wired, commandVars, telemetryVars>>

(* mistake: only one of the peripherals gets its pins                       *)
ConfigurePinsOnce(t) ==
  LET units == Current(t).via
      takers(p) == {u \in units : p \in PinsOf(image, u)}
                     \cap {CHOOSE u \in units : TRUE} IN
  /\ Ready(t, "configure")
  /\ wired' = [p \in AllPins(image) |->
       IF takers(p) = {} THEN wired[p] ELSE CHOOSE u \in takers(p) : TRUE]
  /\ Advance(t)
  /\ UNCHANGED <<image, started, commandVars, telemetryVars>>

(* pinMode, ledcAttachPin, pcnt_unit_config, attach, begin, ...            *)
ConfigurePins(t) ==
  LET units == Current(t).via
      takers(p) == {u \in units : p \in PinsOf(image, u)} IN
  /\ Ready(t, "configure")
  /\ wired' = [p \in AllPins(image) |->
       IF takers(p) = {} THEN wired[p] ELSE CHOOSE u \in takers(p) : TRUE]
  /\ Advance(t)
  /\ UNCHANGED <<image, started, commandVars, telemetryVars>>

CopyWord(t) ==
  LET w == Current(t).word IN
  /\ Ready(t, "copy")
  /\ copy' = [copy EXCEPT ![t][w] = rx[w]]
  /\ Advance(t)
  /\ UNCHANGED <<image, started, wired, frames, storing, rx, accepted,
                 overwritten, out, telemetryVars>>

(* mistake: the word of Rx_16Data is read again                            *)
DriveOutputAgain(t) ==
  LET s == Current(t) IN
  /\ Ready(t, "drive")
  /\ out' = [out EXCEPT ![s.unit] = rx[s.word]]
  /\ Advance(t)
  /\ UNCHANGED <<image, started, wired, frames, storing, rx, accepted,
                 overwritten, copy, telemetryVars>>

DriveOutput(t) ==
  LET s == Current(t) IN
  /\ Ready(t, "drive")
  /\ out' = [out EXCEPT ![s.unit] = copy[t][s.word]]
  /\ Advance(t)
  /\ UNCHANGED <<image, started, wired, frames, storing, rx, accepted,
                 overwritten, copy, telemetryVars>>

(* Output_Task: Rx_16Data[9] = SERVO1_INIT_DEG and so on.                  *)
PresetWord(t) ==
  LET w == Current(t).word IN
  /\ Ready(t, "preset")
  /\ rx' = [rx EXCEPT ![w] = 0]
  /\ overwritten' =
       IF rx[w] > 0 THEN overwritten \cup {w} ELSE overwritten
  /\ Advance(t)
  /\ UNCHANGED <<image, started, wired, frames, storing, accepted, copy, out,
                 telemetryVars>>

MeasureDistance(t) ==
  /\ Ready(t, "measure")
  /\ echo' \in BOOLEAN
  /\ Advance(t)
  /\ UNCHANGED <<image, started, wired, commandVars, tx, sending, high>>

(* SDM15_Task: without a good frame of the lidar nothing is written.       *)
AwaitMeasurement(t) ==
  /\ Ready(t, "await")
  /\ pc' = [pc EXCEPT ![t] =
       IF echo THEN After(t) ELSE PassBegins(image, t)]
  /\ UNCHANGED <<image, started, wired, commandVars, telemetryVars>>

(* mistake: only the flag is written when there is no echo                 *)
SampleInputFlag(t) ==
  LET s == Current(t) IN
  /\ Ready(t, "sample")
  /\ tx' = IF echo \/ s.word = 0 THEN [tx EXCEPT ![s.word] = echo] ELSE tx
  /\ high' = IF high = "copied" /\ IsLeast(s.word, sending) THEN "stale" ELSE high
  /\ Advance(t)
  /\ UNCHANGED <<image, started, wired, commandVars, echo, sending>>

SampleInput(t) ==
  LET s == Current(t) IN
  /\ Ready(t, "sample")
  /\ tx' = [tx EXCEPT ![s.word] = echo]
  /\ high' = IF high = "copied" /\ IsLeast(s.word, sending) THEN "stale" ELSE high
  /\ Advance(t)
  /\ UNCHANGED <<image, started, wired, commandVars, echo, sending>>

-------------------------------------------------------------------------------
(* serialTask                                                              *)

(* A complete frame is accepted.  It may have any number of words.         *)
FrameAccepted(t) ==
  /\ Ready(t, "receive")
  /\ storing = {}
  /\ frames < MaxFrames
  /\ \E n \in 0 .. Rx16Num : storing' = {w \in RxUsed[image] : w < n}
  /\ frames' = frames + 1
  /\ UNCHANGED <<image, started, pc, wired, rx, accepted, overwritten, copy,
                 out, telemetryVars>>

(* mistake: now and then the word of an older frame                        *)
StoreWordOld(t) ==
  /\ Ready(t, "receive")
  /\ \E w \in storing :
       /\ IsLeast(w, storing)
       /\ rx' = [rx EXCEPT ![w] = IF frames > 1 /\ rx[w] = frames - 1
                                    THEN frames - 2 ELSE frames]
       /\ accepted' = [accepted EXCEPT ![w] = frames]
       /\ overwritten' = overwritten \ {w}
       /\ storing' = storing \ {w}
  /\ UNCHANGED <<image, started, pc, wired, frames, copy, out, telemetryVars>>

(* mistake: the loop stops one word early                                  *)
StoreWordShort(t) ==
  /\ Ready(t, "receive")
  /\ \E w \in storing :
       /\ IsLeast(w, storing)
       /\ rx' = IF storing = {w} THEN rx ELSE [rx EXCEPT ![w] = frames]
       /\ accepted' = [accepted EXCEPT ![w] = frames]
       /\ overwritten' = overwritten \ {w}
       /\ storing' = storing \ {w}
  /\ UNCHANGED <<image, started, pc, wired, frames, copy, out, telemetryVars>>

(* Rx_16Data[i] = ..., for i from 0 upwards.                               *)
StoreWord(t) ==
  /\ Ready(t, "receive")
  /\ \E w \in storing :
       /\ IsLeast(w, storing)
       /\ rx' = [rx EXCEPT ![w] = frames]
       /\ accepted' = [accepted EXCEPT ![w] = frames]
       /\ overwritten' = overwritten \ {w}
       /\ storing' = storing \ {w}
  /\ UNCHANGED <<image, started, pc, wired, frames, copy, out, telemetryVars>>

(* Serial.available() is 0.                                                *)
NothingReceived(t) ==
  /\ Ready(t, "receive")
  /\ storing = {}
  /\ Advance(t)
  /\ UNCHANGED <<image, started, wired, commandVars, telemetryVars>>

(* TX_PERIOD_MS has passed.                                                *)
SendBegins(t) ==
  /\ Ready(t, "send")
  /\ sending = {}
  /\ sending' = TxUsed[image]
  /\ UNCHANGED <<image, started, pc, wired, commandVars, echo, tx, high>>

(* Tx_8Data[3 + i * 2] = Tx_16Data[i] >> 8                                 *)
SendHighByte(t) ==
  /\ Ready(t, "send")
  /\ sending # {}
  /\ high = "no"
  /\ high' = "copied"
  /\ UNCHANGED <<image, started, pc, wired, commandVars, echo, tx, sending>>

(* Tx_8Data[3 + i * 2 + 1] = Tx_16Data[i] & 0xFF, in a second access to    *)
(* the volatile word.  After the last word the frame is written.           *)
SendLowByte(t) ==
  /\ Ready(t, "send")
  /\ high # "no"
  /\ high' = "no"
  /\ \E w \in sending : IsLeast(w, sending) /\ sending' = sending \ {w}
  /\ IF sending' = {} THEN Advance(t) ELSE UNCHANGED pc
  /\ UNCHANGED <<image, started, wired, commandVars, echo, tx>>

NothingSent(t) ==
  /\ Ready(t, "send")
  /\ sending = {}
  /\ Advance(t)
  /\ UNCHANGED <<image, started, wired, commandVars, telemetryVars>>

-------------------------------------------------------------------------------
TaskStep(t) ==
  \/ StartTask(t) \/ ConfigurePins(t)
  \/ CopyWord(t) \/ DriveOutput(t) \/ PresetWord(t)
  \/ MeasureDistance(t) \/ AwaitMeasurement(t) \/ SampleInput(t)
  \/ FrameAccepted(t) \/ StoreWord(t) \/ NothingReceived(t)
  \/ SendBegins(t) \/ SendHighByte(t) \/ SendLowByte(t) \/ NothingSent(t)

Next == \E t \in DOMAIN Program[image] : TaskStep(t)

(* Every task blocks in each of its passes, so none starves another.       *)
Fairness ==
  \A t \in Tasks : WF_vars(t \in DOMAIN Program[image] /\ TaskStep(t))

Spec == Init /\ [][Next]_vars /\ Fairness

-------------------------------------------------------------------------------
(* Properties                                                              *)

TypeOK ==
  /\ image \in DOMAIN Images
  /\ started \subseteq DOMAIN Program[image]
  /\ pc \in [DOMAIN Program[image] -> Nat \ {0}]
  /\ frames \in 0 .. MaxFrames
  /\ storing \subseteq RxWatched
  /\ rx \in [RxWatched -> 0 .. MaxFrames]
  /\ accepted \in [RxWatched -> 0 .. MaxFrames]
  /\ overwritten \subseteq RxWatched
  /\ copy \in [DOMAIN Program[image] -> [RxWatched -> 0 .. MaxFrames]]
  /\ out \in [Outputs -> 0 .. MaxFrames]
  /\ DOMAIN wired = AllPins(image)
  /\ echo \in BOOLEAN
  /\ tx \in [TxWatched -> BOOLEAN]
  /\ sending \subseteq TxWatched
  /\ high \in {"no", "copied", "stale"}

(* In an image that is not Miswired, a task only works with peripherals    *)
(* that have their pins, all of them: once its initialisation is over,     *)
(* neither was one forgotten nor has another initialisation taken a pin    *)
(* away.  The five images of the repository that are, are in the README.   *)
Configured ==
  image \notin Miswired =>
    \A t \in started : pc[t] >= PassBegins(image, t) =>
      \A u \in Uses[image][t] :
        /\ PinsOf(image, u) # {}
        /\ \A p \in PinsOf(image, u) : wired[p] = u

(* Between its passes, a task leaves outputs that follow the same word set *)
(* from the same command: a motor never keeps the direction of one command *)
(* with the duty of another, whenever serialTask came in between.          *)
DriversAgree ==
  \A t \in started : pc[t] = PassBegins(image, t) =>
    \A s1, s2 \in Drives[image][t] :
      s1.word = s2.word => out[s1.unit] = out[s2.unit]

(* Between its passes, what a sensor task leaves in Tx_16Data is one       *)
(* measurement: flag, distance and pulse all of an echo, or all of none.   *)
MeasurementWhole ==
  \A t \in started : pc[t] = PassBegins(image, t) =>
    \A s1, s2 \in Samples[image][t] : tx[s1.word] = tx[s2.word]

(* Outputs never step back to an older command and never anticipate one:   *)
(* whatever the tasks do, the image implements the abstract register.      *)
Register == INSTANCE CommandRegister WITH Words <- RxWatched, applied <- out
ImplementsRegister == Register!Spec

(* When the commands stop, every output ends up at the last one for it,    *)
(* unless the initialisation of Output_Task came after it.                 *)
CatchesUp ==
  <>[](\A o \in Driven[image] :
         \/ out[o] = accepted[WordOf[o]]
         \/ WordOf[o] \in overwritten)

(* The two bytes of a telemetry word come from the same sample.  This does *)
(* not hold; see the README.                                               *)
WordsWhole == high # "stale"
================================================================================
