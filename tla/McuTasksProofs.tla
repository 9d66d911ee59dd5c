----------------------------- MODULE McuTasksProofs -----------------------------
(***************************************************************************)
(* Proofs about McuTasks, for every set of images that satisfies the       *)
(* assumptions: type correctness, and that the outputs implement the       *)
(* abstract register.                                                      *)
(***************************************************************************)
EXTENDS McuTasks, TLAPS

(* A command travels from accepted to rx to a copy to an output, so each   *)
(* is at most as recent as the one before.  Presets set a word back, which *)
(* is harmless only because nothing was copied from it yet.                *)
Newest == \A w \in RxWatched : rx[w] <= accepted[w] /\ accepted[w] <= frames
CopiesOlder ==
  \A t \in DOMAIN Program[image] : \A w \in RxWatched : copy[t][w] <= rx[w]
OutputsOlder ==
  \A t \in DOMAIN Program[image] : \A i \in DOMAIN Program[image][t] :
    LET s == Program[image][t][i] IN
    s.op = "drive" => out[s.unit] <= copy[t][s.word]
PresetsFirst ==
  \A t \in DOMAIN Program[image] : \A i \in DOMAIN Program[image][t] :
    LET s == Program[image][t][i] IN
    s.op = "preset" /\ pc[t] <= i =>
      \A u \in DOMAIN Program[image] : copy[u][s.word] = 0

RegisterInv == Newest /\ CopiesOlder /\ OutputsOlder /\ PresetsFirst

-------------------------------------------------------------------------------
(* The step a task is at, and where it goes from there.                    *)

LEMMA ProgramSeq ==
  ASSUME NEW m \in DOMAIN Images, NEW t \in DOMAIN Program[m]
  PROVE  /\ Program[m][t] \in Seq(Steps)
         /\ PassBegins(m, t) \in Nat \ {0}
<1>1. Boot[m][t] \in Seq(Steps) /\ Loop[m][t] \in Seq(Steps)
  BY ProgramAssumption
<1>2. Program[m][t] = Boot[m][t] \o Loop[m][t]
  BY DEF Program, Boot, Loop
<1> QED
  BY <1>1, <1>2 DEF PassBegins

LEMMA CurrentStep ==
  ASSUME TypeOK, NEW t \in DOMAIN Program[image], NEW op, Ready(t, op)
  PROVE  /\ pc[t] \in DOMAIN Program[image][t]
         /\ Current(t) = Program[image][t][pc[t]]
         /\ Current(t).op = op
         /\ op \in {"copy", "drive", "preset"} => Current(t).word \in RxWatched
         /\ op = "sample" => Current(t).word \in TxWatched
         /\ op = "start" => Current(t).unit \in DOMAIN Program[image]
         /\ op = "drive" => /\ Current(t).unit \in Outputs
                           /\ Current(t).word = WordOf[Current(t).unit]
<1>1. image \in DOMAIN Images /\ pc[t] \in Nat \ {0}
  BY DEF TypeOK
<1>2. Program[image][t] \in Seq(Steps)
  BY <1>1, ProgramSeq
<1>3. pc[t] \in DOMAIN Program[image][t]
  BY <1>1, <1>2 DEF Ready
<1> QED
  BY <1>1, <1>3, ProgramAssumption DEF Ready, Current

LEMMA AfterType ==
  ASSUME TypeOK, NEW t \in DOMAIN Program[image]
  PROVE  /\ After(t) \in Nat \ {0}
         /\ After(t) = pc[t] + 1 \/ After(t) = PassBegins(image, t)
<1>1. image \in DOMAIN Images /\ pc[t] \in Nat \ {0}
  BY DEF TypeOK
<1>2. PassBegins(image, t) \in Nat \ {0}
  BY <1>1, ProgramSeq
<1> QED
  BY <1>1, <1>2 DEF After

(* A task goes one step on or to the beginning of its loop.                *)
Moves(t) ==
  \E i \in {pc[t], pc[t] + 1, PassBegins(image, t)} : pc' = [pc EXCEPT ![t] = i]

LEMMA MovesType ==
  ASSUME TypeOK, NEW t \in DOMAIN Program[image], image' = image, Moves(t)
  PROVE  pc' \in [DOMAIN Program[image'] -> Nat \ {0}]
<1>1. image \in DOMAIN Images /\ pc \in [DOMAIN Program[image] -> Nat \ {0}]
  BY DEF TypeOK
<1>2. PassBegins(image, t) \in Nat \ {0}
  BY <1>1, ProgramSeq
<1> QED
  BY <1>1, <1>2 DEF Moves

LEMMA StepMoves ==
  ASSUME TypeOK, NEW t \in DOMAIN Program[image], TaskStep(t)
  PROVE  Moves(t) /\ image' = image
<1>1. pc = [pc EXCEPT ![t] = pc[t]]
  BY DEF TypeOK
<1>2. After(t) \in {pc[t], pc[t] + 1, PassBegins(image, t)}
  BY AfterType
<1>3. pc' = pc => Moves(t)
  BY <1>1 DEF Moves
<1>4. Advance(t) => Moves(t)
  BY <1>2 DEF Advance, Moves
<1>5. AwaitMeasurement(t) => Moves(t)
  <2>1. CASE echo
    BY <1>2, <2>1 DEF AwaitMeasurement, Moves
  <2>2. CASE ~echo
    BY <2>2 DEF AwaitMeasurement, Moves
  <2> QED
    BY <2>1, <2>2
<1>6. image' = image
  BY DEF TaskStep, StartTask, ConfigurePins, CopyWord, DriveOutput, PresetWord,
         MeasureDistance, AwaitMeasurement, SampleInput, FrameAccepted,
         StoreWord, NothingReceived, SendBegins, SendHighByte, SendLowByte,
         NothingSent
<1>7. pc' = pc \/ Advance(t) \/ AwaitMeasurement(t)
  BY DEF TaskStep, StartTask, ConfigurePins, CopyWord, DriveOutput, PresetWord,
         MeasureDistance, SampleInput, FrameAccepted,
         StoreWord, NothingReceived, SendBegins, SendHighByte, SendLowByte,
         NothingSent
<1> QED
  BY <1>3, <1>4, <1>5, <1>6, <1>7

-------------------------------------------------------------------------------
(* Type correctness.                                                       *)

CommandTypeOK ==
  /\ frames \in 0 .. MaxFrames
  /\ storing \subseteq RxWatched
  /\ rx \in [RxWatched -> 0 .. MaxFrames]
  /\ accepted \in [RxWatched -> 0 .. MaxFrames]
  /\ overwritten \subseteq RxWatched
  /\ copy \in [DOMAIN Program[image] -> [RxWatched -> 0 .. MaxFrames]]
  /\ out \in [Outputs -> 0 .. MaxFrames]
TelemetryTypeOK ==
  /\ echo \in BOOLEAN
  /\ tx \in [TxWatched -> BOOLEAN]
  /\ sending \subseteq TxWatched
  /\ high \in {"no", "copied", "stale"}

LEMMA CommandTypeStep ==
  ASSUME TypeOK, NEW t \in DOMAIN Program[image], TaskStep(t)
  PROVE  CommandTypeOK'
<1>0. CommandTypeOK /\ image' = image /\ MaxFrames \in Nat
  BY StepMoves, SizeAssumption DEF TypeOK, CommandTypeOK
<1>1. CASE UNCHANGED commandVars
  BY <1>0, <1>1 DEF CommandTypeOK, commandVars
<1>2. CASE CopyWord(t)
  <2>1. Current(t).word \in RxWatched
    BY <1>2, CurrentStep DEF CopyWord
  <2>2. rx[Current(t).word] \in 0 .. MaxFrames
    BY <1>0, <2>1 DEF CommandTypeOK
  <2>3. copy' \in [DOMAIN Program[image] -> [RxWatched -> 0 .. MaxFrames]]
    BY <1>0, <1>2, <2>1, <2>2 DEF CopyWord, CommandTypeOK
  <2> QED
    BY <1>0, <1>2, <2>3 DEF CopyWord, CommandTypeOK
<1>3. CASE DriveOutput(t)
  <2>1. Current(t).unit \in Outputs /\ Current(t).word \in RxWatched
    BY <1>3, CurrentStep DEF DriveOutput
  <2>2. copy[t][Current(t).word] \in 0 .. MaxFrames
    BY <1>0, <2>1 DEF CommandTypeOK
  <2>3. out' \in [Outputs -> 0 .. MaxFrames]
    BY <1>0, <1>3, <2>1, <2>2 DEF DriveOutput, CommandTypeOK
  <2> QED
    BY <1>0, <1>3, <2>3 DEF DriveOutput, CommandTypeOK
<1>4. CASE PresetWord(t)
  <2>1. Current(t).word \in RxWatched
    BY <1>4, CurrentStep DEF PresetWord
  <2>2. rx' \in [RxWatched -> 0 .. MaxFrames] /\ overwritten' \subseteq RxWatched
    BY <1>0, <1>4, <2>1 DEF PresetWord, CommandTypeOK
  <2> QED
    BY <1>0, <1>4, <2>2 DEF PresetWord, CommandTypeOK
<1>5. CASE FrameAccepted(t)
  <2>1. storing' \subseteq RxWatched
    <3>1. RxUsed[image] \subseteq RxWatched
      <4>1. image \in DOMAIN Images
        BY DEF TypeOK
      <4>2. RxUsed[image] = {s.word : s \in Accesses(image, "copy")}
        BY <4>1 DEF RxUsed
      <4>3. ASSUME NEW s \in Accesses(image, "copy")
            PROVE  s.word \in RxWatched
        <5>1. PICK u \in DOMAIN Program[image] :
                s \in {r \in {Program[image][u][i] : i \in DOMAIN Program[image][u]} :
                         r.op = "copy"}
          BY DEF Accesses
        <5> QED
          BY <4>1, <5>1, ProgramAssumption
      <4> QED
        BY <4>2, <4>3
    <3> QED
      BY <1>5, <3>1 DEF FrameAccepted
  <2>2. frames' \in 0 .. MaxFrames
    BY <1>0, <1>5 DEF FrameAccepted, CommandTypeOK
  <2> QED
    BY <1>0, <1>5, <2>1, <2>2 DEF FrameAccepted, CommandTypeOK
<1>6. CASE StoreWord(t)
  BY <1>0, <1>6 DEF StoreWord, CommandTypeOK
<1> QED
  BY <1>1, <1>2, <1>3, <1>4, <1>5, <1>6
  DEF TaskStep, StartTask, ConfigurePins, MeasureDistance, AwaitMeasurement,
      SampleInput, NothingReceived, SendBegins, SendHighByte, SendLowByte,
      NothingSent

LEMMA TelemetryTypeStep ==
  ASSUME TypeOK, NEW t \in DOMAIN Program[image], TaskStep(t)
  PROVE  TelemetryTypeOK'
<1>0. TelemetryTypeOK
  BY DEF TypeOK, TelemetryTypeOK
<1>1. CASE UNCHANGED telemetryVars
  BY <1>0, <1>1 DEF TelemetryTypeOK, telemetryVars
<1>2. CASE MeasureDistance(t)
  BY <1>0, <1>2 DEF MeasureDistance, TelemetryTypeOK
<1>3. CASE SampleInput(t)
  <2>1. Current(t).word \in TxWatched
    BY <1>3, CurrentStep DEF SampleInput
  <2>2. tx' \in [TxWatched -> BOOLEAN]
    BY <1>0, <1>3, <2>1, Zenon DEF SampleInput, TelemetryTypeOK
  <2> QED
    BY <1>0, <1>3, <2>2 DEF SampleInput, TelemetryTypeOK
<1>4. CASE SendBegins(t)
  <2>1. TxUsed[image] \subseteq TxWatched
    <3>1. image \in DOMAIN Images
      BY DEF TypeOK
    <3>2. TxUsed[image] = {s.word : s \in Accesses(image, "sample")}
      BY <3>1 DEF TxUsed
    <3>3. ASSUME NEW s \in Accesses(image, "sample")
          PROVE  s.word \in TxWatched
      <4>1. PICK u \in DOMAIN Program[image] :
              s \in {r \in {Program[image][u][i] : i \in DOMAIN Program[image][u]} :
                       r.op = "sample"}
        BY DEF Accesses
      <4> QED
        BY <3>1, <4>1, ProgramAssumption
    <3> QED
      BY <3>2, <3>3
  <2> QED
    BY <1>0, <1>4, <2>1 DEF SendBegins, TelemetryTypeOK
<1>5. CASE SendHighByte(t)
  BY <1>0, <1>5 DEF SendHighByte, TelemetryTypeOK
<1>6. CASE SendLowByte(t)
  BY <1>0, <1>6 DEF SendLowByte, TelemetryTypeOK
<1> QED
  BY <1>1, <1>2, <1>3, <1>4, <1>5, <1>6
  DEF TaskStep, StartTask, ConfigurePins, CopyWord, DriveOutput, PresetWord,
      AwaitMeasurement, FrameAccepted, StoreWord, NothingReceived, NothingSent

LEMMA TypeStep ==
  ASSUME TypeOK, NEW t \in DOMAIN Program[image], TaskStep(t)
  PROVE  TypeOK'
<1>1. image' = image /\ pc' \in [DOMAIN Program[image'] -> Nat \ {0}]
  BY StepMoves, MovesType
<1>2. started' \subseteq DOMAIN Program[image']
  <2>1. CASE StartTask(t)
    BY <1>1, <2>1, CurrentStep DEF StartTask, TypeOK
  <2>2. CASE UNCHANGED started
    BY <1>1, <2>2 DEF TypeOK
  <2> QED
    BY <2>1, <2>2
    DEF TaskStep, ConfigurePins, CopyWord, DriveOutput, PresetWord,
        MeasureDistance, AwaitMeasurement, SampleInput, FrameAccepted,
        StoreWord, NothingReceived, SendBegins, SendHighByte, SendLowByte,
        NothingSent
<1>3. DOMAIN wired' = AllPins(image')
  <2>1. CASE ConfigurePins(t)
    BY <1>1, <2>1 DEF ConfigurePins
  <2>2. CASE UNCHANGED wired
    BY <1>1, <2>2 DEF TypeOK
  <2> QED
    BY <2>1, <2>2
    DEF TaskStep, StartTask, CopyWord, DriveOutput, PresetWord,
        MeasureDistance, AwaitMeasurement, SampleInput, FrameAccepted,
        StoreWord, NothingReceived, SendBegins, SendHighByte, SendLowByte,
        NothingSent
<1>4. CommandTypeOK' /\ TelemetryTypeOK'
  BY CommandTypeStep, TelemetryTypeStep
<1> QED
  BY <1>1, <1>2, <1>3, <1>4 DEF TypeOK, CommandTypeOK, TelemetryTypeOK

LEMMA TypeInit == Init => TypeOK
<1> SUFFICES ASSUME Init PROVE TypeOK
  OBVIOUS
<1>1. 0 \in 0 .. MaxFrames
  BY SizeAssumption
<1>2. image \in DOMAIN Images /\ "setup" \in DOMAIN Program[image]
  BY ProgramAssumption DEF Init
<1>3. CommandTypeOK
  BY <1>1 DEF Init, CommandTypeOK
<1>4. TelemetryTypeOK
  BY DEF Init, TelemetryTypeOK
<1>5. pc \in [DOMAIN Program[image] -> Nat \ {0}]
  BY DEF Init
<1>6. started \subseteq DOMAIN Program[image] /\ DOMAIN wired = AllPins(image)
  BY <1>2 DEF Init
<1> QED
  BY <1>2, <1>3, <1>4, <1>5, <1>6 DEF TypeOK, CommandTypeOK, TelemetryTypeOK

(* Every variable keeps its type, whatever the images are.                 *)
THEOREM TypeCorrect == Spec => []TypeOK
<1>1. TypeOK /\ [Next]_vars => TypeOK'
  <2> SUFFICES ASSUME TypeOK, [Next]_vars PROVE TypeOK'
    OBVIOUS
  <2>1. CASE Next
    BY <2>1, TypeStep DEF Next
  <2>2. CASE UNCHANGED vars
    BY <2>2 DEF vars, TypeOK
  <2> QED
    BY <2>1, <2>2
<1> QED
  BY <1>1, TypeInit, PTL DEF Spec

-------------------------------------------------------------------------------
(* Commands and outputs.                                                   *)

(* No task comes back to a preset.                                         *)
LEMMA PresetsPassed ==
  ASSUME TypeOK, NEW t \in DOMAIN Program[image], Moves(t), image' = image,
         NEW u \in DOMAIN Program[image], NEW i \in DOMAIN Program[image][u],
         Program[image][u][i].op = "preset", pc'[u] <= i
  PROVE  pc[u] <= i
<1>1. image \in DOMAIN Images /\ pc \in [DOMAIN Program[image] -> Nat \ {0}]
  BY DEF TypeOK
<1>2. i < PassBegins(image, u) /\ PassBegins(image, u) \in Nat /\ i \in Nat
  <2>1. Program[image][u] \in Seq(Steps) /\ PassBegins(image, u) \in Nat
    BY <1>1, ProgramSeq
  <2> QED
    BY <1>1, <2>1, PresetAssumption
<1>3. CASE u = t
  BY <1>1, <1>2, <1>3 DEF Moves
<1>4. CASE u # t
  BY <1>1, <1>4 DEF Moves
<1> QED
  BY <1>3, <1>4

LEMMA CommandNumbers ==
  ASSUME TypeOK
  PROVE  /\ frames \in Nat
         /\ \A w \in RxWatched : rx[w] \in Nat /\ accepted[w] \in Nat
         /\ \A t \in DOMAIN Program[image] : \A w \in RxWatched :
              copy[t][w] \in Nat
         /\ \A o \in Outputs : out[o] \in Nat
BY SizeAssumption DEF TypeOK

LEMMA QuietStep ==
  ASSUME TypeOK, RegisterInv, NEW t \in DOMAIN Program[image], Moves(t),
         UNCHANGED <<image, rx, accepted, copy, out>>,
         frames' = frames \/ frames' = frames + 1
  PROVE  RegisterInv'
<1>1. Newest'
  BY CommandNumbers DEF RegisterInv, Newest
<1>2. CopiesOlder' /\ OutputsOlder'
  BY DEF RegisterInv, CopiesOlder, OutputsOlder
<1>3. PresetsFirst'
  <2> SUFFICES ASSUME NEW u \in DOMAIN Program[image],
                      NEW i \in DOMAIN Program[image][u],
                      Program[image][u][i].op = "preset", pc'[u] <= i
               PROVE  \A v \in DOMAIN Program[image] :
                        copy[v][Program[image][u][i].word] = 0
    BY DEF PresetsFirst
  <2>1. pc[u] <= i
    BY PresetsPassed
  <2> QED
    BY <2>1 DEF RegisterInv, PresetsFirst
<1> QED
  BY <1>1, <1>2, <1>3 DEF RegisterInv

LEMMA CopyStep ==
  ASSUME TypeOK, RegisterInv, NEW t \in DOMAIN Program[image], CopyWord(t)
  PROVE  RegisterInv'
<1> DEFINE w == Current(t).word
<1>1. w \in RxWatched /\ Current(t).op = "copy"
      /\ pc[t] \in DOMAIN Program[image][t] /\ Current(t) = Program[image][t][pc[t]]
  BY CurrentStep DEF CopyWord
<1>2. UNCHANGED <<image, frames, rx, accepted, out>>
  BY DEF CopyWord
<1>3. /\ copy \in [DOMAIN Program[image] -> [RxWatched -> 0 .. MaxFrames]]
      /\ copy' = [copy EXCEPT ![t][w] = rx[w]]
  BY DEF CopyWord, TypeOK
<1>4. \A u \in DOMAIN Program[image], v \in RxWatched :
        copy'[u][v] = IF u = t /\ v = w THEN rx[w] ELSE copy[u][v]
  <2> HIDE DEF w
  <2> QED
    BY <1>1, <1>3
<1> HIDE DEF w
<1>5. Newest'
  BY <1>2 DEF RegisterInv, Newest
<1>6. CopiesOlder'
  BY <1>1, <1>2, <1>4, CommandNumbers DEF RegisterInv, CopiesOlder
<1>7. OutputsOlder'
  <2> SUFFICES ASSUME NEW u \in DOMAIN Program[image],
                      NEW i \in DOMAIN Program[image][u],
                      Program[image][u][i].op = "drive"
               PROVE  out[Program[image][u][i].unit]
                        <= copy'[u][Program[image][u][i].word]
    BY <1>2 DEF OutputsOlder
  <2> DEFINE o == Program[image][u][i].unit
             v == Program[image][u][i].word
  <2>1. o \in Outputs /\ v \in RxWatched
    BY ProgramAssumption DEF TypeOK
  <2>2. out[o] <= copy[u][v] /\ copy[u][v] <= rx[v]
    BY <2>1 DEF RegisterInv, OutputsOlder, CopiesOlder
  <2> HIDE DEF o, v
  <2>3. out[o] <= copy'[u][v]
    BY <1>4, <2>1, <2>2, CommandNumbers
  <2> QED
    BY <2>3 DEF o, v
<1>8. PresetsFirst'
  <2> SUFFICES ASSUME NEW u \in DOMAIN Program[image],
                      NEW i \in DOMAIN Program[image][u],
                      Program[image][u][i].op = "preset", pc'[u] <= i,
                      NEW v \in DOMAIN Program[image]
               PROVE  copy'[v][Program[image][u][i].word] = 0
    BY <1>2 DEF PresetsFirst
  <2> DEFINE x == Program[image][u][i].word
  <2>1. Moves(t) /\ image \in DOMAIN Images
    BY StepMoves DEF TaskStep, TypeOK
  <2>2. pc[u] <= i
    BY <1>2, <2>1, PresetsPassed
  <2>3. x \in RxWatched /\ copy[v][x] = 0
    BY <2>1, <2>2, ProgramAssumption DEF RegisterInv, PresetsFirst
  <2>4. x = w => u = t /\ i < pc[t]
    BY <1>1, <2>1, PresetAssumption DEF w
  <2>5. x # w
    <3>1. pc[t] \in Nat
      BY DEF TypeOK
    <3>2. i \in Nat
      BY <2>1, ProgramSeq
    <3> QED
      BY <2>2, <2>4, <3>1, <3>2
  <2> QED
    BY <1>4, <2>3, <2>5
<1> QED
  BY <1>5, <1>6, <1>7, <1>8 DEF RegisterInv

LEMMA DriveStep ==
  ASSUME TypeOK, RegisterInv, NEW t \in DOMAIN Program[image], DriveOutput(t)
  PROVE  /\ RegisterInv'
         /\ \/ UNCHANGED out
            \/ \E o \in Outputs :
                 /\ out'[o] \in Nat /\ out'[o] > out[o]
                 /\ out'[o] <= accepted[WordOf[o]]
                 /\ out' = [out EXCEPT ![o] = out'[o]]
<1> DEFINE o == Current(t).unit
           w == Current(t).word
<1>1. /\ o \in Outputs /\ w \in RxWatched /\ w = WordOf[o]
      /\ Current(t).op = "drive"
      /\ pc[t] \in DOMAIN Program[image][t] /\ Current(t) = Program[image][t][pc[t]]
  BY CurrentStep DEF DriveOutput
<1>2. UNCHANGED <<image, frames, rx, accepted, copy>> /\ image \in DOMAIN Images
  BY DEF DriveOutput, TypeOK
<1>3. out \in [Outputs -> 0 .. MaxFrames] /\ out' = [out EXCEPT ![o] = copy[t][w]]
  BY DEF DriveOutput, TypeOK
<1>4. out[o] <= copy[t][w] /\ copy[t][w] <= rx[w] /\ rx[w] <= accepted[w]
  BY <1>1 DEF RegisterInv, OutputsOlder, CopiesOlder, Newest
<1>5. Newest' /\ CopiesOlder'
  BY <1>2 DEF RegisterInv, Newest, CopiesOlder
<1>6. OutputsOlder'
  <2> SUFFICES ASSUME NEW u \in DOMAIN Program[image],
                      NEW i \in DOMAIN Program[image][u],
                      Program[image][u][i].op = "drive"
               PROVE  out'[Program[image][u][i].unit]
                        <= copy[u][Program[image][u][i].word]
    BY <1>2 DEF OutputsOlder
  <2> DEFINE p == Program[image][u][i].unit
             v == Program[image][u][i].word
  <2>1. p \in Outputs /\ v \in RxWatched /\ v = WordOf[p]
    BY <1>2, ProgramAssumption
  <2>2. p = o => u = t
    BY <1>1, <1>2, DriverAssumption
  <2>3. out[p] <= copy[u][v]
    BY DEF RegisterInv, OutputsOlder
  <2> HIDE DEF o, w, p, v
  <2>4. out'[p] <= copy[u][v]
    BY <1>1, <1>3, <2>1, <2>2, <2>3, CommandNumbers
  <2> QED
    BY <2>4 DEF p, v
<1>7. PresetsFirst'
  <2> SUFFICES ASSUME NEW u \in DOMAIN Program[image],
                      NEW i \in DOMAIN Program[image][u],
                      Program[image][u][i].op = "preset", pc'[u] <= i
               PROVE  \A v \in DOMAIN Program[image] :
                        copy[v][Program[image][u][i].word] = 0
    BY <1>2 DEF PresetsFirst
  <2>1. Moves(t)
    BY StepMoves DEF TaskStep
  <2>2. pc[u] <= i
    BY <1>2, <2>1, PresetsPassed
  <2> QED
    BY <2>2 DEF RegisterInv, PresetsFirst
<1>8. \/ UNCHANGED out
      \/ /\ out'[o] \in Nat /\ out'[o] > out[o]
         /\ out'[o] <= accepted[WordOf[o]]
         /\ out' = [out EXCEPT ![o] = out'[o]]
  <2> HIDE DEF o, w
  <2>1. out'[o] = copy[t][w]
    BY <1>1, <1>3
  <2>2. /\ copy[t][w] \in Nat /\ out[o] \in Nat
        /\ rx[w] \in Nat /\ accepted[w] \in Nat
    BY <1>1, CommandNumbers
  <2>3. CASE copy[t][w] = out[o]
    BY <1>3, <2>3
  <2>4. CASE copy[t][w] > out[o]
    BY <1>1, <1>3, <1>4, <2>1, <2>2, <2>4
  <2> QED
    BY <1>4, <2>2, <2>3, <2>4
<1> QED
  BY <1>1, <1>5, <1>6, <1>7, <1>8 DEF RegisterInv

LEMMA PresetStep ==
  ASSUME TypeOK, RegisterInv, NEW t \in DOMAIN Program[image], PresetWord(t)
  PROVE  RegisterInv'
<1> DEFINE w == Current(t).word
<1>1. /\ w \in RxWatched /\ Current(t).op = "preset"
      /\ pc[t] \in DOMAIN Program[image][t] /\ Current(t) = Program[image][t][pc[t]]
  BY CurrentStep DEF PresetWord
<1>2. UNCHANGED <<image, frames, accepted, copy, out>>
  BY DEF PresetWord
<1>3. rx \in [RxWatched -> 0 .. MaxFrames] /\ rx' = [rx EXCEPT ![w] = 0]
  BY DEF PresetWord, TypeOK
<1>4. \A u \in DOMAIN Program[image] : copy[u][w] = 0
  <2>1. pc[t] <= pc[t]
    BY DEF TypeOK
  <2> QED
    BY <1>1, <2>1 DEF RegisterInv, PresetsFirst
<1>5. \A v \in RxWatched : rx'[v] = IF v = w THEN 0 ELSE rx[v]
  BY <1>1, <1>3
<1>6. Newest'
  <2> HIDE DEF w
  <2> QED
    BY <1>2, <1>5, CommandNumbers DEF RegisterInv, Newest
<1>7. CopiesOlder'
  <2> HIDE DEF w
  <2> QED
    BY <1>2, <1>4, <1>5, CommandNumbers DEF RegisterInv, CopiesOlder
<1>8. OutputsOlder'
  BY <1>2 DEF RegisterInv, OutputsOlder
<1>9. PresetsFirst'
  <2> SUFFICES ASSUME NEW u \in DOMAIN Program[image],
                      NEW i \in DOMAIN Program[image][u],
                      Program[image][u][i].op = "preset", pc'[u] <= i
               PROVE  \A v \in DOMAIN Program[image] :
                        copy[v][Program[image][u][i].word] = 0
    BY <1>2 DEF PresetsFirst
  <2>1. Moves(t)
    BY StepMoves DEF TaskStep
  <2>2. pc[u] <= i
    BY <1>2, <2>1, PresetsPassed
  <2> QED
    BY <2>2 DEF RegisterInv, PresetsFirst
<1> QED
  BY <1>6, <1>7, <1>8, <1>9 DEF RegisterInv

LEMMA StoreStep ==
  ASSUME TypeOK, RegisterInv, NEW t \in DOMAIN Program[image], StoreWord(t)
  PROVE  /\ RegisterInv'
         /\ \/ UNCHANGED accepted
            \/ \E w \in RxWatched :
                 /\ accepted'[w] \in Nat /\ accepted'[w] > accepted[w]
                 /\ accepted' = [accepted EXCEPT ![w] = accepted'[w]]
<1>1. PICK w \in storing : /\ rx' = [rx EXCEPT ![w] = frames]
                          /\ accepted' = [accepted EXCEPT ![w] = frames]
  BY DEF StoreWord
<1>2. /\ w \in RxWatched
      /\ rx \in [RxWatched -> 0 .. MaxFrames]
      /\ accepted \in [RxWatched -> 0 .. MaxFrames]
  BY DEF TypeOK
<1>3. UNCHANGED <<image, pc, frames, copy, out>>
  BY DEF StoreWord
<1>4. \A v \in RxWatched :
        /\ rx'[v] = IF v = w THEN frames ELSE rx[v]
        /\ accepted'[v] = IF v = w THEN frames ELSE accepted[v]
  BY <1>1, <1>2
<1>5. Newest'
  BY <1>3, <1>4, CommandNumbers DEF RegisterInv, Newest
<1>6. CopiesOlder'
  <2> SUFFICES ASSUME NEW u \in DOMAIN Program[image], NEW v \in RxWatched
               PROVE  copy[u][v] <= rx'[v]
    BY <1>3 DEF CopiesOlder
  <2>1. /\ copy[u][v] <= rx[v] /\ rx[v] <= accepted[v] /\ accepted[v] <= frames
    BY DEF RegisterInv, CopiesOlder, Newest
  <2> QED
    BY <1>4, <2>1, CommandNumbers
<1>7. OutputsOlder' /\ PresetsFirst'
  BY <1>3 DEF RegisterInv, OutputsOlder, PresetsFirst
<1>8. \/ UNCHANGED accepted
      \/ /\ accepted'[w] \in Nat /\ accepted'[w] > accepted[w]
         /\ accepted' = [accepted EXCEPT ![w] = accepted'[w]]
  <2>1. accepted'[w] = frames /\ frames \in Nat /\ accepted[w] \in Nat
    BY <1>2, <1>4, CommandNumbers
  <2>2. accepted[w] <= frames
    BY <1>2 DEF RegisterInv, Newest
  <2>3. CASE accepted[w] = frames
    BY <1>1, <1>2, <2>3
  <2>4. CASE accepted[w] < frames
    BY <1>1, <1>2, <2>1, <2>4
  <2> QED
    BY <2>1, <2>2, <2>3, <2>4
<1> QED
  BY <1>2, <1>5, <1>6, <1>7, <1>8 DEF RegisterInv

(* Every other step leaves the commands and the outputs alone.             *)
LEMMA OtherSteps ==
  ASSUME TypeOK, NEW t \in DOMAIN Program[image], TaskStep(t)
  PROVE  \/ CopyWord(t) \/ DriveOutput(t) \/ PresetWord(t) \/ StoreWord(t)
         \/ /\ UNCHANGED <<image, rx, accepted, copy, out>>
            /\ frames' = frames \/ frames' = frames + 1
BY DEF TaskStep, StartTask, ConfigurePins, MeasureDistance, AwaitMeasurement,
       SampleInput, FrameAccepted, NothingReceived, SendBegins, SendHighByte,
       SendLowByte, NothingSent, commandVars

LEMMA RegisterInit == Init => RegisterInv
BY SizeAssumption, ProgramAssumption
DEF Init, RegisterInv, Newest, CopiesOlder, OutputsOlder, PresetsFirst

LEMMA RegisterStep == TypeOK /\ RegisterInv /\ [Next]_vars => RegisterInv'
<1> SUFFICES ASSUME TypeOK, RegisterInv, [Next]_vars PROVE RegisterInv'
  OBVIOUS
<1>1. CASE UNCHANGED vars
  BY <1>1
  DEF vars, RegisterInv, Newest, CopiesOlder, OutputsOlder, PresetsFirst
<1>2. ASSUME NEW t \in DOMAIN Program[image], TaskStep(t)
      PROVE  RegisterInv'
  BY <1>2, StepMoves, OtherSteps, QuietStep, CopyStep, DriveStep, PresetStep,
     StoreStep
<1> QED
  BY <1>1, <1>2 DEF Next

(* No word, copy or output is ever ahead of the one it comes from.         *)
THEOREM RegisterInvariant == Spec => [](TypeOK /\ RegisterInv)
<1>1. Init => RegisterInv
  BY RegisterInit
<1>2. TypeOK /\ RegisterInv /\ [Next]_vars => RegisterInv'
  BY RegisterStep
<1>3. Spec => []TypeOK
  BY TypeCorrect
<1> QED
  BY <1>1, <1>2, <1>3, PTL DEF Spec

(* Whatever the images do, an output only takes accepted commands and      *)
(* never goes back to an older one.                                        *)
THEOREM ImplementsCommandRegister == Spec => ImplementsRegister
<1>1. Init => Register!Init
  BY DEF Init, Register!Init
<1>2. TypeOK /\ RegisterInv /\ [Next]_vars
        => [Register!Next]_<<accepted, out>>
  <2> SUFFICES ASSUME TypeOK, RegisterInv, [Next]_vars
               PROVE  Register!Next \/ UNCHANGED <<accepted, out>>
    BY DEF Register!Next
  <2>1. CASE UNCHANGED vars
    BY <2>1 DEF vars
  <2>2. ASSUME NEW t \in DOMAIN Program[image], TaskStep(t)
        PROVE  Register!Next \/ UNCHANGED <<accepted, out>>
    <3>1. CASE DriveOutput(t)
      <4>1. UNCHANGED accepted
        BY <3>1 DEF DriveOutput
      <4> QED
        BY <3>1, <4>1, DriveStep DEF Register!Next, Register!Apply
    <3>2. CASE StoreWord(t)
      <4>1. UNCHANGED out
        BY <3>2 DEF StoreWord
      <4> QED
        BY <3>2, <4>1, StoreStep DEF Register!Next, Register!Accept
    <3>3. CASE CopyWord(t)
      BY <3>3 DEF CopyWord
    <3>4. CASE PresetWord(t)
      BY <3>4 DEF PresetWord
    <3> QED
      BY <2>2, <3>1, <3>2, <3>3, <3>4, OtherSteps
  <2> QED
    BY <2>1, <2>2 DEF Next
<1>3. Spec => [](TypeOK /\ RegisterInv)
  BY RegisterInvariant
<1> QED
  BY <1>1, <1>2, <1>3, PTL DEF Spec, ImplementsRegister, Register!Spec

-------------------------------------------------------------------------------
(* Outputs of the same word.                                               *)

(* An output shows the copy of its word from the moment it is set until    *)
(* the next pass has copied the word anew.                                 *)
Shows ==
  \A t \in DOMAIN Program[image] : \A i \in DOMAIN Program[image][t] :
    LET r == Program[image][t][i] IN
    /\ r.op = "drive"
    /\ \/ pc[t] > i
       \/ \A j \in DOMAIN Program[image][t] :
            Program[image][t][j].op = "copy" /\ Program[image][t][j].word = r.word
              => pc[t] <= j
    => out[r.unit] = copy[t][r.word]

(* A step other than of the outputs themselves goes to the next step.      *)
LEMMA ShowsEarlier ==
  ASSUME TypeOK, NEW t \in DOMAIN Program[image], TaskStep(t),
         NEW u \in DOMAIN Program[image], NEW i \in DOMAIN Program[image][u],
         Program[image][u][i].op = "drive",
         u = t => pc[t] # i,
         \/ pc'[u] > i
         \/ \A j \in DOMAIN Program[image][u] :
              Program[image][u][j].op = "copy"
                /\ Program[image][u][j].word = Program[image][u][i].word
              => pc'[u] <= j
  PROVE  \/ pc[u] > i
         \/ \A j \in DOMAIN Program[image][u] :
              Program[image][u][j].op = "copy"
                /\ Program[image][u][j].word = Program[image][u][i].word
              => pc[u] <= j
<1>1. image \in DOMAIN Images /\ pc \in [DOMAIN Program[image] -> Nat \ {0}]
  BY DEF TypeOK
<1>2. /\ Program[image][u] \in Seq(Steps)
      /\ PassBegins(image, u) \in Nat \ {0}
  BY <1>1, ProgramSeq
<1>3. CASE u # t
  <2>1. pc'[u] = pc[u]
    BY <1>1, <1>3, StepMoves DEF Moves
  <2> QED
    BY <2>1
<1>4. CASE u = t
  <2>1. CASE AwaitMeasurement(t)
    <3>1. /\ pc[t] \in DOMAIN Program[image][t]
          /\ Program[image][t][pc[t]].op = "await"
      BY <2>1, CurrentStep DEF AwaitMeasurement
    <3> QED
      BY <1>1, <1>4, <3>1, CarryAssumption
  <2>2. CASE pc' = pc
    BY <2>2
  <2>3. CASE Advance(t)
    <3>1. pc'[t] = After(t)
      BY <1>1, <2>3 DEF Advance
    <3>2. CASE After(t) = pc[t] + 1
      <4>1. /\ pc[u] \in Nat /\ i \in Nat
            /\ \A j \in DOMAIN Program[image][u] : j \in Nat
        BY <1>1, <1>2
      <4>2. pc'[u] = pc[u] + 1 /\ pc[u] # i
        BY <1>4, <3>1, <3>2
      <4>3. CASE pc'[u] > i
        BY <4>1, <4>2, <4>3
      <4>4. CASE \A j \in DOMAIN Program[image][u] :
                   Program[image][u][j].op = "copy"
                     /\ Program[image][u][j].word = Program[image][u][i].word
                   => pc'[u] <= j
        BY <4>1, <4>2, <4>4
      <4> QED
        BY <4>3, <4>4
    <3>3. CASE pc[t] = Len(Program[image][t])
      BY <1>1, <1>2, <1>4, <3>3
    <3> QED
      BY <3>1, <3>2, <3>3 DEF After
  <2> QED
    BY <2>1, <2>2, <2>3
    DEF TaskStep, StartTask, ConfigurePins, CopyWord, DriveOutput, PresetWord,
        MeasureDistance, SampleInput, FrameAccepted, StoreWord,
        NothingReceived, SendBegins, SendHighByte, SendLowByte, NothingSent
<1> QED
  BY <1>3, <1>4

LEMMA ShowsStep ==
  ASSUME TypeOK, Shows, NEW t \in DOMAIN Program[image], TaskStep(t)
  PROVE  Shows'
<1> SUFFICES
      ASSUME NEW u \in DOMAIN Program[image], NEW i \in DOMAIN Program[image][u],
             Program[image][u][i].op = "drive",
             \/ pc'[u] > i
             \/ \A j \in DOMAIN Program[image][u] :
                  Program[image][u][j].op = "copy"
                    /\ Program[image][u][j].word = Program[image][u][i].word
                  => pc'[u] <= j
      PROVE  out'[Program[image][u][i].unit] = copy'[u][Program[image][u][i].word]
  BY StepMoves DEF Shows
<1> DEFINE o == Program[image][u][i].unit
           w == Program[image][u][i].word
<1>1. /\ image \in DOMAIN Images /\ o \in Outputs /\ w \in RxWatched
      /\ image' = image /\ w = WordOf[o]
  BY StepMoves, ProgramAssumption DEF TypeOK
<1>2. /\ out \in [Outputs -> 0 .. MaxFrames]
      /\ copy \in [DOMAIN Program[image] -> [RxWatched -> 0 .. MaxFrames]]
      /\ pc \in [DOMAIN Program[image] -> Nat \ {0}]
      /\ Program[image][u] \in Seq(Steps)
  BY <1>1, ProgramSeq DEF TypeOK
<1>3. (u = t => pc[t] # i) => out[o] = copy[u][w]
  BY ShowsEarlier DEF Shows
<1>4. CASE DriveOutput(t)
  <2> DEFINE p == Current(t).unit
             v == Current(t).word
  <2>1. /\ p \in Outputs /\ v = WordOf[p] /\ Current(t).op = "drive"
        /\ pc[t] \in DOMAIN Program[image][t]
        /\ Current(t) = Program[image][t][pc[t]]
    BY <1>4, CurrentStep DEF DriveOutput
  <2>2. copy' = copy /\ out' = [out EXCEPT ![p] = copy[t][v]]
    BY <1>4 DEF DriveOutput
  <2>3. CASE o = p
    <3>1. u = t
      BY <1>1, <2>1, <2>3, DriverAssumption
    <3> HIDE DEF o, w, p, v
    <3> QED
      BY <1>1, <1>2, <2>1, <2>2, <2>3, <3>1 DEF o, w
  <2>4. CASE o # p
    <3>1. u = t => pc[t] # i
      BY <2>1, <2>4
    <3>2. out[o] = copy[u][w]
      BY <1>3, <3>1
    <3> HIDE DEF o, w, p, v
    <3>3. out'[o] = copy'[u][w]
      BY <1>1, <1>2, <2>2, <2>4, <3>2
    <3> QED
      BY <3>3 DEF o, w
  <2> QED
    BY <2>3, <2>4
<1>5. CASE CopyWord(t)
  <2> DEFINE v == Current(t).word
  <2>1. /\ v \in RxWatched /\ Current(t).op = "copy"
        /\ pc[t] \in DOMAIN Program[image][t]
        /\ Current(t) = Program[image][t][pc[t]]
    BY <1>5, CurrentStep DEF CopyWord
  <2>2. out' = out /\ copy' = [copy EXCEPT ![t][v] = rx[v]] /\ Advance(t)
    BY <1>5 DEF CopyWord
  <2>3. out[o] = copy[u][w]
    BY <1>3, <2>1
  <2>4. ~(u = t /\ w = v)
    <3> SUFFICES ASSUME u = t, w = v PROVE FALSE
      OBVIOUS
    <3>1. pc[t] < i /\ PassBegins(image, t) <= pc[t]
      BY <1>1, <2>1, CarryAssumption
    <3>2. pc'[t] = pc[t] + 1
      BY <1>2, <2>2, <3>1 DEF Advance, After
    <3>3. i \in Nat /\ pc[t] \in Nat
      BY <1>2
    <3>4. ~(pc'[u] > i)
      BY <3>1, <3>2, <3>3
    <3>5. pc'[u] <= pc[t]
      BY <2>1, <3>4
    <3> QED
      BY <3>2, <3>3, <3>5
  <2>5. copy'[u][w] = copy[u][w]
    <3> HIDE DEF v, w
    <3> QED
      BY <1>1, <1>2, <2>1, <2>2, <2>4
  <2> QED
    BY <2>2, <2>3, <2>5
<1>6. CASE UNCHANGED <<out, copy>> /\ (u = t => pc[t] # i)
  BY <1>3, <1>6
<1>7. CASE UNCHANGED <<out, copy>> /\ u = t /\ pc[t] = i /\ ~DriveOutput(t)
  <2>1. pc' = pc
    BY <1>7
    DEF TaskStep, StartTask, ConfigurePins, CopyWord, DriveOutput, PresetWord,
        MeasureDistance, AwaitMeasurement, SampleInput, FrameAccepted,
        StoreWord, NothingReceived, SendBegins, SendHighByte, SendLowByte,
        NothingSent, Ready
  <2>2. \/ pc[u] > i
        \/ \A j \in DOMAIN Program[image][u] :
              Program[image][u][j].op = "copy"
                /\ Program[image][u][j].word = Program[image][u][i].word
              => pc[u] <= j
    BY <2>1
  <2> QED
    BY <1>7, <2>2 DEF Shows
<1> QED
  BY <1>4, <1>5, <1>6, <1>7, OtherSteps DEF PresetWord, StoreWord

LEMMA ShowsInit == Init => Shows
BY ProgramAssumption DEF Init, Shows

LEMMA ShowsImpliesAgree == TypeOK /\ Shows => DriversAgree
<1> SUFFICES
      ASSUME TypeOK, Shows, NEW t \in started, pc[t] = PassBegins(image, t),
             NEW r \in Drives[image][t], NEW s \in Drives[image][t],
             r.word = s.word
      PROVE  out[r.unit] = out[s.unit]
  BY DEF DriversAgree
<1>1. image \in DOMAIN Images /\ t \in DOMAIN Program[image]
  BY DEF TypeOK
<1>2. ASSUME NEW x \in Drives[image][t]
      PROVE  out[x.unit] = copy[t][x.word]
  <2>1. PICK i \in DOMAIN Program[image][t] :
          x = Program[image][t][i] /\ x.op = "drive"
    BY <1>1 DEF Drives, StepsOf
  <2>2. \A j \in DOMAIN Program[image][t] :
          Program[image][t][j].op = "copy" /\ Program[image][t][j].word = x.word
            => pc[t] <= j
    BY <1>1, <2>1, CarryAssumption
  <2> QED
    BY <1>1, <2>1, <2>2 DEF Shows
<1> QED
  BY <1>2

(* Whatever serialTask stores in the middle of a pass, outputs that follow *)
(* the same word end the pass with the same command.                       *)
THEOREM DriversAlwaysAgree == Spec => []DriversAgree
<1>1. TypeOK /\ Shows /\ [Next]_vars => Shows'
  <2> SUFFICES ASSUME TypeOK, Shows, [Next]_vars PROVE Shows'
    OBVIOUS
  <2>1. CASE Next
    BY <2>1, ShowsStep DEF Next
  <2>2. CASE UNCHANGED vars
    BY <2>2 DEF vars, Shows
  <2> QED
    BY <2>1, <2>2
<1>2. Spec => []TypeOK
  BY TypeCorrect
<1> QED
  BY <1>1, <1>2, ShowsInit, ShowsImpliesAgree, PTL DEF Spec

-------------------------------------------------------------------------------
(* A measurement is whole.                                                 *)

(* The steps of the current image that sample.                             *)
IsSample(t, i) ==
  /\ t \in DOMAIN Program[image] /\ i \in DOMAIN Program[image][t]
  /\ Program[image][t][i].op = "sample"
WordAt(t, i) == Program[image][t][i].word

(* In an image that measures, what was sampled in this pass is of the last *)
(* measurement, and the words agree as long as nothing was sampled in it.  *)
Measures(t) ==
  \E i \in DOMAIN Program[image][t] : Program[image][t][i].op = "measure"
SampledNow ==
  \A t \in DOMAIN Program[image] : Measures(t) =>
    \A i : IsSample(t, i) /\ i < pc[t] => tx[WordAt(t, i)] = echo
SampledBefore ==
  \A t \in DOMAIN Program[image] :
    Measures(t) /\ (\A i : IsSample(t, i) => pc[t] <= i) =>
      \A i, j : IsSample(t, i) /\ IsSample(t, j) =>
        tx[WordAt(t, i)] = tx[WordAt(t, j)]
(* Other images sample what cannot fail.                                   *)
NothingMeasured ==
  (\A t \in DOMAIN Program[image] : ~Measures(t)) =>
    ~echo /\ \A w \in TxWatched : ~tx[w]

MeasureInv == SampledNow /\ SampledBefore /\ NothingMeasured

LEMMA MeasureFirst ==
  ASSUME TypeOK, NEW t \in DOMAIN Program[image], Measures(t),
         NEW u, NEW j, IsSample(u, j)
  PROVE  u = t /\ PassBegins(image, t) < j /\ j \in Nat /\ WordAt(u, j) \in TxWatched
<1>1. image \in DOMAIN Images
  BY DEF TypeOK
<1>2. PICK i \in DOMAIN Program[image][t] : Program[image][t][i].op = "measure"
  BY DEF Measures
<1>3. u \in DOMAIN Program[image] /\ j \in DOMAIN Program[image][u]
      /\ Program[image][u][j].op = "sample"
  BY DEF IsSample
<1>4. PassBegins(image, t) <= i /\ u = t /\ i < j
  BY <1>1, <1>2, <1>3, MeasureAssumption
<1>5. /\ Program[image][t] \in Seq(Steps) /\ Program[image][u] \in Seq(Steps)
      /\ PassBegins(image, t) \in Nat
  BY <1>1, <1>3, ProgramSeq
<1>6. i \in Nat /\ j \in Nat
  BY <1>2, <1>3, <1>5
<1>7. Program[image][u][j].word \in TxWatched
  BY <1>1, <1>3, ProgramAssumption
<1> QED
  BY <1>4, <1>5, <1>6, <1>7 DEF WordAt

(* A task passes its steps one by one; in the end it has passed them all.  *)
LEMMA AdvancePasses ==
  ASSUME TypeOK, NEW t \in DOMAIN Program[image], Measures(t), Advance(t),
         pc[t] \in DOMAIN Program[image][t]
  PROVE  /\ \A i : IsSample(t, i) /\ i < pc'[t] => i <= pc[t]
         /\ \/ \A i : IsSample(t, i) /\ pc'[t] <= i => pc[t] < i
            \/ \A i : IsSample(t, i) => i <= pc[t] /\ pc'[t] <= i
<1>1. image \in DOMAIN Images /\ pc \in [DOMAIN Program[image] -> Nat \ {0}]
  BY DEF TypeOK
<1>2. /\ Program[image][t] \in Seq(Steps) /\ PassBegins(image, t) \in Nat
      /\ Len(Program[image][t]) \in Nat
      /\ \A i : IsSample(t, i) =>
           i \in Nat /\ PassBegins(image, t) < i /\ i <= Len(Program[image][t])
  <2>1. Program[image][t] \in Seq(Steps) /\ PassBegins(image, t) \in Nat
    BY <1>1, ProgramSeq
  <2>2. DOMAIN Program[image][t] = 1 .. Len(Program[image][t])
    BY <2>1
  <2> QED
    BY <2>1, <2>2, MeasureFirst DEF IsSample
<1>3. CASE pc[t] = Len(Program[image][t]) /\ Loop[image][t] # <<>>
  <2>1. pc'[t] = PassBegins(image, t)
    BY <1>1, <1>3 DEF Advance, After
  <2> QED
    BY <1>1, <1>2, <1>3, <2>1
<1>4. CASE ~(pc[t] = Len(Program[image][t]) /\ Loop[image][t] # <<>>)
  <2>1. pc'[t] = pc[t] + 1
    BY <1>1, <1>4 DEF Advance, After
  <2> QED
    BY <1>1, <1>2, <2>1
<1> QED
  BY <1>3, <1>4

(* The steps that can make a difference.                                   *)
LEMMA MeasureSteps ==
  ASSUME TypeOK, NEW t \in DOMAIN Program[image], TaskStep(t)
  PROVE  \/ MeasureDistance(t) \/ AwaitMeasurement(t) \/ SampleInput(t)
         \/ /\ UNCHANGED <<echo, tx>> /\ ~IsSample(t, pc[t])
            /\ Advance(t) \/ pc' = pc
            /\ Advance(t) => pc[t] \in DOMAIN Program[image][t]
<1>1. ASSUME NEW op, Ready(t, op), op # "sample"
      PROVE  ~IsSample(t, pc[t]) /\ pc[t] \in DOMAIN Program[image][t]
  BY <1>1, CurrentStep DEF Ready, IsSample
<1>2. CASE MeasureDistance(t) \/ AwaitMeasurement(t) \/ SampleInput(t)
  BY <1>2
<1>3. CASE StartTask(t)
  BY <1>1, <1>3 DEF StartTask, telemetryVars
<1>4. CASE ConfigurePins(t)
  BY <1>1, <1>4 DEF ConfigurePins, telemetryVars
<1>5. CASE CopyWord(t)
  BY <1>1, <1>5 DEF CopyWord, telemetryVars
<1>6. CASE DriveOutput(t)
  BY <1>1, <1>6 DEF DriveOutput, telemetryVars
<1>7. CASE PresetWord(t)
  BY <1>1, <1>7 DEF PresetWord, telemetryVars
<1>8. CASE FrameAccepted(t) \/ StoreWord(t) \/ NothingReceived(t)
  BY <1>1, <1>8 DEF FrameAccepted, StoreWord, NothingReceived, telemetryVars
<1>9. CASE SendBegins(t) \/ SendHighByte(t) \/ SendLowByte(t) \/ NothingSent(t)
  BY <1>1, <1>9
  DEF SendBegins, SendHighByte, SendLowByte, NothingSent, telemetryVars
<1> QED
  BY <1>2, <1>3, <1>4, <1>5, <1>6, <1>7, <1>8, <1>9 DEF TaskStep

LEMMA MeasureStep ==
  ASSUME TypeOK, MeasureInv, NEW t \in DOMAIN Program[image], TaskStep(t)
  PROVE  MeasureInv'
<1>1. /\ image' = image /\ image \in DOMAIN Images /\ echo \in BOOLEAN
      /\ pc \in [DOMAIN Program[image] -> Nat \ {0}]
      /\ tx \in [TxWatched -> BOOLEAN]
      /\ \A u \in DOMAIN Program[image] : u # t => pc'[u] = pc[u]
  BY StepMoves DEF TypeOK, Moves
<1>2. /\ \A u, i : IsSample(u, i)' <=> IsSample(u, i)
      /\ \A u, i : WordAt(u, i)' = WordAt(u, i)
      /\ \A u : Measures(u)' <=> Measures(u)
  BY <1>1 DEF IsSample, WordAt, Measures
<1>3. \A u, v, i : Measures(v) /\ v \in DOMAIN Program[image] /\ IsSample(u, i) =>
        u = v /\ i \in Nat /\ WordAt(u, i) \in TxWatched
  BY MeasureFirst
<1>4. \A u, i : IsSample(u, i) => WordAt(u, i) \in TxWatched
  BY <1>1, ProgramAssumption DEF IsSample, WordAt
<1>5. CASE MeasureDistance(t) \/ AwaitMeasurement(t)
  <2>1. tx' = tx /\ (AwaitMeasurement(t) => echo' = echo)
    BY <1>5 DEF MeasureDistance, AwaitMeasurement, telemetryVars
  <2>2. /\ pc[t] \in DOMAIN Program[image][t]
        /\ Program[image][t][pc[t]].op \in {"measure", "await"}
        /\ MeasureDistance(t) => Program[image][t][pc[t]].op = "measure"
    BY <1>5, CurrentStep DEF MeasureDistance, AwaitMeasurement
  <2>3. \A u, i : IsSample(u, i) => u = t /\ pc[t] < i /\ pc'[t] <= i
    <3> SUFFICES ASSUME NEW u, NEW i, IsSample(u, i)
                 PROVE  u = t /\ pc[t] < i /\ pc'[t] <= i
      OBVIOUS
    <3>1. PassBegins(image, t) <= pc[t] /\ u = t /\ pc[t] < i
      BY <1>1, <2>2, MeasureAssumption DEF IsSample
    <3>2. Program[image][t] \in Seq(Steps) /\ PassBegins(image, t) \in Nat
      BY <1>1, ProgramSeq
    <3>3. i \in Nat
      BY <3>1, <3>2 DEF IsSample
    <3> QED
      BY <1>1, <3>1, <3>2, <3>3, StepMoves DEF Moves
  <2>4. MeasureDistance(t) => Measures(t)
    BY <2>2 DEF Measures
  <2>5. SampledNow'
    <3> SUFFICES ASSUME NEW u \in DOMAIN Program[image], Measures(u),
                        NEW i, IsSample(u, i), i < pc'[u]
                 PROVE  FALSE
      BY <1>1, <1>2 DEF SampledNow
    <3>1. u = t /\ pc'[t] <= i /\ i \in Nat /\ pc'[t] \in Nat
      BY <1>1, <1>3, <2>3, StepMoves, MovesType
    <3> QED
      BY <3>1
  <2>6. SampledBefore'
    <3> SUFFICES ASSUME NEW u \in DOMAIN Program[image], Measures(u),
                        NEW i, IsSample(u, i), NEW j, IsSample(u, j)
                 PROVE  tx[WordAt(u, i)] = tx[WordAt(u, j)]
      BY <1>1, <1>2, <2>1 DEF SampledBefore
    <3>1. \A k : IsSample(u, k) => pc[u] <= k
      BY <1>1, <1>3, <2>3
    <3> QED
      BY <3>1 DEF MeasureInv, SampledBefore
  <2>7. NothingMeasured'
    BY <1>1, <1>2, <1>5, <2>1, <2>4 DEF MeasureInv, NothingMeasured
  <2> QED
    BY <2>5, <2>6, <2>7 DEF MeasureInv
<1>6. CASE SampleInput(t)
  <2> DEFINE k == pc[t]
  <2>1. /\ IsSample(t, k) /\ echo' = echo /\ Advance(t)
        /\ k \in DOMAIN Program[image][t]
        /\ tx' = [tx EXCEPT ![WordAt(t, k)] = echo]
    BY <1>6, CurrentStep DEF SampleInput, IsSample, WordAt
  <2> HIDE DEF k
  <2>2. ASSUME Measures(t)
        PROVE  \A i : IsSample(t, i) /\ i <= k => tx'[WordAt(t, i)] = echo
    <3> SUFFICES ASSUME NEW i, IsSample(t, i), i <= k
                 PROVE  tx'[WordAt(t, i)] = echo
      OBVIOUS
    <3>1. CASE WordAt(t, i) = WordAt(t, k)
      BY <1>1, <1>4, <2>1, <3>1
    <3>2. CASE WordAt(t, i) # WordAt(t, k)
      <4>1. i \in Nat /\ k \in Nat /\ i # k
        BY <1>1, <1>3, <2>2, <3>2 DEF k
      <4>2. tx[WordAt(t, i)] = echo
        BY <2>2, <4>1 DEF MeasureInv, SampledNow, k
      <4> QED
        BY <1>1, <1>4, <2>1, <3>2, <4>2
    <3> QED
      BY <3>1, <3>2
  <2>3. \A u \in DOMAIN Program[image] : Measures(u) => u = t
    BY <1>3, <2>1
  <2>4. SampledNow'
    <3> SUFFICES ASSUME Measures(t), NEW i, IsSample(t, i), i < pc'[t]
                 PROVE  tx'[WordAt(t, i)] = echo
      BY <1>1, <1>2, <2>1, <2>3 DEF SampledNow
    <3> QED
      BY <2>1, <2>2, AdvancePasses DEF k
  <2>5. SampledBefore'
    <3> SUFFICES ASSUME Measures(t), \A i : IsSample(t, i) => pc'[t] <= i,
                        NEW i, IsSample(t, i), NEW j, IsSample(t, j)
                 PROVE  tx'[WordAt(t, i)] = tx'[WordAt(t, j)]
      BY <1>1, <1>2, <2>3 DEF SampledBefore
    <3>1. ~(k < k)
      BY <1>1 DEF k
    <3>2. i <= k /\ j <= k
      BY <2>1, <3>1, AdvancePasses DEF k
    <3> QED
      BY <2>2, <3>2
  <2>6. NothingMeasured'
    BY <1>1, <1>2, <2>1, Zenon DEF MeasureInv, NothingMeasured
  <2> QED
    BY <2>4, <2>5, <2>6 DEF MeasureInv
<1>7. CASE /\ UNCHANGED <<echo, tx>> /\ ~IsSample(t, pc[t])
           /\ Advance(t) \/ pc' = pc
           /\ Advance(t) => pc[t] \in DOMAIN Program[image][t]
  <2>1. SampledNow'
    <3> SUFFICES ASSUME NEW u \in DOMAIN Program[image], Measures(u),
                        NEW i, IsSample(u, i), i < pc'[u]
                 PROVE  i < pc[u]
      BY <1>1, <1>2, <1>7 DEF MeasureInv, SampledNow
    <3>1. CASE pc'[u] = pc[u]
      BY <3>1
    <3>2. CASE u = t /\ Advance(t)
      <4>1. i <= pc[t] /\ i # pc[t]
        BY <1>7, <3>2, AdvancePasses
      <4> QED
        BY <1>1, <1>3, <3>2, <4>1
    <3> QED
      BY <1>1, <1>7, <3>1, <3>2
  <2>2. SampledBefore'
    <3> SUFFICES ASSUME NEW u \in DOMAIN Program[image], Measures(u),
                        \A i : IsSample(u, i) => pc'[u] <= i,
                        NEW i, IsSample(u, i), NEW j, IsSample(u, j)
                 PROVE  tx[WordAt(u, i)] = tx[WordAt(u, j)]
      BY <1>1, <1>2, <1>7 DEF SampledBefore
    <3>1. CASE \A l : IsSample(u, l) => pc[u] <= l
      BY <3>1 DEF MeasureInv, SampledBefore
    <3>2. CASE \A l : IsSample(u, l) => l < pc[u]
      BY <3>2 DEF MeasureInv, SampledNow
    <3>3. CASE pc'[u] = pc[u]
      BY <3>1, <3>3
    <3>4. CASE u = t /\ Advance(t)
      <4>1. \A l : IsSample(t, l) => l \in Nat /\ l # pc[t]
        BY <1>3, <1>7, <3>4
      <4>2. \/ \A l : IsSample(t, l) => pc[t] < l
            \/ \A l : IsSample(t, l) => l <= pc[t]
        BY <1>7, <3>4, AdvancePasses
      <4> QED
        BY <1>1, <3>1, <3>2, <3>4, <4>1, <4>2
    <3> QED
      BY <1>1, <1>7, <3>3, <3>4
  <2>3. NothingMeasured'
    BY <1>1, <1>2, <1>7 DEF MeasureInv, NothingMeasured
  <2> QED
    BY <2>1, <2>2, <2>3 DEF MeasureInv
<1> QED
  BY <1>5, <1>6, <1>7, MeasureSteps

LEMMA MeasureInit == Init => MeasureInv
<1> SUFFICES ASSUME Init PROVE MeasureInv
  OBVIOUS
<1>1. image \in DOMAIN Images /\ TypeOK
  BY TypeInit DEF Init
<1>2. \A t, i : IsSample(t, i) => WordAt(t, i) \in TxWatched /\ ~(i < pc[t])
  <2> SUFFICES ASSUME NEW t, NEW i, IsSample(t, i)
               PROVE  WordAt(t, i) \in TxWatched /\ ~(i < pc[t])
    OBVIOUS
  <2>1. Program[image][t] \in Seq(Steps)
    BY <1>1, ProgramSeq DEF IsSample
  <2>2. i \in Nat \ {0} /\ pc[t] = 1
    BY <2>1 DEF IsSample, Init
  <2> QED
    BY <1>1, <2>2, ProgramAssumption DEF IsSample, WordAt
<1> QED
  BY <1>2 DEF Init, MeasureInv, SampledNow, SampledBefore, NothingMeasured

LEMMA MeasureImpliesWhole == TypeOK /\ MeasureInv => MeasurementWhole
<1> SUFFICES
      ASSUME TypeOK, MeasureInv, NEW t \in started, pc[t] = PassBegins(image, t),
             NEW r \in Samples[image][t], NEW s \in Samples[image][t]
      PROVE  tx[r.word] = tx[s.word]
  BY DEF MeasurementWhole
<1>1. image \in DOMAIN Images /\ t \in DOMAIN Program[image]
      /\ tx \in [TxWatched -> BOOLEAN]
  BY DEF TypeOK
<1>2. \A x \in Samples[image][t] : \E i : IsSample(t, i) /\ x = Program[image][t][i]
  BY <1>1 DEF Samples, StepsOf, IsSample
<1>3. PICK i : IsSample(t, i) /\ r = Program[image][t][i]
  BY <1>2
<1>4. PICK j : IsSample(t, j) /\ s = Program[image][t][j]
  BY <1>2
<1>5. CASE \E u \in DOMAIN Program[image] : Measures(u)
  <2>1. Measures(t)
    BY <1>3, <1>5, MeasureFirst
  <2>2. \A k : IsSample(t, k) => pc[t] <= k
    <3> SUFFICES ASSUME NEW k, IsSample(t, k) PROVE pc[t] <= k
      OBVIOUS
    <3>1. PassBegins(image, t) < k /\ k \in Nat /\ PassBegins(image, t) \in Nat
      BY <1>1, <2>1, MeasureFirst, ProgramSeq
    <3> QED
      BY <3>1
  <2> QED
    BY <1>1, <1>3, <1>4, <2>1, <2>2 DEF MeasureInv, SampledBefore, WordAt
<1>6. CASE ~ \E u \in DOMAIN Program[image] : Measures(u)
  <2>1. r.word \in TxWatched /\ s.word \in TxWatched
    BY <1>1, <1>3, <1>4, ProgramAssumption DEF IsSample
  <2> QED
    BY <1>1, <1>6, <2>1 DEF MeasureInv, NothingMeasured
<1> QED
  BY <1>5, <1>6

(* What a sensor task leaves in Tx_16Data at the end of a pass is of one   *)
(* measurement, also when a pass was broken off for want of an echo.       *)
THEOREM MeasurementAlwaysWhole == Spec => []MeasurementWhole
<1>1. TypeOK /\ MeasureInv /\ [Next]_vars => MeasureInv'
  <2> SUFFICES ASSUME TypeOK, MeasureInv, [Next]_vars PROVE MeasureInv'
    OBVIOUS
  <2>1. CASE Next
    BY <2>1, MeasureStep DEF Next
  <2>2. CASE UNCHANGED vars
    BY <2>2
    DEF vars, MeasureInv, SampledNow, SampledBefore, NothingMeasured, IsSample,
        WordAt, Measures
  <2> QED
    BY <2>1, <2>2
<1> QED
  BY <1>1, TypeCorrect, MeasureInit, MeasureImpliesWhole, PTL DEF Spec

-------------------------------------------------------------------------------
(* Peripherals keep their pins.                                            *)

(* Once the task is past the step that secures the pins of a peripheral,   *)
(* they belong to it, and no user that is to wait for this step runs       *)
(* before.                                                                 *)
PinsSecured ==
  \A t \in DOMAIN Program[image] : \A i \in DOMAIN Program[image][t] :
    \A unit : Secures(image, t, i, unit) /\ i < pc[t] =>
      \A p \in PinsOf(image, unit) : wired[p] = unit
UsersWait ==
  \A t \in DOMAIN Program[image] : \A i \in DOMAIN Program[image][t] :
    \A user \in started :
      user # t /\ i < PassBegins(image, t) /\ InTime(image, t, i, user) => i < pc[t]

WiringInv == PinsSecured /\ UsersWait

(* A task does not come back to its initialisation.                        *)
LEMMA StaysPast ==
  ASSUME TypeOK, NEW t \in DOMAIN Program[image], TaskStep(t),
         NEW u \in DOMAIN Program[image], NEW i \in DOMAIN Program[image][u],
         i < PassBegins(image, u)
  PROVE  /\ i \in Nat /\ pc[u] \in Nat /\ pc'[u] \in Nat
         /\ i < pc[u] => i < pc'[u]
         /\ i < pc'[u] => i < pc[u] \/ (u = t /\ pc[u] = i)
<1>1. /\ image \in DOMAIN Images /\ pc \in [DOMAIN Program[image] -> Nat \ {0}]
      /\ image' = image /\ Moves(t)
  BY StepMoves DEF TypeOK
<1>2. /\ \A v \in DOMAIN Program[image] :
           Program[image][v] \in Seq(Steps) /\ PassBegins(image, v) \in Nat
      /\ i \in Nat /\ Len(Program[image][t]) \in Nat
  BY <1>1, ProgramSeq
<1>3. /\ pc[u] \in Nat /\ pc'[u] \in Nat
      /\ i < pc[u] => i < pc'[u]
  BY <1>1, <1>2 DEF Moves
<1>4. ASSUME i < pc'[u], ~(i < pc[u]) PROVE u = t /\ pc[u] = i
  <2>1. u = t
    BY <1>1, <1>4 DEF Moves
  <2>2. pc'[t] = pc[t] + 1 \/ pc'[t] = PassBegins(image, t)
    BY <1>1, <1>4, <2>1 DEF Moves
  <2>3. CASE pc'[t] = pc[t] + 1
    BY <1>2, <1>3, <1>4, <2>1, <2>3
  <2>4. CASE pc'[t] # pc[t] + 1
    <3>1. pc'[t] # pc[t]
      BY <1>4, <2>1
    <3>2. AwaitMeasurement(t) \/ Advance(t)
      BY <1>1, <3>1
      DEF TaskStep, StartTask, ConfigurePins, CopyWord, DriveOutput, PresetWord,
          MeasureDistance, SampleInput, FrameAccepted, StoreWord,
          NothingReceived, SendBegins, SendHighByte, SendLowByte, NothingSent
    <3>3. CASE pc'[t] = After(t)
      <4>1. pc[t] = Len(Program[image][t])
        BY <2>4, <3>3 DEF After
      <4>2. i <= Len(Program[image][t])
        BY <1>2, <2>1
      <4> QED
        BY <1>2, <1>3, <1>4, <2>1, <4>1, <4>2
    <3>4. CASE pc'[t] # After(t)
      <4>1. AwaitMeasurement(t)
        BY <1>1, <3>2, <3>4 DEF Advance
      <4>2. /\ pc[t] \in DOMAIN Program[image][t]
            /\ Program[image][t][pc[t]].op = "await"
        BY <4>1, CurrentStep DEF AwaitMeasurement
      <4>3. PassBegins(image, t) <= pc[t]
        <5>1. \A m \in DOMAIN Images : \A v \in DOMAIN Program[m] :
                \A k \in DOMAIN Program[m][v] :
                  Program[m][v][k].op = "await" => PassBegins(m, v) <= k
          BY MeasureAssumption
        <5> QED
          BY <1>1, <4>2, <5>1
      <4> QED
        BY <1>2, <1>3, <1>4, <2>1, <4>3
    <3> QED
      BY <3>3, <3>4
  <2> QED
    BY <2>2, <2>3, <2>4, <1>3, <1>2, <1>4
<1> QED
  BY <1>2, <1>3, <1>4

LEMMA WiredStep ==
  ASSUME TypeOK, NEW t \in DOMAIN Program[image], TaskStep(t)
  PROVE  ConfigurePins(t) \/ (UNCHANGED wired /\ ~Ready(t, "configure"))
BY DEF TaskStep, StartTask, ConfigurePins, CopyWord, DriveOutput, PresetWord,
       MeasureDistance, AwaitMeasurement, SampleInput, FrameAccepted, StoreWord,
       NothingReceived, SendBegins, SendHighByte, SendLowByte, NothingSent, Ready

LEMMA StartedStep ==
  ASSUME TypeOK, NEW t \in DOMAIN Program[image], TaskStep(t)
  PROVE  StartTask(t) \/ UNCHANGED started
BY DEF TaskStep, ConfigurePins, CopyWord, DriveOutput, PresetWord,
       MeasureDistance, AwaitMeasurement, SampleInput, FrameAccepted, StoreWord,
       NothingReceived, SendBegins, SendHighByte, SendLowByte, NothingSent

LEMMA SecuredStep ==
  ASSUME TypeOK, WiringInv, NEW t \in DOMAIN Program[image], TaskStep(t),
         NEW u \in DOMAIN Program[image], NEW i \in DOMAIN Program[image][u],
         NEW unit, Secures(image, u, i, unit), i < pc'[u],
         NEW p \in PinsOf(image, unit)
  PROVE  wired'[p] = unit
<1>1. image \in DOMAIN Images /\ i < PassBegins(image, u)
  BY DEF TypeOK, Secures
<1>2. /\ i \in Nat /\ pc[u] \in Nat
      /\ i < pc[u] \/ (u = t /\ pc[u] = i)
  BY <1>1, StaysPast
<1>3. i < pc[u] => wired[p] = unit
  BY DEF WiringInv, PinsSecured
<1>4. Program[image][u][i].op = "configure" /\ unit \in Program[image][u][i].via
  BY DEF Secures
<1>5. CASE ~ConfigurePins(t)
  <2>1. wired' = wired /\ ~Ready(t, "configure")
    BY <1>5, WiredStep
  <2>2. ~(u = t /\ pc[u] = i)
    <3> SUFFICES ASSUME u = t, pc[t] = i PROVE Ready(t, "configure")
      BY <2>1
    <3>1. t \in started
      BY DEF TaskStep, StartTask, ConfigurePins, CopyWord, DriveOutput,
             PresetWord, MeasureDistance, AwaitMeasurement, SampleInput,
             FrameAccepted, StoreWord, NothingReceived, SendBegins,
             SendHighByte, SendLowByte, NothingSent, Ready
    <3>2. Program[image][t] \in Seq(Steps)
      BY <1>1, ProgramSeq
    <3> QED
      BY <1>4, <3>1, <3>2 DEF Ready
  <2> QED
    BY <1>2, <1>3, <2>1, <2>2
<1>6. CASE ConfigurePins(t)
  <2> DEFINE k == pc[t]
             r == Program[image][t][k]
             takers == {o \in r.via : p \in PinsOf(image, o)}
  <2>1. /\ k \in DOMAIN Program[image][t] /\ r.op = "configure"
        /\ Current(t) = r
    BY <1>6, CurrentStep DEF ConfigurePins
  <2>2. p \in AllPins(image)
    BY DEF PinsOf, AllPins
  <2>3. wired'[p] = IF takers = {} THEN wired[p] ELSE CHOOSE o \in takers : TRUE
    <3> HIDE DEF r
    <3> QED
      BY <1>6, <2>1, <2>2 DEF ConfigurePins
  <2>4. \/ t = u /\ k < i
        \/ \A o \in r.via \ {unit} : PinsOf(image, o) \cap PinsOf(image, unit) = {}
    BY <2>1 DEF Secures
  <2>5. ~(t = u /\ k < i)
    BY <1>2
  <2>6. takers \subseteq {unit}
    <3> HIDE DEF r
    <3> QED
      BY <2>4, <2>5
  <2>7. u = t /\ k = i => unit \in takers
    BY <1>4
  <2> HIDE DEF takers
  <2>8. CASE takers = {}
    <3>1. i < pc[u]
      BY <1>2, <2>7, <2>8
    <3> QED
      BY <1>3, <2>3, <2>8, <3>1
  <2>9. CASE takers # {}
    <3>1. takers = {unit}
      BY <2>6, <2>9
    <3>2. (CHOOSE o \in takers : TRUE) \in takers
      BY <2>9
    <3> QED
      BY <2>3, <3>1, <3>2
  <2> QED
    BY <2>8, <2>9
<1> QED
  BY <1>5, <1>6

LEMMA UsersStep ==
  ASSUME TypeOK, WiringInv, NEW t \in DOMAIN Program[image], TaskStep(t),
         NEW u \in DOMAIN Program[image], NEW i \in DOMAIN Program[image][u],
         NEW user \in started', user # u, i < PassBegins(image, u),
         InTime(image, u, i, user)
  PROVE  i < pc'[u]
<1>1. image \in DOMAIN Images
  BY DEF TypeOK
<1>2. i < pc[u] => i < pc'[u]
  BY StaysPast
<1>3. CASE user \in started
  BY <1>2, <1>3 DEF WiringInv, UsersWait
<1>4. CASE user \notin started
  <2>1. StartTask(t)
    BY <1>4, StartedStep
  <2>2. /\ pc[t] \in DOMAIN Program[image][t]
        /\ Program[image][t][pc[t]].op = "start"
        /\ Program[image][t][pc[t]].unit = user
    BY <1>4, <2>1, CurrentStep DEF StartTask
  <2>3. t = u /\ i < pc[t]
    BY <2>2 DEF InTime
  <2> QED
    BY <1>2, <2>3
<1> QED
  BY <1>3, <1>4

LEMMA WiringStep ==
  ASSUME TypeOK, WiringInv, NEW t \in DOMAIN Program[image], TaskStep(t)
  PROVE  WiringInv'
<1>1. image' = image
  BY StepMoves
<1>2. PinsSecured'
  <2>1. ASSUME NEW u \in DOMAIN Program[image], NEW i \in DOMAIN Program[image][u],
               NEW unit, Secures(image, u, i, unit), i < pc'[u],
               NEW p \in PinsOf(image, unit)
        PROVE  wired'[p] = unit
    BY <2>1, SecuredStep
  <2> QED
    BY <1>1, <2>1 DEF PinsSecured, Secures, PinsOf, PassBegins
<1>3. UsersWait'
  <2>1. ASSUME NEW u \in DOMAIN Program[image], NEW i \in DOMAIN Program[image][u],
               NEW user \in started', user # u, i < PassBegins(image, u),
               InTime(image, u, i, user)
        PROVE  i < pc'[u]
    BY <2>1, UsersStep
  <2> QED
    BY <1>1, <2>1 DEF UsersWait, InTime, PassBegins
<1> QED
  BY <1>2, <1>3 DEF WiringInv

LEMMA WiringInit == Init => WiringInv
<1> SUFFICES ASSUME Init PROVE WiringInv
  OBVIOUS
<1>1. image \in DOMAIN Images
  BY DEF Init
<1>2. PinsSecured
  <2> SUFFICES ASSUME NEW t \in DOMAIN Program[image],
                      NEW i \in DOMAIN Program[image][t]
               PROVE  ~(i < pc[t])
    BY DEF PinsSecured
  <2>1. Program[image][t] \in Seq(Steps)
    BY <1>1, ProgramSeq
  <2>2. i \in Nat \ {0} /\ pc[t] = 1
    BY <2>1 DEF Init
  <2> QED
    BY <2>2
<1>3. UsersWait
  BY DEF Init, UsersWait, InTime
<1> QED
  BY <1>2, <1>3 DEF WiringInv

LEMMA WiringImpliesConfigured == TypeOK /\ WiringInv => Configured
<1> SUFFICES
      ASSUME TypeOK, WiringInv, image \notin Miswired,
             NEW user \in started, pc[user] >= PassBegins(image, user),
             NEW unit \in Uses[image][user]
      PROVE  /\ PinsOf(image, unit) # {}
             /\ \A p \in PinsOf(image, unit) : wired[p] = unit
  BY DEF Configured
<1>1. image \in DOMAIN Images /\ user \in DOMAIN Program[image]
      /\ pc \in [DOMAIN Program[image] -> Nat \ {0}]
  BY DEF TypeOK
<1>2. PinsOf(image, unit) # {}
  BY <1>1, WiringAssumption DEF WiredRight
<1>3. PICK t \in DOMAIN Program[image] : \E i \in DOMAIN Program[image][t] :
        Secures(image, t, i, unit) /\ InTime(image, t, i, user)
  BY <1>1, WiringAssumption DEF WiredRight
<1>4. PICK i \in DOMAIN Program[image][t] :
        Secures(image, t, i, unit) /\ InTime(image, t, i, user)
  BY <1>3
<1>5. i < PassBegins(image, t)
  BY <1>4 DEF Secures
<1>6. i < pc[t]
  <2>1. CASE user = t
    <3>1. /\ Program[image][t] \in Seq(Steps) /\ PassBegins(image, t) \in Nat
          /\ pc[t] \in Nat
      BY <1>1, <1>3, ProgramSeq
    <3>2. i \in Nat
      BY <3>1
    <3> QED
      BY <1>5, <2>1, <3>1, <3>2
  <2>2. CASE user # t
    BY <1>4, <1>5, <2>2 DEF WiringInv, UsersWait
  <2> QED
    BY <2>1, <2>2
<1> QED
  BY <1>2, <1>4, <1>6 DEF WiringInv, PinsSecured

(* In every image that is wired right, at each moment, a task that is past *)
(* its initialisation finds its peripherals on their pins: initialisations *)
(* of tasks that were started together cannot take them away, in whatever  *)
(* order they run.                                                         *)
THEOREM AlwaysConfigured == Spec => []Configured
<1>1. TypeOK /\ WiringInv /\ [Next]_vars => WiringInv'
  <2> SUFFICES ASSUME TypeOK, WiringInv, [Next]_vars PROVE WiringInv'
    OBVIOUS
  <2>1. CASE Next
    BY <2>1, WiringStep DEF Next
  <2>2. CASE UNCHANGED vars
    BY <2>2
    DEF vars, WiringInv, PinsSecured, UsersWait, Secures, InTime, PinsOf,
        PassBegins
  <2> QED
    BY <2>1, <2>2
<1> QED
  BY <1>1, TypeCorrect, WiringInit, WiringImpliesConfigured, PTL DEF Spec
================================================================================
