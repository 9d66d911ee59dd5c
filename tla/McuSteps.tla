-------------------------------- MODULE McuSteps --------------------------------
(***************************************************************************)
(* The vocabulary in which the firmware images are written down: what a    *)
(* FreeRTOS task, setup() or loop() does, one access to memory shared with *)
(* another task at a time.  A step names the word of Rx_16Data or          *)
(* Tx_16Data it accesses, the output or sensor it is about ("unit"), and   *)
(* the peripherals it needs configured ("via").                            *)
(***************************************************************************)
EXTENDS Integers, SequencesExt

Step(op, word, unit, via) ==
  [op |-> op, word |-> word, unit |-> unit, via |-> via]

(* A word of Rx_16Data is read into a local variable.                      *)
Copy(w) == Step("copy", w, "", {})
(* An output is set from the local copy of a word.                         *)
Drive(u, w) == Step("drive", w, u, {u})
(* A motor is sent a current that is regulated towards the copied word.    *)
Motor(u, w) == Step("drive", w, u, {"CAN"})
(* A word of Rx_16Data is given its initial value.                         *)
Preset(w) == Step("preset", w, "", {})
(* What a peripheral reads goes to a word of Tx_16Data.                    *)
Sample(w, u) == Step("sample", w, u, {u})
(* What motor feedback says goes to a word of Tx_16Data.                   *)
Feedback(w, u) == Step("sample", w, u, {"CAN"})
(* A distance is measured, or the measurement times out.                   *)
Measure(u) == Step("measure", 0, u, {u})
(* The pass is over unless the measurement succeeded.                      *)
Await == Step("await", 0, "", {})
(* Peripherals get their pins.                                             *)
Configure(units) == Step("configure", 0, "", units)
(* xTaskCreate.                                                            *)
Start(task) == Step("start", 0, task, {})
(* receive_frame(), with and without an LED, and send_frame().             *)
ReceiveFrame == Step("receive", 0, "", {"Serial", "LED"})
ReceiveFrameDark == Step("receive", 0, "", {"Serial"})
SendFrame == Step("send", 0, "", {"Serial"})

(* Each unit in turn, for the words from the given one upwards.            *)
Copies(first, n) == [i \in 1..n |-> Copy(first + i - 1)]
Drives(first, units) ==
  [i \in DOMAIN units |-> Drive(units[i], first + i - 1)]
Motors(first, units) ==
  [i \in DOMAIN units |-> Motor(units[i], first + i - 1)]
Samples(first, units) ==
  [i \in DOMAIN units |-> Sample(first + i - 1, units[i])]
Feedbacks(first, units) ==
  [i \in DOMAIN units |-> Feedback(first + i - 1, units[i])]
(* One word is copied and its unit driven before the next word is copied.  *)
Carries(first, units) ==
  FlattenSeq([i \in DOMAIN units |->
    <<Copy(first + i - 1), Drive(units[i], first + i - 1)>>])

Task(boot, loop) == [boot |-> boot, loop |-> loop]

(* Names of the units of the boards.                                       *)
MdDirs == <<"MD1D", "MD2D", "MD3D", "MD4D", "MD5D", "MD6D", "MD7D", "MD8D">>
MdPwms == <<"MD1P", "MD2P", "MD3P", "MD4P", "MD5P", "MD6P", "MD7P", "MD8P">>
Servos == <<"SERVO1", "SERVO2", "SERVO3", "SERVO4",
            "SERVO5", "SERVO6", "SERVO7", "SERVO8">>
Trs == <<"TR1", "TR2", "TR3", "TR4", "TR5", "TR6", "TR7">>
Encs == <<"ENC1", "ENC2", "ENC3", "ENC4", "ENC5", "ENC6", "ENC7", "ENC8">>
Sws == <<"SW1", "SW2", "SW3", "SW4", "SW5", "SW6", "SW7", "SW8">>
C6x0s == <<"motor1", "motor2", "motor3", "motor4">>
Gm6020s == <<"gm1", "gm2", "gm3", "gm4">>
Angles == <<"angle1", "angle2", "angle3", "angle4">>
Speeds == <<"speed1", "speed2", "speed3", "speed4">>

First(n, names) == SubSeq(names, 1, n)
Named(names) == {names[i] : i \in DOMAIN names}
================================================================================
