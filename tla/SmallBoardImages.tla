--------------------------- MODULE SmallBoardImages ---------------------------
(***************************************************************************)
(* The images of the XIAO ESP32-S3 firmware (a sensor each), and of the    *)
(* STM32 and Arduino Uno firmware, which have no tasks: loop() receives    *)
(* what there is, updates inputs and outputs, and sends when it is due.    *)
(***************************************************************************)
EXTENDS McuSteps

-------------------------------------------------------------------------------
(* XIAO ESP32-S3: defs.hpp, config.hpp, pin_ctrl_task.cpp, main.cpp.  Pins *)
(* D1 and D2 of the board stand for themselves; an image uses one sensor.  *)
(* Serial is the USB port of the chip (platformio.ini).                    *)

XiaoPins ==
  [Serial |-> {19, 20}, LED |-> {0}, SDM15 |-> {3, 4}, HC_SR04 |-> {1, 2}]

SDM15_Task ==
  Task(<<Configure({"SDM15"})>>,
       <<Measure("SDM15"), Await>> \o [i \in 1..3 |-> Sample(i - 1, "SDM15")])
HC_SR04_Task ==
  Task(<<Configure({"HC_SR04"})>>,
       <<Measure("HC_SR04")>> \o [i \in 1..3 |-> Sample(i - 1, "HC_SR04")])

serialTask == Task(<<>>, <<ReceiveFrame, SendFrame>>)
XiaoBegin == <<Configure({"Serial", "LED"}), Start("serialTask")>>
MODE_SDM15 ==
  [setup |-> Task(XiaoBegin \o <<Start("SDM15_Task")>>, <<>>),
   serialTask |-> serialTask, SDM15_Task |-> SDM15_Task]
MODE_HC_SR04 ==
  [setup |-> Task(XiaoBegin \o <<Start("HC_SR04_Task")>>, <<>>),
   serialTask |-> serialTask, HC_SR04_Task |-> HC_SR04_Task]

-------------------------------------------------------------------------------
(* STM32: defs.hpp, io.cpp, main.cpp.  Where Serial and the LED are is the *)
(* board's: of the two in platformio.ini, Serial is the port to the        *)
(* ST-Link, the LED the one that LED_BUILTIN names.                        *)

Port(p, n) == {<<p, n>>}
Stm32DrivePins ==
  [MD1P |-> Port("PB", 6), MD2P |-> Port("PB", 7), MD3P |-> Port("PB", 8),
   MD4P |-> Port("PB", 9), MD5P |-> Port("PA", 8), MD6P |-> Port("PA", 9),
   MD7P |-> Port("PA", 10), MD8P |-> Port("PA", 11),
   MD1D |-> Port("PB", 0), MD2D |-> Port("PB", 1), MD3D |-> Port("PB", 2),
   MD4D |-> Port("PB", 3), MD5D |-> Port("PC", 0), MD6D |-> Port("PC", 1),
   MD7D |-> Port("PC", 2), MD8D |-> Port("PC", 3),
   SERVO1 |-> Port("PA", 0), SERVO2 |-> Port("PA", 1), SERVO3 |-> Port("PA", 2),
   SERVO4 |-> Port("PA", 3), SERVO5 |-> Port("PB", 4), SERVO6 |-> Port("PB", 5),
   SERVO7 |-> Port("PA", 6), SERVO8 |-> Port("PA", 7)]
Stm32SignalPins ==
  [ENC1 |-> Port("PC", 4) \cup Port("PC", 5),
   ENC2 |-> Port("PC", 6) \cup Port("PC", 7),
   ENC3 |-> Port("PC", 8) \cup Port("PC", 9),
   ENC4 |-> Port("PC", 10) \cup Port("PC", 11),
   ENC5 |-> Port("PA", 4) \cup Port("PA", 5),
   ENC6 |-> Port("PB", 12) \cup Port("PB", 13),
   ENC7 |-> Port("PB", 14) \cup Port("PB", 15),
   ENC8 |-> Port("PB", 10) \cup Port("PB", 11),
   TR1 |-> Port("PD", 0), TR2 |-> Port("PD", 1), TR3 |-> Port("PD", 2),
   TR4 |-> Port("PD", 3), TR5 |-> Port("PD", 4), TR6 |-> Port("PD", 5),
   TR7 |-> Port("PD", 6),
   SW1 |-> Port("PD", 7), SW2 |-> Port("PD", 8), SW3 |-> Port("PD", 9),
   SW4 |-> Port("PD", 10), SW5 |-> Port("PD", 11), SW6 |-> Port("PD", 12),
   SW7 |-> Port("PD", 13), SW8 |-> Port("PD", 14)]
Stm32Pins == Stm32DrivePins @@ Stm32SignalPins
Nucleo_f446re ==
  [Serial |-> {<<"PA", 2>>, <<"PA", 3>>}, LED |-> Port("PA", 5)] @@ Stm32Pins
Nucleo_f767zi ==
  [Serial |-> {<<"PD", 8>>, <<"PD", 9>>}, LED |-> Port("PB", 0)] @@ Stm32Pins

output_init ==
  Configure(Named(MdDirs) \cup Named(MdPwms) \cup Named(Trs) \cup Named(Servos))
input_init == Configure(Named(Encs) \cup Named(Sws))
md_output == Copies(1, 8) \o Drives(1, MdDirs) \o Drives(1, MdPwms)
servo_output == Carries(9, Servos)
tr_output == Carries(17, Trs)
enc_input == Samples(1, Encs)
sw_input == Samples(9, Sws)
io_update == md_output \o servo_output \o tr_output \o enc_input \o sw_input
Stm32Setup ==
  <<Configure({"Serial"}), Configure({"LED"}), output_init, input_init>>
Stm32Loop == <<ReceiveFrameDark>> \o io_update \o <<SendFrame>>
MODE_FULL_IO == [setup |-> Task(Stm32Setup, Stm32Loop)]

-------------------------------------------------------------------------------
(* Arduino Uno: defs.hpp, io.cpp, main.cpp.  There is no LED to toggle.    *)

UnoPins ==
  [Serial |-> {<<"D", 0>>, <<"D", 1>>},
   SERVO1 |-> Port("D", 9), SERVO2 |-> Port("D", 10), SERVO3 |-> Port("D", 11),
   SERVO4 |-> Port("D", 6), SERVO5 |-> Port("D", 5), SERVO6 |-> Port("D", 3),
   SW1 |-> Port("D", 2), SW2 |-> Port("D", 4), SW3 |-> Port("D", 7),
   SW4 |-> Port("D", 8),
   SW5 |-> Port("A", 0), SW6 |-> Port("A", 1), SW7 |-> Port("A", 2), SW8 |-> Port("A", 3)]
UnoIoInit == Configure(Named(First(6, Servos)) \cup Named(Sws))
UnoIoUpdate == Carries(9, First(6, Servos)) \o Samples(9, Sws)
UnoSetup == <<Configure({"Serial"}), UnoIoInit>>
UnoLoop == <<ReceiveFrameDark>> \o UnoIoUpdate \o <<SendFrame>>

Modes ==
  [xiao_sdm15 |-> [pins |-> XiaoPins, tasks |-> MODE_SDM15],
   xiao_hc_sr04 |-> [pins |-> XiaoPins, tasks |-> MODE_HC_SR04],
   stm32_f446re |-> [pins |-> Nucleo_f446re, tasks |-> MODE_FULL_IO],
   stm32_f767zi |-> [pins |-> Nucleo_f767zi, tasks |-> MODE_FULL_IO],
   uno |-> [pins |-> UnoPins, tasks |-> [setup |-> Task(UnoSetup, UnoLoop)]]]
================================================================================
