------------------------------ MODULE Esp32Images ------------------------------
(***************************************************************************)
(* The images of the ESP32 firmware, one for each mode of config.hpp:      *)
(* which tasks setup() starts, and what each does with the command words,  *)
(* the telemetry words and the pins.  ENABLE_EXTRA_TR_PIN is 0, as in      *)
(* config.hpp, so TR6 and TR7 do not exist.                                *)
(***************************************************************************)
EXTENDS McuSteps

(* defs.hpp: the pins of each peripheral.  SW5 to SW8 are pins of          *)
(* encoders 3 and 4, SERVO1 to SERVO4 pins of encoders 1 and 2.  Serial is *)
(* UART0, as on every ESP32 board with a USB bridge.                       *)
Pins ==
  [Serial |-> {1, 3}, LED |-> {0},
   MD1P |-> {5}, MD2P |-> {12}, MD3P |-> {13}, MD4P |-> {14},
   MD1D |-> {15}, MD2D |-> {16}, MD3D |-> {17}, MD4D |-> {18},
   SERVO1 |-> {19}, SERVO2 |-> {21}, SERVO3 |-> {22}, SERVO4 |-> {23},
   TR1 |-> {25}, TR2 |-> {26}, TR3 |-> {27}, TR4 |-> {32}, TR5 |-> {33},
   ENC1 |-> {19, 21}, ENC2 |-> {22, 23}, ENC3 |-> {15, 16}, ENC4 |-> {17, 18},
   SW1 |-> {5}, SW2 |-> {12}, SW3 |-> {13}, SW4 |-> {14},
   SW5 |-> {15}, SW6 |-> {16}, SW7 |-> {17}, SW8 |-> {18},
   CAN |-> {2, 4}]

-------------------------------------------------------------------------------
(* pin_ctrl_init.cpp                                                       *)

ENCx4_SWx4_init == Configure(Named(First(4, Sws)) \cup Named(First(4, Encs)))
ENCx2_init == Configure(Named(First(2, Encs)))
Input_init == <<ENCx4_SWx4_init>>
Output_init ==
  <<Configure(Named(First(4, MdDirs)) \cup Named(First(4, MdPwms))
                \cup Named(First(4, Servos)) \cup Named(First(5, Trs)))>>
IO_init ==
  <<Configure({"MD1D", "MD2D", "MD1P", "MD2P"}),
    ENCx2_init,
    Configure({"SW3", "SW4", "SW7", "SW8"} \cup Named(First(5, Trs)))>>
ROBOMAS_IO_init == <<ENCx4_SWx4_init, Configure(Named(First(5, Trs)))>>

-------------------------------------------------------------------------------
(* pin_ctrl_task.cpp                                                       *)

MD_Output ==
  Copies(1, 4) \o Drives(1, First(4, MdDirs)) \o Drives(1, First(4, MdPwms))
Servo_Output == Carries(9, First(4, Servos))
TR_Output == Carries(17, First(5, Trs))
ENC_Input == Samples(1, First(4, Encs))
SW_Input == Samples(9, Sws)

IO_MD_Output ==
  Copies(1, 2) \o Drives(1, First(2, MdDirs)) \o Drives(1, First(2, MdPwms))
IO_TR_Output == Carries(17, First(5, Trs))
IO_ENC_Input == Samples(1, First(2, Encs))
IO_SW_Input ==
  <<Sample(11, "SW3"), Sample(12, "SW4"), Sample(15, "SW7"), Sample(16, "SW8")>>
ROBOMAS_IO_ENC_Input == Samples(1, First(4, Encs))
ROBOMAS_IO_SW_Input == Samples(9, <<"SW1", "SW2">>)

ServoPresets == [i \in 1..4 |-> Preset(8 + i)]
Output_Task ==
  Task(Output_init \o ServoPresets, MD_Output \o Servo_Output \o TR_Output)
Input_Task == Task(Input_init, ENC_Input \o SW_Input)
IO_Task ==
  Task(IO_init, IO_MD_Output \o IO_TR_Output \o IO_ENC_Input \o IO_SW_Input)
ROBOMAS_IO_Task ==
  Task(ROBOMAS_IO_init,
       IO_TR_Output \o ROBOMAS_IO_ENC_Input \o ROBOMAS_IO_SW_Input)

-------------------------------------------------------------------------------
(* robomas.cpp, pid_task.cpp: what the loops regulate towards and report.  *)

robomas_init == Configure({"CAN"})
M3508_Task ==
  Task(<<>>, Copies(5, 4) \o Motors(5, C6x0s)
               \o Feedbacks(7, Angles) \o Feedbacks(11, Speeds))
M2006_Task ==
  Task(<<>>, Copies(5, 4) \o Motors(5, C6x0s)
               \o Feedbacks(11, Angles) \o Feedbacks(15, Speeds))
gm6020_Task ==
  Task(<<>>, Copies(0, 4) \o Motors(0, Gm6020s)
               \o Feedbacks(11, Angles) \o Feedbacks(15, Speeds)
               \o Feedbacks(19, <<"torque2", "current2", "encoder2">>))
PID_Task ==
  Task(<<>>, Copies(5, 2) \o Samples(1, First(2, Encs))
               \o Samples(11, <<"SW3", "SW4">>) \o Copies(1, 2)
               \o Drives(1, First(2, MdDirs)) \o Drives(1, First(2, MdPwms)))

-------------------------------------------------------------------------------
(* main.cpp: setup() for each mode.  serialTask is started first.          *)

serialTask == Task(<<>>, <<ReceiveFrame, SendFrame>>)
Begin == <<Configure({"Serial", "LED"}), Start("serialTask")>>

Image(tasks) == [pins |-> Pins, tasks |-> tasks]
MODE_OUTPUT ==
  [setup |-> Task(Begin \o <<Start("Output_Task")>>, <<>>),
   serialTask |-> serialTask, Output_Task |-> Output_Task]
MODE_INPUT ==
  [setup |-> Task(Begin \o <<Start("Input_Task")>>, <<>>),
   serialTask |-> serialTask, Input_Task |-> Input_Task]
MODE_IO ==
  [setup |-> Task(Begin \o <<Start("IO_Task")>>, <<>>),
   serialTask |-> serialTask, IO_Task |-> IO_Task]
MODE_ROBOMAS ==
  [setup |-> Task(Begin \o <<robomas_init, Start("M2006_Task")>>, <<>>),
   serialTask |-> serialTask, M2006_Task |-> M2006_Task]
MODE_ROBOMAS_PLUS_OUTPUT ==
  [setup |-> Task(Begin \o <<robomas_init, Start("M3508_Task"),
                             Start("Output_Task")>>, <<>>),
   serialTask |-> serialTask,
   M3508_Task |-> M3508_Task, Output_Task |-> Output_Task]
MODE_ROBOMAS_PLUS_INPUT ==
  [setup |-> Task(Begin \o <<robomas_init, Start("M2006_Task"),
                             Start("Input_Task")>>, <<>>),
   serialTask |-> serialTask,
   M2006_Task |-> M2006_Task, Input_Task |-> Input_Task]
MODE_ROBOMAS_PLUS_IO ==
  [setup |-> Task(Begin \o <<robomas_init, Start("gm6020_Task"),
                             Start("ROBOMAS_IO_Task")>>, <<>>),
   serialTask |-> serialTask,
   gm6020_Task |-> gm6020_Task, ROBOMAS_IO_Task |-> ROBOMAS_IO_Task]
MODE_DEBUG ==
  [setup |-> Task(Begin \o <<Start("PID_Task")>>, <<>>),
   serialTask |-> serialTask, PID_Task |-> PID_Task]

Modes ==
  [esp32_output |-> Image(MODE_OUTPUT),
   esp32_input |-> Image(MODE_INPUT),
   esp32_io |-> Image(MODE_IO),
   esp32_robomas |-> Image(MODE_ROBOMAS),
   esp32_robomas_output |-> Image(MODE_ROBOMAS_PLUS_OUTPUT),
   esp32_robomas_input |-> Image(MODE_ROBOMAS_PLUS_INPUT),
   esp32_robomas_io |-> Image(MODE_ROBOMAS_PLUS_IO),
   esp32_debug |-> Image(MODE_DEBUG)]
================================================================================
