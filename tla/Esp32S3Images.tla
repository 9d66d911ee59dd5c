----------------------------- MODULE Esp32S3Images -----------------------------
(***************************************************************************)
(* The images of the ESP32-S3 firmware.  MODE_ROBOMAS_AD refers to an      *)
(* Output_Task this firmware does not have and cannot be built;            *)
(* MODE_ROBOMAS is left out, see the README.                               *)
(***************************************************************************)
EXTENDS McuSteps

(* defs.hpp, config.hpp.  Serial is the USB port of the chip itself, by    *)
(* ARDUINO_USB_CDC_ON_BOOT of platformio.ini.                              *)
Pins ==
  [Serial |-> {19, 20}, LED |-> {0},
   MD1P |-> {4}, MD2P |-> {5}, MD3P |-> {6}, MD4P |-> {7},
   MD1D |-> {8}, MD2D |-> {9}, MD3D |-> {10}, MD4D |-> {11},
   SERVO1 |-> {16}, SERVO2 |-> {17}, SERVO3 |-> {18}, SERVO4 |-> {21},
   TR1 |-> {40}, TR2 |-> {41}, TR3 |-> {42}, TR4 |-> {47}, TR5 |-> {48},
   TR6 |-> {1},
   ENC1 |-> {12, 13}, ENC2 |-> {14, 15},
   SW1 |-> {35}, SW2 |-> {36}, SW3 |-> {37}, SW4 |-> {38}, SW5 |-> {39},
   SDM15 |-> {3, 4}]

(* pin_ctrl_init.cpp                                                       *)
IO_init ==
  Configure(Named(First(4, MdDirs)) \cup Named(First(4, MdPwms))
              \cup Named(First(4, Servos)) \cup Named(First(2, Encs))
              \cup Named(First(5, Sws)) \cup Named(First(6, Trs)))

(* pin_ctrl_task.cpp                                                       *)
IO_MD_Output ==
  Copies(1, 4) \o Drives(1, First(4, MdDirs)) \o Drives(1, First(4, MdPwms))
IO_Servo_Outout == Carries(9, First(4, Servos))
IO_TR_Output == Carries(17, First(6, Trs))
IO_ENC_Input == Samples(1, First(2, Encs))
IO_SW_Input == Samples(9, First(5, Sws))
IO_Task ==
  Task(<<IO_init>>,
       IO_MD_Output \o IO_Servo_Outout \o IO_TR_Output
         \o IO_ENC_Input \o IO_SW_Input)
SDM15_Task ==
  Task(<<Configure({"SDM15"})>>,
       <<Measure("SDM15"), Await>> \o [i \in 1..3 |-> Sample(i - 1, "SDM15")])

(* pid_task.cpp                                                            *)
md_enc_init ==
  Configure({"MD1D", "MD2D", "MD1P", "MD2P", "ENC1", "ENC2", "SW3", "SW4"})
pid_control ==
  Copies(5, 2) \o Samples(1, First(2, Encs)) \o Samples(11, <<"SW3", "SW4">>)
    \o Copies(1, 2) \o Drives(1, First(2, MdDirs)) \o Drives(1, First(2, MdPwms))
PID_Task == Task(<<md_enc_init>>, pid_control)

(* serial_task.cpp, main.cpp                                               *)
serialTask == Task(<<>>, <<ReceiveFrame, SendFrame>>)
Begin == <<Configure({"Serial", "LED"}), Start("serialTask")>>

MODE_IO ==
  [setup |-> Task(Begin \o <<Start("IO_Task")>>, <<>>),
   serialTask |-> serialTask, IO_Task |-> IO_Task]
MODE_SDM15 ==
  [setup |-> Task(Begin \o <<Start("SDM15_Task")>>, <<>>),
   serialTask |-> serialTask, SDM15_Task |-> SDM15_Task]
MODE_DEBUG ==
  [setup |-> Task(Begin \o <<Start("PID_Task")>>, <<>>),
   serialTask |-> serialTask, PID_Task |-> PID_Task]

Modes ==
  [s3_io |-> [pins |-> Pins, tasks |-> MODE_IO],
   s3_sdm15 |-> [pins |-> Pins, tasks |-> MODE_SDM15],
   s3_debug |-> [pins |-> Pins, tasks |-> MODE_DEBUG]]
================================================================================
