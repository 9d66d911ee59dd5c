------------------------------- MODULE MCMcuTasks -------------------------------
(* Every firmware image of the repository, for TLC.                        *)
EXTENDS McuTasks, TLC

Esp32 == INSTANCE Esp32Images
Esp32S3 == INSTANCE Esp32S3Images
Small == INSTANCE SmallBoardImages

AllImages == Esp32!Modes @@ Esp32S3!Modes @@ Small!Modes

(* One word of each group of frame_data.hpp, the first of those that a     *)
(* task handles in a way of its own; two for the motors.                   *)
CommandWords == {1, 5, 9, 17}
TelemetryWords == {0, 1, 11}

MiswiredImages ==
  {"esp32_input", "esp32_robomas_input", "esp32_debug",
   "stm32_f446re", "stm32_f767zi"}

(* No image that is wired right is left out.                               *)
ASSUME MiswiredAssumption ==
  \A m \in MiswiredImages \cap DOMAIN Images : ~WiredRight(m)
================================================================================
