------------------------------ MODULE MCFocLoop -------------------------------
(* Instances of FocLoop for TLC.                                           *)
EXTENDS FocLoop

(* Stop, run at a velocity, run at a velocity in another mode's slot, and  *)
(* run to an angle.                                                        *)
Commands ==
  {NoCommand,
   [enable |-> 0, mode |-> 1, velocity |-> 5, angle |-> 7],
   [enable |-> 1, mode |-> 0, velocity |-> 5, angle |-> 7],
   [enable |-> 1, mode |-> 1, velocity |-> 5, angle |-> 7]}
===============================================================================
