-------------------------------- MODULE MCShaft --------------------------------
EXTENDS Shaft

(* The motor that is looked at comes last: it is the first to lose frames. *)
ThreeMotors == 1..3
LastHandled == {3}

ASSUME InTime == RoomAndTime
================================================================================
