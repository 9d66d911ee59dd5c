------------------------------- MODULE MCHotplug -------------------------------
(* Instances of Hotplug for TLC.                                           *)
EXTENDS Hotplug, TLC

CONSTANTS d1, d2

(* Every device has its own ID, d1 the smaller one.                        *)
OwnIds == (d1 :> 1) @@ (d2 :> 2)

(* Two devices were flashed with the same ID.                              *)
SameId == (d1 :> 1) @@ (d2 :> 1)

OwnOrSame == {OwnIds, SameId}
OnlyOwn == {OwnIds}

(* Events of a run.                                                        *)
ThreeOrTwo == (OwnIds :> 3) @@ (SameId :> 2)
Two == (OwnIds :> 2)
===============================================================================
