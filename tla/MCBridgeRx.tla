------------------------------ MODULE MCBridgeRx ------------------------------
(* An instance of BridgeRx for TLC: bytes of four bits, words of eight.      *)
EXTENDS BridgeRx

(* The data of the first are a frame of four bytes, 5 1 0 1, which comes out *)
(* once the start byte before them is lost.  Words are of either sign.       *)
NestedPayloads == {<<81, 1>>, <<-1, -128>>}

ASSUME Room == TurnsSuffice
===============================================================================
