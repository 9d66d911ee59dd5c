------------------------------- MODULE Messages -------------------------------
(***************************************************************************)
(* What the two directions of a serial line have in common: a message of   *)
(* serial_rx_<id> and a command of serial_tx_<id> have the same number of  *)
(* words, and the line may damage a frame of either.                       *)
(***************************************************************************)
EXTENDS FrameCodec

CONSTANTS
  Rx16Num,   \* kRx16Num, Rx16NUM: words of a message
  MaxDamage  \* bound on what is damaged

(* A message has words and its LEN fits into a byte.                       *)
ASSUME MessageAssumption ==
  /\ Rx16Num \in Nat \ {0} /\ 2 * Rx16Num < Base
  /\ MaxDamage \in Nat
===============================================================================
