---------------------------- MODULE CommandRegister ----------------------------
(***************************************************************************)
(* What the bridge may expect of a microcontroller: each output follows    *)
(* one command word.  It may skip commands, but it never takes one that    *)
(* has not been accepted, and never goes back to an older one.             *)
(***************************************************************************)
EXTENDS Integers

CONSTANTS
  Words,    \* indices of Rx_16Data
  Outputs,  \* pins and motors
  WordOf    \* WordOf[o]: the word that drives output o

VARIABLES
  accepted,  \* number of the last command frame that set the word, 0 at first
  applied    \* number of the frame the output was last set from

Init ==
  /\ accepted = [w \in Words |-> 0]
  /\ applied = [o \in Outputs |-> 0]

Accept(w) ==
  /\ accepted'[w] \in Nat /\ accepted'[w] > accepted[w]
  /\ accepted' = [accepted EXCEPT ![w] = accepted'[w]]
  /\ UNCHANGED applied

Apply(o) ==
  /\ applied'[o] \in Nat /\ applied'[o] > applied[o]
  /\ applied'[o] <= accepted[WordOf[o]]
  /\ applied' = [applied EXCEPT ![o] = applied'[o]]
  /\ UNCHANGED accepted

Next ==
  \/ \E w \in Words : Accept(w)
  \/ \E o \in Outputs : Apply(o)

Spec == Init /\ [][Next]_<<accepted, applied>>
================================================================================
