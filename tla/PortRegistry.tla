----------------------------- MODULE PortRegistry -----------------------------
(***************************************************************************)
(* What the hot-plug machinery of serial_bridge promises about serial      *)
(* ports, without scanner, nodes or executor: every device ID is bound to  *)
(* at most one port, an ID is only ever moved to a port nobody is bound    *)
(* to, and the ports excluded by the configuration are never taken.        *)
(***************************************************************************)
EXTENDS Naturals

CONSTANTS
  Id,        \* device IDs (uint8_t in the frame header)
  Port,      \* serial port names, numbered in the order glob() lists them
  Excluded,  \* the parameter excluded_ports
  NoPort     \* "not in node_map"

VARIABLE owner   \* owner[i]: the port the node of ID i is bound to

Init == owner = [i \in Id |-> NoPort]

(* ID i is bound, or moved, to a port no ID is bound to.                   *)
Claim(i, p) ==
  /\ p \in Port \ Excluded
  /\ \A j \in Id : owner[j] # p
  /\ owner' = [owner EXCEPT ![i] = p]

Next == \E i \in Id, p \in Port : Claim(i, p)

Spec == Init /\ [][Next]_owner

(* Two IDs never share a port, and nobody is bound to an excluded port.    *)
Exclusive ==
  /\ \A i, j \in Id : owner[i] # NoPort /\ owner[i] = owner[j] => i = j
  /\ \A i \in Id : owner[i] \notin Excluded
===============================================================================
