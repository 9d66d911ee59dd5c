-------------------------------- MODULE MCMcuRx --------------------------------
(* Instances of McuRx for TLC: bytes of three bits, words of six.          *)
EXTENDS McuRx

(* No byte of these, nor of their frames, is the start byte 5.             *)
PlainPayloads == {<<-1, 8>>, <<0, -32>>}

(* DATA is 0 5 2 4: a start byte, an ID and the LEN of a frame.            *)
HeaderInPayload == {<<5, 20>>}

(* A start byte and another ID do not confuse the B-G431 version.          *)
BenignPayloads == [s \in BOOLEAN |-> IF s THEN HeaderInPayload ELSE PlainPayloads]
===============================================================================
