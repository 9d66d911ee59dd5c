------------------------------ MODULE MCReadFrame ------------------------------
(* Instances of ReadFrame for TLC: bytes of three bits, words of six.      *)
EXTENDS ReadFrame

(* Three frames without another start byte 5, with pauses between them.    *)
PlainStream == Frame(1, <<-1, 8>>) \o Frame(1, <<0, -32>>) \o Frame(1, <<19, 3>>)
PlainBoundaries == {1, 9, 17}

ASSUME Plain == PlainDevice
===============================================================================
