-------------------------------- MODULE MCIpc --------------------------------
(* Payloads of one byte, and one that does not fit a fast message. *)
EXTENDS Ipc

CONSTANTS c1, c2

ConstPayloads == {<<1>>, <<2, 1>>}
==============================================================================
