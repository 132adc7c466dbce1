--------------------------- MODULE MCMessengerPopup ---------------------------
(* A local agent and one on a remote host, beside the coordinator.            *)
EXTENDS MessengerPopup

CONSTANTS a, b, h, local, s

MCHostOf == [p \in {a, b, s} |-> IF p = b THEN h ELSE local]
=============================================================================
