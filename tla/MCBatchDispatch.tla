--------------------------- MODULE MCBatchDispatch ---------------------------
(* One agent that a route and an address both name, and one named by a route. *)
EXTENDS BatchDispatch

CONSTANTS a, b, ra, rb, la

MCReach ==
    [x \in {ra, rb, la} |-> IF x \in {ra, la} THEN a ELSE b]
=============================================================================
