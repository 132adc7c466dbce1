----------------------------- MODULE MCAgentNames -----------------------------
(* Two panes beside the one that is made, three names, three labelers; two of *)
(* the panes start with the same candidate, and a session id changes the seed. *)
EXTENDS AgentNames, TLC

CONSTANTS p, q, new, fox, owl, yak, mine

MCPalette == <<fox, owl, yak>>
MCFirst == [x \in {p, q, new} |->
              [s \in BOOLEAN |-> IF s THEN 1 ELSE IF x = q THEN 2 ELSE 0]]
MCWanted == {NoName, fox, mine}
Alike == Permutations(Labelers)
=============================================================================
