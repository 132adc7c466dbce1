---------------------------- MODULE MCAgentRead ----------------------------
(***************************************************************************)
(* AgentRead for TLC: the panes can be exchanged for each other, and Herdr *)
(* tells everything of an agent's place, but not always a revision.        *)
(***************************************************************************)
EXTENDS AgentRead, TLC

PaneSymmetry == Permutations(Panes)

ToldAll == {{"workspace", "terminal"}}
=============================================================================
