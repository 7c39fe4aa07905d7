---------------------------- MODULE MCPriorityQueue ---------------------------
(* Seven events: with fewer than six, nothing that takes the place of a        *)
(* removed event ever has to rise (prqueue_remove).                            *)
EXTENDS PriorityQueue, TLC

EventSymmetry == Permutations(Events)
=============================================================================
