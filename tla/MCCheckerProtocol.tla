------------------------- MODULE MCCheckerProtocol -------------------------
(* CheckerProtocol for TLC with three nodes: nodes 1 and 2 both ask node 0 *)
(* for one key and each other for a key nobody else asks for, and node 0   *)
(* has a key of its own.                                                   *)
EXTENDS CheckerProtocolInv

Shared == 0
Own == N_NODES
MCKeys == [p \in Apps |-> CASE p[1] = 0 -> {Own}
                            [] p[1] = 1 -> {Shared, 2}
                            [] p[1] = 2 -> {Shared, 1}]
=============================================================================
