-------------------------- MODULE MCRequestToRpli --------------------------
(* RequestToRpli for TLC: threads are interchangeable within their kind.   *)
EXTENDS RequestToRpliInv, TLC

CONSTANTS a1, a2, a3, r1

AppThreads == {a1, a2, a3}
MixedThreads == {a1, a2, r1}
OneReceiver == {r1}
NoReceivers == {}

Symmetry == Permutations(AppThreads)
=============================================================================
