---------------------------- MODULE MCDepChecker ----------------------------
(* DepChecker for TLC: two or three interchangeable threads.               *)
EXTENDS DepCheckerInv, TLC

CONSTANTS a1, a2, a3

TwoThreads == {a1, a2}
ThreeThreads == {a1, a2, a3}
NoReceivers == {}

Symmetry == Permutations(Threads)

\* Bound for a search of a counterexample: the first request is for the key
\* with the largest hash and is done before the others begin.
LastKeyFirst == issued > 1 => \E r \in returned : \A h \in Hashes : h <= r.hashed
=============================================================================
