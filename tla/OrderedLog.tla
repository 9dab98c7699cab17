----------------------------- MODULE OrderedLog -----------------------------
(***************************************************************************)
(* What a log between two nodes promises: the reader acts on the entries   *)
(* the writer put there, each one once, whole, and in order.               *)
(***************************************************************************)
EXTENDS Naturals, Sequences

CONSTANT Entry

VARIABLES
  written,   \* entries put into the log
  taken      \* entries acted on

Init ==
  /\ written = << >>
  /\ taken = << >>

Put(entry) ==
  /\ written' = Append(written, entry)
  /\ UNCHANGED taken

Take ==
  /\ Len(taken) < Len(written)
  /\ taken' = Append(taken, written[Len(taken) + 1])
  /\ UNCHANGED written

Next == Take \/ \E entry \in Entry : Put(entry)

Spec == Init /\ [][Next]_<<written, taken>>
=============================================================================
