------------------------------ MODULE HeartbeatInv ------------------------------
(***************************************************************************)
(* The inductive invariant of Heartbeat for as many nodes as the code has  *)
(* (at most three) and a score that leaves a tracker time to find what the *)
(* other one has found.  All of it is about two nodes that are up: with    *)
(* one left there is nobody to suspect.                                    *)
(***************************************************************************)
EXTENDS Heartbeat

\* heartbeat.h:8 and :19.  Of four nodes, a leader that crashes between its words
\* to two followers leaves one waiting, and the other finds that one dead; with
\* a score of 0 to start from a sign that comes a slot late is too late.
ASSUME CodeConstants == MAX_N_NODES <= 3 /\ SCORE_DEFAULT >= 1

Starting(n) == pc[n] \in {"start", "start_peers"}
Found(n) == dead[n] # {}

\* m's sign of this slot has reached n.
Signed(m, n) == m \in ran \/ (pc[m] = "propagate" /\ n \notin todo[m])

\* If no sign of m comes any more: the rounds in which n finds m dead, the last
\* one included, and the slots that end before.
Rounds(n, m) ==
  IF m \in changed[n] THEN Min({score[n][m] + 1, SCORE_DEFAULT}) + 3
                      ELSE score[n][m] + 2
Away(n, m) == IF n \in ran THEN Rounds(n, m) ELSE Rounds(n, m) - 1

----------------------------------------------------------------------------
\* Start-up comes to its end before any node crashes, and node 0 begins it.
StartInv ==
  \A n \in up :
    /\ Starting(n) => up = Nodes
    /\ pc[n] = "start_peers" => n = 0 /\ view[n] = 1 /\ msg[n] = "RELEASE"
    /\ pc[n] = "start" /\ n = 0 =>
         ran = {} /\ \A m \in Nodes : pc[m] = "start" /\ msg[m] = "WAIT"
    /\ pc[n] = "start" /\ n # 0 /\ msg[n] = "WAIT" =>
         pc[0] = "start" \/ (pc[0] = "start_peers" /\ n \in todo[0])

\* What n knows of the crash, next to another node that is up: nothing, or all.
Knows(n) ==
  /\ dead[n] \in {{}, Nodes \ up}
  /\ IF Found(n)
       THEN /\ ~ Starting(n)
            /\ rsdco_hb_conn[n] = IF pc[n] = "reconfigure" THEN Nodes \ {n} ELSE up \ {n}
            /\ pc[n] = "reconfigure" => exclude[n] \in Nodes \ up
       ELSE /\ Starting(n) \/ Running(n)
            /\ rsdco_hb_conn[n] = Nodes \ {n}

\* The leader n is past its word to the follower m.
Freed(n, m) ==
  \/ pc[n] = "release" /\ todo[n] = {}
  \/ pc[n] = "resume"
  \/ Found(n) /\ Running(n)

\* The handshake of leader n with follower m.
Handshake(n, m) ==
  /\ pc[n] # "wait" /\ pc[m] \notin {"gather", "release"}
  /\ msg[n] = "WAIT" => pc[n] \in {"start", "gather"}
  /\ msg[m] = "WAIT" => pc[m] \in {"start", "wait"}
  /\ pc[n] = "gather" =>
       IF msg[n] = "RELEASE" THEN todo[n] = {m}
                             ELSE /\ todo[n] \subseteq {m}
                                  /\ pc[m] = "wait" /\ msg[m] = "WAIT"
  /\ pc[n] = "release" /\ todo[n] # {} =>
       todo[n] = {m} /\ pc[m] = "wait" /\ msg[m] = "WAIT"
  /\ Freed(n, m) <=> Found(m) /\ pc[m] # "reconfigure" /\ msg[m] = "RELEASE"

\* Of two nodes that run, each has seen the other's sign at most one slot ago
\* (Steady); a node that has found the crash need not be that strict (Fresh).
Steady(n, m) ==
  /\ score[n][m] >= SCORE_DEFAULT - 1
  /\ m \notin changed[n] /\ (n \notin ran \/ Signed(m, n)) =>
       score[n][m] = SCORE_DEFAULT
Fresh(n, m) ==
  m \notin changed[n] /\ (n \notin ran \/ Signed(m, n)) => score[n][m] >= 0

\* How n sees m: before either knows of a crash, both find it within two slots
\* of each other; once m waits in the handshake, n finds the crash before it
\* would find m.
Sees(n, m) ==
  /\ n \notin ran /\ Signed(m, n) => m \in changed[n]
  /\ IF Found(n) THEN Fresh(n, m)
     ELSE IF Found(m) THEN \A d \in Nodes \ up : Rounds(n, d) < Rounds(n, m)
     ELSE Steady(n, m) /\ \A d \in Nodes \ up : Away(n, d) <= Away(m, d) + 2

\* What holds of a node by itself.
Alone ==
  \A n \in Nodes :
    /\ n \notin dead[n] /\ n \notin rsdco_hb_conn[n]
    /\ pc[n] = "propagate" => n \notin ran

Pairs ==
  \A n, m \in up : n # m => Knows(n) /\ Sees(n, m) /\ (n < m => Handshake(n, m))

HeartbeatInv ==
  /\ TypeOK
  /\ Alone
  /\ StartInv
  /\ Pairs
=============================================================================
