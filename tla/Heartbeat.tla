------------------------------ MODULE Heartbeat ------------------------------
(***************************************************************************)
(* The heartbeat trackers of all nodes (src/rsdco_heartbeat.cc): signs of  *)
(* life written by RDMA into each other's tables, scores, suspicion,       *)
(* removal of a node, and the handshake after which the survivors resume.  *)
(*                                                                         *)
(* Time.  A tracker makes a round every HEARTBEAT_UPDATE_US.  The model    *)
(* has slots of that length: a running tracker makes one round in each, at *)
(* any moment of it, and what a handshake can do at once takes less than a *)
(* slot.  Without such an assumption any node could be found dead.         *)
(*                                                                         *)
(* A sign differs from the one its owner wrote before, so of neon_sign and *)
(* its backup in local_hb_tracker only matters whether they differ.        *)
(***************************************************************************)
EXTENDS Integers, FiniteSets, FiniteSetsExt

CONSTANTS
  MAX_N_NODES,
  SCORE_DEFAULT,
  EXCLUDE_RESET,
  MaxCrashes      \* bound: nodes that crash

ASSUME HeartbeatAssumption ==
  /\ MAX_N_NODES \in Nat \ {0}
  /\ SCORE_DEFAULT \in Nat
  /\ EXCLUDE_RESET \notin 0 .. MAX_N_NODES - 1

Nodes == 0 .. MAX_N_NODES - 1

VARIABLES
  up,            \* the nodes that have not crashed
  ran,           \* the nodes that made their round of this slot
  changed,       \* for each node, whose sign differs from its backup
  score,         \* local_hb_tracker.score
  dead,          \* whose live_status is LIVE_STATUS_DEAD
  exclude, msg, view,   \* of each node's hbstat
  rsdco_hb_conn,
  pc,            \* where each tracker is
  todo,          \* the connections its loop has not come to
  orderly        \* history: every crash so far found the others recovered

slotVars == <<up, ran, orderly>>
scoreVars == <<changed, score, dead>>
statVars == <<exclude, msg, view>>
vars == <<slotVars, scoreVars, statVars, rsdco_hb_conn, pc, todo>>

\* rsdco_heartbeat_init, past its barrier.
Init ==
  /\ up = Nodes
  /\ ran = {}
  /\ changed = [n \in Nodes |-> Nodes \ {n}]
  /\ score = [n \in Nodes |-> [m \in Nodes |-> SCORE_DEFAULT]]
  /\ dead = [n \in Nodes |-> {}]
  /\ exclude = [n \in Nodes |-> EXCLUDE_RESET]
  /\ msg = [n \in Nodes |-> "WAIT"]
  /\ view = [n \in Nodes |-> 0]
  /\ rsdco_hb_conn = [n \in Nodes |-> Nodes \ {n}]
  /\ pc = [n \in Nodes |-> "start"]
  /\ todo = [n \in Nodes |-> {}]
  /\ orderly = TRUE

Goto(n, label) == pc' = [pc EXCEPT ![n] = label]

rsdco_is_lowest_alive(n) == n = Min(Nodes \ dead[n])

----------------------------------------------------------------------------
(* rsdco_heartbeat_release                                                 *)

StartLeader(n) ==
  /\ pc[n] = "start"
  /\ rsdco_is_lowest_alive(n)
  /\ view' = [view EXCEPT ![n] = 1]
  /\ exclude' = [exclude EXCEPT ![n] = n]
  /\ msg' = [msg EXCEPT ![n] = "RELEASE"]
  /\ todo' = [todo EXCEPT ![n] = rsdco_hb_conn[n]]
  /\ Goto(n, "start_peers")
  /\ UNCHANGED <<slotVars, scoreVars, rsdco_hb_conn>>

\* The first three words of the table, to the next peer.
StartPeer(n) ==
  /\ pc[n] = "start_peers"
  /\ IF todo[n] = {}
       THEN Goto(n, "tick") /\ UNCHANGED <<todo, statVars>>
       ELSE LET m == Min(todo[n])
            IN /\ todo' = [todo EXCEPT ![n] = @ \ {m}]
               /\ view' = [view EXCEPT ![m] = view[n]]
               /\ exclude' = [exclude EXCEPT ![m] = exclude[n]]
               /\ msg' = [msg EXCEPT ![m] = msg[n]]
               /\ UNCHANGED pc
  /\ UNCHANGED <<slotVars, scoreVars, rsdco_hb_conn>>

StartFollower(n) ==
  /\ pc[n] = "start"
  /\ ~ rsdco_is_lowest_alive(n)
  /\ msg[n] = "RELEASE"
  /\ Goto(n, "tick")
  /\ UNCHANGED <<slotVars, scoreVars, statVars, rsdco_hb_conn, todo>>

----------------------------------------------------------------------------
(* A round of the tracker                                                  *)

Tick(n) ==
  /\ pc[n] = "tick"
  /\ n \notin ran
  /\ todo' = [todo EXCEPT ![n] = rsdco_hb_conn[n]]
  /\ Goto(n, "propagate")
  /\ UNCHANGED <<slotVars, scoreVars, statVars, rsdco_hb_conn>>

\* The sign reaches the next peer, if that one is up.
Propagate(n) ==
  /\ pc[n] = "propagate"
  /\ todo[n] # {}
  /\ LET m == Min(todo[n])
     IN /\ todo' = [todo EXCEPT ![n] = @ \ {m}]
        /\ changed' = [changed EXCEPT ![m] = IF m \in up THEN @ \cup {n} ELSE @]
  /\ UNCHANGED <<slotVars, statVars, score, dead, rsdco_hb_conn, pc>>

\* Mutant: a score that fell does not recover.
NewScore_NoRecovery(n, m) ==
  IF m \in changed[n] THEN score[n][m] ELSE score[n][m] - 1

\* Mutant: a score has no upper limit.
NewScore_NoLimit(n, m) ==
  IF m \in changed[n] THEN score[n][m] + 1 ELSE score[n][m] - 1

NewScore(n, m) ==
  IF m \in changed[n] THEN Min({score[n][m] + 1, SCORE_DEFAULT})
                      ELSE score[n][m] - 1

\* rsdco_detect_dead: the connections in their order, up to the first that has
\* used up its score.
Detect(n) ==
  /\ pc[n] = "propagate"
  /\ todo[n] = {}
  /\ LET lost == {m \in rsdco_hb_conn[n] : m \notin changed[n] /\ score[n][m] < 0}
         seen == {m \in rsdco_hb_conn[n] : \A l \in lost : m < l}
     IN /\ score' = [score EXCEPT ![n] =
                       [m \in Nodes |-> IF m \in seen THEN NewScore(n, m) ELSE @[m]]]
        /\ changed' = [changed EXCEPT ![n] = @ \ seen]
        /\ IF lost = {}
             THEN Goto(n, "tick") /\ UNCHANGED <<dead, exclude>>
             ELSE /\ dead' = [dead EXCEPT ![n] = @ \cup {Min(lost)}]
                  /\ exclude' = [exclude EXCEPT ![n] = Min(lost)]
                  /\ Goto(n, "reconfigure")
  /\ ran' = ran \cup {n}
  /\ UNCHANGED <<up, orderly, msg, view, rsdco_hb_conn, todo>>

----------------------------------------------------------------------------
(* rsdco_reconfigure                                                       *)

rsdco_conn_remove(n) ==
  rsdco_hb_conn' = [rsdco_hb_conn EXCEPT ![n] = @ \ {exclude[n]}]

\* Mutant: the follower does not say that it is ready.
Reconfigure_NoWait(n) ==
  /\ pc[n] = "reconfigure"
  /\ rsdco_conn_remove(n)
  /\ IF rsdco_is_lowest_alive(n)
       THEN /\ todo' = [todo EXCEPT ![n] = rsdco_hb_conn[n] \ {exclude[n]}]
            /\ Goto(n, "gather")
       ELSE Goto(n, "wait") /\ UNCHANGED todo
  /\ UNCHANGED <<slotVars, scoreVars, statVars>>

Reconfigure(n) ==
  /\ pc[n] = "reconfigure"
  /\ rsdco_conn_remove(n)
  /\ IF rsdco_is_lowest_alive(n)
       THEN /\ todo' = [todo EXCEPT ![n] = rsdco_hb_conn'[n]]
            /\ Goto(n, "gather")
            /\ UNCHANGED msg
       ELSE /\ msg' = [msg EXCEPT ![n] = "WAIT"]
            /\ Goto(n, "wait")
            /\ UNCHANGED todo
  /\ UNCHANGED <<slotVars, scoreVars, exclude, view>>

\* Mutant: the leader waits for nobody.
Gather_Nobody(n) ==
  /\ pc[n] = "gather"
  /\ todo' = [todo EXCEPT ![n] = rsdco_hb_conn[n]]
  /\ msg' = [msg EXCEPT ![n] = "RELEASE"]
  /\ Goto(n, "release")
  /\ UNCHANGED <<slotVars, scoreVars, exclude, view, rsdco_hb_conn>>

\* The leader reads the next peer's msg over its own until it is MSG_WAIT, and
\* then goes on to the next peer, of which it reads nothing any more.  The read
\* fails if the peer has crashed.
Gather(n) ==
  /\ pc[n] = "gather"
  /\ IF todo[n] = {}
       THEN /\ msg' = [msg EXCEPT ![n] = "RELEASE"]
            /\ todo' = [todo EXCEPT ![n] = rsdco_hb_conn[n]]
            /\ Goto(n, "release")
       ELSE LET m == Min(todo[n])
            IN /\ IF msg[n] = "WAIT"
                    THEN todo' = [todo EXCEPT ![n] = @ \ {m}] /\ UNCHANGED msg
                    ELSE /\ m \in up
                         /\ msg' = [msg EXCEPT ![n] = msg[m]]
                         /\ UNCHANGED todo
               /\ UNCHANGED pc
  /\ UNCHANGED <<slotVars, scoreVars, exclude, view, rsdco_hb_conn>>

\* The leader writes MSG_RELEASE to the next peer.
Release(n) ==
  /\ pc[n] = "release"
  /\ IF todo[n] = {}
       THEN Goto(n, "resume") /\ UNCHANGED <<todo, msg>>
       ELSE LET m == Min(todo[n])
            IN /\ todo' = [todo EXCEPT ![n] = @ \ {m}]
               /\ msg' = [msg EXCEPT ![m] = msg[n]]
               /\ UNCHANGED pc
  /\ UNCHANGED <<slotVars, scoreVars, exclude, view, rsdco_hb_conn>>

WaitForRelease(n) ==
  /\ pc[n] = "wait"
  /\ msg[n] = "RELEASE"
  /\ Goto(n, "resume")
  /\ UNCHANGED <<slotVars, scoreVars, statVars, rsdco_hb_conn, todo>>

\* The release of the proposers; ViewGate has its steps.
Resume(n) ==
  /\ pc[n] = "resume"
  /\ exclude' = [exclude EXCEPT ![n] = EXCLUDE_RESET]
  /\ view' = [view EXCEPT ![n] = @ + 1]
  /\ Goto(n, "tick")
  /\ UNCHANGED <<slotVars, scoreVars, msg, rsdco_hb_conn, todo>>

----------------------------------------------------------------------------
Step(n) ==
  \/ StartLeader(n) \/ StartPeer(n) \/ StartFollower(n)
  \/ Tick(n) \/ Propagate(n) \/ Detect(n)
  \/ Reconfigure(n) \/ Gather(n) \/ Release(n) \/ WaitForRelease(n) \/ Resume(n)

\* A tracker that has nothing to do in this slot but to wait for a peer.
Waiting(n) ==
  \/ pc[n] = "tick" /\ n \in ran
  \/ pc[n] \in {"start", "wait"} /\ msg[n] = "WAIT"
  \/ /\ pc[n] = "gather" /\ todo[n] # {} /\ msg[n] = "RELEASE"
     /\ Min(todo[n]) \in up => msg[Min(todo[n])] = "RELEASE"

\* The next slot.
Slot ==
  /\ \A n \in up : Waiting(n)
  /\ ran' = {}
  /\ UNCHANGED <<up, orderly, scoreVars, statVars, rsdco_hb_conn, pc, todo>>

Running(n) == pc[n] \in {"tick", "propagate"}

\* Start-up itself is not meant to survive a crash.
Crash(n) ==
  /\ \A m \in up : pc[m] \notin {"start", "start_peers"}
  /\ Cardinality(up) > MAX_N_NODES - MaxCrashes
  /\ up' = up \ {n}
  /\ orderly' = (orderly /\ \A m \in up : Running(m) /\ rsdco_hb_conn[m] = up \ {m})
  /\ UNCHANGED <<ran, scoreVars, statVars, rsdco_hb_conn, pc, todo>>

Next == Slot \/ \E n \in up : Step(n) \/ Crash(n)

Spec == Init /\ [][Next]_vars

FairSpec ==
  /\ Spec
  /\ WF_vars(Slot)
  /\ \A n \in Nodes : WF_vars(n \in up /\ Step(n))

----------------------------------------------------------------------------
\* Types; a score stays within what it started from and one below zero.
TypeOK ==
  /\ up \subseteq Nodes /\ ran \subseteq Nodes
  /\ changed \in [Nodes -> SUBSET Nodes]
  /\ score \in [Nodes -> [Nodes -> -1 .. SCORE_DEFAULT]]
  /\ dead \in [Nodes -> SUBSET Nodes]
  /\ exclude \in [Nodes -> Nodes \cup {EXCLUDE_RESET}]
  /\ msg \in [Nodes -> {"WAIT", "RELEASE"}]
  /\ view \in [Nodes -> Nat]
  /\ rsdco_hb_conn \in [Nodes -> SUBSET Nodes]
  /\ pc \in [Nodes -> {"start", "start_peers", "tick", "propagate", "reconfigure",
                       "gather", "release", "wait", "resume"}]
  /\ todo \in [Nodes -> SUBSET Nodes]
  /\ orderly \in BOOLEAN

\* Only a crashed node is found dead, although a tracker held up in a handshake
\* makes no rounds and its sign stands still (heartbeat.cc:336-355, 366-391).
NoFalseSuspicion == \A n \in up : dead[n] \cap up = {}

\* "First, wait others to detect them" (heartbeat.cc:292): no survivor goes on in
\* a new view before every survivor has found the same node dead.
ResumeTogether ==
  [][\A n \in up : view[n] > 0 /\ view'[n] > view[n]
       => \A m \in up : dead[m] = dead[n]]_vars

\* After a crash every survivor sooner or later runs without the crashed node,
\* unless some node crashed during a handshake or before the survivors of the
\* crash before it had recovered: those crashes the code does not get over.
Recovers ==
  \A d \in Nodes :
    d \notin up ~>
      (orderly => \A n \in up : Running(n) /\ d \notin rsdco_hb_conn[n])
=============================================================================
