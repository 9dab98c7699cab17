------------------------------ MODULE ViewGate ------------------------------
(***************************************************************************)
(* One node while its tracker reconfigures: the threads that propose       *)
(* (rsdco_request_to_rpli, rsdco_request_to_chkr, src/rsdco_reqs.cc)       *)
(* against rsdco_reconfigure (src/rsdco_heartbeat.cc).  They share no lock: *)
(* a proposer reads the view, then rsdco_on_configure, and spins until the *)
(* view is another one.                                                    *)
(*                                                                         *)
(* Which node is dead, and how long the handshake with the survivors       *)
(* takes, is any; Heartbeat models it.  So is when an ACK arrives.         *)
(***************************************************************************)
EXTENDS Naturals, Sequences

CONSTANTS
  Threads,   \* application and receiver threads
  NoThread,
  Peers,     \* the other nodes
  MaxCalls   \* bound: calls made

ASSUME GateAssumption ==
  /\ NoThread \notin Threads
  /\ MaxCalls \in Nat

VARIABLES
  view,              \* hbstat->view
  rsdco_on_configure,
  rsdco_rpli_conn,
  rsdco_chkr_conn,
  tracker,           \* where the tracker is
  excluded,          \* the nodes found dead; the last one is hbstat->exclude
  rpli_mtx,          \* who holds rsdco_propose_rpli_mtx
  chkr_mtx,          \* who holds rsdco_propose_chkr_mtx
  is_blocked,        \* of the pending checker request
  pc,                \* where each thread is
  local_view,        \* of each thread
  calls,             \* history: calls made
  waited             \* history: did a thread's last look at the flag make it wait?

trackerVars == <<view, rsdco_on_configure, rsdco_rpli_conn, rsdco_chkr_conn,
                 tracker, excluded>>
lockVars == <<rpli_mtx, chkr_mtx, is_blocked>>
gateVars == <<local_view, waited>>
threadVars == <<lockVars, gateVars, pc, calls>>
vars == <<trackerVars, threadVars>>

Init ==
  /\ view = 1
  /\ rsdco_on_configure = 0
  /\ rsdco_rpli_conn = Peers
  /\ rsdco_chkr_conn = Peers
  /\ tracker = "watch"
  /\ excluded = << >>
  /\ rpli_mtx = NoThread
  /\ chkr_mtx = NoThread
  /\ is_blocked = FALSE
  /\ pc = [t \in Threads |-> "idle"]
  /\ local_view = [t \in Threads |-> 0]
  /\ calls = 0
  /\ waited = [t \in Threads |-> FALSE]

Goto(t, label) == pc' = [pc EXCEPT ![t] = label]

----------------------------------------------------------------------------
(* The gate.  Each of the two request functions has its own: a thread is   *)
(* at "view", "flag" and "spin" of rsdco_request_to_rpli or at "wait_view",*)
(* "wait_flag" and "wait_spin" of rsdco_request_to_chkr.                   *)

\* The view first.
ReadView(t, here, next) ==
  /\ pc[t] = here
  /\ local_view' = [local_view EXCEPT ![t] = view]
  /\ Goto(t, next)
  /\ UNCHANGED <<trackerVars, lockVars, calls, waited>>

\* Then the flag.
ReadFlag(t, here, spin, passed) ==
  /\ pc[t] = here
  /\ Goto(t, IF rsdco_on_configure # 0 THEN spin ELSE passed)
  /\ waited' = [waited EXCEPT ![t] = rsdco_on_configure # 0]
  /\ UNCHANGED <<trackerVars, lockVars, calls, local_view>>

Spin(t, here, opened) ==
  /\ pc[t] = here
  /\ view # local_view[t]
  /\ Goto(t, opened)
  /\ UNCHANGED <<trackerVars, lockVars, gateVars, calls>>

----------------------------------------------------------------------------
(* rsdco_request_to_rpli, from the mutex on; a checker request that finds  *)
(* its own node to be the new owner calls it too.                          *)

Call(t) ==
  /\ pc[t] = "idle"
  /\ calls < MaxCalls
  /\ calls' = calls + 1
  /\ \E label \in {"lock", "chkr_lock"} : Goto(t, label)
  /\ UNCHANGED <<trackerVars, lockVars, gateVars>>

Lock(t) ==
  /\ pc[t] = "lock"
  /\ rpli_mtx = NoThread
  /\ rpli_mtx' = t
  /\ Goto(t, "view")
  /\ UNCHANGED <<trackerVars, gateVars, chkr_mtx, is_blocked, calls>>

\* The loop over rsdco_rpli_conn ends, and the mutex is released.
Written(t) ==
  /\ pc[t] = "write"
  /\ rpli_mtx' = NoThread
  /\ Goto(t, IF chkr_mtx = t THEN "done" ELSE "idle")
  /\ UNCHANGED <<trackerVars, gateVars, chkr_mtx, is_blocked, calls>>

----------------------------------------------------------------------------
(* rsdco_request_to_chkr                                                   *)

\* The first question is sent without a look at rsdco_on_configure.
ChkrLock(t) ==
  /\ pc[t] = "chkr_lock"
  /\ chkr_mtx = NoThread
  /\ chkr_mtx' = t
  /\ is_blocked' = TRUE
  /\ Goto(t, "ask")
  /\ UNCHANGED <<trackerVars, gateVars, rpli_mtx, calls>>

\* The loop over rsdco_chkr_conn ends, for the first time or after a view
\* change, when the ACK is not waited for.
Asked(t, here, next) ==
  /\ pc[t] = here
  /\ Goto(t, next)
  /\ UNCHANGED <<trackerVars, lockVars, gateVars, calls>>

\* A replayer gets the ACK.
Ack ==
  /\ chkr_mtx # NoThread
  /\ is_blocked' = FALSE
  /\ UNCHANGED <<trackerVars, gateVars, rpli_mtx, chkr_mtx, pc, calls>>

Wait(t) ==
  /\ pc[t] = "wait"
  /\ Goto(t, IF is_blocked THEN "wait_view" ELSE "done")
  /\ UNCHANGED <<trackerVars, lockVars, gateVars, calls>>

Done(t) ==
  /\ pc[t] = "done"
  /\ chkr_mtx' = NoThread
  /\ Goto(t, "idle")
  /\ UNCHANGED <<trackerVars, gateVars, rpli_mtx, is_blocked, calls>>

RpliStep(t) ==
  \/ Lock(t)
  \/ ReadView(t, "view", "flag")
  \/ ReadFlag(t, "flag", "spin", "write")
  \/ Spin(t, "spin", "write")
  \/ Written(t)

ChkrStep(t) ==
  \/ ChkrLock(t)
  \/ Asked(t, "ask", "wait")
  \/ Wait(t)
  \/ ReadView(t, "wait_view", "wait_flag")
  \/ ReadFlag(t, "wait_flag", "wait_spin", "wait")
  \/ \E next \in {"lock", "ask_again"} : Spin(t, "wait_spin", next)
  \/ Asked(t, "ask_again", "done")
  \/ Done(t)

----------------------------------------------------------------------------
(* The tracker                                                             *)

\* rsdco_detect_dead finds a node.
Detect ==
  /\ tracker = "watch"
  /\ \E n \in rsdco_rpli_conn : excluded' = Append(excluded, n)
  /\ tracker' = "configure"
  /\ UNCHANGED <<view, rsdco_on_configure, rsdco_rpli_conn, rsdco_chkr_conn,
                 threadVars>>

Configure ==
  /\ tracker = "configure"
  /\ rsdco_on_configure' = rsdco_on_configure + 1
  /\ tracker' = "remove_rpli"
  /\ UNCHANGED <<view, rsdco_rpli_conn, rsdco_chkr_conn, excluded, threadVars>>

exclude == excluded[Len(excluded)]

\* Mutant: the connection that went wrong is forgotten.
RemoveRpli_Forgotten ==
  /\ tracker = "remove_rpli"
  /\ tracker' = "remove_chkr"
  /\ UNCHANGED <<view, rsdco_on_configure, rsdco_rpli_conn, rsdco_chkr_conn,
                 excluded, threadVars>>

\* rsdco_conn_remove; rsdco_hb_conn is the tracker's own.
RemoveRpli ==
  /\ tracker = "remove_rpli"
  /\ rsdco_rpli_conn' = rsdco_rpli_conn \ {exclude}
  /\ tracker' = "remove_chkr"
  /\ UNCHANGED <<view, rsdco_on_configure, rsdco_chkr_conn, excluded,
                 threadVars>>

RemoveChkr ==
  /\ tracker = "remove_chkr"
  /\ rsdco_chkr_conn' = rsdco_chkr_conn \ {exclude}
  /\ tracker' = "handshake"
  /\ UNCHANGED <<view, rsdco_on_configure, rsdco_rpli_conn, excluded,
                 threadVars>>

Handshake ==
  /\ tracker = "handshake"
  /\ tracker' = "unlock"
  /\ UNCHANGED <<view, rsdco_on_configure, rsdco_rpli_conn, rsdco_chkr_conn,
                 excluded, threadVars>>

\* Mutant: the view, then the flag.
Release_ViewFirst(first) ==
  /\ tracker = IF first THEN "unlock" ELSE "bump"
  /\ tracker' = IF first THEN "bump" ELSE "watch"
  /\ rsdco_on_configure' = IF first THEN rsdco_on_configure ELSE 0
  /\ view' = IF first THEN view + 1 ELSE view
  /\ UNCHANGED <<rsdco_rpli_conn, rsdco_chkr_conn, excluded, threadVars>>

\* Mutant: the flag is not taken back.
Release_StaysSet(first) ==
  /\ tracker = IF first THEN "unlock" ELSE "bump"
  /\ tracker' = IF first THEN "bump" ELSE "watch"
  /\ view' = IF first THEN view ELSE view + 1
  /\ UNCHANGED <<rsdco_on_configure, rsdco_rpli_conn, rsdco_chkr_conn,
                 excluded, threadVars>>

\* The flag, then the view.
Release(first) ==
  /\ tracker = IF first THEN "unlock" ELSE "bump"
  /\ tracker' = IF first THEN "bump" ELSE "watch"
  /\ rsdco_on_configure' = IF first THEN 0 ELSE rsdco_on_configure
  /\ view' = IF first THEN view ELSE view + 1
  /\ UNCHANGED <<rsdco_rpli_conn, rsdco_chkr_conn, excluded, threadVars>>

Reconfigure ==
  \/ Configure \/ RemoveRpli \/ RemoveChkr \/ Handshake
  \/ \E first \in BOOLEAN : Release(first)

Thread(t) == RpliStep(t) \/ ChkrStep(t)

Next ==
  \/ Detect \/ Reconfigure \/ Ack
  \/ \E t \in Threads : Call(t) \/ Thread(t)

Spec == Init /\ [][Next]_vars

\* The survivors answer the handshake, threads are scheduled, and the callers of
\* a bounded run cannot keep a mutex from one of them.
FairSpec ==
  Spec /\ WF_vars(Reconfigure) /\ \A t \in Threads : WF_vars(Thread(t))

----------------------------------------------------------------------------
Configuring == {"remove_rpli", "remove_chkr", "handshake", "unlock"}

\* Types; the flag is 0 or 1 although the tracker adds to it.
TypeOK ==
  /\ view \in Nat \ {0}
  /\ rsdco_on_configure \in {0, 1}
  /\ rsdco_rpli_conn \subseteq Peers /\ rsdco_chkr_conn \subseteq Peers
  /\ tracker \in Configuring \cup {"watch", "configure", "bump"}
  /\ excluded \in Seq(Peers)
  /\ rpli_mtx \in Threads \cup {NoThread}
  /\ chkr_mtx \in Threads \cup {NoThread}
  /\ is_blocked \in BOOLEAN
  /\ pc \in [Threads -> {"idle", "lock", "view", "flag", "spin", "write",
                         "chkr_lock", "ask", "wait", "wait_view", "wait_flag",
                         "wait_spin", "ask_again", "done"}]
  /\ local_view \in [Threads -> Nat]
  /\ calls \in 0 .. MaxCalls
  /\ waited \in [Threads -> BOOLEAN]

\* A proposer that spins on the current view spins during a reconfiguration,
\* whose end will change the view: none waits for a change that is over
\* (reqs.cc:324-330, 395-400 against heartbeat.cc:325-326).
NoLostWakeup ==
  \A t \in Threads :
    pc[t] \in {"spin", "wait_spin"} /\ local_view[t] = view
      => tracker \in Configuring \cup {"bump"}

\* A proposer that waited out a reconfiguration does not write to the node that
\* was removed by it (reqs.cc:335 against heartbeat.cc:283), nor does one that
\* asks again (reqs.cc:411).
WaitedSeesRemoval ==
  \A t \in Threads :
    /\ pc[t] = "write" /\ waited[t]
         => excluded[local_view[t]] \notin rsdco_rpli_conn
    /\ pc[t] = "ask_again" => excluded[local_view[t]] \notin rsdco_chkr_conn

\* Every request of a key of this node returns, however often the tracker
\* reconfigures meanwhile.
RequestReturns ==
  \A t \in Threads : pc[t] = "lock" ~> pc[t] \in {"idle", "done"}

\* "Lock globally." (heartbeat.cc:281): nobody goes through the connections
\* while the tracker erases one of them.  The code does not keep this: a
\* thread may be past its look at the flag, and a first question has none.
LockedOut ==
  \A t \in Threads :
    /\ tracker = "remove_rpli" => pc[t] # "write"
    /\ tracker = "remove_chkr" => pc[t] \notin {"ask", "ask_again"}
=============================================================================
