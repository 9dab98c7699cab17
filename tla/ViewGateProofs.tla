--------------------------- MODULE ViewGateProofs ---------------------------
(***************************************************************************)
(* The safety of the gate, for any number of threads, nodes, calls and     *)
(* reconfigurations.                                                       *)
(***************************************************************************)
EXTENDS ViewGate, TLAPS

\* The flag says what the tracker does.
FlagInv == rsdco_on_configure = IF tracker \in Configuring THEN 1 ELSE 0

\* One node is excluded in each view that is over, and in the current one if the
\* tracker is busy.
ViewInv == Len(excluded) = IF tracker = "watch" THEN view - 1 ELSE view

\* What was excluded in a view that is over is not connected any more, nor is the
\* node of the current reconfiguration once the tracker is past its removal.
RemovedInv ==
  /\ \A k \in 1 .. view - 1 : /\ excluded[k] \notin rsdco_rpli_conn
                              /\ excluded[k] \notin rsdco_chkr_conn
  /\ tracker \in {"remove_chkr", "handshake", "unlock", "bump"}
       => excluded[view] \notin rsdco_rpli_conn
  /\ tracker \in {"handshake", "unlock", "bump"}
       => excluded[view] \notin rsdco_chkr_conn

\* The view a thread holds is the current one or one that is over.
LocalInv(t) ==
  /\ pc[t] \in {"flag", "spin", "wait_flag", "wait_spin"}
       => local_view[t] \in 1 .. view
  /\ pc[t] \in {"spin", "wait_spin"} /\ local_view[t] = view
       => tracker \in Configuring \cup {"bump"}
  /\ (pc[t] = "write" /\ waited[t]) \/ pc[t] = "ask_again"
       => local_view[t] \in 1 .. view - 1

GateInv ==
  /\ TypeOK
  /\ FlagInv
  /\ ViewInv
  /\ RemovedInv
  /\ \A t \in Threads : LocalInv(t)

----------------------------------------------------------------------------
LEMMA InitGate == Init => GateInv
<1> SUFFICES ASSUME Init  PROVE GateInv
  OBVIOUS
<1>1. TypeOK
  <2>1. << >> \in Seq(Peers) /\ 0 \in 0 .. MaxCalls
    BY GateAssumption
  <2>2. /\ view \in Nat \ {0} /\ rsdco_on_configure \in {0, 1}
        /\ rsdco_rpli_conn \subseteq Peers /\ rsdco_chkr_conn \subseteq Peers
        /\ tracker \in Configuring \cup {"watch", "configure", "bump"}
    BY DEF Init, Configuring
  <2>3. /\ local_view \in [Threads -> Nat]
        /\ waited \in [Threads -> BOOLEAN]
    BY DEF Init
  <2> QED  BY <2>1, <2>2, <2>3 DEF Init, TypeOK
<1>2. FlagInv /\ ViewInv /\ RemovedInv
  BY DEF Init, FlagInv, ViewInv, RemovedInv, Configuring
<1>3. \A t \in Threads : LocalInv(t)
  BY DEF Init, LocalInv
<1> QED  BY <1>1, <1>2, <1>3 DEF GateInv

\* A step of a thread leaves the tracker alone.
LEMMA ThreadGate ==
  ASSUME GateInv, NEW t \in Threads, Call(t) \/ Thread(t)
  PROVE  GateInv'
<1> USE DEF GateInv, TypeOK
<1>1. UNCHANGED trackerVars
  BY DEF Call, Thread, RpliStep, ChkrStep, Lock, ReadView, ReadFlag, Spin, Written,
         ChkrLock, Asked, Wait, Done
<1>2. FlagInv' /\ ViewInv' /\ RemovedInv'
  BY <1>1 DEF trackerVars, FlagInv, ViewInv, RemovedInv
<1>3. TypeOK'
  <2>1. CASE Call(t)
    <3>1. calls' \in 0 .. MaxCalls
      BY <2>1, GateAssumption DEF Call
    <3> QED  BY <2>1, <3>1 DEF Call, Goto, trackerVars, lockVars, gateVars
  <2>2. CASE RpliStep(t)
    BY <2>2 DEF RpliStep, Lock, ReadView, ReadFlag, Spin, Written, Goto,
                trackerVars, lockVars, gateVars
  <2>3. CASE ChkrStep(t)
    BY ZenonT(60), <2>3 DEF ChkrStep, ChkrLock, Asked, Wait, Done, ReadView, ReadFlag, Spin,
                Goto, trackerVars, lockVars, gateVars
  <2> QED  BY <2>1, <2>2, <2>3 DEF Thread
<1>4. ASSUME NEW u \in Threads  PROVE LocalInv(u)'
  <2> USE <1>1 DEF trackerVars, FlagInv, LocalInv, Configuring
  <2>1. CASE Call(t)
    BY <2>1 DEF Call, Goto, gateVars
  <2>2. CASE RpliStep(t)
    <3>1. CASE Lock(t) \/ Written(t)
      BY <3>1 DEF Lock, Written, Goto, gateVars
    <3>2. CASE ReadView(t, "view", "flag")
      BY <3>2 DEF ReadView, Goto
    <3>3. CASE ReadFlag(t, "flag", "spin", "write")
      BY <3>3 DEF ReadFlag, Goto
    <3>4. CASE Spin(t, "spin", "write")
      BY <3>4 DEF Spin, Goto, gateVars
    <3> QED  BY <2>2, <3>1, <3>2, <3>3, <3>4 DEF RpliStep
  <2>3. CASE ChkrStep(t)
    <3>1. CASE ChkrLock(t) \/ Wait(t) \/ Done(t)
      BY <3>1 DEF ChkrLock, Wait, Done, Goto, gateVars
    <3>2. CASE Asked(t, "ask", "wait") \/ Asked(t, "ask_again", "done")
      BY <3>2 DEF Asked, Goto, gateVars
    <3>3. CASE ReadView(t, "wait_view", "wait_flag")
      BY <3>3 DEF ReadView, Goto
    <3>4. CASE ReadFlag(t, "wait_flag", "wait_spin", "wait")
      BY <3>4 DEF ReadFlag, Goto
    <3>5. CASE \E next \in {"lock", "ask_again"} : Spin(t, "wait_spin", next)
      BY <3>5 DEF Spin, Goto, gateVars
    <3> QED  BY <2>3, <3>1, <3>2, <3>3, <3>4, <3>5 DEF ChkrStep
  <2> QED  BY <2>1, <2>2, <2>3 DEF Thread
<1> QED  BY <1>2, <1>3, <1>4

\* A step of the tracker leaves the threads alone.
LEMMA TrackerGate ==
  ASSUME GateInv, Detect \/ Reconfigure
  PROVE  GateInv'
<1> USE DEF GateInv, TypeOK, FlagInv, ViewInv, RemovedInv, LocalInv, Configuring,
            threadVars, lockVars, gateVars
<1>1. CASE Detect
  <2> PICK n \in rsdco_rpli_conn : excluded' = Append(excluded, n)
    BY <1>1 DEF Detect
  <2>1. /\ Len(excluded') = view
        /\ excluded' \in Seq(Peers)
        /\ \A k \in 1 .. view - 1 : excluded'[k] = excluded[k]
    BY <1>1 DEF Detect
  <2> QED  BY <1>1, <2>1 DEF Detect
<1>2. CASE Configure
  BY <1>2 DEF Configure
<1>3. CASE RemoveRpli
  BY <1>3 DEF RemoveRpli, exclude
<1>4. CASE RemoveChkr
  BY <1>4 DEF RemoveChkr, exclude
<1>5. CASE Handshake
  BY <1>5 DEF Handshake
<1>6. CASE Release(TRUE)
  BY <1>6 DEF Release
<1>7. CASE Release(FALSE)
  <2>1. /\ view' = view + 1
        /\ tracker = "bump" /\ tracker' = "watch"
        /\ UNCHANGED <<rsdco_on_configure, rsdco_rpli_conn, rsdco_chkr_conn,
                       excluded, threadVars>>
    BY <1>7 DEF Release
  <2> QED  BY <2>1
<1> QED
  <2>1. \A first \in BOOLEAN : first = TRUE \/ first = FALSE
    OBVIOUS
  <2> QED  BY <1>1, <1>2, <1>3, <1>4, <1>5, <1>6, <1>7, <2>1 DEF Reconfigure

LEMMA GateInvariant == Spec => []GateInv
<1>1. GateInv /\ [Next]_vars => GateInv'
  <2> SUFFICES ASSUME GateInv, [Next]_vars  PROVE GateInv'
    OBVIOUS
  <2>1. CASE Ack
    BY <2>1 DEF Ack, GateInv, TypeOK, FlagInv, ViewInv, RemovedInv, LocalInv,
                trackerVars, gateVars
  <2>2. CASE UNCHANGED vars
    BY <2>2 DEF vars, threadVars, lockVars, gateVars, trackerVars, GateInv, TypeOK,
                FlagInv, ViewInv, RemovedInv, LocalInv
  <2> QED  BY <2>1, <2>2, ThreadGate, TrackerGate DEF Next
<1> QED  BY InitGate, <1>1, PTL DEF Spec

----------------------------------------------------------------------------
\* Types, for any number of threads, nodes and calls; rsdco_on_configure is never
\* more than 1.
THEOREM GateTypeCorrect == Spec => []TypeOK
BY GateInvariant, PTL DEF GateInv

\* No proposer waits for a view change that is over, whatever reconfigurations it
\* sleeps through.
THEOREM NoLostWakeupCorrect == Spec => []NoLostWakeup
<1>1. GateInv => NoLostWakeup
  BY DEF GateInv, LocalInv, NoLostWakeup
<1> QED  BY <1>1, GateInvariant, PTL

\* A proposer that waited writes to none that was removed while it waited.
THEOREM WaitedSeesRemovalCorrect == Spec => []WaitedSeesRemoval
<1>1. GateInv => WaitedSeesRemoval
  BY DEF GateInv, LocalInv, RemovedInv, WaitedSeesRemoval
<1> QED  BY <1>1, GateInvariant, PTL
=============================================================================
