---------------------------- MODULE HeartbeatProofs ----------------------------
(***************************************************************************)
(* The failure detector finds no live node dead, and the survivors of a    *)
(* crash resume together.                                                  *)
(***************************************************************************)
EXTENDS HeartbeatInv, WellFoundedInduction, TLAPS

\* A set of nodes that is not empty has a least one.
LEMMA MinOfNodes ==
  ASSUME NEW S \in SUBSET Nodes, S # {}
  PROVE  Min(S) \in S /\ \A x \in S : Min(S) <= x
<1> DEFINE R == OpToRel(<, Nat)
<1>1. S \subseteq Nat
  BY HeartbeatAssumption DEF Nodes
<1>2. IsWellFoundedOn(R, Nat)
  BY NatLessThanWellFounded
<1>3. PICK x \in S : \A y \in S : ~ (<<y, x>> \in R)
  <2> HIDE DEF R
  <2> QED BY <1>1, <1>2, WFMin
<1>4. \A y \in S : x <= y
  <2> SUFFICES ASSUME NEW y \in S PROVE x <= y
    OBVIOUS
  <2>1. <<y, x>> \in Nat \X Nat
    BY <1>1
  <2>2. ~ (y < x)
    BY <1>3, <2>1 DEF OpToRel
  <2> QED BY <1>1, <2>2
<1> QED BY <1>4 DEF Min

\* The cap on a score.
LEMMA MinOfTwo ==
  \A x, y \in Int : Min({x, y}) = IF x <= y THEN x ELSE y
<1> SUFFICES ASSUME NEW x \in Int, NEW y \in Int
             PROVE  Min({x, y}) = IF x <= y THEN x ELSE y
  OBVIOUS
<1> DEFINE m == IF x <= y THEN x ELSE y
<1>1. m \in {x, y} /\ \A z \in {x, y} : m <= z
  OBVIOUS
<1>2. \A k \in {x, y} : (\A z \in {x, y} : k <= z) => k = m
  OBVIOUS
<1> QED BY <1>1, <1>2 DEF Min

----------------------------------------------------------------------------
(* Types                                                                   *)

LEMMA TypeInit == Init => TypeOK
BY HeartbeatAssumption DEF Init, TypeOK, Nodes

LEMMA StartTypes ==
  ASSUME TypeOK, NEW n \in Nodes,
         StartLeader(n) \/ StartPeer(n) \/ StartFollower(n)
  PROVE  TypeOK'
<1>1. CASE StartLeader(n)
  BY <1>1 DEF StartLeader, TypeOK, Goto, slotVars, scoreVars
<1>2. CASE StartPeer(n)
  <2>1. CASE todo[n] = {}
    BY <1>2, <2>1 DEF StartPeer, TypeOK, Goto, slotVars, scoreVars, statVars
  <2>2. CASE todo[n] # {}
    <3>1. Min(todo[n]) \in Nodes
      BY <2>2, MinOfNodes DEF TypeOK
    <3> PICK m \in Nodes : m = Min(todo[n])
      BY <3>1
    <3>2. /\ todo' = [todo EXCEPT ![n] = todo[n] \ {m}]
          /\ view' = [view EXCEPT ![m] = view[n]]
          /\ exclude' = [exclude EXCEPT ![m] = exclude[n]]
          /\ msg' = [msg EXCEPT ![m] = msg[n]]
      BY <1>2, <2>2 DEF StartPeer, TypeOK
    <3>3. UNCHANGED <<pc, rsdco_hb_conn, slotVars, scoreVars>>
      BY <1>2, <2>2 DEF StartPeer
    <3> QED BY <3>2, <3>3 DEF TypeOK, slotVars, scoreVars
  <2> QED BY <2>1, <2>2
<1>3. CASE StartFollower(n)
  BY <1>3 DEF StartFollower, TypeOK, Goto, slotVars, scoreVars, statVars
<1> QED BY <1>1, <1>2, <1>3

\* A score leaves neither end of its range: one that is below zero is either
\* raised by a sign or costs its node its life.
LEMMA ScoreTypes ==
  ASSUME TypeOK, NEW n \in Nodes, NEW m \in Nodes,
         ~ (m \notin changed[n] /\ score[n][m] < 0)
  PROVE  NewScore(n, m) \in -1 .. SCORE_DEFAULT
<1>1. score[n][m] \in -1 .. SCORE_DEFAULT /\ SCORE_DEFAULT \in Nat
  BY HeartbeatAssumption DEF TypeOK
<1>2. Min({score[n][m] + 1, SCORE_DEFAULT})
        = IF score[n][m] + 1 <= SCORE_DEFAULT THEN score[n][m] + 1 ELSE SCORE_DEFAULT
  BY <1>1, MinOfTwo
<1> QED BY <1>1, <1>2 DEF NewScore

\* The connections that n finds lost in a round, and those it comes to.
LostOf(n) == {m \in rsdco_hb_conn[n] : m \notin changed[n] /\ score[n][m] < 0}
SeenOf(n) == {m \in rsdco_hb_conn[n] : \A l \in LostOf(n) : m < l}

\* What a round does, said about one connection at a time.
LEMMA DetectDoes ==
  ASSUME TypeOK, NEW n \in Nodes, Detect(n)
  PROVE  /\ LostOf(n) \subseteq Nodes /\ SeenOf(n) \subseteq Nodes \ LostOf(n)
         /\ LostOf(n) # {} => Min(LostOf(n)) \in LostOf(n)
         /\ score' = [score EXCEPT ![n] =
                        [m \in Nodes |-> IF m \in SeenOf(n) THEN NewScore(n, m)
                                                            ELSE score[n][m]]]
         /\ changed' = [changed EXCEPT ![n] = changed[n] \ SeenOf(n)]
         /\ LostOf(n) = {} => /\ pc' = [pc EXCEPT ![n] = "tick"]
                              /\ UNCHANGED <<dead, exclude>>
         /\ LostOf(n) # {} =>
              /\ pc' = [pc EXCEPT ![n] = "reconfigure"]
              /\ dead' = [dead EXCEPT ![n] = dead[n] \cup {Min(LostOf(n))}]
              /\ exclude' = [exclude EXCEPT ![n] = Min(LostOf(n))]
<1>1. LostOf(n) \subseteq Nodes /\ SeenOf(n) \subseteq Nodes
  BY DEF LostOf, SeenOf, TypeOK
<1>2. ASSUME NEW m \in SeenOf(n), m \in LostOf(n) PROVE FALSE
  <2>1. m < m /\ m \in Int
    BY <1>1, <1>2, HeartbeatAssumption DEF SeenOf, Nodes
  <2> QED BY <2>1
<1>3. LostOf(n) # {} => Min(LostOf(n)) \in LostOf(n)
  BY <1>1, MinOfNodes
<1>4. score \in [Nodes -> [Nodes -> -1 .. SCORE_DEFAULT]] /\ changed \in [Nodes -> SUBSET Nodes]
  BY DEF TypeOK
<1>5. score' = [score EXCEPT ![n] = [m \in Nodes |-> IF m \in SeenOf(n) THEN NewScore(n, m)
                                                            ELSE score[n][m]]]
  BY <1>4 DEF Detect, LostOf, SeenOf
<1>6. changed' = [changed EXCEPT ![n] = changed[n] \ SeenOf(n)]
  BY <1>4 DEF Detect, LostOf, SeenOf
<1>7. LostOf(n) = {} => pc' = [pc EXCEPT ![n] = "tick"] /\ UNCHANGED <<dead, exclude>>
  BY DEF Detect, LostOf, Goto
<1>8. LostOf(n) # {} =>
        /\ pc' = [pc EXCEPT ![n] = "reconfigure"]
        /\ dead' = [dead EXCEPT ![n] = dead[n] \cup {Min(LostOf(n))}]
        /\ exclude' = [exclude EXCEPT ![n] = Min(LostOf(n))]
  BY DEF Detect, LostOf, Goto, TypeOK
<1> QED BY <1>1, <1>2, <1>3, <1>5, <1>6, <1>7, <1>8

LEMMA RoundTypes ==
  ASSUME TypeOK, NEW n \in Nodes, Tick(n) \/ Propagate(n) \/ Detect(n)
  PROVE  TypeOK'
<1>1. CASE Tick(n)
  BY <1>1 DEF Tick, TypeOK, Goto, slotVars, scoreVars, statVars
<1>2. CASE Propagate(n)
  <2>1. Min(todo[n]) \in Nodes
    BY <1>2, MinOfNodes DEF TypeOK, Propagate
  <2> QED BY <1>2, <2>1 DEF Propagate, TypeOK, slotVars, statVars
<1>3. CASE Detect(n)
  <2> DEFINE news == [m \in Nodes |-> IF m \in SeenOf(n) THEN NewScore(n, m)
                                                        ELSE score[n][m]]
  <2>1. \A m \in SeenOf(n) : m \in Nodes /\ ~ (m \notin changed[n] /\ score[n][m] < 0)
    BY <1>3, DetectDoes DEF LostOf, SeenOf
  <2>2. \A m \in SeenOf(n) : NewScore(n, m) \in -1 .. SCORE_DEFAULT
    BY <2>1, ScoreTypes
  <2>3. news \in [Nodes -> -1 .. SCORE_DEFAULT]
    BY <2>2 DEF TypeOK
  <2>4. score' \in [Nodes -> [Nodes -> -1 .. SCORE_DEFAULT]]
    <3>1. score' = [score EXCEPT ![n] = news]
      BY <1>3, DetectDoes
    <3> HIDE DEF news
    <3> QED BY <2>3, <3>1 DEF TypeOK
  <2>5. changed' \in [Nodes -> SUBSET Nodes]
    BY <1>3, DetectDoes DEF TypeOK
  <2>6. dead' \in [Nodes -> SUBSET Nodes] /\ exclude' \in [Nodes -> Nodes \cup {EXCLUDE_RESET}]
    BY SMTT(60), <1>3, DetectDoes DEF TypeOK
  <2>7. pc' \in [Nodes -> {"start", "start_peers", "tick", "propagate", "reconfigure",
                          "gather", "release", "wait", "resume"}]
    BY <1>3, DetectDoes DEF TypeOK
  <2>8. ran' = ran \cup {n} /\ UNCHANGED <<up, orderly, msg, view, rsdco_hb_conn, todo>>
    BY <1>3 DEF Detect
  <2> QED BY <2>4, <2>5, <2>6, <2>7, <2>8 DEF TypeOK
<1> QED BY <1>1, <1>2, <1>3

LEMMA HandshakeTypes ==
  ASSUME TypeOK, NEW n \in Nodes,
         \/ Reconfigure(n) \/ Gather(n) \/ Release(n) \/ WaitForRelease(n) \/ Resume(n)
  PROVE  TypeOK'
<1>1. CASE Reconfigure(n)
  <2>1. rsdco_hb_conn' \in [Nodes -> SUBSET Nodes]
    BY <1>1 DEF Reconfigure, rsdco_conn_remove, TypeOK
  <2> QED BY <1>1, <2>1 DEF Reconfigure, TypeOK, Goto, slotVars, scoreVars
<1>2. CASE Gather(n)
  <2>1. CASE todo[n] = {}
    <3>1. /\ msg' = [msg EXCEPT ![n] = "RELEASE"]
          /\ todo' = [todo EXCEPT ![n] = rsdco_hb_conn[n]]
          /\ pc' = [pc EXCEPT ![n] = "release"]
      BY <1>2, <2>1 DEF Gather, Goto
    <3>2. UNCHANGED <<exclude, view, rsdco_hb_conn, slotVars, scoreVars>>
      BY <1>2 DEF Gather
    <3> QED BY <3>1, <3>2 DEF TypeOK, slotVars, scoreVars
  <2>2. CASE todo[n] # {}
    <3>1. Min(todo[n]) \in Nodes
      BY <2>2, MinOfNodes DEF TypeOK
    <3> PICK m \in Nodes : m = Min(todo[n])
      BY <3>1
    <3>2. \/ todo' = [todo EXCEPT ![n] = todo[n] \ {m}] /\ UNCHANGED msg
          \/ msg' = [msg EXCEPT ![n] = msg[m]] /\ UNCHANGED todo
      BY <1>2, <2>2 DEF Gather, TypeOK
    <3>3. UNCHANGED <<pc, exclude, view, rsdco_hb_conn, slotVars, scoreVars>>
      BY <1>2, <2>2 DEF Gather
    <3> QED BY SMTT(60), <3>2, <3>3 DEF TypeOK, slotVars, scoreVars
  <2> QED BY <2>1, <2>2
<1>3. CASE Release(n)
  <2>1. CASE todo[n] = {}
    BY <1>3, <2>1 DEF Release, TypeOK, Goto, slotVars, scoreVars
  <2>2. CASE todo[n] # {}
    <3>1. Min(todo[n]) \in Nodes
      BY <2>2, MinOfNodes DEF TypeOK
    <3> PICK m \in Nodes : m = Min(todo[n])
      BY <3>1
    <3>2. /\ todo' = [todo EXCEPT ![n] = todo[n] \ {m}]
          /\ msg' = [msg EXCEPT ![m] = msg[n]]
      BY <1>3, <2>2 DEF Release, TypeOK
    <3>3. UNCHANGED <<pc, exclude, view, rsdco_hb_conn, slotVars, scoreVars>>
      BY <1>3, <2>2 DEF Release
    <3> QED BY <3>2, <3>3 DEF TypeOK, slotVars, scoreVars
  <2> QED BY <2>1, <2>2
<1>4. CASE WaitForRelease(n)
  BY <1>4 DEF WaitForRelease, TypeOK, Goto, slotVars, scoreVars, statVars
<1>5. CASE Resume(n)
  BY <1>5 DEF Resume, TypeOK, Goto, slotVars, scoreVars
<1> QED BY <1>1, <1>2, <1>3, <1>4, <1>5

LEMMA TypeStep == TypeOK /\ [Next]_vars => TypeOK'
<1> SUFFICES ASSUME TypeOK, [Next]_vars PROVE TypeOK'
  OBVIOUS
<1>1. CASE Slot
  BY <1>1 DEF Slot, TypeOK, scoreVars, statVars
<1>2. ASSUME NEW n \in up, Step(n) PROVE TypeOK'
  BY <1>2, StartTypes, RoundTypes, HandshakeTypes DEF Step, TypeOK
<1>3. ASSUME NEW n \in up, Crash(n) PROVE TypeOK'
  <2>1. orderly' \in BOOLEAN
    BY <1>3 DEF Crash
  <2> QED BY <1>3, <2>1 DEF Crash, TypeOK, scoreVars, statVars
<1>4. CASE UNCHANGED vars
  BY <1>4 DEF vars, slotVars, scoreVars, statVars, TypeOK
<1> QED BY <1>1, <1>2, <1>3, <1>4 DEF Next

\* The types, for any number of nodes and any score to start from: a score ends
\* one below zero, and only nodes are ever excluded.
THEOREM TypeCorrect == Spec => []TypeOK
<1>1. TypeOK /\ [Next]_vars => TypeOK'
  BY TypeStep
<1> QED BY <1>1, TypeInit, PTL DEF Spec

----------------------------------------------------------------------------
(* Few nodes                                                               *)

LEMMA FewNodes ==
  /\ Nodes \subseteq {0, 1, 2} /\ 0 \in Nodes
  /\ SCORE_DEFAULT \in Nat /\ SCORE_DEFAULT >= 1
BY HeartbeatAssumption, CodeConstants DEF Nodes

\* Next to two nodes that are up there is room for one that is lost, and who
\* is lost is not up.
LEMMA OneLost ==
  ASSUME NEW a \in Nodes, NEW b \in Nodes, a # b, NEW c \in Nodes \ {a, b}
  PROVE  Nodes = {a, b, c}
<1>1. \A x \in Nodes : x \in {a, b, c}
  BY FewNodes
<1> QED BY <1>1

\* How many rounds, without the least of two numbers.
LEMMA RoundsIs ==
  ASSUME TypeOK, NEW n \in Nodes, NEW m \in Nodes
  PROVE  /\ score[n][m] \in -1 .. SCORE_DEFAULT
         /\ Rounds(n, m) \in Nat \ {0}
         /\ Rounds(n, m) = IF m \in changed[n]
                             THEN IF score[n][m] < SCORE_DEFAULT THEN score[n][m] + 4
                                                                 ELSE SCORE_DEFAULT + 3
                             ELSE score[n][m] + 2
<1>1. score[n][m] \in -1 .. SCORE_DEFAULT /\ SCORE_DEFAULT \in Nat
  BY HeartbeatAssumption DEF TypeOK
<1>2. Min({score[n][m] + 1, SCORE_DEFAULT})
        = IF score[n][m] + 1 <= SCORE_DEFAULT THEN score[n][m] + 1 ELSE SCORE_DEFAULT
  BY <1>1, MinOfTwo
<1> QED BY <1>1, <1>2 DEF Rounds

LEMMA RoundsIsNext ==
  ASSUME TypeOK', NEW n \in Nodes, NEW m \in Nodes
  PROVE  /\ score'[n][m] \in -1 .. SCORE_DEFAULT
         /\ Rounds(n, m)' \in Nat \ {0}
         /\ Rounds(n, m)' = IF m \in changed'[n]
                             THEN IF score'[n][m] < SCORE_DEFAULT THEN score'[n][m] + 4
                                                                  ELSE SCORE_DEFAULT + 3
                             ELSE score'[n][m] + 2
<1>1. score'[n][m] \in -1 .. SCORE_DEFAULT /\ SCORE_DEFAULT \in Nat
  BY HeartbeatAssumption DEF TypeOK
<1>2. Min({score'[n][m] + 1, SCORE_DEFAULT})
        = IF score'[n][m] + 1 <= SCORE_DEFAULT THEN score'[n][m] + 1 ELSE SCORE_DEFAULT
  BY <1>1, MinOfTwo
<1> QED BY <1>1, <1>2 DEF Rounds

LEMMA NewScoreIs ==
  ASSUME TypeOK, NEW n \in Nodes, NEW m \in Nodes
  PROVE  NewScore(n, m) = IF m \in changed[n]
                            THEN IF score[n][m] < SCORE_DEFAULT THEN score[n][m] + 1
                                                                ELSE SCORE_DEFAULT
                            ELSE score[n][m] - 1
<1>1. score[n][m] \in -1 .. SCORE_DEFAULT /\ SCORE_DEFAULT \in Nat
  BY HeartbeatAssumption DEF TypeOK
<1>2. Min({score[n][m] + 1, SCORE_DEFAULT})
        = IF score[n][m] + 1 <= SCORE_DEFAULT THEN score[n][m] + 1 ELSE SCORE_DEFAULT
  BY <1>1, MinOfTwo
<1> QED BY <1>1, <1>2 DEF NewScore

----------------------------------------------------------------------------
(* Steps that leave a part of the invariant alone                          *)

LEMMA SeesFrame ==
  ASSUME NEW a, NEW b, Sees(a, b), UNCHANGED <<up, ran, changed, score, dead>>,
         Signed(b, a)' => Signed(b, a)
  PROVE  Sees(a, b)'
BY DEF Sees, Steady, Fresh, Away, Rounds, Found

LEMMA HandshakeFrame ==
  ASSUME NEW a, NEW b, Handshake(a, b), UNCHANGED <<pc, msg, dead>>,
         pc[a] \in {"gather", "release"} => todo'[a] = todo[a]
  PROVE  Handshake(a, b)'
BY DEF Handshake, Freed, Found, Running

LEMMA KnowsFrame ==
  ASSUME NEW a, Knows(a), UNCHANGED <<up, pc, dead, exclude, rsdco_hb_conn>>
  PROVE  Knows(a)'
BY DEF Knows, Found, Starting, Running

\* A node that is past start-up, and leaves those that are not alone.
LEMMA StartFrame ==
  ASSUME HeartbeatInv, NEW n \in up, ~ Starting(n), ~ Starting(n)', up' = up,
         \A x \in Nodes \ {n} :
           pc'[x] = pc[x] /\ todo'[x] = todo[x] /\ view'[x] = view[x],
         \A x \in up : Starting(x) => msg'[x] = msg[x]
  PROVE  StartInv'
<1>1. up \subseteq Nodes /\ 0 \in Nodes
  BY FewNodes DEF HeartbeatInv, TypeOK
<1>2. ASSUME NEW x \in up', Starting(x)'
      PROVE  x # n /\ Starting(x) /\ up = Nodes
  BY <1>1, <1>2 DEF HeartbeatInv, StartInv, Starting
<1>3. ASSUME NEW x \in up, x = 0, pc[x] = "start" PROVE FALSE
  BY <1>1, <1>3 DEF HeartbeatInv, StartInv, Starting
<1>4. ASSUME NEW x \in up', pc'[x] = "start_peers"
      PROVE  x = 0 /\ view'[x] = 1 /\ msg'[x] = "RELEASE"
  BY <1>1, <1>2, <1>4 DEF HeartbeatInv, StartInv, Starting
<1>5. ASSUME NEW x \in up', pc'[x] = "start"
      PROVE  x # 0
  BY <1>1, <1>2, <1>3, <1>5 DEF Starting
<1>6. ASSUME NEW x \in up', pc'[x] = "start", x # 0, msg'[x] = "WAIT"
      PROVE  pc'[0] = "start" \/ (pc'[0] = "start_peers" /\ x \in todo'[0])
  <2>1. x # n /\ Starting(x) /\ up = Nodes /\ pc[x] = "start" /\ msg[x] = "WAIT"
    BY <1>1, <1>2, <1>6 DEF Starting
  <2>2. pc[0] = "start" \/ (pc[0] = "start_peers" /\ x \in todo[0])
    BY <1>6, <2>1 DEF HeartbeatInv, StartInv
  <2>3. n # 0
    BY <2>2 DEF Starting
  <2> QED BY <1>1, <2>2, <2>3
<1> QED BY <1>2, <1>4, <1>5, <1>6 DEF StartInv

\* In the handshake: there has been a crash, and nobody starts.
LEMMA InHandshake ==
  ASSUME HeartbeatInv, NEW n \in up, ~ Starting(n), ~ Running(n)
  PROVE  /\ \A x \in up : ~ Starting(x)
         /\ \A b \in up \ {n} : Found(n) /\ dead[n] = Nodes \ up /\ up = {n, b}
                                /\ \E d \in Nodes : Nodes = {n, b, d} /\ d \notin up
<1>1. up \subseteq Nodes
  BY DEF HeartbeatInv, TypeOK
<1>2. ASSUME NEW b \in up \ {n}
      PROVE  Found(n) /\ dead[n] = Nodes \ up /\ up = {n, b}
             /\ \E d \in Nodes : Nodes = {n, b, d} /\ d \notin up
  <2>1. Found(n) /\ dead[n] = Nodes \ up
    BY DEF HeartbeatInv, Pairs, Knows, Found
  <2>2. PICK d \in Nodes : d \notin up
    BY <2>1 DEF Found
  <2>3. Nodes = {n, b, d}
    BY <1>1, <2>2, OneLost
  <2> QED BY <1>1, <2>1, <2>2, <2>3
<1>3. ASSUME NEW x \in up, Starting(x) PROVE FALSE
  <2>1. up = Nodes
    BY <1>3 DEF HeartbeatInv, StartInv
  <2>2. x # n
    BY <1>3
  <2> QED BY <1>2, <2>1, <2>2
<1> QED BY <1>2, <1>3

----------------------------------------------------------------------------
(* Start-up                                                                *)

\* While a node starts nobody knows of a crash.
LEMMA InStart ==
  ASSUME HeartbeatInv, NEW n \in up, Starting(n)
  PROVE  /\ up = Nodes
         /\ \A a, b \in Nodes : a # b =>
              /\ dead[a] = {} /\ (Starting(a) \/ Running(a))
              /\ rsdco_hb_conn[a] = Nodes \ {a}
BY DEF HeartbeatInv, StartInv, Pairs, Knows, Found

\* A step of start-up by which a node learns only that it is released.
LEMMA StartKeepsPairs ==
  ASSUME HeartbeatInv, NEW n \in up, Starting(n), pc'[n] \in {"start_peers", "tick"},
         UNCHANGED <<up, ran, changed, score, dead, rsdco_hb_conn>>,
         \A x \in Nodes \ {n} : pc'[x] = pc[x] /\ todo'[x] = todo[x],
         \A x \in Nodes : msg'[x] = "WAIT" => msg[x] = "WAIT",
         msg'[n] = "RELEASE"
  PROVE  Pairs'
<1> SUFFICES ASSUME NEW a \in up', NEW b \in up', a # b
             PROVE  Knows(a)' /\ Sees(a, b)' /\ (a < b => Handshake(a, b)')
  BY DEF Pairs
<1>1. a \in Nodes /\ b \in Nodes /\ a \in up /\ b \in up
  BY InStart
<1>2. Sees(a, b) /\ (a < b => Handshake(a, b))
  BY <1>1 DEF HeartbeatInv, Pairs
<1>3. /\ dead[a] = {} /\ dead[b] = {} /\ rsdco_hb_conn[a] = Nodes \ {a}
      /\ Starting(a) \/ Running(a)
      /\ Starting(b) \/ Running(b)
  BY <1>1, InStart
<1>4. /\ Starting(a)' \/ Running(a)'
      /\ Starting(b)' \/ Running(b)'
  BY <1>1, <1>3 DEF Starting, Running
<1>5. Knows(a)'
  BY <1>1, <1>3, <1>4, InStart DEF Knows, Found
<1>6. Sees(a, b)'
  <2>1. Signed(b, a)' => Signed(b, a)
    BY <1>1 DEF Signed
  <2> QED BY <1>2, <2>1, SeesFrame
<1>7. ASSUME a < b PROVE Handshake(a, b)'
  <2>1. /\ pc'[a] \in {"start", "start_peers", "tick", "propagate"}
        /\ pc'[b] \in {"start", "start_peers", "tick", "propagate"}
    BY <1>4 DEF Starting, Running
  <2>2. /\ pc[a] \in {"start", "start_peers", "tick", "propagate"}
        /\ pc[b] \in {"start", "start_peers", "tick", "propagate"}
    BY <1>3 DEF Starting, Running
  <2>3. \A x \in {a, b} : msg'[x] = "WAIT" => pc'[x] = "start"
    <3>1. \A x \in {a, b} : msg[x] = "WAIT" => pc[x] = "start"
      BY <1>2, <1>7, <2>2 DEF Handshake
    <3> QED BY <1>1, <3>1
  <2>4. dead'[a] = {} /\ dead'[b] = {}
    BY <1>3
  <2> QED BY <2>1, <2>3, <2>4 DEF Handshake, Freed, Found
<1> QED BY <1>5, <1>6, <1>7

LEMMA StartLeaderKeeps ==
  ASSUME HeartbeatInv, NEW n \in up, StartLeader(n)
  PROVE  HeartbeatInv'
<1>1. n \in Nodes /\ TypeOK /\ up \subseteq Nodes
  BY DEF HeartbeatInv, TypeOK
<1>2. TypeOK'
  BY <1>1, StartTypes
<1>3. Starting(n) /\ up = Nodes
  BY InStart DEF StartLeader, Starting
<1>4. n = 0
  <2>1. CASE Nodes = {n}
    BY <2>1, FewNodes
  <2>2. CASE Nodes # {n}
    <3>1. dead[n] = {}
      BY <1>1, <1>3, <2>2, InStart
    <3>2. n = Min(Nodes)
      BY <3>1 DEF StartLeader, rsdco_is_lowest_alive
    <3> QED BY <1>1, <3>2, MinOfNodes, FewNodes
  <2> QED BY <2>1, <2>2
<1>5. /\ view' = [view EXCEPT ![n] = 1]
      /\ exclude' = [exclude EXCEPT ![n] = n]
      /\ msg' = [msg EXCEPT ![n] = "RELEASE"]
      /\ todo' = [todo EXCEPT ![n] = rsdco_hb_conn[n]]
      /\ pc' = [pc EXCEPT ![n] = "start_peers"]
      /\ UNCHANGED <<up, ran, changed, score, dead, rsdco_hb_conn>>
  BY DEF StartLeader, Goto, slotVars, scoreVars
<1>6. \A x \in Nodes : pc[x] = "start" /\ msg[x] = "WAIT"
  BY <1>3, <1>4 DEF HeartbeatInv, StartInv, StartLeader
<1>7. \A x \in Nodes \ {n} : pc'[x] = "start" /\ msg'[x] = "WAIT" /\ todo'[x] = todo[x]
  BY <1>1, <1>5, <1>6 DEF TypeOK
<1>8. pc'[n] = "start_peers" /\ msg'[n] = "RELEASE" /\ view'[n] = 1 /\ todo'[n] = rsdco_hb_conn[n]
  BY <1>1, <1>5 DEF TypeOK
<1>9. Alone'
  <2>1. \A x \in Nodes : pc'[x] # "propagate"
    BY <1>7, <1>8
  <2> QED BY <1>5, <2>1 DEF HeartbeatInv, Alone
<1>10. StartInv'
  <2>1. \A x \in Nodes \ {n} : x \in todo'[n]
    BY <1>1, <1>3, <1>8, InStart
  <2> QED BY <1>3, <1>4, <1>5, <1>7, <1>8, <2>1 DEF StartInv, Starting
<1>11. Pairs'
  BY <1>3, <1>5, <1>6, <1>7, <1>8, StartKeepsPairs
<1> QED BY <1>2, <1>9, <1>10, <1>11 DEF HeartbeatInv

LEMMA StartPeerKeeps ==
  ASSUME HeartbeatInv, NEW n \in up, StartPeer(n)
  PROVE  HeartbeatInv'
<1>1. n \in Nodes /\ TypeOK /\ up \subseteq Nodes
  BY DEF HeartbeatInv, TypeOK
<1>2. TypeOK'
  BY <1>1, StartTypes
<1>3. Starting(n) /\ up = Nodes /\ n = 0 /\ pc[n] = "start_peers" /\ view[n] = 1 /\ msg[n] = "RELEASE"
  BY InStart DEF StartPeer, Starting, HeartbeatInv, StartInv
<1>4. UNCHANGED <<up, ran, changed, score, dead, rsdco_hb_conn>>
  BY DEF StartPeer, slotVars, scoreVars
<1>5. \A x \in Nodes \ {n} : pc'[x] = pc[x] /\ todo'[x] = todo[x]
  BY <1>1 DEF StartPeer, Goto, TypeOK
<1>6. pc'[n] \in {"start_peers", "tick"}
  BY <1>1, <1>3 DEF StartPeer, Goto, TypeOK
<1>7. \A x \in Nodes : msg'[x] = "WAIT" => msg[x] = "WAIT"
  <2>1. CASE todo[n] = {}
    BY <2>1 DEF StartPeer, statVars
  <2>2. CASE todo[n] # {}
    <3> PICK m \in Nodes : m = Min(todo[n])
      BY <1>1, <2>2, MinOfNodes DEF TypeOK
    <3>1. msg' = [msg EXCEPT ![m] = msg[n]]
      BY <2>2 DEF StartPeer
    <3> QED BY <1>1, <1>3, <3>1 DEF TypeOK
  <2> QED BY <2>1, <2>2
<1>8. msg'[n] = "RELEASE" /\ view'[n] = 1
  <2>1. CASE todo[n] = {}
    BY <1>3, <2>1 DEF StartPeer, statVars
  <2>2. CASE todo[n] # {}
    <3> PICK m \in Nodes : m = Min(todo[n])
      BY <1>1, <2>2, MinOfNodes DEF TypeOK
    <3>1. msg' = [msg EXCEPT ![m] = msg[n]] /\ view' = [view EXCEPT ![m] = view[n]]
      BY <2>2 DEF StartPeer
    <3> QED BY <1>1, <1>3, <3>1 DEF TypeOK
  <2> QED BY <2>1, <2>2
<1>9. \A x \in Nodes : x \in todo[n] /\ msg'[x] = "WAIT" =>
        pc'[n] = "start_peers" /\ x \in todo'[n]
  <2>1. CASE todo[n] = {}
    BY <2>1
  <2>2. CASE todo[n] # {}
    <3> PICK m \in Nodes : m = Min(todo[n])
      BY <1>1, <2>2, MinOfNodes DEF TypeOK
    <3>1. /\ msg' = [msg EXCEPT ![m] = msg[n]]
          /\ todo' = [todo EXCEPT ![n] = todo[n] \ {m}]
          /\ pc' = pc
      BY <1>1, <2>2 DEF StartPeer, TypeOK
    <3>2. msg'[m] = "RELEASE"
      BY <1>1, <1>3, <3>1 DEF TypeOK
    <3> QED BY <1>1, <1>3, <3>1, <3>2 DEF TypeOK
  <2> QED BY <2>1, <2>2
<1>10. Alone'
  BY <1>4, <1>5, <1>6 DEF HeartbeatInv, Alone
<1>11. StartInv'
  <2>1. ASSUME NEW x \in Nodes, pc'[x] = "start_peers" PROVE x = n
    BY <1>3, <1>5, <1>6, <2>1 DEF HeartbeatInv, StartInv
  <2>2. ASSUME NEW x \in Nodes, pc'[x] = "start" PROVE x # n /\ pc[x] = "start"
    BY <1>5, <1>6, <2>2
  <2>3. ASSUME NEW x \in Nodes, pc'[x] = "start", msg'[x] = "WAIT"
        PROVE  pc'[n] = "start_peers" /\ x \in todo'[n]
    <3>1. x \in todo[n]
      BY <1>3, <1>7, <2>2, <2>3 DEF HeartbeatInv, StartInv
    <3> QED BY <1>9, <2>3, <3>1
  <2> QED BY <1>3, <1>4, <1>8, <2>1, <2>2, <2>3 DEF StartInv
<1>12. Pairs'
  BY <1>3, <1>4, <1>5, <1>6, <1>7, <1>8, StartKeepsPairs
<1> QED BY <1>2, <1>10, <1>11, <1>12 DEF HeartbeatInv

LEMMA StartFollowerKeeps ==
  ASSUME HeartbeatInv, NEW n \in up, StartFollower(n)
  PROVE  HeartbeatInv'
<1>1. n \in Nodes /\ TypeOK /\ up \subseteq Nodes
  BY DEF HeartbeatInv, TypeOK
<1>2. TypeOK'
  BY <1>1, StartTypes
<1>3. Starting(n) /\ up = Nodes /\ pc[n] = "start" /\ msg[n] = "RELEASE"
  BY InStart DEF StartFollower, Starting
<1>4. /\ pc' = [pc EXCEPT ![n] = "tick"]
      /\ UNCHANGED <<up, ran, changed, score, dead, exclude, msg, view, rsdco_hb_conn, todo>>
  BY DEF StartFollower, Goto, slotVars, scoreVars, statVars
<1>5. pc'[n] = "tick" /\ \A x \in Nodes \ {n} : pc'[x] = pc[x]
  BY <1>1, <1>4 DEF TypeOK
<1>6. ~ (0 \in up /\ pc[0] = "start")
  BY <1>1, <1>3 DEF HeartbeatInv, StartInv
<1>7. Alone'
  BY <1>4, <1>5 DEF HeartbeatInv, Alone
<1>8. StartInv'
  <2>1. ASSUME NEW x \in Nodes, Starting(x)' PROVE x # n /\ pc'[x] = pc[x]
    BY <1>5, <2>1 DEF Starting
  <2>2. n # 0
    BY <1>1, <1>3, <1>6
  <2>3. ASSUME NEW x \in Nodes, pc'[x] = "start_peers"
        PROVE  x = 0 /\ view'[x] = 1 /\ msg'[x] = "RELEASE"
    BY <1>3, <1>4, <2>1, <2>3 DEF HeartbeatInv, StartInv, Starting
  <2>4. ASSUME NEW x \in Nodes, pc'[x] = "start" PROVE x # 0
    BY <1>3, <1>6, <2>1, <2>4 DEF Starting
  <2>5. ASSUME NEW x \in Nodes, pc'[x] = "start", x # 0, msg'[x] = "WAIT"
        PROVE  pc'[0] = "start" \/ (pc'[0] = "start_peers" /\ x \in todo'[0])
    <3>1. pc[x] = "start" /\ msg[x] = "WAIT"
      BY <1>4, <2>1, <2>5 DEF Starting
    <3>2. pc[0] = "start" \/ (pc[0] = "start_peers" /\ x \in todo[0])
      BY <1>3, <2>5, <3>1 DEF HeartbeatInv, StartInv
    <3> QED BY <1>4, <1>5, <2>2, <3>2, FewNodes
  <2> QED BY <1>3, <1>4, <2>3, <2>4, <2>5 DEF StartInv
<1>9. Pairs'
  BY <1>3, <1>4, <1>5, StartKeepsPairs
<1> QED BY <1>2, <1>7, <1>8, <1>9 DEF HeartbeatInv

----------------------------------------------------------------------------
(* A round                                                                 *)

LEMMA TickKeeps ==
  ASSUME HeartbeatInv, NEW n \in up, Tick(n)
  PROVE  HeartbeatInv'
<1>1. n \in Nodes /\ TypeOK /\ up \subseteq Nodes
  BY DEF HeartbeatInv, TypeOK
<1>2. TypeOK'
  BY <1>1, RoundTypes
<1>3. pc[n] = "tick" /\ n \notin ran
  BY DEF Tick
<1>4. /\ pc' = [pc EXCEPT ![n] = "propagate"]
      /\ todo' = [todo EXCEPT ![n] = rsdco_hb_conn[n]]
      /\ UNCHANGED <<up, ran, changed, score, dead, exclude, msg, view, rsdco_hb_conn>>
  BY DEF Tick, Goto, slotVars, scoreVars, statVars
<1>5. pc'[n] = "propagate" /\ todo'[n] = rsdco_hb_conn[n]
  BY <1>1, <1>4 DEF TypeOK
<1>6. \A x \in Nodes \ {n} : pc'[x] = pc[x] /\ todo'[x] = todo[x]
  BY <1>1, <1>4 DEF TypeOK
<1>7. Alone'
  BY <1>3, <1>4, <1>5, <1>6 DEF HeartbeatInv, Alone
<1>8. StartInv'
  BY <1>3, <1>4, <1>5, <1>6, StartFrame DEF Starting
<1>9. ASSUME NEW a \in up', NEW b \in up', a # b
      PROVE  Knows(a)' /\ Sees(a, b)' /\ (a < b => Handshake(a, b)')
  <2>1. a \in Nodes /\ b \in Nodes /\ a \in up /\ b \in up
    BY <1>1, <1>4, <1>9
  <2>2. Knows(a) /\ Knows(b) /\ Sees(a, b) /\ (a < b => Handshake(a, b))
    BY <1>9, <2>1 DEF HeartbeatInv, Pairs
  <2>3. Knows(a)'
    BY <1>3, <1>4, <1>5, <1>6, <2>1, <2>2 DEF Knows, Found, Starting, Running
  <2>4. Sees(a, b)'
    <3>1. Signed(b, a)' => Signed(b, a)
      <4>1. CASE b = n
        <5>1. a \in rsdco_hb_conn[n]
          BY <1>3, <1>9, <2>1, <2>2, <4>1 DEF Knows, Found
        <5> QED BY <1>4, <1>5, <4>1, <5>1 DEF Signed
      <4>2. CASE b # n
        BY <1>4, <1>6, <2>1, <4>2 DEF Signed
      <4> QED BY <4>1, <4>2
    <3> QED BY <1>4, <2>2, <3>1, SeesFrame
  <2>5. ASSUME a < b PROVE Handshake(a, b)'
    BY <1>3, <1>4, <1>5, <1>6, <2>1, <2>2, <2>5 DEF Handshake, Freed, Found, Running
  <2> QED BY <2>3, <2>4, <2>5
<1> QED BY <1>2, <1>7, <1>8, <1>9 DEF HeartbeatInv, Pairs

LEMMA PropagateKeeps ==
  ASSUME HeartbeatInv, NEW n \in up, Propagate(n)
  PROVE  HeartbeatInv'
<1>1. n \in Nodes /\ TypeOK /\ up \subseteq Nodes
  BY DEF HeartbeatInv, TypeOK
<1>2. TypeOK'
  BY <1>1, RoundTypes
<1>3. PICK m \in Nodes : m = Min(todo[n])
  BY <1>1, MinOfNodes DEF Propagate, TypeOK
<1>4. /\ pc[n] = "propagate"
      /\ todo' = [todo EXCEPT ![n] = todo[n] \ {m}]
      /\ changed' = [changed EXCEPT ![m] = IF m \in up THEN changed[m] \cup {n} ELSE changed[m]]
      /\ UNCHANGED <<up, ran, pc, score, dead, exclude, msg, view, rsdco_hb_conn>>
  BY <1>1, <1>3 DEF Propagate, slotVars, statVars, TypeOK
<1>5. todo'[n] = todo[n] \ {m} /\ \A x \in Nodes \ {n} : todo'[x] = todo[x]
  BY <1>1, <1>4 DEF TypeOK
<1>6. \A x \in Nodes : /\ changed[x] \subseteq changed'[x]
                       /\ changed'[x] \subseteq changed[x] \cup {n}
  BY <1>1, <1>4 DEF TypeOK
<1>7. Alone'
  BY <1>4 DEF HeartbeatInv, Alone
<1>8. StartInv'
  BY <1>4, <1>5, StartFrame DEF Starting
<1>9. ASSUME NEW a \in up', NEW b \in up', a # b
      PROVE  Knows(a)' /\ Sees(a, b)' /\ (a < b => Handshake(a, b)')
  <2>1. a \in Nodes /\ b \in Nodes /\ a \in up /\ b \in up
    BY <1>1, <1>4, <1>9
  <2>2. Knows(a) /\ Sees(a, b) /\ (a < b => Handshake(a, b))
    BY <1>9, <2>1 DEF HeartbeatInv, Pairs
  <2>3. Knows(a)'
    BY <1>4, <2>2, KnowsFrame
  <2>4. a < b => Handshake(a, b)'
    <3>1. pc[a] \in {"gather", "release"} => todo'[a] = todo[a]
      BY <1>4, <1>5, <2>1
    <3> QED BY <1>4, <2>2, <3>1, HandshakeFrame
  <2>5. Signed(b, a)' => Signed(b, a) \/ b \in changed'[a]
    <3>1. CASE b = n /\ a = m
      BY <1>1, <1>4, <2>1, <3>1 DEF TypeOK
    <3>2. CASE ~ (b = n /\ a = m)
      BY <1>1, <1>4, <1>5, <2>1, <3>2 DEF Signed, TypeOK
    <3> QED BY <3>1, <3>2
  <2>6. \A x \in {a, b}, d \in Nodes \ up : Rounds(x, d)' = Rounds(x, d) /\ Away(x, d)' = Away(x, d)
    <3> SUFFICES ASSUME NEW x \in {a, b}, NEW d \in Nodes \ up
                 PROVE  Rounds(x, d)' = Rounds(x, d) /\ Away(x, d)' = Away(x, d)
      OBVIOUS
    <3>1. d \in changed'[x] <=> d \in changed[x]
      BY <1>6, <2>1
    <3>2. Rounds(x, d)' = Rounds(x, d)
      BY <1>4, <3>1 DEF Rounds
    <3> QED BY <1>4, <3>2 DEF Away
  <2>7. Rounds(a, b)' >= Rounds(a, b)
    <3>1. /\ score[a][b] \in -1 .. SCORE_DEFAULT
          /\ Rounds(a, b) = IF b \in changed[a]
                             THEN IF score[a][b] < SCORE_DEFAULT THEN score[a][b] + 4
                                                                 ELSE SCORE_DEFAULT + 3
                             ELSE score[a][b] + 2
      BY <1>1, <2>1, RoundsIs
    <3>2. Rounds(a, b)' = IF b \in changed'[a]
                            THEN IF score'[a][b] < SCORE_DEFAULT THEN score'[a][b] + 4
                                                                 ELSE SCORE_DEFAULT + 3
                            ELSE score'[a][b] + 2
      BY <1>2, <2>1, RoundsIsNext
    <3>3. score'[a][b] = score[a][b] /\ (b \in changed[a] => b \in changed'[a])
      BY <1>4, <1>6, <2>1
    <3> QED BY <3>1, <3>2, <3>3, FewNodes
  <2>8. \A d \in Nodes \ up : Rounds(a, d) < Rounds(a, b) => Rounds(a, d)' < Rounds(a, b)'
    BY <1>1, <1>2, <2>1, <2>6, <2>7, RoundsIs, RoundsIsNext
  <2>9. (a \notin ran /\ Signed(b, a) => b \in changed[a]) => (a \notin ran /\ Signed(b, a)' => b \in changed'[a])
    BY <1>6, <2>1, <2>5
  <2>10. Steady(a, b) => Steady(a, b)'
    BY <1>4, <1>6, <2>1, <2>5 DEF Steady
  <2>11. Fresh(a, b) => Fresh(a, b)'
    BY <1>4, <1>6, <2>1, <2>5 DEF Fresh
  <2>12. Sees(a, b)'
    BY <1>4, <2>2, <2>6, <2>8, <2>9, <2>10, <2>11 DEF Sees, Found
  <2> QED BY <2>3, <2>4, <2>12
<1> QED BY <1>2, <1>7, <1>8, <1>9 DEF HeartbeatInv, Pairs

\* n comes to a round that it has not made yet, with its own signs all sent.
LEMMA InDetect ==
  ASSUME HeartbeatInv, NEW n \in up, Detect(n)
  PROVE  /\ n \in Nodes /\ TypeOK /\ up \subseteq Nodes /\ TypeOK'
         /\ pc[n] = "propagate" /\ n \notin ran
         /\ \A x \in Nodes : Signed(n, x) /\ Signed(n, x)'
         /\ ran' = ran \cup {n}
         /\ UNCHANGED <<up, msg, view, rsdco_hb_conn, todo>>
         /\ n \notin rsdco_hb_conn[n]
<1>1. n \in Nodes /\ TypeOK /\ up \subseteq Nodes
  BY DEF HeartbeatInv, TypeOK
<1>2. TypeOK'
  BY <1>1, RoundTypes
<1>3. pc[n] = "propagate" /\ todo[n] = {} /\ ran' = ran \cup {n}
      /\ UNCHANGED <<up, msg, view, rsdco_hb_conn, todo>>
  BY DEF Detect
<1> QED BY <1>1, <1>2, <1>3 DEF HeartbeatInv, Alone, Signed

\* Its score of a connection that it comes to, and the rounds that are left of
\* one that gives no sign.
LEMMA SeenScore ==
  ASSUME HeartbeatInv, NEW n \in up, Detect(n), NEW x \in SeenOf(n)
  PROVE  /\ x \notin changed'[n]
         /\ score'[n][x] = IF x \in changed[n]
                             THEN IF score[n][x] < SCORE_DEFAULT THEN score[n][x] + 1
                                                                 ELSE SCORE_DEFAULT
                             ELSE score[n][x] - 1
         /\ Rounds(n, x)' = Rounds(n, x) - 1
         /\ Away(n, x)' = Away(n, x)
<1>1. n \in Nodes /\ TypeOK /\ TypeOK' /\ n \notin ran /\ n \in ran'
  BY InDetect
<1>2. x \in Nodes
  BY <1>1, DetectDoes
<1>3. x \notin changed'[n]
  BY <1>1, DetectDoes DEF TypeOK
<1>4. score'[n][x] = NewScore(n, x)
  <2> DEFINE news == [m \in Nodes |-> IF m \in SeenOf(n) THEN NewScore(n, m) ELSE score[n][m]]
  <2>1. score' = [score EXCEPT ![n] = news]
    BY <1>1, DetectDoes
  <2>2. score'[n] = news
    <3> HIDE DEF news
    <3> QED BY <1>1, <2>1 DEF TypeOK
  <2> QED BY <1>2, <2>2
<1>5. score'[n][x] = IF x \in changed[n]
                       THEN IF score[n][x] < SCORE_DEFAULT THEN score[n][x] + 1
                                                           ELSE SCORE_DEFAULT
                       ELSE score[n][x] - 1
  BY <1>1, <1>2, <1>4, NewScoreIs
<1>6. Rounds(n, x)' = Rounds(n, x) - 1
  BY <1>1, <1>2, <1>3, <1>5, RoundsIs, RoundsIsNext, FewNodes
<1>7. Away(n, x)' = Rounds(n, x)' /\ Away(n, x) = Rounds(n, x) - 1
  BY <1>1 DEF Away
<1> QED BY <1>3, <1>5, <1>6, <1>7

\* What it does not come to stays, and so does what the others have.
LEMMA NotSeenScore ==
  ASSUME HeartbeatInv, NEW n \in up, Detect(n), NEW a \in Nodes, NEW x \in Nodes,
         a # n \/ x \notin SeenOf(n)
  PROVE  /\ x \in changed'[a] <=> x \in changed[a]
         /\ score'[a][x] = score[a][x]
         /\ Rounds(a, x)' = Rounds(a, x)
         /\ a # n => Away(a, x)' = Away(a, x)
<1>1. n \in Nodes /\ TypeOK /\ ran' = ran \cup {n}
  BY InDetect
<1>2. x \in changed'[a] <=> x \in changed[a]
  BY <1>1, DetectDoes DEF TypeOK
<1>3. score'[a][x] = score[a][x]
  <2> DEFINE news == [m \in Nodes |-> IF m \in SeenOf(n) THEN NewScore(n, m) ELSE score[n][m]]
  <2>1. score' = [score EXCEPT ![n] = news]
    BY <1>1, DetectDoes
  <2>2. CASE a # n
    <3> HIDE DEF news
    <3> QED BY <1>1, <2>1, <2>2 DEF TypeOK
  <2>3. CASE a = n
    <3>1. score'[n] = news
      <4> HIDE DEF news
      <4> QED BY <1>1, <2>1 DEF TypeOK
    <3> QED BY <2>3, <3>1
  <2> QED BY <2>2, <2>3
<1>4. Rounds(a, x)' = Rounds(a, x)
  BY <1>2, <1>3 DEF Rounds
<1>5. a # n => Away(a, x)' = Away(a, x)
  BY <1>1, <1>4 DEF Away
<1> QED BY <1>2, <1>3, <1>4, <1>5

\* Only a crashed node is found lost.
LEMMA LostIsDown ==
  ASSUME HeartbeatInv, NEW n \in up, Detect(n), NEW b \in up \ {n}
  PROVE  LostOf(n) \cap up = {}
<1>1. n \in Nodes /\ TypeOK /\ up \subseteq Nodes /\ n \notin ran /\ n \notin rsdco_hb_conn[n]
  BY InDetect
<1>2. ASSUME NEW x \in up, x \in LostOf(n) PROVE FALSE
  <2>1. x # n /\ x \in Nodes /\ x \notin changed[n] /\ score[n][x] < 0
    BY <1>1, <1>2 DEF LostOf
  <2>2. Sees(n, x) /\ Knows(x)
    BY <2>1 DEF HeartbeatInv, Pairs
  <2>3. ~ Found(n)
    BY <1>1, <2>1, <2>2, RoundsIs DEF Sees, Fresh
  <2>4. Found(x)
    BY <1>1, <2>1, <2>2, <2>3, FewNodes, RoundsIs DEF Sees, Steady
  <2>5. PICK d \in Nodes : d \notin up
    BY <2>2, <2>4 DEF Knows, Found
  <2>6. Rounds(n, d) < Rounds(n, x)
    BY <2>2, <2>3, <2>4, <2>5 DEF Sees
  <2>7. Rounds(n, x) = score[n][x] + 2 /\ score[n][x] \in Int
    <3>1. /\ score[n][x] \in -1 .. SCORE_DEFAULT
          /\ Rounds(n, x) = IF x \in changed[n]
                             THEN IF score[n][x] < SCORE_DEFAULT THEN score[n][x] + 4
                                                                 ELSE SCORE_DEFAULT + 3
                             ELSE score[n][x] + 2
      BY <1>1, <2>1, RoundsIs
    <3> QED BY <2>1, <3>1, FewNodes
  <2>8. Rounds(n, d) \in Nat \ {0}
    BY <1>1, RoundsIs
  <2> QED BY <2>1, <2>6, <2>7, <2>8
<1> QED BY <1>2

\* Nothing is lost in the round: how n sees b.
LEMMA DetectNothing ==
  ASSUME HeartbeatInv, NEW n \in up, Detect(n), LostOf(n) = {}, NEW b \in up \ {n}
  PROVE  Sees(n, b)'
<1>1. /\ n \in Nodes /\ b \in Nodes /\ TypeOK /\ TypeOK' /\ up' = up
      /\ pc[n] = "propagate" /\ n \notin ran /\ n \in ran'
  BY InDetect
<1>2. Knows(n) /\ Sees(n, b)
  BY DEF HeartbeatInv, Pairs
<1>3. dead' = dead
  BY <1>1, DetectDoes
<1>4. SeenOf(n) = rsdco_hb_conn[n] /\ b \in SeenOf(n)
  BY <1>1, <1>2 DEF SeenOf, Knows, Running
<1>5. Signed(b, n)' => Signed(b, n)
  BY <1>1, DetectDoes, InDetect DEF Signed, TypeOK
<1>6. Signed(b, n)' => b \in changed[n]
  BY <1>1, <1>2, <1>5 DEF Sees
<1>7. score[n][b] \in -1 .. SCORE_DEFAULT /\ SCORE_DEFAULT \in Nat
  BY <1>1, RoundsIs, FewNodes
<1>8. /\ b \notin changed'[n]
      /\ score'[n][b] = IF b \in changed[n]
                          THEN IF score[n][b] < SCORE_DEFAULT THEN score[n][b] + 1
                                                              ELSE SCORE_DEFAULT
                          ELSE score[n][b] - 1
  BY <1>4, SeenScore
<1>9. CASE Found(n)
  <2>1. Fresh(n, b)'
    BY <1>6, <1>7, <1>8, <1>1 DEF Fresh
  <2> QED BY <1>1, <1>3, <1>9, <2>1 DEF Sees, Found
<1>10. CASE ~ Found(n) /\ Found(b)
  <2>1. rsdco_hb_conn[n] = Nodes \ {n}
    BY <1>2, <1>10 DEF Knows
  <2>2. ASSUME NEW d \in Nodes \ up PROVE Rounds(n, d)' < Rounds(n, b)'
    <3>1. d \in SeenOf(n)
      BY <1>4, <2>1, <2>2
    <3>2. Rounds(n, d)' = Rounds(n, d) - 1 /\ Rounds(n, b)' = Rounds(n, b) - 1
      BY <1>4, <3>1, SeenScore
    <3>3. Rounds(n, d) \in Nat /\ Rounds(n, b) \in Nat
      BY <1>1, RoundsIs
    <3>4. Rounds(n, d) < Rounds(n, b)
      BY <1>2, <1>10 DEF Sees
    <3> QED BY <3>2, <3>3, <3>4
  <2> QED BY <1>1, <1>3, <1>10, <2>2 DEF Sees, Found
<1>11. CASE ~ Found(n) /\ ~ Found(b)
  <2>1. rsdco_hb_conn[n] = Nodes \ {n}
    BY <1>2, <1>11 DEF Knows
  <2>2. Steady(n, b)
    BY <1>2, <1>11 DEF Sees
  <2>3. Steady(n, b)'
    BY <1>1, <1>6, <1>7, <1>8, <2>2 DEF Steady
  <2>4. ASSUME NEW d \in Nodes \ up PROVE Away(n, d)' <= Away(b, d)' + 2
    <3>1. d \in SeenOf(n)
      BY <1>4, <2>1, <2>4
    <3>2. Away(n, d)' = Away(n, d)
      BY <3>1, SeenScore
    <3>3. Away(b, d)' = Away(b, d)
      BY <1>1, NotSeenScore
    <3>4. Away(n, d) <= Away(b, d) + 2
      BY <1>2, <1>11, <2>4 DEF Sees
    <3> QED BY <3>2, <3>3, <3>4
  <2> QED BY <1>1, <1>3, <1>11, <2>3, <2>4 DEF Sees, Found
<1> QED BY <1>9, <1>10, <1>11

\* n finds the crash: how it sees b from now on.
LEMMA DetectLost ==
  ASSUME HeartbeatInv, NEW n \in up, Detect(n), LostOf(n) # {}, NEW b \in up \ {n}
  PROVE  /\ ~ Found(n) /\ dead'[n] = Nodes \ up /\ Found(n)'
         /\ dead'[b] = dead[b]
         /\ pc'[n] = "reconfigure" /\ exclude'[n] \in Nodes \ up
         /\ Sees(n, b)'
<1>1. /\ n \in Nodes /\ b \in Nodes /\ TypeOK /\ TypeOK' /\ up' = up /\ up \subseteq Nodes
      /\ pc[n] = "propagate" /\ n \notin ran /\ n \in ran'
  BY InDetect
<1>2. Knows(n) /\ Sees(n, b)
  BY DEF HeartbeatInv, Pairs
<1>3. PICK l \in Nodes \ up : l = Min(LostOf(n)) /\ l \in LostOf(n)
  BY <1>1, DetectDoes, LostIsDown
<1>4. /\ pc' = [pc EXCEPT ![n] = "reconfigure"]
      /\ dead' = [dead EXCEPT ![n] = dead[n] \cup {l}]
      /\ exclude' = [exclude EXCEPT ![n] = l]
  BY <1>1, <1>3, DetectDoes
<1>5. ~ Found(n)
  BY <1>1, <1>2, <1>3 DEF Knows, LostOf
<1>6. Nodes = {n, b, l}
  BY <1>1, <1>3, OneLost
<1>7. dead'[n] = Nodes \ up /\ Found(n)'
  BY <1>1, <1>3, <1>4, <1>5, <1>6 DEF Found, TypeOK
<1>8. dead'[b] = dead[b] /\ pc'[n] = "reconfigure" /\ exclude'[n] \in Nodes \ up
  BY <1>1, <1>3, <1>4 DEF TypeOK
<1>9. Signed(b, n)' => b \in changed[n]
  <2>1. Signed(b, n)' => Signed(b, n)
    BY <1>1, <1>4, InDetect DEF Signed, TypeOK
  <2> QED BY <1>1, <1>2, <2>1 DEF Sees
<1>10. Fresh(n, b)'
  <2>1. CASE b \in SeenOf(n)
    <3>1. score'[n][b] = IF b \in changed[n]
                          THEN IF score[n][b] < SCORE_DEFAULT THEN score[n][b] + 1
                                                              ELSE SCORE_DEFAULT
                          ELSE score[n][b] - 1
      BY <2>1, SeenScore
    <3>2. score[n][b] \in -1 .. SCORE_DEFAULT /\ SCORE_DEFAULT \in Nat
      BY <1>1, RoundsIs, FewNodes
    <3> QED BY <1>1, <1>9, <3>1, <3>2 DEF Fresh
  <2>2. CASE b \notin SeenOf(n)
    <3>1. b \in changed'[n] <=> b \in changed[n]
      BY <1>1, <2>2, NotSeenScore
    <3> QED BY <1>1, <1>9, <3>1 DEF Fresh
  <2> QED BY <2>1, <2>2
<1> QED BY <1>1, <1>5, <1>7, <1>8, <1>10 DEF Sees

\* How a sees n, which makes its round.
LEMMA DetectSeen ==
  ASSUME HeartbeatInv, NEW n \in up, Detect(n), NEW a \in up \ {n}
  PROVE  Sees(a, n)'
<1>1. /\ n \in Nodes /\ a \in Nodes /\ TypeOK /\ TypeOK' /\ up' = up /\ up \subseteq Nodes
      /\ pc[n] = "propagate" /\ n \notin ran /\ ran' = ran \cup {n}
      /\ Signed(n, a) /\ Signed(n, a)'
  BY InDetect
<1>2. Knows(n) /\ Sees(n, a) /\ Knows(a) /\ Sees(a, n)
  BY DEF HeartbeatInv, Pairs
<1>3. /\ n \in changed'[a] <=> n \in changed[a]
      /\ score'[a][n] = score[a][n]
      /\ Rounds(a, n)' = Rounds(a, n)
      /\ \A d \in Nodes : Rounds(a, d)' = Rounds(a, d) /\ Away(a, d)' = Away(a, d)
  BY <1>1, NotSeenScore
<1>4. a \in ran' <=> a \in ran
  BY <1>1
<1>5. Steady(a, n) => Steady(a, n)'
  BY <1>1, <1>3, <1>4 DEF Steady
<1>6. Fresh(a, n) => Fresh(a, n)'
  BY <1>1, <1>3, <1>4 DEF Fresh
<1>7. a \notin ran' => n \in changed'[a]
  BY <1>1, <1>2, <1>3, <1>4 DEF Sees
<1>8. CASE LostOf(n) = {}
  <2>1. dead' = dead
    BY <1>1, <1>8, DetectDoes
  <2>2. CASE Found(a) \/ Found(n)
    BY <1>1, <1>2, <1>3, <1>6, <1>7, <2>1, <2>2 DEF Sees, Found
  <2>3. CASE ~ Found(a) /\ ~ Found(n)
    <3>1. ASSUME NEW d \in Nodes \ up PROVE Away(a, d)' <= Away(n, d)' + 2
      <4>1. d \in SeenOf(n)
        BY <1>1, <1>2, <1>8, <2>3, <3>1 DEF SeenOf, Knows
      <4>2. Away(n, d)' = Away(n, d)
        BY <4>1, SeenScore
      <4>3. Away(a, d) <= Away(n, d) + 2
        BY <1>2, <2>3, <3>1 DEF Sees
      <4> QED BY <1>3, <4>2, <4>3
    <3> QED BY <1>1, <1>2, <1>5, <1>7, <2>1, <2>3, <3>1 DEF Sees, Found
  <2> QED BY <2>2, <2>3
<1>9. CASE LostOf(n) # {}
  <2>1. ~ Found(n) /\ Found(n)' /\ dead'[a] = dead[a]
    BY <1>9, DetectLost
  <2>2. CASE Found(a)
    BY <1>2, <1>6, <1>7, <2>1, <2>2 DEF Sees, Found
  <2>3. CASE ~ Found(a)
    <3>1. PICK l \in Nodes \ up : l \in LostOf(n)
      BY <1>1, <1>9, DetectDoes, LostIsDown
    <3>2. Nodes = {n, a, l}
      BY <1>1, <3>1, OneLost
    <3>3. Rounds(n, l) = 1
      <4>1. l \notin changed[n] /\ score[n][l] < 0
        BY <3>1 DEF LostOf
      <4>2. /\ score[n][l] \in -1 .. SCORE_DEFAULT
            /\ Rounds(n, l) = IF l \in changed[n]
                               THEN IF score[n][l] < SCORE_DEFAULT THEN score[n][l] + 4
                                                                   ELSE SCORE_DEFAULT + 3
                               ELSE score[n][l] + 2
        BY <1>1, <3>1, RoundsIs
      <4> QED BY <4>1, <4>2, FewNodes
    <3>4. Away(n, l) = 0
      BY <1>1, <3>3 DEF Away
    <3>5. Away(a, l) <= 2 /\ Steady(a, n)
      BY <1>2, <2>1, <2>3, <3>1, <3>4 DEF Sees
    <3>6. /\ score[a][n] \in -1 .. SCORE_DEFAULT
          /\ Rounds(a, n) = IF n \in changed[a]
                             THEN IF score[a][n] < SCORE_DEFAULT THEN score[a][n] + 4
                                                                 ELSE SCORE_DEFAULT + 3
                             ELSE score[a][n] + 2
      BY <1>1, RoundsIs
    <3>7. Rounds(a, l) \in Nat
      BY <1>1, <3>1, RoundsIs
    <3>8. CASE a \in ran
      <4>1. Rounds(a, l) <= 2
        BY <3>5, <3>8 DEF Away
      <4>2. Rounds(a, n) >= SCORE_DEFAULT + 2
        BY <1>1, <3>5, <3>6, <3>8, FewNodes DEF Steady
      <4>3. Rounds(a, l) < Rounds(a, n)
        BY <3>6, <3>7, <4>1, <4>2, FewNodes
      <4> QED BY <1>1, <1>3, <1>7, <2>1, <2>3, <3>1, <3>2, <4>3 DEF Sees, Found
    <3>9. CASE a \notin ran
      <4>1. Rounds(a, l) <= 3
        BY <3>5, <3>7, <3>9 DEF Away
      <4>2. n \in changed[a]
        BY <1>3, <1>4, <1>7, <3>9
      <4>3. Rounds(a, n) = SCORE_DEFAULT + 3
        BY <3>5, <3>6, <4>2, FewNodes DEF Steady
      <4>4. Rounds(a, l) < Rounds(a, n)
        BY <3>7, <4>1, <4>3, FewNodes
      <4> QED BY <1>1, <1>3, <1>7, <2>1, <2>3, <3>1, <3>2, <4>4 DEF Sees, Found
    <3> QED BY <3>8, <3>9
  <2> QED BY <2>2, <2>3
<1> QED BY <1>8, <1>9

LEMMA DetectKeeps ==
  ASSUME HeartbeatInv, NEW n \in up, Detect(n)
  PROVE  HeartbeatInv'
<1>1. /\ n \in Nodes /\ TypeOK /\ TypeOK' /\ up' = up /\ up \subseteq Nodes
      /\ pc[n] = "propagate" /\ n \notin ran /\ ran' = ran \cup {n}
      /\ UNCHANGED <<msg, view, rsdco_hb_conn, todo>>
      /\ n \notin rsdco_hb_conn[n]
  BY InDetect
<1>2. pc'[n] \in {"tick", "reconfigure"} /\ \A x \in Nodes \ {n} : pc'[x] = pc[x]
  BY <1>1, DetectDoes DEF TypeOK
<1>3. \A x \in Nodes \ {n} : dead'[x] = dead[x] /\ exclude'[x] = exclude[x]
  <2>1. CASE LostOf(n) = {}
    <3>1. dead' = dead /\ exclude' = exclude
      BY <1>1, <2>1, DetectDoes
    <3> QED BY <3>1
  <2>2. CASE LostOf(n) # {}
    <3> DEFINE l == Min(LostOf(n))
    <3>1. /\ dead' = [dead EXCEPT ![n] = dead[n] \cup {l}]
          /\ exclude' = [exclude EXCEPT ![n] = l]
      BY <1>1, <2>2, DetectDoes
    <3> HIDE DEF l
    <3> QED BY <1>1, <3>1 DEF TypeOK
  <2> QED BY <2>1, <2>2
<1>4. Alone'
  <2>1. n \notin dead'[n]
    <3>1. LostOf(n) # {} => Min(LostOf(n)) \in rsdco_hb_conn[n]
      BY <1>1, DetectDoes DEF LostOf
    <3> QED BY SMTT(60), <1>1, <3>1, DetectDoes DEF TypeOK, HeartbeatInv, Alone
  <2> QED BY <1>1, <1>2, <1>3, <2>1 DEF HeartbeatInv, Alone
<1>5. StartInv'
  BY <1>1, <1>2, StartFrame DEF Starting
<1>6. ASSUME NEW a \in up', NEW b \in up', a # b
      PROVE  Knows(a)' /\ Sees(a, b)' /\ (a < b => Handshake(a, b)')
  <2>1. a \in Nodes /\ b \in Nodes /\ a \in up /\ b \in up
    BY <1>1, <1>6
  <2>2. Knows(a) /\ Knows(b) /\ Sees(a, b) /\ (a < b => Handshake(a, b))
    BY <1>6, <2>1 DEF HeartbeatInv, Pairs
  <2>3. CASE a # n /\ b # n
    <3>1. Knows(a)'
      BY <1>1, <1>2, <1>3, <2>1, <2>2, <2>3 DEF Knows, Found, Starting, Running
    <3>2. Sees(a, b)'
      <4>1. \A x \in {a, b}, y \in Nodes : Rounds(x, y)' = Rounds(x, y) /\ Away(x, y)' = Away(x, y)
        BY <2>1, <2>3, NotSeenScore
      <4>2. (b \in changed'[a] <=> b \in changed[a]) /\ score'[a][b] = score[a][b]
        BY <2>1, <2>3, NotSeenScore
      <4>3. (a \in ran' <=> a \in ran) /\ (Signed(b, a)' <=> Signed(b, a))
        BY <1>1, <1>2, <2>1, <2>3 DEF Signed
      <4>4. (Steady(a, b) => Steady(a, b)') /\ (Fresh(a, b) => Fresh(a, b)')
        BY <4>2, <4>3 DEF Steady, Fresh
      <4>5. (Found(a)' <=> Found(a)) /\ (Found(b)' <=> Found(b))
        BY <1>3, <2>1, <2>3 DEF Found
      <4> QED BY <1>1, <2>2, <4>1, <4>2, <4>3, <4>4, <4>5 DEF Sees
    <3>3. a < b => Handshake(a, b)'
      BY <1>1, <1>2, <1>3, <2>1, <2>2, <2>3 DEF Handshake, Freed, Found, Running
    <3> QED BY <3>1, <3>2, <3>3
  <2>4. CASE LostOf(n) = {} /\ (a = n \/ b = n)
    <3>1. pc'[n] = "tick" /\ dead' = dead /\ exclude' = exclude
      BY <1>1, <2>4, DetectDoes DEF TypeOK
    <3>2. Knows(a)'
      BY <1>1, <1>2, <2>1, <2>2, <3>1 DEF Knows, Found, Starting, Running
    <3>3. Sees(a, b)'
      BY <1>6, <2>1, <2>4, DetectNothing, DetectSeen
    <3>4. a < b => Handshake(a, b)'
      BY <1>1, <1>2, <2>1, <2>2, <2>4, <3>1 DEF Handshake, Freed, Found, Running
    <3> QED BY <3>2, <3>3, <3>4
  <2>5. CASE LostOf(n) # {} /\ (a = n \/ b = n)
    <3>1. PICK c \in up \ {n} : {a, b} = {n, c}
      BY <1>6, <2>1, <2>5
    <3>2. /\ ~ Found(n) /\ dead'[n] = Nodes \ up /\ Found(n)'
          /\ pc'[n] = "reconfigure" /\ exclude'[n] \in Nodes \ up
      BY <2>5, <3>1, DetectLost
    <3>3. Knows(a)'
      <4>1. CASE a = n
        BY <1>1, <2>2, <3>2, <4>1 DEF Knows, Starting
      <4>2. CASE a # n
        BY <1>1, <1>2, <1>3, <2>1, <2>2, <4>2 DEF Knows, Found, Starting, Running
      <4> QED BY <4>1, <4>2
    <3>4. Sees(a, b)'
      BY <1>6, <2>1, <2>5, DetectLost, DetectSeen
    <3>5. ASSUME a < b PROVE Handshake(a, b)'
      <4>1. CASE a = n
        <5>1. b # n /\ pc'[b] = pc[b] /\ dead'[b] = dead[b]
          BY <1>2, <1>3, <1>6, <2>1, <4>1
        <5> QED BY <1>1, <2>2, <3>2, <3>5, <4>1, <5>1 DEF Handshake, Freed, Found, Running
      <4>2. CASE b = n
        <5>1. a # n /\ pc'[a] = pc[a] /\ dead'[a] = dead[a]
          BY <1>2, <1>3, <1>6, <2>1, <4>2
        <5> QED BY <1>1, <2>2, <3>2, <3>5, <4>2, <5>1 DEF Handshake, Freed, Found, Running
      <4> QED BY <2>5, <4>1, <4>2
    <3> QED BY <3>3, <3>4, <3>5
  <2> QED BY <2>3, <2>4, <2>5
<1> QED BY <1>1, <1>4, <1>5, <1>6 DEF HeartbeatInv, Pairs

----------------------------------------------------------------------------
(* The handshake                                                           *)

\* What a step of the handshake leaves alone, and the pairs that it is about:
\* n and the one other node that is up.
LEMMA HandshakeKeeps ==
  ASSUME HeartbeatInv, NEW n \in up, ~ Starting(n), ~ Running(n), TypeOK',
         UNCHANGED <<up, ran, changed, score, dead>>,
         pc'[n] \notin {"start", "start_peers", "propagate"},
         n \notin rsdco_hb_conn'[n],
         \A x \in Nodes \ {n} :
           /\ pc'[x] = pc[x] /\ todo'[x] = todo[x] /\ view'[x] = view[x]
           /\ exclude'[x] = exclude[x] /\ rsdco_hb_conn'[x] = rsdco_hb_conn[x],
         \A b \in up \ {n} :
           /\ rsdco_hb_conn'[n] = IF pc'[n] = "reconfigure" THEN Nodes \ {n} ELSE {b}
           /\ pc'[n] = "reconfigure" => exclude'[n] \in Nodes \ up
           /\ n < b => Handshake(n, b)'
           /\ b < n => Handshake(b, n)'
  PROVE  HeartbeatInv'
<1>1. n \in Nodes /\ up \subseteq Nodes
  BY DEF HeartbeatInv, TypeOK
<1>2. Alone'
  BY <1>1 DEF HeartbeatInv, Alone
<1>3. StartInv'
  <2>1. \A x \in up : ~ Starting(x)
    BY InHandshake
  <2>2. ~ Starting(n)'
    BY DEF Starting
  <2> QED BY <2>1, <2>2, StartFrame
<1>4. ASSUME NEW a \in up', NEW b \in up', a # b
      PROVE  Knows(a)' /\ Sees(a, b)' /\ (a < b => Handshake(a, b)')
  <2>1. a \in Nodes /\ b \in Nodes /\ a \in up /\ b \in up
    BY <1>1, <1>4
  <2>2. PICK c \in up \ {n} : {a, b} = {n, c}
    <3>1. CASE a = n
      BY <1>4, <2>1, <3>1
    <3>2. CASE a # n
      <4>1. up = {n, a}
        BY <2>1, <3>2, InHandshake
      <4> QED BY <1>4, <2>1, <3>2, <4>1
    <3> QED BY <3>1, <3>2
  <2>3. up = {n, c} /\ Found(n) /\ dead[n] = Nodes \ up
    BY InHandshake
  <2>4. Knows(a) /\ Sees(a, b)
    BY <1>4, <2>1 DEF HeartbeatInv, Pairs
  <2>5. Knows(a)'
    <3>1. CASE a = n
      <4>1. up \ {n} = {c}
        BY <2>3
      <4> QED BY <2>3, <3>1, <4>1 DEF Knows, Found, Starting
    <3>2. CASE a # n
      <4>1. pc'[a] = pc[a] /\ exclude'[a] = exclude[a] /\ rsdco_hb_conn'[a] = rsdco_hb_conn[a]
        BY <2>1, <3>2
      <4> QED BY <2>4, <4>1 DEF Knows, Found, Starting, Running
    <3> QED BY <3>1, <3>2
  <2>6. Sees(a, b)'
    <3>1. Signed(b, a)' => Signed(b, a)
      <4>1. CASE b = n
        BY <4>1 DEF Signed
      <4>2. CASE b # n
        <5>1. pc'[b] = pc[b] /\ todo'[b] = todo[b]
          BY <2>1, <4>2
        <5> QED BY <5>1 DEF Signed
      <4> QED BY <4>1, <4>2
    <3> QED BY <2>4, <3>1, SeesFrame
  <2>7. ASSUME a < b PROVE Handshake(a, b)'
    <3>1. CASE a = n
      <4>1. b \in up \ {n}
        BY <1>4, <2>1, <3>1
      <4> QED BY <2>7, <3>1, <4>1
    <3>2. CASE b = n
      <4>1. a \in up \ {n}
        BY <1>4, <2>1, <3>2
      <4> QED BY <2>7, <3>2, <4>1
    <3> QED BY <2>2, <3>1, <3>2
  <2> QED BY <2>5, <2>6, <2>7
<1> QED BY <1>2, <1>3, <1>4 DEF HeartbeatInv, Pairs

\* The leader, of two, is the lesser one.
LEMMA LowestIs ==
  ASSUME HeartbeatInv, NEW n \in up, ~ Starting(n), ~ Running(n), NEW b \in up \ {n}
  PROVE  rsdco_is_lowest_alive(n) <=> n < b
<1>1. up \subseteq Nodes /\ n \in Nodes /\ b \in Nodes
  BY DEF HeartbeatInv, TypeOK
<1>2. Nodes \ dead[n] = {n, b}
  <2>1. dead[n] = Nodes \ up /\ up = {n, b}
    BY InHandshake
  <2> QED BY <1>1, <2>1
<1>3. Min({n, b}) \in {n, b} /\ Min({n, b}) <= n /\ Min({n, b}) <= b
  BY <1>1, MinOfNodes
<1> QED BY <1>1, <1>2, <1>3, FewNodes DEF rsdco_is_lowest_alive

LEMMA ReconfigureKeeps ==
  ASSUME HeartbeatInv, NEW n \in up, Reconfigure(n)
  PROVE  HeartbeatInv'
<1>1. n \in Nodes /\ TypeOK /\ up \subseteq Nodes /\ n \notin rsdco_hb_conn[n]
  BY DEF HeartbeatInv, TypeOK, Alone
<1>2. TypeOK'
  BY <1>1, HandshakeTypes
<1>3. pc[n] = "reconfigure" /\ ~ Starting(n) /\ ~ Running(n)
  BY DEF Reconfigure, Starting, Running
<1>4. UNCHANGED <<up, ran, changed, score, dead, exclude, view>>
  BY DEF Reconfigure, slotVars, scoreVars
<1>5. rsdco_hb_conn'[n] = rsdco_hb_conn[n] \ {exclude[n]}
      /\ \A x \in Nodes \ {n} : rsdco_hb_conn'[x] = rsdco_hb_conn[x]
  BY <1>1 DEF Reconfigure, rsdco_conn_remove, TypeOK
<1>6. /\ pc'[n] \in {"gather", "wait"}
      /\ \A x \in Nodes \ {n} : pc'[x] = pc[x] /\ todo'[x] = todo[x] /\ msg'[x] = msg[x]
  BY <1>1 DEF Reconfigure, Goto, TypeOK
<1>7. ASSUME NEW b \in up \ {n}
      PROVE  /\ rsdco_hb_conn'[n] = {b}
             /\ n < b => Handshake(n, b)'
             /\ b < n => Handshake(b, n)'
  <2>1. Knows(n) /\ (n < b => Handshake(n, b)) /\ (b < n => Handshake(b, n))
    BY <1>7 DEF HeartbeatInv, Pairs
  <2>2. Found(n) /\ up = {n, b} /\ \E d \in Nodes : Nodes = {n, b, d} /\ d \notin up
    BY <1>3, InHandshake
  <2>3. rsdco_hb_conn'[n] = {b}
    <3>1. rsdco_hb_conn[n] = Nodes \ {n} /\ exclude[n] \in Nodes \ up
      BY <1>3, <2>1, <2>2 DEF Knows
    <3> QED BY <1>5, <2>2, <3>1
  <2>4. ASSUME n < b PROVE Handshake(n, b)'
    <3>1. pc'[n] = "gather" /\ todo'[n] = {b} /\ msg' = msg
      <4>1. rsdco_is_lowest_alive(n)
        BY <1>3, <2>4, LowestIs
      <4> QED BY <1>1, <2>3, <4>1 DEF Reconfigure, Goto, TypeOK
    <3>2. msg[n] = "RELEASE"
      BY <1>1, <1>3, <2>1, <2>4 DEF Handshake, TypeOK
    <3>3. pc'[b] = pc[b] /\ dead' = dead
      BY <1>1, <1>4, <1>6
    <3> QED BY <1>3, <2>1, <2>4, <3>1, <3>2, <3>3 DEF Handshake, Freed, Found, Running
  <2>5. ASSUME b < n PROVE Handshake(b, n)'
    <3>1. pc'[n] = "wait" /\ msg'[n] = "WAIT"
      <4>1. ~ rsdco_is_lowest_alive(n)
        BY <1>1, <1>3, <2>5, LowestIs, FewNodes
      <4> QED BY <1>1, <4>1 DEF Reconfigure, Goto, TypeOK
    <3>2. pc'[b] = pc[b] /\ todo'[b] = todo[b] /\ msg'[b] = msg[b] /\ dead' = dead
      BY <1>1, <1>4, <1>6
    <3> QED BY <1>3, <2>1, <2>5, <3>1, <3>2 DEF Handshake, Freed, Found, Running
  <2> QED BY <2>3, <2>4, <2>5
<1>8. n \notin rsdco_hb_conn'[n] /\ pc'[n] \notin {"start", "start_peers", "propagate", "reconfigure"}
  BY <1>1, <1>5, <1>6
<1> QED BY <1>2, <1>3, <1>4, <1>5, <1>6, <1>7, <1>8, HandshakeKeeps

LEMMA GatherKeeps ==
  ASSUME HeartbeatInv, NEW n \in up, Gather(n)
  PROVE  HeartbeatInv'
<1>1. n \in Nodes /\ TypeOK /\ up \subseteq Nodes /\ n \notin rsdco_hb_conn[n]
  BY DEF HeartbeatInv, TypeOK, Alone
<1>2. TypeOK'
  BY <1>1, HandshakeTypes
<1>3. pc[n] = "gather" /\ ~ Starting(n) /\ ~ Running(n)
  BY DEF Gather, Starting, Running
<1>4. UNCHANGED <<up, ran, changed, score, dead, exclude, view, rsdco_hb_conn>>
  BY DEF Gather, slotVars, scoreVars
<1>5. /\ pc'[n] \in {"gather", "release"}
      /\ \A x \in Nodes \ {n} : pc'[x] = pc[x] /\ todo'[x] = todo[x] /\ msg'[x] = msg[x]
  BY <1>1, <1>3 DEF Gather, Goto, TypeOK
<1>6. ASSUME NEW b \in up \ {n}
      PROVE  /\ rsdco_hb_conn'[n] = {b}
             /\ n < b => Handshake(n, b)'
             /\ b < n => Handshake(b, n)'
  <2>1. Knows(n) /\ (n < b => Handshake(n, b)) /\ (b < n => Handshake(b, n))
    BY <1>6 DEF HeartbeatInv, Pairs
  <2>2. Found(n) /\ up = {n, b}
    BY <1>3, InHandshake
  <2>3. rsdco_hb_conn[n] = {b}
    BY <1>3, <2>1, <2>2 DEF Knows
  <2>4. n < b /\ n # b
    <3>1. ~ (b < n)
      BY <1>3, <2>1 DEF Handshake
    <3> QED BY <1>1, <3>1, FewNodes
  <2>5. Handshake(n, b)
    BY <2>1, <2>4
  <2>6. pc'[b] = pc[b] /\ msg'[b] = msg[b] /\ dead' = dead
    BY <1>1, <1>4, <1>5
  <2>7. msg \in [Nodes -> {"WAIT", "RELEASE"}] /\ todo \in [Nodes -> SUBSET Nodes]
        /\ pc[n] = "gather"
    BY <1>1, <1>3 DEF TypeOK
  <2>8. CASE todo[n] = {}
    <3>1. pc'[n] = "release" /\ msg'[n] = "RELEASE" /\ todo'[n] = {b}
      BY <1>1, <2>3, <2>8 DEF Gather, Goto, TypeOK
    <3>2. msg[n] = "WAIT" /\ pc[b] = "wait" /\ msg[b] = "WAIT"
      BY <1>1, <1>3, <2>5, <2>7, <2>8 DEF Handshake
    <3>3. Handshake(n, b)'
      BY <2>5, <2>6, <3>1, <3>2 DEF Handshake, Freed, Found, Running
    <3> QED BY <1>1, <1>4, <2>3, <2>4, <3>3, FewNodes
  <2>9. CASE todo[n] # {} /\ msg[n] = "WAIT"
    <3>1. pc' = pc /\ msg' = msg /\ todo'[n] \subseteq todo[n]
      BY <1>1, <2>9 DEF Gather, TypeOK
    <3>2. Handshake(n, b)'
      BY <1>3, <2>5, <2>6, <2>9, <3>1 DEF Handshake, Freed, Found, Running
    <3> QED BY <1>1, <1>4, <2>3, <2>4, <3>2, FewNodes
  <2>10. CASE todo[n] # {} /\ msg[n] # "WAIT"
    <3>1. msg[n] = "RELEASE" /\ todo[n] = {b}
      BY <1>1, <1>3, <2>5, <2>7, <2>10 DEF Handshake
    <3>2. Min(todo[n]) = b
      BY <1>1, <3>1, MinOfNodes
    <3>3. pc' = pc /\ todo' = todo /\ msg'[n] = msg[b]
      BY <1>1, <2>10, <3>2 DEF Gather, TypeOK
    <3>4. msg[b] = "WAIT" => pc[b] = "wait"
      <4>1. ~ Starting(b)
        BY <1>3, InHandshake
      <4> QED BY <2>5, <4>1 DEF Handshake, Starting
    <3>5. Handshake(n, b)'
      <4>1. msg[b] \in {"WAIT", "RELEASE"}
        BY <1>1, <2>7
      <4> QED BY <1>3, <2>5, <2>6, <3>1, <3>3, <3>4, <4>1 DEF Handshake, Freed, Found, Running
    <3> QED BY <1>1, <1>4, <2>3, <2>4, <3>5, FewNodes
  <2> QED BY <2>8, <2>9, <2>10
<1>7. n \notin rsdco_hb_conn'[n] /\ pc'[n] \notin {"start", "start_peers", "propagate", "reconfigure"}
  BY <1>1, <1>4, <1>5
<1> QED BY <1>2, <1>3, <1>4, <1>5, <1>6, <1>7, HandshakeKeeps

LEMMA ReleaseKeeps ==
  ASSUME HeartbeatInv, NEW n \in up, Release(n)
  PROVE  HeartbeatInv'
<1>1. n \in Nodes /\ TypeOK /\ up \subseteq Nodes /\ n \notin rsdco_hb_conn[n]
  BY DEF HeartbeatInv, TypeOK, Alone
<1>2. TypeOK'
  BY <1>1, HandshakeTypes
<1>3. pc[n] = "release" /\ ~ Starting(n) /\ ~ Running(n)
  BY DEF Release, Starting, Running
<1>4. UNCHANGED <<up, ran, changed, score, dead, exclude, view, rsdco_hb_conn>>
  BY DEF Release, slotVars, scoreVars
<1>5. /\ pc'[n] \in {"release", "resume"}
      /\ \A x \in Nodes \ {n} : pc'[x] = pc[x] /\ todo'[x] = todo[x]
  BY <1>1, <1>3 DEF Release, Goto, TypeOK
<1>6. ASSUME NEW b \in up \ {n}
      PROVE  /\ rsdco_hb_conn'[n] = {b}
             /\ n < b => Handshake(n, b)'
             /\ b < n => Handshake(b, n)'
  <2>1. Knows(n) /\ (n < b => Handshake(n, b)) /\ (b < n => Handshake(b, n))
    BY <1>6 DEF HeartbeatInv, Pairs
  <2>2. Found(n) /\ up = {n, b}
    BY <1>3, InHandshake
  <2>3. rsdco_hb_conn[n] = {b}
    BY <1>3, <2>1, <2>2 DEF Knows
  <2>4. n < b /\ n # b
    <3>1. ~ (b < n)
      BY <1>3, <2>1 DEF Handshake
    <3> QED BY <1>1, <3>1, FewNodes
  <2>5. Handshake(n, b)
    BY <2>1, <2>4
  <2>6. pc'[b] = pc[b] /\ dead' = dead
    BY <1>1, <1>4, <1>5
  <2>7. msg \in [Nodes -> {"WAIT", "RELEASE"}] /\ todo \in [Nodes -> SUBSET Nodes]
    BY <1>1 DEF TypeOK
  <2>8. msg[n] = "RELEASE"
    BY <1>1, <1>3, <2>5, <2>7 DEF Handshake
  <2>9. CASE todo[n] = {}
    <3>1. pc'[n] = "resume" /\ msg' = msg /\ todo' = todo
      BY <1>1, <2>9 DEF Release, Goto, TypeOK
    <3>2. Handshake(n, b)'
      BY <1>3, <2>5, <2>6, <2>8, <2>9, <3>1 DEF Handshake, Freed, Found, Running
    <3> QED BY <1>1, <1>4, <2>3, <2>4, <3>2, FewNodes
  <2>10. CASE todo[n] # {}
    <3>1. todo[n] = {b} /\ pc[b] = "wait" /\ msg[b] = "WAIT"
      BY <1>3, <2>5, <2>10 DEF Handshake
    <3>2. Min(todo[n]) = b
      BY <1>1, <3>1, MinOfNodes
    <3>3. pc' = pc /\ todo'[n] = {} /\ msg' = [msg EXCEPT ![b] = "RELEASE"]
      BY <1>1, <2>8, <2>10, <3>1, <3>2 DEF Release, TypeOK
    <3>4. msg'[b] = "RELEASE" /\ msg'[n] = "RELEASE"
      BY <1>1, <2>7, <2>8, <3>3
    <3>5. Found(b)
      <4>1. Knows(b) /\ pc[b] = "wait"
        BY <3>1, <2>4 DEF HeartbeatInv, Pairs
      <4> QED BY <4>1 DEF Knows, Starting, Running
    <3>6. Handshake(n, b)'
      BY <1>3, <2>6, <3>1, <3>3, <3>4, <3>5 DEF Handshake, Freed, Found, Running
    <3> QED BY <1>1, <1>4, <2>3, <2>4, <3>6, FewNodes
  <2> QED BY <2>9, <2>10
<1>7. n \notin rsdco_hb_conn'[n] /\ pc'[n] \notin {"start", "start_peers", "propagate", "reconfigure"}
  BY <1>1, <1>4, <1>5
<1> QED BY <1>2, <1>3, <1>4, <1>5, <1>6, <1>7, HandshakeKeeps

LEMMA WaitForReleaseKeeps ==
  ASSUME HeartbeatInv, NEW n \in up, WaitForRelease(n)
  PROVE  HeartbeatInv'
<1>1. n \in Nodes /\ TypeOK /\ up \subseteq Nodes /\ n \notin rsdco_hb_conn[n]
  BY DEF HeartbeatInv, TypeOK, Alone
<1>2. TypeOK'
  BY <1>1, HandshakeTypes
<1>3. pc[n] = "wait" /\ msg[n] = "RELEASE" /\ ~ Starting(n) /\ ~ Running(n)
  BY DEF WaitForRelease, Starting, Running
<1>4. UNCHANGED <<up, ran, changed, score, dead, exclude, msg, view, rsdco_hb_conn, todo>>
  BY DEF WaitForRelease, slotVars, scoreVars, statVars
<1>5. pc'[n] = "resume" /\ \A x \in Nodes \ {n} : pc'[x] = pc[x]
  BY <1>1 DEF WaitForRelease, Goto, TypeOK
<1>6. ASSUME NEW b \in up \ {n}
      PROVE  /\ rsdco_hb_conn'[n] = {b}
             /\ n < b => Handshake(n, b)'
             /\ b < n => Handshake(b, n)'
  <2>1. Knows(n) /\ (n < b => Handshake(n, b)) /\ (b < n => Handshake(b, n))
    BY <1>6 DEF HeartbeatInv, Pairs
  <2>2. Found(n) /\ up = {n, b}
    BY <1>3, InHandshake
  <2>3. rsdco_hb_conn[n] = {b}
    BY <1>3, <2>1, <2>2 DEF Knows
  <2>4. ~ (n < b)
    BY <1>3, <2>1 DEF Handshake
  <2>5. ASSUME b < n PROVE Handshake(b, n)'
    <3>1. pc'[b] = pc[b]
      BY <1>1, <1>5
    <3> QED BY <1>3, <1>4, <1>5, <2>1, <2>2, <2>5, <3>1 DEF Handshake, Freed, Found, Running
  <2> QED BY <1>4, <2>3, <2>4, <2>5
<1>7. n \notin rsdco_hb_conn'[n] /\ pc'[n] \notin {"start", "start_peers", "propagate", "reconfigure"}
  BY <1>1, <1>4, <1>5
<1> QED BY <1>2, <1>3, <1>4, <1>5, <1>6, <1>7, HandshakeKeeps

LEMMA ResumeKeeps ==
  ASSUME HeartbeatInv, NEW n \in up, Resume(n)
  PROVE  HeartbeatInv'
<1>1. n \in Nodes /\ TypeOK /\ up \subseteq Nodes /\ n \notin rsdco_hb_conn[n]
  BY DEF HeartbeatInv, TypeOK, Alone
<1>2. TypeOK'
  BY <1>1, HandshakeTypes
<1>3. pc[n] = "resume" /\ ~ Starting(n) /\ ~ Running(n)
  BY DEF Resume, Starting, Running
<1>4. UNCHANGED <<up, ran, changed, score, dead, msg, rsdco_hb_conn, todo>>
  BY DEF Resume, slotVars, scoreVars
<1>5. /\ pc'[n] = "tick"
      /\ \A x \in Nodes \ {n} : pc'[x] = pc[x] /\ view'[x] = view[x] /\ exclude'[x] = exclude[x]
  BY <1>1 DEF Resume, Goto, TypeOK
<1>6. ASSUME NEW b \in up \ {n}
      PROVE  /\ rsdco_hb_conn'[n] = {b}
             /\ n < b => Handshake(n, b)'
             /\ b < n => Handshake(b, n)'
  <2>1. Knows(n) /\ (n < b => Handshake(n, b)) /\ (b < n => Handshake(b, n))
    BY <1>6 DEF HeartbeatInv, Pairs
  <2>2. Found(n) /\ up = {n, b}
    BY <1>3, InHandshake
  <2>3. rsdco_hb_conn[n] = {b}
    BY <1>3, <2>1, <2>2 DEF Knows
  <2>4. pc'[b] = pc[b]
    BY <1>1, <1>5
  <2>5. ASSUME n < b PROVE Handshake(n, b)'
    BY <1>3, <1>4, <1>5, <2>1, <2>2, <2>4, <2>5 DEF Handshake, Freed, Found, Running
  <2>6. ASSUME b < n PROVE Handshake(b, n)'
    BY <1>3, <1>4, <1>5, <2>1, <2>2, <2>4, <2>6 DEF Handshake, Freed, Found, Running
  <2> QED BY <1>4, <2>3, <2>5, <2>6
<1>7. n \notin rsdco_hb_conn'[n] /\ pc'[n] \notin {"start", "start_peers", "propagate", "reconfigure"}
  BY <1>1, <1>4, <1>5
<1> QED BY <1>2, <1>3, <1>4, <1>5, <1>6, <1>7, HandshakeKeeps

----------------------------------------------------------------------------
(* Time passes, a node crashes                                             *)

\* A slot ends with a round of every node that is about to run in the next.
LEMMA SlotEnds ==
  ASSUME HeartbeatInv, Slot, NEW a \in up, NEW b \in up, a # b
  PROVE  \/ ran = {}
         \/ /\ Found(a) => b \in ran
            /\ ~ Found(a) /\ ~ Found(b) => a \in ran /\ b \in ran
<1>1. a \in Nodes /\ b \in Nodes /\ up \subseteq Nodes /\ TypeOK
  BY DEF HeartbeatInv, TypeOK
<1>2. Waiting(a) /\ Waiting(b)
  BY DEF Slot
<1>3. Knows(a) /\ Knows(b)
  BY DEF HeartbeatInv, Pairs
<1>4. CASE Starting(a) \/ Starting(b)
  <2>1. PICK x \in {a, b} : Starting(x)
    BY <1>4
  <2>2. up = Nodes /\ 0 \in up /\ x \in up
    BY <2>1, FewNodes DEF HeartbeatInv, StartInv
  <2>3. pc[x] = "start" /\ msg[x] = "WAIT"
    BY <1>2, <2>1 DEF Waiting, Starting
  <2>4. Waiting(0)
    BY <2>2 DEF Slot
  <2>5. pc[0] # "start_peers"
    BY <2>4 DEF Waiting
  <2>6. pc[0] = "start"
    BY <2>2, <2>3, <2>5 DEF HeartbeatInv, StartInv
  <2> QED BY <2>2, <2>6 DEF HeartbeatInv, StartInv
<1>5. CASE ~ Starting(a) /\ ~ Starting(b)
  <2>1. ~ Found(b) => b \in ran
    BY <1>2, <1>3, <1>5 DEF Knows, Running, Starting, Waiting
  <2>2. ~ Found(a) => a \in ran
    BY <1>2, <1>3, <1>5 DEF Knows, Running, Starting, Waiting
  <2>3. ASSUME NEW x \in {a, b}, NEW y \in {a, b}, x < y, Found(x), Found(y)
        PROVE  x \in ran /\ y \in ran
    <3>1. Handshake(x, y) /\ Waiting(x) /\ Waiting(y) /\ ~ Starting(x) /\ ~ Starting(y)
      BY <1>1, <1>2, <1>5, <2>3, FewNodes DEF HeartbeatInv, Pairs
    <3>2. msg[x] \in {"WAIT", "RELEASE"} /\ msg[y] \in {"WAIT", "RELEASE"}
      BY <1>1, <2>3 DEF TypeOK
    <3>3. pc[x] # "gather"
      <4>1. SUFFICES ASSUME pc[x] = "gather" PROVE FALSE
        OBVIOUS
      <4>2. todo[x] # {} /\ msg[x] = "RELEASE" /\ (Min(todo[x]) \in up => msg[Min(todo[x])] = "RELEASE")
        BY <3>1, <4>1 DEF Waiting
      <4>3. todo[x] = {y}
        BY <3>1, <4>1, <4>2 DEF Handshake
      <4>4. Min(todo[x]) = y
        BY <1>1, <4>3, MinOfNodes
      <4>5. msg[y] = "RELEASE"
        BY <4>2, <4>4
      <4>6. pc[y] # "reconfigure"
        BY <3>1 DEF Waiting
      <4> QED BY <2>3, <3>1, <4>1, <4>5, <4>6 DEF Handshake, Freed, Running
    <3>4. pc[x] = "tick" /\ x \in ran
      BY <3>1, <3>3 DEF Waiting, Handshake, Starting
    <3>5. msg[y] = "RELEASE"
      BY <2>3, <3>1, <3>4 DEF Handshake, Freed, Running
    <3>6. pc[y] = "tick" /\ y \in ran
      BY <3>1, <3>5 DEF Waiting, Handshake, Starting
    <3> QED BY <3>4, <3>6
  <2>4. a < b \/ b < a
    BY <1>1, FewNodes
  <2> QED BY <2>1, <2>2, <2>3, <2>4
<1> QED BY <1>4, <1>5

LEMMA SlotKeeps ==
  ASSUME HeartbeatInv, Slot
  PROVE  HeartbeatInv'
<1>1. TypeOK /\ TypeOK'
  BY TypeStep DEF HeartbeatInv, Next
<1>2. /\ ran' = {}
      /\ UNCHANGED <<up, changed, score, dead, exclude, msg, view, rsdco_hb_conn, pc, todo>>
  BY DEF Slot, scoreVars, statVars
<1>3. Alone'
  BY <1>2 DEF HeartbeatInv, Alone
<1>4. StartInv'
  BY <1>2 DEF HeartbeatInv, StartInv, Starting
<1>5. ASSUME NEW a \in up', NEW b \in up', a # b
      PROVE  Knows(a)' /\ Sees(a, b)' /\ (a < b => Handshake(a, b)')
  <2>1. a \in Nodes /\ b \in Nodes /\ a \in up /\ b \in up
    BY <1>1, <1>2, <1>5 DEF TypeOK
  <2>2. Knows(a) /\ Sees(a, b) /\ (a < b => Handshake(a, b))
    BY <1>5, <2>1 DEF HeartbeatInv, Pairs
  <2>3. Knows(a)'
    BY <1>2, <2>2, KnowsFrame
  <2>4. a < b => Handshake(a, b)'
    BY <1>2, <2>2, HandshakeFrame
  <2>5. ~ Signed(b, a)'
    <3>1. pc'[b] # "propagate"
      BY <1>2, <2>1 DEF Slot, Waiting
    <3> QED BY <1>2, <3>1 DEF Signed
  <2>6. CASE ran = {}
    <3>1. Sees(a, b)'
      BY <1>2, <2>2, <2>5, <2>6, SeesFrame
    <3> QED BY <2>3, <2>4, <3>1
  <2>7. CASE ran # {}
    <3>1. /\ Found(a) => b \in ran
          /\ ~ Found(a) /\ ~ Found(b) => a \in ran /\ b \in ran
      BY <1>5, <2>1, <2>7, SlotEnds
    <3>2. b \in ran => Signed(b, a)
      BY DEF Signed
    <3>3. (Found(a)' <=> Found(a)) /\ (Found(b)' <=> Found(b))
      BY <1>2 DEF Found
    <3>4. Found(a) => Fresh(a, b)'
      BY <1>2, <2>2, <2>5, <3>1, <3>2 DEF Sees, Fresh
    <3>5. ~ Found(a) /\ Found(b) => \A d \in Nodes \ up : Rounds(a, d)' < Rounds(a, b)'
      BY <1>2, <2>2 DEF Sees, Rounds
    <3>6. ~ Found(a) /\ ~ Found(b) => Steady(a, b)'
      BY <1>2, <2>2, <2>5, <3>1, <3>2 DEF Sees, Steady
    <3>7. ASSUME ~ Found(a), ~ Found(b), NEW d \in Nodes \ up
          PROVE  Away(a, d)' <= Away(b, d)' + 2
      <4>1. Rounds(a, d)' = Rounds(a, d) /\ Rounds(b, d)' = Rounds(b, d)
        BY <1>2 DEF Rounds
      <4>2. Away(a, d) = Rounds(a, d) /\ Away(b, d) = Rounds(b, d)
        BY <3>1, <3>7 DEF Away
      <4>3. Away(a, d)' = Rounds(a, d) - 1 /\ Away(b, d)' = Rounds(b, d) - 1
        BY <1>2, <4>1 DEF Away
      <4>4. Away(a, d) <= Away(b, d) + 2
        BY <2>2, <3>7 DEF Sees
      <4>5. Rounds(a, d) \in Nat /\ Rounds(b, d) \in Nat
        BY <1>1, <2>1, RoundsIs
      <4> QED BY <4>2, <4>3, <4>4, <4>5
    <3>8. Sees(a, b)'
      BY <1>2, <2>5, <3>3, <3>4, <3>5, <3>6, <3>7 DEF Sees
    <3> QED BY <2>3, <2>4, <3>8
  <2> QED BY <2>6, <2>7
<1> QED BY <1>1, <1>2, <1>3, <1>4, <1>5 DEF HeartbeatInv, Pairs

\* However a node that is up stands to another, it would take it nearly as long
\* to find it dead as any third node.
LEMMA SteadyAway ==
  ASSUME HeartbeatInv, NEW a \in up, NEW n \in up, a # n, Steady(a, n)
  PROVE  Away(a, n) \in SCORE_DEFAULT + 1 .. SCORE_DEFAULT + 3
<1>1. a \in Nodes /\ n \in Nodes /\ TypeOK
  BY DEF HeartbeatInv, TypeOK
<1>2. /\ score[a][n] \in -1 .. SCORE_DEFAULT
      /\ Rounds(a, n) = IF n \in changed[a]
                         THEN IF score[a][n] < SCORE_DEFAULT THEN score[a][n] + 4
                                                             ELSE SCORE_DEFAULT + 3
                         ELSE score[a][n] + 2
  BY <1>1, RoundsIs
<1>3. CASE n \in changed[a]
  <2>1. Rounds(a, n) = SCORE_DEFAULT + 3
    BY <1>2, <1>3, FewNodes DEF Steady
  <2> QED BY <2>1, FewNodes DEF Away
<1>4. CASE n \notin changed[a]
  BY <1>2, <1>4, FewNodes DEF Steady, Away
<1> QED BY <1>3, <1>4

LEMMA CrashKeeps ==
  ASSUME HeartbeatInv, NEW n \in up, Crash(n)
  PROVE  HeartbeatInv'
<1>1. TypeOK /\ TypeOK' /\ n \in Nodes /\ up \subseteq Nodes
  <2>1. [Next]_vars
    BY DEF Next
  <2> QED BY <2>1, TypeStep DEF HeartbeatInv, TypeOK
<1>2. /\ up' = up \ {n} /\ \A x \in up : ~ Starting(x)
      /\ UNCHANGED <<ran, changed, score, dead, exclude, msg, view, rsdco_hb_conn, pc, todo>>
  BY DEF Crash, Starting, scoreVars, statVars
<1>3. Alone'
  BY <1>2 DEF HeartbeatInv, Alone
<1>4. StartInv'
  BY <1>2 DEF StartInv, Starting
<1>5. ASSUME NEW a \in up', NEW b \in up', a # b
      PROVE  Knows(a)' /\ Sees(a, b)' /\ (a < b => Handshake(a, b)')
  <2>1. a \in Nodes /\ b \in Nodes /\ a \in up /\ b \in up /\ a # n /\ b # n
    BY <1>1, <1>2, <1>5
  <2>2. Nodes = {a, b, n} /\ up = Nodes
    BY <1>1, <1>5, <2>1, OneLost
  <2>3. /\ Knows(a) /\ Knows(b) /\ Sees(a, b) /\ (a < b => Handshake(a, b))
        /\ Sees(a, n) /\ Sees(b, n) /\ Knows(n)
    BY <1>1, <1>5, <2>1 DEF HeartbeatInv, Pairs
  <2>4. ~ Found(a) /\ ~ Found(b) /\ ~ Found(n)
    BY <2>2, <2>3 DEF Knows, Found
  <2>5. Knows(a)'
    BY <1>2, <2>1, <2>3, <2>4 DEF Knows, Found, Starting, Running
  <2>6. a < b => Handshake(a, b)'
    BY <1>2, <2>3, HandshakeFrame
  <2>7. Steady(a, b)'
    BY <1>2, <2>3, <2>4 DEF Sees, Steady, Signed
  <2>8. (a \notin ran /\ Signed(b, a) => b \in changed[a])'
    BY <1>2, <2>3 DEF Sees, Signed
  <2>9. Away(a, n)' <= Away(b, n)' + 2
    <3>1. Steady(a, n) /\ Steady(b, n)
      BY <2>3, <2>4 DEF Sees
    <3>2. /\ Away(a, n) \in SCORE_DEFAULT + 1 .. SCORE_DEFAULT + 3
          /\ Away(b, n) \in SCORE_DEFAULT + 1 .. SCORE_DEFAULT + 3
      BY <2>1, <3>1, SteadyAway
    <3>3. Away(a, n)' = Away(a, n) /\ Away(b, n)' = Away(b, n)
      BY <1>2 DEF Away, Rounds
    <3> QED BY <3>2, <3>3, FewNodes
  <2>10. Nodes \ up' = {n}
    BY <1>1, <1>2, <2>2
  <2>11. Sees(a, b)'
    BY <1>2, <2>4, <2>7, <2>8, <2>9, <2>10 DEF Sees, Found
  <2> QED BY <2>5, <2>6, <2>11
<1> QED BY <1>1, <1>3, <1>4, <1>5 DEF HeartbeatInv, Pairs

----------------------------------------------------------------------------
(* The theorems                                                            *)

LEMMA InvInit == Init => HeartbeatInv
<1> SUFFICES ASSUME Init PROVE HeartbeatInv
  OBVIOUS
<1>1. TypeOK
  BY TypeInit
<1>2. /\ up = Nodes /\ ran = {}
      /\ \A n \in Nodes : /\ changed[n] = Nodes \ {n} /\ dead[n] = {} /\ msg[n] = "WAIT"
                          /\ rsdco_hb_conn[n] = Nodes \ {n} /\ pc[n] = "start"
                          /\ \A m \in Nodes : score[n][m] = SCORE_DEFAULT
  BY DEF Init
<1>3. Alone
  BY <1>2 DEF Alone
<1>4. StartInv
  BY <1>2, FewNodes DEF StartInv
<1>5. ASSUME NEW a \in up, NEW b \in up, a # b
      PROVE  Knows(a) /\ Sees(a, b) /\ Handshake(a, b)
  <2>1. Knows(a)
    BY <1>2 DEF Knows, Found, Starting
  <2>2. ~ Signed(b, a)
    BY <1>2 DEF Signed
  <2>3. Sees(a, b)
    BY <1>2, <1>5, <2>2, FewNodes DEF Sees, Steady, Found
  <2>4. Handshake(a, b)
    BY <1>2 DEF Handshake, Freed, Found, Running
  <2> QED BY <2>1, <2>3, <2>4
<1> QED BY <1>1, <1>3, <1>4, <1>5 DEF HeartbeatInv, Pairs

LEMMA InvStep == HeartbeatInv /\ [Next]_vars => HeartbeatInv'
<1> SUFFICES ASSUME HeartbeatInv, [Next]_vars PROVE HeartbeatInv'
  OBVIOUS
<1>1. CASE Slot
  BY <1>1, SlotKeeps
<1>2. ASSUME NEW n \in up, Step(n) PROVE HeartbeatInv'
  <2>1. CASE StartLeader(n) \/ StartPeer(n) \/ StartFollower(n)
    BY <2>1, StartLeaderKeeps, StartPeerKeeps, StartFollowerKeeps
  <2>2. CASE Tick(n) \/ Propagate(n) \/ Detect(n)
    BY <2>2, TickKeeps, PropagateKeeps, DetectKeeps
  <2>3. CASE Reconfigure(n) \/ Gather(n) \/ Release(n) \/ WaitForRelease(n) \/ Resume(n)
    BY <2>3, ReconfigureKeeps, GatherKeeps, ReleaseKeeps, WaitForReleaseKeeps, ResumeKeeps
  <2> QED BY <1>2, <2>1, <2>2, <2>3 DEF Step
<1>3. ASSUME NEW n \in up, Crash(n) PROVE HeartbeatInv'
  BY <1>3, CrashKeeps
<1>4. CASE UNCHANGED vars
  <2>1. TypeOK'
    BY TypeStep DEF HeartbeatInv
  <2>2. UNCHANGED <<up, ran, changed, score, dead, exclude, msg, view, rsdco_hb_conn, pc, todo>>
    BY <1>4 DEF vars, slotVars, scoreVars, statVars
  <2>3. Alone' /\ StartInv'
    BY <2>2 DEF HeartbeatInv, Alone, StartInv, Starting
  <2>4. ASSUME NEW a \in up', NEW b \in up', a # b
        PROVE  Knows(a)' /\ Sees(a, b)' /\ (a < b => Handshake(a, b)')
    <3>1. Knows(a) /\ Sees(a, b) /\ (a < b => Handshake(a, b))
      BY <2>2, <2>4 DEF HeartbeatInv, Pairs
    <3>2. Signed(b, a)' => Signed(b, a)
      BY <2>2 DEF Signed
    <3> QED BY <2>2, <3>1, <3>2, KnowsFrame, SeesFrame, HandshakeFrame
  <2> QED BY <2>1, <2>3, <2>4 DEF HeartbeatInv, Pairs
<1> QED BY <1>1, <1>2, <1>3, <1>4 DEF Next

\* The invariant, for three nodes or fewer, any score of at least one and any
\* number of crashes.
THEOREM HeartbeatCorrect == Spec => []HeartbeatInv
BY InvInit, InvStep, PTL DEF Spec

\* No node that is up is ever found dead by one that is up: the tracker's score
\* outlasts every handshake the tracker of the other node can be held up in
\* (heartbeat.cc:336-355, 366-391).
THEOREM NobodyFalselySuspected == Spec => []NoFalseSuspicion
<1>1. HeartbeatInv => NoFalseSuspicion
  <2> SUFFICES ASSUME HeartbeatInv, NEW n \in up, NEW x \in dead[n] \cap up PROVE FALSE
    BY DEF NoFalseSuspicion
  <2>1. n \in Nodes
    BY DEF HeartbeatInv, TypeOK
  <2>2. x # n
    BY <2>1 DEF HeartbeatInv, Alone
  <2>3. Knows(n)
    BY <2>2 DEF HeartbeatInv, Pairs
  <2> QED BY <2>3 DEF Knows
<1> QED BY <1>1, HeartbeatCorrect, PTL

\* A node enters a new view only when every node that is up has found the same
\* node dead (heartbeat.cc:292).
THEOREM SurvivorsResumeTogether == Spec => ResumeTogether
<1> DEFINE Together == \A n \in up : view[n] > 0 /\ view'[n] > view[n]
                         => \A m \in up : dead[m] = dead[n]
<1>1. HeartbeatInv /\ [Next]_vars => [Together]_vars
  <2> SUFFICES ASSUME HeartbeatInv, [Next]_vars,
                      NEW n \in up, view[n] > 0, view'[n] > view[n],
                      NEW m \in up, m # n
               PROVE  dead[m] = dead[n]
    OBVIOUS
  <2>1. /\ TypeOK /\ n \in Nodes /\ m \in Nodes /\ view[n] \in Nat
    BY DEF HeartbeatInv, TypeOK
  <2>2. view'[n] # view[n]
    BY <2>1
  <2>3. Knows(n) /\ Knows(m) /\ (n < m => Handshake(n, m)) /\ (m < n => Handshake(m, n))
    BY DEF HeartbeatInv, Pairs
  <2>4. ASSUME NEW k \in up, Starting(k) PROVE dead[m] = dead[n]
    BY <2>1, <2>4, InStart
  <2>5. CASE pc[n] = "resume"
    <3>1. Found(n)
      BY <2>3, <2>5 DEF Knows, Starting, Running
    <3>2. Found(m)
      <4>1. CASE n < m
        BY <2>3, <2>5, <4>1 DEF Handshake, Freed
      <4>2. CASE m < n
        <5>1. msg[n] = "RELEASE"
          BY <2>1, <2>3, <2>5, <4>2 DEF Handshake, TypeOK
        <5>2. Freed(m, n)
          BY <2>3, <2>5, <3>1, <4>2, <5>1 DEF Handshake
        <5> QED BY <2>3, <5>2 DEF Freed, Knows, Starting, Running
      <4> QED BY <2>1, <4>1, <4>2, FewNodes
    <3> QED BY <2>3, <3>1, <3>2 DEF Knows, Found
  <2>6. CASE pc[n] # "resume"
    <3>1. PICK k \in up : StartLeader(k) \/ StartPeer(k) \/ Resume(k)
      BY <2>2 DEF Next, Step, Slot, Crash, StartFollower, Tick, Propagate, Detect, Reconfigure,
                  Gather, Release, WaitForRelease, statVars, vars
    <3>2. ~ Resume(k)
      <4>1. SUFFICES ASSUME Resume(k) PROVE FALSE
        OBVIOUS
      <4>2. k # n
        BY <2>6, <4>1 DEF Resume
      <4> QED BY <2>1, <2>2, <4>1, <4>2 DEF Resume, TypeOK
    <3>3. Starting(k)
      BY <3>1, <3>2 DEF Starting, StartLeader, StartPeer
    <3> QED BY <2>4, <3>3
  <2> QED BY <2>5, <2>6
<1>2. ResumeTogether <=> [][Together]_vars
  BY DEF ResumeTogether
<1> HIDE DEF Together
<1> QED BY <1>1, <1>2, HeartbeatCorrect, PTL DEF Spec
=============================================================================
