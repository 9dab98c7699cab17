---------------------------- MODULE RcCraqProofs ----------------------------
(***************************************************************************)
(* The chain of rc_craq: for any ring of two rooms and more, any width of  *)
(* the proposal counter and any number of proposers and calls, there is    *)
(* one entry under way, it is whole where it is taken, and a call returns  *)
(* after it is at every node.                                              *)
(***************************************************************************)
EXTENDS RcCraq, TLAPS

----------------------------------------------------------------------------
(* Constants and memory.                                                   *)

LEMMA Chain ==
  /\ Nodes = {0, 1, 2} /\ Waiters = {1, 2} /\ Nodes \ {TAIL} = {0, 1}
  /\ HEAD = 0 /\ TAIL = 2 /\ 0 \in Position
  /\ \A i \in Position : i \in Nat
BY CraqAssumption DEF Nodes, HEAD, TAIL, Waiters, Position

LEMMA Room ==
  ASSUME NEW i \in Position
  PROVE  Following(i) \in Position
<1>1. Ring \in Nat /\ Ring > 0 /\ i + 1 \in Nat
  BY CraqAssumption DEF Position
<1>2. (i + 1) % Ring \in 0 .. Ring - 1
  BY <1>1
<1> QED  BY <1>2 DEF Following, Position

LEMMA Proposal ==
  ASSUME NEW i \in Nat
  PROVE  i % Proposals \in 0 .. Proposals - 1
BY CraqAssumption

\* One word of one node's ring is written.
LEMMA Written1 ==
  ASSUME NEW S, NEW f \in [Nodes -> [Position -> S]], NEW m \in Nodes,
         NEW i \in Position, NEW v \in S, NEW g, g = [f EXCEPT ![m][i] = v]
  PROVE  /\ g \in [Nodes -> [Position -> S]]
         /\ \A l \in Nodes, j \in Position :
              g[l][j] = IF l = m /\ j = i THEN v ELSE f[l][j]
<1>1. g = [f EXCEPT ![m] = [f[m] EXCEPT ![i] = v]]
  OBVIOUS
<1>2. [f[m] EXCEPT ![i] = v] \in [Position -> S]
  OBVIOUS
<1> QED  BY <1>1, <1>2

\* What TypeOK says of one node.
LEMMA NodeType ==
  ASSUME TypeOK, NEW n \in Nodes
  PROVE  /\ cur[n] \in Position /\ next_room_free[n] \in Position
         /\ \A i \in Position : /\ hdr[n][i] \in [proposal : 0 .. Proposals - 1, message : {0, 2}]
                                /\ payload[n][i] \in 0 .. MaxCalls
                                /\ canary[n][i] \in BOOLEAN
         /\ taken[n] \in Seq(0 .. MaxCalls) /\ Len(taken[n]) \in Nat
         /\ calls \in Nat /\ Got(n) \in Nat
         /\ returned \in Seq(0 .. MaxCalls) /\ Len(returned) \in Nat
BY CraqAssumption DEF TypeOK, Got

----------------------------------------------------------------------------
LEMMA InitChain == Init => ChainInv
<1> SUFFICES ASSUME Init  PROVE ChainInv
  OBVIOUS
<1>1. TypeOK
  <2>1. /\ memc \subseteq Nodes /\ done \subseteq Nodes /\ seen \in [Nodes -> SUBSET Nodes]
        /\ propose_lock \in Threads \cup {NoThread}
    BY DEF Init
  <2>2. calls \in 0 .. MaxCalls /\ 0 \in 0 .. MaxCalls /\ 0 \in 0 .. Proposals - 1
    BY CraqAssumption DEF Init
  <2>3. reserved \in [Nodes -> {0, MAGIC} \X (0 .. MAGIC + MaxCalls)]
    <3>1. 0 \in 0 .. MAGIC + MaxCalls
      BY CraqAssumption DEF MAGIC
    <3> QED  BY <3>1 DEF Init
  <2>4. hdr \in [Nodes -> [Position -> [proposal : 0 .. Proposals - 1, message : {0, 2}]]]
    BY <2>2 DEF Init
  <2>5. /\ payload \in [Nodes -> [Position -> 0 .. MaxCalls]]
        /\ canary \in [Nodes -> [Position -> BOOLEAN]]
    BY <2>2 DEF Init, Nothing
  <2>6. /\ next_room_free \in [Nodes -> Position] /\ cur \in [Nodes -> Position]
        /\ local_proposal \in [Nodes -> 0 .. Proposals - 1]
    BY <2>2, Chain DEF Init
  <2>7. /\ pc \in [Nodes -> Booting \cup Holding \cup {"propose", "listen", "clear"}]
        /\ taken \in [Nodes -> Seq(0 .. MaxCalls)] /\ returned \in Seq(0 .. MaxCalls)
    BY DEF Init, Booting
  <2> QED  BY <2>1, <2>2, <2>3, <2>4, <2>5, <2>6, <2>7 DEF TypeOK
<1>2. \A n \in Nodes : /\ pc[n] = "push" /\ taken[n] = << >> /\ Got(n) = 0
                       /\ reserved[n] = <<0, 0>>
                       /\ \A i \in Position : ~canary[n][i]
  BY DEF Init, Got
<1>3. calls = 0 /\ returned = << >>
  BY DEF Init
<1>4. BootInv
  BY <1>2, <1>3, Chain DEF BootInv, Booting, MAGIC
<1>5. HistoryInv
  BY <1>2, <1>3, Chain DEF HistoryInv, Holding, Sending, Posting
<1>6. ASSUME NEW n \in Nodes \ {TAIL}  PROVE Link(n)
  <2>1. n \in Nodes /\ n + 1 \in Nodes
    BY Chain
  <2>2. ~Behind(n)
    BY <1>2, <2>1 DEF Behind
  <2> QED  BY <1>2, <2>1, <2>2 DEF Link, Holding, Sending, Posting
<1> QED  BY <1>1, <1>4, <1>5, <1>6 DEF ChainInv

----------------------------------------------------------------------------
(* Start-up.                                                               *)

\* A node starts up while no entry is under way to or from it.
LEMMA BootStep ==
  ASSUME ChainInv, TypeOK', BootInv', NEW n \in Nodes,
         pc[n] \in Booting, NEW l \in Booting \cup {"propose", "listen"},
         l = "propose" => n = HEAD, l = "listen" => n # HEAD,
         pc' = [pc EXCEPT ![n] = l],
         UNCHANGED <<ringVars, cur, history>>
  PROVE  ChainInv'
<1>1. /\ \A m \in Nodes : pc'[m] = IF m = n THEN l ELSE pc[m]
      /\ hdr' = hdr /\ payload' = payload /\ canary' = canary
      /\ cur' = cur /\ calls' = calls /\ taken' = taken /\ returned' = returned
  BY DEF ChainInv, TypeOK, ringVars, history
<1>2. pc[n] \notin Holding \cup {"listen", "clear"} /\ l \notin Holding \cup {"clear"}
  BY DEF Booting, Holding, Sending, Posting
<1>3. \A m \in Nodes : Got(m)' = Got(m)
  BY <1>1 DEF Got
<1>4. HistoryInv'
  <2>1. \A m \in Nodes : pc'[m] \in Holding => pc[m] \in Holding
    BY <1>1, <1>2
  <2>2. pc'[HEAD] \in Sending <=> pc[HEAD] \in Sending
    BY <1>1, <1>2, Chain DEF Holding
  <2>3. \A m \in Nodes : pc'[m] \in Holding => payload'[m][cur'[m]] = Got(m)'
    BY <1>1, <1>3, <2>1 DEF ChainInv, HistoryInv
  <2> QED  BY <1>1, <2>2, <2>3 DEF ChainInv, HistoryInv
<1>5. ASSUME NEW m \in Nodes \ {TAIL}  PROVE Link(m)'
  <2>1. m \in Nodes /\ m + 1 \in Nodes /\ Link(m)
    BY Chain DEF ChainInv
  <2>2. Behind(m)' = Behind(m)
    BY <1>3, <2>1 DEF Behind
  <2>3. m = n => ~Behind(m) /\ pc[m + 1] \notin Holding
    BY <1>2, <2>1 DEF Link, Holding
  <2>4. m + 1 = n => ~Behind(m)
    BY <1>2, <2>1 DEF Link
  <2>5. /\ pc'[m] \in Posting => pc[m] \in Posting
        /\ pc'[m] \notin Sending => ~Behind(m) /\ pc'[m + 1] \notin Holding
    BY <1>1, <1>2, <2>1, <2>3, <2>4 DEF Link, Holding, Sending, Posting
  <2>6. /\ Behind(m) => pc'[m] = pc[m] /\ pc'[m + 1] = pc[m + 1]
        /\ pc'[m + 1] \in Holding \cup {"clear"} => pc'[m + 1] = pc[m + 1]
        /\ pc[m + 1] \in Holding \cup {"clear"} => pc'[m + 1] = pc[m + 1]
    BY <1>1, <1>2, <2>1, <2>3, <2>4
  <2> QED  BY <1>1, <1>3, <2>1, <2>2, <2>5, <2>6 DEF Link
<1> QED  BY <1>4, <1>5 DEF ChainInv
\* and so it does with each of its steps.
LEMMA StartUpChain ==
  ASSUME ChainInv, NEW n \in Nodes, StartUp(n)
  PROVE  ChainInv' /\ UNCHANGED <<calls, taken, returned>>
<1> USE DEF From
<1>0. UNCHANGED <<ringVars, cur, propose_lock, calls, taken, returned>>
  BY DEF StartUp, Push, Connect, WaitGeneral, DelGeneral, local_hotel_init, magic_test,
         startUp, history
<1> SUFFICES ChainInv'
  BY <1>0
<1>1. ASSUME NEW l, pc[n] \in Booting, l \in Booting,
             pc' = [pc EXCEPT ![n] = l],
             reserved' = reserved \/ reserved' = [reserved EXCEPT ![n] = <<0, 0>>],
             next_room_free' \in [Nodes -> Position], local_proposal' = local_proposal,
             memc' \subseteq Nodes, done' \subseteq Nodes, seen' \in [Nodes -> SUBSET Nodes]
      PROVE  ChainInv'
  <2>1. pc' \in [Nodes -> Booting \cup Holding \cup {"propose", "listen", "clear"}]
    BY <1>1 DEF ChainInv, TypeOK
  <2>2. /\ reserved' \in [Nodes -> {0, MAGIC} \X (0 .. MAGIC + MaxCalls)]
        /\ \A m \in Nodes : reserved'[m] = reserved[m] \/ reserved'[m] = <<0, 0>>
    <3>1. <<0, 0>> \in {0, MAGIC} \X (0 .. MAGIC + MaxCalls)
      BY CraqAssumption DEF MAGIC
    <3>2. reserved \in [Nodes -> {0, MAGIC} \X (0 .. MAGIC + MaxCalls)]
      BY DEF ChainInv, TypeOK
    <3>3. CASE reserved' = reserved
      BY <3>2, <3>3
    <3>4. CASE reserved' = [reserved EXCEPT ![n] = <<0, 0>>]
      <4> DEFINE R == {0, MAGIC} \X (0 .. MAGIC + MaxCalls)
      <4>1. reserved \in [Nodes -> R] /\ <<0, 0>> \in R
        BY <3>1, <3>2
      <4> HIDE DEF R
      <4>2. /\ reserved' \in [Nodes -> R]
            /\ \A m \in Nodes : reserved'[m] = reserved[m] \/ reserved'[m] = <<0, 0>>
        BY <4>1, <3>4
      <4> QED  BY <4>2 DEF R
    <3> QED  BY <1>1, <3>3, <3>4
  <2>3. TypeOK'
    BY <1>0, <1>1, <2>1, <2>2 DEF ChainInv, TypeOK, ringVars
  <2>4. \A m \in Nodes : pc'[m] = IF m = n THEN l ELSE pc[m]
    BY <1>1 DEF ChainInv, TypeOK
  <2>5. BootInv'
    <3>1. Len(returned) \in Nat
      BY NodeType DEF ChainInv
    <3>2. \A m \in Nodes : pc[m] \in Booting <=> pc'[m] \in Booting
      BY <1>1, <2>4
    <3>3. \A m \in Nodes : /\ reserved'[m][2] # 0 => reserved[m][2] # 0
                           /\ reserved'[m][2] = reserved[m][2] \/ reserved'[m][2] = 0
      BY <2>2
    <3>4. \A m \in Nodes : pc'[m] \notin Booting => pc'[m] = pc[m]
      BY <1>1, <2>4
    <3>5. 0 <= MAGIC + Len(returned)
      BY <3>1 DEF MAGIC
    <3>6. /\ BootInv /\ calls' = calls /\ returned' = returned
          /\ 0 \in Nodes /\ 1 \in Nodes /\ 2 \in Nodes /\ HEAD = 0 /\ TAIL = 2
      BY <1>0, Chain DEF ChainInv
    <3>7. /\ pc'[HEAD] \in Booting \cup Sending \cup {"propose"}
          /\ pc'[1] \in Booting \cup Holding \cup {"listen", "clear"}
          /\ pc'[TAIL] \in Booting \cup {"listen", "ack", "clear"}
      BY <3>4, <3>6 DEF BootInv
    <3> QED  BY <3>2, <3>3, <3>5, <3>6, <3>7 DEF BootInv
  <2>6. l \in Booting \cup {"propose", "listen"} /\ l # "propose" /\ l # "listen"
    BY <1>1 DEF Booting
  <2> QED  BY <1>0, <1>1, <2>3, <2>5, <2>6, BootStep DEF history
<1>2. CASE Push(n)
  <2>1. /\ pc[n] = "push" /\ pc' = [pc EXCEPT ![n] = "connect"]
        /\ reserved' = reserved /\ local_proposal' = local_proposal
        /\ next_room_free' = next_room_free /\ seen' = seen
        /\ memc' \subseteq Nodes /\ done' \subseteq Nodes
    BY <1>2 DEF Push, startUp, ChainInv, TypeOK
  <2>2. next_room_free' \in [Nodes -> Position] /\ seen' \in [Nodes -> SUBSET Nodes]
    BY <2>1 DEF ChainInv, TypeOK
  <2>3. pc[n] \in Booting /\ "connect" \in Booting
    BY <2>1 DEF Booting
  <2> QED  BY <2>1, <2>2, <2>3, <1>1
<1>3. CASE Connect(n)
  <2>1. /\ pc[n] = "connect" /\ pc' = [pc EXCEPT ![n] = "wait"]
        /\ reserved' = reserved /\ local_proposal' = local_proposal
        /\ next_room_free' = next_room_free /\ seen' = seen
        /\ memc' \subseteq Nodes /\ done' \subseteq Nodes
    BY <1>3 DEF Connect, startUp, ChainInv, TypeOK
  <2>2. next_room_free' \in [Nodes -> Position] /\ seen' \in [Nodes -> SUBSET Nodes]
    BY <2>1 DEF ChainInv, TypeOK
  <2>3. pc[n] \in Booting /\ "wait" \in Booting
    BY <2>1 DEF Booting
  <2> QED  BY <2>1, <2>2, <2>3, <1>1
<1>4. CASE WaitGeneral(n)
  <2>1. PICK m \in done \ seen[n] : seen' = [seen EXCEPT ![n] = @ \cup {m}]
    BY <1>4 DEF WaitGeneral
  <2>2. seen' \in [Nodes -> SUBSET Nodes]
    BY ZenonT(60), <2>1 DEF ChainInv, TypeOK
  <2>3. \E l \in {"sleep10", "wait"} : pc' = [pc EXCEPT ![n] = l]
    BY <1>4 DEF WaitGeneral
  <2>4. /\ pc[n] = "wait" /\ memc' = memc /\ done' = done /\ reserved' = reserved
        /\ next_room_free' = next_room_free /\ local_proposal' = local_proposal
    BY <1>4 DEF WaitGeneral, startUp
  <2>5. /\ next_room_free' \in [Nodes -> Position]
        /\ memc' \subseteq Nodes /\ done' \subseteq Nodes
    BY <2>4 DEF ChainInv, TypeOK
  <2>6. pc[n] \in Booting /\ \A l \in {"sleep10", "wait"} : l \in Booting
    BY <2>4 DEF Booting
  <2> QED  BY <2>2, <2>3, <2>4, <2>5, <2>6, <1>1
<1>5. CASE DelGeneral(n)
  <2>1. /\ pc[n] = "sleep10" /\ pc' = [pc EXCEPT ![n] = "init"]
        /\ reserved' = reserved /\ local_proposal' = local_proposal
        /\ next_room_free' = next_room_free /\ seen' = seen
        /\ memc' \subseteq Nodes /\ done' \subseteq Nodes
    BY <1>5 DEF DelGeneral, startUp, ChainInv, TypeOK
  <2>2. next_room_free' \in [Nodes -> Position] /\ seen' \in [Nodes -> SUBSET Nodes]
    BY <2>1 DEF ChainInv, TypeOK
  <2>3. pc[n] \in Booting /\ "init" \in Booting
    BY <2>1 DEF Booting
  <2> QED  BY <2>1, <2>2, <2>3, <1>1
<1>6. CASE local_hotel_init(n)
  <2>1. /\ pc[n] = "init" /\ pc' = [pc EXCEPT ![n] = "magic"]
        /\ reserved' = [reserved EXCEPT ![n] = <<0, 0>>] /\ local_proposal' = local_proposal
        /\ next_room_free' = [next_room_free EXCEPT ![n] = 0]
        /\ seen' = seen /\ memc' = memc /\ done' = done
    BY <1>6 DEF local_hotel_init, startUp, startVars
  <2>2. /\ next_room_free' \in [Nodes -> Position] /\ seen' \in [Nodes -> SUBSET Nodes]
        /\ memc' \subseteq Nodes /\ done' \subseteq Nodes
    BY <2>1, Chain DEF ChainInv, TypeOK
  <2>3. pc[n] \in Booting /\ "magic" \in Booting
    BY <2>1 DEF Booting
  <2> QED  BY <2>1, <2>2, <2>3, <1>1
<1>7. CASE magic_test(n)
  <2>1. /\ memc' = memc /\ done' = done /\ seen' = seen
        /\ next_room_free' = next_room_free
    BY <1>7 DEF magic_test, startVars
  <2>2. ASSUME NEW l \in Booting \cup {"propose", "listen"},
               pc[n] \in Booting, pc' = [pc EXCEPT ![n] = l],
               l = "propose" => n = HEAD, l = "listen" => n # HEAD,
               reserved' \in [Nodes -> {0, MAGIC} \X (0 .. MAGIC + MaxCalls)],
               local_proposal' \in [Nodes -> 0 .. Proposals - 1],
               BootInv'
        PROVE  ChainInv'
    <3>1. pc' \in [Nodes -> Booting \cup Holding \cup {"propose", "listen", "clear"}]
      BY <2>2 DEF ChainInv, TypeOK
    <3>2. TypeOK'
      BY <1>0, <2>1, <2>2, <3>1 DEF ChainInv, TypeOK, ringVars
    <3> QED  BY <1>0, <2>2, <3>2, BootStep DEF history
  <2>3. /\ MAGIC \in 0 .. MAGIC + MaxCalls /\ MAGIC \in 0 .. Proposals - 1 /\ MAGIC # 0
        /\ MAGIC <= MAGIC + Len(returned)
    BY CraqAssumption, NodeType DEF MAGIC, ChainInv
  <2>4. pc \in [Nodes -> Booting \cup Holding \cup {"propose", "listen", "clear"}]
    BY DEF ChainInv, TypeOK
  <2>5. /\ reserved \in [Nodes -> {0, MAGIC} \X (0 .. MAGIC + MaxCalls)]
        /\ local_proposal \in [Nodes -> 0 .. Proposals - 1]
        /\ calls' = calls /\ returned' = returned
    BY <1>0 DEF ChainInv, TypeOK
  <2>6. ASSUME NEW i \in {1, 2}, n # 0, SendMagic(n, i)
        PROVE  /\ reserved' \in [Nodes -> {0, MAGIC} \X (0 .. MAGIC + MaxCalls)]
               /\ \A m \in Nodes : reserved'[m][2] =
                     IF i = 2 /\ m \in {n, n - 1} THEN MAGIC ELSE reserved[m][2]
    <3>1. n - 1 \in Nodes /\ n - 1 # n
      BY <2>6, Chain
    <3>2. reserved' = [reserved EXCEPT ![n] = [@ EXCEPT ![i] = MAGIC],
                                       ![n - 1] = [@ EXCEPT ![i] = MAGIC]]
      BY <2>6 DEF SendMagic
    <3>3. \A r \in {0, MAGIC} \X (0 .. MAGIC + MaxCalls) :
            /\ [r EXCEPT ![i] = MAGIC] \in {0, MAGIC} \X (0 .. MAGIC + MaxCalls)
            /\ [r EXCEPT ![i] = MAGIC][2] = IF i = 2 THEN MAGIC ELSE r[2]
      BY <2>3
    <3> QED  BY ZenonT(60), <2>5, <3>1, <3>2, <3>3
  <2>7. CASE Magic0(n)
    <3>1. /\ n = 0 /\ reserved[0] = <<MAGIC, MAGIC>> /\ pc[0] = "magic"
          /\ pc' = [pc EXCEPT ![n] = "propose"]
          /\ reserved' = reserved /\ local_proposal' = local_proposal
      BY <2>7, Chain DEF Magic0
    <3>2. reserved[0][2] # 0
      BY <3>1, <2>3
    <3>3. BootInv'
      BY <3>1, <3>2, <2>4, <2>5, Chain DEF ChainInv, BootInv, Booting
    <3> QED  BY <3>1, <3>3, <2>2, <2>5, Chain DEF Booting
  <2>8. CASE Magic1Send(n)
    <3>1. /\ n = 1 /\ pc[1] = "magic" /\ pc' = [pc EXCEPT ![n] = "magic_wait"]
          /\ SendMagic(n, 1) /\ local_proposal' = local_proposal
      BY <2>8, Chain DEF Magic1Send
    <3>2. /\ pc'[1] = "magic_wait" /\ \A m \in Nodes : m # 1 => pc'[m] = pc[m]
          /\ HEAD = 0 /\ TAIL = 2 /\ 0 \in Nodes /\ 1 \in Nodes /\ 2 \in Nodes /\ n - 1 = 0
      BY <3>1, <2>4, Chain
    <3>3. reserved'[0][2] = reserved[0][2] /\ reserved'[1][2] = reserved[1][2]
      BY <3>1, <3>2, <2>6
    <3>4. BootInv'
      BY <3>1, <3>2, <3>3, <2>3, <2>5 DEF ChainInv, BootInv, Booting
    <3>5. reserved' \in [Nodes -> {0, MAGIC} \X (0 .. MAGIC + MaxCalls)]
      BY <3>1, <2>6
    <3>6. local_proposal' \in [Nodes -> 0 .. Proposals - 1]
      BY <3>1, <2>3, <2>5
    <3>7. pc[n] \in Booting /\ n # HEAD /\ "magic_wait" \in Booting \cup {"propose", "listen"}
      BY <3>1, <3>2 DEF Booting
    <3> QED  BY <3>1, <3>4, <3>5, <3>6, <3>7, <2>2
  <2>9. CASE Magic1Forward(n)
    <3>1. /\ n = 1 /\ pc[1] = "magic_wait" /\ pc' = [pc EXCEPT ![n] = "listen"]
          /\ reserved[1][2] = MAGIC
          /\ SendMagic(n, 2) /\ local_proposal' = [local_proposal EXCEPT ![n] = MAGIC]
      BY <2>9, Chain DEF Magic1Forward
    <3>2. /\ pc'[1] = "listen" /\ \A m \in Nodes : m # 1 => pc'[m] = pc[m]
          /\ HEAD = 0 /\ TAIL = 2 /\ 0 \in Nodes /\ 1 \in Nodes /\ 2 \in Nodes /\ n - 1 = 0
      BY <3>1, <2>4, Chain
    <3>3. reserved'[0][2] = MAGIC /\ reserved'[1][2] = MAGIC
      BY <3>1, <3>2, <2>6
    <3>4. BootInv'
      BY <3>1, <3>2, <3>3, <2>3, <2>5 DEF ChainInv, BootInv, Booting
    <3>5. reserved' \in [Nodes -> {0, MAGIC} \X (0 .. MAGIC + MaxCalls)]
      BY <3>1, <2>6
    <3>6. local_proposal' \in [Nodes -> 0 .. Proposals - 1]
      BY <3>1, <2>3, <2>5
    <3>7. pc[n] \in Booting /\ n # HEAD /\ "listen" \in Booting \cup {"propose", "listen"}
      BY <3>1, <3>2 DEF Booting
    <3> QED  BY <3>1, <3>4, <3>5, <3>6, <3>7, <2>2
  <2>10. CASE Magic2(n)
    <3>1. /\ n = 2 /\ pc[2] = "magic" /\ pc' = [pc EXCEPT ![n] = "listen"]
          /\ SendMagic(n, 2) /\ local_proposal' = [local_proposal EXCEPT ![n] = MAGIC]
      BY <2>10, Chain DEF Magic2
    <3>2. /\ pc'[2] = "listen" /\ \A m \in Nodes : m # 2 => pc'[m] = pc[m]
          /\ HEAD = 0 /\ TAIL = 2 /\ 0 \in Nodes /\ 1 \in Nodes /\ 2 \in Nodes /\ n - 1 = 1
      BY <3>1, <2>4, Chain
    <3>3. reserved'[0][2] = reserved[0][2] /\ reserved'[1][2] = MAGIC
      BY <3>1, <3>2, <2>6
    <3>4. BootInv'
      BY <3>1, <3>2, <3>3, <2>3, <2>5 DEF ChainInv, BootInv, Booting
    <3>5. reserved' \in [Nodes -> {0, MAGIC} \X (0 .. MAGIC + MaxCalls)]
      BY <3>1, <2>6
    <3>6. local_proposal' \in [Nodes -> 0 .. Proposals - 1]
      BY <3>1, <2>3, <2>5
    <3>7. pc[n] \in Booting /\ n # HEAD /\ "listen" \in Booting \cup {"propose", "listen"}
      BY <3>1, <3>2 DEF Booting
    <3> QED  BY <3>1, <3>4, <3>5, <3>6, <3>7, <2>2
  <2> QED  BY <1>7, <2>7, <2>8, <2>9, <2>10 DEF magic_test
<1> QED  BY <1>2, <1>3, <1>4, <1>5, <1>6, <1>7 DEF StartUp
----------------------------------------------------------------------------
(* An entry goes down the chain.                                           *)

\* What every step below starts from.
LEMMA Now ==
  ASSUME ChainInv
  PROVE  /\ TypeOK /\ BootInv /\ HistoryInv /\ Link(0) /\ Link(1)
         /\ pc \in [Nodes -> Booting \cup Holding \cup {"propose", "listen", "clear"}]
         /\ hdr \in [Nodes -> [Position -> [proposal : 0 .. Proposals - 1, message : {0, 2}]]]
         /\ payload \in [Nodes -> [Position -> 0 .. MaxCalls]]
         /\ canary \in [Nodes -> [Position -> BOOLEAN]]
         /\ cur \in [Nodes -> Position] /\ next_room_free \in [Nodes -> Position]
         /\ taken \in [Nodes -> Seq(0 .. MaxCalls)]
BY Chain DEF ChainInv, TypeOK

\* A node that has no entry to send leaves nothing under way behind it.
LEMMA Quiet ==
  ASSUME ChainInv, NEW n \in {0, 1}, pc[n] \notin Sending
  PROVE  ~Behind(n) /\ pc[n + 1] \notin Holding
BY Now DEF Link

\* A node that writes a part of its entry to the next one disturbs no other link.
LEMMA PostFrame ==
  ASSUME ChainInv, NEW n \in {0, 1}, pc[n] \in Posting, NEW l \in Sending,
         pc' = [pc EXCEPT ![n] = l],
         cur' = cur, calls' = calls, taken' = taken, returned' = returned,
         reserved' = reserved,
         \A m \in Nodes : m # n + 1 =>
           hdr'[m] = hdr[m] /\ payload'[m] = payload[m] /\ canary'[m] = canary[m]
  PROVE  /\ BootInv' /\ HistoryInv'
         /\ \A m \in {0, 1} : m # n => Link(m)'
         /\ Behind(n)' /\ Behind(n) /\ Link(n)
         /\ \A m \in Nodes : pc'[m] = IF m = n THEN l ELSE pc[m]
         /\ pc[n + 1] \in {"listen", "clear"}
<1>1. /\ \A m \in Nodes : pc'[m] = IF m = n THEN l ELSE pc[m]
      /\ n \in Nodes /\ n + 1 \in Nodes
      /\ HEAD = 0 /\ TAIL = 2 /\ 0 \in Nodes /\ 1 \in Nodes /\ 2 \in Nodes
  <2>1. n \in Nodes /\ n + 1 \in Nodes
    BY Chain
  <2>2. \A m \in Nodes : pc'[m] = IF m = n THEN l ELSE pc[m]
    BY <2>1, Now
  <2> QED  BY <2>1, <2>2, Chain
<1>2. /\ \A m \in Nodes : Got(m)' = Got(m)
      /\ \A m \in {0, 1} : Behind(m)' = Behind(m)
  BY DEF Got, Behind
<1>3. Behind(n) /\ Link(n) /\ pc[n + 1] \in {"listen", "clear"}
  BY ZenonT(60), Now DEF Link
<1>4. pc[n] \notin Booting /\ l \notin Booting /\ pc[n] \in Sending
  BY DEF Booting, Sending, Posting
<1>5. BootInv'
  <2>1. \A m \in Nodes : pc[m] \in Booting <=> pc'[m] \in Booting
    BY <1>1, <1>4
  <2>2. /\ pc'[0] \in Booting \cup Sending \cup {"propose"}
        /\ pc'[1] \in Booting \cup Holding \cup {"listen", "clear"}
        /\ pc'[2] \in Booting \cup {"listen", "ack", "clear"}
    BY <1>1, Now DEF BootInv, Holding
  <2> QED  BY <1>1, <2>1, <2>2, Now DEF BootInv
<1>6. HistoryInv'
  <2>1. \A m \in Nodes : pc'[m] \in Holding => m # n + 1 /\ pc[m] \in Holding
    BY <1>1, <1>3, <1>4 DEF Holding, Sending, Posting
  <2>2. \A m \in Nodes : pc'[m] \in Holding => payload'[m][cur'[m]] = Got(m)'
    BY SMTT(60), <1>2, <2>1, Now DEF HistoryInv
  <2>3. pc'[HEAD] \in Sending <=> pc[HEAD] \in Sending
    BY <1>1, <1>4
  <2> QED  BY <2>2, <2>3, Now DEF HistoryInv
<1>7. ASSUME n = 0  PROVE Link(1)'
  <2>1. pc[1] \in {"listen", "clear"} /\ pc'[1] = pc[1] /\ pc'[2] = pc[2] /\ canary'[2] = canary[2]
    BY <1>1, <1>3, <1>7
  <2>2. ~Behind(1) /\ pc[2] \notin Holding
    BY <2>1, Quiet DEF Sending, Posting
  <2>3. pc[1] \notin Posting
    BY <2>1 DEF Posting
  <2>4. /\ Behind(1)' = Behind(1) /\ Link(1)
        /\ pc'[1 + 1] = pc[1 + 1] /\ canary'[1 + 1] = canary[1 + 1]
        /\ cur' = cur
    BY <1>2, <2>1, Now
  <2> QED  BY <2>1, <2>2, <2>3, <2>4 DEF Link
<1>8. ASSUME n = 1  PROVE Link(0)'
  <2>1. /\ pc'[1] = l /\ pc'[0] = pc[0]
        /\ \A m \in {0, 1} : hdr'[m] = hdr[m] /\ payload'[m] = payload[m] /\ canary'[m] = canary[m]
    BY <1>1, <1>8
  <2>2. pc[1] \in Holding /\ l \in Holding
    BY <1>4, <1>8 DEF Holding
  <2>3. ~Behind(0)
    BY <1>8, Now DEF Link, Posting
  <2> QED  BY SMTT(60), <1>2, <1>8, <2>1, <2>2, <2>3, Now DEF Link
<1> QED  BY <1>1, <1>2, <1>3, <1>5, <1>6, <1>7, <1>8

\* Only a node before the tail posts.
LEMMA PostingNode ==
  ASSUME ChainInv, NEW n \in Nodes, pc[n] \in Posting
  PROVE  n \in {0, 1} /\ n + 1 \in Nodes /\ n + 1 # n
<1>1. pc[2] \notin Posting
  BY Now, Chain DEF BootInv, Booting, Posting
<1> QED  BY <1>1, Chain

LEMMA PostChain ==
  ASSUME ChainInv, NEW n \in Nodes, post_single_fast(n)
  PROVE  ChainInv' /\ UNCHANGED <<calls, taken, returned>>
<1>1. /\ cur' = cur /\ calls' = calls /\ taken' = taken /\ returned' = returned
      /\ reserved' = reserved /\ next_room_free' = next_room_free
      /\ local_proposal' = local_proposal /\ propose_lock' = propose_lock
      /\ memc' = memc /\ done' = done /\ seen' = seen
      /\ pc[n] \in Posting
  BY DEF post_single_fast, PostHeader, PostPayload, PostCanary, From, Posting, Written,
         startVars, placeVars, history
<1>2. n \in {0, 1} /\ n + 1 \in Nodes /\ n + 1 # n
  BY <1>1, PostingNode
<1> DEFINE c == cur[n]
<1>3. c \in Position
  BY Now
<1> HIDE DEF c
<1>4. CASE PostHeader(n)
  <2>1. /\ pc[n] = "post" /\ pc' = [pc EXCEPT ![n] = "post_payload"]
        /\ hdr' = [hdr EXCEPT ![n + 1][c] = hdr[n][c]]
        /\ payload' = payload /\ canary' = canary
    BY <1>4 DEF PostHeader, From, c
  <2>2. hdr[n][c] \in [proposal : 0 .. Proposals - 1, message : {0, 2}]
    BY <1>3, Now
  <2>3. /\ hdr' \in [Nodes -> [Position -> [proposal : 0 .. Proposals - 1, message : {0, 2}]]]
        /\ \A m \in Nodes, i \in Position :
             hdr'[m][i] = IF m = n + 1 /\ i = c THEN hdr[n][c] ELSE hdr[m][i]
    <3> DEFINE S == [proposal : 0 .. Proposals - 1, message : {0, 2}]
               v == hdr[n][c]
               x == n + 1
    <3>1. /\ hdr \in [Nodes -> [Position -> S]] /\ v \in S /\ x \in Nodes
          /\ hdr' = [hdr EXCEPT ![x][c] = v]
      BY <1>2, <2>1, <2>2, Now
    <3> HIDE DEF S, v, x
    <3>2. /\ hdr' \in [Nodes -> [Position -> S]]
          /\ \A l \in Nodes, j \in Position :
               hdr'[l][j] = IF l = x /\ j = c THEN v ELSE hdr[l][j]
      BY <1>3, <3>1, Written1
    <3> QED  BY <3>2 DEF S, v, x
  <2>4. \A m \in Nodes : m # n + 1 => hdr'[m] = hdr[m]
    BY <2>1, Now
  <2>5. "post_payload" \in Sending
    BY DEF Sending, Posting
  <2>6. /\ BootInv' /\ HistoryInv' /\ \A m \in {0, 1} : m # n => Link(m)'
        /\ Behind(n)' /\ Behind(n) /\ Link(n)
        /\ \A m \in Nodes : pc'[m] = IF m = n THEN "post_payload" ELSE pc[m]
        /\ pc[n + 1] \in {"listen", "clear"}
    BY ZenonT(60), <1>1, <1>2, <2>1, <2>4, <2>5, PostFrame
  <2>7. pc'[n] = "post_payload" /\ pc'[n + 1] = pc[n + 1]
    BY <1>2, <2>6
  <2>8. TypeOK'
    BY <1>1, <2>1, <2>3, <2>5, Now DEF TypeOK, Holding
  <2>9. Got(n)' = Got(n) /\ Got(n + 1)' = Got(n + 1)
    BY <1>1 DEF Got
  <2>10. hdr[n][c].message = 2 /\ hdr'[n][c] = hdr[n][c] /\ hdr'[n + 1][c] = hdr[n][c]
    BY <1>2, <1>3, <2>3, <2>6 DEF Link, c
  <2>11. Link(n)'
    BY <1>1, <1>2, <2>1, <2>6, <2>7, <2>9, <2>10 DEF Link, c, Holding, Sending, Posting
  <2> QED  BY <1>1, <1>2, <2>6, <2>8, <2>11, Chain DEF ChainInv
<1>5. CASE PostPayload(n)
  <2>1. /\ pc[n] = "post_payload" /\ pc' = [pc EXCEPT ![n] = "post_canary"]
        /\ payload' = [payload EXCEPT ![n + 1][c] = payload[n][c]]
        /\ hdr' = hdr /\ canary' = canary
    BY <1>5 DEF PostPayload, From, c
  <2>2. payload[n][c] \in 0 .. MaxCalls
    BY <1>3, Now
  <2>3. /\ payload' \in [Nodes -> [Position -> 0 .. MaxCalls]]
        /\ \A m \in Nodes, i \in Position :
             payload'[m][i] = IF m = n + 1 /\ i = c THEN payload[n][c] ELSE payload[m][i]
    <3> DEFINE S == 0 .. MaxCalls
               v == payload[n][c]
               x == n + 1
    <3>1. /\ payload \in [Nodes -> [Position -> S]] /\ v \in S /\ x \in Nodes
          /\ payload' = [payload EXCEPT ![x][c] = v]
      BY <1>2, <2>1, <2>2, Now
    <3> HIDE DEF S, v, x
    <3>2. /\ payload' \in [Nodes -> [Position -> S]]
          /\ \A l \in Nodes, j \in Position :
               payload'[l][j] = IF l = x /\ j = c THEN v ELSE payload[l][j]
      BY <1>3, <3>1, Written1
    <3> QED  BY <3>2 DEF S, v, x
  <2>4. \A m \in Nodes : m # n + 1 => payload'[m] = payload[m]
    BY <2>1, Now
  <2>5. "post_canary" \in Sending
    BY DEF Sending, Posting
  <2>6. /\ BootInv' /\ HistoryInv' /\ \A m \in {0, 1} : m # n => Link(m)'
        /\ Behind(n)' /\ Behind(n) /\ Link(n)
        /\ \A m \in Nodes : pc'[m] = IF m = n THEN "post_canary" ELSE pc[m]
        /\ pc[n + 1] \in {"listen", "clear"}
    BY ZenonT(60), <1>1, <1>2, <2>1, <2>4, <2>5, PostFrame
  <2>7. pc'[n] = "post_canary" /\ pc'[n + 1] = pc[n + 1]
    BY <1>2, <2>6
  <2>8. TypeOK'
    BY <1>1, <2>1, <2>3, <2>5, Now DEF TypeOK, Holding
  <2>9. Got(n)' = Got(n) /\ Got(n + 1)' = Got(n + 1)
    BY <1>1 DEF Got
  <2>10. payload[n][c] = Got(n) /\ payload'[n + 1][c] = payload[n][c]
    BY <1>2, <1>3, <2>1, <2>3, Now DEF HistoryInv, c, Holding, Sending, Posting
  <2>11. Link(n)'
    BY <1>1, <1>2, <2>1, <2>6, <2>7, <2>9, <2>10 DEF Link, c, Holding, Sending, Posting
  <2> QED  BY <1>1, <1>2, <2>6, <2>8, <2>11, Chain DEF ChainInv
<1>6. CASE PostCanary(n)
  <2>1. /\ pc[n] = "post_canary" /\ pc' = [pc EXCEPT ![n] = "ack_wait"]
        /\ canary' = [canary EXCEPT ![n + 1][c] = canary[n][c]]
        /\ hdr' = hdr /\ payload' = payload
    BY <1>6 DEF PostCanary, From, c
  <2>2. canary[n][c] \in BOOLEAN
    BY <1>3, Now
  <2>3. /\ canary' \in [Nodes -> [Position -> BOOLEAN]]
        /\ \A m \in Nodes, i \in Position :
             canary'[m][i] = IF m = n + 1 /\ i = c THEN canary[n][c] ELSE canary[m][i]
    <3> DEFINE S == BOOLEAN
               v == canary[n][c]
               x == n + 1
    <3>1. /\ canary \in [Nodes -> [Position -> S]] /\ v \in S /\ x \in Nodes
          /\ canary' = [canary EXCEPT ![x][c] = v]
      BY <1>2, <2>1, <2>2, Now
    <3> HIDE DEF S, v, x
    <3>2. /\ canary' \in [Nodes -> [Position -> S]]
          /\ \A l \in Nodes, j \in Position :
               canary'[l][j] = IF l = x /\ j = c THEN v ELSE canary[l][j]
      BY <1>3, <3>1, Written1
    <3> QED  BY <3>2 DEF S, v, x
  <2>4. \A m \in Nodes : m # n + 1 => canary'[m] = canary[m]
    BY <2>1, Now
  <2>5. "ack_wait" \in Sending
    BY DEF Sending, Posting
  <2>6. /\ BootInv' /\ HistoryInv' /\ \A m \in {0, 1} : m # n => Link(m)'
        /\ Behind(n)' /\ Behind(n) /\ Link(n)
        /\ \A m \in Nodes : pc'[m] = IF m = n THEN "ack_wait" ELSE pc[m]
        /\ pc[n + 1] \in {"listen", "clear"}
    BY ZenonT(60), <1>1, <1>2, <2>1, <2>4, <2>5, PostFrame
  <2>7. pc'[n] = "ack_wait" /\ pc'[n + 1] = pc[n + 1]
    BY <1>2, <2>6
  <2>8. TypeOK'
    BY <1>1, <2>1, <2>3, <2>5, Now DEF TypeOK, Holding
  <2>9. Got(n)' = Got(n) /\ Got(n + 1)' = Got(n + 1)
    BY <1>1 DEF Got
  <2>10. ASSUME NEW i \in Position, canary'[n + 1][i]
         PROVE  \/ i = cur'[n + 1] /\ pc'[n + 1] \in Holding \cup {"clear"}
                \/ i = cur'[n] /\ pc'[n] = "ack_wait" /\ Behind(n)'
    BY <1>1, <1>2, <2>1, <2>3, <2>6, <2>7, <2>10 DEF Link, c
  <2>11. Link(n)'
    BY <1>1, <1>2, <2>1, <2>6, <2>7, <2>9, <2>10 DEF Link, c, Holding, Sending, Posting
  <2> QED  BY <1>1, <1>2, <2>6, <2>8, <2>11, Chain DEF ChainInv
<1> QED  BY <1>1, <1>4, <1>5, <1>6 DEF post_single_fast
\* Node 0 proposes: everything before is done, and the next node is ready.
LEMMA ProposeChain ==
  ASSUME ChainInv, NEW t \in Threads, Propose(t)
  PROVE  ChainInv' /\ calls' = calls + 1 /\ UNCHANGED <<taken, returned>>
<1> DEFINE i == next_room_free[0]
           h == [proposal |-> reserved[0][2] % Proposals, message |-> 2]
<1>1. /\ calls < MaxCalls /\ calls' = calls + 1
      /\ pc[0] = "propose" /\ pc' = [pc EXCEPT ![0] = "post"]
      /\ propose_lock' = t
      /\ hdr' = [hdr EXCEPT ![0][i] = h]
      /\ payload' = [payload EXCEPT ![0][i] = calls']
      /\ canary' = [canary EXCEPT ![0][i] = TRUE]
      /\ cur' = [cur EXCEPT ![0] = i]
      /\ next_room_free' = [next_room_free EXCEPT ![0] = Following(i)]
      /\ memc' = memc /\ done' = done /\ seen' = seen
      /\ reserved' = reserved /\ local_proposal' = local_proposal
      /\ taken' = taken /\ returned' = returned
  BY Chain DEF Propose, From, startVars
<1>2. /\ 0 \in Nodes /\ 1 \in Nodes /\ 2 \in Nodes /\ HEAD = 0 /\ TAIL = 2
      /\ i \in Position /\ Following(i) \in Position
      /\ calls \in Nat /\ calls' \in 0 .. MaxCalls
  <2>1. i \in Position
    BY Now, Chain
  <2>2. calls \in Nat /\ calls' \in 0 .. MaxCalls
    BY <1>1, CraqAssumption, Now DEF TypeOK
  <2> QED  BY <2>1, <2>2, Room, Chain
<1>3. h \in [proposal : 0 .. Proposals - 1, message : {0, 2}] /\ h.message = 2
  <2>1. reserved[0] \in {0, MAGIC} \X (0 .. MAGIC + MaxCalls)
    BY <1>2, Now DEF TypeOK
  <2>2. reserved[0][2] \in Nat
    BY <2>1, CraqAssumption DEF MAGIC
  <2>3. reserved[0][2] % Proposals \in 0 .. Proposals - 1
    BY <2>2, Proposal
  <2> QED  BY <2>3
<1> HIDE DEF i, h
<1>4. /\ hdr' \in [Nodes -> [Position -> [proposal : 0 .. Proposals - 1, message : {0, 2}]]]
      /\ \A m \in Nodes, j \in Position : hdr'[m][j] = IF m = 0 /\ j = i THEN h ELSE hdr[m][j]
  <2> DEFINE S == [proposal : 0 .. Proposals - 1, message : {0, 2}]
  <2>1. hdr \in [Nodes -> [Position -> S]] /\ h \in S
    BY <1>3, Now
  <2> HIDE DEF S
  <2>2. /\ hdr' \in [Nodes -> [Position -> S]]
        /\ \A m \in Nodes, j \in Position : hdr'[m][j] = IF m = 0 /\ j = i THEN h ELSE hdr[m][j]
    BY <1>1, <1>2, <2>1, Written1
  <2> QED  BY <2>2 DEF S
<1>5. /\ payload' \in [Nodes -> [Position -> 0 .. MaxCalls]]
      /\ \A m \in Nodes, j \in Position :
           payload'[m][j] = IF m = 0 /\ j = i THEN calls' ELSE payload[m][j]
  <2> DEFINE S == 0 .. MaxCalls
  <2>1. payload \in [Nodes -> [Position -> S]] /\ calls' \in S
    BY <1>2, Now
  <2> HIDE DEF S
  <2>2. payload' = [payload EXCEPT ![0] = [payload[0] EXCEPT ![i] = calls']]
    BY <1>1
  <2>3. /\ payload' \in [Nodes -> [Position -> S]]
        /\ \A m \in Nodes, j \in Position :
             payload'[m][j] = IF m = 0 /\ j = i THEN calls' ELSE payload[m][j]
    BY <1>2, <2>1, <2>2
  <2> QED  BY <2>3 DEF S
<1>6. /\ canary' \in [Nodes -> [Position -> BOOLEAN]]
      /\ \A m \in Nodes : m # 0 => canary'[m] = canary[m]
  BY <1>1, <1>2, Now
<1>7. /\ cur' \in [Nodes -> Position] /\ next_room_free' \in [Nodes -> Position]
      /\ cur'[0] = i /\ cur'[1] = cur[1] /\ cur'[2] = cur[2]
      /\ \A m \in Nodes : pc'[m] = IF m = 0 THEN "post" ELSE pc[m]
  <2>1. cur' \in [Nodes -> Position] /\ cur'[0] = i /\ cur'[1] = cur[1] /\ cur'[2] = cur[2]
    BY <1>1, <1>2, Now
  <2>2. next_room_free' \in [Nodes -> Position]
    <3> DEFINE v == Following(i)
    <3>1. next_room_free' = [next_room_free EXCEPT ![0] = v] /\ v \in Position
      BY <1>1, <1>2
    <3> HIDE DEF v
    <3> QED  BY <3>1, Now
  <2>3. \A m \in Nodes : pc'[m] = IF m = 0 THEN "post" ELSE pc[m]
    BY <1>1, <1>2, Now
  <2> QED  BY <2>1, <2>2, <2>3
<1>8. /\ Got(0) = calls /\ Got(0)' = calls' /\ Got(1)' = Got(1) /\ Got(2)' = Got(2)
      /\ ~Behind(0) /\ pc[1] \notin Holding
      /\ ~Behind(1) /\ pc[2] \notin Holding
      /\ pc[1] \in {"listen", "clear"} /\ pc[2] \notin Booting
  <2>1. ~Behind(0) /\ pc[1] \notin Holding
    BY <1>1, Quiet DEF Sending, Posting
  <2>2. ~Behind(1) /\ pc[2] \notin Holding
    BY <2>1, Quiet DEF Holding
  <2>3. pc[1] \in {"listen", "clear"} /\ pc[2] \notin Booting
    BY <1>1, <1>2, <2>1, Now DEF BootInv, Booting
  <2> QED  BY <1>1, <1>2, <2>1, <2>2, <2>3 DEF Got
<1>9. TypeOK'
  BY <1>1, <1>2, <1>4, <1>5, <1>6, <1>7, Now DEF TypeOK, Holding, Sending, Posting
<1>10. BootInv'
  BY <1>1, <1>2, <1>7, <1>8, Now DEF BootInv, Booting, Sending, Posting
<1>11. HistoryInv'
  <2>1. /\ pc'[0] \in Sending /\ pc[0] \notin Sending
    BY <1>1, <1>2, <1>7 DEF Sending, Posting
  <2>2. ASSUME NEW m \in Nodes, pc'[m] \in Holding  PROVE payload'[m][cur'[m]] = Got(m)'
    <3>1. m = 0
      BY <1>7, <1>8, <2>2, Chain
    <3> QED  BY <3>1, <1>2, <1>5, <1>7, <1>8
  <2>3. calls' = Len(returned') + 1
    <3>1. calls = Len(returned) + 0
      BY <1>2, <2>1, Now DEF HistoryInv
    <3>2. Len(returned) \in Nat
      BY <1>2, NodeType, Now
    <3> QED  BY <1>1, <3>1, <3>2
  <2> QED  BY <1>1, <1>2, <2>1, <2>2, <2>3, Now DEF HistoryInv
<1>12. Link(0)'
  <2>1. Behind(0)' /\ Got(0)' = Got(1)' + 1
    <3>1. Got(1) = calls
      BY <1>8 DEF Behind
    <3> QED  BY <3>1, <1>1, <1>2, <1>8 DEF Behind
  <2>2. hdr'[0][i].message = 2
    BY <1>2, <1>3, <1>4
  <2>3. /\ pc'[0] = "post" /\ pc'[0 + 1] = pc[1] /\ cur'[0] = i /\ cur'[0 + 1] = cur[1]
        /\ canary'[0 + 1] = canary[1] /\ Got(0 + 1)' = Got(1)'
    BY <1>2, <1>6, <1>7
  <2>4. \A j \in Position : canary[1][j] => j = cur[1] /\ pc[1] = "clear"
    BY <1>8, Now DEF Link
  <2> QED  BY <1>8, <2>1, <2>2, <2>3, <2>4 DEF Link, Sending, Posting
<1>13. Link(1)'
  <2>1. /\ pc'[1] = pc[1] /\ pc'[1 + 1] = pc[1 + 1] /\ cur'[1] = cur[1] /\ cur'[1 + 1] = cur[1 + 1]
        /\ canary'[1 + 1] = canary[1 + 1] /\ pc[1 + 1] = pc[2]
    BY <1>2, <1>6, <1>7
  <2>2. ~Behind(1)'
    BY <1>8 DEF Behind
  <2>3. pc[1] \notin Posting
    BY <1>8 DEF Posting
  <2> QED  BY <1>8, <2>1, <2>2, <2>3, Now DEF Link
<1> QED  BY <1>1, <1>9, <1>10, <1>11, <1>12, <1>13, Chain DEF ChainInv

\* An answered call returns: everybody has its entry.
LEMMA ProposedChain ==
  ASSUME ChainInv, Proposed
  PROVE  ChainInv' /\ UNCHANGED <<calls, taken>>
<1>1. /\ pc[0] = "ack_wait" /\ pc' = [pc EXCEPT ![0] = "propose"]
      /\ hdr[0][cur[0]].message = 0
      /\ reserved' = [reserved EXCEPT ![0][2] = @ + 1]
      /\ propose_lock' = NoThread
      /\ returned' = Append(returned, payload[0][cur[0]])
      /\ memc' = memc /\ done' = done /\ seen' = seen
      /\ hdr' = hdr /\ payload' = payload /\ canary' = canary
      /\ next_room_free' = next_room_free /\ local_proposal' = local_proposal /\ cur' = cur
      /\ calls' = calls /\ taken' = taken
  BY Chain DEF Proposed, Acked, From, startVars, ringVars, placeVars
<1>2. /\ 0 \in Nodes /\ 1 \in Nodes /\ 2 \in Nodes /\ HEAD = 0 /\ TAIL = 2
      /\ returned \in Seq(0 .. MaxCalls) /\ Len(returned) \in Nat
      /\ calls \in Nat /\ calls <= MaxCalls /\ MaxCalls \in Nat
  BY Chain, Now, NodeType, CraqAssumption DEF TypeOK
<1>3. ~Behind(0) /\ pc[1] \notin Holding
  BY <1>1, Now DEF Link
<1>4. /\ payload[0][cur[0]] = calls /\ calls = Len(returned) + 1
  BY <1>1, <1>2, Now DEF HistoryInv, Got, Holding, Sending, Posting
<1>5. /\ returned' \in Seq(0 .. MaxCalls) /\ Len(returned') = Len(returned) + 1
      /\ \A i \in DOMAIN returned' : returned'[i] = i
  <2>1. returned' = Append(returned, calls) /\ calls \in 0 .. MaxCalls
    BY <1>1, <1>2, <1>4
  <2>2. \A i \in DOMAIN returned : returned[i] = i
    BY Now DEF HistoryInv
  <2> QED  BY <1>2, <1>4, <2>1, <2>2
<1>6. \A m \in Nodes : pc'[m] = IF m = 0 THEN "propose" ELSE pc[m]
  BY <1>1, Now
<1>7. /\ reserved' \in [Nodes -> {0, MAGIC} \X (0 .. MAGIC + MaxCalls)]
      /\ reserved'[0][2] = reserved[0][2] + 1 /\ reserved'[1] = reserved[1]
      /\ reserved[0][2] \in Nat
  <2>1. reserved[0] \in {0, MAGIC} \X (0 .. MAGIC + MaxCalls)
    BY <1>2, Now DEF TypeOK
  <2>2. /\ reserved[0][2] \in Nat /\ reserved[0][2] <= MAGIC + Len(returned)
        /\ reserved[0] = <<reserved[0][1], reserved[0][2]>> /\ reserved[0][1] \in {0, MAGIC}
    <3>1. reserved[0][2] \in 0 .. MAGIC + MaxCalls /\ reserved[0][1] \in {0, MAGIC}
      BY <2>1
    <3>2. reserved[0] = <<reserved[0][1], reserved[0][2]>>
      BY <2>1
    <3>3. reserved[0][2] \in Nat
      BY <3>1
    <3>4. reserved[0][2] <= MAGIC + Len(returned)
      BY <1>2, Now DEF BootInv
    <3> QED  BY <3>1, <3>2, <3>3, <3>4
  <2>3. reserved[0][2] + 1 \in 0 .. MAGIC + MaxCalls
    BY <1>2, <1>4, <2>2 DEF MAGIC
  <2>4. reserved' = [reserved EXCEPT ![0] = [reserved[0] EXCEPT ![2] = reserved[0][2] + 1]]
    BY <1>1
  <2>5. [reserved[0] EXCEPT ![2] = reserved[0][2] + 1] = <<reserved[0][1], reserved[0][2] + 1>>
    BY <2>2
  <2> DEFINE R == {0, MAGIC} \X (0 .. MAGIC + MaxCalls)
             r == <<reserved[0][1], reserved[0][2] + 1>>
  <2>6. r \in R /\ r[2] = reserved[0][2] + 1 /\ reserved \in [Nodes -> R]
    BY <2>2, <2>3, Now DEF TypeOK
  <2>7. reserved' = [reserved EXCEPT ![0] = r]
    BY <2>4, <2>5
  <2> HIDE DEF R, r
  <2>8. reserved' \in [Nodes -> R] /\ reserved'[0] = r /\ reserved'[1] = reserved[1]
    BY <1>2, <2>6, <2>7
  <2> QED  BY <2>2, <2>6, <2>8 DEF R
<1>8. TypeOK'
  BY <1>1, <1>2, <1>5, <1>7, Now DEF TypeOK
<1>9. BootInv'
  <2>1. /\ pc'[0] = "propose" /\ pc'[1] = pc[1] /\ pc'[2] = pc[2]
        /\ pc[0] \notin Booting /\ pc'[0] \notin Booting
    BY <1>1, <1>2, <1>6 DEF Booting
  <2>2. reserved'[0][2] <= MAGIC + Len(returned')
    <3>1. reserved[0][2] <= MAGIC + Len(returned)
      BY <1>2, Now DEF BootInv
    <3> QED  BY SMTT(60), <3>1, <1>2, <1>5, <1>7 DEF MAGIC
  <2> QED  BY <1>1, <1>2, <1>7, <2>1, <2>2, Now DEF BootInv
<1>10. Got(0)' = Got(0) /\ Got(1)' = Got(1) /\ Got(2)' = Got(2)
  BY <1>1 DEF Got
<1>11. HistoryInv'
  <2>1. pc'[0] = "propose" /\ pc'[0] \notin Holding /\ pc'[0] \notin Sending
    BY <1>2, <1>6 DEF Holding, Sending, Posting
  <2>2. \A m \in Nodes : pc'[m] \in Holding => payload'[m][cur'[m]] = Got(m)'
    BY <1>1, <1>6, <1>10, <2>1, Chain, Now DEF HistoryInv
  <2>3. calls' = Len(returned')
    BY <1>1, <1>4, <1>5
  <2>4. calls' = Len(returned') + (IF pc'[0] \in Sending THEN 1 ELSE 0)
    BY <1>2, <1>5, <2>1, <2>3
  <2> QED  BY <1>1, <1>2, <1>5, <2>2, <2>4, Now DEF HistoryInv
<1>12. Link(0)'
  <2>1. /\ pc'[0] = "propose" /\ pc'[0 + 1] = pc[0 + 1] /\ pc[0 + 1] = pc[1] /\ ~Behind(0)'
    BY <1>2, <1>3, <1>6, <1>10 DEF Behind
  <2> QED  BY <1>1, <1>3, <2>1, Now DEF Link, Posting
<1>13. Link(1)'
  <2>1. /\ pc'[1] = pc[1] /\ pc'[1 + 1] = pc[1 + 1] /\ Behind(1)' = Behind(1)
        /\ Got(1)' = Got(1) /\ Got(1 + 1)' = Got(1 + 1)
    BY <1>2, <1>6, <1>10 DEF Behind
  <2> QED  BY <1>1, <2>1, Now DEF Link
<1> QED  BY <1>1, <1>8, <1>9, <1>11, <1>12, <1>13, Chain DEF ChainInv

----------------------------------------------------------------------------
(* What a waiter does.                                                     *)

\* The nodes around a waiter.
LEMMA Waiter ==
  ASSUME NEW n \in Waiters
  PROVE  /\ n \in Nodes /\ n - 1 \in {0, 1} /\ n - 1 \in Nodes /\ n - 1 # n /\ n - 1 + 1 = n
         /\ n \in {1, 2} /\ n # 0 /\ HEAD = 0 /\ TAIL = 2
         /\ 0 \in Nodes /\ 1 \in Nodes /\ 2 \in Nodes
BY Chain

\* A waiter that moves from one of its steps to another has left start-up.
LEMMA WaiterBoot ==
  ASSUME ChainInv, NEW n \in Waiters, pc[n] \notin Booting,
         NEW l \in Holding \cup {"listen", "clear"}, n = TAIL => l \in {"listen", "ack", "clear"},
         pc' = [pc EXCEPT ![n] = l],
         reserved' = reserved, returned' = returned, calls' = calls
  PROVE  /\ BootInv' /\ pc' \in [Nodes -> Booting \cup Holding \cup {"propose", "listen", "clear"}]
         /\ \A m \in Nodes : pc'[m] = IF m = n THEN l ELSE pc[m]
<1>1. \A m \in Nodes : pc'[m] = IF m = n THEN l ELSE pc[m]
  BY Waiter, Now
<1>2. l \notin Booting
  BY DEF Booting, Holding, Sending, Posting
<1>3. \A m \in Nodes : pc[m] \in Booting <=> pc'[m] \in Booting
  BY <1>1, <1>2
<1>4. /\ pc'[0] \in Booting \cup Sending \cup {"propose"}
      /\ pc'[1] \in Booting \cup Holding \cup {"listen", "clear"}
      /\ pc'[2] \in Booting \cup {"listen", "ack", "clear"}
  BY <1>1, Waiter, Now DEF BootInv
<1>5. BootInv'
  BY <1>3, <1>4, Waiter, Now DEF BootInv
<1>6. pc' \in [Nodes -> Booting \cup Holding \cup {"propose", "listen", "clear"}]
  BY Now, Waiter
<1> QED  BY <1>1, <1>5, <1>6

\* Only the middle node has an ACK to wait for; nothing is under way behind it then.
LEMMA AckWaitChain ==
  ASSUME ChainInv, NEW n \in Waiters, AckWait(n)
  PROVE  ChainInv' /\ UNCHANGED <<calls, taken, returned>>
<1>1. /\ pc[n] = "ack_wait" /\ pc' = [pc EXCEPT ![n] = "ack"]
      /\ hdr[n][cur[n]].message = 0
      /\ memc' = memc /\ done' = done /\ seen' = seen
      /\ hdr' = hdr /\ payload' = payload /\ canary' = canary
      /\ reserved' = reserved /\ propose_lock' = propose_lock
      /\ next_room_free' = next_room_free /\ local_proposal' = local_proposal /\ cur' = cur
      /\ calls' = calls /\ taken' = taken /\ returned' = returned
  BY DEF AckWait, Acked, From, Written, startVars, ringVars, placeVars, history
<1>2. n = 1 /\ 1 \in Nodes /\ 0 \in Nodes /\ 2 \in Nodes /\ HEAD = 0 /\ TAIL = 2
  BY <1>1, Waiter, Now DEF BootInv, Booting
<1>3. /\ BootInv' /\ pc' \in [Nodes -> Booting \cup Holding \cup {"propose", "listen", "clear"}]
      /\ \A m \in Nodes : pc'[m] = IF m = 1 THEN "ack" ELSE pc[m]
  BY <1>1, <1>2, WaiterBoot DEF Holding, Booting
<1>4. TypeOK'
  BY <1>1, <1>3, Now DEF TypeOK
<1>5. ~Behind(1) /\ pc[2] \notin Holding
  <2>1. hdr[1][cur[1]].message # 2 /\ 1 + 1 = 2 /\ Link(1)
    BY <1>1, <1>2, Now
  <2> QED  BY <2>1 DEF Link
<1>6. /\ Got(0)' = Got(0) /\ Got(1)' = Got(1) /\ Got(2)' = Got(2)
      /\ pc'[1] = "ack" /\ pc'[0] = pc[0] /\ pc'[2] = pc[2]
      /\ pc[1] \in Holding /\ pc'[1] \in Holding /\ pc'[1] \notin Sending
      /\ pc[1] = "ack_wait"
  BY <1>1, <1>2, <1>3 DEF Got, Holding, Sending, Posting
<1>7. HistoryInv'
  <2>1. \A m \in Nodes : pc'[m] \in Holding => pc[m] \in Holding
    BY <1>3, <1>6
  <2>2. \A m \in Nodes : Got(m)' = Got(m)
    BY <1>1 DEF Got
  <2> QED  BY <1>1, <1>2, <1>6, <2>1, <2>2, Now DEF HistoryInv
<1>8. Link(0)'
  <2>1. /\ Behind(0)' = Behind(0) /\ ~Behind(0) /\ pc'[0 + 1] = "ack" /\ pc[0 + 1] \in Holding
        /\ pc'[0 + 1] \in Holding /\ Link(0)
    BY <1>6, Now DEF Behind, Link
  <2> QED  BY <1>1, <1>6, <2>1 DEF Link
<1>9. Link(1)'
  <2>1. ~Behind(1)' /\ pc'[1 + 1] = pc[2] /\ pc[1 + 1] = pc[2]
    BY <1>5, <1>6 DEF Behind
  <2> QED  BY <1>1, <1>5, <1>6, <2>1, Now DEF Link, Sending
<1> QED  BY <1>1, <1>3, <1>4, <1>7, <1>8, <1>9, Chain DEF ChainInv

\* An entry's canary is the last of it that a waiter clears.
LEMMA ClearChain ==
  ASSUME ChainInv, NEW n \in Waiters, ClearCanary(n)
  PROVE  ChainInv' /\ UNCHANGED <<calls, taken, returned>>
<1> DEFINE c == cur[n]
<1>1. /\ pc[n] = "clear" /\ pc' = [pc EXCEPT ![n] = "listen"]
      /\ canary' = [canary EXCEPT ![n][c] = FALSE]
      /\ memc' = memc /\ done' = done /\ seen' = seen
      /\ hdr' = hdr /\ payload' = payload
      /\ reserved' = reserved /\ propose_lock' = propose_lock
      /\ next_room_free' = next_room_free /\ local_proposal' = local_proposal /\ cur' = cur
      /\ calls' = calls /\ taken' = taken /\ returned' = returned
  BY DEF ClearCanary, From, Written, startVars, placeVars, history
<1>2. n \in Nodes /\ c \in Position
  BY Waiter, Now
<1>3. /\ BootInv' /\ pc' \in [Nodes -> Booting \cup Holding \cup {"propose", "listen", "clear"}]
      /\ \A m \in Nodes : pc'[m] = IF m = n THEN "listen" ELSE pc[m]
  BY <1>1, WaiterBoot DEF Booting
<1>4. /\ canary' \in [Nodes -> [Position -> BOOLEAN]]
      /\ \A m \in Nodes, i \in Position :
           canary'[m][i] = IF m = n /\ i = c THEN FALSE ELSE canary[m][i]
  <2> DEFINE S == BOOLEAN
             v == FALSE
  <2>1. canary \in [Nodes -> [Position -> S]] /\ v \in S /\ canary' = [canary EXCEPT ![n][c] = v]
    BY <1>1, Now
  <2> HIDE DEF c, S, v
  <2>2. /\ canary' \in [Nodes -> [Position -> S]]
        /\ \A m \in Nodes, i \in Position :
             canary'[m][i] = IF m = n /\ i = c THEN v ELSE canary[m][i]
    BY <1>2, <2>1, Written1
  <2> QED  BY <2>2 DEF S, v
<1>5. TypeOK'
  BY <1>1, <1>3, <1>4, Now DEF TypeOK
<1>6. \A m \in Nodes : Got(m)' = Got(m) /\ (pc'[m] \in Holding <=> pc[m] \in Holding)
  BY <1>1, <1>3 DEF Got, Holding, Sending, Posting
<1>7. pc'[0] \in Sending <=> pc[0] \in Sending
  BY <1>3, Waiter
<1>8. HistoryInv'
  BY <1>1, <1>6, <1>7, Chain, Now DEF HistoryInv
<1>9. ASSUME NEW m \in {0, 1}  PROVE Link(m)'
  <2>1. m \in Nodes /\ m + 1 \in Nodes /\ Link(m)
    BY Chain DEF ChainInv
  <2>2. Behind(m)' = Behind(m) /\ Got(m)' = Got(m) /\ Got(m + 1)' = Got(m + 1)
    BY <1>6, <2>1 DEF Behind
  <2>3. /\ pc[m] \notin Sending => pc[m + 1] \notin Holding
        /\ \A x \in {m, m + 1} : pc'[x] = pc[x] \/ (pc[x] = "clear" /\ pc'[x] = "listen")
    BY <1>1, <1>3, <2>1 DEF Link
  <2>4. ASSUME NEW i \in Position, canary'[m + 1][i]
        PROVE  \/ i = cur'[m + 1] /\ pc'[m + 1] \in Holding \cup {"clear"}
               \/ i = cur'[m] /\ pc'[m] = "ack_wait" /\ Behind(m)'
    <3>1. canary[m + 1][i] /\ ~(m + 1 = n /\ i = c)
      BY <1>4, <2>1, <2>4
    <3>2. CASE i = cur[m] /\ pc[m] = "ack_wait" /\ Behind(m)
      BY <1>1, <2>2, <2>3, <3>2
    <3>3. CASE i = cur[m + 1] /\ pc[m + 1] \in Holding \cup {"clear"}
      <4>1. m + 1 # n
        BY <3>1, <3>3
      <4> QED  BY <1>1, <1>3, <2>1, <3>3, <4>1
    <3> QED  BY <2>1, <3>1, <3>2, <3>3 DEF Link
  <2>5. /\ pc'[m] \in Posting => pc[m] \in Posting
        /\ pc'[m] \notin Sending => pc[m] \notin Sending
        /\ pc'[m + 1] \in Holding <=> pc[m + 1] \in Holding
        /\ pc'[m] \in {"post", "post_canary", "ack_wait"} <=> pc[m] \in {"post", "post_canary", "ack_wait"}
        /\ pc'[m] = "post" <=> pc[m] = "post"
        /\ pc[m + 1] \in {"listen", "clear"} => pc'[m + 1] \in {"listen", "clear"}
    BY <1>6, <2>1, <2>3 DEF Posting, Sending
  <2> QED  BY <1>1, <2>1, <2>2, <2>3, <2>4, <2>5 DEF Link
<1> QED  BY <1>1, <1>3, <1>5, <1>8, <1>9, Chain DEF ChainInv

\* An ACK is for an entry the node before still waits with.
LEMMA AckChain ==
  ASSUME ChainInv, NEW n \in Waiters, Ack(n)
  PROVE  ChainInv' /\ UNCHANGED <<calls, taken, returned>>
<1> DEFINE c == cur[n]
           k == n - 1
           H == [proposal : 0 .. Proposals - 1, message : {0, 2}]
<1>1. /\ pc[n] = "ack" /\ pc' = [pc EXCEPT ![n] = "clear"]
      /\ hdr' = [hdr EXCEPT ![n][c].message = 0, ![k][c].message = 0]
      /\ memc' = memc /\ done' = done /\ seen' = seen
      /\ canary' = canary /\ payload' = payload
      /\ reserved' = reserved /\ propose_lock' = propose_lock
      /\ next_room_free' = next_room_free /\ local_proposal' = local_proposal /\ cur' = cur
      /\ calls' = calls /\ taken' = taken /\ returned' = returned
  BY DEF Ack, From, Written, startVars, placeVars, history
<1>2. /\ n \in Nodes /\ k \in Nodes /\ k # n /\ c \in Position /\ k \in {0, 1} /\ k + 1 = n
      /\ hdr \in [Nodes -> [Position -> H]]
  BY Waiter, Now
<1> HIDE DEF c, H
<1>3. /\ BootInv' /\ pc' \in [Nodes -> Booting \cup Holding \cup {"propose", "listen", "clear"}]
      /\ \A m \in Nodes : pc'[m] = IF m = n THEN "clear" ELSE pc[m]
  BY <1>1, WaiterBoot DEF Booting
<1>4. /\ hdr' \in [Nodes -> [Position -> H]]
      /\ \A m \in Nodes : m \notin {n, k} => hdr'[m] = hdr[m]
  <2> DEFINE v == [hdr[n][c] EXCEPT !.message = 0]
             w == [hdr[k][c] EXCEPT !.message = 0]
             A == [hdr[n] EXCEPT ![c] = v]
             B == [hdr[k] EXCEPT ![c] = w]
  <2>1. hdr' = [hdr EXCEPT ![n] = A, ![k] = B]
    <3> HIDE DEF k
    <3> QED  BY <1>1, <1>2
  <2>2. v \in H /\ w \in H
    <3>1. hdr[n][c] \in H /\ hdr[k][c] \in H
      BY <1>2
    <3> QED  BY <3>1 DEF H
  <2>3. A \in [Position -> H] /\ B \in [Position -> H]
    <3> HIDE DEF v, w, k
    <3> QED  BY <1>2, <2>2
  <2> HIDE DEF A, B, k
  <2> QED  BY <1>2, <2>1, <2>3
<1>5. TypeOK'
  BY <1>1, <1>3, <1>4, Now DEF TypeOK, H
<1>6. \A m \in Nodes : /\ Got(m)' = Got(m) /\ (pc'[m] \in Sending <=> pc[m] \in Sending)
                       /\ pc'[m] \in Holding => pc[m] \in Holding
  BY <1>1, <1>3 DEF Got, Holding, Sending, Posting
<1>7. HistoryInv'
  BY <1>1, <1>6, Chain, Now DEF HistoryInv
<1>8. Link(k) /\ pc[k] = "ack_wait" /\ ~Behind(k) /\ pc'[n] = "clear" /\ pc'[k] = "ack_wait"
  <2>1. Link(k) /\ pc[k + 1] = "ack"
    BY <1>1, <1>2, Chain DEF ChainInv
  <2>2. ~Behind(k) /\ pc[k] \in Sending /\ pc[k] \notin Posting
    BY <2>1 DEF Link, Holding
  <2> QED  BY <1>2, <1>3, <2>1, <2>2 DEF Sending
<1>9. Link(k)'
  <2>1. ~Behind(k)'
    BY <1>2, <1>6, <1>8 DEF Behind
  <2>2. \A i \in Position : canary'[k + 1][i] => i = cur'[k + 1]
    BY <1>1, <1>2, <1>8 DEF Link
  <2>3. /\ pc'[k] = "ack_wait" /\ pc'[k + 1] = "clear"
        /\ "ack_wait" \in Sending /\ "ack_wait" \notin Posting /\ "clear" \notin Holding
    BY <1>2, <1>8 DEF Holding, Sending, Posting
  <2> QED  BY <2>1, <2>2, <2>3 DEF Link
<1>10. ASSUME n = 1  PROVE Link(1)'
  <2>1. /\ pc[1] = "ack" /\ "ack" \notin Sending /\ Link(1) /\ 1 + 1 = 2
        /\ "clear" \notin Sending /\ "clear" \notin Posting
    BY <1>1, <1>10, Now DEF Sending, Posting
  <2>2. ~Behind(1) /\ pc[2] \notin Holding
    BY <2>1 DEF Link
  <2>3. ~Behind(1)' /\ pc'[2] = pc[2] /\ pc'[1] = "clear"
    BY <1>2, <1>3, <1>6, <1>10, <2>1, <2>2, Chain DEF Behind
  <2>4. \A i \in Position : canary'[2][i] => i = cur'[2] /\ pc'[2] \in Holding \cup {"clear"}
    BY <1>1, <2>1, <2>2, <2>3 DEF Link
  <2> QED  BY <2>1, <2>2, <2>3, <2>4 DEF Link
<1>11. ASSUME n = 2  PROVE Link(0)'
  <2>1. /\ pc[1] = "ack_wait" /\ pc'[1] = "ack_wait" /\ pc'[0] = pc[0] /\ 0 + 1 = 1 /\ k = 1
        /\ hdr'[0] = hdr[0] /\ Link(0)
        /\ "ack_wait" \in Holding
    BY <1>2, <1>3, <1>4, <1>8, <1>11, Chain, Now DEF Holding, Sending
  <2>2. ~Behind(0)
    BY <2>1 DEF Link
  <2>3. ~Behind(0)'
    BY <1>6, <2>1, <2>2, Chain DEF Behind
  <2> QED  BY <1>1, <2>1, <2>2, <2>3 DEF Link
<1> QED  BY <1>1, <1>2, <1>3, <1>5, <1>7, <1>9, <1>10, <1>11, Chain, Waiter DEF ChainInv

\* What a waiter detects is what the node before has sent last, whole, and it
\* is the entry after the one it took before.
LEMMA DetectChain ==
  ASSUME ChainInv, NEW n \in Waiters, Detect(n)
  PROVE  /\ ChainInv' /\ UNCHANGED <<calls, returned>>
         /\ Len(taken[n]) < calls
         /\ taken' = [taken EXCEPT ![n] = Append(taken[n], Len(taken[n]) + 1)]
<1> DEFINE i == next_room_free[n]
           k == n - 1
           l == IF n = 2 THEN "ack" ELSE "post"
           lp == (hdr[n][i].proposal + 1) % Proposals
<1>1. /\ canary[n][i] /\ pc[n] = "listen" /\ pc' = [pc EXCEPT ![n] = l]
      /\ cur' = [cur EXCEPT ![n] = i]
      /\ next_room_free' = [next_room_free EXCEPT ![n] = Following(i)]
      /\ local_proposal' = [local_proposal EXCEPT ![n] = lp]
      /\ taken' = [taken EXCEPT ![n] = Append(taken[n], payload[n][i])]
      /\ memc' = memc /\ done' = done /\ seen' = seen
      /\ hdr' = hdr /\ canary' = canary /\ payload' = payload
      /\ reserved' = reserved /\ propose_lock' = propose_lock
      /\ calls' = calls /\ returned' = returned
  BY DEF Detect, Arrived, From, startVars, ringVars, TAIL
<1>2. /\ n \in Nodes /\ k \in Nodes /\ k # n /\ k \in {0, 1} /\ k + 1 = n /\ n \in {1, 2}
      /\ i \in Position /\ Following(i) \in Position /\ n # HEAD /\ Waiters \subseteq Nodes
  <2>1. i \in Position
    BY Waiter, Now
  <2> QED  BY <2>1, Room, Waiter, Chain
<1>3. lp \in 0 .. Proposals - 1
  <2>1. hdr[n][i] \in [proposal : 0 .. Proposals - 1, message : {0, 2}]
    BY <1>2, Now
  <2>2. hdr[n][i].proposal + 1 \in Nat
    BY <2>1, CraqAssumption
  <2> QED  BY <2>2, Proposal
<1> HIDE DEF i, k, lp
<1>4. /\ BootInv' /\ pc' \in [Nodes -> Booting \cup Holding \cup {"propose", "listen", "clear"}]
      /\ \A m \in Nodes : pc'[m] = IF m = n THEN l ELSE pc[m]
  BY <1>1, WaiterBoot, Chain DEF Booting, Holding, Sending, Posting
<1>5. Link(k) /\ i = cur[k] /\ pc[k] = "ack_wait" /\ Behind(k)
  <2>1. Link(k) /\ canary[k + 1][i] /\ pc[k + 1] = "listen"
    BY <1>1, <1>2, Chain DEF ChainInv
  <2> QED  BY <1>2, <2>1 DEF Link, Holding, Sending, Posting
<1>6. /\ payload[n][i] = Got(k) /\ Got(k) = Got(n) + 1 /\ hdr[k][i].message = 2
      /\ hdr[n][i].message = 2
  BY <1>2, <1>5 DEF Link
<1>7. /\ Got(n) = Len(taken[n]) /\ Got(n) \in Nat /\ Got(k) \in Nat
      /\ taken[n] \in Seq(0 .. MaxCalls)
  BY <1>2, NodeType, Now DEF Got
<1>8. /\ taken' = [taken EXCEPT ![n] = Append(taken[n], Got(n) + 1)]
      /\ Got(n) + 1 \in 0 .. MaxCalls
  <2>1. payload[n][i] \in 0 .. MaxCalls
    BY <1>2, NodeType, Now
  <2> QED  BY <1>1, <1>6, <2>1
<1>9. /\ taken' \in [Nodes -> Seq(0 .. MaxCalls)]
      /\ taken'[n] = Append(taken[n], Got(n) + 1)
      /\ \A m \in Nodes : m # n => taken'[m] = taken[m]
  <2> DEFINE s == Append(taken[n], Got(n) + 1)
  <2>1. s \in Seq(0 .. MaxCalls)
    BY <1>7, <1>8
  <2>2. taken' = [taken EXCEPT ![n] = s]
    BY <1>8
  <2> HIDE DEF s
  <2>3. /\ taken' \in [Nodes -> Seq(0 .. MaxCalls)] /\ taken'[n] = s
        /\ \A m \in Nodes : m # n => taken'[m] = taken[m]
    BY <1>2, <2>1, <2>2, Now
  <2> QED  BY <2>3 DEF s
<1>10. /\ Got(n)' = Got(n) + 1
       /\ \A m \in Nodes : m # n => Got(m)' = Got(m)
  <2>1. Len(taken'[n]) = Got(n) + 1
    BY <1>7, <1>8, <1>9
  <2> QED  BY <1>1, <1>2, <1>9, <2>1 DEF Got
<1>11. /\ cur' \in [Nodes -> Position] /\ cur'[n] = i
       /\ \A m \in Nodes : m # n => cur'[m] = cur[m]
  BY <1>1, <1>2, Now
<1>12. next_room_free' \in [Nodes -> Position]
  <2> DEFINE v == Following(i)
  <2>1. next_room_free' = [next_room_free EXCEPT ![n] = v] /\ v \in Position
    BY <1>1, <1>2
  <2> HIDE DEF v
  <2> QED  BY <2>1, Now
<1>13. local_proposal' \in [Nodes -> 0 .. Proposals - 1]
  <2> DEFINE S == 0 .. Proposals - 1
  <2>1. local_proposal \in [Nodes -> S] /\ lp \in S
    BY <1>3, Now DEF TypeOK
  <2> HIDE DEF S
  <2>2. local_proposal' \in [Nodes -> S]
    BY <1>1, <2>1
  <2> QED  BY <2>2 DEF S
<1>14. TypeOK'
  BY <1>1, <1>4, <1>9, <1>11, <1>12, <1>13, Now DEF TypeOK
<1>15. HistoryInv'
  <2>1. ASSUME NEW m \in Nodes, pc'[m] \in Holding  PROVE payload'[m][cur'[m]] = Got(m)'
    <3>1. CASE m = n
      BY <1>1, <1>6, <1>10, <1>11, <3>1
    <3>2. CASE m # n
      BY <1>1, <1>4, <1>10, <1>11, <2>1, <3>2, Now DEF HistoryInv
    <3> QED  BY <3>1, <3>2
  <2>2. ASSUME NEW m \in Waiters, NEW j \in DOMAIN taken'[m]  PROVE taken'[m][j] = j
    <3>1. CASE m = n
      <4>1. \A x \in DOMAIN taken[n] : taken[n][x] = x
        BY Now DEF HistoryInv
      <4> QED  BY <1>7, <1>8, <1>9, <2>2, <3>1, <4>1
    <3>2. CASE m # n
      BY <1>2, <1>9, <2>2, <3>2, Now DEF HistoryInv
    <3> QED  BY <3>1, <3>2
  <2>3. pc'[HEAD] \in Sending <=> pc[HEAD] \in Sending
    BY <1>2, <1>4, Chain
  <2> QED  BY <1>1, <2>1, <2>2, <2>3, Now DEF HistoryInv
<1>16. l \in Holding /\ pc'[n] = l /\ pc'[k] = "ack_wait"
  BY <1>2, <1>4, <1>5 DEF Holding, Sending, Posting
<1>17. Link(k)'
  <2>1. ~Behind(k)'
    BY <1>2, <1>6, <1>10 DEF Behind
  <2>2. \A j \in Position : canary'[k + 1][j] => j = i
    <3>1. "listen" \notin Holding \cup {"clear"} /\ pc[k + 1] = "listen"
      BY <1>1, <1>2 DEF Holding, Sending, Posting
    <3> QED  BY <1>1, <1>5, <3>1 DEF Link
  <2>3. /\ cur'[k] = i /\ cur'[k + 1] = i /\ pc'[k + 1] = l /\ hdr'[k][i].message = 2
        /\ "ack_wait" \in Sending /\ "ack_wait" \notin Posting
    BY <1>1, <1>2, <1>5, <1>6, <1>11, <1>16 DEF Sending, Posting
  <2> QED  BY <1>16, <2>1, <2>2, <2>3 DEF Link
<1>18. ASSUME n = 1  PROVE Link(1)'
  <2>1. /\ pc[1] = "listen" /\ 1 + 1 = 2 /\ 2 \in Nodes /\ l = "post" /\ Link(1)
        /\ "listen" \notin Sending /\ "listen" \notin Booting
    BY <1>1, <1>18, Chain, Now DEF Sending, Posting, Booting
  <2>2. Got(2) = Got(1) /\ pc[2] \notin Holding /\ ~Behind(1)
    BY <2>1 DEF Link, Behind
  <2>3. pc[2] \in {"listen", "clear"}
    BY <2>1, <2>2, Now, Chain DEF BootInv, Holding
  <2>4. Got(1)' = Got(2)' + 1 /\ Got(2)' # Got(1)'
    BY <1>2, <1>7, <1>10, <1>18, <2>1, <2>2
  <2>5. /\ pc'[1] = "post" /\ pc'[2] = pc[2] /\ cur'[1] = i /\ cur'[2] = cur[2]
        /\ hdr'[1][i].message = 2
    BY <1>1, <1>4, <1>6, <1>11, <1>18, <2>1, Chain
  <2>6. \A j \in Position : canary'[2][j] => j = cur'[2] /\ pc'[2] = "clear"
    BY <1>1, <2>1, <2>2, <2>5 DEF Link
  <2>7. "post" \in Posting /\ "post" \in Sending
    BY DEF Posting, Sending
  <2> QED  BY <2>1, <2>2, <2>3, <2>4, <2>5, <2>6, <2>7 DEF Link, Behind
<1>19. ASSUME n = 2  PROVE Link(0)'
  <2>1. /\ pc'[1] = pc[1] /\ pc'[0] = pc[0] /\ 0 + 1 = 1
        /\ cur'[1] = cur[1] /\ cur'[0] = cur[0] /\ Got(0)' = Got(0) /\ Got(1)' = Got(1)
        /\ Link(0)
    BY <1>2, <1>4, <1>10, <1>11, <1>19, Chain, Now
  <2>2. Behind(0)' = Behind(0)
    BY <2>1 DEF Behind
  <2> QED  BY <1>1, <2>1, <2>2 DEF Link
<1>20. ChainInv'
  <2>1. Link(0)' /\ Link(1)'
    BY <1>2, <1>17, <1>18, <1>19 DEF k
  <2> QED  BY <1>4, <1>14, <1>15, <2>1, Chain DEF ChainInv
<1>21. Len(taken[n]) < calls
  <2>1. Got(0) = calls /\ calls \in Nat /\ Got(1) \in Nat
    BY Chain, NodeType, Now DEF Got
  <2>2. Got(1) <= Got(0)
    <3>1. CASE Behind(0)
      BY <2>1, <3>1, Now DEF Link
    <3>2. CASE ~Behind(0)
      BY <2>1, <3>2 DEF Behind
    <3> QED  BY <3>1, <3>2
  <2>3. Got(k) <= calls
    BY <1>2, <2>1, <2>2
  <2> QED  BY <1>6, <1>7, <2>1, <2>3
<1> QED  BY <1>1, <1>7, <1>8, <1>20, <1>21

----------------------------------------------------------------------------
LEMMA NextChain == ChainInv /\ [Next]_vars => ChainInv'
<1> SUFFICES ASSUME ChainInv, [Next]_vars  PROVE ChainInv'
  OBVIOUS
<1>1. CASE UNCHANGED vars
  <2>1. /\ memc' = memc /\ done' = done /\ seen' = seen /\ reserved' = reserved
        /\ hdr' = hdr /\ payload' = payload /\ canary' = canary
        /\ next_room_free' = next_room_free /\ local_proposal' = local_proposal /\ cur' = cur
        /\ pc' = pc /\ propose_lock' = propose_lock
        /\ calls' = calls /\ taken' = taken /\ returned' = returned
    BY <1>1 DEF vars, startVars, ringVars, placeVars, history
  <2>2. TypeOK' /\ BootInv'
    BY <2>1, Now DEF TypeOK, BootInv
  <2>3. HistoryInv'
    BY <2>1, Now DEF HistoryInv, Got
  <2>4. \A n \in Nodes \ {TAIL} : Link(n)'
    BY <2>1 DEF ChainInv, Link, Behind, Got
  <2> QED  BY <2>2, <2>3, <2>4 DEF ChainInv
<1>2. ASSUME NEW n \in Nodes, NodeStep(n)  PROVE ChainInv'
  BY <1>2, StartUpChain, PostChain, ProposedChain, DetectChain, AckWaitChain, AckChain,
     ClearChain DEF NodeStep, rcraq_wait
<1>3. ASSUME NEW t \in Threads, Propose(t)  PROVE ChainInv'
  BY <1>3, ProposeChain
<1> QED  BY <1>1, <1>2, <1>3 DEF Next

\* Between two neighbours of the chain there is one entry at most; it is taken
\* whole, and its ACK is sent by a node for which all nodes behind have taken it.
THEOREM ChainInvCorrect == Spec => []ChainInv
<1> QED  BY InitChain, NextChain, PTL DEF Spec

\* rcraq_propose returns after its entry is, whole and at its place, at every node.
THEOREM ReturnedIsEverywhereCorrect == Spec => []ReturnedIsEverywhere
<1>1. ASSUME ChainInv  PROVE ReturnedIsEverywhere
  <2>1. /\ Got(0) = calls /\ Got(1) = Len(taken[1]) /\ Got(2) = Len(taken[2])
        /\ calls \in Nat /\ Got(1) \in Nat /\ Got(2) \in Nat /\ Len(returned) \in Nat
        /\ 0 + 1 = 1 /\ 1 + 1 = 2
    BY <1>1, Chain, NodeType, Now DEF Got
  <2>2. Link(0) /\ Link(1) /\ calls = Len(returned) + (IF pc[0] \in Sending THEN 1 ELSE 0)
    BY <1>1, Chain, Now DEF HistoryInv
  <2>3. Got(2) = Got(1) \/ (Got(2) + 1 = Got(1) /\ pc[1] \in Sending)
    BY <2>1, <2>2 DEF Link, Behind
  <2>4. Len(returned) <= Got(1) /\ Len(returned) <= Got(2)
    <3>1. CASE Behind(0)
      <4>1. pc[0] \in Sending /\ Got(0) = Got(1) + 1 /\ pc[1] \notin Sending
        BY <2>1, <2>2, <3>1 DEF Link, Sending, Posting
      <4> QED  BY <2>1, <2>2, <2>3, <4>1
    <3>2. CASE ~Behind(0)
      <4>1. Got(1) = calls
        BY <2>1, <3>2 DEF Behind
      <4>2. pc[0] \notin Sending => pc[1] \notin Sending
        BY <2>1, <2>2 DEF Link, Holding
      <4> QED  BY <2>1, <2>2, <2>3, <4>1, <4>2
    <3> QED  BY <3>1, <3>2
  <2>5. /\ \A n \in Waiters : \A i \in DOMAIN taken[n] : taken[n][i] = i
        /\ \A i \in DOMAIN returned : returned[i] = i
    BY <1>1, Now DEF HistoryInv
  <2>6. ASSUME NEW i \in DOMAIN returned, NEW n \in Waiters  PROVE i \in DOMAIN taken[n]
    <3>1. /\ i \in 1 .. Len(returned) /\ n \in {1, 2}
          /\ taken[n] \in Seq(0 .. MaxCalls)
      <4>1. n \in {1, 2} /\ n \in Nodes
        BY Chain
      <4>2. taken[n] \in Seq(0 .. MaxCalls) /\ returned \in Seq(0 .. MaxCalls)
        BY <1>1, <4>1, NodeType, Now
      <4> QED  BY <4>1, <4>2
    <3>2. Len(returned) <= Len(taken[n])
      BY <2>1, <2>4, <3>1
    <3> QED  BY <2>1, <3>1, <3>2
  <2> QED  BY <2>5, <2>6 DEF ReturnedIsEverywhere
<1> QED  BY <1>1, ChainInvCorrect, PTL

----------------------------------------------------------------------------
(* The chain is an ordered log towards each of its nodes.                  *)

LEMMA InitLog == Init => MiddleLog!Init /\ TailLog!Init
<1> SUFFICES ASSUME Init  PROVE Proposed1ToN = << >> /\ taken[1] = << >> /\ taken[TAIL] = << >>
  BY DEF MiddleLog!Init, TailLog!Init
<1>1. 1 .. 0 = {}
  OBVIOUS
<1>2. Proposed1ToN = [i \in {} |-> i]
  BY <1>1 DEF Init, Proposed1ToN
<1> QED  BY <1>2, Chain DEF Init

\* What a step of the chain does to the two histories.
LEMMA LogStep ==
  ASSUME ChainInv, [Next]_vars
  PROVE  \/ UNCHANGED <<calls, taken>>
         \/ calls' = calls + 1 /\ calls < MaxCalls /\ UNCHANGED taken
         \/ \E n \in Waiters :
              /\ calls' = calls /\ Len(taken[n]) < calls
              /\ taken' = [taken EXCEPT ![n] = Append(taken[n], Len(taken[n]) + 1)]
<1>1. CASE UNCHANGED vars
  BY <1>1 DEF vars, history
<1>2. ASSUME NEW t \in Threads, Propose(t)
      PROVE  calls' = calls + 1 /\ calls < MaxCalls /\ UNCHANGED taken
  BY <1>2 DEF Propose
<1>3. ASSUME NEW n \in Nodes, NodeStep(n), ~(n \in Waiters /\ Detect(n))
      PROVE  UNCHANGED <<calls, taken>>
  BY <1>3, StartUpChain, PostChain, ProposedChain, AckWaitChain, AckChain, ClearChain
     DEF NodeStep, rcraq_wait
<1>4. ASSUME NEW n \in Waiters, Detect(n)
      PROVE  /\ calls' = calls /\ Len(taken[n]) < calls
             /\ taken' = [taken EXCEPT ![n] = Append(taken[n], Len(taken[n]) + 1)]
  BY <1>4, DetectChain
<1> QED  BY <1>1, <1>2, <1>3, <1>4 DEF Next

LEMMA NextLog ==
  ASSUME ChainInv, [Next]_vars
  PROVE  /\ [MiddleLog!Next]_<<Proposed1ToN, taken[1]>>
         /\ [TailLog!Next]_<<Proposed1ToN, taken[TAIL]>>
<1>1. /\ calls \in Nat /\ MaxCalls \in Nat /\ 1 \in Nodes /\ 2 \in Nodes /\ TAIL = 2
      /\ Waiters = {1, 2}
      /\ taken \in [Nodes -> Seq(0 .. MaxCalls)]
      /\ Len(taken[1]) \in Nat /\ Len(taken[2]) \in Nat
  BY CraqAssumption, Chain, NodeType, Now
<1>2. CASE UNCHANGED <<calls, taken>>
  BY <1>2 DEF Proposed1ToN
<1>3. CASE calls' = calls + 1 /\ calls < MaxCalls /\ UNCHANGED taken
  <2>1. calls + 1 \in 1 .. MaxCalls
    BY <1>1, <1>3
  <2>2. Proposed1ToN' = Append(Proposed1ToN, calls + 1)
    BY <1>1, <1>3 DEF Proposed1ToN
  <2> QED  BY <1>3, <2>1, <2>2 DEF MiddleLog!Next, MiddleLog!Put, TailLog!Next, TailLog!Put
<1>4. ASSUME NEW n \in Waiters, calls' = calls, Len(taken[n]) < calls,
             taken' = [taken EXCEPT ![n] = Append(taken[n], Len(taken[n]) + 1)]
      PROVE  /\ [MiddleLog!Next]_<<Proposed1ToN, taken[1]>>
             /\ [TailLog!Next]_<<Proposed1ToN, taken[TAIL]>>
  <2>1. Proposed1ToN' = Proposed1ToN
    BY <1>4 DEF Proposed1ToN
  <2>2. Len(Proposed1ToN) = calls /\ Proposed1ToN[Len(taken[n]) + 1] = Len(taken[n]) + 1
    BY <1>1, <1>4 DEF Proposed1ToN
  <2>3. /\ taken'[n] = Append(taken[n], Len(taken[n]) + 1)
        /\ \A m \in {1, 2} : m # n => taken'[m] = taken[m]
    BY <1>1, <1>4
  <2>4. CASE n = 1
    BY <1>1, <1>4, <2>1, <2>2, <2>3, <2>4 DEF MiddleLog!Next, MiddleLog!Take
  <2>5. CASE n = 2
    BY <1>1, <1>4, <2>1, <2>2, <2>3, <2>5 DEF TailLog!Next, TailLog!Take
  <2> QED  BY <1>1, <2>4, <2>5
<1> QED  BY <1>2, <1>3, <1>4, LogStep

\* What node 0 proposes reaches each node after it in order, each entry once.
THEOREM ChainIsLogCorrect == Spec => ChainIsLog
<1>1. ChainInv /\ [Next]_vars =>
        /\ [MiddleLog!Next]_<<Proposed1ToN, taken[1]>>
        /\ [TailLog!Next]_<<Proposed1ToN, taken[TAIL]>>
  BY NextLog
<1> QED
  BY InitLog, <1>1, ChainInvCorrect, PTL DEF Spec, ChainIsLog, MiddleLog!Spec, TailLog!Spec
=============================================================================
