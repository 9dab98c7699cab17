--------------------------- MODULE BootstrapProofs ---------------------------
(***************************************************************************)
(* Start-up goes in order on any number of nodes: no key is deleted before *)
(* it was fetched, no buffer is written over before both its ends are      *)
(* connected or while a thread polls it, and nothing stays in memcached.   *)
(* The one race, for the key of the first barrier, is shown to be the only *)
(* one.                                                                    *)
(*                                                                         *)
(* First a node's program is written out, loop by loop; then what a step   *)
(* adds to what a node has done; then BootInv is shown to be inductive;    *)
(* and last it is put to use, with the order of the loops.                 *)
(***************************************************************************)
EXTENDS BootstrapInv, WellFoundedInduction, TLAPS

----------------------------------------------------------------------------
(* The program of a node, loop by loop                                     *)

Ops == {"push", "connect", "wait", "del", "sleep", "reset", "write", "poll", "spawn"}
Whats == Ends \cup {"qp-connected", "hbqp-connected", "hbstat-table"}
Loops == [whom : SUBSET Nodes, body : Seq([op : Ops, what : Whats])]

\* Concatenation, as it is needed here.
LEMMA Concat ==
  \A s, t \in Seq(Loops) :
    /\ s \o t \in Seq(Loops)
    /\ Len(s \o t) = Len(s) + Len(t)
    /\ \A i \in 1 .. Len(s) : (s \o t)[i] = s[i]
    /\ \A i \in 1 .. Len(t) : (s \o t)[Len(s) + i] = t[i]
OBVIOUS

\* The things a step can be about, one by one.
LEMMA WhatsAre ==
  Whats = {"replicator", "replayer", "checker", "receiver", "actv", "pssv",
           "qp-connected", "hbqp-connected", "hbstat-table"}
BY DEF Whats, Ends, Other

\* A loop over one step or over two is a loop.
LEMMA OneStep ==
  \A whom \in SUBSET Nodes, op \in Ops, what \in Whats :
     For(whom, <<Step(op, what)>>) \in Loops
BY DEF For, Step, Loops

LEMMA TwoSteps ==
  \A whom \in SUBSET Nodes, op1, op2 \in Ops, what1, what2 \in Whats :
    For(whom, <<Step(op1, what1), Step(op2, what2)>>) \in Loops
BY DEF For, Step, Loops

\* The parts of a program are sequences of loops, and this long.
LEMMA Parts ==
  ASSUME NEW n \in Nodes
  PROVE  /\ rsdco_connector_init(n) \in Seq(Loops) /\ Len(rsdco_connector_init(n)) = 13
         /\ HbBarrier(n) \in Seq(Loops) /\ Len(HbBarrier(n)) = 4
         /\ rsdco_heartbeat_release(n) \in Seq(Loops) /\ Len(rsdco_heartbeat_release(n)) = 1
         /\ rsdco_remote_writer_hotel_init(n) \in Seq(Loops)
         /\ Len(rsdco_remote_writer_hotel_init(n)) = 2
         /\ rsdco_remote_receiver_hotel_init(n) \in Seq(Loops)
         /\ Len(rsdco_remote_receiver_hotel_init(n)) = 2
         /\ rsdco_spawn_receiver(n) \in Seq(Loops) /\ Len(rsdco_spawn_receiver(n)) = 2
<1>1. Peers(n) \in SUBSET Nodes /\ {n} \in SUBSET Nodes /\ {0} \in SUBSET Nodes
  BY BootAssumption DEF Peers, Nodes
<1>2. \A whom \in {Peers(n), {n}, {0}, Nodes}, op \in Ops, what \in Whats :
         For(whom, <<Step(op, what)>>) \in Loops
  BY <1>1, OneStep
<1>3. \A op, op2 \in Ops, what, what2 \in Whats :
         For(Peers(n), <<Step(op, what), Step(op2, what2)>>) \in Loops
  BY <1>1, TwoSteps
<1>4. rsdco_connector_init(n) \in Seq(Loops) /\ Len(rsdco_connector_init(n)) = 13
  <2>1. \A what \in Whats :
         /\ For(Peers(n), <<Step("push", what)>>) \in Loops
         /\ For(Peers(n), <<Step("connect", what)>>) \in Loops
         /\ For(Peers(n), <<Step("wait", what)>>) \in Loops
         /\ For({n}, <<Step("push", what)>>) \in Loops
         /\ For({n}, <<Step("del", what)>>) \in Loops
    BY <1>2 DEF Ops
  <2>2. \A what, what2 \in Whats : For(Peers(n), <<Step("del", what), Step("del", what2)>>) \in Loops
    BY <1>3 DEF Ops
  <2> QED
    BY <2>1, <2>2, WhatsAre
    DEF rsdco_connector_init, rsdco_writer_init, rsdco_receiver_init, Offer, Connect,
        rsdco_writer_qp_connect, rsdco_receiver_qp_connect, Once, WaitForPeers, rdsco_memc_clean
<1>5. HbBarrier(n) \in Seq(Loops) /\ Len(HbBarrier(n)) = 4
  BY <1>2, WhatsAre DEF HbBarrier, Once, Ops
<1>6. rsdco_heartbeat_release(n) \in Seq(Loops) /\ Len(rsdco_heartbeat_release(n)) = 1
  BY <1>2, WhatsAre DEF rsdco_heartbeat_release, Ops
<1>7. /\ rsdco_remote_writer_hotel_init(n) \in Seq(Loops)
      /\ Len(rsdco_remote_writer_hotel_init(n)) = 2
  BY <1>2, WhatsAre DEF rsdco_remote_writer_hotel_init, Ops
<1>8. /\ rsdco_remote_receiver_hotel_init(n) \in Seq(Loops)
      /\ Len(rsdco_remote_receiver_hotel_init(n)) = 2
  BY <1>2, WhatsAre DEF rsdco_remote_receiver_hotel_init, Ops
<1>9. rsdco_spawn_receiver(n) \in Seq(Loops) /\ Len(rsdco_spawn_receiver(n)) = 2
  BY <1>2, WhatsAre DEF rsdco_spawn_receiver, Ops
<1> QED  BY <1>4, <1>5, <1>6, <1>7, <1>8, <1>9

\* The loops of rsdco_heartbeat_init, which concatenates four sequences.
LEMMA HeartbeatPart ==
  ASSUME NEW n \in Nodes
  PROVE  /\ rsdco_heartbeat_init(n) \in Seq(Loops) /\ Len(rsdco_heartbeat_init(n)) = 11
         /\ rsdco_heartbeat_init(n)[1] = For({n}, <<Step("reset", "pssv")>>)
         /\ rsdco_heartbeat_init(n)[2] = For({n}, <<Step("push", "hbstat-table")>>)
         /\ rsdco_heartbeat_init(n)[3] = For(Peers(n), <<Step("push", "actv"), Step("push", "pssv")>>)
         /\ rsdco_heartbeat_init(n)[4] = For(Peers(n), <<Step("wait", "hbstat-table"), Step("connect", "actv")>>)
         /\ rsdco_heartbeat_init(n)[5] = For(Peers(n), <<Step("connect", "pssv")>>)
         /\ rsdco_heartbeat_init(n)[6] = For({n}, <<Step("push", "hbqp-connected")>>)
         /\ rsdco_heartbeat_init(n)[7] = For(Nodes, <<Step("wait", "hbqp-connected")>>)
         /\ rsdco_heartbeat_init(n)[8] = For({n}, <<Step("sleep", "hbqp-connected")>>)
         /\ rsdco_heartbeat_init(n)[9] = For({n}, <<Step("del", "hbqp-connected")>>)
         /\ rsdco_heartbeat_init(n)[10] = For(Peers(n), <<Step("del", "actv"), Step("del", "pssv")>>)
         /\ rsdco_heartbeat_init(n)[11] = For({n}, <<Step("del", "hbstat-table")>>)
<1>1. Peers(n) \in SUBSET Nodes /\ {n} \in SUBSET Nodes
  BY DEF Peers
<1>2. \A op \in Ops, what \in Whats :
         /\ For(Peers(n), <<Step(op, what)>>) \in Loops
         /\ For({n}, <<Step(op, what)>>) \in Loops
  BY <1>1, OneStep
<1>3. \A op, op2 \in Ops, what, what2 \in Whats :
         For(Peers(n), <<Step(op, what), Step(op2, what2)>>) \in Loops
  BY <1>1, TwoSteps
<1> DEFINE
  a == << Once(n, "reset", "pssv"), Once(n, "push", "hbstat-table") >>
  b == << For(Peers(n), <<Step("push", "actv"), Step("push", "pssv")>>),
          For(Peers(n), <<Step("wait", "hbstat-table"), Step("connect", "actv")>>),
          For(Peers(n), <<Step("connect", "pssv")>>) >>
  c == << For(Peers(n), <<Step("del", "actv"), Step("del", "pssv")>>) >>
  d == << Once(n, "del", "hbstat-table") >>
<1>4. a \in Seq(Loops) /\ Len(a) = 2
  BY <1>2, WhatsAre DEF Once, Ops
<1>5. b \in Seq(Loops) /\ Len(b) = 3
  <2>1. /\ For(Peers(n), <<Step("push", "actv"), Step("push", "pssv")>>) \in Loops
        /\ For(Peers(n), <<Step("wait", "hbstat-table"), Step("connect", "actv")>>) \in Loops
        /\ For(Peers(n), <<Step("connect", "pssv")>>) \in Loops
    BY ZenonT(60), <1>2, <1>3, WhatsAre DEF Ops
  <2> QED  BY <2>1
<1>6. c \in Seq(Loops) /\ Len(c) = 1
  <2>1. For(Peers(n), <<Step("del", "actv"), Step("del", "pssv")>>) \in Loops
    BY <1>3, WhatsAre DEF Ops
  <2> QED  BY <2>1
<1>7. d \in Seq(Loops) /\ Len(d) = 1
  BY <1>2, WhatsAre DEF Once, Ops
<1>8. rsdco_heartbeat_init(n) = a \o (b \o HbBarrier(n) \o c) \o d
  BY DEF rsdco_heartbeat_init, rsdco_heartbeat_qp_init
<1> DEFINE h == HbBarrier(n)
<1>9. h \in Seq(Loops) /\ Len(h) = 4
  BY Parts
<1>10. /\ a[1] = For({n}, <<Step("reset", "pssv")>>)
       /\ a[2] = For({n}, <<Step("push", "hbstat-table")>>)
       /\ b[1] = For(Peers(n), <<Step("push", "actv"), Step("push", "pssv")>>)
       /\ b[2] = For(Peers(n), <<Step("wait", "hbstat-table"), Step("connect", "actv")>>)
       /\ b[3] = For(Peers(n), <<Step("connect", "pssv")>>)
       /\ h[1] = For({n}, <<Step("push", "hbqp-connected")>>)
       /\ h[2] = For(Nodes, <<Step("wait", "hbqp-connected")>>)
       /\ h[3] = For({n}, <<Step("sleep", "hbqp-connected")>>)
       /\ h[4] = For({n}, <<Step("del", "hbqp-connected")>>)
       /\ c[1] = For(Peers(n), <<Step("del", "actv"), Step("del", "pssv")>>)
       /\ d[1] = For({n}, <<Step("del", "hbstat-table")>>)
  BY DEF Once, HbBarrier
<1> HIDE DEF a, b, c, d, h
<1> DEFINE p == b \o h
<1>11. /\ b \in Seq(Loops) /\ Len(b) = 3 /\ h \in Seq(Loops) /\ Len(h) = 4
  BY <1>5, <1>9
<1>12. /\ p \in Seq(Loops) /\ Len(p) = Len(b) + Len(h)
       /\ \A i \in 1 .. Len(b) : p[i] = b[i]
       /\ \A i \in 1 .. Len(h) : p[Len(b) + i] = h[i]
  BY <1>11, Concat
<1> HIDE DEF p
<1>13. /\ p \in Seq(Loops) /\ Len(p) = 7
       /\ \A i \in 1 .. 3 : p[i] = b[i]
       /\ \A i \in 1 .. 4 : p[3 + i] = h[i]
  BY <1>11, <1>12
<1> DEFINE q == p \o c
<1>21. /\ p \in Seq(Loops) /\ Len(p) = 7 /\ c \in Seq(Loops) /\ Len(c) = 1
  BY <1>13, <1>6
<1>22. /\ q \in Seq(Loops) /\ Len(q) = Len(p) + Len(c)
       /\ \A i \in 1 .. Len(p) : q[i] = p[i]
       /\ \A i \in 1 .. Len(c) : q[Len(p) + i] = c[i]
  BY <1>21, Concat
<1> HIDE DEF q
<1>23. /\ q \in Seq(Loops) /\ Len(q) = 8
       /\ \A i \in 1 .. 7 : q[i] = p[i]
       /\ \A i \in 1 .. 1 : q[7 + i] = c[i]
  BY <1>21, <1>22
<1> DEFINE r == a \o q
<1>31. /\ a \in Seq(Loops) /\ Len(a) = 2 /\ q \in Seq(Loops) /\ Len(q) = 8
  BY <1>4, <1>23
<1>32. /\ r \in Seq(Loops) /\ Len(r) = Len(a) + Len(q)
       /\ \A i \in 1 .. Len(a) : r[i] = a[i]
       /\ \A i \in 1 .. Len(q) : r[Len(a) + i] = q[i]
  BY <1>31, Concat
<1> HIDE DEF r
<1>33. /\ r \in Seq(Loops) /\ Len(r) = 10
       /\ \A i \in 1 .. 2 : r[i] = a[i]
       /\ \A i \in 1 .. 8 : r[2 + i] = q[i]
  BY <1>31, <1>32
<1> DEFINE s == r \o d
<1>41. /\ r \in Seq(Loops) /\ Len(r) = 10 /\ d \in Seq(Loops) /\ Len(d) = 1
  BY <1>33, <1>7
<1>42. /\ s \in Seq(Loops) /\ Len(s) = Len(r) + Len(d)
       /\ \A i \in 1 .. Len(r) : s[i] = r[i]
       /\ \A i \in 1 .. Len(d) : s[Len(r) + i] = d[i]
  BY <1>41, Concat
<1> HIDE DEF s
<1>43. /\ s \in Seq(Loops) /\ Len(s) = 11
       /\ \A i \in 1 .. 10 : s[i] = r[i]
       /\ \A i \in 1 .. 1 : s[10 + i] = d[i]
  BY <1>41, <1>42
<1>51. rsdco_heartbeat_init(n) = s
  BY <1>8 DEF h, p, q, r, s
<1>52. /\ s[1] = a[1] /\ s[2] = a[2] /\ s[11] = d[1]
       /\ \A i \in 3 .. 10 : s[i] = r[i]
  BY <1>33, <1>43
<1>53. /\ r[3] = q[1] /\ r[4] = q[2] /\ r[5] = q[3] /\ r[6] = q[4] /\ r[7] = q[5]
       /\ r[8] = q[6] /\ r[9] = q[7] /\ r[10] = q[8]
  BY <1>33
<1>54. /\ q[1] = b[1] /\ q[2] = b[2] /\ q[3] = b[3]
       /\ q[4] = h[1] /\ q[5] = h[2] /\ q[6] = h[3] /\ q[7] = h[4] /\ q[8] = c[1]
  BY <1>13, <1>23
<1> QED  BY <1>10, <1>43, <1>51, <1>52, <1>53, <1>54

\* The 31 loops of main, and which of its calls each comes from.
LEMMA ProgramLoops ==
  ASSUME NEW n \in Nodes
  PROVE  /\ Program[n] \in Seq(Loops) /\ Len(Program[n]) = 31
         /\ \A i \in 1 .. 13 : Program[n][i] = rsdco_connector_init(n)[i]
         /\ \A i \in 1 .. 11 : Program[n][13 + i] = rsdco_heartbeat_init(n)[i]
         /\ Program[n][25] = rsdco_heartbeat_release(n)[1]
         /\ \A i \in 1 .. 2 : Program[n][25 + i] = rsdco_remote_writer_hotel_init(n)[i]
         /\ \A i \in 1 .. 2 : Program[n][27 + i] = rsdco_remote_receiver_hotel_init(n)[i]
         /\ \A i \in 1 .. 2 : Program[n][29 + i] = rsdco_spawn_receiver(n)[i]
<1> DEFINE a == rsdco_connector_init(n)
           b == rsdco_heartbeat_init(n)
           c == rsdco_heartbeat_release(n)
           d == rsdco_remote_writer_hotel_init(n)
           e == rsdco_remote_receiver_hotel_init(n)
           f == rsdco_spawn_receiver(n)
<1>1. /\ a \in Seq(Loops) /\ Len(a) = 13 /\ b \in Seq(Loops) /\ Len(b) = 11
      /\ c \in Seq(Loops) /\ Len(c) = 1 /\ d \in Seq(Loops) /\ Len(d) = 2
      /\ e \in Seq(Loops) /\ Len(e) = 2 /\ f \in Seq(Loops) /\ Len(f) = 2
  BY Parts, HeartbeatPart
<1>2. Program[n] = a \o b \o c \o d \o e \o f
  BY DEF Program, main
<1> HIDE DEF a, b, c, d, e, f
<1> DEFINE p == a \o b
<1>11. /\ a \in Seq(Loops) /\ Len(a) = 13 /\ b \in Seq(Loops) /\ Len(b) = 11
  BY <1>1
<1>12. /\ p \in Seq(Loops) /\ Len(p) = Len(a) + Len(b)
       /\ \A i \in 1 .. Len(a) : p[i] = a[i]
       /\ \A i \in 1 .. Len(b) : p[Len(a) + i] = b[i]
  BY <1>11, Concat
<1> HIDE DEF p
<1>13. /\ p \in Seq(Loops) /\ Len(p) = 24
       /\ \A i \in 1 .. 13 : p[i] = a[i]
       /\ \A i \in 1 .. 11 : p[13 + i] = b[i]
  BY <1>11, <1>12
<1> DEFINE q == p \o c
<1>21. /\ p \in Seq(Loops) /\ Len(p) = 24 /\ c \in Seq(Loops) /\ Len(c) = 1
  BY <1>1, <1>13
<1>22. /\ q \in Seq(Loops) /\ Len(q) = Len(p) + Len(c)
       /\ \A i \in 1 .. Len(p) : q[i] = p[i]
       /\ \A i \in 1 .. Len(c) : q[Len(p) + i] = c[i]
  BY ZenonT(60), <1>21, Concat
<1> HIDE DEF q
<1>23. /\ q \in Seq(Loops) /\ Len(q) = 25
       /\ \A i \in 1 .. 24 : q[i] = p[i]
       /\ \A i \in 1 .. 1 : q[24 + i] = c[i]
  BY <1>21, <1>22
<1> DEFINE r == q \o d
<1>31. /\ q \in Seq(Loops) /\ Len(q) = 25 /\ d \in Seq(Loops) /\ Len(d) = 2
  BY <1>1, <1>23
<1>32. /\ r \in Seq(Loops) /\ Len(r) = Len(q) + Len(d)
       /\ \A i \in 1 .. Len(q) : r[i] = q[i]
       /\ \A i \in 1 .. Len(d) : r[Len(q) + i] = d[i]
  BY ZenonT(60), <1>31, Concat
<1> HIDE DEF r
<1>33. /\ r \in Seq(Loops) /\ Len(r) = 27
       /\ \A i \in 1 .. 25 : r[i] = q[i]
       /\ \A i \in 1 .. 2 : r[25 + i] = d[i]
  BY <1>31, <1>32
<1> DEFINE s == r \o e
<1>41. /\ r \in Seq(Loops) /\ Len(r) = 27 /\ e \in Seq(Loops) /\ Len(e) = 2
  BY <1>1, <1>33
<1>42. /\ s \in Seq(Loops) /\ Len(s) = Len(r) + Len(e)
       /\ \A i \in 1 .. Len(r) : s[i] = r[i]
       /\ \A i \in 1 .. Len(e) : s[Len(r) + i] = e[i]
  BY ZenonT(60), <1>41, Concat
<1> HIDE DEF s
<1>43. /\ s \in Seq(Loops) /\ Len(s) = 29
       /\ \A i \in 1 .. 27 : s[i] = r[i]
       /\ \A i \in 1 .. 2 : s[27 + i] = e[i]
  BY <1>41, <1>42
<1> DEFINE t == s \o f
<1>51. /\ s \in Seq(Loops) /\ Len(s) = 29 /\ f \in Seq(Loops) /\ Len(f) = 2
  BY <1>1, <1>43
<1>52. /\ t \in Seq(Loops) /\ Len(t) = Len(s) + Len(f)
       /\ \A i \in 1 .. Len(s) : t[i] = s[i]
       /\ \A i \in 1 .. Len(f) : t[Len(s) + i] = f[i]
  BY ZenonT(60), <1>51, Concat
<1> HIDE DEF t
<1>53. /\ t \in Seq(Loops) /\ Len(t) = 31
       /\ \A i \in 1 .. 29 : t[i] = s[i]
       /\ \A i \in 1 .. 2 : t[29 + i] = f[i]
  BY <1>51, <1>52
<1>61. Program[n] = t
  BY <1>2 DEF p, q, r, s, t
<1>62. \A i \in 1 .. 25 : t[i] = q[i]
  <2> SUFFICES ASSUME NEW i \in 1 .. 25  PROVE t[i] = q[i]
    OBVIOUS
  <2>1. i \in 1 .. 27 /\ i \in 1 .. 29
    OBVIOUS
  <2> QED  BY <2>1, <1>33, <1>43, <1>53
<1>63. \A i \in 1 .. 24 : t[i] = p[i]
  <2> SUFFICES ASSUME NEW i \in 1 .. 24  PROVE t[i] = p[i]
    OBVIOUS
  <2>1. i \in 1 .. 25
    OBVIOUS
  <2> QED  BY <2>1, <1>23, <1>62
<1>64. \A i \in 1 .. 13 : t[i] = a[i]
  <2> SUFFICES ASSUME NEW i \in 1 .. 13  PROVE t[i] = a[i]
    OBVIOUS
  <2>1. i \in 1 .. 24
    OBVIOUS
  <2> QED  BY <2>1, <1>13, <1>63
<1>65. \A i \in 1 .. 11 : t[13 + i] = b[i]
  <2> SUFFICES ASSUME NEW i \in 1 .. 11  PROVE t[13 + i] = b[i]
    OBVIOUS
  <2>1. 13 + i \in 1 .. 24
    OBVIOUS
  <2>2. t[13 + i] = p[13 + i]
    BY <2>1, <1>63
  <2> QED  BY <2>2, <1>13
<1>66. \A i \in 1 .. 2 : t[25 + i] = d[i]
  <2> SUFFICES ASSUME NEW i \in 1 .. 2  PROVE t[25 + i] = d[i]
    OBVIOUS
  <2>1. 25 + i \in 1 .. 27 /\ 25 + i \in 1 .. 29
    OBVIOUS
  <2>2. t[25 + i] = s[25 + i] /\ s[25 + i] = r[25 + i]
    BY <2>1, <1>43, <1>53
  <2> QED  BY <2>2, <1>33
<1>67. \A i \in 1 .. 2 : t[27 + i] = e[i]
  <2> SUFFICES ASSUME NEW i \in 1 .. 2  PROVE t[27 + i] = e[i]
    OBVIOUS
  <2>1. 27 + i \in 1 .. 29
    OBVIOUS
  <2>2. t[27 + i] = s[27 + i]
    BY <2>1, <1>53
  <2> QED  BY <2>2, <1>43
<1>68. \A i \in 1 .. 2 : t[29 + i] = f[i]
  BY <1>53
<1>69. t[25] = c[1]
  <2>1. 25 \in 1 .. 25 /\ 1 \in 1 .. 1 /\ 24 + 1 = 25
    OBVIOUS
  <2>2. q[24 + 1] = c[1]
    BY <2>1, <1>23
  <2> QED  BY <2>1, <2>2, <1>62
<1> QED  BY <1>53, <1>61, <1>64, <1>65, <1>66, <1>67, <1>68, <1>69 DEF a, b, c, d, e, f

\* Loops 1 to 13: rsdco_connector_init up to the heartbeat.
LEMMA ConnectorLines ==
  ASSUME NEW n \in Nodes
  PROVE
         /\ Whom(n, 1) = Peers(n) /\ Body(n, 1) = <<Step("push", "replicator")>>
         /\ Whom(n, 2) = Peers(n) /\ Body(n, 2) = <<Step("push", "checker")>>
         /\ Whom(n, 3) = Peers(n) /\ Body(n, 3) = <<Step("push", "replayer")>>
         /\ Whom(n, 4) = Peers(n) /\ Body(n, 4) = <<Step("push", "receiver")>>
         /\ Whom(n, 5) = Peers(n) /\ Body(n, 5) = <<Step("connect", "replicator")>>
         /\ Whom(n, 6) = Peers(n) /\ Body(n, 6) = <<Step("connect", "checker")>>
         /\ Whom(n, 7) = Peers(n) /\ Body(n, 7) = <<Step("connect", "replayer")>>
         /\ Whom(n, 8) = Peers(n) /\ Body(n, 8) = <<Step("connect", "receiver")>>
         /\ Whom(n, 9) = {n} /\ Body(n, 9) = <<Step("push", "qp-connected")>>
         /\ Whom(n, 10) = Peers(n) /\ Body(n, 10) = <<Step("wait", "qp-connected")>>
         /\ Whom(n, 11) = Peers(n) /\ Body(n, 11) = <<Step("del", "replicator"), Step("del", "replayer")>>
         /\ Whom(n, 12) = Peers(n) /\ Body(n, 12) = <<Step("del", "checker"), Step("del", "receiver")>>
         /\ Whom(n, 13) = {n} /\ Body(n, 13) = <<Step("del", "qp-connected")>>
<1>1. \A i \in 1 .. 13 : /\ Whom(n, i) = rsdco_connector_init(n)[i].whom
                         /\ Body(n, i) = rsdco_connector_init(n)[i].body
  <2> SUFFICES ASSUME NEW i \in 1 .. 13
               PROVE  /\ Whom(n, i) = rsdco_connector_init(n)[i].whom
                      /\ Body(n, i) = rsdco_connector_init(n)[i].body
    OBVIOUS
  <2>1. i \in 1 .. 31
    OBVIOUS
  <2> QED  BY <2>1, ProgramLoops DEF Whom, Body
<1> QED
  BY <1>1 DEF rsdco_connector_init, rsdco_writer_init, rsdco_receiver_init, Offer, Connect,
        rsdco_writer_qp_connect, rsdco_receiver_qp_connect, Once, WaitForPeers, rdsco_memc_clean, For

\* Loops 14 to 24: rsdco_heartbeat_init.
LEMMA HeartbeatLines ==
  ASSUME NEW n \in Nodes
  PROVE
         /\ Whom(n, 14) = {n} /\ Body(n, 14) = <<Step("reset", "pssv")>>
         /\ Whom(n, 15) = {n} /\ Body(n, 15) = <<Step("push", "hbstat-table")>>
         /\ Whom(n, 16) = Peers(n) /\ Body(n, 16) = <<Step("push", "actv"), Step("push", "pssv")>>
         /\ Whom(n, 17) = Peers(n) /\ Body(n, 17) = <<Step("wait", "hbstat-table"), Step("connect", "actv")>>
         /\ Whom(n, 18) = Peers(n) /\ Body(n, 18) = <<Step("connect", "pssv")>>
         /\ Whom(n, 19) = {n} /\ Body(n, 19) = <<Step("push", "hbqp-connected")>>
         /\ Whom(n, 20) = Nodes /\ Body(n, 20) = <<Step("wait", "hbqp-connected")>>
         /\ Whom(n, 21) = {n} /\ Body(n, 21) = <<Step("sleep", "hbqp-connected")>>
         /\ Whom(n, 22) = {n} /\ Body(n, 22) = <<Step("del", "hbqp-connected")>>
         /\ Whom(n, 23) = Peers(n) /\ Body(n, 23) = <<Step("del", "actv"), Step("del", "pssv")>>
         /\ Whom(n, 24) = {n} /\ Body(n, 24) = <<Step("del", "hbstat-table")>>
<1>1. \A i \in 1 .. 11 : /\ Whom(n, 13 + i) = rsdco_heartbeat_init(n)[i].whom
                         /\ Body(n, 13 + i) = rsdco_heartbeat_init(n)[i].body
  <2> SUFFICES ASSUME NEW i \in 1 .. 11
               PROVE  /\ Whom(n, 13 + i) = rsdco_heartbeat_init(n)[i].whom
                      /\ Body(n, 13 + i) = rsdco_heartbeat_init(n)[i].body
    OBVIOUS
  <2>1. 13 + i \in 1 .. 31
    OBVIOUS
  <2> QED  BY <2>1, ProgramLoops DEF Whom, Body
<1> DEFINE h == rsdco_heartbeat_init(n)
<1>14.
       /\ h[1] = For({n}, <<Step("reset", "pssv")>>)
       /\ h[2] = For({n}, <<Step("push", "hbstat-table")>>)
       /\ h[3] = For(Peers(n), <<Step("push", "actv"), Step("push", "pssv")>>)
       /\ h[4] = For(Peers(n), <<Step("wait", "hbstat-table"), Step("connect", "actv")>>)
       /\ h[5] = For(Peers(n), <<Step("connect", "pssv")>>)
       /\ h[6] = For({n}, <<Step("push", "hbqp-connected")>>)
       /\ h[7] = For(Nodes, <<Step("wait", "hbqp-connected")>>)
       /\ h[8] = For({n}, <<Step("sleep", "hbqp-connected")>>)
       /\ h[9] = For({n}, <<Step("del", "hbqp-connected")>>)
       /\ h[10] = For(Peers(n), <<Step("del", "actv"), Step("del", "pssv")>>)
       /\ h[11] = For({n}, <<Step("del", "hbstat-table")>>)
  BY HeartbeatPart
<1> HIDE DEF h
<1>2. \A i \in 1 .. 11 : Whom(n, 13 + i) = h[i].whom /\ Body(n, 13 + i) = h[i].body
  BY <1>1 DEF h
<1>3.
         /\ Whom(n, 14) = {n} /\ Body(n, 14) = <<Step("reset", "pssv")>>
  <2>1. 1 \in 1 .. 11 /\ 13 + 1 = 14
    OBVIOUS
  <2>2. Whom(n, 14) = h[1].whom /\ Body(n, 14) = h[1].body
    BY <2>1, <1>2
  <2> QED  BY <2>2, <1>14 DEF For
<1>4.
         /\ Whom(n, 15) = {n} /\ Body(n, 15) = <<Step("push", "hbstat-table")>>
  <2>1. 2 \in 1 .. 11 /\ 13 + 2 = 15
    OBVIOUS
  <2>2. Whom(n, 15) = h[2].whom /\ Body(n, 15) = h[2].body
    BY <2>1, <1>2
  <2> QED  BY <2>2, <1>14 DEF For
<1>5.
         /\ Whom(n, 16) = Peers(n) /\ Body(n, 16) = <<Step("push", "actv"), Step("push", "pssv")>>
  <2>1. 3 \in 1 .. 11 /\ 13 + 3 = 16
    OBVIOUS
  <2>2. Whom(n, 16) = h[3].whom /\ Body(n, 16) = h[3].body
    BY <2>1, <1>2
  <2> QED  BY <2>2, <1>14 DEF For
<1>6.
         /\ Whom(n, 17) = Peers(n) /\ Body(n, 17) = <<Step("wait", "hbstat-table"), Step("connect", "actv")>>
  <2>1. 4 \in 1 .. 11 /\ 13 + 4 = 17
    OBVIOUS
  <2>2. Whom(n, 17) = h[4].whom /\ Body(n, 17) = h[4].body
    BY <2>1, <1>2
  <2> QED  BY <2>2, <1>14 DEF For
<1>7.
         /\ Whom(n, 18) = Peers(n) /\ Body(n, 18) = <<Step("connect", "pssv")>>
  <2>1. 5 \in 1 .. 11 /\ 13 + 5 = 18
    OBVIOUS
  <2>2. Whom(n, 18) = h[5].whom /\ Body(n, 18) = h[5].body
    BY <2>1, <1>2
  <2> QED  BY <2>2, <1>14 DEF For
<1>8.
         /\ Whom(n, 19) = {n} /\ Body(n, 19) = <<Step("push", "hbqp-connected")>>
  <2>1. 6 \in 1 .. 11 /\ 13 + 6 = 19
    OBVIOUS
  <2>2. Whom(n, 19) = h[6].whom /\ Body(n, 19) = h[6].body
    BY <2>1, <1>2
  <2> QED  BY <2>2, <1>14 DEF For
<1>9.
         /\ Whom(n, 20) = Nodes /\ Body(n, 20) = <<Step("wait", "hbqp-connected")>>
  <2>1. 7 \in 1 .. 11 /\ 13 + 7 = 20
    OBVIOUS
  <2>2. Whom(n, 20) = h[7].whom /\ Body(n, 20) = h[7].body
    BY <2>1, <1>2
  <2> QED  BY <2>2, <1>14 DEF For
<1>10.
         /\ Whom(n, 21) = {n} /\ Body(n, 21) = <<Step("sleep", "hbqp-connected")>>
  <2>1. 8 \in 1 .. 11 /\ 13 + 8 = 21
    OBVIOUS
  <2>2. Whom(n, 21) = h[8].whom /\ Body(n, 21) = h[8].body
    BY <2>1, <1>2
  <2> QED  BY <2>2, <1>14 DEF For
<1>11.
         /\ Whom(n, 22) = {n} /\ Body(n, 22) = <<Step("del", "hbqp-connected")>>
  <2>1. 9 \in 1 .. 11 /\ 13 + 9 = 22
    OBVIOUS
  <2>2. Whom(n, 22) = h[9].whom /\ Body(n, 22) = h[9].body
    BY <2>1, <1>2
  <2> QED  BY <2>2, <1>14 DEF For
<1>12.
         /\ Whom(n, 23) = Peers(n) /\ Body(n, 23) = <<Step("del", "actv"), Step("del", "pssv")>>
  <2>1. 10 \in 1 .. 11 /\ 13 + 10 = 23
    OBVIOUS
  <2>2. Whom(n, 23) = h[10].whom /\ Body(n, 23) = h[10].body
    BY <2>1, <1>2
  <2> QED  BY <2>2, <1>14 DEF For
<1>13.
         /\ Whom(n, 24) = {n} /\ Body(n, 24) = <<Step("del", "hbstat-table")>>
  <2>1. 11 \in 1 .. 11 /\ 13 + 11 = 24
    OBVIOUS
  <2>2. Whom(n, 24) = h[11].whom /\ Body(n, 24) = h[11].body
    BY <2>1, <1>2
  <2> QED  BY <2>2, <1>14 DEF For
<1> QED
  BY <1>3, <1>4, <1>5, <1>6, <1>7, <1>8, <1>9, <1>10, <1>11, <1>12, <1>13

\* Loops 25 to 31: release, the hotels and the threads.
LEMMA LastLines ==
  ASSUME NEW n \in Nodes
  PROVE
         /\ Whom(n, 25) = IF n = 0 THEN Peers(n) ELSE {0}
         /\ Body(n, 25) = IF n = 0 THEN <<Step("write", "actv")>> ELSE <<Step("poll", "pssv")>>
         /\ Whom(n, 26) = Peers(n) /\ Body(n, 26) = <<Step("write", "replicator")>>
         /\ Whom(n, 27) = Peers(n) /\ Body(n, 27) = <<Step("write", "checker")>>
         /\ Whom(n, 28) = Peers(n) /\ Body(n, 28) = <<Step("poll", "replayer")>>
         /\ Whom(n, 29) = Peers(n) /\ Body(n, 29) = <<Step("poll", "receiver")>>
         /\ Whom(n, 30) = Peers(n) /\ Body(n, 30) = <<Step("spawn", "replayer")>>
         /\ Whom(n, 31) = Peers(n) /\ Body(n, 31) = <<Step("spawn", "receiver")>>
<1>1. /\ 25 \in 1 .. 31 /\ 26 \in 1 .. 31 /\ 27 \in 1 .. 31 /\ 28 \in 1 .. 31
      /\ 29 \in 1 .. 31 /\ 30 \in 1 .. 31 /\ 31 \in 1 .. 31
  OBVIOUS
<1>2. /\ Program[n][25] = rsdco_heartbeat_release(n)[1]
      /\ Program[n][26] = rsdco_remote_writer_hotel_init(n)[1]
      /\ Program[n][27] = rsdco_remote_writer_hotel_init(n)[2]
      /\ Program[n][28] = rsdco_remote_receiver_hotel_init(n)[1]
      /\ Program[n][29] = rsdco_remote_receiver_hotel_init(n)[2]
      /\ Program[n][30] = rsdco_spawn_receiver(n)[1]
      /\ Program[n][31] = rsdco_spawn_receiver(n)[2]
  BY ProgramLoops
<1>3. \A i \in 25 .. 31 : Whom(n, i) = Program[n][i].whom /\ Body(n, i) = Program[n][i].body
  <2> SUFFICES ASSUME NEW i \in 25 .. 31
               PROVE  Whom(n, i) = Program[n][i].whom /\ Body(n, i) = Program[n][i].body
    OBVIOUS
  <2>1. i \in 1 .. 31
    OBVIOUS
  <2> QED  BY <2>1, ProgramLoops DEF Whom, Body
<1>4. \A i \in {25, 26, 27, 28, 29, 30, 31} :
         Whom(n, i) = Program[n][i].whom /\ Body(n, i) = Program[n][i].body
  BY <1>3
<1> QED
  BY <1>2, <1>4 DEF rsdco_heartbeat_release,
     rsdco_remote_writer_hotel_init, rsdco_remote_receiver_hotel_init, rsdco_spawn_receiver, For

----------------------------------------------------------------------------
(* Where each step is in the program                                       *)

LogEnds == {"replicator", "replayer", "checker", "receiver"}
HbEnds == {"actv", "pssv"}

\* The loop in which something is done.
Place(op, what, i) ==
  \/ op = "push" /\ what \in LogEnds /\ i \in 1 .. 4
  \/ op = "connect" /\ what \in LogEnds /\ i \in 5 .. 8
  \/ op = "push" /\ what = "qp-connected" /\ i = 9
  \/ op = "wait" /\ what = "qp-connected" /\ i = 10
  \/ op = "del" /\ what \in LogEnds /\ i \in 11 .. 12
  \/ op = "del" /\ what = "qp-connected" /\ i = 13
  \/ op = "reset" /\ i = 14
  \/ op = "push" /\ what = "hbstat-table" /\ i = 15
  \/ op = "push" /\ what \in HbEnds /\ i = 16
  \/ op = "wait" /\ what = "hbstat-table" /\ i = 17
  \/ op = "connect" /\ what \in HbEnds /\ i \in 17 .. 18
  \/ op = "push" /\ what = "hbqp-connected" /\ i = 19
  \/ op = "wait" /\ what = "hbqp-connected" /\ i = 20
  \/ op = "sleep" /\ what = "hbqp-connected" /\ i = 21
  \/ op = "del" /\ what = "hbqp-connected" /\ i = 22
  \/ op = "del" /\ what \in HbEnds /\ i = 23
  \/ op = "del" /\ what = "hbstat-table" /\ i = 24
  \/ op = "write" /\ what = "actv" /\ i = 25
  \/ op = "poll" /\ what = "pssv" /\ i = 25
  \/ op = "write" /\ what = "replicator" /\ i = 26
  \/ op = "write" /\ what = "checker" /\ i = 27
  \/ op = "poll" /\ what = "replayer" /\ i = 28
  \/ op = "poll" /\ what = "receiver" /\ i = 29
  \/ op = "spawn" /\ what \in {"replayer", "receiver"} /\ i \in 30 .. 31

\* Every step of a program is in the loop that Place gives it.
LEMMA Listed ==
  ASSUME NEW n \in Nodes, NEW i \in 1 .. 31, NEW k \in 1 .. Len(Body(n, i))
  PROVE  Place(Body(n, i)[k].op, Body(n, i)[k].what, i)
<1>1. CASE i \in 1 .. 13
  <2>1. CASE i = 1
    <3>1. Body(n, i)[k] = Step("push", "replicator")
      BY <2>1, ConnectorLines
    <3> QED  BY <2>1, <3>1 DEF Place, LogEnds, HbEnds, Step
  <2>2. CASE i = 2
    <3>1. Body(n, i)[k] = Step("push", "checker")
      BY <2>2, ConnectorLines
    <3> QED  BY <2>2, <3>1 DEF Place, LogEnds, HbEnds, Step
  <2>3. CASE i = 3
    <3>1. Body(n, i)[k] = Step("push", "replayer")
      BY <2>3, ConnectorLines
    <3> QED  BY <2>3, <3>1 DEF Place, LogEnds, HbEnds, Step
  <2>4. CASE i = 4
    <3>1. Body(n, i)[k] = Step("push", "receiver")
      BY <2>4, ConnectorLines
    <3> QED  BY <2>4, <3>1 DEF Place, LogEnds, HbEnds, Step
  <2>5. CASE i = 5
    <3>1. Body(n, i)[k] = Step("connect", "replicator")
      BY <2>5, ConnectorLines
    <3> QED  BY <2>5, <3>1 DEF Place, LogEnds, HbEnds, Step
  <2>6. CASE i = 6
    <3>1. Body(n, i)[k] = Step("connect", "checker")
      BY <2>6, ConnectorLines
    <3> QED  BY <2>6, <3>1 DEF Place, LogEnds, HbEnds, Step
  <2>7. CASE i = 7
    <3>1. Body(n, i)[k] = Step("connect", "replayer")
      BY <2>7, ConnectorLines
    <3> QED  BY <2>7, <3>1 DEF Place, LogEnds, HbEnds, Step
  <2>8. CASE i = 8
    <3>1. Body(n, i)[k] = Step("connect", "receiver")
      BY <2>8, ConnectorLines
    <3> QED  BY <2>8, <3>1 DEF Place, LogEnds, HbEnds, Step
  <2>9. CASE i = 9
    <3>1. Body(n, i)[k] = Step("push", "qp-connected")
      BY <2>9, ConnectorLines
    <3> QED  BY <2>9, <3>1 DEF Place, LogEnds, HbEnds, Step
  <2>10. CASE i = 10
    <3>1. Body(n, i)[k] = Step("wait", "qp-connected")
      BY <2>10, ConnectorLines
    <3> QED  BY <2>10, <3>1 DEF Place, LogEnds, HbEnds, Step
  <2>11. CASE i = 11
    <3>1. Body(n, i)[k] \in {Step("del", "replicator"), Step("del", "replayer")}
      BY <2>11, ConnectorLines
    <3> QED  BY <2>11, <3>1 DEF Place, LogEnds, HbEnds, Step
  <2>12. CASE i = 12
    <3>1. Body(n, i)[k] \in {Step("del", "checker"), Step("del", "receiver")}
      BY <2>12, ConnectorLines
    <3> QED  BY <2>12, <3>1 DEF Place, LogEnds, HbEnds, Step
  <2>13. CASE i = 13
    <3>1. Body(n, i)[k] = Step("del", "qp-connected")
      BY <2>13, ConnectorLines
    <3> QED  BY <2>13, <3>1 DEF Place, LogEnds, HbEnds, Step
  <2> QED  BY <1>1, <2>1, <2>2, <2>3, <2>4, <2>5, <2>6, <2>7, <2>8, <2>9, <2>10, <2>11, <2>12, <2>13
<1>2. CASE i \in 14 .. 24
  <2>1. CASE i = 14
    <3>1. Body(n, i)[k] = Step("reset", "pssv")
      BY <2>1, HeartbeatLines
    <3> QED  BY <2>1, <3>1 DEF Place, LogEnds, HbEnds, Step
  <2>2. CASE i = 15
    <3>1. Body(n, i)[k] = Step("push", "hbstat-table")
      BY <2>2, HeartbeatLines
    <3> QED  BY <2>2, <3>1 DEF Place, LogEnds, HbEnds, Step
  <2>3. CASE i = 16
    <3>1. Body(n, i)[k] \in {Step("push", "actv"), Step("push", "pssv")}
      BY <2>3, HeartbeatLines
    <3> QED  BY <2>3, <3>1 DEF Place, LogEnds, HbEnds, Step
  <2>4. CASE i = 17
    <3>1. Body(n, i)[k] \in {Step("wait", "hbstat-table"), Step("connect", "actv")}
      BY <2>4, HeartbeatLines
    <3> QED  BY <2>4, <3>1 DEF Place, LogEnds, HbEnds, Step
  <2>5. CASE i = 18
    <3>1. Body(n, i)[k] = Step("connect", "pssv")
      BY <2>5, HeartbeatLines
    <3> QED  BY <2>5, <3>1 DEF Place, LogEnds, HbEnds, Step
  <2>6. CASE i = 19
    <3>1. Body(n, i)[k] = Step("push", "hbqp-connected")
      BY <2>6, HeartbeatLines
    <3> QED  BY <2>6, <3>1 DEF Place, LogEnds, HbEnds, Step
  <2>7. CASE i = 20
    <3>1. Body(n, i)[k] = Step("wait", "hbqp-connected")
      BY <2>7, HeartbeatLines
    <3> QED  BY <2>7, <3>1 DEF Place, LogEnds, HbEnds, Step
  <2>8. CASE i = 21
    <3>1. Body(n, i)[k] = Step("sleep", "hbqp-connected")
      BY <2>8, HeartbeatLines
    <3> QED  BY <2>8, <3>1 DEF Place, LogEnds, HbEnds, Step
  <2>9. CASE i = 22
    <3>1. Body(n, i)[k] = Step("del", "hbqp-connected")
      BY <2>9, HeartbeatLines
    <3> QED  BY <2>9, <3>1 DEF Place, LogEnds, HbEnds, Step
  <2>10. CASE i = 23
    <3>1. Body(n, i)[k] \in {Step("del", "actv"), Step("del", "pssv")}
      BY <2>10, HeartbeatLines
    <3> QED  BY <2>10, <3>1 DEF Place, LogEnds, HbEnds, Step
  <2>11. CASE i = 24
    <3>1. Body(n, i)[k] = Step("del", "hbstat-table")
      BY <2>11, HeartbeatLines
    <3> QED  BY <2>11, <3>1 DEF Place, LogEnds, HbEnds, Step
  <2> QED  BY <1>2, <2>1, <2>2, <2>3, <2>4, <2>5, <2>6, <2>7, <2>8, <2>9, <2>10, <2>11
<1>3. CASE i \in 25 .. 31
  <2>1. CASE i = 25
    <3>1. Body(n, i)[k] \in {Step("write", "actv"), Step("poll", "pssv")}
      BY <2>1, LastLines
    <3> QED  BY <2>1, <3>1 DEF Place, LogEnds, HbEnds, Step
  <2>2. CASE i = 26
    <3>1. Body(n, i)[k] = Step("write", "replicator")
      BY <2>2, LastLines
    <3> QED  BY <2>2, <3>1 DEF Place, LogEnds, HbEnds, Step
  <2>3. CASE i = 27
    <3>1. Body(n, i)[k] = Step("write", "checker")
      BY <2>3, LastLines
    <3> QED  BY <2>3, <3>1 DEF Place, LogEnds, HbEnds, Step
  <2>4. CASE i = 28
    <3>1. Body(n, i)[k] = Step("poll", "replayer")
      BY <2>4, LastLines
    <3> QED  BY <2>4, <3>1 DEF Place, LogEnds, HbEnds, Step
  <2>5. CASE i = 29
    <3>1. Body(n, i)[k] = Step("poll", "receiver")
      BY <2>5, LastLines
    <3> QED  BY <2>5, <3>1 DEF Place, LogEnds, HbEnds, Step
  <2>6. CASE i = 30
    <3>1. Body(n, i)[k] = Step("spawn", "replayer")
      BY <2>6, LastLines
    <3> QED  BY <2>6, <3>1 DEF Place, LogEnds, HbEnds, Step
  <2>7. CASE i = 31
    <3>1. Body(n, i)[k] = Step("spawn", "receiver")
      BY <2>7, LastLines
    <3> QED  BY <2>7, <3>1 DEF Place, LogEnds, HbEnds, Step
  <2> QED  BY <1>3, <2>1, <2>2, <2>3, <2>4, <2>5, <2>6, <2>7
<1> QED  BY <1>1, <1>2, <1>3

\* There is somebody else, and a node 0.
LEMMA PeersAre ==
  ASSUME NEW n \in Nodes
  PROVE  Peers(n) # {} /\ Peers(n) \subseteq Nodes /\ 0 \in Nodes
<1>1. 0 \in Nodes /\ 1 \in Nodes
  BY BootAssumption DEF Nodes
<1> QED  BY <1>1 DEF Peers

\* Every loop has somebody and something to do.
LEMMA Filled ==
  ASSUME NEW n \in Nodes, NEW i \in 1 .. 31
  PROVE  /\ Whom(n, i) # {} /\ Whom(n, i) \subseteq Nodes
         /\ Len(Body(n, i)) \in Nat \ {0}
<1>0. \A W \in {Peers(n), {n}, {0}, Nodes} : W # {} /\ W \subseteq Nodes
  BY PeersAre
<1>1. CASE i \in 1 .. 13
  <2>1. i \in {1, 2, 3, 4, 5, 6, 7, 8, 9, 10, 11, 12, 13}
    BY <1>1
  <2>2. Whom(n, i) \in {Peers(n), {n}, {0}, Nodes}
    BY <2>1, ConnectorLines
  <2>3. Len(Body(n, i)) \in {1, 2}
    BY <2>1, ConnectorLines
  <2>4. Whom(n, i) # {} /\ Whom(n, i) \subseteq Nodes
    BY <2>2, <1>0
  <2> QED  BY <2>3, <2>4
<1>2. CASE i \in 14 .. 24
  <2>1. i \in {14, 15, 16, 17, 18, 19, 20, 21, 22, 23, 24}
    BY <1>2
  <2>2. Whom(n, i) \in {Peers(n), {n}, {0}, Nodes}
    BY <2>1, HeartbeatLines
  <2>3. Len(Body(n, i)) \in {1, 2}
    BY <2>1, HeartbeatLines
  <2>4. Whom(n, i) # {} /\ Whom(n, i) \subseteq Nodes
    BY <2>2, <1>0
  <2> QED  BY <2>3, <2>4
<1>3. CASE i \in 25 .. 31
  <2>1. i \in {25, 26, 27, 28, 29, 30, 31}
    BY <1>3
  <2>2. Whom(n, i) \in {Peers(n), {n}, {0}, Nodes}
    BY <2>1, LastLines
  <2>3. Len(Body(n, i)) = 1
    BY <2>1, LastLines
  <2>4. Whom(n, i) # {} /\ Whom(n, i) \subseteq Nodes
    BY <2>2, <1>0
  <2> QED  BY <2>3, <2>4
<1> QED  BY <1>1, <1>2, <1>3

\* Each end is connected, to every peer, before the heartbeat's barrier.
LEMMA Connects ==
  ASSUME NEW n \in Nodes, NEW end \in Ends
  PROVE  \E i \in 5 .. 18 : \E k \in 1 .. Len(Body(n, i)) :
           Body(n, i)[k] = Step("connect", end) /\ Whom(n, i) = Peers(n)
<1>1. end \in {"replicator", "replayer", "checker", "receiver", "actv", "pssv"}
  BY DEF Ends, Other
<1>2. CASE end = "replicator"
  <2>1. 1 \in 1 .. Len(Body(n, 5)) /\ Body(n, 5)[1] = Step("connect", end) /\ Whom(n, 5) = Peers(n)
    BY <1>2, ConnectorLines
  <2> QED  BY <2>1
<1>3. CASE end = "checker"
  <2>1. 1 \in 1 .. Len(Body(n, 6)) /\ Body(n, 6)[1] = Step("connect", end) /\ Whom(n, 6) = Peers(n)
    BY <1>3, ConnectorLines
  <2> QED  BY <2>1
<1>4. CASE end = "replayer"
  <2>1. 1 \in 1 .. Len(Body(n, 7)) /\ Body(n, 7)[1] = Step("connect", end) /\ Whom(n, 7) = Peers(n)
    BY <1>4, ConnectorLines
  <2> QED  BY <2>1
<1>5. CASE end = "receiver"
  <2>1. 1 \in 1 .. Len(Body(n, 8)) /\ Body(n, 8)[1] = Step("connect", end) /\ Whom(n, 8) = Peers(n)
    BY <1>5, ConnectorLines
  <2> QED  BY <2>1
<1>6. CASE end = "actv"
  <2>1. 2 \in 1 .. Len(Body(n, 17)) /\ Body(n, 17)[2] = Step("connect", end) /\ Whom(n, 17) = Peers(n)
    BY <1>6, HeartbeatLines
  <2> QED  BY <2>1
<1>7. CASE end = "pssv"
  <2>1. 1 \in 1 .. Len(Body(n, 18)) /\ Body(n, 18)[1] = Step("connect", end) /\ Whom(n, 18) = Peers(n)
    BY <1>7, HeartbeatLines
  <2> QED  BY <2>1
<1> QED  BY <1>1, <1>2, <1>3, <1>4, <1>5, <1>6, <1>7

\* The two barriers, and the poll that ends the last one.
LEMMA Waits ==
  ASSUME NEW n \in Nodes
  PROVE  /\ 1 \in 1 .. Len(Body(n, 10)) /\ Body(n, 10)[1] = Step("wait", "qp-connected")
         /\ Whom(n, 10) = Peers(n)
         /\ 1 \in 1 .. Len(Body(n, 20)) /\ Body(n, 20)[1] = Step("wait", "hbqp-connected")
         /\ Whom(n, 20) = Nodes
         /\ 1 \in 1 .. Len(Body(n, 29)) /\ Body(n, 29)[1] = Step("poll", "receiver")
         /\ Whom(n, 29) = Peers(n)
<1>1. /\ Body(n, 10) = <<Step("wait", "qp-connected")>> /\ Whom(n, 10) = Peers(n)
  BY ConnectorLines
<1>2. /\ Body(n, 20) = <<Step("wait", "hbqp-connected")>> /\ Whom(n, 20) = Nodes
  BY HeartbeatLines
<1>3. /\ Body(n, 29) = <<Step("poll", "receiver")>> /\ Whom(n, 29) = Peers(n)
  BY LastLines
<1> QED  BY <1>1, <1>2, <1>3

----------------------------------------------------------------------------
(* Going through a program                                                 *)

\* A set of nodes that is not empty has a least one.
LEMMA MinOfNodes ==
  ASSUME NEW S \in SUBSET Nodes, S # {}
  PROVE  Min(S) \in S
<1> DEFINE R == OpToRel(<, Nat)
<1>1. S \subseteq Nat
  BY BootAssumption DEF Nodes
<1>2. IsWellFoundedOn(R, Nat)
  BY NatLessThanWellFounded
<1>3. PICK x \in S : \A y \in S : ~ (<<y, x>> \in R)
  <2> HIDE DEF R
  <2> QED BY <1>1, <1>2, WFMin
<1>4. \A y \in S : x <= y
  <2> SUFFICES ASSUME NEW y \in S PROVE x <= y
    OBVIOUS
  <2>1. <<y, x>> \in Nat \X Nat
    BY <1>1
  <2>2. ~ (y < x)
    BY <1>3, <2>1 DEF OpToRel
  <2> QED BY <1>1, <2>2
<1> QED BY <1>4 DEF Min

\* A node can be at loop i with the nodes of S to do, in step k.
Place31(n, i, S, k) ==
  \/ i = 32 /\ S = {}
  \/ i \in 1 .. 31 /\ S \subseteq Whom(n, i) /\ S # {} /\ k \in 1 .. Len(Body(n, i))

Control ==
  /\ loop \in [Nodes -> Nat \ {0}] /\ step \in [Nodes -> Nat \ {0}]
  /\ todo \in [Nodes -> SUBSET Nodes]
  /\ \A n \in Nodes : Place31(n, loop[n], todo[n], step[n])

\* The part of TypeOK about the place of a node.
LEMMA ControlIs ==
  Control <=> /\ loop \in [Nodes -> Nat \ {0}] /\ step \in [Nodes -> Nat \ {0}]
              /\ todo \in [Nodes -> SUBSET Nodes]
              /\ \A n \in Nodes :
                   IF Done(n) THEN loop[n] = Len(Program[n]) + 1 /\ todo[n] = {}
                     ELSE todo[n] \in (SUBSET Whom(n, loop[n])) \ {{}}
                          /\ step[n] \in 1 .. Len(Body(n, loop[n]))
<1> SUFFICES ASSUME loop \in [Nodes -> Nat \ {0}]
             PROVE  \A n \in Nodes : Place31(n, loop[n], todo[n], step[n]) <=>
                   IF Done(n) THEN loop[n] = Len(Program[n]) + 1 /\ todo[n] = {}
                     ELSE todo[n] \in (SUBSET Whom(n, loop[n])) \ {{}}
                          /\ step[n] \in 1 .. Len(Body(n, loop[n]))
  BY DEF Control
<1> TAKE n \in Nodes
<1>1. Len(Program[n]) = 31
  BY ProgramLoops
<1>2. ~ Done(n) <=> loop[n] \in 1 .. 31
  BY <1>1 DEF Done
<1>3. CASE Done(n)
  <2>1. loop[n] \notin 1 .. 31 /\ (loop[n] = Len(Program[n]) + 1 <=> loop[n] = 32)
    BY <1>1, <1>3 DEF Done
  <2> QED  BY <1>3, <2>1 DEF Place31
<1>4. CASE ~ Done(n)
  <2>1. loop[n] # 32 /\ loop[n] \in 1 .. 31
    BY <1>2, <1>4
  <2>2. todo[n] \in (SUBSET Whom(n, loop[n])) \ {{}} <=>
          todo[n] \subseteq Whom(n, loop[n]) /\ todo[n] # {}
    OBVIOUS
  <2> QED  BY <1>4, <2>1, <2>2 DEF Place31
<1> QED  BY <1>3, <1>4

\* Where a node that is not done is.
LEMMA Here ==
  ASSUME Control, NEW n \in Nodes, ~ Done(n)
  PROVE  /\ loop[n] \in 1 .. 31 /\ step[n] \in 1 .. Len(Body(n, loop[n]))
         /\ Peer(n) \in todo[n] /\ Peer(n) \in Whom(n, loop[n]) /\ Peer(n) \in Nodes
         /\ todo[n] \subseteq Whom(n, loop[n]) /\ todo[n] \in SUBSET Nodes
         /\ Len(Body(n, loop[n])) \in Nat \ {0}
<1>1. /\ loop[n] \in 1 .. 31 /\ step[n] \in 1 .. Len(Body(n, loop[n]))
      /\ todo[n] \subseteq Whom(n, loop[n]) /\ todo[n] # {}
      /\ todo[n] \in SUBSET Nodes
  <2>1. Place31(n, loop[n], todo[n], step[n]) /\ todo[n] \in SUBSET Nodes
    BY DEF Control
  <2>2. Len(Program[n]) = 31
    BY ProgramLoops
  <2>3. loop[n] # 32
    BY <2>2 DEF Done
  <2> QED  BY <2>1, <2>3 DEF Place31
<1>2. Peer(n) \in todo[n]
  BY <1>1, MinOfNodes DEF Peer
<1> QED  BY <1>1, <1>2, Filled

\* The three ways to go on.
InBody(n) ==
  /\ step[n] < Len(Body(n, loop[n]))
  /\ loop' = loop /\ todo' = todo
  /\ step' = [step EXCEPT ![n] = step[n] + 1]
ToPeer(n, p) ==
  /\ step[n] = Len(Body(n, loop[n]))
  /\ todo[n] # {p}
  /\ loop' = loop
  /\ todo' = [todo EXCEPT ![n] = todo[n] \ {p}]
  /\ step' = [step EXCEPT ![n] = 1]
ToLoop(n, p) ==
  /\ step[n] = Len(Body(n, loop[n]))
  /\ todo[n] = {p}
  /\ loop' = [loop EXCEPT ![n] = loop[n] + 1]
  /\ todo' = [todo EXCEPT ![n] = Whom(n, loop[n] + 1)]
  /\ step' = [step EXCEPT ![n] = 1]

\* Advance is one of the three.
LEMMA Ways ==
  ASSUME Control, NEW n \in Nodes, ~ Done(n), Advance(n)
  PROVE  InBody(n) \/ ToPeer(n, Peer(n)) \/ ToLoop(n, Peer(n))
<1>1. /\ step[n] \in 1 .. Len(Body(n, loop[n])) /\ Len(Body(n, loop[n])) \in Nat \ {0}
      /\ Peer(n) \in todo[n]
  BY Here
<1>2. CASE step[n] < Len(Body(n, loop[n]))
  BY <1>2 DEF Advance, InBody
<1>3. CASE step[n] = Len(Body(n, loop[n]))
  <2>1. ~ (step[n] < Len(Body(n, loop[n])))
    BY <1>1, <1>3
  <2>2. todo[n] \ {Peer(n)} # {} <=> todo[n] # {Peer(n)}
    BY <1>1
  <2>3. CASE todo[n] # {Peer(n)}
    BY <1>3, <2>1, <2>2, <2>3 DEF Advance, ToPeer
  <2>4. CASE todo[n] = {Peer(n)}
    BY <1>3, <2>1, <2>2, <2>4 DEF Advance, ToLoop
  <2> QED  BY <2>3, <2>4
<1> QED  BY <1>1, <1>2, <1>3

\* The next loop, if there is one, has somebody and something to do.
LEMMA NextLoop ==
  ASSUME NEW n \in Nodes, NEW i \in 1 .. 31
  PROVE  /\ Whom(n, i + 1) \subseteq Nodes
         /\ IF i = 31 THEN Whom(n, i + 1) = {}
            ELSE /\ i + 1 \in 1 .. 31 /\ Whom(n, i + 1) # {}
                 /\ 1 \in 1 .. Len(Body(n, i + 1))
<1>1. CASE i = 31
  <2>1. Len(Program[n]) = 31
    BY ProgramLoops
  <2>2. i + 1 \notin 1 .. Len(Program[n])
    BY <1>1, <2>1
  <2>3. Whom(n, i + 1) = {}
    BY <2>2 DEF Whom
  <2> QED  BY <1>1, <2>3
<1>2. CASE i # 31
  <2>1. i + 1 \in 1 .. 31
    BY <1>2
  <2>2. /\ Whom(n, i + 1) # {} /\ Whom(n, i + 1) \subseteq Nodes
        /\ Len(Body(n, i + 1)) \in Nat \ {0}
    BY <2>1, Filled
  <2> QED  BY <1>2, <2>1, <2>2
<1> QED  BY <1>1, <1>2

\* Wherever a step leads, it is a place a node can be at.
LEMMA AdvanceControl ==
  ASSUME Control, NEW n \in Nodes, ~ Done(n), Advance(n)
  PROVE  Control'
<1> DEFINE p == Peer(n)
<1>1. /\ loop[n] \in 1 .. 31 /\ step[n] \in 1 .. Len(Body(n, loop[n]))
      /\ p \in todo[n] /\ p \in Nodes /\ todo[n] \subseteq Whom(n, loop[n])
      /\ todo[n] \in SUBSET Nodes /\ Len(Body(n, loop[n])) \in Nat \ {0}
  BY Here
<1>2. InBody(n) \/ ToPeer(n, p) \/ ToLoop(n, p)
  BY Ways
<1>3. /\ loop \in [Nodes -> Nat \ {0}] /\ step \in [Nodes -> Nat \ {0}]
      /\ todo \in [Nodes -> SUBSET Nodes]
  BY DEF Control
<1>4. Whom(n, loop[n] + 1) \in SUBSET Nodes
  BY <1>1, NextLoop
<1> HIDE DEF p
<1>5. /\ loop' \in [Nodes -> Nat \ {0}] /\ step' \in [Nodes -> Nat \ {0}]
      /\ todo' \in [Nodes -> SUBSET Nodes]
      /\ \A j \in Nodes \ {n} : loop'[j] = loop[j] /\ todo'[j] = todo[j] /\ step'[j] = step[j]
  <2>1. CASE InBody(n)
    BY <1>1, <1>3, <2>1 DEF InBody
  <2>2. CASE ToPeer(n, p)
    <3>1. todo[n] \ {p} \in SUBSET Nodes
      BY <1>1
    <3> QED  BY <1>3, <2>2, <3>1 DEF ToPeer
  <2>3. CASE ToLoop(n, p)
    BY <1>1, <1>3, <1>4, <2>3 DEF ToLoop
  <2> QED  BY <1>2, <2>1, <2>2, <2>3
<1>6. ASSUME NEW j \in Nodes \ {n}  PROVE Place31(j, loop'[j], todo'[j], step'[j])
  BY <1>5 DEF Control
<1>7. Place31(n, loop'[n], todo'[n], step'[n])
  <2>1. CASE InBody(n)
    BY <1>1, <1>3, <2>1 DEF InBody, Place31
  <2>2. CASE ToPeer(n, p)
    <3>1. /\ loop'[n] = loop[n] /\ todo'[n] = todo[n] \ {p} /\ step'[n] = 1
          /\ todo[n] # {p}
      BY <1>3, <2>2 DEF ToPeer
    <3>2. todo[n] \ {p} # {} /\ todo[n] \ {p} \subseteq Whom(n, loop[n])
      BY <1>1, <3>1
    <3> QED  BY <1>1, <3>1, <3>2 DEF Place31
  <2>3. CASE ToLoop(n, p)
    <3>1. /\ loop'[n] = loop[n] + 1 /\ todo'[n] = Whom(n, loop[n] + 1) /\ step'[n] = 1
      BY <1>3, <2>3 DEF ToLoop
    <3>2. CASE loop[n] = 31
      BY <1>1, <3>1, <3>2, NextLoop DEF Place31
    <3>3. CASE loop[n] # 31
      <4>1. /\ loop[n] + 1 \in 1 .. 31 /\ Whom(n, loop[n] + 1) # {}
            /\ 1 \in 1 .. Len(Body(n, loop[n] + 1))
        BY <1>1, <3>3, NextLoop
      <4> QED  BY <3>1, <4>1 DEF Place31
    <3> QED  BY <3>2, <3>3
  <2> QED  BY <1>2, <2>1, <2>2, <2>3
<1>8. \A j \in Nodes : Place31(j, loop'[j], todo'[j], step'[j])
  BY <1>6, <1>7
<1> QED  BY <1>5, <1>8 DEF Control

\* A step of a node is one more that it has been through, and no other.
LEMMA AdvancePassed ==
  ASSUME Control, NEW n \in Nodes, ~ Done(n), Advance(n),
         NEW j \in Nodes, NEW i \in 1 .. 31, NEW k \in 1 .. Len(Body(j, i)),
         NEW m \in Whom(j, i)
  PROVE  Passed(j, i, k, m)' <=>
           \/ Passed(j, i, k, m)
           \/ j = n /\ i = loop[n] /\ k = step[n] /\ m = Peer(n)
<1>1. /\ loop[n] \in 1 .. 31 /\ step[n] \in 1 .. Len(Body(n, loop[n]))
      /\ Peer(n) \in todo[n] /\ Peer(n) \in Nodes /\ todo[n] \subseteq Whom(n, loop[n])
      /\ Len(Body(n, loop[n])) \in Nat \ {0}
  BY Here
<1>2. InBody(n) \/ ToPeer(n, Peer(n)) \/ ToLoop(n, Peer(n))
  BY Ways
<1>3. /\ loop \in [Nodes -> Nat \ {0}] /\ step \in [Nodes -> Nat \ {0}]
      /\ todo \in [Nodes -> SUBSET Nodes]
  BY DEF Control
<1>4. CASE j # n
  <2>1. loop'[j] = loop[j] /\ todo'[j] = todo[j] /\ step'[j] = step[j]
    BY <1>2, <1>3, <1>4 DEF InBody, ToPeer, ToLoop
  <2> QED  BY <1>4, <2>1 DEF Passed, Peer
<1>5. CASE j = n
  <2>1. Passed(n, i, k, m)' <=>
          \/ i < loop'[n]
          \/ i = loop'[n] /\ m \notin todo'[n]
          \/ i = loop'[n] /\ m = Min(todo'[n]) /\ k < step'[n]
    BY DEF Passed, Peer
  <2>2. Passed(n, i, k, m) <=>
          \/ i < loop[n]
          \/ i = loop[n] /\ m \notin todo[n]
          \/ i = loop[n] /\ m = Peer(n) /\ k < step[n]
    BY DEF Passed
  <2>3. CASE InBody(n)
    <3>1. loop'[n] = loop[n] /\ todo'[n] = todo[n] /\ step'[n] = step[n] + 1
      BY <1>3, <2>3 DEF InBody
    <3>2. Min(todo'[n]) = Peer(n)
      BY <3>1 DEF Peer
    <3>3. k < step[n] + 1 <=> k < step[n] \/ k = step[n]
      BY <1>3, <1>5
    <3> QED  BY <1>1, <1>5, <2>1, <2>2, <3>1, <3>2, <3>3
  <2>4. CASE ToPeer(n, Peer(n))
    <3>1. loop'[n] = loop[n] /\ todo'[n] = todo[n] \ {Peer(n)} /\ step'[n] = 1
          /\ step[n] = Len(Body(n, loop[n]))
      BY <1>3, <2>4 DEF ToPeer
    <3>2. ~ (k < step'[n])
      BY <3>1
    <3>3. i = loop[n] => (k < step[n] \/ k = step[n])
      BY <1>1, <1>5, <3>1
    <3>4. m \notin todo'[n] <=> m \notin todo[n] \/ m = Peer(n)
      BY <3>1
    <3>5. loop'[n] = loop[n]
      BY <3>1
    <3> QED  BY <1>5, <2>1, <2>2, <3>2, <3>3, <3>4, <3>5
  <2>5. CASE ToLoop(n, Peer(n))
    <3>1. /\ loop'[n] = loop[n] + 1 /\ todo'[n] = Whom(n, loop[n] + 1) /\ step'[n] = 1
          /\ step[n] = Len(Body(n, loop[n])) /\ todo[n] = {Peer(n)}
      BY <1>3, <2>5 DEF ToLoop
    <3>2. ~ (k < step'[n])
      BY <3>1
    <3>3. i = loop[n] => (k < step[n] \/ k = step[n])
      BY <1>1, <1>5, <3>1
    <3>4. i = loop'[n] => m \in todo'[n]
      BY <1>5, <3>1
    <3>5. i < loop'[n] <=> i < loop[n] \/ i = loop[n]
      <4>1. loop[n] \in 1 .. 31
        BY <1>1
      <4>2. \A a, b \in 1 .. 31 : a < b + 1 <=> a < b \/ a = b
        OBVIOUS
      <4>3. i < loop[n] + 1 <=> i < loop[n] \/ i = loop[n]
        BY <4>1, <4>2
      <4> QED  BY <3>1, <4>3
    <3>6. m \notin todo[n] \/ m = Peer(n)
      BY <3>1
    <3>7. ~ (i < loop[n] /\ i = loop[n])
      BY <1>1
    <3> QED  BY <1>5, <2>1, <2>2, <3>2, <3>3, <3>4, <3>5, <3>6, <3>7
  <2> QED  BY <1>2, <2>3, <2>4, <2>5
<1> QED  BY <1>4, <1>5

\* A step adds itself to what its node did, and nothing else.
LEMMA AdvanceDid ==
  ASSUME Control, NEW n \in Nodes, ~ Done(n), Advance(n),
         NEW j \in Nodes, NEW op, NEW what, NEW m
  PROVE  Did(j, op, what, m)' <=>
           \/ Did(j, op, what, m)
           \/ j = n /\ This(n) = Step(op, what) /\ m = Peer(n)
<1>1. Control'
  BY AdvanceControl
<1>2. \A i \in 1 .. 31 : \A k \in 1 .. Len(Body(j, i)) : \A l \in Whom(j, i) :
        Passed(j, i, k, l)' <=>
           \/ Passed(j, i, k, l)
           \/ j = n /\ i = loop[n] /\ k = step[n] /\ l = Peer(n)
  BY AdvancePassed
<1>3. /\ loop[n] \in 1 .. 31 /\ step[n] \in 1 .. Len(Body(n, loop[n]))
      /\ Peer(n) \in Whom(n, loop[n])
  BY Here
<1>4. This(n) = Body(n, loop[n])[step[n]]
  BY DEF This
<1>5. Len(Program[j]) = 31
  BY ProgramLoops
<1>6. Did(j, op, what, m)' <=>
        \E i \in 1 .. 31 : \E k \in 1 .. Len(Body(j, i)) :
          /\ Body(j, i)[k] = Step(op, what)
          /\ m \in Whom(j, i)
          /\ Passed(j, i, k, m)'
  BY <1>5 DEF Did, Whom, Body
<1>7. Did(j, op, what, m) <=>
        \E i \in 1 .. 31 : \E k \in 1 .. Len(Body(j, i)) :
          /\ Body(j, i)[k] = Step(op, what)
          /\ m \in Whom(j, i)
          /\ Passed(j, i, k, m)
  BY <1>5 DEF Did
<1> QED  BY <1>2, <1>3, <1>4, <1>6, <1>7

\* The steps of a program are steps.
LEMMA StepsAre ==
  ASSUME NEW n \in Nodes, NEW i \in 1 .. 31, NEW k \in 1 .. Len(Body(n, i))
  PROVE  /\ Body(n, i)[k] = Step(Body(n, i)[k].op, Body(n, i)[k].what)
         /\ Body(n, i)[k].what \in Whats
<1> DEFINE Steps == [op : Ops, what : Whats]
<1>1. Program[n] \in Seq(Loops) /\ Len(Program[n]) = 31
  BY ProgramLoops
<1>2. Program[n][i] \in Loops
  BY <1>1
<1>3. Body(n, i) \in Seq(Steps)
  BY <1>2 DEF Body, Loops
<1>4. Body(n, i)[k] \in Steps
  <2> HIDE DEF Steps
  <2>1. \A S : \A s \in Seq(S) : \A l \in 1 .. Len(s) : s[l] \in S
    OBVIOUS
  <2> QED BY <1>3, <2>1
<1> QED BY <1>4 DEF Step

\* A node is past a loop: it has done all of it.
LEMMA Behind ==
  ASSUME Control, NEW n \in Nodes, NEW i \in 1 .. 31, i < loop[n],
         NEW k \in 1 .. Len(Body(n, i)), NEW m \in Whom(n, i)
  PROVE  Did(n, Body(n, i)[k].op, Body(n, i)[k].what, m)
<1>1. Body(n, i)[k] = Step(Body(n, i)[k].op, Body(n, i)[k].what)
  BY StepsAre
<1>2. Passed(n, i, k, m)
  BY DEF Passed
<1>3. Len(Program[n]) = 31
  BY ProgramLoops
<1> QED  BY <1>1, <1>2, <1>3 DEF Did

\* What was done was done in its place, at or behind the node.
LEMMA DidPlace ==
  ASSUME Control, NEW n \in Nodes, NEW op, NEW what, NEW m, Did(n, op, what, m)
  PROVE  \E i \in 1 .. 31 : /\ Place(op, what, i) /\ i <= loop[n]
                            /\ m \in Whom(n, i)
                            /\ i = loop[n] =>
                                 \E k \in 1 .. Len(Body(n, i)) :
                                   /\ Body(n, i)[k] = Step(op, what)
                                   /\ m \notin todo[n] \/ (m = Peer(n) /\ k < step[n])
<1>1. PICK i \in 1 .. 31 : \E k \in 1 .. Len(Body(n, i)) :
        Body(n, i)[k] = Step(op, what) /\ m \in Whom(n, i) /\ Passed(n, i, k, m)
  BY ProgramLoops DEF Did
<1>2. PICK k \in 1 .. Len(Body(n, i)) :
        Body(n, i)[k] = Step(op, what) /\ m \in Whom(n, i) /\ Passed(n, i, k, m)
  BY <1>1
<1>3. Place(op, what, i)
  <2>1. Place(Body(n, i)[k].op, Body(n, i)[k].what, i)
    BY Listed
  <2>2. Body(n, i)[k].op = op /\ Body(n, i)[k].what = what
    BY <1>2 DEF Step
  <2> QED  BY <2>1, <2>2
<1>4. i <= loop[n] /\ (i = loop[n] => m \notin todo[n] \/ (m = Peer(n) /\ k < step[n]))
  <2>1. loop[n] \in Nat
    BY DEF Control
  <2> QED  BY <1>2, <2>1 DEF Passed
<1> QED  BY <1>2, <1>3, <1>4

\* The step a node is at.
LEMMA AtPlace ==
  ASSUME Control, NEW n \in Nodes, ~ Done(n)
  PROVE  /\ Place(This(n).op, This(n).what, loop[n])
         /\ This(n) = Step(This(n).op, This(n).what)
         /\ This(n).what \in Whats
<1>1. /\ loop[n] \in 1 .. 31 /\ step[n] \in 1 .. Len(Body(n, loop[n]))
  BY Here
<1>2. Place(Body(n, loop[n])[step[n]].op, Body(n, loop[n])[step[n]].what, loop[n])
  BY <1>1, Listed
<1>3. /\ Body(n, loop[n])[step[n]]
           = Step(Body(n, loop[n])[step[n]].op, Body(n, loop[n])[step[n]].what)
      /\ Body(n, loop[n])[step[n]].what \in Whats
  BY <1>1, StepsAre
<1> QED  BY <1>2, <1>3 DEF This

----------------------------------------------------------------------------
(* The order of the steps                                                  *)

\* The ends of a connection: both for a log, or both for the heartbeat.
LEMMA Others ==
  /\ LogEnds \cup HbEnds = Ends
  /\ \A end \in LogEnds : Other[end] \in LogEnds /\ Other[Other[end]] = end
  /\ \A end \in HbEnds : Other[end] \in HbEnds /\ Other[Other[end]] = end
BY DEF Ends, Other, LogEnds, HbEnds

\* A key is stored before it is deleted, and not again.
LEMMA PushFirst ==
  ASSUME NEW what, NEW i \in 1 .. 31, NEW j \in 1 .. 31,
         Place("push", what, i), Place("del", what, j)
  PROVE  i < j
BY DEF Place, LogEnds, HbEnds

\* Who a node takes a step with, where that is what the order hangs on.
LEMMA WithPeers ==
  ASSUME Control, NEW n \in Nodes, ~ Done(n),
         This(n).op \in {"connect", "write"}
           \/ (This(n).op = "wait" /\ This(n).what = "hbstat-table")
  PROVE  Peer(n) \in Peers(n)
<1>1. /\ loop[n] \in 1 .. 31 /\ step[n] \in 1 .. Len(Body(n, loop[n]))
      /\ Peer(n) \in Whom(n, loop[n])
  BY Here
<1>2. Place(This(n).op, This(n).what, loop[n])
  BY AtPlace
<1>3. loop[n] \in {5, 6, 7, 8, 17, 18, 25, 26, 27}
  BY <1>1, <1>2 DEF Place
<1>4. CASE loop[n] \in {5, 6, 7, 8}
  BY <1>1, <1>4, ConnectorLines
<1>5. CASE loop[n] \in {17, 18}
  BY <1>1, <1>5, HeartbeatLines
<1>6. CASE loop[n] \in {26, 27}
  BY <1>1, <1>6, LastLines
<1>7. CASE loop[n] = 25
  <2>1. n = 0
    <3> SUFFICES ASSUME n # 0 PROVE FALSE
      OBVIOUS
    <3>1. Body(n, 25) = <<Step("poll", "pssv")>>
      BY LastLines
    <3>2. This(n) = Step("poll", "pssv")
      BY <1>1, <1>7, <3>1 DEF This
    <3>3. This(n).op = "poll"
      BY <3>2 DEF Step
    <3> QED  BY <3>3
  <2>2. Whom(n, 25) = Peers(n)
    BY <2>1, LastLines
  <2> QED  BY <1>1, <1>7, <2>2
<1> QED  BY <1>3, <1>4, <1>5, <1>6, <1>7

\* What a node stores it deletes later, for the same nodes.
LEMMA PushDel ==
  ASSUME NEW n \in Nodes, NEW what, NEW i \in 1 .. 31, Place("push", what, i)
  PROVE  \E j \in 1 .. 31 : \E k \in 1 .. Len(Body(n, j)) :
           Body(n, j)[k] = Step("del", what) /\ Whom(n, j) = Whom(n, i)
<1> DEFINE Goal(j, k) == /\ k \in 1 .. Len(Body(n, j))
                         /\ Body(n, j)[k] = Step("del", what)
                         /\ Whom(n, j) = Whom(n, i)
<1>1. \/ what \in LogEnds /\ i \in {1, 2, 3, 4}
      \/ what = "qp-connected" /\ i = 9
      \/ what = "hbstat-table" /\ i = 15
      \/ what \in HbEnds /\ i = 16
      \/ what = "hbqp-connected" /\ i = 19
  BY DEF Place
<1>2. CASE what \in LogEnds /\ i \in {1, 2, 3, 4}
  <2>1. Whom(n, i) = Peers(n) /\ Whom(n, 11) = Peers(n) /\ Whom(n, 12) = Peers(n)
    BY <1>2, ConnectorLines
  <2>2. /\ Body(n, 11) = <<Step("del", "replicator"), Step("del", "replayer")>>
        /\ Body(n, 12) = <<Step("del", "checker"), Step("del", "receiver")>>
    BY ConnectorLines
  <2>3. /\ what = "replicator" => Goal(11, 1)
        /\ what = "replayer" => Goal(11, 2)
        /\ what = "checker" => Goal(12, 1)
        /\ what = "receiver" => Goal(12, 2)
    BY <2>1, <2>2
  <2> QED  BY <1>2, <2>3 DEF LogEnds
<1>3. CASE what = "qp-connected" /\ i = 9
  <2>1. /\ Whom(n, 9) = {n} /\ Whom(n, 13) = {n}
        /\ Body(n, 13) = <<Step("del", "qp-connected")>>
    BY ConnectorLines
  <2>2. 1 \in 1 .. Len(Body(n, 13)) /\ Body(n, 13)[1] = Step("del", what)
    BY <1>3, <2>1
  <2>3. Whom(n, 13) = Whom(n, i)
    BY <1>3, <2>1
  <2> QED  BY <2>2, <2>3
<1>4. CASE what = "hbstat-table" /\ i = 15
  <2>1. /\ Whom(n, 15) = {n} /\ Whom(n, 24) = {n}
        /\ Body(n, 24) = <<Step("del", "hbstat-table")>>
    BY HeartbeatLines
  <2>2. 1 \in 1 .. Len(Body(n, 24)) /\ Body(n, 24)[1] = Step("del", what)
    BY <1>4, <2>1
  <2>3. Whom(n, 24) = Whom(n, i)
    BY <1>4, <2>1
  <2> QED  BY <2>2, <2>3
<1>5. CASE what \in HbEnds /\ i = 16
  <2>1. /\ Whom(n, 16) = Peers(n) /\ Whom(n, 23) = Peers(n)
        /\ Body(n, 23) = <<Step("del", "actv"), Step("del", "pssv")>>
    BY HeartbeatLines
  <2>2. /\ what = "actv" => Goal(23, 1)
        /\ what = "pssv" => Goal(23, 2)
    BY <1>5, <2>1
  <2> QED  BY <1>5, <2>2 DEF HbEnds
<1>6. CASE what = "hbqp-connected" /\ i = 19
  <2>1. /\ Whom(n, 19) = {n} /\ Whom(n, 22) = {n}
        /\ Body(n, 22) = <<Step("del", "hbqp-connected")>>
    BY HeartbeatLines
  <2>2. 1 \in 1 .. Len(Body(n, 22)) /\ Body(n, 22)[1] = Step("del", what)
    BY <1>6, <2>1
  <2>3. Whom(n, 22) = Whom(n, i)
    BY <1>6, <2>1
  <2> QED  BY <2>2, <2>3
<1> QED  BY <1>1, <1>2, <1>3, <1>4, <1>5, <1>6

\* Once a node is behind these loops, it has waited for every peer ...
LEMMA HasWaited ==
  ASSUME Control, NEW n \in Nodes, NEW m \in Peers(n)
  PROVE  /\ loop[n] > 10 => Did(n, "wait", "qp-connected", m)
         /\ loop[n] > 20 => Did(n, "wait", "hbqp-connected", m)
         /\ loop[n] > 29 => Did(n, "poll", "receiver", m)
<1>1. /\ 1 \in 1 .. Len(Body(n, 10)) /\ Body(n, 10)[1] = Step("wait", "qp-connected")
      /\ Whom(n, 10) = Peers(n)
      /\ 1 \in 1 .. Len(Body(n, 20)) /\ Body(n, 20)[1] = Step("wait", "hbqp-connected")
      /\ Whom(n, 20) = Nodes
      /\ 1 \in 1 .. Len(Body(n, 29)) /\ Body(n, 29)[1] = Step("poll", "receiver")
      /\ Whom(n, 29) = Peers(n)
  BY Waits
<1>2. m \in Nodes
  BY DEF Peers
<1>3. Len(Program[n]) = 31 /\ 10 \in 1 .. 31 /\ 20 \in 1 .. 31 /\ 29 \in 1 .. 31
  BY ProgramLoops
<1>4. /\ loop[n] > 10 => Passed(n, 10, 1, m)
      /\ loop[n] > 20 => Passed(n, 20, 1, m)
      /\ loop[n] > 29 => Passed(n, 29, 1, m)
  <2>1. loop[n] \in Nat
    BY DEF Control
  <2> QED  BY <2>1 DEF Passed
<1>5. ASSUME loop[n] > 10 PROVE Did(n, "wait", "qp-connected", m)
  BY <1>1, <1>3, <1>4, <1>5 DEF Did
<1>6. ASSUME loop[n] > 20 PROVE Did(n, "wait", "hbqp-connected", m)
  BY <1>1, <1>2, <1>3, <1>4, <1>6 DEF Did
<1>7. ASSUME loop[n] > 29 PROVE Did(n, "poll", "receiver", m)
  BY <1>1, <1>3, <1>4, <1>7 DEF Did
<1> QED  BY <1>5, <1>6, <1>7

\* ... and has connected its ends to each of them.
LEMMA HasConnected ==
  ASSUME Control, NEW n \in Nodes, NEW end \in Ends, NEW m \in Peers(n), loop[n] > 18
  PROVE  Did(n, "connect", end, m)
<1>1. PICK i \in 5 .. 18 : \E k \in 1 .. Len(Body(n, i)) :
        Body(n, i)[k] = Step("connect", end) /\ Whom(n, i) = Peers(n)
  BY Connects
<1>2. PICK k \in 1 .. Len(Body(n, i)) :
        Body(n, i)[k] = Step("connect", end) /\ Whom(n, i) = Peers(n)
  BY <1>1
<1>3. i \in 1 .. 31 /\ i < loop[n]
  <2>1. loop[n] \in Nat
    BY DEF Control
  <2> QED  BY <2>1
<1>4. Passed(n, i, k, m)
  BY <1>3 DEF Passed
<1>5. Len(Program[n]) = 31
  BY ProgramLoops
<1> QED  BY <1>2, <1>3, <1>4, <1>5 DEF Did

\* A node that did one of these is that far.
LEMMA HowFar ==
  ASSUME Control, NEW n \in Nodes, NEW m
  PROVE  /\ Did(n, "push", "qp-connected", m) => loop[n] >= 9
         /\ Did(n, "push", "hbqp-connected", m) => loop[n] >= 19
         /\ \A end \in LogEnds : Did(n, "del", end, m) => loop[n] >= 11
         /\ \A end \in HbEnds : Did(n, "del", end, m) => loop[n] >= 23
         /\ Did(n, "del", "hbstat-table", m) => loop[n] >= 23
         /\ \A end \in Ends : Did(n, "spawn", end, m) => loop[n] >= 30
<1>0. loop[n] \in Nat
  BY DEF Control
<1>1. ASSUME NEW op, NEW what, Did(n, op, what, m)
      PROVE  \E i \in 1 .. 31 : Place(op, what, i) /\ i <= loop[n]
  BY <1>1, DidPlace
<1>2. \A what, i : Place("push", what, i) => (what = "qp-connected" => i = 9)
                                           /\ (what = "hbqp-connected" => i = 19)
  BY DEF Place, LogEnds, HbEnds
<1>3. \A what, i : Place("del", what, i) => (what \in LogEnds => i \in 11 .. 12)
                                          /\ (what \in HbEnds => i = 23)
                                          /\ (what = "hbstat-table" => i = 24)
  BY DEF Place, LogEnds, HbEnds
<1>4. \A what, i : Place("spawn", what, i) => i \in 30 .. 31
  BY DEF Place
<1>5. Did(n, "push", "qp-connected", m) => loop[n] >= 9
  BY <1>0, <1>1, <1>2
<1>6. Did(n, "push", "hbqp-connected", m) => loop[n] >= 19
  BY <1>0, <1>1, <1>2
<1>7. \A end \in LogEnds : Did(n, "del", end, m) => loop[n] >= 11
  BY <1>0, <1>1, <1>3
<1>8. \A end \in HbEnds : Did(n, "del", end, m) => loop[n] >= 23
  BY <1>0, <1>1, <1>3
<1>9. Did(n, "del", "hbstat-table", m) => loop[n] >= 23
  BY <1>0, <1>1, <1>3
<1>10. \A end \in Ends : Did(n, "spawn", end, m) => loop[n] >= 30
  BY <1>0, <1>1, <1>4
<1> QED  BY <1>5, <1>6, <1>7, <1>8, <1>9, <1>10

----------------------------------------------------------------------------
(* The invariant                                                           *)

\* BootInv, with what follows from the rest of it left out.
LEMMA InvIs ==
  BootInv <=> Control /\ Traces /\ Met /\ Slept /\ late \in BOOLEAN
<1>1. Traces => /\ memc \cap deleted = {}
                /\ \A key \in memc \cup connected \cup written \cup reading \cup deleted :
                     key[2] \in Nodes /\ key[3] \in Nodes
  <2> SUFFICES ASSUME Traces
               PROVE  /\ memc \cap deleted = {}
                      /\ \A key \in memc \cup connected \cup written \cup reading \cup deleted :
                           key[2] \in Nodes /\ key[3] \in Nodes
    OBVIOUS
  <2>1. memc \cup connected \cup written \cup reading \cup deleted \subseteq Keys
    BY DEF Traces
  <2>2. \A key \in Keys : key[2] \in Nodes /\ key[3] \in Nodes
    BY DEF Keys
  <2>3. \A key \in Keys : ~ (key \in memc /\ key \in deleted)
    BY DEF Traces
  <2> QED  BY <2>1, <2>2, <2>3
<1>2. BootInv <=> Control /\ Traces /\ Met /\ Slept /\ late \in BOOLEAN
                  /\ memc \cap deleted = {}
                  /\ \A key \in memc \cup connected \cup written \cup reading \cup deleted :
                       key[2] \in Nodes /\ key[3] \in Nodes
  BY ControlIs DEF BootInv, TypeOK
<1> QED  BY <1>1, <1>2

\* Nobody has done anything, and nothing is there.
LEMMA InitCorrect == Init => BootInv
<1> SUFFICES ASSUME Init PROVE BootInv
  OBVIOUS
<1>1. \A n \in Nodes : Whom(n, 1) # {} /\ Whom(n, 1) \subseteq Nodes /\ Len(Body(n, 1)) \in Nat \ {0}
  <2>1. 1 \in 1 .. 31
    OBVIOUS
  <2> QED  BY <2>1, Filled
<1>2. Control
  <2>1. \A n \in Nodes : Place31(n, 1, Whom(n, 1), 1)
    BY <1>1 DEF Place31
  <2> QED  BY <1>1, <2>1 DEF Init, Control
<1>3. ASSUME NEW n \in Nodes, NEW op, NEW what, NEW m, Did(n, op, what, m) PROVE FALSE
  <2>1. PICK i \in 1 .. 31 : \E k \in 1 .. Len(Body(n, i)) : m \in Whom(n, i) /\ Passed(n, i, k, m)
    BY <1>3, ProgramLoops DEF Did
  <2>2. PICK k \in 1 .. Len(Body(n, i)) : m \in Whom(n, i) /\ Passed(n, i, k, m)
    BY <2>1
  <2>3. loop[n] = 1 /\ todo[n] = Whom(n, 1) /\ step[n] = 1
    BY DEF Init
  <2>4. ~ (i < 1) /\ ~ (k < 1)
    OBVIOUS
  <2> QED  BY <2>2, <2>3, <2>4 DEF Passed
<1>4. Traces
  <2>1. \A key \in Keys : key[2] \in Nodes
    BY DEF Keys
  <2>2. \A key \in Keys : \A op : ~ DidTo(key, op)
    BY <1>3, <2>1 DEF DidTo
  <2> QED  BY <2>2 DEF Init, Traces
<1>5. Met
  BY <1>3 DEF Met
<1>6. Slept
  BY <1>3 DEF Slept
<1> QED  BY <1>2, <1>4, <1>5, <1>6, InvIs DEF Init

\* A step of a node n leaves one trace.
Trace(n) ==
  \A key \in Keys, op \in Ops :
    DidTo(key, op)' <=> DidTo(key, op) \/ (op = This(n).op /\ key = OwnKey(n))

\* The key a step stores, deletes, connects or polls is a key.
LEMMA Own ==
  ASSUME Control, NEW n \in Nodes, ~ Done(n)
  PROVE  OwnKey(n) \in Keys /\ OwnKey(n) = <<This(n).what, n, Peer(n)>>
<1>1. This(n).what \in Whats /\ Peer(n) \in Nodes
  BY AtPlace, Here
<1> QED  BY <1>1 DEF OwnKey, Keys, Whats

\* So it is for the keys.
LEMMA AdvanceTrace ==
  ASSUME Control, NEW n \in Nodes, ~ Done(n), Advance(n)
  PROVE  Trace(n)
<1> SUFFICES ASSUME NEW key \in Keys, NEW op \in Ops
             PROVE  DidTo(key, op)' <=> DidTo(key, op) \/ (op = This(n).op /\ key = OwnKey(n))
  BY DEF Trace
<1>1. PICK w, j, m : key = <<w, j, m>> /\ j \in Nodes
  BY DEF Keys
<1>2. key[1] = w /\ key[2] = j /\ key[3] = m
  BY <1>1
<1>3. Did(j, op, w, m)' <=> Did(j, op, w, m) \/ (j = n /\ This(n) = Step(op, w) /\ m = Peer(n))
  BY <1>1, AdvanceDid
<1>4. This(n) = Step(op, w) <=> op = This(n).op /\ w = This(n).what
  <2>1. This(n) = Step(This(n).op, This(n).what)
    BY AtPlace
  <2>2. Step(op, w).op = op /\ Step(op, w).what = w
    BY DEF Step
  <2> QED  BY <2>1, <2>2
<1>5. key = OwnKey(n) <=> w = This(n).what /\ j = n /\ m = Peer(n)
  BY <1>1 DEF OwnKey
<1>6. /\ DidTo(key, op) <=> Did(j, op, w, m)
      /\ DidTo(key, op)' <=> Did(j, op, w, m)'
  BY <1>2 DEF DidTo
<1> QED  BY <1>3, <1>4, <1>5, <1>6

\* What a node stores now it has not deleted.
LEMMA PushNew ==
  ASSUME Control, NEW n \in Nodes, At(n, "push")
  PROVE  ~ DidTo(OwnKey(n), "del")
<1> SUFFICES ASSUME DidTo(OwnKey(n), "del") PROVE FALSE
  OBVIOUS
<1>0. ~ Done(n) /\ This(n).op = "push"
  BY DEF At
<1>1. Did(n, "del", This(n).what, Peer(n))
  BY <1>0, Own DEF DidTo
<1>2. PICK i \in 1 .. 31 : Place("del", This(n).what, i) /\ i <= loop[n]
  BY <1>1, DidPlace
<1>3. Place("push", This(n).what, loop[n]) /\ loop[n] \in 1 .. 31
  BY <1>0, AtPlace, Here
<1>4. loop[n] < i
  BY <1>2, <1>3, PushFirst
<1> QED  BY <1>2, <1>3, <1>4

\* A step that waits or polls needs what its owner has put there.
LEMMA NextMet ==
  ASSUME Control, Met, NEW n \in Nodes, ~ Done(n), Trace(n),
         ASSUME This(n).op = "wait"
         PROVE  DidTo(NeededKey(n), "push"),
         ASSUME This(n).op = "poll"
         PROVE  DidTo(NeededKey(n), "write")
  PROVE  Met'
<1> DEFINE w == This(n).what
           p == Peer(n)
<1>0. {"push", "wait", "write", "poll"} \subseteq Ops
  BY DEF Ops
<1>1. \A what \in Whats : \A j, m \in Nodes :
        <<what, j, m>> \in Keys /\ \A op : DidTo(<<what, j, m>>, op) <=> Did(j, op, what, m)
  BY DEF Keys, Whats, DidTo
<1>2. \A what \in Whats : \A j, m \in Nodes : \A op \in Ops :
        Did(j, op, what, m)' <=>
          Did(j, op, what, m) \/ (op = This(n).op /\ <<what, j, m>> = OwnKey(n))
  <2> SUFFICES ASSUME NEW what \in Whats, NEW j \in Nodes, NEW m \in Nodes, NEW op \in Ops
               PROVE  Did(j, op, what, m)' <=>
                 Did(j, op, what, m) \/ (op = This(n).op /\ <<what, j, m>> = OwnKey(n))
    OBVIOUS
  <2>1. DidTo(<<what, j, m>>, op)' <=>
          DidTo(<<what, j, m>>, op) \/ (op = This(n).op /\ <<what, j, m>> = OwnKey(n))
    BY <1>1 DEF Trace
  <2>2. DidTo(<<what, j, m>>, op)' <=> Did(j, op, what, m)'
    BY DEF DidTo
  <2> QED  BY <1>1, <2>1, <2>2
<1>3. /\ OwnKey(n) = <<w, n, p>> /\ p \in Nodes /\ w \in Whats
  BY Own, Here, AtPlace
<1>4. ASSUME NEW j \in Nodes, NEW m \in Nodes, NEW msg \in {"qp-connected", "hbqp-connected"},
             Did(j, "wait", msg, m)'
      PROVE  Did(m, "push", msg, m)'
  <2>1. msg \in Whats
    BY DEF Whats
  <2>2. CASE Did(j, "wait", msg, m)
    BY <1>0, <1>2, <2>1, <2>2 DEF Met
  <2>3. CASE This(n).op = "wait" /\ <<msg, j, m>> = OwnKey(n)
    <3>1. msg = w /\ j = n /\ m = p
      BY <1>3, <2>3
    <3>2. NeededKey(n) = <<msg, m, m>>
      BY <2>3, <3>1 DEF NeededKey, Needs
    <3>3. Did(m, "push", msg, m)
      BY <1>1, <2>1, <2>3, <3>2
    <3> QED  BY <1>0, <1>2, <2>1, <3>3
  <2> QED  BY <1>0, <1>2, <1>4, <2>1, <2>2, <2>3
<1>5. ASSUME NEW j \in Nodes, NEW m \in Nodes, NEW end \in Ends, Did(j, "poll", end, m)'
      PROVE  Did(m, "write", Other[end], j)'
  <2>1. end \in Whats /\ Other[end] \in Whats
    BY Others DEF Whats
  <2>2. CASE Did(j, "poll", end, m)
    BY <1>0, <1>2, <2>1, <2>2 DEF Met
  <2>3. CASE This(n).op = "poll" /\ <<end, j, m>> = OwnKey(n)
    <3>1. end = w /\ j = n /\ m = p
      BY <1>3, <2>3
    <3>2. NeededKey(n) = <<Other[end], m, j>>
      BY <2>3, <3>1 DEF NeededKey, Needs
    <3>3. Did(m, "write", Other[end], j)
      BY <1>1, <2>1, <2>3, <3>2
    <3> QED  BY <1>0, <1>2, <2>1, <3>3
  <2> QED  BY <1>0, <1>2, <1>5, <2>1, <2>2, <2>3
<1> QED  BY <1>4, <1>5 DEF Met

\* Every action changes what it is the trace of.
LEMMA NextTraces ==
  ASSUME BootInv, NEW n \in Nodes, NodeStep(n)
  PROVE  Traces' /\ ~ Done(n) /\ Advance(n) /\ late' \in BOOLEAN
<1>0. Control /\ Traces /\ late \in BOOLEAN
  BY InvIs
<1>1. ~ Done(n) /\ Advance(n)
  BY DEF NodeStep, Push, Fetch, Wait, Del, Sleep, Reset, Write, Poll, Spawn, At
<1>2. Trace(n)
  BY <1>0, <1>1, AdvanceTrace
<1>3. OwnKey(n) \in Keys
  BY <1>0, <1>1, Own
<1> DEFINE op == This(n).op
           own == OwnKey(n)
<1>4. \A key \in Keys :
        /\ DidTo(key, "push")' <=> DidTo(key, "push") \/ (op = "push" /\ key = own)
        /\ DidTo(key, "del")' <=> DidTo(key, "del") \/ (op = "del" /\ key = own)
        /\ DidTo(key, "connect")' <=> DidTo(key, "connect") \/ (op = "connect" /\ key = own)
        /\ DidTo(key, "spawn")' <=> DidTo(key, "spawn") \/ (op = "spawn" /\ key = own)
        /\ DidTo(key, "write")' <=> DidTo(key, "write") \/ (op = "write" /\ key = own)
  <2> SUFFICES ASSUME NEW key \in Keys
               PROVE
        /\ DidTo(key, "push")' <=> DidTo(key, "push") \/ (op = "push" /\ key = own)
        /\ DidTo(key, "del")' <=> DidTo(key, "del") \/ (op = "del" /\ key = own)
        /\ DidTo(key, "connect")' <=> DidTo(key, "connect") \/ (op = "connect" /\ key = own)
        /\ DidTo(key, "spawn")' <=> DidTo(key, "spawn") \/ (op = "spawn" /\ key = own)
        /\ DidTo(key, "write")' <=> DidTo(key, "write") \/ (op = "write" /\ key = own)
    OBVIOUS
  <2>1. /\ "push" \in Ops /\ "del" \in Ops /\ "connect" \in Ops /\ "spawn" \in Ops
        /\ "write" \in Ops
    BY DEF Ops
  <2>2. \A o \in Ops : DidTo(key, o)' <=> DidTo(key, o) \/ (o = op /\ key = own)
    BY <1>2 DEF Trace
  <2>3. DidTo(key, "push")' <=> DidTo(key, "push") \/ (op = "push" /\ key = own)
    BY <2>1, <2>2
  <2>4. DidTo(key, "del")' <=> DidTo(key, "del") \/ (op = "del" /\ key = own)
    BY <2>1, <2>2
  <2>5. DidTo(key, "connect")' <=> DidTo(key, "connect") \/ (op = "connect" /\ key = own)
    BY <2>1, <2>2
  <2>6. DidTo(key, "spawn")' <=> DidTo(key, "spawn") \/ (op = "spawn" /\ key = own)
    BY <2>1, <2>2
  <2>7. DidTo(key, "write")' <=> DidTo(key, "write") \/ (op = "write" /\ key = own)
    BY <2>1, <2>2
  <2> QED  BY <2>3, <2>4, <2>5, <2>6, <2>7
\* The five shared sets afterwards, whatever the step was.
<1>5. /\ memc' = (IF op = "push" THEN memc \cup {own} ELSE
                  IF op = "del" THEN memc \ {own} ELSE memc)
      /\ deleted' = (IF op = "del" THEN deleted \cup {own} ELSE deleted)
      /\ connected' = (IF op = "connect" THEN connected \cup {own} ELSE connected)
      /\ reading' = (IF op = "spawn" THEN reading \cup {own} ELSE reading)
      /\ written' \subseteq (IF op = "write" THEN written \cup {own} ELSE written)
  <2>1. CASE Push(n)
    BY <2>1 DEF Push, At
  <2>2. CASE Fetch(n)
    BY <2>2 DEF Fetch, At
  <2>3. CASE Wait(n)
    BY <2>3 DEF Wait, At
  <2>4. CASE Del(n)
    BY <2>4 DEF Del, At
  <2>5. CASE Sleep(n)
    BY <2>5 DEF Sleep, At
  <2>6. CASE Reset(n)
    BY <2>6 DEF Reset, At
  <2>7. CASE Write(n)
    BY <2>7 DEF Write, At
  <2>8. CASE Poll(n)
    BY <2>8 DEF Poll, At
  <2>9. CASE Spawn(n)
    BY <2>9 DEF Spawn, At
  <2> QED  BY <2>1, <2>2, <2>3, <2>4, <2>5, <2>6, <2>7, <2>8, <2>9 DEF NodeStep
<1>6. op = "push" => ~ DidTo(own, "del")
  BY <1>0, <1>1, PushNew DEF At
<1>7. late' \in BOOLEAN
  BY <1>0 DEF NodeStep, Push, Fetch, Wait, Del, Sleep, Reset, Write, Poll, Spawn
<1>8. Traces'
  <2>1. memc \cup connected \cup written \cup reading \cup deleted \subseteq Keys
    BY <1>0 DEF Traces
  <2> HIDE DEF op, own
  <2>2. own \in Keys
    BY <1>3 DEF own
  <2>3. memc' \cup connected' \cup written' \cup reading' \cup deleted' \subseteq Keys
    <3>1. memc' \subseteq Keys /\ deleted' \subseteq Keys
      BY <1>5, <2>1, <2>2
    <3>2. connected' \subseteq Keys /\ reading' \subseteq Keys
      BY <1>5, <2>1, <2>2
    <3>3. written' \subseteq Keys
      BY <1>5, <2>1, <2>2
    <3> QED  BY <3>1, <3>2, <3>3
  <2>4. ASSUME NEW key \in Keys
        PROVE  /\ key \in memc' <=> DidTo(key, "push")' /\ ~ DidTo(key, "del")'
               /\ key \in deleted' <=> DidTo(key, "del")'
               /\ key \in connected' <=> DidTo(key, "connect")'
               /\ key \in reading' <=> DidTo(key, "spawn")'
               /\ key \in written' => DidTo(key, "write")'
    <3>1. /\ key \in memc <=> DidTo(key, "push") /\ ~ DidTo(key, "del")
          /\ key \in deleted <=> DidTo(key, "del")
          /\ key \in connected <=> DidTo(key, "connect")
          /\ key \in reading <=> DidTo(key, "spawn")
          /\ key \in written => DidTo(key, "write")
      BY <1>0 DEF Traces
    <3>2. key \in memc' <=> DidTo(key, "push")' /\ ~ DidTo(key, "del")'
      BY <1>4, <1>5, <1>6, <3>1
    <3>3. key \in deleted' <=> DidTo(key, "del")'
      BY <1>4, <1>5, <3>1
    <3>4. key \in connected' <=> DidTo(key, "connect")'
      BY <1>4, <1>5, <3>1
    <3>5. key \in reading' <=> DidTo(key, "spawn")'
      BY <1>4, <1>5, <3>1
    <3>6. key \in written' => DidTo(key, "write")'
      BY <1>4, <1>5, <3>1
    <3> QED  BY <3>2, <3>3, <3>4, <3>5, <3>6
  <2> QED  BY <2>3, <2>4 DEF Traces
<1> QED  BY <1>1, <1>7, <1>8

\* What a node has been through it stays through.
LEMMA NeedsLess ==
  ASSUME Control, NEW n \in Nodes, ~ Done(n), Advance(n),
         NEW m \in Nodes, NEW key, StillNeeds(m, key)'
  PROVE  StillNeeds(m, key)
<1>1. Len(Program[m]) = 31
  BY ProgramLoops
<1>2. StillNeeds(m, key)' <=>
        \E i \in 1 .. 31 : \E l \in Whom(m, i), k \in 1 .. Len(Body(m, i)) :
          /\ Body(m, i)[k].op \in {"wait", "connect"}
          /\ Needs(m, Body(m, i)[k], l) = key
          /\ ~ Passed(m, i, k, l)'
  BY <1>1 DEF StillNeeds
<1>3. StillNeeds(m, key) <=>
        \E i \in 1 .. 31 : \E l \in Whom(m, i), k \in 1 .. Len(Body(m, i)) :
          /\ Body(m, i)[k].op \in {"wait", "connect"}
          /\ Needs(m, Body(m, i)[k], l) = key
          /\ ~ Passed(m, i, k, l)
  BY <1>1 DEF StillNeeds
<1>4. \A i \in 1 .. 31 : \A k \in 1 .. Len(Body(m, i)) : \A l \in Whom(m, i) :
        Passed(m, i, k, l) => Passed(m, i, k, l)'
  BY AdvancePassed
<1> QED  BY <1>2, <1>3, <1>4

\* A node that sleeps goes on when nobody has still to find its key.
LEMMA NextSlept ==
  ASSUME Control, Slept, NEW n \in Nodes, NodeStep(n), ~ Done(n), Advance(n)
  PROVE  Slept'
<1> SUFFICES ASSUME NEW j \in Nodes, Did(j, "sleep", "hbqp-connected", j)',
                    NEW m \in Nodes, StillNeeds(m, <<"hbqp-connected", j, j>>)'
             PROVE  FALSE
  BY DEF Slept
<1>1. StillNeeds(m, <<"hbqp-connected", j, j>>)
  BY NeedsLess
<1>2. ~ Did(j, "sleep", "hbqp-connected", j)
  BY <1>1 DEF Slept
<1>3. j = n /\ This(n) = Step("sleep", "hbqp-connected") /\ j = Peer(n)
  BY <1>2, AdvanceDid
<1>4. This(n).op = "sleep" /\ OwnKey(n) = <<"hbqp-connected", j, j>>
  <2>1. /\ Step("sleep", "hbqp-connected").op = "sleep"
        /\ Step("sleep", "hbqp-connected").what = "hbqp-connected"
    BY DEF Step
  <2>2. This(n).op = "sleep" /\ This(n).what = "hbqp-connected"
    BY <1>3, <2>1, Zenon
  <2> QED  BY <1>3, <2>2 DEF OwnKey
<1>5. Sleep(n)
  BY <1>4 DEF NodeStep, Push, Fetch, Wait, Del, Reset, Write, Poll, Spawn, At
<1> QED  BY <1>1, <1>4, <1>5 DEF Sleep

\* Every step of a node keeps the invariant.
LEMMA StepCorrect ==
  ASSUME BootInv, NEW n \in Nodes, NodeStep(n)
  PROVE  BootInv'
<1>0. Control /\ Traces /\ Met /\ Slept
  BY InvIs
<1>1. Traces' /\ ~ Done(n) /\ Advance(n) /\ late' \in BOOLEAN
  BY NextTraces
<1>2. Control'
  BY <1>0, <1>1, AdvanceControl
<1>3. Trace(n)
  BY <1>0, <1>1, AdvanceTrace
<1>4. ASSUME This(n).op = "wait" PROVE DidTo(NeededKey(n), "push")
  <2>1. NeededKey(n) \in memc
    BY <1>4 DEF NodeStep, Push, Fetch, Wait, Del, Sleep, Reset, Write, Poll, Spawn, At
  <2> QED  BY <1>0, <2>1 DEF Traces
<1>5. ASSUME This(n).op = "poll" PROVE DidTo(NeededKey(n), "write")
  <2>1. NeededKey(n) \in written
    BY <1>5 DEF NodeStep, Push, Fetch, Wait, Del, Sleep, Reset, Write, Poll, Spawn, At
  <2> QED  BY <1>0, <2>1 DEF Traces
<1>6. Met'
  BY <1>0, <1>1, <1>3, <1>4, <1>5, NextMet
<1>7. Slept'
  BY <1>0, <1>1, NextSlept
<1>8. (Control /\ Traces /\ Met /\ Slept /\ late \in BOOLEAN)' => BootInv'
  BY InvIs, PTL
<1> QED  BY <1>1, <1>2, <1>6, <1>7, <1>8

\* Whatever the order of the nodes' steps, the keys in memcached, the
\* connections, the polled logs and the deleted keys are the ones the nodes' places
\* in their programs tell, and what was waited for or polled was put there.
THEOREM BootCorrect == Spec => []BootInv
<1>1. BootInv /\ [Next]_vars => BootInv'
  <2> SUFFICES ASSUME BootInv, [Next]_vars PROVE BootInv'
    OBVIOUS
  <2>1. CASE Next
    BY <2>1, StepCorrect DEF Next
  <2>2. CASE UNCHANGED vars
    <3>1. /\ loop' = loop /\ todo' = todo /\ step' = step /\ memc' = memc
          /\ connected' = connected /\ written' = written /\ reading' = reading
          /\ deleted' = deleted /\ late' = late
      BY <2>2 DEF vars
    <3>2. \A n, i, k, m : Passed(n, i, k, m)' <=> Passed(n, i, k, m)
      BY <3>1 DEF Passed, Peer
    <3>3. /\ \A n, op, what, m : Did(n, op, what, m)' <=> Did(n, op, what, m)
          /\ \A n, key : StillNeeds(n, key)' <=> StillNeeds(n, key)
      BY <3>2 DEF Did, StillNeeds
    <3>4. TypeOK'
      BY <3>1 DEF BootInv, TypeOK, Done
    <3>5. Traces'
      BY <3>1, <3>3 DEF BootInv, Traces, DidTo
    <3>6. Met' /\ Slept'
      BY <3>3 DEF BootInv, Met, Slept
    <3> QED  BY <3>4, <3>5, <3>6 DEF BootInv
  <2> QED  BY <2>1, <2>2
<1> QED  BY <1>1, InitCorrect, PTL DEF Spec

----------------------------------------------------------------------------
(* What the invariant is for                                               *)

\* What a node has waited for was stored by the other one.
LEMMA WaitedFor ==
  ASSUME Met, NEW n \in Nodes, NEW m \in Nodes
  PROVE  /\ Did(n, "wait", "qp-connected", m) => Did(m, "push", "qp-connected", m)
         /\ Did(n, "wait", "hbqp-connected", m) => Did(m, "push", "hbqp-connected", m)
<1>1. \A msg \in {"qp-connected", "hbqp-connected"} :
        Did(n, "wait", msg, m) => Did(m, "push", msg, m)
  BY DEF Met
<1> QED  BY <1>1

\* A key is deleted behind a barrier: its owner has found what the node that
\* fetches stores only when it is past that fetch.
LEMMA NoKeyMissedHolds == BootInv => NoKeyMissed
<1> SUFFICES ASSUME BootInv, NEW n \in Nodes,
                    At(n, "connect") \/ (At(n, "wait") /\ This(n).what = "hbstat-table"),
                    NeededKey(n) \in deleted
             PROVE  FALSE
  BY DEF NoKeyMissed
<1> DEFINE m == Peer(n)
           w == This(n).what
<1>0. Control /\ Traces /\ Met
  BY InvIs
<1>1. ~ Done(n) /\ (This(n).op = "connect" \/ (This(n).op = "wait" /\ w = "hbstat-table"))
  BY DEF At
<1>2. m \in Peers(n)
  BY <1>0, <1>1, WithPeers
<1>3. m \in Nodes /\ n \in Peers(m)
  BY <1>2 DEF Peers
<1>4. Place(This(n).op, w, loop[n]) /\ loop[n] \in 1 .. 31
  BY <1>0, <1>1, AtPlace, Here
<1>5. NeededKey(n) \in Keys /\ DidTo(NeededKey(n), "del")
  BY <1>0 DEF Traces
<1>6. /\ Did(m, "wait", "qp-connected", n) => loop[n] >= 9
      /\ Did(m, "wait", "hbqp-connected", n) => loop[n] >= 19
  <2> HIDE DEF m
  <2>1. /\ Did(m, "wait", "qp-connected", n) => Did(n, "push", "qp-connected", n)
        /\ Did(m, "wait", "hbqp-connected", n) => Did(n, "push", "hbqp-connected", n)
    BY <1>0, <1>3, WaitedFor
  <2> QED  BY <1>0, <2>1, HowFar
<1>7. loop[m] > 10 => Did(m, "wait", "qp-connected", n)
  BY <1>0, <1>3, HasWaited
<1>8. loop[m] > 20 => Did(m, "wait", "hbqp-connected", n)
  BY <1>0, <1>3, HasWaited
<1>9. loop[m] \in Nat
  BY <1>0, <1>3 DEF Control
<1>10. CASE This(n).op = "connect" /\ w \in LogEnds
  <2>1. loop[n] \in 5 .. 8
    BY <1>4, <1>10 DEF Place, LogEnds, HbEnds
  <2>2. NeededKey(n) = <<Other[w], m, n>> /\ Other[w] \in LogEnds
    BY <1>10, Others DEF NeededKey, Needs
  <2>3. Did(m, "del", Other[w], n)
    BY <1>5, <2>2 DEF DidTo
  <2>4. loop[m] >= 11
    BY <1>0, <1>3, <2>2, <2>3, HowFar
  <2> QED  BY <1>6, <1>7, <1>9, <2>1, <2>4
<1>11. CASE This(n).op = "connect" /\ w \in HbEnds
  <2>1. loop[n] \in 17 .. 18
    BY <1>4, <1>11 DEF Place, LogEnds, HbEnds
  <2>2. NeededKey(n) = <<Other[w], m, n>> /\ Other[w] \in HbEnds
    BY <1>11, Others DEF NeededKey, Needs
  <2>3. Did(m, "del", Other[w], n)
    BY <1>5, <2>2 DEF DidTo
  <2>4. loop[m] >= 23
    BY <1>0, <1>3, <2>2, <2>3, HowFar
  <2> QED  BY <1>6, <1>8, <1>9, <2>1, <2>4
<1>12. CASE This(n).op = "wait" /\ w = "hbstat-table"
  <2>1. loop[n] = 17
    BY <1>4, <1>12 DEF Place
  <2>2. NeededKey(n) = <<w, m, m>>
    BY <1>12 DEF NeededKey, Needs
  <2>3. Did(m, "del", "hbstat-table", m)
    BY <1>5, <1>12, <2>2 DEF DidTo
  <2>4. loop[m] >= 23
    BY <1>0, <1>3, <2>3, HowFar
  <2> QED  BY <1>6, <1>8, <1>9, <2>1, <2>4
<1>13. This(n).op = "connect" => w \in LogEnds \cup HbEnds
  BY <1>4 DEF Place
<1> QED  BY <1>1, <1>10, <1>11, <1>12, <1>13

\* What a node writes to is an end of its own and the other end at a peer.
LEMMA WriteIs ==
  ASSUME Control, NEW n \in Nodes, At(n, "write")
  PROVE  /\ ~ Done(n) /\ loop[n] \in 25 .. 27 /\ This(n).what \in Ends
         /\ Peer(n) \in Peers(n) /\ Peer(n) \in Nodes /\ n \in Peers(Peer(n))
         /\ OwnKey(n) = <<This(n).what, n, Peer(n)>> /\ OwnKey(n) \in Keys
         /\ NeededKey(n) = <<Other[This(n).what], Peer(n), n>> /\ NeededKey(n) \in Keys
         /\ Other[This(n).what] \in Ends
<1>1. ~ Done(n) /\ This(n).op = "write"
  BY DEF At
<1>2. Place("write", This(n).what, loop[n])
  BY <1>1, AtPlace
<1>3. loop[n] \in 25 .. 27 /\ This(n).what \in {"actv", "replicator", "checker"}
  BY <1>2 DEF Place
<1>4. This(n).what \in Ends /\ Other[This(n).what] \in Ends
  BY <1>3 DEF Ends, Other
<1>5. Peer(n) \in Peers(n)
  BY <1>1, WithPeers
<1>6. Peer(n) \in Nodes /\ n \in Peers(Peer(n))
  BY <1>5 DEF Peers
<1>7. OwnKey(n) = <<This(n).what, n, Peer(n)>> /\ OwnKey(n) \in Keys
  BY <1>1, Own
<1>8. NeededKey(n) = <<Other[This(n).what], Peer(n), n>>
  BY <1>1 DEF NeededKey, Needs
<1>9. NeededKey(n) \in Keys
  BY <1>4, <1>6, <1>8 DEF Keys
<1> QED  BY <1>1, <1>3, <1>4, <1>5, <1>6, <1>7, <1>8, <1>9

\* A node writes behind the heartbeat's barrier, for which every peer has
\* connected its ends.
LEMMA WritesLandHolds == BootInv => WritesLand
<1> SUFFICES ASSUME BootInv, NEW n \in Nodes, At(n, "write")
             PROVE  OwnKey(n) \in connected /\ NeededKey(n) \in connected
  BY DEF WritesLand
<1> DEFINE m == Peer(n)
           w == This(n).what
<1>0. Control /\ Traces /\ Met
  BY InvIs
<1>1. /\ ~ Done(n) /\ loop[n] \in 25 .. 27 /\ w \in Ends
      /\ m \in Peers(n) /\ m \in Nodes /\ n \in Peers(m)
      /\ OwnKey(n) = <<w, n, m>> /\ OwnKey(n) \in Keys
      /\ NeededKey(n) = <<Other[w], m, n>> /\ NeededKey(n) \in Keys
      /\ Other[w] \in Ends
  BY <1>0, WriteIs
<1> HIDE DEF m, w
<1>2. loop[n] > 18 /\ loop[n] > 20
  BY <1>1
<1>3. Did(n, "connect", w, m)
  BY <1>0, <1>1, <1>2, HasConnected
<1>4. Did(n, "wait", "hbqp-connected", m)
  BY <1>0, <1>1, <1>2, HasWaited
<1>5. Did(m, "push", "hbqp-connected", m)
  BY <1>0, <1>1, <1>4, WaitedFor
<1>6. loop[m] > 18
  <2>1. loop[m] >= 19 /\ loop[m] \in Nat
    BY <1>0, <1>1, <1>5, HowFar DEF Control
  <2> QED  BY <2>1
<1>7. Did(m, "connect", Other[w], n)
  BY <1>0, <1>1, <1>6, HasConnected
<1>8. DidTo(OwnKey(n), "connect") /\ DidTo(NeededKey(n), "connect")
  BY <1>1, <1>3, <1>7 DEF DidTo
<1> QED  BY <1>0, <1>1, <1>8 DEF Traces

\* A node that polls a log with a thread has seen both logs of the writer
\* started, so the writer is past starting either.
LEMMA NoReaderResetHolds == BootInv => NoReaderReset
<1> SUFFICES ASSUME BootInv, NEW n \in Nodes, At(n, "write"), NeededKey(n) \in reading
             PROVE  FALSE
  BY DEF NoReaderReset
<1> DEFINE m == Peer(n)
           w == This(n).what
<1>0. Control /\ Traces /\ Met
  BY InvIs
<1>1. /\ ~ Done(n) /\ loop[n] \in 25 .. 27 /\ w \in Ends
      /\ m \in Nodes /\ n \in Peers(m)
      /\ NeededKey(n) = <<Other[w], m, n>> /\ NeededKey(n) \in Keys
      /\ Other[w] \in Ends
  BY <1>0, WriteIs
<1>2. /\ m \in todo[n] /\ step[n] \in 1 .. Len(Body(n, loop[n]))
  BY <1>0, <1>1, Here
<1>3. Did(m, "spawn", Other[w], n)
  <2>1. DidTo(NeededKey(n), "spawn")
    BY <1>0, <1>1 DEF Traces
  <2> QED  BY <1>1, <2>1 DEF DidTo
<1>4. loop[m] > 29
  <2>1. loop[m] >= 30 /\ loop[m] \in Nat
    BY <1>0, <1>1, <1>3, HowFar DEF Control
  <2> QED  BY <2>1
<1>5. Did(m, "poll", "receiver", n)
  BY <1>0, <1>1, <1>4, HasWaited
<1>6. Did(n, "write", "checker", m)
  <2>1. "receiver" \in Ends /\ Other["receiver"] = "checker"
    BY DEF Ends, Other
  <2> QED  BY <1>0, <1>1, <1>5, <2>1 DEF Met
<1>7. PICK i \in 1 .. 31 :
        /\ Place("write", "checker", i) /\ i <= loop[n]
        /\ i = loop[n] => \E k \in 1 .. Len(Body(n, i)) :
                            m \notin todo[n] \/ (m = Peer(n) /\ k < step[n])
  BY ZenonT(60), <1>0, <1>6, DidPlace
<1>8. i = 27
  BY <1>7 DEF Place
<1>9. loop[n] = 27
  BY <1>1, <1>7, <1>8
<1>10. Len(Body(n, 27)) = 1
  BY LastLines
<1>11. step[n] = 1
  <2>1. Len(Body(n, loop[n])) = 1
    BY <1>9, <1>10
  <2>2. step[n] \in 1 .. 1
    BY <1>2, <2>1
  <2> QED  BY <2>2
<1>12. i = loop[n]
  BY <1>8, <1>9
<1>13. PICK k \in 1 .. Len(Body(n, i)) : m \notin todo[n] \/ k < step[n]
  BY <1>7, <1>12
<1>14. ~ (k < step[n])
  BY <1>11
<1> QED  BY <1>2, <1>13, <1>14

\* Every key that is stored is deleted by its node further on.
LEMMA NothingLeftHolds == BootInv => NothingLeft
<1> SUFFICES ASSUME BootInv, \A n \in Nodes : Done(n), NEW key \in memc PROVE FALSE
  BY DEF NothingLeft
<1>0. Control /\ Traces
  BY InvIs
<1>1. key \in Keys /\ DidTo(key, "push") /\ ~ DidTo(key, "del")
  BY <1>0 DEF Traces
<1>2. PICK what, n, m : key = <<what, n, m>> /\ n \in Nodes
  BY <1>1 DEF Keys
<1>3. Did(n, "push", what, m) /\ ~ Did(n, "del", what, m)
  BY <1>1, <1>2 DEF DidTo
<1>4. Len(Program[n]) = 31
  BY <1>2, ProgramLoops
<1>5. loop[n] = 32
  <2>1. Place31(n, loop[n], todo[n], step[n]) /\ loop[n] \in Nat
    BY <1>0, <1>2 DEF Control
  <2>2. Done(n)
    BY <1>2
  <2>3. loop[n] > 31
    BY <1>4, <2>2 DEF Done
  <2>4. loop[n] \notin 1 .. 31
    BY <2>1, <2>3
  <2> QED  BY <2>1, <2>4 DEF Place31
<1>6. PICK i \in 1 .. 31 : Place("push", what, i) /\ m \in Whom(n, i)
  BY <1>0, <1>2, <1>3, DidPlace
<1>7. \E j \in 1 .. 31 : \E k \in 1 .. Len(Body(n, j)) :
        Body(n, j)[k] = Step("del", what) /\ Whom(n, j) = Whom(n, i)
  BY <1>2, <1>6, PushDel
<1>8. PICK j \in 1 .. 31 : \E k \in 1 .. Len(Body(n, j)) :
        Body(n, j)[k] = Step("del", what) /\ Whom(n, j) = Whom(n, i)
  BY <1>7
<1>9. \A k \in 1 .. Len(Body(n, j)) : Passed(n, j, k, m)
  <2>1. j < loop[n]
    BY <1>5
  <2> QED  BY <2>1 DEF Passed
<1>10. Did(n, "del", what, m)
  BY <1>4, <1>6, <1>8, <1>9 DEF Did
<1> QED  BY <1>3, <1>10

\* A node m that needs a key has a step for that in one of these loops.
LEMMA NeedsPlace ==
  ASSUME Control, NEW m \in Nodes, NEW what, NEW n \in Nodes, NEW p,
         StillNeeds(m, <<what, n, p>>)
  PROVE  \E i \in 1 .. 31 :
           /\ loop[m] <= i
           /\ \/ Place("wait", what, i) /\ n = p /\ n \in Whom(m, i)
              \/ /\ p = m /\ n \in Whom(m, i)
                 /\ \E end \in Ends : Place("connect", end, i) /\ what = Other[end]
<1>1. Len(Program[m]) = 31
  BY ProgramLoops
<1>2. PICK i \in 1 .. 31 : \E l \in Whom(m, i), k \in 1 .. Len(Body(m, i)) :
        /\ Body(m, i)[k].op \in {"wait", "connect"}
        /\ Needs(m, Body(m, i)[k], l) = <<what, n, p>>
        /\ ~ Passed(m, i, k, l)
  BY <1>1 DEF StillNeeds
<1>3. PICK l \in Whom(m, i), k \in 1 .. Len(Body(m, i)) :
        /\ Body(m, i)[k].op \in {"wait", "connect"}
        /\ Needs(m, Body(m, i)[k], l) = <<what, n, p>>
        /\ ~ Passed(m, i, k, l)
  BY <1>2
<1> DEFINE s == Body(m, i)[k]
<1>4. loop[m] <= i
  <2>1. loop[m] \in Nat /\ ~ (i < loop[m])
    BY <1>3 DEF Passed, Control
  <2> QED  BY <2>1
<1>5. Place(s.op, s.what, i)
  BY Listed
<1>6. CASE s.op = "wait"
  <2>1. s.what = what /\ l = n /\ l = p
    BY <1>3, <1>6 DEF Needs
  <2> QED  BY <1>3, <1>4, <1>5, <1>6, <2>1
<1>7. CASE s.op = "connect"
  <2>1. Other[s.what] = what /\ l = n /\ m = p
    BY <1>3, <1>7 DEF Needs
  <2>2. s.what \in Ends
    BY <1>5, <1>7, Others DEF Place
  <2> QED  BY <1>3, <1>4, <1>5, <1>7, <2>1, <2>2
<1> QED  BY <1>3, <1>6, <1>7

\* The only key that may be deleted too early is that of the first barrier.
LEMMA DelInTime ==
  ASSUME BootInv, NEW n \in Nodes, At(n, "del"), This(n).what # "qp-connected",
         NEW m \in Nodes, StillNeeds(m, OwnKey(n))
  PROVE  FALSE
<1> DEFINE w == This(n).what
           p == Peer(n)
<1>0. Control /\ Met /\ Slept
  BY InvIs
<1>1. ~ Done(n) /\ This(n).op = "del"
  BY DEF At
<1>2. /\ Place("del", w, loop[n]) /\ loop[n] \in 1 .. 31
      /\ p \in Whom(n, loop[n]) /\ p \in Nodes /\ OwnKey(n) = <<w, n, p>>
  BY <1>0, <1>1, AtPlace, Here, Own
<1> HIDE DEF w, p
<1>3. PICK i \in 1 .. 31 :
        /\ loop[m] <= i
        /\ \/ Place("wait", w, i) /\ n = p /\ n \in Whom(m, i)
           \/ /\ p = m /\ n \in Whom(m, i)
              /\ \E end \in Ends : Place("connect", end, i) /\ w = Other[end]
  BY <1>0, <1>2, NeedsPlace
<1>4. loop[m] \in Nat
  BY <1>0 DEF Control
<1>5. m \in Peers(n) =>
        /\ loop[n] > 10 => loop[m] >= 9
        /\ loop[n] > 20 => loop[m] >= 19
  <2> SUFFICES ASSUME m \in Peers(n)
               PROVE  /\ loop[n] > 10 => loop[m] >= 9
                      /\ loop[n] > 20 => loop[m] >= 19
    OBVIOUS
  <2>1. /\ loop[n] > 10 => Did(n, "wait", "qp-connected", m)
        /\ loop[n] > 20 => Did(n, "wait", "hbqp-connected", m)
    BY <1>0, HasWaited
  <2>2. /\ Did(n, "wait", "qp-connected", m) => Did(m, "push", "qp-connected", m)
        /\ Did(n, "wait", "hbqp-connected", m) => Did(m, "push", "hbqp-connected", m)
    BY <1>0, WaitedFor
  <2>3. /\ Did(m, "push", "qp-connected", m) => loop[m] >= 9
        /\ Did(m, "push", "hbqp-connected", m) => loop[m] >= 19
    BY <1>0, HowFar
  <2> QED  BY <2>1, <2>2, <2>3
<1>6. CASE w \in LogEnds
  <2>1. loop[n] \in {11, 12}
    BY <1>2, <1>6 DEF Place, LogEnds, HbEnds
  <2>2. p \in Peers(n)
    BY <1>2, <2>1, ConnectorLines
  <2>3. ~ Place("wait", w, i)
    BY <1>6 DEF Place, LogEnds
  <2>4. PICK end \in Ends : p = m /\ Place("connect", end, i) /\ w = Other[end]
    BY <1>3, <2>3
  <2>5. end \in LogEnds
    <3>1. end \in LogEnds \cup HbEnds /\ Other[end] \in LogEnds
      BY <1>6, <2>4, Others
    <3>2. LogEnds \cap HbEnds = {}
      BY DEF LogEnds, HbEnds
    <3> QED  BY <3>1, <3>2, Others
  <2>6. i \in 5 .. 8
    BY <2>4, <2>5 DEF Place, LogEnds, HbEnds
  <2>7. loop[n] > 10
    BY <2>1
  <2> QED  BY <1>3, <1>4, <1>5, <2>2, <2>4, <2>6, <2>7
<1>7. CASE w \in HbEnds
  <2>1. loop[n] = 23
    BY <1>2, <1>7 DEF Place, LogEnds, HbEnds
  <2>2. p \in Peers(n)
    BY <1>2, <2>1, HeartbeatLines
  <2>3. ~ Place("wait", w, i)
    BY <1>7 DEF Place, HbEnds
  <2>4. PICK end \in Ends : p = m /\ Place("connect", end, i)
    BY <1>3, <2>3
  <2>5. i \in 5 .. 18
    BY <2>4 DEF Place
  <2>6. loop[n] > 20
    BY <2>1
  <2> QED  BY <1>3, <1>4, <1>5, <2>2, <2>4, <2>5, <2>6
<1>8. w \in {"hbstat-table", "hbqp-connected"} => Place("wait", w, i) /\ n = p /\ n \in Whom(m, i)
  <2>1. \A end \in Ends : Other[end] \notin {"hbstat-table", "hbqp-connected"}
    BY DEF Ends, Other
  <2> QED  BY <1>3, <2>1
<1>9. CASE w = "hbstat-table"
  <2>1. loop[n] = 24
    BY <1>2, <1>9 DEF Place, LogEnds, HbEnds
  <2>2. i = 17
    BY <1>8, <1>9 DEF Place
  <2>3. m \in Peers(n)
    <3>1. n \in Peers(m)
      BY <1>8, <1>9, <2>2, HeartbeatLines
    <3> QED  BY <3>1 DEF Peers
  <2>4. loop[n] > 20
    BY <2>1
  <2> QED  BY <1>3, <1>4, <1>5, <2>2, <2>3, <2>4
<1>10. CASE w = "hbqp-connected"
  <2>1. loop[n] = 22
    BY <1>2, <1>10 DEF Place, LogEnds, HbEnds
  <2>2. n = p
    BY <1>8, <1>10
  <2>3. /\ Body(n, 21) = <<Step("sleep", "hbqp-connected")>> /\ Whom(n, 21) = {n}
        /\ Len(Program[n]) = 31
    BY HeartbeatLines, ProgramLoops
  <2>4. 21 \in 1 .. 31 /\ 1 \in 1 .. Len(Body(n, 21)) /\ Passed(n, 21, 1, n)
        /\ Body(n, 21)[1] = Step("sleep", "hbqp-connected") /\ n \in Whom(n, 21)
    BY <2>1, <2>3 DEF Passed
  <2>5. Did(n, "sleep", "hbqp-connected", n)
    BY <2>3, <2>4 DEF Did
  <2> QED  BY <1>0, <1>2, <1>10, <2>2, <2>5 DEF Slept
<1> QED  BY <1>1, <1>2, <1>6, <1>7, <1>8, <1>9, <1>10 DEF Place, w

\* What a node deletes from memcached no node has still to fetch
\* (rdsco_memc_clean and the deletes of rsdco_heartbeat_init).
THEOREM KeysFound == Spec => []NoKeyMissed
BY BootCorrect, NoKeyMissedHolds, PTL

\* rsdco_heartbeat_release and rsdco_remote_writer_hotel_init write over queue
\* pairs both of whose ends are connected.
THEOREM WritesAfterConnect == Spec => []WritesLand
BY BootCorrect, WritesLandHolds, PTL

\* rsdco_remote_writer_hotel_init never puts back the cursor of a log that
\* rsdco_spawn_receiver's thread polls already.
THEOREM CursorKept == Spec => []NoReaderReset
BY BootCorrect, NoReaderResetHolds, PTL

\* When every node is through main's start-up, memcached is empty.
THEOREM StoreEmptied == Spec => []NothingLeft
BY BootCorrect, NothingLeftHolds, PTL

\* Nobody comes too late for a key but for that of rsdco_connector_init's barrier,
\* which is deleted without waiting for the others (conn.cc:277).
THEOREM OnlyFirstBarrierRaces ==
  Spec => [][late' # late => \E n \in Nodes : At(n, "del") /\ This(n).what = "qp-connected"]_vars
<1> DEFINE First == late' # late =>
                      \E n \in Nodes : At(n, "del") /\ This(n).what = "qp-connected"
<1>1. BootInv /\ [Next]_vars => [First]_vars
  <2> SUFFICES ASSUME BootInv, Next, late' # late
               PROVE  \E n \in Nodes : At(n, "del") /\ This(n).what = "qp-connected"
    BY DEF vars
  <2>1. PICK n \in Nodes : NodeStep(n)
    BY DEF Next
  <2>2. Del(n)
    BY <2>1 DEF NodeStep, Push, Fetch, Wait, Sleep, Reset, Write, Poll, Spawn
  <2>3. PICK m \in Nodes : StillNeeds(m, OwnKey(n))
    BY <2>2, InvIs DEF Del
  <2>4. At(n, "del")
    BY <2>2 DEF Del
  <2> QED  BY <2>3, <2>4, DelInTime
<1> HIDE DEF First
<1>2. Spec => [][First]_vars
  BY <1>1, BootCorrect, PTL DEF Spec
<1> QED  BY <1>2 DEF First
=============================================================================
