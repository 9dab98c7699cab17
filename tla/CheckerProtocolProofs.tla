----------------------- MODULE CheckerProtocolProofs -----------------------
(***************************************************************************)
(* The checker protocol keeps the promise of Ordering, for any number of   *)
(* nodes, application threads, keys and calls, whoever asks for which keys.*)
(***************************************************************************)
EXTENDS CheckerProtocolInv, FiniteSetTheorems, TLAPS

----------------------------------------------------------------------------
(* Constants.                                                              *)

LEMMA KeyOfThread ==
  ASSUME NEW p \in Apps, NEW h \in Keys[p]
  PROVE  h \in Hash /\ h # NoHash /\ rsdco_rule_balanced(h) \in Nodes
<1>1. h \in Hash /\ h \in Nat /\ h # NoHash
  BY CheckerAssumption DEF Hash
<1>2. h % N_NODES \in 0 .. N_NODES - 1
  BY <1>1, CheckerAssumption
<1> QED  BY <1>1, <1>2 DEF rsdco_rule_balanced, Nodes

LEMMA Threads ==
  /\ \A p \in Apps : p \in Procs /\ p \notin Receivers /\ p[1] \in Nodes
  /\ \A p \in Receivers : /\ p \in Procs /\ p \notin Apps
                          /\ p[1] \in Nodes /\ p[2] \in Nodes /\ p[1] # p[2]
  /\ \A p, q \in Receivers : p[1] = q[1] /\ p[2] = q[2] => p = q
<1>1. \A p \in Apps : p[1] \in Nodes /\ p[2] \notin Nodes
  BY CheckerAssumption DEF Apps, Nodes
<1>2. \A p \in Receivers : p[1] \in Nodes /\ p[2] \in Nodes /\ p[1] # p[2]
  BY DEF Receivers
<1>3. \A p, q \in Receivers : p[1] = q[1] /\ p[2] = q[2] => p = q
  BY DEF Receivers
<1> QED  BY <1>1, <1>2, <1>3 DEF Procs

\* A request says who makes it, for a key of that thread, and who owns the key.
LEMMA RequestKey ==
  ASSUME NEW r \in Request
  PROVE  /\ r.by \in Apps /\ r.by[1] \in Nodes /\ r.nth \in Nat
         /\ r.hashed \in Keys[r.by] /\ r.hashed \in Hash /\ r.hashed # NoHash
         /\ r.owner = rsdco_rule_balanced(r.hashed) /\ r.owner \in Nodes
         /\ r # NoRequest
<1>0. PICK p \in Apps :
        r \in {[by |-> p, nth |-> k, hashed |-> h, owner |-> rsdco_rule_balanced(h)] :
                 k \in 1 .. MaxCalls, h \in Keys[p]}
  BY DEF Request
<1>1. PICK k \in 1 .. MaxCalls, h \in Keys[p] :
        r = [by |-> p, nth |-> k, hashed |-> h, owner |-> rsdco_rule_balanced(h)]
  BY <1>0
<1>2. h \in Hash /\ h # NoHash /\ rsdco_rule_balanced(h) \in Nodes
  BY KeyOfThread
<1>3. k \in Nat
  BY CheckerAssumption
<1> QED  BY <1>1, <1>2, <1>3, Threads DEF NoRequest

LEMMA NewRequest ==
  ASSUME NEW p \in Apps, NEW h \in Keys[p], NEW k \in 1 .. MaxCalls
  PROVE  [by |-> p, nth |-> k, hashed |-> h, owner |-> rsdco_rule_balanced(h)] \in Request
<1>1. [by |-> p, nth |-> k, hashed |-> h, owner |-> rsdco_rule_balanced(h)]
        \in {[by |-> p, nth |-> l, hashed |-> g, owner |-> rsdco_rule_balanced(g)] :
               l \in 1 .. MaxCalls, g \in Keys[p]}
  OBVIOUS
<1> QED  BY <1>1 DEF Request

\* Requests for the key of a sole one are sole, and made by the same thread.
LEMMA SameKey ==
  ASSUME NEW r \in Sole, NEW s \in Request, s.hashed = r.hashed
  PROVE  r \in Request /\ s \in Sole /\ s.by = r.by /\ s.owner = r.owner
<1>1. r \in Request /\ \A p \in Apps : r.hashed \in Keys[p] => p = r.by
  BY DEF Sole
<1>2. s.by = r.by /\ s.owner = r.owner
  BY <1>1, RequestKey
<1> QED  BY <1>1, <1>2 DEF Sole

----------------------------------------------------------------------------
LEMMA InitAsk == Init => AskInv
<1> SUFFICES ASSUME Init  PROVE AskInv
  OBVIOUS
<1>1. TypeOK
  <2>1. /\ << >> \in Seq(Entry) /\ << >> \in Seq(Request) /\ << >> \in Seq(Execution)
        /\ Zero \in Counters
        /\ \A n \in Nodes : \A m \in Nodes \ {n} : Zero[n][m] = 0
    BY DEF Zero, Counters
  <2>2. /\ rlog \in [Nodes -> Seq(Entry)]
        /\ clog \in [Nodes -> Seq(Request)]
        /\ executed \in [Nodes -> Seq(Execution)]
        /\ inserted \in [Hash -> Seq(Request)] /\ ready \subseteq Request
    BY <2>1 DEF Init
  <2>3. /\ rsent \in Counters /\ csent \in Counters
        /\ rpos \in Counters /\ cpos \in Counters
    BY <2>1 DEF Init
  <2>4. \A n \in Nodes : \A m \in Nodes \ {n} :
          /\ rpos[n][m] <= rsent[n][m] /\ rsent[n][m] <= Len(rlog[n])
          /\ cpos[n][m] <= csent[n][m] /\ csent[n][m] <= Len(clog[n])
    BY <2>1 DEF Init
  <2>5. /\ rpli_mtx \in [Nodes -> BOOLEAN] /\ chkr_mtx \in [Nodes -> BOOLEAN]
        /\ asked \subseteq Request /\ returned \subseteq asked
    BY DEF Init
  <2>6. slot \in [Nodes -> [hashed : Hash \cup {NoHash}, is_blocked : BOOLEAN]]
    BY DEF Init
  <2>7. /\ pc \in [Procs -> {"idle", "rpli", "rpli_write", "apply", "chkr",
                             "chkr_write", "wait"}]
        /\ req \in [Procs -> Request \cup {NoRequest}]
    BY DEF Init
  <2> QED  BY <2>2, <2>3, <2>4, <2>5, <2>6, <2>7 DEF TypeOK
<1>2. MutexInv
  BY Threads DEF Init, MutexInv, RpliMutex, ChkrMutex, Zero, Procs
<1>3. CallInv /\ NumberInv
  BY FS_EmptySet, Threads DEF Init, CallInv, NumberInv
<1>4. QuestionInv /\ ReceiverInv /\ OrderInv
  BY Threads DEF Init, QuestionInv, ReceiverInv, OrderInv
<1>5. TableInv
  BY DEF Init, TableInv
<1>6. AnswerInv /\ ReturnedIsHeld
  BY Threads DEF Init, AnswerInv, ReturnedIsHeld
<1> QED  BY <1>1, <1>2, <1>3, <1>4, <1>5, <1>6 DEF AskInv

----------------------------------------------------------------------------
(* What is asked, returned and about to be ordered.                        *)

LEMMA Counted ==
  ASSUME AskInv, NEW n \in Nodes, NEW m \in Nodes \ {n}
  PROVE  /\ rlog[n] \in Seq(Entry) /\ Len(rlog[n]) \in Nat
         /\ clog[n] \in Seq(Request) /\ Len(clog[n]) \in Nat
         /\ rpos[n][m] \in Nat /\ rsent[n][m] \in Nat
         /\ cpos[n][m] \in Nat /\ csent[n][m] \in Nat
         /\ rpos[n][m] <= rsent[n][m] /\ rsent[n][m] <= Len(rlog[n])
         /\ cpos[n][m] <= csent[n][m] /\ csent[n][m] <= Len(clog[n])
<1>1. rlog[n] \in Seq(Entry) /\ clog[n] \in Seq(Request)
  BY DEF AskInv, TypeOK
<1>2. rsent \in Counters /\ csent \in Counters /\ rpos \in Counters /\ cpos \in Counters
  BY DEF AskInv, TypeOK
<1>3. /\ rpos[n][m] <= rsent[n][m] /\ rsent[n][m] <= Len(rlog[n])
      /\ cpos[n][m] <= csent[n][m] /\ csent[n][m] <= Len(clog[n])
  BY DEF AskInv, TypeOK
<1>4. /\ rpos[n][m] \in Nat /\ rsent[n][m] \in Nat
      /\ cpos[n][m] \in Nat /\ csent[n][m] \in Nat
  BY <1>2 DEF Counters
<1>5. Len(rlog[n]) \in Nat /\ Len(clog[n]) \in Nat
  BY <1>1
<1> QED  BY <1>1, <1>3, <1>4, <1>5

\* A sole request whose call has returned was ordered.
LEMMA ReturnedInOrder ==
  ASSUME AskInv, NEW r \in returned, r \in Sole
  PROVE  InOrder(r.owner, r)
<1>1. r \in Request /\ r.by[1] \in Nodes /\ r.owner \in Nodes
  BY RequestKey DEF AskInv, TypeOK
<1>3. PICK m \in Nodes \ {r.owner} : r.by[1] \in {r.owner, m}
  <2>1. CASE r.by[1] = r.owner
    BY <2>1, <1>1, CheckerAssumption DEF Nodes
  <2>2. CASE r.by[1] # r.owner
    BY <2>2, <1>1
  <2> QED  BY <2>1, <2>2
<1>4. PICK i \in 1 .. rsent[r.owner][m] : rlog[r.owner][i].req = r
  BY <1>3 DEF AskInv, ReturnedIsHeld
<1>5. /\ rsent[r.owner][m] <= Len(rlog[r.owner]) /\ rsent[r.owner][m] \in Nat
      /\ rlog[r.owner] \in Seq(Entry)
  BY <1>1, <1>3, Counted
<1>6. i \in DOMAIN rlog[r.owner]
  BY <1>4, <1>5
<1> QED  BY <1>4, <1>6 DEF InOrder

\* Where the request of a thread that is about to order it comes from.
LEMMA AboutToOrder ==
  ASSUME AskInv, NEW p \in Procs, pc[p] = "rpli"
  PROVE  /\ req[p] \in asked /\ req[p] \in Request /\ req[p].owner = p[1]
         /\ req[p] \in Sole => req[p] \notin returned /\ ~InOrder(p[1], req[p])
         /\ p \in Apps => req[p].by = p /\ req[p] \notin returned
         /\ p \in Receivers => /\ InQuestions(p[2], req[p])
                               /\ cpos[p[2]][p[1]] \in DOMAIN clog[p[2]]
                               /\ clog[p[2]][cpos[p[2]][p[1]]] = req[p]
                               /\ req[p].by[1] = p[2]
<1>1. req[p] \in Sole => ~InOrder(p[1], req[p])
  BY DEF AskInv, OrderInv
<1>2. CASE p \in Apps
  BY <1>1, <1>2, Threads DEF AskInv, CallInv, TypeOK
<1>3. CASE p \in Receivers
  <2>1. /\ cpos[p[2]][p[1]] \in DOMAIN clog[p[2]]
        /\ clog[p[2]][cpos[p[2]][p[1]]] = req[p]
        /\ req[p].owner = p[1]
    BY <1>3 DEF AskInv, ReceiverInv
  <2>2. req[p] \in asked /\ req[p].by[1] = p[2]
    BY <1>3, <2>1, Threads DEF AskInv, QuestionInv
  <2>3. req[p] \in Sole => req[p] \notin returned
    BY <1>1, <2>1, ReturnedInOrder
  <2>4. req[p] \in Request
    BY <2>2 DEF AskInv, TypeOK
  <2> QED  BY <1>1, <1>3, <2>1, <2>2, <2>3, <2>4, Threads DEF InQuestions
<1> QED  BY <1>2, <1>3 DEF Procs

\* No other thread is about to order a request for the key of a sole one.
LEMMA OrderedByOne ==
  ASSUME AskInv, NEW p \in Procs, NEW q \in Procs, NEW r \in Sole,
         IF p \in Apps THEN r.by = p ELSE r.by[1] = p[2], r.owner = p[1],
         pc[q] = "rpli", req[q].hashed = r.hashed
  PROVE  p = q
<1>1. /\ req[q] \in Request /\ req[q].owner = q[1]
      /\ q \in Apps => req[q].by = q
      /\ q \in Receivers => req[q].by[1] = q[2]
  BY AboutToOrder
<1>2. req[q].by = r.by /\ q[1] = p[1]
  BY <1>1, SameKey
<1>3. CASE p \in Apps /\ q \in Apps
  BY <1>1, <1>2, <1>3
<1>4. CASE p \in Receivers /\ q \in Receivers
  BY <1>1, <1>2, <1>4, Threads
<1>5. CASE p \in Apps /\ q \in Receivers
  <2>1. p[1] = q[2]
    BY <1>1, <1>2, <1>5
  <2> QED  BY <1>2, <1>5, <2>1, Threads
<1>6. CASE p \in Receivers /\ q \in Apps
  <2>1. q[1] = p[2]
    BY <1>1, <1>2, <1>6, Threads
  <2> QED  BY <1>2, <1>6, <2>1, Threads
<1> QED  BY <1>3, <1>4, <1>5, <1>6 DEF Procs

\* The thread whose sole question a receiver is about to order waits for the answer.
LEMMA AskerWaits ==
  ASSUME AskInv, NEW p \in Receivers, pc[p] = "rpli", req[p] \in Sole,
         NEW a, a = req[p].by
  PROVE  /\ a \in Apps /\ a[1] = p[2] /\ req[a] = req[p]
         /\ pc[a] \in {"chkr_write", "wait"} /\ slot[a[1]].is_blocked
<1>1. /\ req[p] \in asked \ returned /\ req[p].owner = p[1] /\ ~InOrder(p[1], req[p])
      /\ InQuestions(p[2], req[p]) /\ a[1] = p[2] /\ a \in Apps
      /\ p[1] \in Nodes /\ p[2] \in Nodes /\ p[1] # p[2]
  BY AboutToOrder, RequestKey, Threads
<1>3. pc[a] # "idle" /\ req[a] = req[p]
  BY <1>1 DEF AskInv, CallInv
<1>4. pc[a] \in {"chkr", "chkr_write", "wait"}
  BY <1>1, <1>3 DEF AskInv, CallInv
<1>5. pc[a] # "chkr"
  BY <1>1, <1>3 DEF AskInv, QuestionInv
<1>6. slot[a[1]].is_blocked
  <2>1. SUFFICES ASSUME ~slot[a[1]].is_blocked PROVE FALSE
    OBVIOUS
  <2>2. PICK i \in 1 .. rsent[p[1]][p[2]] : rlog[p[1]][i].req = req[p]
    BY <1>1, <1>3, <1>4, <1>5, <2>1 DEF AskInv, AnswerInv
  <2>3. /\ rsent[p[1]][p[2]] <= Len(rlog[p[1]]) /\ rsent[p[1]][p[2]] \in Nat
        /\ rlog[p[1]] \in Seq(Entry)
    BY <1>1, Counted
  <2>4. i \in DOMAIN rlog[p[1]]
    BY <2>2, <2>3
  <2> QED  BY <1>1, <2>2, <2>4 DEF InOrder
<1> QED  BY <1>1, <1>3, <1>4, <1>5, <1>6

----------------------------------------------------------------------------
(* The hash table.                                                         *)

\* A step that inserts nothing leaves the newest requests and the ready flags.
LEMMA TableKeeps ==
  ASSUME AskInv, inserted' = inserted, ready' = ready, asked \subseteq asked',
         \A q \in Procs : pc'[q] = "rpli" => pc[q] = "rpli" /\ req'[q] = req[q]
  PROVE  TableInv'
<1>1. \A h \in Hash : \A i \in DOMAIN inserted'[h] :
        inserted'[h][i] \in asked' /\ inserted'[h][i].hashed = h
  BY DEF AskInv, TableInv
<1>2. ASSUME NEW q \in Procs, pc'[q] = "rpli"
      PROVE  /\ Len(inserted'[req'[q].hashed]) > 0
             /\ req'[q] \in Sole => req'[q] \in ready' /\ Newest(req[q])' = req'[q]
  BY <1>2 DEF AskInv, TableInv, Newest
<1> QED  BY <1>1, <1>2 DEF TableInv

\* A thread inserts its request, and no other thread is about to order one for
\* the key if the request is sole.
LEMMA TableGrows ==
  ASSUME AskInv, NEW p \in Procs, NEW r \in Request, Insert(r),
         r \in asked', asked \subseteq asked', pc'[p] = "rpli", req'[p] = r,
         r.owner = p[1], IF p \in Apps THEN r.by = p ELSE r.by[1] = p[2],
         \A q \in Procs : q # p => pc'[q] = pc[q] /\ req'[q] = req[q]
  PROVE  /\ TableInv'
         /\ inserted' \in [Hash -> Seq(Request)] /\ ready' \subseteq Request
<1> DEFINE h == r.hashed
           line == inserted[h]
<1>1. /\ inserted' = [inserted EXCEPT ![h] = Append(@, r)] /\ ready' = ready \cup {r}
      /\ inserted \in [Hash -> Seq(Request)] /\ ready \subseteq Request
      /\ h \in Hash /\ line \in Seq(Request)
  BY RequestKey DEF Insert, AskInv, TypeOK
<1> HIDE DEF h
<1>2. /\ inserted'[h] = Append(line, r)
      /\ \A g \in Hash : g # h => inserted'[g] = inserted[g]
  BY <1>1
<1>3. /\ inserted'[h] \in Seq(Request) /\ Len(inserted'[h]) > 0
      /\ inserted'[h][Len(inserted'[h])] = r
      /\ \A i \in DOMAIN inserted'[h] : inserted'[h][i] = r \/ (i \in DOMAIN line /\ inserted'[h][i] = line[i])
  BY <1>1, <1>2
<1>4. inserted' \in [Hash -> Seq(Request)] /\ ready' \subseteq Request
  BY <1>1, <1>2, <1>3
<1>5. ASSUME NEW g \in Hash, NEW i \in DOMAIN inserted'[g]
      PROVE  inserted'[g][i] \in asked' /\ inserted'[g][i].hashed = g
  <2>1. CASE g = h
    BY <2>1, <1>3 DEF AskInv, TableInv, h
  <2>2. CASE g # h
    BY <2>2, <1>2 DEF AskInv, TableInv
  <2> QED  BY <2>1, <2>2
<1>6. ASSUME NEW q \in Procs, pc'[q] = "rpli"
      PROVE  /\ Len(inserted'[req'[q].hashed]) > 0
             /\ req'[q] \in Sole => req'[q] \in ready' /\ Newest(req[q])' = req'[q]
  <2>1. CASE q = p
    BY <2>1, <1>1, <1>3 DEF Newest, h
  <2>2. CASE q # p
    <3>1. pc[q] = "rpli" /\ req'[q] = req[q] /\ req[q] \in Request
      BY <2>2, <1>6, AboutToOrder
    <3>2. /\ Len(inserted[req[q].hashed]) > 0
          /\ req[q] \in Sole => req[q] \in ready /\ Newest(req[q]) = req[q]
      BY <3>1 DEF AskInv, TableInv
    <3>3. CASE req[q].hashed = h
      <4>1. req[q] \notin Sole
        <5>1. SUFFICES ASSUME req[q] \in Sole  PROVE FALSE
          OBVIOUS
        <5>2. r \in Sole
          BY <5>1, <3>3, SameKey DEF h
        <5> QED  BY <5>2, <2>2, <3>1, <3>3, OrderedByOne DEF h
      <4> QED  BY <4>1, <3>1, <3>3, <1>3
    <3>4. CASE req[q].hashed # h
      <4>1. req[q].hashed \in Hash
        BY <3>1, RequestKey
      <4>2. inserted'[req[q].hashed] = inserted[req[q].hashed]
        BY <4>1, <3>4, <1>2
      <4> QED  BY <4>2, <3>1, <3>2, <1>1 DEF Newest
    <3> QED  BY <3>3, <3>4
  <2> QED  BY <2>1, <2>2
<1> QED  BY <1>4, <1>5, <1>6 DEF TableInv

----------------------------------------------------------------------------
\* An application thread makes a call.
LEMMA CallAsk ==
  ASSUME AskInv, NEW p \in Apps, Call(p)
  PROVE  AskInv' /\ \E r \in Request : r \notin asked /\ asked' = asked \cup {r}
<1>1. PICK h \in Keys[p] :
        LET r == [by |-> p, nth |-> Cardinality({q \in asked : q.by = p /\ q.hashed = h}) + 1,
                  hashed |-> h, owner |-> rsdco_rule_balanced(h)]
        IN /\ req' = [req EXCEPT ![p] = r]
           /\ asked' = asked \cup {r}
           /\ IF r.owner = p[1] THEN Insert(r) /\ Goto(p, "rpli")
                                ELSE UNCHANGED tableVars /\ Goto(p, "chkr")
  BY DEF Call
<1> DEFINE Same == {q \in asked : q.by = p /\ q.hashed = h}
           r == [by |-> p, nth |-> Cardinality(Same) + 1, hashed |-> h,
                 owner |-> rsdco_rule_balanced(h)]
<1>2. /\ pc[p] = "idle" /\ Cardinality(asked) < MaxCalls
      /\ UNCHANGED <<rlog, clog, rsent, csent, rpos, cpos, rpli_mtx, chkr_mtx, slot,
                     executed, returned>>
      /\ req' = [req EXCEPT ![p] = r] /\ asked' = asked \cup {r}
      /\ pc' = [pc EXCEPT ![p] = IF r.owner = p[1] THEN "rpli" ELSE "chkr"]
      /\ IF r.owner = p[1] THEN Insert(r) ELSE inserted' = inserted /\ ready' = ready
  BY <1>1 DEF Call, Goto, logVars, mtxVars, tableVars
<1>3. /\ IsFiniteSet(Same) /\ Cardinality(Same) \in Nat
      /\ Cardinality(Same) <= Cardinality(asked)
  BY FS_Subset, FS_CardinalityType DEF AskInv, NumberInv
<1>4. r \in Request
  <2>1. Cardinality(asked) \in Nat /\ Cardinality(Same) + 1 \in 1 .. MaxCalls
    BY <1>2, <1>3, FS_CardinalityType, CheckerAssumption DEF AskInv, NumberInv
  <2> HIDE DEF Same
  <2> QED  BY <2>1, NewRequest
<1>5. r \notin asked
  <2>1. \A q \in asked : q.by = p /\ q.hashed = h => q.nth <= Cardinality(Same)
    BY DEF AskInv, NumberInv
  <2> QED  BY <2>1, <1>3
<1>6. r.by = p /\ r.hashed = h /\ p \in Procs /\ p \notin Receivers /\ p[1] \in Nodes
  BY Threads
<1>61. r.nth = Cardinality(Same) + 1
  OBVIOUS
<1> HIDE DEF r, Same
<1>7. /\ \A q \in Procs : q # p => pc'[q] = pc[q] /\ req'[q] = req[q]
      /\ pc'[p] \in {"rpli", "chkr"} /\ req'[p] = r
      /\ pc'[p] = "rpli" <=> r.owner = p[1]
      /\ asked \subseteq asked' /\ r \in asked'
  BY <1>2, <1>6 DEF AskInv, TypeOK
<1>8. /\ TableInv'
      /\ inserted' \in [Hash -> Seq(Request)] /\ ready' \subseteq Request
  <2>1. CASE r.owner = p[1]
    BY <2>1, <1>2, <1>4, <1>6, <1>7, TableGrows
  <2>2. CASE r.owner # p[1]
    <3>1. \A q \in Procs : pc'[q] = "rpli" => pc[q] = "rpli" /\ req'[q] = req[q]
      BY <2>2, <1>7
    <3>2. inserted' = inserted /\ ready' = ready
      BY <2>2, <1>2
    <3> QED  BY <3>1, <3>2, <1>7, TableKeeps DEF AskInv, TypeOK
  <2> QED  BY <2>1, <2>2
<1>9. TypeOK'
  <2>1. /\ pc' \in [Procs -> {"idle", "rpli", "rpli_write", "apply", "chkr",
                              "chkr_write", "wait"}]
        /\ req' \in [Procs -> Request \cup {NoRequest}]
    BY <1>2, <1>4, <1>6 DEF AskInv, TypeOK
  <2>2. asked' \subseteq Request /\ returned' \subseteq asked'
    BY <1>2, <1>4 DEF AskInv, TypeOK
  <2> QED
    BY <1>2, <1>8, <2>1, <2>2 DEF AskInv, TypeOK
<1>10. MutexInv'
  <2>1. \A n \in Nodes : RpliMutex(n)'
    BY <1>2, <1>7 DEF AskInv, MutexInv, RpliMutex, Behind
  <2>2. \A n \in Nodes : ChkrMutex(n)'
    BY <1>2, <1>7 DEF AskInv, MutexInv, ChkrMutex, Behind, InQuestions
  <2> QED  BY <2>1, <2>2 DEF MutexInv
<1>11. CallInv'
  <2>1. ASSUME NEW q \in Apps, pc'[q] # "idle"
        PROVE  /\ req'[q] \in asked' \ returned'
               /\ req'[q].by = q
               /\ pc'[q] \in IF req'[q].owner = q[1] THEN {"rpli", "rpli_write"}
                             ELSE {"chkr", "chkr_write", "wait"}
    <3>1. CASE q = p
      BY <3>1, <1>2, <1>5, <1>6, <1>7 DEF AskInv, TypeOK
    <3>2. CASE q # p
      BY <3>2, <2>1, <1>2, <1>7, Threads DEF AskInv, CallInv
    <3> QED  BY <3>1, <3>2
  <2>2. ASSUME NEW s \in asked' \ returned'  PROVE pc'[s.by] # "idle" /\ req'[s.by] = s
    <3>1. CASE s = r
      BY <3>1, <1>6, <1>7
    <3>2. CASE s # r
      <4>1. /\ pc[s.by] # "idle" /\ req[s.by] = s /\ s.by \in Apps
        BY <3>2, <2>2, <1>2, RequestKey DEF AskInv, CallInv, TypeOK
      <4>2. s.by # p
        BY <4>1, <1>2
      <4> QED  BY <4>1, <4>2, <1>7, Threads
    <3> QED  BY <3>1, <3>2
  <2> QED  BY <2>1, <2>2 DEF CallInv
<1>12. NumberInv'
  <2>1. IsFiniteSet(asked')
    BY <1>2, FS_AddElement DEF AskInv, NumberInv
  <2>2. ASSUME NEW s \in asked'
        PROVE  s.nth <= Cardinality({q \in asked' : q.by = s.by /\ q.hashed = s.hashed})
    <3> DEFINE Old == {q \in asked : q.by = s.by /\ q.hashed = s.hashed}
               New == {q \in asked' : q.by = s.by /\ q.hashed = s.hashed}
    <3>1. /\ IsFiniteSet(New) /\ Cardinality(New) \in Nat
          /\ IsFiniteSet(Old) /\ Cardinality(Old) \in Nat
      BY <2>1, FS_Subset, FS_CardinalityType DEF AskInv, NumberInv
    <3>2. CASE s = r
      <4>1. New = Same \cup {r} /\ r \notin Same
        BY <3>2, <1>2, <1>5, <1>6 DEF Same
      <4>2. Cardinality(New) = Cardinality(Same) + 1
        BY <4>1, <1>3, FS_AddElement
      <4> QED  BY <3>2, <4>2, <1>3, <1>61
    <3>3. CASE s # r
      <4>1. Old \subseteq New
        BY <1>2
      <4>2. Cardinality(Old) <= Cardinality(New)
        BY <3>1, <4>1, FS_Subset
      <4>3. s.nth <= Cardinality(Old) /\ s.nth \in Nat
        BY <2>2, <3>3, <1>2, RequestKey DEF AskInv, TypeOK, NumberInv
      <4> QED  BY <4>2, <4>3, <3>1
    <3> QED  BY <3>2, <3>3
  <2> QED  BY <2>1, <2>2 DEF NumberInv
<1>13. QuestionInv'
  <2>1. \A n \in Nodes : \A i \in DOMAIN clog[n] : clog[n][i] \in asked
    BY DEF AskInv, QuestionInv
  <2> QED
    BY <2>1, <1>2, <1>5, <1>7, Threads DEF AskInv, QuestionInv, InQuestions
<1>14. ReceiverInv'
  BY <1>2, <1>6, <1>7, Threads DEF AskInv, ReceiverInv
<1>15. OrderInv'
  <2>1. \A o \in Nodes : \A i \in DOMAIN rlog[o] : rlog[o][i].req \in asked
    BY DEF AskInv, OrderInv
  <2>2. ASSUME NEW o \in Nodes, NEW i \in DOMAIN rlog'[o]
        PROVE  /\ rlog'[o][i].req \in asked' /\ rlog'[o][i].req.owner = o
               /\ rlog'[o][i].req \in Sole /\ rlog'[o][i].req.by[1] # o =>
                    \E k \in 1 .. cpos'[rlog'[o][i].req.by[1]][o] :
                      clog'[rlog'[o][i].req.by[1]][k] = rlog'[o][i].req
    BY <1>2, <1>7 DEF AskInv, OrderInv
  <2>3. \A o \in Nodes : \A i, j \in DOMAIN rlog'[o] :
          rlog'[o][i].req = rlog'[o][j].req /\ rlog'[o][i].req \in Sole => i = j
    BY <1>2 DEF AskInv, OrderInv
  <2>4. ASSUME NEW q \in Procs, pc'[q] = "rpli", req'[q] \in Sole
        PROVE  ~InOrder(q[1], req[q])'
    <3>1. CASE q = p
      BY <3>1, <2>1, <1>2, <1>5, <1>6, <1>7 DEF InOrder
    <3>2. CASE q # p
      BY <3>2, <2>4, <1>2, <1>7 DEF AskInv, OrderInv, InOrder
    <3> QED  BY <3>1, <3>2
  <2> QED  BY <2>2, <2>3, <2>4 DEF OrderInv
<1>16. AnswerInv'
  <2>1. \A q \in Apps :
          pc'[q] \in {"chkr_write", "wait"} /\ ~slot'[q[1]].is_blocked /\ req'[q] \in Sole =>
          \E i \in 1 .. rsent'[req'[q].owner][q[1]] : rlog'[req'[q].owner][i].req = req'[q]
    BY <1>2, <1>7, Threads DEF AskInv, AnswerInv
  <2>2. ASSUME NEW m \in Nodes, NEW i \in DOMAIN rlog[m], NEW s, s = rlog[m][i].req,
               s \in Sole, s.by[1] # m, i > rpos[m][s.by[1]]
        PROVE  pc'[s.by] \in {"chkr_write", "wait"} /\ req'[s.by] = s
               /\ slot'[s.by[1]].is_blocked
    <3>1. pc[s.by] \in {"chkr_write", "wait"} /\ req[s.by] = s /\ slot[s.by[1]].is_blocked
      BY <2>2 DEF AskInv, AnswerInv
    <3>2. s.by \in Apps /\ s.by # p
      BY <2>2, <3>1, <1>2, RequestKey DEF Sole
    <3> QED  BY <3>1, <3>2, <1>2, <1>7, Threads
  <2> QED  BY <2>1, <2>2, <1>2 DEF AnswerInv
<1>17. ReturnedIsHeld'
  BY <1>2 DEF AskInv, ReturnedIsHeld
<1> QED
  BY <1>2, <1>4, <1>5, <1>8, <1>9, <1>10, <1>11, <1>12, <1>13, <1>14, <1>15, <1>16, <1>17
     DEF AskInv

----------------------------------------------------------------------------
\* What a step does that puts an entry into the order of owner o.
Orders(o, entry) ==
  /\ entry.req \in asked /\ entry.req.owner = o
  /\ entry.req \in Sole => entry.req \notin returned /\ ~InOrder(o, entry.req)
  /\ rlog' = [rlog EXCEPT ![o] = Append(@, entry)]
  /\ asked' = asked /\ returned' = returned

\* The newest request of the key a thread is about to order.  It is the thread's
\* own if one of the two is sole.
LEMMA NewestOfKey ==
  ASSUME AskInv, NEW p \in Procs, pc[p] = "rpli", NEW e, e = Newest(req[p])
  PROVE  /\ e \in asked /\ e \in Request /\ e.hashed = req[p].hashed /\ e.owner = p[1]
         /\ e \in Sole => e = req[p]
         /\ req[p] \in Sole => e = req[p]
         /\ \A w \in Walked(req[p]) : w.hashed = req[p].hashed
<1> DEFINE r == req[p]
           line == inserted[r.hashed]
<1>1. r \in Request /\ r.owner = p[1] /\ r.hashed \in Hash
  BY AboutToOrder, RequestKey
<1>2. line \in Seq(Request) /\ Len(line) > 0 /\ e = line[Len(line)]
  BY <1>1 DEF AskInv, TypeOK, TableInv, Newest
<1>3. \A i \in DOMAIN line : line[i] \in asked /\ line[i].hashed = r.hashed
  BY <1>1 DEF AskInv, TableInv
<1>4. e \in asked /\ e.hashed = r.hashed
  BY <1>2, <1>3
<1>5. e \in Request
  BY <1>4 DEF AskInv, TypeOK
<1>6. e.owner = p[1]
  BY <1>1, <1>4, <1>5, RequestKey
<1>7. r \in Sole => e = r
  BY DEF AskInv, TableInv
<1>8. e \in Sole => r \in Sole
  BY <1>1, <1>4, SameKey
<1>9. \A w \in Walked(r) : w.hashed = r.hashed
  BY <1>3 DEF Walked
<1> QED  BY <1>4, <1>5, <1>6, <1>7, <1>8, <1>9

\* A thread takes the replication mutex and orders the newest request of its key.
LEMMA RpliLockAsk ==
  ASSUME AskInv, NEW p \in Procs, RpliLock(p)
  PROVE  AskInv' /\ \E entry \in Entry : Orders(p[1], entry)
<1> DEFINE o == p[1]
           r == req[p]
           e == Newest(req[p])
           f == [req |-> e, msg |-> IF p \in Apps THEN "PURE" ELSE "ACK"]
<1>1. /\ pc[p] = "rpli" /\ ~rpli_mtx[o]
      /\ rpli_mtx' = [rpli_mtx EXCEPT ![o] = TRUE]
      /\ rlog' = [rlog EXCEPT ![o] = Append(@, f)]
      /\ pc' = [pc EXCEPT ![p] = "rpli_write"]
      /\ ready' = ready \ Walked(r)
      /\ UNCHANGED <<clog, rsent, csent, rpos, cpos, inserted, chkr_mtx, slot, req,
                     executed, asked, returned>>
  BY DEF RpliLock, Goto, Reply, callVars
<1>2. /\ r \in asked /\ r \in Request /\ r.owner = o /\ o \in Nodes
      /\ e \in asked /\ e \in Request /\ e.owner = o
      /\ e \in Sole => e = r /\ r \notin returned /\ ~InOrder(o, r)
      /\ r \in Sole => e = r
      /\ \A w \in Walked(r) : w.hashed = r.hashed
  <2>1. o \in Nodes
    BY Threads DEF Procs
  <2> QED  BY <1>1, <2>1, AboutToOrder, NewestOfKey
<1>3. f \in Entry /\ f.req = e
  BY <1>2 DEF Entry
<1> HIDE DEF f, e
<1>4. /\ rlog[o] \in Seq(Entry) /\ rlog'[o] = Append(rlog[o], f)
      /\ rlog'[o] \in Seq(Entry)
      /\ Len(rlog'[o]) = Len(rlog[o]) + 1 /\ Len(rlog[o]) \in Nat
      /\ DOMAIN rlog'[o] = DOMAIN rlog[o] \cup {Len(rlog[o]) + 1}
      /\ rlog'[o][Len(rlog[o]) + 1] = f
      /\ \A i \in DOMAIN rlog[o] : rlog'[o][i] = rlog[o][i]
      /\ \A n \in Nodes : n # o => rlog'[n] = rlog[n]
  BY <1>1, <1>2, <1>3 DEF AskInv, TypeOK
<1>5. /\ \A q \in Procs : q # p => pc'[q] = pc[q]
      /\ pc'[p] = "rpli_write"
  BY <1>1 DEF AskInv, TypeOK
\* Nobody else is about to order a request for the key, if this one is sole.
<1>51. ASSUME NEW q \in Procs, pc'[q] = "rpli", req[q] \in Sole
       PROVE  q # p /\ pc[q] = "rpli" /\ req[q].hashed # r.hashed
  <2>1. q # p /\ pc[q] = "rpli"
    BY <1>5, <1>51
  <2>2. /\ req[q].owner = q[1]
        /\ IF q \in Apps THEN req[q].by = q ELSE req[q].by[1] = q[2]
    BY <2>1, AboutToOrder DEF Procs
  <2>3. req[q].hashed # r.hashed
    BY <1>1, <1>51, <2>1, <2>2, OrderedByOne
  <2> QED  BY <2>1, <2>3
<1>6. TypeOK'
  <2>1. rlog' \in [Nodes -> Seq(Entry)]
    BY <1>1, <1>4 DEF AskInv, TypeOK
  <2>2. \A n \in Nodes : \A m \in Nodes \ {n} :
          /\ rpos'[n][m] <= rsent'[n][m] /\ rsent'[n][m] <= Len(rlog'[n])
          /\ cpos'[n][m] <= csent'[n][m] /\ csent'[n][m] <= Len(clog'[n])
    <3> SUFFICES ASSUME NEW n \in Nodes, NEW m \in Nodes \ {n}
                 PROVE  rsent[n][m] <= Len(rlog'[n])
      BY <1>1 DEF AskInv, TypeOK
    <3>1. rsent[n][m] \in Nat /\ rsent[n][m] <= Len(rlog[n])
      BY Counted
    <3> QED  BY <3>1, <1>4
  <2>3. /\ pc' \in [Procs -> {"idle", "rpli", "rpli_write", "apply", "chkr",
                              "chkr_write", "wait"}]
        /\ rpli_mtx' \in [Nodes -> BOOLEAN]
        /\ ready' \subseteq Request
    BY <1>1 DEF AskInv, TypeOK
  <2> QED  BY <1>1, <2>1, <2>2, <2>3 DEF AskInv, TypeOK
<1>7. MutexInv'
  <2>1. ASSUME NEW n \in Nodes  PROVE RpliMutex(n)'
    <3>1. CASE n # o
      <4>1. RpliMutex(n)
        BY DEF AskInv, MutexInv
      <4>2. rpli_mtx'[n] = rpli_mtx[n] /\ rlog'[n] = rlog[n]
        BY <3>1, <1>1, <1>2, <1>4 DEF AskInv, TypeOK
      <4> QED  BY <3>1, <4>1, <4>2, <1>1, <1>5 DEF RpliMutex, Behind
    <3>2. CASE n = o
      <4>1. \A q \in Procs : q[1] = o => pc[q] # "rpli_write"
        BY <1>1, <1>2 DEF AskInv, MutexInv, RpliMutex
      <4>2. \A m \in Nodes \ {o} : rsent[o][m] = Len(rlog[o])
        BY <1>1, <1>2 DEF AskInv, MutexInv, RpliMutex
      <4>3. rpli_mtx'[o]
        BY <1>1, <1>2 DEF AskInv, TypeOK
      <4>4. PICK m \in Nodes \ {o} : TRUE
        BY <1>2, CheckerAssumption DEF Nodes
      <4>5. m \in Behind(o, rlog', rsent')
        BY <4>2, <4>4, <1>1, <1>4 DEF Behind
      <4>6. r \in Sole => rlog'[o][Len(rlog'[o])].req = r
        BY <1>2, <1>3, <1>4
      <4> QED  BY <3>2, <4>1, <4>2, <4>3, <4>5, <4>6, <1>1, <1>4, <1>5 DEF RpliMutex, Behind
    <3> QED  BY <3>1, <3>2
  <2>2. \A n \in Nodes : ChkrMutex(n)'
    BY <1>1, <1>5 DEF AskInv, MutexInv, ChkrMutex, Behind, InQuestions
  <2> QED  BY <2>1, <2>2 DEF MutexInv
<1>8. CallInv'
  <2>1. \A q \in Apps : pc'[q] # "idle" =>
          /\ req[q] \in asked \ returned
          /\ req[q].by = q
          /\ pc'[q] \in IF req[q].owner = q[1] THEN {"rpli", "rpli_write"}
                        ELSE {"chkr", "chkr_write", "wait"}
    BY <1>1, <1>2, <1>5, Threads DEF AskInv, CallInv
  <2>2. \A s \in asked \ returned : s.by \in Apps /\ pc[s.by] # "idle" /\ req[s.by] = s
    BY RequestKey DEF AskInv, CallInv, TypeOK
  <2>3. \A s \in asked \ returned : pc'[s.by] # "idle" /\ req[s.by] = s
    BY <2>2, <1>5, Threads
  <2> QED  BY <2>1, <2>3, <1>1 DEF CallInv
<1>9. NumberInv' /\ QuestionInv'
  BY <1>1, <1>5, Threads DEF AskInv, NumberInv, QuestionInv, InQuestions
<1>10. ReceiverInv'
  BY <1>1, <1>5, Threads DEF AskInv, ReceiverInv
<1>101. TableInv'
  <2>1. ASSUME NEW q \in Procs, pc'[q] = "rpli"
        PROVE  /\ Len(inserted[req[q].hashed]) > 0
               /\ req[q] \in Sole => req[q] \in ready' /\ Newest(req[q]) = req[q]
    <3>1. pc[q] = "rpli"
      BY <2>1, <1>5
    <3>2. req[q] \in Sole => req[q] \notin Walked(r)
      BY <2>1, <1>2, <1>51
    <3> QED  BY <3>1, <3>2, <1>1 DEF AskInv, TableInv
  <2>2. \A h \in Hash : \A i \in DOMAIN inserted[h] :
          inserted[h][i] \in asked /\ inserted[h][i].hashed = h
    BY DEF AskInv, TableInv
  <2> QED  BY <2>1, <2>2, <1>1 DEF TableInv, Newest
<1>11. OrderInv'
  <2>1. e \in Sole /\ e.by[1] # o =>
          \E k \in 1 .. cpos[e.by[1]][o] : clog[e.by[1]][k] = e
    <3> SUFFICES ASSUME e \in Sole, e.by[1] # o
                 PROVE  \E k \in 1 .. cpos[e.by[1]][o] : clog[e.by[1]][k] = e
      OBVIOUS
    <3>1. p \in Receivers /\ e = r
      BY <1>1, <1>2, AboutToOrder DEF Procs
    <3>2. /\ cpos[p[2]][o] \in DOMAIN clog[p[2]]
          /\ clog[p[2]][cpos[p[2]][o]] = r
          /\ r.by[1] = p[2]
          /\ p[2] \in Nodes /\ clog[p[2]] \in Seq(Request)
      BY <3>1, <1>1, AboutToOrder, Threads DEF AskInv, TypeOK
    <3>3. cpos[p[2]][o] \in 1 .. cpos[p[2]][o]
      BY <3>2
    <3> QED  BY <3>1, <3>2, <3>3
  <2>2. ASSUME NEW n \in Nodes, NEW i \in DOMAIN rlog'[n]
        PROVE  /\ rlog'[n][i].req \in asked /\ rlog'[n][i].req.owner = n
               /\ rlog'[n][i].req \in Sole /\ rlog'[n][i].req.by[1] # n =>
                    \E k \in 1 .. cpos[rlog'[n][i].req.by[1]][n] :
                      clog[rlog'[n][i].req.by[1]][k] = rlog'[n][i].req
    <3>1. CASE n = o /\ i = Len(rlog[o]) + 1
      BY <3>1, <2>1, <1>2, <1>3, <1>4
    <3>2. CASE ~(n = o /\ i = Len(rlog[o]) + 1)
      <4>1. i \in DOMAIN rlog[n] /\ rlog'[n][i] = rlog[n][i]
        BY <3>2, <1>4
      <4> QED  BY <4>1 DEF AskInv, OrderInv
    <3> QED  BY <3>1, <3>2
  <2>3. ASSUME NEW n \in Nodes, NEW i \in DOMAIN rlog'[n], NEW j \in DOMAIN rlog'[n],
               rlog'[n][i].req = rlog'[n][j].req, rlog'[n][i].req \in Sole
        PROVE  i = j
    <3>1. CASE n # o
      BY <3>1, <2>3, <1>4 DEF AskInv, OrderInv
    <3>2. CASE n = o
      <4>1. e \in Sole => \A k \in DOMAIN rlog[o] : rlog[o][k].req # e
        BY <1>2 DEF InOrder
      <4>2. \A k, l \in DOMAIN rlog[o] :
              rlog[o][k].req = rlog[o][l].req /\ rlog[o][k].req \in Sole => k = l
        BY <1>2 DEF AskInv, OrderInv
      <4> QED  BY <3>2, <4>1, <4>2, <2>3, <1>3, <1>4
    <3> QED  BY <3>1, <3>2
  <2>4. ASSUME NEW q \in Procs, pc'[q] = "rpli", req[q] \in Sole  PROVE ~InOrder(q[1], req[q])'
    <3>1. pc[q] = "rpli" /\ q[1] \in Nodes /\ req[q].hashed # r.hashed
      BY <2>4, <1>51, Threads DEF Procs
    <3>2. ~InOrder(q[1], req[q])
      BY <2>4, <3>1, AboutToOrder
    <3>3. CASE q[1] # o
      BY <3>1, <3>2, <3>3, <1>1, <1>4 DEF InOrder
    <3>4. CASE q[1] = o
      <4>1. req[q] # e
        BY <2>4, <3>1, <1>2
      <4> QED  BY <4>1, <3>2, <3>4, <1>1, <1>3, <1>4 DEF InOrder
    <3> QED  BY <3>3, <3>4
  <2>5. clog' = clog /\ cpos' = cpos /\ asked' = asked /\ req' = req
    BY <1>1
  <2>6. \A q \in Procs : pc'[q] = "rpli" /\ req'[q] \in Sole => ~InOrder(q[1], req[q])'
    BY <2>4, <2>5
  <2>7. \A n \in Nodes : \A i \in DOMAIN rlog'[n] :
          /\ rlog'[n][i].req \in asked' /\ rlog'[n][i].req.owner = n
          /\ rlog'[n][i].req \in Sole /\ rlog'[n][i].req.by[1] # n =>
               \E k \in 1 .. cpos'[rlog'[n][i].req.by[1]][n] :
                 clog'[rlog'[n][i].req.by[1]][k] = rlog'[n][i].req
    BY <2>2, <2>5
  <2> QED  BY <2>3, <2>6, <2>7 DEF OrderInv
<1>12. AnswerInv'
  <2>1. ASSUME NEW q \in Apps, pc'[q] \in {"chkr_write", "wait"}, ~slot[q[1]].is_blocked,
               req[q] \in Sole
        PROVE  \E i \in 1 .. rsent[req[q].owner][q[1]] : rlog'[req[q].owner][i].req = req[q]
    <3>1. q # p /\ pc[q] \in {"chkr_write", "wait"}
      BY <2>1, <1>1, <1>5, Threads
    <3>2. PICK i \in 1 .. rsent[req[q].owner][q[1]] : rlog[req[q].owner][i].req = req[q]
      BY <2>1, <3>1 DEF AskInv, AnswerInv
    <3>3. req[q].owner \in Nodes /\ req[q].owner # q[1] /\ q[1] \in Nodes
      BY <3>1, RequestKey, Threads DEF AskInv, CallInv, TypeOK
    <3>4. /\ rsent[req[q].owner][q[1]] <= Len(rlog[req[q].owner])
          /\ rsent[req[q].owner][q[1]] \in Nat
          /\ rlog[req[q].owner] \in Seq(Entry)
      BY <3>3, Counted
    <3>5. i \in DOMAIN rlog[req[q].owner]
      BY <3>2, <3>4
    <3> QED  BY <3>2, <3>3, <3>5, <1>4
  <2>2. ASSUME NEW m \in Nodes, NEW i \in DOMAIN rlog'[m],
               NEW s \in Sole, s = rlog'[m][i].req, s.by[1] # m, i > rpos[m][s.by[1]]
        PROVE  pc'[s.by] \in {"chkr_write", "wait"} /\ req[s.by] = s
               /\ slot[s.by[1]].is_blocked
    <3>0. s.by \in Apps
      BY <2>2, RequestKey DEF Sole
    <3>1. CASE m = o /\ i = Len(rlog[o]) + 1
      <4>1. s = r
        BY SMTT(60), <3>1, <2>2, <1>2, <1>3, <1>4
      <4>2. p \in Receivers
        BY ZenonT(60), <4>1, <2>2, <3>1, <1>1, AboutToOrder DEF Procs
      <4>3. /\ req[s.by] = s /\ pc[s.by] \in {"chkr_write", "wait"}
            /\ slot[s.by[1]].is_blocked
        BY ZenonT(60), <4>1, <4>2, <2>2, <1>1, AskerWaits
      <4> QED  BY <4>2, <4>3, <3>0, <1>5, Threads
    <3>2. CASE ~(m = o /\ i = Len(rlog[o]) + 1)
      <4>1. i \in DOMAIN rlog[m] /\ rlog'[m][i] = rlog[m][i]
        BY SMTT(60), <3>2, <1>4
      <4>2. /\ pc[s.by] \in {"chkr_write", "wait"}
            /\ req[s.by] = s
            /\ slot[s.by[1]].is_blocked
        BY <4>1, <2>2 DEF AskInv, AnswerInv
      <4>3. s.by # p
        BY <4>2, <1>1
      <4> QED  BY <4>2, <4>3, <3>0, <1>5, Threads
    <3> QED  BY <3>1, <3>2
  <2>3. slot' = slot /\ rsent' = rsent /\ rpos' = rpos /\ req' = req
    BY <1>1
  <2>4. \A m \in Nodes : \A i \in DOMAIN rlog'[m] :
          LET s == rlog'[m][i].req
          IN s \in Sole /\ s.by[1] # m /\ i > rpos'[m][s.by[1]] =>
               pc'[s.by] \in {"chkr_write", "wait"} /\ req'[s.by] = s /\ slot'[s.by[1]].is_blocked
    BY <2>2, <2>3
  <2>5. \A q \in Apps :
          pc'[q] \in {"chkr_write", "wait"} /\ ~slot'[q[1]].is_blocked /\ req'[q] \in Sole =>
          \E i \in 1 .. rsent'[req'[q].owner][q[1]] : rlog'[req'[q].owner][i].req = req'[q]
    BY <2>1, <2>3
  <2> QED  BY <2>4, <2>5 DEF AnswerInv
<1>13. ReturnedIsHeld'
  <2> SUFFICES ASSUME NEW s \in returned, s \in Sole, NEW m \in Nodes \ {s.owner},
                      s.by[1] \in {s.owner, m}
               PROVE  \E i \in 1 .. rsent[s.owner][m] : rlog'[s.owner][i].req = s
    BY <1>1 DEF ReturnedIsHeld
  <2>1. PICK i \in 1 .. rsent[s.owner][m] : rlog[s.owner][i].req = s
    BY DEF AskInv, ReturnedIsHeld
  <2>2. s.owner \in Nodes
    BY RequestKey DEF Sole
  <2>3. /\ rsent[s.owner][m] <= Len(rlog[s.owner]) /\ rsent[s.owner][m] \in Nat
        /\ rlog[s.owner] \in Seq(Entry)
    BY <2>2, Counted
  <2>4. i \in DOMAIN rlog[s.owner]
    BY <2>1, <2>3
  <2> QED  BY <2>1, <2>2, <2>4, <1>4
<1>14. Orders(o, f)
  BY <1>1, <1>2, <1>3 DEF Orders
<1> QED
  BY <1>3, <1>6, <1>7, <1>8, <1>9, <1>10, <1>101, <1>11, <1>12, <1>13, <1>14 DEF AskInv

----------------------------------------------------------------------------
\* What a step does that returns from the call of p.
Returns(p) ==
  /\ req[p] \in asked \ returned
  /\ req[p] \in Sole => InOrder(req[p].owner, req[p])
  /\ returned' = returned \cup {req[p]} /\ asked' = asked

\* A thread goes on in its call, or returns from it.
LEMMA CallKeeps ==
  ASSUME AskInv, NEW p \in Procs, asked' = asked, req' = req,
         \A q \in Procs : q # p => pc'[q] = pc[q],
         \/ /\ returned' = returned
            /\ p \in Apps => /\ pc[p] # "idle"
                             /\ pc'[p] \in IF req[p].owner = p[1] THEN {"rpli", "rpli_write"}
                                           ELSE {"chkr", "chkr_write", "wait"}
         \/ /\ p \in Apps /\ pc[p] # "idle" /\ pc'[p] = "idle"
            /\ returned' = returned \cup {req[p]}
  PROVE  CallInv'
<1>1. ASSUME NEW q \in Apps, pc'[q] # "idle"
      PROVE  /\ req[q] \in asked \ returned'
             /\ req[q].by = q
             /\ pc'[q] \in IF req[q].owner = q[1] THEN {"rpli", "rpli_write"}
                           ELSE {"chkr", "chkr_write", "wait"}
  <2>1. pc[q] # "idle" /\ (q # p => pc'[q] = pc[q])
    BY <1>1, Threads
  <2>2. /\ req[q] \in asked \ returned /\ req[q].by = q
        /\ q # p => pc'[q] \in IF req[q].owner = q[1] THEN {"rpli", "rpli_write"}
                               ELSE {"chkr", "chkr_write", "wait"}
    BY <2>1 DEF AskInv, CallInv
  <2>3. CASE q = p
    BY <1>1, <2>2, <2>3
  <2>4. CASE q # p
    <3>1. pc[p] # "idle" /\ p \in Apps => req[p] # req[q]
      BY <2>2, <2>4 DEF AskInv, CallInv
    <3> QED  BY <3>1, <2>2, <2>4
  <2> QED  BY <2>3, <2>4
<1>2. ASSUME NEW s \in asked \ returned'  PROVE pc'[s.by] # "idle" /\ req[s.by] = s
  <2>1. s.by \in Apps /\ pc[s.by] # "idle" /\ req[s.by] = s
    BY <1>2, RequestKey DEF AskInv, CallInv, TypeOK
  <2>2. CASE s.by = p
    <3>1. pc'[p] # "idle"
      BY <2>1, <2>2, <1>2
    <3> QED  BY <3>1, <2>1, <2>2
  <2>3. CASE s.by # p
    BY <2>1, <2>3, Threads
  <2> QED  BY <2>2, <2>3
<1> QED  BY <1>1, <1>2 DEF CallInv

\* A thread finds its request written and goes on.
LEMMA RpliSkipAsk ==
  ASSUME AskInv, NEW p \in Procs, RpliSkip(p)
  PROVE  AskInv' /\ rlog' = rlog /\ (UNCHANGED callVars \/ Returns(p))
<1> DEFINE r == req[p]
<1>1. /\ pc[p] = "rpli" /\ r \notin ready
      /\ UNCHANGED <<rlog, clog, rsent, csent, rpos, cpos, inserted, ready, rpli_mtx,
                     chkr_mtx, slot, req, executed, asked>>
      /\ \/ p \in Apps /\ returned' = returned \cup {r} /\ pc' = [pc EXCEPT ![p] = "idle"]
         \/ p \in Receivers /\ returned' = returned /\ pc' = [pc EXCEPT ![p] = "apply"]
  BY DEF RpliSkip, Processed, Return, Goto, logVars, tableVars, mtxVars
<1>2. /\ r \in asked /\ r \in Request /\ r.owner = p[1] /\ r \notin Sole /\ p[1] \in Nodes
      /\ p \in Apps => r \notin returned
  BY <1>1, AboutToOrder, Threads DEF AskInv, TableInv, Procs
<1>3. /\ \A q \in Procs : q # p => pc'[q] = pc[q]
      /\ pc'[p] = IF p \in Apps THEN "idle" ELSE "apply"
      /\ pc' \in [Procs -> {"idle", "rpli", "rpli_write", "apply", "chkr",
                            "chkr_write", "wait"}]
      /\ returned' = IF p \in Apps THEN returned \cup {r} ELSE returned
  BY <1>1, Threads DEF AskInv, TypeOK
<1>4. TypeOK'
  BY <1>1, <1>2, <1>3 DEF AskInv, TypeOK
<1>5. MutexInv'
  <2>1. \A n \in Nodes : RpliMutex(n)'
    BY <1>1, <1>3 DEF AskInv, MutexInv, RpliMutex, Behind
  <2>2. \A n \in Nodes : ChkrMutex(n)'
    BY <1>1, <1>3 DEF AskInv, MutexInv, ChkrMutex, Behind, InQuestions
  <2> QED  BY <2>1, <2>2 DEF MutexInv
<1>6. CallInv'
  BY <1>1, <1>3, CallKeeps, Threads
<1>7. NumberInv' /\ QuestionInv'
  BY <1>1, <1>3, Threads DEF AskInv, NumberInv, QuestionInv, InQuestions
<1>8. ReceiverInv'
  BY <1>1, <1>3, Threads DEF AskInv, ReceiverInv
<1>9. TableInv'
  BY SMTT(60), <1>1, <1>3, TableKeeps
<1>10. OrderInv'
  BY <1>1, <1>3 DEF AskInv, OrderInv, InOrder
<1>11. AnswerInv'
  <2>1. \A q \in Apps :
          pc'[q] \in {"chkr_write", "wait"} /\ ~slot[q[1]].is_blocked /\ req[q] \in Sole =>
          \E i \in 1 .. rsent[req[q].owner][q[1]] : rlog[req[q].owner][i].req = req[q]
    BY <1>3, Threads DEF AskInv, AnswerInv
  <2>2. ASSUME NEW m \in Nodes, NEW i \in DOMAIN rlog[m],
               NEW s \in Sole, s = rlog[m][i].req, s.by[1] # m, i > rpos[m][s.by[1]]
        PROVE  pc'[s.by] \in {"chkr_write", "wait"} /\ req[s.by] = s
               /\ slot[s.by[1]].is_blocked
    <3>1. /\ pc[s.by] \in {"chkr_write", "wait"} /\ req[s.by] = s
          /\ slot[s.by[1]].is_blocked
      BY <2>2 DEF AskInv, AnswerInv
    <3>2. s.by # p /\ s.by \in Procs
      BY <3>1, <1>1, RequestKey, Threads DEF Sole
    <3> QED  BY <3>1, <3>2, <1>3
  <2> QED  BY <2>1, <2>2, <1>1 DEF AnswerInv
<1>12. ReturnedIsHeld'
  BY <1>1, <1>2, <1>3 DEF AskInv, ReturnedIsHeld
<1>13. UNCHANGED callVars \/ Returns(p)
  BY <1>1, <1>2, <1>3 DEF callVars, Returns
<1> QED
  BY <1>1, <1>4, <1>5, <1>6, <1>7, <1>8, <1>9, <1>10, <1>11, <1>12, <1>13 DEF AskInv

\* The loop over the connections writes the entry to one of them.
LEMMA RpliWriteAsk ==
  ASSUME AskInv, NEW p \in Procs, RpliWrite(p)
  PROVE  AskInv' /\ rlog' = rlog /\ (UNCHANGED callVars \/ Returns(p))
<1> DEFINE n == p[1]
           r == req[p]
           m == NextConn(n, rlog, rsent)
           last == LastConn(n, rlog, rsent)
<1>1. /\ pc[p] = "rpli_write"
      /\ rsent' = [rsent EXCEPT ![n][m] = @ + 1]
      /\ rpli_mtx' = [rpli_mtx EXCEPT ![n] = ~last]
      /\ \/ ~last /\ UNCHANGED <<pc, returned>>
         \/ last /\ p \in Apps /\ Return(p)
         \/ last /\ p \in Receivers /\ Goto(p, "apply") /\ UNCHANGED returned
      /\ UNCHANGED <<rlog, clog, csent, rpos, cpos, inserted, ready, chkr_mtx, slot, req,
                     executed, asked>>
  BY DEF RpliWrite, Processed, tableVars
<1>2. /\ n \in Nodes /\ rpli_mtx[n] /\ Behind(n, rlog, rsent) # {}
      /\ Len(rlog[n]) > 0 /\ (r \in Sole => rlog[n][Len(rlog[n])].req = r)
      /\ rlog[n] \in Seq(Entry)
  BY <1>1, Threads DEF AskInv, MutexInv, RpliMutex, TypeOK, Procs
<1>3. m \in Nodes \ {n} /\ rsent[n][m] < Len(rlog[n])
  <2>1. m \in Behind(n, rlog, rsent)
    BY <1>2 DEF NextConn
  <2> QED  BY <2>1 DEF Behind
<1>4. last <=> Behind(n, rlog, rsent) = {m}
  BY DEF LastConn
<1> HIDE DEF m, last
<1>5. rsent[n][m] = Len(rlog[n]) - 1 /\ Len(rlog[n]) \in Nat
  <2>1. rsent[n][m] >= Len(rlog[n]) - 1
    BY <1>2, <1>3 DEF AskInv, MutexInv, RpliMutex
  <2>2. rsent[n][m] \in Nat /\ Len(rlog[n]) \in Nat
    BY <1>2, <1>3, Counted
  <2> QED  BY <1>3, <2>1, <2>2
<1>6. /\ rsent' \in Counters
      /\ rsent'[n][m] = Len(rlog[n])
      /\ \A k, l \in Nodes : k # n \/ l # m => rsent'[k][l] = rsent[k][l]
      /\ \A k, l \in Nodes : rsent[k][l] \in Nat /\ rsent'[k][l] \in Nat
      /\ \A k, l \in Nodes : rsent[k][l] <= rsent'[k][l]
  <2>1. rsent \in Counters
    BY DEF AskInv, TypeOK
  <2> QED  BY SMTT(60), <1>1, <1>2, <1>3, <1>5, <2>1 DEF Counters
<1>7. /\ \A q \in Procs : q # p => pc'[q] = pc[q]
      /\ pc'[p] = IF last THEN IF p \in Apps THEN "idle" ELSE "apply" ELSE "rpli_write"
      /\ returned' = IF last /\ p \in Apps THEN returned \cup {r} ELSE returned
      /\ pc' \in [Procs -> {"idle", "rpli", "rpli_write", "apply", "chkr",
                            "chkr_write", "wait"}]
  <2>1. pc \in [Procs -> {"idle", "rpli", "rpli_write", "apply", "chkr",
                          "chkr_write", "wait"}]
    BY DEF AskInv, TypeOK
  <2>2. CASE ~last
    BY <1>1, <2>1, <2>2
  <2>3. CASE last /\ p \in Apps
    BY <1>1, <2>1, <2>3, Threads DEF Return, Goto
  <2>4. CASE last /\ p \in Receivers
    BY <1>1, <2>1, <2>4, Threads DEF Goto
  <2> QED  BY <2>2, <2>3, <2>4 DEF Procs
<1>8. p \in Apps => r \in asked \ returned /\ r.by = p /\ r.owner = n /\ r \in Request
  BY <1>1 DEF AskInv, CallInv, TypeOK
<1>9. TypeOK'
  <2>1. rpli_mtx' \in [Nodes -> BOOLEAN]
    <3>1. (~last) \in BOOLEAN
      BY <1>4
    <3> QED  BY <1>1, <3>1 DEF AskInv, TypeOK
  <2>2. returned' \subseteq asked'
    BY <1>1, <1>7, <1>8 DEF AskInv, TypeOK
  <2>3. \A k \in Nodes : \A l \in Nodes \ {k} :
          /\ rpos'[k][l] <= rsent'[k][l] /\ rsent'[k][l] <= Len(rlog'[k])
          /\ cpos'[k][l] <= csent'[k][l] /\ csent'[k][l] <= Len(clog'[k])
    <3> SUFFICES ASSUME NEW k \in Nodes, NEW l \in Nodes \ {k}
                 PROVE  rpos[k][l] <= rsent'[k][l] /\ rsent'[k][l] <= Len(rlog[k])
      BY <1>1 DEF AskInv, TypeOK
    <3>1. /\ rpos[k][l] \in Nat /\ rsent[k][l] \in Nat /\ Len(rlog[k]) \in Nat
          /\ rpos[k][l] <= rsent[k][l] /\ rsent[k][l] <= Len(rlog[k])
      BY Counted
    <3>2. rsent'[k][l] <= Len(rlog[k])
      BY <3>1, <1>5, <1>6
    <3> QED  BY <3>1, <3>2, <1>6
  <2> QED  BY <1>1, <1>6, <1>7, <2>1, <2>2, <2>3 DEF AskInv, TypeOK
<1>10. MutexInv'
  <2>1. ASSUME NEW k \in Nodes  PROVE RpliMutex(k)'
    <3>1. RpliMutex(k)
      BY DEF AskInv, MutexInv
    <3>2. CASE k # n
      <4>1. /\ rpli_mtx'[k] = rpli_mtx[k]
            /\ \A l \in Nodes : rsent'[k][l] = rsent[k][l]
        BY <3>2, <1>1, <1>2, <1>6 DEF AskInv, TypeOK
      <4> QED  BY <3>1, <3>2, <4>1, <1>1, <1>7 DEF RpliMutex, Behind
    <3>3. CASE k = n
      <4>1. /\ rpli_mtx'[n] = ~last
            /\ \A q \in Procs : q[1] = n /\ pc'[q] = "rpli_write" => q = p /\ ~last
        BY <3>1, <3>3, <1>1, <1>2, <1>7, Threads DEF RpliMutex, AskInv, TypeOK
      <4>2. \A l \in Nodes \ {n} : rsent'[n][l] >= Len(rlog'[n]) - 1
        BY <3>1, <3>3, <1>1, <1>2, <1>5, <1>6 DEF RpliMutex
      <4>3. CASE last
        <5>1. \A l \in Nodes \ {n} : l # m => rsent[n][l] = Len(rlog[n])
          <6> SUFFICES ASSUME NEW l \in Nodes \ {n}, l # m
                       PROVE  rsent[n][l] = Len(rlog[n])
            OBVIOUS
          <6>1. ~(rsent[n][l] < Len(rlog[n]))
            BY <4>3, <1>4 DEF Behind
          <6>2. rsent[n][l] \in Nat /\ rsent[n][l] <= Len(rlog[n])
            BY <1>2, Counted
          <6> QED  BY <6>1, <6>2, <1>5
        <5>2. \A l \in Nodes \ {n} : rsent'[n][l] = Len(rlog'[n])
          BY <5>1, <1>1, <1>2, <1>6
        <5> QED  BY <3>3, <4>1, <4>2, <4>3, <5>2 DEF RpliMutex
      <4>4. CASE ~last
        <5>1. PICK l \in Behind(n, rlog, rsent) : l # m
          BY <4>4, <1>2, <1>4
        <5>2. l \in Behind(n, rlog', rsent')
          BY <5>1, <1>1, <1>2, <1>6 DEF Behind
        <5>3. \A q \in Procs : q[1] = n /\ pc'[q] = "rpli_write" =>
                /\ rpli_mtx'[n]
                /\ Len(rlog'[n]) > 0
                /\ req'[q] \in Sole => rlog'[n][Len(rlog'[n])].req = req'[q]
          BY <4>1, <4>4, <1>1, <1>2
        <5> QED  BY <3>3, <4>1, <4>2, <4>4, <5>2, <5>3 DEF RpliMutex
      <4> QED  BY <4>3, <4>4
    <3> QED  BY <3>2, <3>3
  <2>2. \A k \in Nodes : ChkrMutex(k)'
    BY SMTT(60), <1>1, <1>7 DEF AskInv, MutexInv, ChkrMutex, Behind, InQuestions
  <2> QED  BY <2>1, <2>2 DEF MutexInv
<1>11. CallInv'
  BY <1>1, <1>7, <1>8, CallKeeps, Threads
<1>12. NumberInv' /\ QuestionInv'
  BY <1>1, <1>7, Threads DEF AskInv, NumberInv, QuestionInv, InQuestions
<1>13. ReceiverInv'
  BY <1>1, <1>7, Threads DEF AskInv, ReceiverInv
<1>131. TableInv'
  BY SMTT(60), <1>1, <1>7, TableKeeps
<1>14. OrderInv'
  BY <1>1, <1>7 DEF AskInv, OrderInv, InOrder
<1>15. AnswerInv'
  <2>1. ASSUME NEW q \in Apps, pc'[q] \in {"chkr_write", "wait"}, ~slot[q[1]].is_blocked,
               req[q] \in Sole
        PROVE  \E i \in 1 .. rsent'[req[q].owner][q[1]] : rlog[req[q].owner][i].req = req[q]
    <3>1. q # p /\ pc[q] \in {"chkr_write", "wait"}
      BY <2>1, <1>1, <1>7, Threads
    <3>2. PICK i \in 1 .. rsent[req[q].owner][q[1]] : rlog[req[q].owner][i].req = req[q]
      BY <2>1, <3>1 DEF AskInv, AnswerInv
    <3>3. req[q].owner \in Nodes /\ q[1] \in Nodes
      BY <2>1, RequestKey, Threads DEF Sole
    <3>4. i \in 1 .. rsent'[req[q].owner][q[1]]
      BY <3>2, <3>3, <1>6
    <3> QED  BY <3>2, <3>4
  <2>2. ASSUME NEW k \in Nodes, NEW i \in DOMAIN rlog[k],
               NEW s \in Sole, s = rlog[k][i].req, s.by[1] # k, i > rpos[k][s.by[1]]
        PROVE  pc'[s.by] \in {"chkr_write", "wait"} /\ req[s.by] = s
               /\ slot[s.by[1]].is_blocked
    <3>1. /\ pc[s.by] \in {"chkr_write", "wait"}
          /\ req[s.by] = s
          /\ slot[s.by[1]].is_blocked
      BY <2>2 DEF AskInv, AnswerInv
    <3>2. s.by # p /\ s.by \in Procs
      BY <3>1, <1>1, RequestKey, Threads DEF Sole
    <3> QED  BY <3>1, <3>2, <1>7
  <2> QED  BY <2>1, <2>2, <1>1 DEF AnswerInv
<1>16. ReturnedIsHeld'
  <2> SUFFICES ASSUME NEW s \in returned', s \in Sole, NEW l \in Nodes \ {s.owner},
                      s.by[1] \in {s.owner, l}
               PROVE  \E i \in 1 .. rsent'[s.owner][l] : rlog[s.owner][i].req = s
    BY <1>1 DEF ReturnedIsHeld
  <2>1. CASE s \in returned
    <3>1. PICK i \in 1 .. rsent[s.owner][l] : rlog[s.owner][i].req = s
      BY <2>1 DEF AskInv, ReturnedIsHeld
    <3>2. s.owner \in Nodes
      BY RequestKey DEF Sole
    <3>3. i \in 1 .. rsent'[s.owner][l]
      BY <3>1, <3>2, <1>6
    <3> QED  BY <3>1, <3>3
  <2>2. CASE s \notin returned
    <3>1. s = r /\ last /\ p \in Apps /\ s.owner = n
      BY <2>2, <1>7, <1>8
    <3>2. rsent'[n][l] = Len(rlog[n])
      <4>1. CASE l = m
        BY <4>1, <1>6
      <4>2. CASE l # m
        <5>1. ~(rsent[n][l] < Len(rlog[n]))
          BY <3>1, <4>2, <1>4 DEF Behind
        <5>2. rsent[n][l] <= Len(rlog[n]) /\ rsent[n][l] \in Nat
          BY <1>2, <3>1, Counted
        <5> QED  BY <3>1, <4>2, <5>1, <5>2, <1>2, <1>5, <1>6
      <4> QED  BY <4>1, <4>2
    <3>3. Len(rlog[n]) \in 1 .. rsent'[n][l]
      BY <3>2, <1>2, <1>5
    <3> QED  BY <3>1, <3>3, <1>2
  <2> QED  BY <2>1, <2>2
<1>17. UNCHANGED callVars \/ Returns(p)
  <2>1. CASE last /\ p \in Apps
    <3>1. r \in Sole => InOrder(r.owner, r)
      BY <2>1, <1>2, <1>5, <1>8 DEF InOrder
    <3> QED  BY <2>1, <3>1, <1>1, <1>7, <1>8 DEF Returns
  <2>2. CASE ~(last /\ p \in Apps)
    BY <2>2, <1>1, <1>7 DEF callVars
  <2> QED  BY <2>1, <2>2
<1> QED
  BY <1>1, <1>9, <1>10, <1>11, <1>12, <1>13, <1>131, <1>14, <1>15, <1>16, <1>17 DEF AskInv

----------------------------------------------------------------------------
\* A thread takes the checker mutex and puts its question into the log.
LEMMA ChkrLockAsk ==
  ASSUME AskInv, NEW p \in Apps, ChkrLock(p)
  PROVE  AskInv' /\ rlog' = rlog /\ UNCHANGED callVars
<1> DEFINE n == p[1]
           r == req[p]
<1>1. /\ pc[p] = "chkr" /\ ~chkr_mtx[n]
      /\ chkr_mtx' = [chkr_mtx EXCEPT ![n] = TRUE]
      /\ slot' = [slot EXCEPT ![n] = [hashed |-> r.hashed, is_blocked |-> TRUE]]
      /\ clog' = [clog EXCEPT ![n] = Append(@, r)]
      /\ pc' = [pc EXCEPT ![p] = "chkr_write"]
      /\ UNCHANGED <<rlog, rsent, csent, rpos, cpos, inserted, ready, rpli_mtx, req,
                     executed, asked, returned>>
  BY DEF ChkrLock, Goto, tableVars, callVars
<1>2. /\ n \in Nodes /\ p \in Procs /\ p \notin Receivers
      /\ r \in asked \ returned /\ r \in Request /\ r.hashed \in Hash
      /\ r.by = p /\ r.owner # n
      /\ ~InQuestions(n, r)
  BY <1>1, Threads, RequestKey DEF AskInv, CallInv, QuestionInv, TypeOK
<1>3. /\ clog[n] \in Seq(Request) /\ clog'[n] = Append(clog[n], r)
      /\ clog'[n] \in Seq(Request)
      /\ Len(clog'[n]) = Len(clog[n]) + 1 /\ Len(clog[n]) \in Nat
      /\ DOMAIN clog'[n] = DOMAIN clog[n] \cup {Len(clog[n]) + 1}
      /\ clog'[n][Len(clog[n]) + 1] = r
      /\ \A i \in DOMAIN clog[n] : clog'[n][i] = clog[n][i]
      /\ \A k \in Nodes : k # n => clog'[k] = clog[k]
  BY <1>1, <1>2 DEF AskInv, TypeOK
<1>4. /\ \A q \in Procs : q # p => pc'[q] = pc[q]
      /\ pc'[p] = "chkr_write"
      /\ \A k \in Nodes : k # n => slot'[k] = slot[k] /\ chkr_mtx'[k] = chkr_mtx[k]
      /\ slot'[n] = [hashed |-> r.hashed, is_blocked |-> TRUE] /\ chkr_mtx'[n]
  BY <1>1, <1>2 DEF AskInv, TypeOK
<1>5. \A q \in Procs : q[1] = n => pc[q] \notin {"chkr_write", "wait"}
  BY <1>1, <1>2 DEF AskInv, MutexInv, ChkrMutex
<1>6. TypeOK'
  <2>1. clog' \in [Nodes -> Seq(Request)]
    BY <1>1, <1>3 DEF AskInv, TypeOK
  <2>2. \A k \in Nodes : \A l \in Nodes \ {k} :
          /\ rpos'[k][l] <= rsent'[k][l] /\ rsent'[k][l] <= Len(rlog'[k])
          /\ cpos'[k][l] <= csent'[k][l] /\ csent'[k][l] <= Len(clog'[k])
    <3> SUFFICES ASSUME NEW k \in Nodes, NEW l \in Nodes \ {k}
                 PROVE  csent[k][l] <= Len(clog'[k])
      BY <1>1 DEF AskInv, TypeOK
    <3>1. csent[k][l] \in Nat /\ csent[k][l] <= Len(clog[k])
      BY Counted
    <3> QED  BY <3>1, <1>3
  <2>3. /\ pc' \in [Procs -> {"idle", "rpli", "rpli_write", "apply", "chkr",
                              "chkr_write", "wait"}]
        /\ chkr_mtx' \in [Nodes -> BOOLEAN]
        /\ slot' \in [Nodes -> [hashed : Hash \cup {NoHash}, is_blocked : BOOLEAN]]
    BY <1>1, <1>2 DEF AskInv, TypeOK
  <2> QED  BY <1>1, <2>1, <2>2, <2>3 DEF AskInv, TypeOK
<1>7. MutexInv'
  <2>1. \A k \in Nodes : RpliMutex(k)'
    BY <1>1, <1>4 DEF AskInv, MutexInv, RpliMutex, Behind
  <2>2. ASSUME NEW k \in Nodes  PROVE ChkrMutex(k)'
    <3>1. ChkrMutex(k)
      BY DEF AskInv, MutexInv
    <3>2. CASE k # n
      BY <3>1, <3>2, <1>1, <1>3, <1>4 DEF ChkrMutex, Behind, InQuestions
    <3>3. CASE k = n
      <4>1. \A m \in Nodes \ {n} : csent[n][m] = Len(clog[n])
        BY <3>1, <3>3, <1>5 DEF ChkrMutex
      <4>2. PICK m \in Nodes \ {n} : TRUE
        BY <1>2, CheckerAssumption DEF Nodes
      <4>3. m \in Behind(n, clog', csent')
        BY <4>1, <4>2, <1>1, <1>3 DEF Behind
      <4>4. InQuestions(n, r)'
        BY <1>1, <1>3 DEF InQuestions
      <4>5. \A l \in Nodes \ {n} : csent'[n][l] >= Len(clog'[n]) - 1
        BY <4>1, <1>1, <1>3
      <4>6. \A q \in Procs : q[1] = n /\ pc'[q] \in {"chkr_write", "wait"} => q = p
        BY <1>4, <1>5
      <4>7. \A q \in Procs : q[1] = n /\ pc'[q] \in {"chkr_write", "wait"} =>
              /\ chkr_mtx'[n]
              /\ slot'[n].hashed = req'[q].hashed
              /\ InQuestions(n, req[q])'
              /\ pc'[q] = "chkr_write" => Behind(n, clog', csent') # {}
        BY <4>3, <4>4, <4>6, <1>1, <1>4
      <4>8. \E q \in Procs : q[1] = n /\ pc'[q] = "chkr_write"
        BY <1>2, <1>4
      <4> QED  BY <3>3, <4>5, <4>6, <4>7, <4>8, <1>4 DEF ChkrMutex
    <3> QED  BY <3>2, <3>3
  <2> QED  BY <2>1, <2>2 DEF MutexInv
<1>8. CallInv'
  BY <1>1, <1>2, <1>4, CallKeeps
<1>9. NumberInv'
  BY <1>1 DEF AskInv, NumberInv
<1>91. TableInv'
  BY <1>1, <1>4, TableKeeps
<1>10. QuestionInv'
  <2>1. ASSUME NEW k \in Nodes, NEW i \in DOMAIN clog'[k]
        PROVE  /\ clog'[k][i] \in asked' /\ clog'[k][i].owner # k
               /\ clog'[k][i].by[1] = k
    <3>1. CASE k = n /\ i = Len(clog[n]) + 1
      BY <3>1, <1>1, <1>2, <1>3
    <3>2. CASE ~(k = n /\ i = Len(clog[n]) + 1)
      <4>1. i \in DOMAIN clog[k] /\ clog'[k][i] = clog[k][i]
        BY SMTT(60), <3>2, <1>3
      <4> QED  BY <4>1, <1>1 DEF AskInv, QuestionInv
    <3> QED  BY <3>1, <3>2
  <2>2. ASSUME NEW k \in Nodes, NEW i \in DOMAIN clog'[k], NEW j \in DOMAIN clog'[k],
               clog'[k][i] = clog'[k][j]
        PROVE  i = j
    <3>1. CASE k # n
      BY <3>1, <2>2, <1>3 DEF AskInv, QuestionInv
    <3>2. CASE k = n
      <4>1. \A l \in DOMAIN clog[n] : clog[n][l] # r
        BY <1>2 DEF InQuestions
      <4>2. \A l, m \in DOMAIN clog[n] : clog[n][l] = clog[n][m] => l = m
        BY <1>2 DEF AskInv, QuestionInv
      <4> QED  BY <3>2, <4>1, <4>2, <2>2, <1>3
    <3> QED  BY <3>1, <3>2
  <2>3. ASSUME NEW k \in Nodes, NEW q \in Apps, q[1] = k, pc'[q] = "chkr"
        PROVE  ~InQuestions(k, req[q])'
    <3>1. q # p /\ pc[q] = "chkr"
      BY <2>3, <1>4, Threads
    <3>2. ~InQuestions(k, req[q]) /\ req[q].by = q
      BY <3>1, <2>3 DEF AskInv, QuestionInv, CallInv
    <3>3. req[q] # r
      BY <3>1, <3>2, <1>2
    <3> QED  BY <3>2, <3>3, <1>1, <1>3 DEF InQuestions
  <2> QED  BY <2>1, <2>2, <2>3 DEF QuestionInv
<1>11. ReceiverInv'
  BY <1>1, <1>2, <1>3, <1>4, Threads DEF AskInv, ReceiverInv
<1>12. OrderInv'
  <2>1. ASSUME NEW o \in Nodes, NEW i \in DOMAIN rlog[o],
               rlog[o][i].req \in Sole, rlog[o][i].req.by[1] # o
        PROVE  \E k \in 1 .. cpos[rlog[o][i].req.by[1]][o] :
                 clog'[rlog[o][i].req.by[1]][k] = rlog[o][i].req
    <3> DEFINE s == rlog[o][i].req
               a == s.by[1]
    <3>1. PICK k \in 1 .. cpos[a][o] : clog[a][k] = s
      BY <2>1 DEF AskInv, OrderInv
    <3>2. a \in Nodes /\ s \in Sole /\ a # o
      BY <2>1, RequestKey DEF Sole
    <3>3. /\ cpos[a][o] <= csent[a][o] /\ csent[a][o] <= Len(clog[a])
          /\ cpos[a][o] \in Nat /\ csent[a][o] \in Nat /\ clog[a] \in Seq(Request)
      BY <3>2, Counted
    <3>4. k \in DOMAIN clog[a]
      BY <3>1, <3>3
    <3>5. clog'[a][k] = clog[a][k]
      BY <3>2, <3>4, <1>3
    <3> QED  BY ZenonT(60), <3>1, <3>5
  <2>2. \A o \in Nodes : \A i \in DOMAIN rlog[o] :
          rlog[o][i].req \in asked /\ rlog[o][i].req.owner = o
    BY DEF AskInv, OrderInv
  <2>3. \A o \in Nodes : \A i, j \in DOMAIN rlog[o] :
          rlog[o][i].req = rlog[o][j].req /\ rlog[o][i].req \in Sole => i = j
    BY DEF AskInv, OrderInv
  <2>4. \A q \in Procs : pc'[q] = "rpli" /\ req[q] \in Sole => ~InOrder(q[1], req[q])
    BY <1>4 DEF AskInv, OrderInv
  <2>5. /\ rlog' = rlog /\ cpos' = cpos /\ asked' = asked /\ req' = req
    BY <1>1
  <2> QED  BY SMTT(60), <2>1, <2>2, <2>3, <2>4, <2>5 DEF OrderInv, InOrder
<1>13. AnswerInv'
  <2>1. ASSUME NEW q \in Apps, pc'[q] \in {"chkr_write", "wait"}, ~slot'[q[1]].is_blocked,
               req[q] \in Sole
        PROVE  \E i \in 1 .. rsent[req[q].owner][q[1]] : rlog[req[q].owner][i].req = req[q]
    <3>1. q[1] # n /\ q # p /\ q[1] \in Nodes /\ q \in Procs
      BY <2>1, <1>4, Threads
    <3> QED  BY <3>1, <2>1, <1>4 DEF AskInv, AnswerInv
  <2>2. ASSUME NEW m \in Nodes, NEW i \in DOMAIN rlog[m],
               NEW s \in Sole, s = rlog[m][i].req, s.by[1] # m, i > rpos[m][s.by[1]]
        PROVE  pc'[s.by] \in {"chkr_write", "wait"} /\ req[s.by] = s
               /\ slot'[s.by[1]].is_blocked
    <3>1. /\ pc[s.by] \in {"chkr_write", "wait"} /\ req[s.by] = s
          /\ slot[s.by[1]].is_blocked
      BY <2>2 DEF AskInv, AnswerInv
    <3>2. s.by \in Procs /\ s.by[1] \in Nodes
      BY RequestKey, Threads DEF Sole
    <3>3. s.by # p /\ s.by[1] # n
      BY <3>1, <3>2, <1>5, <1>2
    <3> QED  BY <3>1, <3>2, <3>3, <1>4
  <2> QED  BY <2>1, <2>2, <1>1 DEF AnswerInv
<1>14. ReturnedIsHeld'
  BY <1>1 DEF AskInv, ReturnedIsHeld
<1> QED
  BY <1>1, <1>6, <1>7, <1>8, <1>9, <1>91, <1>10, <1>11, <1>12, <1>13, <1>14
     DEF AskInv, callVars

----------------------------------------------------------------------------
\* The loop over the connections writes the question to one of them.
LEMMA ChkrWriteAsk ==
  ASSUME AskInv, NEW p \in Apps, ChkrWrite(p)
  PROVE  AskInv' /\ rlog' = rlog /\ UNCHANGED callVars
<1> DEFINE n == p[1]
           m == NextConn(n, clog, csent)
           last == LastConn(n, clog, csent)
<1>1. /\ pc[p] = "chkr_write"
      /\ csent' = [csent EXCEPT ![n][m] = @ + 1]
      /\ pc' = [pc EXCEPT ![p] = IF last THEN "wait" ELSE "chkr_write"]
      /\ UNCHANGED <<rlog, clog, rsent, rpos, cpos, inserted, ready, rpli_mtx, chkr_mtx,
                     slot, req, executed, asked, returned>>
  BY DEF ChkrWrite, Goto, tableVars, mtxVars, callVars
<1>2. /\ n \in Nodes /\ p \in Procs /\ p \notin Receivers
      /\ Behind(n, clog, csent) # {}
  BY <1>1, Threads DEF AskInv, MutexInv, ChkrMutex
<1>3. m \in Nodes \ {n} /\ csent[n][m] < Len(clog[n])
  <2>1. m \in Behind(n, clog, csent)
    BY <1>2 DEF NextConn
  <2> QED  BY <2>1 DEF Behind
<1>4. last <=> Behind(n, clog, csent) = {m}
  BY DEF LastConn
<1> HIDE DEF m, last
<1>5. csent[n][m] = Len(clog[n]) - 1 /\ Len(clog[n]) \in Nat
  <2>1. csent[n][m] >= Len(clog[n]) - 1
    BY <1>2, <1>3 DEF AskInv, MutexInv, ChkrMutex
  <2>2. csent[n][m] \in Nat /\ Len(clog[n]) \in Nat
    BY <1>2, <1>3, Counted
  <2> QED  BY <1>3, <2>1, <2>2
<1>6. /\ csent' \in Counters
      /\ csent'[n][m] = Len(clog[n])
      /\ \A k, l \in Nodes : k # n \/ l # m => csent'[k][l] = csent[k][l]
      /\ \A k, l \in Nodes : csent[k][l] \in Nat /\ csent'[k][l] \in Nat
      /\ \A k, l \in Nodes : csent[k][l] <= csent'[k][l]
  <2>1. csent \in Counters
    BY DEF AskInv, TypeOK
  <2> QED  BY SMTT(60), <1>1, <1>2, <1>3, <1>5, <2>1 DEF Counters
<1>7. /\ \A q \in Procs : q # p => pc'[q] = pc[q]
      /\ pc'[p] = IF last THEN "wait" ELSE "chkr_write"
      /\ pc' \in [Procs -> {"idle", "rpli", "rpli_write", "apply", "chkr",
                            "chkr_write", "wait"}]
  BY <1>1, <1>2 DEF AskInv, TypeOK
<1>8. TypeOK'
  <2>1. \A k \in Nodes : \A l \in Nodes \ {k} :
          /\ rpos'[k][l] <= rsent'[k][l] /\ rsent'[k][l] <= Len(rlog'[k])
          /\ cpos'[k][l] <= csent'[k][l] /\ csent'[k][l] <= Len(clog'[k])
    <3> SUFFICES ASSUME NEW k \in Nodes, NEW l \in Nodes \ {k}
                 PROVE  cpos[k][l] <= csent'[k][l] /\ csent'[k][l] <= Len(clog[k])
      BY <1>1 DEF AskInv, TypeOK
    <3>1. /\ cpos[k][l] \in Nat /\ csent[k][l] \in Nat /\ Len(clog[k]) \in Nat
          /\ cpos[k][l] <= csent[k][l] /\ csent[k][l] <= Len(clog[k])
      BY Counted
    <3>2. csent'[k][l] <= Len(clog[k])
      BY <3>1, <1>5, <1>6
    <3> QED  BY <3>1, <3>2, <1>6
  <2> QED  BY <1>1, <1>6, <1>7, <2>1 DEF AskInv, TypeOK
<1>9. MutexInv'
  <2>1. \A k \in Nodes : RpliMutex(k)'
    BY <1>1, <1>7 DEF AskInv, MutexInv, RpliMutex, Behind
  <2>2. ASSUME NEW k \in Nodes  PROVE ChkrMutex(k)'
    <3>1. ChkrMutex(k)
      BY DEF AskInv, MutexInv
    <3>2. CASE k # n
      <4>1. \A l \in Nodes : csent'[k][l] = csent[k][l]
        BY <3>2, <1>6
      <4> QED  BY <3>1, <3>2, <4>1, <1>1, <1>7 DEF ChkrMutex, Behind, InQuestions
    <3>3. CASE k = n
      <4>1. \A q \in Procs : q[1] = n /\ pc'[q] \in {"chkr_write", "wait"} => q = p
        BY <3>1, <3>3, <1>1, <1>2, <1>7 DEF ChkrMutex
      <4>2. \A l \in Nodes \ {n} : csent'[n][l] >= Len(clog'[n]) - 1
        BY <3>1, <3>3, <1>1, <1>2, <1>5, <1>6 DEF ChkrMutex
      <4>3. /\ chkr_mtx[n] /\ slot[n].hashed = req[p].hashed
            /\ InQuestions(n, req[p])
        BY <3>1, <3>3, <1>1, <1>2 DEF ChkrMutex
      <4>4. CASE last
        <5>1. \A l \in Nodes \ {n} : csent'[n][l] = Len(clog[n])
          <6> SUFFICES ASSUME NEW l \in Nodes \ {n}, l # m
                       PROVE  csent[n][l] = Len(clog[n])
            BY <1>2, <1>6
          <6>1. ~(csent[n][l] < Len(clog[n]))
            BY <4>4, <1>4 DEF Behind
          <6>2. csent[n][l] \in Nat /\ csent[n][l] <= Len(clog[n])
            BY <1>2, Counted
          <6> QED  BY <6>1, <6>2, <1>5
        <5> QED
          BY <3>3, <4>1, <4>2, <4>3, <4>4, <5>1, <1>1, <1>7 DEF ChkrMutex, InQuestions
      <4>5. CASE ~last
        <5>1. PICK l \in Behind(n, clog, csent) : l # m
          BY <4>5, <1>2, <1>4
        <5>2. l \in Behind(n, clog', csent')
          BY <5>1, <1>1, <1>2, <1>6 DEF Behind
        <5>3. p[1] = n /\ pc'[p] = "chkr_write"
          BY <4>5, <1>7
        <5>4. \A q \in Procs : q[1] = n /\ pc'[q] \in {"chkr_write", "wait"} =>
                /\ chkr_mtx'[n]
                /\ slot'[n].hashed = req'[q].hashed
                /\ InQuestions(n, req[q])'
                /\ pc'[q] = "chkr_write" => Behind(n, clog', csent') # {}
          BY <4>1, <4>3, <5>2, <1>1 DEF InQuestions
        <5> QED
          BY <3>3, <4>1, <4>2, <4>3, <5>3, <5>4, <1>1, <1>2 DEF ChkrMutex
      <4> QED  BY <4>4, <4>5
    <3> QED  BY <3>2, <3>3
  <2> QED  BY <2>1, <2>2 DEF MutexInv
<1>10. CallInv'
  <2>1. req[p].owner # n
    BY <1>1 DEF AskInv, CallInv
  <2> QED  BY <2>1, <1>1, <1>2, <1>7, CallKeeps
<1>11. NumberInv' /\ QuestionInv'
  BY <1>1, <1>7, Threads DEF AskInv, NumberInv, QuestionInv, InQuestions
<1>12. ReceiverInv'
  BY <1>1, <1>2, <1>7, Threads DEF AskInv, ReceiverInv
<1>121. TableInv'
  BY SMTT(60), <1>1, <1>7, TableKeeps
<1>13. OrderInv'
  BY <1>1, <1>7 DEF AskInv, OrderInv, InOrder
<1>14. AnswerInv'
  <2>1. \A q \in Procs : pc'[q] \in {"chkr_write", "wait"} <=> pc[q] \in {"chkr_write", "wait"}
    BY <1>1, <1>7
  <2>2. \A q \in Apps :
          pc'[q] \in {"chkr_write", "wait"} /\ ~slot[q[1]].is_blocked /\ req[q] \in Sole =>
          \E i \in 1 .. rsent[req[q].owner][q[1]] : rlog[req[q].owner][i].req = req[q]
    BY <2>1, Threads DEF AskInv, AnswerInv
  <2>3. ASSUME NEW k \in Nodes, NEW i \in DOMAIN rlog[k],
               NEW s \in Sole, s = rlog[k][i].req, s.by[1] # k, i > rpos[k][s.by[1]]
        PROVE  pc'[s.by] \in {"chkr_write", "wait"} /\ req[s.by] = s
               /\ slot[s.by[1]].is_blocked
    <3>1. /\ pc[s.by] \in {"chkr_write", "wait"} /\ req[s.by] = s
          /\ slot[s.by[1]].is_blocked
      BY <2>3 DEF AskInv, AnswerInv
    <3>2. s.by \in Procs
      BY RequestKey, Threads DEF Sole
    <3> QED  BY <3>1, <3>2, <2>1
  <2> QED  BY <2>2, <2>3, <1>1 DEF AnswerInv
<1>15. ReturnedIsHeld'
  BY <1>1 DEF AskInv, ReturnedIsHeld
<1> QED
  BY <1>1, <1>8, <1>9, <1>10, <1>11, <1>12, <1>121, <1>13, <1>14, <1>15
     DEF AskInv, callVars

----------------------------------------------------------------------------
\* The waiting loop ends.
LEMMA ChkrReturnAsk ==
  ASSUME AskInv, NEW p \in Apps, ChkrReturn(p)
  PROVE  AskInv' /\ rlog' = rlog /\ Returns(p)
<1> DEFINE n == p[1]
           r == req[p]
<1>1. /\ pc[p] = "wait" /\ ~slot[n].is_blocked
      /\ slot' = [slot EXCEPT ![n] = [hashed |-> NoHash, is_blocked |-> FALSE]]
      /\ chkr_mtx' = [chkr_mtx EXCEPT ![n] = FALSE]
      /\ returned' = returned \cup {r}
      /\ pc' = [pc EXCEPT ![p] = "idle"]
      /\ UNCHANGED <<rlog, clog, rsent, csent, rpos, cpos, inserted, ready, rpli_mtx, req,
                     executed, asked>>
  BY DEF ChkrReturn, Return, Goto, logVars, tableVars
<1>2. /\ n \in Nodes /\ p \in Procs /\ p \notin Receivers
      /\ r \in asked \ returned /\ r \in Request
      /\ r.by = p /\ r.owner # n /\ r.owner \in Nodes
  BY <1>1, Threads, RequestKey DEF AskInv, CallInv, TypeOK
<1>3. r \in Sole => \E i \in 1 .. rsent[r.owner][n] : rlog[r.owner][i].req = r
  BY <1>1 DEF AskInv, AnswerInv
<1>4. r \in Sole => InOrder(r.owner, r)
  <2> SUFFICES ASSUME r \in Sole  PROVE InOrder(r.owner, r)
    OBVIOUS
  <2>1. PICK i \in 1 .. rsent[r.owner][n] : rlog[r.owner][i].req = r
    BY <1>3
  <2>2. /\ rsent[r.owner][n] <= Len(rlog[r.owner]) /\ rsent[r.owner][n] \in Nat
        /\ rlog[r.owner] \in Seq(Entry)
    BY <1>2, Counted
  <2>3. i \in DOMAIN rlog[r.owner]
    BY <2>1, <2>2
  <2> QED  BY <2>1, <2>3 DEF InOrder
<1>5. /\ \A q \in Procs : q # p => pc'[q] = pc[q]
      /\ pc'[p] = "idle"
      /\ \A k \in Nodes : k # n => slot'[k] = slot[k] /\ chkr_mtx'[k] = chkr_mtx[k]
      /\ slot'[n] = [hashed |-> NoHash, is_blocked |-> FALSE] /\ ~chkr_mtx'[n]
  BY <1>1, <1>2 DEF AskInv, TypeOK
<1>6. \A q \in Procs : q[1] = n /\ q # p => pc[q] \notin {"chkr_write", "wait"}
  BY <1>1, <1>2 DEF AskInv, MutexInv, ChkrMutex
<1>7. TypeOK'
  <2>1. /\ pc' \in [Procs -> {"idle", "rpli", "rpli_write", "apply", "chkr",
                              "chkr_write", "wait"}]
        /\ chkr_mtx' \in [Nodes -> BOOLEAN]
        /\ slot' \in [Nodes -> [hashed : Hash \cup {NoHash}, is_blocked : BOOLEAN]]
        /\ returned' \subseteq asked'
    BY <1>1, <1>2 DEF AskInv, TypeOK
  <2> QED  BY <1>1, <2>1 DEF AskInv, TypeOK
<1>8. MutexInv'
  <2>1. \A k \in Nodes : RpliMutex(k)'
    BY <1>1, <1>5 DEF AskInv, MutexInv, RpliMutex, Behind
  <2>2. ASSUME NEW k \in Nodes  PROVE ChkrMutex(k)'
    <3>1. ChkrMutex(k)
      BY DEF AskInv, MutexInv
    <3>2. CASE k # n
      BY <3>1, <3>2, <1>1, <1>5 DEF ChkrMutex, Behind, InQuestions
    <3>3. CASE k = n
      <4>1. \A q \in Procs : q[1] = n => pc'[q] \notin {"chkr_write", "wait"}
        BY <1>5, <1>6
      <4>2. \A m \in Nodes \ {n} : csent[n][m] = Len(clog[n])
        BY <3>1, <3>3, <1>1, <1>6 DEF ChkrMutex
      <4>3. \A m \in Nodes \ {n} : csent[n][m] >= Len(clog[n]) - 1
        BY <3>1, <3>3 DEF ChkrMutex
      <4> QED  BY <3>3, <4>1, <4>2, <4>3, <1>1, <1>5 DEF ChkrMutex
    <3> QED  BY <3>2, <3>3
  <2> QED  BY <2>1, <2>2 DEF MutexInv
<1>9. CallInv'
  BY <1>1, <1>2, <1>5, CallKeeps
<1>10. NumberInv' /\ QuestionInv'
  BY <1>1, <1>5, Threads DEF AskInv, NumberInv, QuestionInv, InQuestions
<1>11. ReceiverInv'
  BY <1>1, <1>2, <1>5, Threads DEF AskInv, ReceiverInv
<1>111. TableInv'
  BY SMTT(60), <1>1, <1>5, TableKeeps
<1>12. OrderInv'
  BY <1>1, <1>5 DEF AskInv, OrderInv, InOrder
<1>13. AnswerInv'
  <2>1. ASSUME NEW q \in Apps, pc'[q] \in {"chkr_write", "wait"}, ~slot'[q[1]].is_blocked,
               req[q] \in Sole
        PROVE  \E k \in 1 .. rsent[req[q].owner][q[1]] : rlog[req[q].owner][k].req = req[q]
    <3>1. q # p /\ q[1] # n /\ q[1] \in Nodes /\ q \in Procs
      BY <2>1, <1>5, <1>6, Threads
    <3> QED  BY <3>1, <2>1, <1>5 DEF AskInv, AnswerInv
  <2>2. ASSUME NEW m \in Nodes, NEW j \in DOMAIN rlog[m],
               NEW s \in Sole, s = rlog[m][j].req, s.by[1] # m, j > rpos[m][s.by[1]]
        PROVE  pc'[s.by] \in {"chkr_write", "wait"} /\ req[s.by] = s
               /\ slot'[s.by[1]].is_blocked
    <3>1. /\ pc[s.by] \in {"chkr_write", "wait"} /\ req[s.by] = s
          /\ slot[s.by[1]].is_blocked
      BY <2>2 DEF AskInv, AnswerInv
    <3>2. s.by \in Procs /\ s.by[1] \in Nodes
      BY RequestKey, Threads DEF Sole
    <3>3. s.by # p /\ s.by[1] # n
      BY <3>1, <3>2, <1>1, <1>6
    <3> QED  BY <3>1, <3>2, <3>3, <1>5
  <2> QED  BY <2>1, <2>2, <1>1 DEF AnswerInv
<1>14. ReturnedIsHeld'
  <2> SUFFICES ASSUME NEW s \in returned', s \in Sole, NEW m \in Nodes \ {s.owner},
                      s.by[1] \in {s.owner, m}
               PROVE  \E k \in 1 .. rsent[s.owner][m] : rlog[s.owner][k].req = s
    BY <1>1 DEF ReturnedIsHeld
  <2>1. CASE s \in returned
    BY <2>1 DEF AskInv, ReturnedIsHeld
  <2>2. CASE s = r
    <3>1. m = n
      BY <2>2, <1>2
    <3> QED  BY <2>2, <3>1, <1>3
  <2> QED  BY <2>1, <2>2, <1>1
<1> QED
  BY <1>1, <1>2, <1>4, <1>7, <1>8, <1>9, <1>10, <1>11, <1>111, <1>12, <1>13, <1>14
     DEF AskInv, Returns

----------------------------------------------------------------------------
\* A receiver takes an entry of a checker log.
LEMMA ReceiveAsk ==
  ASSUME AskInv, NEW p \in Receivers, Receive(p)
  PROVE  AskInv' /\ rlog' = rlog /\ UNCHANGED callVars
<1> DEFINE n == p[1]
           m == p[2]
           k == cpos[m][n] + 1
           r == clog[m][k]
<1>1. /\ pc[p] = "idle" /\ cpos[m][n] < csent[m][n]
      /\ cpos' = [cpos EXCEPT ![m][n] = @ + 1]
      /\ \/ /\ r.owner = n /\ Insert(r)
            /\ req' = [req EXCEPT ![p] = r] /\ pc' = [pc EXCEPT ![p] = "rpli"]
         \/ req' = req /\ pc' = pc /\ inserted' = inserted /\ ready' = ready
      /\ UNCHANGED <<rlog, clog, rsent, csent, rpos, rpli_mtx, chkr_mtx, slot, executed,
                     asked, returned>>
  BY DEF Receive, IsQuestion, Goto, tableVars, mtxVars, callVars
<1>2. /\ n \in Nodes /\ m \in Nodes /\ n # m /\ p \in Procs /\ p \notin Apps
  BY Threads
<1>3. /\ cpos \in Counters /\ cpos[m][n] \in Nat /\ csent[m][n] \in Nat
      /\ csent[m][n] <= Len(clog[m]) /\ clog[m] \in Seq(Request)
  <2>1. cpos \in Counters
    BY DEF AskInv, TypeOK
  <2> QED  BY <2>1, <1>2, Counted
<1>4. /\ cpos' \in Counters /\ cpos'[m][n] = k
      /\ k \in DOMAIN clog[m] /\ k <= csent[m][n] /\ r \in Request
      /\ \A i, j \in Nodes : i # m \/ j # n => cpos'[i][j] = cpos[i][j]
      /\ \A i, j \in Nodes : cpos[i][j] \in Nat /\ cpos[i][j] <= cpos'[i][j]
  <2>1. k \in Nat /\ k >= 1 /\ k <= csent[m][n] /\ k <= Len(clog[m])
    BY <1>1, <1>3
  <2>2. k \in DOMAIN clog[m] /\ r \in Request
    BY <2>1, <1>3
  <2>3. cpos' = [cpos EXCEPT ![m] = [cpos[m] EXCEPT ![n] = k]]
    BY <1>1
  <2> HIDE DEF k
  <2>4. \A i, j \in Nodes : i # m \/ j # n => cpos'[i][j] = cpos[i][j]
    BY <2>3, <1>2, <1>3 DEF Counters
  <2>5. cpos'[m][n] = k
    BY <2>3, <1>2, <1>3 DEF Counters
  <2>6. cpos' \in Counters
    BY <2>1, <2>3, <1>2, <1>3 DEF Counters
  <2>7. \A i, j \in Nodes : cpos[i][j] \in Nat
    BY <1>3 DEF Counters
  <2>8. cpos[m][n] <= cpos'[m][n]
    BY <2>5, <1>3 DEF k
  <2> QED  BY <2>1, <2>2, <2>4, <2>5, <2>6, <2>7, <2>8
<1>41. r \in asked /\ r.by[1] = m
  BY <1>2, <1>4 DEF AskInv, QuestionInv
<1> HIDE DEF k
<1>5. /\ \A q \in Procs : q # p => pc'[q] = pc[q] /\ req'[q] = req[q]
      /\ \/ r.owner = n /\ pc'[p] = "rpli" /\ req'[p] = r /\ Insert(r)
         \/ pc'[p] = "idle" /\ inserted' = inserted /\ ready' = ready
      /\ pc' \in [Procs -> {"idle", "rpli", "rpli_write", "apply", "chkr",
                            "chkr_write", "wait"}]
      /\ req' \in [Procs -> Request \cup {NoRequest}]
  BY <1>1, <1>2, <1>4 DEF AskInv, TypeOK
<1>51. /\ TableInv'
       /\ inserted' \in [Hash -> Seq(Request)] /\ ready' \subseteq Request
  <2>1. CASE r.owner = n /\ pc'[p] = "rpli" /\ req'[p] = r /\ Insert(r)
    BY <2>1, <1>1, <1>2, <1>4, <1>41, <1>5, TableGrows
  <2>2. CASE pc'[p] = "idle" /\ inserted' = inserted /\ ready' = ready
    <3>1. \A q \in Procs : pc'[q] = "rpli" => pc[q] = "rpli" /\ req'[q] = req[q]
      BY <2>2, <1>5
    <3> QED  BY <2>2, <3>1, <1>1, TableKeeps DEF AskInv, TypeOK
  <2> QED  BY <2>1, <2>2, <1>5
<1>6. TypeOK'
  <2>1. \A i \in Nodes : \A j \in Nodes \ {i} :
          /\ rpos'[i][j] <= rsent'[i][j] /\ rsent'[i][j] <= Len(rlog'[i])
          /\ cpos'[i][j] <= csent'[i][j] /\ csent'[i][j] <= Len(clog'[i])
    BY SMTT(60), <1>1, <1>4 DEF AskInv, TypeOK
  <2> QED  BY <1>1, <1>4, <1>5, <1>51, <2>1 DEF AskInv, TypeOK
<1>7. MutexInv'
  <2>1. \A i \in Nodes : RpliMutex(i)'
    BY <1>1, <1>5 DEF AskInv, MutexInv, RpliMutex, Behind
  <2>2. \A i \in Nodes : ChkrMutex(i)'
    BY <1>1, <1>2, <1>5 DEF AskInv, MutexInv, ChkrMutex, Behind, InQuestions
  <2> QED  BY <2>1, <2>2 DEF MutexInv
<1>8. CallInv'
  <2>1. \A q \in Apps : pc'[q] = pc[q] /\ req'[q] = req[q]
    BY <1>2, <1>5, Threads
  <2>2. \A s \in asked \ returned : s.by \in Apps
    BY RequestKey DEF AskInv, TypeOK
  <2>3. asked' = asked /\ returned' = returned
    BY <1>1
  <2> QED  BY <2>1, <2>2, <2>3 DEF AskInv, CallInv
<1>9. NumberInv' /\ QuestionInv'
  <2>1. NumberInv'
    BY <1>1 DEF AskInv, NumberInv
  <2>2. \A q \in Apps : pc'[q] = pc[q] /\ req'[q] = req[q]
    BY <1>2, <1>5, Threads
  <2>3. QuestionInv'
    BY <2>2, <1>1 DEF AskInv, QuestionInv, InQuestions
  <2> QED  BY <2>1, <2>3
<1>10. ReceiverInv'
  <2> SUFFICES ASSUME NEW q \in Receivers, pc'[q] # "idle"
               PROVE  /\ pc'[q] \in {"rpli", "rpli_write", "apply"}
                      /\ cpos'[q[2]][q[1]] \in DOMAIN clog'[q[2]]
                      /\ clog'[q[2]][cpos'[q[2]][q[1]]] = req'[q]
                      /\ req'[q].owner = q[1]
    BY DEF ReceiverInv
  <2>1. CASE q = p
    BY <2>1, <1>1, <1>4, <1>5
  <2>2. CASE q # p
    <3>1. cpos'[q[2]][q[1]] = cpos[q[2]][q[1]]
      BY <2>2, <1>2, <1>4, Threads
    <3> QED  BY <2>2, <3>1, <1>1, <1>5, Threads DEF AskInv, ReceiverInv
  <2> QED  BY <2>1, <2>2
<1>11. OrderInv'
  <2>1. ASSUME NEW o \in Nodes, NEW i \in DOMAIN rlog[o],
               rlog[o][i].req \in Sole, rlog[o][i].req.by[1] # o
        PROVE  \E l \in 1 .. cpos'[rlog[o][i].req.by[1]][o] :
                 clog[rlog[o][i].req.by[1]][l] = rlog[o][i].req
    <3> DEFINE s == rlog[o][i].req
               a == s.by[1]
    <3>1. PICK l \in 1 .. cpos[a][o] : clog[a][l] = s
      BY <2>1 DEF AskInv, OrderInv
    <3>2. /\ a \in Nodes /\ cpos[a][o] \in Nat
          /\ cpos'[a][o] \in Nat /\ cpos[a][o] <= cpos'[a][o]
      BY <2>1, <1>4, RequestKey DEF Counters, Sole
    <3>3. l \in 1 .. cpos'[a][o]
      BY <3>1, <3>2
    <3> QED  BY <3>1, <3>3
  <2>2. r \in Sole => ~InOrder(n, r)
    <3> SUFFICES ASSUME r \in Sole, NEW i \in DOMAIN rlog[n], rlog[n][i].req = r  PROVE FALSE
      BY DEF InOrder
    <3>1. PICK l \in 1 .. cpos[m][n] : clog[m][l] = r
      BY <1>2, <1>41 DEF AskInv, OrderInv
    <3>2. l \in DOMAIN clog[m] /\ l < k
      BY <3>1, <1>1, <1>3 DEF k
    <3>3. l = k
      BY <3>1, <3>2, <1>2, <1>4 DEF AskInv, QuestionInv
    <3> QED  BY <3>2, <3>3, <1>4
  <2>3. /\ \A o \in Nodes : \A i \in DOMAIN rlog[o] :
             rlog[o][i].req \in asked /\ rlog[o][i].req.owner = o
        /\ \A o \in Nodes : \A i, j \in DOMAIN rlog[o] :
             rlog[o][i].req = rlog[o][j].req /\ rlog[o][i].req \in Sole => i = j
        /\ \A q \in Procs : pc[q] = "rpli" /\ req[q] \in Sole => ~InOrder(q[1], req[q])
    BY DEF AskInv, OrderInv
  <2>4. rlog' = rlog /\ clog' = clog /\ asked' = asked
    BY <1>1
  <2>5. ASSUME NEW q \in Procs, pc'[q] = "rpli", req'[q] \in Sole  PROVE ~InOrder(q[1], req'[q])
    BY <2>2, <2>3, <2>5, <1>5
  <2> HIDE DEF n, m, k, r
  <2> QED  BY SMTT(60), <2>1, <2>3, <2>4, <2>5 DEF OrderInv, InOrder
<1>12. AnswerInv'
  <2>1. \A q \in Apps : pc'[q] = pc[q] /\ req'[q] = req[q]
    BY <1>2, <1>5, Threads
  <2>2. \A s \in Sole : s.by \in Apps
    BY RequestKey DEF Sole
  <2>3. rlog' = rlog /\ rsent' = rsent /\ rpos' = rpos /\ slot' = slot
    BY <1>1
  <2> QED  BY <2>1, <2>2, <2>3 DEF AskInv, AnswerInv
<1>13. ReturnedIsHeld'
  BY <1>1 DEF AskInv, ReturnedIsHeld
<1> QED
  BY <1>1, <1>51, <1>6, <1>7, <1>8, <1>9, <1>10, <1>11, <1>12, <1>13
     DEF AskInv, callVars

----------------------------------------------------------------------------
\* A receiver hands its question to user_action.
LEMMA ApplyAsk ==
  ASSUME AskInv, NEW p \in Receivers, Apply(p)
  PROVE  AskInv' /\ rlog' = rlog /\ UNCHANGED callVars
<1>1. /\ pc[p] = "apply"
      /\ executed' = [executed EXCEPT ![p[1]] = Append(@, [req |-> req[p], at |-> 0])]
      /\ pc' = [pc EXCEPT ![p] = "idle"]
      /\ UNCHANGED <<rlog, clog, rsent, csent, rpos, cpos, inserted, ready, rpli_mtx,
                     chkr_mtx, slot, req, asked, returned>>
  BY DEF Apply, Execute, Goto, logVars, tableVars, mtxVars, callVars
<1>2. p[1] \in Nodes /\ p[2] \in Nodes /\ p \in Procs /\ p \notin Apps
  BY Threads
<1>3. /\ \A q \in Procs : q # p => pc'[q] = pc[q]
      /\ pc'[p] = "idle"
      /\ pc' \in [Procs -> {"idle", "rpli", "rpli_write", "apply", "chkr",
                            "chkr_write", "wait"}]
  BY <1>1, <1>2 DEF AskInv, TypeOK
<1>4. TypeOK'
  <2>1. req[p] \in Request
    <3>1. clog[p[2]] \in Seq(Request)
      BY <1>2 DEF AskInv, TypeOK
    <3>2. /\ cpos[p[2]][p[1]] \in DOMAIN clog[p[2]]
          /\ clog[p[2]][cpos[p[2]][p[1]]] = req[p]
      BY <1>1 DEF AskInv, ReceiverInv
    <3> QED  BY <3>1, <3>2
  <2>2. executed' \in [Nodes -> Seq(Execution)]
    <3>1. executed[p[1]] \in Seq(Execution) /\ executed \in [Nodes -> Seq(Execution)]
      BY <1>2 DEF AskInv, TypeOK
    <3>2. [req |-> req[p], at |-> 0] \in Execution
      BY <2>1 DEF Execution
    <3>3. Append(executed[p[1]], [req |-> req[p], at |-> 0]) \in Seq(Execution)
      BY <3>1, <3>2
    <3> QED  BY <1>1, <3>1, <3>3
  <2> QED  BY <1>1, <1>3, <2>2 DEF AskInv, TypeOK
<1>5. MutexInv'
  <2>1. \A i \in Nodes : RpliMutex(i)'
    BY <1>1, <1>3 DEF AskInv, MutexInv, RpliMutex, Behind
  <2>2. \A i \in Nodes : ChkrMutex(i)'
    BY <1>1, <1>3 DEF AskInv, MutexInv, ChkrMutex, Behind, InQuestions
  <2> QED  BY <2>1, <2>2 DEF MutexInv
<1>6. CallInv' /\ NumberInv' /\ QuestionInv'
  <2>1. CallInv'
    BY <1>1, <1>2, <1>3, CallKeeps
  <2>2. \A q \in Apps : pc'[q] = pc[q]
    BY <1>2, <1>3, Threads
  <2> QED  BY <2>1, <2>2, <1>1 DEF AskInv, NumberInv, QuestionInv, InQuestions
<1>61. TableInv'
  BY <1>1, <1>3, TableKeeps
<1>7. ReceiverInv' /\ OrderInv'
  <2>1. ReceiverInv'
    <3> SUFFICES ASSUME NEW q \in Receivers, pc'[q] # "idle"
                 PROVE  /\ pc'[q] \in {"rpli", "rpli_write", "apply"}
                        /\ cpos'[q[2]][q[1]] \in DOMAIN clog'[q[2]]
                        /\ clog'[q[2]][cpos'[q[2]][q[1]]] = req'[q]
                        /\ req'[q].owner = q[1]
      BY DEF ReceiverInv
    <3>1. pc'[q] = pc[q]
      BY <1>1, <1>3, Threads
    <3>2. cpos' = cpos /\ clog' = clog /\ req' = req
      BY <1>1
    <3> QED  BY <3>1, <3>2 DEF AskInv, ReceiverInv
  <2>2. \A q \in Procs : pc'[q] = "rpli" => pc[q] = "rpli"
    BY <1>3
  <2>3. OrderInv'
    <3>1. rlog' = rlog /\ clog' = clog /\ cpos' = cpos /\ asked' = asked /\ req' = req
      BY <1>1
    <3> QED  BY <3>1, <2>2 DEF AskInv, OrderInv, InOrder
  <2> QED  BY <2>1, <2>3
<1>8. AnswerInv' /\ ReturnedIsHeld'
  <2>1. \A q \in Apps : pc'[q] = pc[q]
    BY <1>2, <1>3, Threads
  <2>2. \A s \in Sole : s.by \in Apps
    BY RequestKey DEF Sole
  <2>3. /\ rlog' = rlog /\ rsent' = rsent /\ rpos' = rpos /\ slot' = slot /\ req' = req
        /\ returned' = returned
    BY <1>1
  <2>4. AnswerInv'
    BY <2>1, <2>2, <2>3 DEF AskInv, AnswerInv
  <2>5. ReturnedIsHeld'
    BY <2>3 DEF AskInv, ReturnedIsHeld
  <2> QED  BY <2>4, <2>5
<1> QED  BY <1>1, <1>4, <1>5, <1>6, <1>61, <1>7, <1>8 DEF AskInv, callVars

----------------------------------------------------------------------------
\* A replayer takes an entry of a replication log.
LEMMA ReplayAsk ==
  ASSUME AskInv, NEW p \in Receivers, Replay(p[1], p[2])
  PROVE  AskInv' /\ rlog' = rlog /\ UNCHANGED callVars
<1> DEFINE n == p[1]
           m == p[2]
           k == rpos[m][n] + 1
           entry == rlog[m][k]
<1>1. /\ k <= rsent[m][n]
      /\ rpos' = [rpos EXCEPT ![m][n] = k]
      /\ \/ /\ entry.req.hashed = slot[n].hashed
            /\ slot' = [slot EXCEPT ![n].is_blocked = FALSE]
            /\ UNCHANGED executed
         \/ /\ slot' = slot
            /\ \/ k > 1 /\ executed' = [executed EXCEPT ![n] = Append(@, [req |-> rlog[m][k - 1].req, at |-> k - 1])]
               \/ UNCHANGED executed
      /\ UNCHANGED <<rlog, clog, rsent, csent, cpos, inserted, ready, rpli_mtx, chkr_mtx,
                     pc, req, asked, returned>>
  BY DEF Replay, Arrived, IsMine, Execute, tableVars, mtxVars, callVars
<1>12. /\ rlog' = rlog /\ clog' = clog /\ rsent' = rsent /\ csent' = csent /\ cpos' = cpos
       /\ rpli_mtx' = rpli_mtx /\ chkr_mtx' = chkr_mtx /\ pc' = pc /\ req' = req
       /\ asked' = asked /\ returned' = returned /\ inserted' = inserted /\ ready' = ready
  BY <1>1
<1>2. n \in Nodes /\ m \in Nodes /\ n # m
  BY Threads
<1>3. /\ rpos \in Counters /\ rpos[m][n] \in Nat /\ rsent[m][n] \in Nat
      /\ rsent[m][n] <= Len(rlog[m]) /\ rlog[m] \in Seq(Entry)
  <2>1. rpos \in Counters
    BY DEF AskInv, TypeOK
  <2> QED  BY <2>1, <1>2, Counted
<1>4. /\ k \in Nat /\ k >= 1 /\ k \in DOMAIN rlog[m] /\ k > rpos[m][n]
      /\ k > 1 => k - 1 \in DOMAIN rlog[m]
  <2>1. k \in Nat /\ k >= 1 /\ k > rpos[m][n] /\ k <= Len(rlog[m])
    <3>1. k <= rsent[m][n]
      BY <1>1
    <3> QED  BY <3>1, <1>3
  <2>2. DOMAIN rlog[m] = 1 .. Len(rlog[m]) /\ Len(rlog[m]) \in Nat
    BY <1>3
  <2> QED  BY <2>1, <2>2
<1>5. /\ rpos' \in Counters
      /\ \A i, j \in Nodes : rpos'[i][j] = IF i = m /\ j = n THEN k ELSE rpos[i][j]
  <2> HIDE DEF k
  <2>1. rpos' = [rpos EXCEPT ![m] = [rpos[m] EXCEPT ![n] = k]]
    BY <1>1
  <2> QED  BY <2>1, <1>2, <1>3, <1>4 DEF Counters
<1>6. /\ slot' \in [Nodes -> [hashed : Hash \cup {NoHash}, is_blocked : BOOLEAN]]
      /\ \A i \in Nodes : /\ slot'[i].hashed = slot[i].hashed
                          /\ i # n => slot'[i] = slot[i]
                          /\ slot'[i].is_blocked => slot[i].is_blocked
  <2>1. slot \in [Nodes -> [hashed : Hash \cup {NoHash}, is_blocked : BOOLEAN]]
    BY DEF AskInv, TypeOK
  <2>2. CASE slot' = slot
    BY <2>1, <2>2
  <2>3. CASE slot' = [slot EXCEPT ![n].is_blocked = FALSE]
    BY ZenonT(60), <2>1, <2>3, <1>2
  <2> QED  BY <2>2, <2>3, <1>1
<1>61. slot' = slot \/ entry.req.hashed = slot[n].hashed
  BY <1>1
<1>7. TypeOK'
  <2>1. \A i \in Nodes : \A j \in Nodes \ {i} :
          /\ rpos'[i][j] <= rsent'[i][j] /\ rsent'[i][j] <= Len(rlog'[i])
          /\ cpos'[i][j] <= csent'[i][j] /\ csent'[i][j] <= Len(clog'[i])
    <3> SUFFICES ASSUME NEW i \in Nodes, NEW j \in Nodes \ {i}
                 PROVE  rpos'[i][j] <= rsent'[i][j]
      BY <1>1 DEF AskInv, TypeOK
    <3>1. k <= rsent[m][n] /\ rsent' = rsent
      BY <1>1
    <3>2. rpos[i][j] <= rsent[i][j]
      BY DEF AskInv, TypeOK
    <3>3. rpos'[i][j] = IF i = m /\ j = n THEN k ELSE rpos[i][j]
      BY <1>5
    <3> HIDE DEF k
    <3> QED  BY <3>1, <3>2, <3>3
  <2>2. executed' \in [Nodes -> Seq(Execution)]
    <3> DEFINE x == [req |-> rlog[m][k - 1].req, at |-> k - 1]
    <3>1. executed \in [Nodes -> Seq(Execution)] /\ executed[n] \in Seq(Execution)
      BY <1>2 DEF AskInv, TypeOK
    <3>2. CASE UNCHANGED executed
      BY <3>1, <3>2
    <3>3. CASE k > 1 /\ executed' = [executed EXCEPT ![n] = Append(@, x)]
      <4>1. x \in Execution
        <5>1. rlog[m][k - 1] \in Entry /\ k - 1 \in Nat
          BY <3>3, <1>3, <1>4
        <5> QED  BY <5>1 DEF Entry, Execution
      <4> HIDE DEF x
      <4>2. Append(executed[n], x) \in Seq(Execution)
        BY <4>1, <3>1
      <4> QED  BY <3>1, <3>3, <4>2
    <3> QED  BY <3>2, <3>3, <1>1
  <2> QED  BY <1>12, <1>5, <1>6, <2>1, <2>2 DEF AskInv, TypeOK
<1>8. MutexInv'
  <2>1. \A i \in Nodes : RpliMutex(i)'
    BY <1>12 DEF AskInv, MutexInv, RpliMutex, Behind
  <2>2. \A i \in Nodes : ChkrMutex(i)'
    <3>1. \A i \in Nodes : slot'[i].hashed = slot[i].hashed
      BY <1>6
    <3> QED  BY <3>1, <1>12 DEF AskInv, MutexInv, ChkrMutex, Behind, InQuestions
  <2> QED  BY <2>1, <2>2 DEF MutexInv
<1>9. CallInv' /\ NumberInv' /\ QuestionInv'
  <2>1. pc' = pc /\ req' = req /\ asked' = asked /\ returned' = returned /\ clog' = clog
    BY <1>1
  <2> QED  BY <2>1 DEF AskInv, CallInv, NumberInv, QuestionInv, InQuestions
<1>91. TableInv'
  BY <1>12, TableKeeps
<1>10. ReceiverInv' /\ OrderInv' /\ ReturnedIsHeld'
  <2>1. /\ rlog' = rlog /\ rsent' = rsent /\ clog' = clog /\ cpos' = cpos
        /\ pc' = pc /\ req' = req /\ asked' = asked /\ returned' = returned
    BY <1>1
  <2>2. ReceiverInv'
    BY <2>1 DEF AskInv, ReceiverInv
  <2>3. OrderInv'
    BY <2>1 DEF AskInv, OrderInv, InOrder
  <2>4. ReturnedIsHeld'
    BY <2>1 DEF AskInv, ReturnedIsHeld
  <2> QED  BY <2>2, <2>3, <2>4
<1>11. AnswerInv'
  <2>0. /\ entry.req \in Request /\ entry.req.owner = m /\ entry = rlog[m][k]
        /\ k \in DOMAIN rlog[m] /\ k > rpos[m][n]
    <3>1. entry \in Entry
      BY <1>3, <1>4
    <3> QED  BY <3>1, <1>2, <1>4 DEF Entry, AskInv, OrderInv
  <2>1. ASSUME NEW q \in Apps, q[1] = n, pc[q] \in {"chkr_write", "wait"}, req[q] \in Sole,
               entry.req.hashed = slot[n].hashed
        PROVE  req[q] = entry.req
    <3>1. slot[n].hashed = req[q].hashed /\ req[q].by = q
      BY SMTT(60), <2>1, <1>2, Threads DEF AskInv, MutexInv, ChkrMutex, CallInv
    <3>2. entry.req \in Sole /\ entry.req.by = q
      BY <3>1, <2>0, <2>1, SameKey
    <3> HIDE DEF k, entry, n, m
    <3> QED  BY <3>2, <2>0, <2>1, <1>2 DEF AskInv, AnswerInv
  <2>2. ASSUME NEW q \in Apps, pc[q] \in {"chkr_write", "wait"}, ~slot'[q[1]].is_blocked,
               req[q] \in Sole
        PROVE  \E i \in 1 .. rsent[req[q].owner][q[1]] : rlog[req[q].owner][i].req = req[q]
    <3>1. CASE ~slot[q[1]].is_blocked
      BY SMTT(60), <3>1, <2>2 DEF AskInv, AnswerInv
    <3>2. CASE slot[q[1]].is_blocked
      <4>1. q[1] = n /\ entry.req.hashed = slot[n].hashed
        <5> HIDE DEF n, m, k, entry
        <5>1. q[1] \in Nodes
          BY Threads
        <5> QED  BY <5>1, <3>2, <2>2, <1>6, <1>61
      <4>2. req[q] = entry.req
        BY <4>1, <2>1, <2>2
      <4>3. k \in 1 .. rsent[m][n]
        <5>1. k <= rsent[m][n]
          BY <1>1
        <5> HIDE DEF k
        <5> QED  BY <5>1, <1>3, <1>4
      <4> HIDE DEF k, entry, n, m
      <4> QED  BY <4>1, <4>2, <4>3, <2>0
    <3> QED  BY <3>1, <3>2
  <2>3. ASSUME NEW o \in Nodes, NEW i \in DOMAIN rlog[o],
               NEW s \in Sole, s = rlog[o][i].req, s.by[1] # o, i > rpos'[o][s.by[1]]
        PROVE  pc[s.by] \in {"chkr_write", "wait"} /\ req[s.by] = s
               /\ slot'[s.by[1]].is_blocked
    <3> DEFINE l == s.by[1]
    <3>0. s.by \in Apps /\ l \in Nodes /\ o # l
      BY <2>3, RequestKey DEF Sole
    <3>1. i > rpos[o][l] /\ i \in Nat
      <4>1. rpos[o][l] \in Nat /\ rlog[o] \in Seq(Entry)
        BY <3>0, Counted
      <4>2. i \in Nat
        BY <4>1
      <4>3. rpos'[o][l] = IF o = m /\ l = n THEN k ELSE rpos[o][l]
        BY <3>0, <1>5
      <4>4. k \in Nat /\ k > rpos[m][n]
        BY <1>4
      <4> HIDE DEF k
      <4> QED  BY SMTT(60), <4>1, <4>2, <4>3, <4>4, <2>3
    <3>2. /\ pc[s.by] \in {"chkr_write", "wait"} /\ req[s.by] = s
          /\ slot[l].is_blocked
      BY <3>1, <2>3 DEF AskInv, AnswerInv
    <3>3. slot'[l].is_blocked
      <4> SUFFICES ASSUME ~slot'[l].is_blocked  PROVE FALSE
        BY SMTT(60)
      <4>1. l = n /\ entry.req.hashed = slot[n].hashed
        <5> HIDE DEF n, m, k, entry, l
        <5> QED  BY <3>0, <3>2, <1>6, <1>61
      <4>2. s = entry.req
        BY ZenonT(60), <4>1, <3>0, <3>2, <2>1, <2>3
      <4>3. o = m /\ i # k
        <5>1. rlog[o][i].req.owner = o
          BY <2>3 DEF AskInv, OrderInv
        <5>2. o = m
          BY <5>1, <4>2, <2>0, <2>3
        <5>3. rpos'[o][l] = k
          BY <5>2, <4>1, <1>2, <1>5
        <5> QED  BY <5>2, <5>3, <2>3, <3>1, <1>4
      <4>4. k \in DOMAIN rlog[o] /\ rlog[o][i].req = rlog[o][k].req /\ rlog[o][i].req \in Sole
        BY <4>2, <4>3, <2>0, <2>3
      <4>5. \A a, b \in DOMAIN rlog[o] :
              rlog[o][a].req = rlog[o][b].req /\ rlog[o][a].req \in Sole => a = b
        BY DEF AskInv, OrderInv
      <4> QED  BY <4>3, <4>4, <4>5
    <3> QED  BY <3>2, <3>3
  <2> QED  BY SMTT(60), <2>2, <2>3, <1>12 DEF AnswerInv
<1> QED
  BY SMTT(60), <1>12, <1>7, <1>8, <1>9, <1>91, <1>10, <1>11 DEF AskInv, callVars

----------------------------------------------------------------------------
(* The steps together.                                                     *)

LEMMA StutterAsk ==
  ASSUME AskInv, UNCHANGED vars
  PROVE  AskInv'
<1>1. /\ rlog' = rlog /\ clog' = clog /\ rsent' = rsent /\ csent' = csent
      /\ rpos' = rpos /\ cpos' = cpos /\ inserted' = inserted /\ ready' = ready
      /\ rpli_mtx' = rpli_mtx /\ chkr_mtx' = chkr_mtx /\ slot' = slot /\ pc' = pc
      /\ req' = req /\ executed' = executed /\ asked' = asked /\ returned' = returned
  BY DEF vars, logVars, tableVars, mtxVars, callVars
<1>2. TypeOK'
  BY <1>1 DEF AskInv, TypeOK
<1>3. MutexInv'
  BY <1>1 DEF AskInv, MutexInv, RpliMutex, ChkrMutex, Behind, InQuestions
<1>4. CallInv' /\ NumberInv' /\ QuestionInv'
  BY <1>1 DEF AskInv, CallInv, NumberInv, QuestionInv, InQuestions
<1>5. TableInv'
  BY <1>1, TableKeeps
<1>6. ReceiverInv' /\ OrderInv'
  BY <1>1 DEF AskInv, ReceiverInv, OrderInv, InOrder
<1>7. AnswerInv' /\ ReturnedIsHeld'
  BY <1>1 DEF AskInv, AnswerInv, ReturnedIsHeld
<1> QED  BY <1>2, <1>3, <1>4, <1>5, <1>6, <1>7 DEF AskInv

\* A step leaves the invariant true, and asks, orders or answers one request if
\* it does any of that.
Asks == \E r \in Request : r \notin asked /\ asked' = asked \cup {r}

LEMMA NextAsk ==
  ASSUME AskInv, [Next]_vars
  PROVE  /\ AskInv'
         /\ \/ Asks /\ rlog' = rlog /\ returned' = returned
            \/ \E n \in Nodes, entry \in Entry : Orders(n, entry)
            \/ (\E p \in Procs : Returns(p)) /\ rlog' = rlog
            \/ rlog' = rlog /\ UNCHANGED callVars
<1>1. CASE UNCHANGED vars
  BY <1>1, StutterAsk DEF vars, logVars, callVars
<1>2. CASE \E p \in Apps : Call(p)
  <2>1. PICK p \in Apps : Call(p)
    BY <1>2
  <2>2. rlog' = rlog /\ returned' = returned
    BY <2>1 DEF Call, logVars
  <2> QED  BY <2>1, <2>2, CallAsk DEF Asks
<1>3. ASSUME NEW p \in Procs, RpliStep(p)
      PROVE  /\ AskInv'
             /\ \/ \E n \in Nodes, entry \in Entry : Orders(n, entry)
                \/ Returns(p) /\ rlog' = rlog
                \/ rlog' = rlog /\ UNCHANGED callVars
  <2>1. CASE RpliLock(p)
    <3>1. p[1] \in Nodes
      BY Threads DEF Procs
    <3> QED  BY <2>1, <3>1, RpliLockAsk
  <2>2. CASE RpliSkip(p) \/ RpliWrite(p)
    BY <2>2, RpliSkipAsk, RpliWriteAsk
  <2> QED  BY <1>3, <2>1, <2>2 DEF RpliStep
<1>4. ASSUME NEW p \in Apps, ChkrLock(p) \/ ChkrWrite(p)
      PROVE  AskInv' /\ rlog' = rlog /\ UNCHANGED callVars
  BY <1>4, ChkrLockAsk, ChkrWriteAsk
<1>5. ASSUME NEW p \in Apps, ChkrReturn(p)
      PROVE  AskInv' /\ rlog' = rlog /\ Returns(p)
  BY <1>5, ChkrReturnAsk
<1>6. ASSUME NEW p \in Receivers, Receive(p) \/ Apply(p) \/ Replay(p[1], p[2])
      PROVE  AskInv' /\ rlog' = rlog /\ UNCHANGED callVars
  BY <1>6, ReceiveAsk, ApplyAsk, ReplayAsk
<1>7. CASE \E p \in Apps : AppStep(p)
  <2>1. PICK p \in Apps : AppStep(p)
    BY <1>7
  <2>2. p \in Procs
    BY Threads
  <2> QED  BY <2>1, <2>2, <1>3, <1>4, <1>5 DEF AppStep
<1>8. CASE \E p \in Receivers : ReceiverStep(p) \/ Replay(p[1], p[2])
  <2>1. PICK p \in Receivers : ReceiverStep(p) \/ Replay(p[1], p[2])
    BY <1>8
  <2>2. p \in Procs
    BY Threads
  <2> QED  BY <2>1, <2>2, <1>3, <1>6 DEF ReceiverStep
<1> QED  BY <1>1, <1>2, <1>7, <1>8 DEF Next, Run

\* Who holds the mutexes, what the threads carry, where an ordered request came
\* from and what an ACK on its way will find is as AskInv says, always.
THEOREM AskInvCorrect == Spec => []AskInv
<1>1. Init => AskInv
  BY InitAsk
<1>2. AskInv /\ [Next]_vars => AskInv'
  BY NextAsk
<1> QED  BY <1>1, <1>2, PTL DEF Spec

\* Whoever else calls for other keys: a call for a key of this node that no other
\* thread writes returns after the entry is at every node, one for such a key of
\* another node after it is at this node.
THEOREM ReturnedIsHeldCorrect == Spec => []ReturnedIsHeld
<1>1. AskInv => ReturnedIsHeld
  BY DEF AskInv
<1> QED  BY AskInvCorrect, <1>1, PTL

----------------------------------------------------------------------------
(* The promise of Ordering.                                                *)

\* The requests of a log with one more entry.
LEMMA OrderedAppend ==
  ASSUME NEW s \in Seq(Entry), NEW e \in Entry
  PROVE  [i \in DOMAIN Append(s, e) |-> Append(s, e)[i].req]
           = Append([i \in DOMAIN s |-> s[i].req], e.req)
<1> DEFINE t == [i \in DOMAIN s |-> s[i].req]
<1>1. Len(s) \in Nat /\ DOMAIN s = 1 .. Len(s)
  OBVIOUS
<1>2. \A i \in 1 .. Len(s) : s[i].req \in Request
  <2> TAKE i \in 1 .. Len(s)
  <2>1. s[i] \in Entry
    OBVIOUS
  <2> QED  BY <2>1 DEF Entry
<1>3. t \in Seq(Request) /\ Len(t) = Len(s)
  BY <1>1, <1>2
<1>4. e.req \in Request
  BY DEF Entry
<1>5. /\ Append(s, e) \in Seq(Entry) /\ DOMAIN Append(s, e) = 1 .. Len(s) + 1
      /\ Append(s, e)[Len(s) + 1] = e
      /\ \A i \in 1 .. Len(s) : Append(s, e)[i] = s[i]
  BY <1>1
<1>6. \A i \in 1 .. Len(s) : t[i] = s[i].req
  BY <1>1
<1> HIDE DEF t
<1>7. Append(t, e.req) = [i \in 1 .. Len(s) + 1 |-> IF i = Len(s) + 1 THEN e.req ELSE t[i]]
  BY <1>1, <1>3, <1>4
<1> QED  BY <1>1, <1>5, <1>6, <1>7 DEF t

LEMMA OrderedOf ==
  ASSUME AskInv, NEW n \in Nodes
  PROVE  /\ DOMAIN Ordered(n) = DOMAIN rlog[n]
         /\ \A i \in DOMAIN rlog[n] : Ordered(n)[i] = rlog[n][i].req
BY DEF Ordered

LEMMA InitPromise == Init => OwnerOrders!Init
BY DEF Init, OwnerOrders!Init, Ordered

LEMMA OrderPromise ==
  ASSUME AskInv, NEW n \in Nodes, NEW e \in Entry, Orders(n, e)
  PROVE  OwnerOrders!Order(n, e.req)
<1> DEFINE order == [m \in Nodes |-> Ordered(m)]
<1>1. /\ e.req \in asked /\ e.req.owner = n
      /\ e.req \in Sole => e.req \notin returned /\ ~InOrder(n, e.req)
      /\ rlog' = [rlog EXCEPT ![n] = Append(@, e)]
      /\ asked' = asked /\ returned' = returned
  BY DEF Orders
<1>2. rlog[n] \in Seq(Entry) /\ rlog \in [Nodes -> Seq(Entry)]
  BY DEF AskInv, TypeOK
<1>21. rlog'[n] = Append(rlog[n], e) /\ \A m \in Nodes : m # n => rlog'[m] = rlog[m]
  BY <1>1, <1>2
<1>3. Ordered(n)' = Append(Ordered(n), e.req)
  BY <1>2, <1>21, OrderedAppend DEF Ordered
<1>4. \A m \in Nodes : m # n => Ordered(m)' = Ordered(m)
  BY <1>21 DEF Ordered
<1>5. e.req \in Sole => ~OwnerOrders!IsOrdered(e.req)
  <2>1. e.req \in Sole => \A i \in DOMAIN order[n] : order[n][i] # e.req
    BY <1>1, OrderedOf DEF InOrder
  <2> QED  BY <2>1, <1>1 DEF OwnerOrders!IsOrdered
<1>6. order' = [order EXCEPT ![n] = Append(@, e.req)]
  BY <1>3, <1>4
<1> QED  BY <1>1, <1>5, <1>6 DEF OwnerOrders!Order

LEMMA ReturnPromise ==
  ASSUME AskInv, NEW p \in Procs, Returns(p), rlog' = rlog
  PROVE  OwnerOrders!Return(req[p])
<1>1. /\ req[p] \in asked \ returned
      /\ req[p] \in Sole => InOrder(req[p].owner, req[p])
      /\ returned' = returned \cup {req[p]} /\ asked' = asked
  BY DEF Returns
<1>2. req[p].owner \in Nodes
  BY <1>1, RequestKey DEF AskInv, TypeOK
<1>3. req[p] \in Sole =>
        \E i \in DOMAIN Ordered(req[p].owner) : Ordered(req[p].owner)[i] = req[p]
  BY <1>1, <1>2, OrderedOf DEF InOrder
<1>4. [n \in Nodes |-> Ordered(n)]' = [n \in Nodes |-> Ordered(n)]
  BY DEF Ordered
<1>5. req[p] \in Sole => OwnerOrders!IsOrdered(req[p])
  BY <1>2, <1>3 DEF OwnerOrders!IsOrdered
<1> QED  BY <1>1, <1>4, <1>5 DEF OwnerOrders!Return

\* Every step is one of Ordering, or changes nothing a caller sees.
LEMMA NextPromise ==
  ASSUME AskInv, [Next]_vars
  PROVE  [OwnerOrders!Next]_<<asked, [n \in Nodes |-> Ordered(n)], returned>>
<1>1. CASE Asks /\ rlog' = rlog /\ returned' = returned
  <2>1. [n \in Nodes |-> Ordered(n)]' = [n \in Nodes |-> Ordered(n)]
    BY <1>1 DEF Ordered
  <2> QED  BY <1>1, <2>1 DEF Asks, OwnerOrders!Next, OwnerOrders!Ask
<1>2. CASE \E n \in Nodes, e \in Entry : Orders(n, e)
  <2>1. PICK n \in Nodes, e \in Entry : Orders(n, e)
    BY <1>2
  <2>2. OwnerOrders!Order(n, e.req) /\ e.req \in asked
    BY <2>1, OrderPromise DEF Orders
  <2> QED  BY <2>2 DEF OwnerOrders!Next
<1>3. CASE (\E p \in Procs : Returns(p)) /\ rlog' = rlog
  <2>1. PICK p \in Procs : Returns(p)
    BY <1>3
  <2>2. OwnerOrders!Return(req[p]) /\ req[p] \in asked
    BY <1>3, <2>1, ReturnPromise DEF Returns
  <2> QED  BY <2>2 DEF OwnerOrders!Next
<1>4. CASE rlog' = rlog /\ UNCHANGED callVars
  <2>1. [n \in Nodes |-> Ordered(n)]' = [n \in Nodes |-> Ordered(n)]
    BY <1>4 DEF Ordered
  <2> QED  BY <1>4, <2>1 DEF callVars
<1> QED  BY <1>1, <1>2, <1>3, <1>4, NextAsk

\* The owner orders a request once, and its call returns after that, for every
\* key with one writer and whatever the calls for the other keys do: the protocol
\* implements Ordering.
THEOREM KeepsPromiseCorrect == Spec => KeepsPromise
<1>1. Init => OwnerOrders!Init
  BY InitPromise
<1>2. AskInv /\ [Next]_vars
        => [OwnerOrders!Next]_<<asked, [n \in Nodes |-> Ordered(n)], returned>>
  BY NextPromise
<1> QED
  BY <1>1, <1>2, AskInvCorrect, PTL DEF Spec, KeepsPromise, OwnerOrders!Spec
----------------------------------------------------------------------------
(* What the nodes execute.                                                 *)

\* The logs stay and grow, nothing is executed and no replayer takes an entry.
ExecKeeps ==
  /\ executed' = executed /\ rpos' = rpos
  /\ \A o \in Nodes : \A i \in DOMAIN rlog[o] : rlog'[o][i] = rlog[o][i]
  /\ \A m \in Nodes : \A i \in DOMAIN clog[m] : clog'[m][i] = clog[m][i]
  /\ \A n \in Nodes : \A m \in Nodes \ {n} :
       /\ cpos'[m][n] \in Nat /\ cpos[m][n] <= cpos'[m][n]
       /\ cpos'[m][n] = cpos[m][n] /\ pc[<<n, m>>] = "idle" => pc'[<<n, m>>] = "idle"

LEMMA Positions ==
  ASSUME AskInv, NEW n \in Nodes, NEW m \in Nodes
  PROVE  rpos[n][m] \in Nat /\ cpos[n][m] \in Nat
<1>1. rpos \in Counters /\ cpos \in Counters
  BY DEF AskInv, TypeOK
<1> QED  BY <1>1 DEF Counters

\* What a reader has taken is in the log.
LEMMA Taken ==
  ASSUME AskInv, NEW o \in Nodes, NEW n \in Nodes \ {o},
         NEW k \in 1 .. rpos[o][n]
  PROVE  /\ k \in DOMAIN rlog[o] /\ k \in Nat /\ rlog[o][k] \in Entry
         /\ rlog[o][k].req \in asked /\ rlog[o][k].req.owner = o
<1>1. /\ rpos[o][n] \in Nat /\ rsent[o][n] \in Nat /\ rpos[o][n] <= rsent[o][n]
      /\ rsent[o][n] <= Len(rlog[o]) /\ rlog[o] \in Seq(Entry)
  BY Counted
<1>2. k \in DOMAIN rlog[o] /\ k \in Nat /\ rlog[o][k] \in Entry
  BY <1>1
<1> QED  BY <1>2 DEF AskInv, OrderInv

LEMMA TakenQuestion ==
  ASSUME AskInv, NEW m \in Nodes, NEW n \in Nodes \ {m},
         NEW k \in 1 .. cpos[m][n]
  PROVE  k \in DOMAIN clog[m] /\ k \in Nat /\ clog[m][k] \in Request
<1>1. /\ cpos[m][n] \in Nat /\ csent[m][n] \in Nat /\ cpos[m][n] <= csent[m][n]
      /\ csent[m][n] <= Len(clog[m]) /\ clog[m] \in Seq(Request)
  BY Counted
<1> QED  BY <1>1

LEMMA KeepsExec ==
  ASSUME AskInv, ExecInv, ExecKeeps
  PROVE  ExecInv'
<1>1. ASSUME NEW n \in Nodes  PROVE OwnerExec(n)'
  <2>1. ASSUME NEW i \in DOMAIN executed[n], executed[n][i].req.owner = n
        PROVE  \E m \in Nodes \ {n} : \E k \in 1 .. cpos'[m][n] :
                 /\ clog'[m][k] = executed[n][i].req
                 /\ k = cpos'[m][n] => pc'[<<n, m>>] = "idle"
    <3>0. PICK m \in Nodes \ {n} : \E k \in 1 .. cpos[m][n] :
            clog[m][k] = executed[n][i].req /\ (k = cpos[m][n] => pc[<<n, m>>] = "idle")
      BY <2>1 DEF ExecInv, OwnerExec
    <3>1. PICK k \in 1 .. cpos[m][n] :
            clog[m][k] = executed[n][i].req /\ (k = cpos[m][n] => pc[<<n, m>>] = "idle")
      BY <3>0
    <3>2. k \in DOMAIN clog[m] /\ k \in Nat
      BY TakenQuestion
    <3>3. cpos[m][n] \in Nat /\ cpos'[m][n] \in Nat /\ cpos[m][n] <= cpos'[m][n]
      BY Positions DEF ExecKeeps
    <3>4. clog'[m][k] = executed[n][i].req
      BY <3>1, <3>2 DEF ExecKeeps
    <3>5. k \in 1 .. cpos'[m][n]
      BY <3>2, <3>3
    <3>6. k = cpos'[m][n] => pc'[<<n, m>>] = "idle"
      <4> SUFFICES ASSUME k = cpos'[m][n]  PROVE pc'[<<n, m>>] = "idle"
        OBVIOUS
      <4>1. k = cpos[m][n]
        BY <3>2, <3>3
      <4> QED  BY <4>1, <3>1 DEF ExecKeeps
    <3> QED  BY <3>4, <3>5, <3>6
  <2>2. \A i, j \in DOMAIN executed[n] :
          executed[n][i].req.owner = n /\ executed[n][i].req = executed[n][j].req => i = j
    BY DEF ExecInv, OwnerExec
  <2> QED  BY <2>1, <2>2 DEF OwnerExec, ExecKeeps
<1>2. ASSUME NEW n \in Nodes, NEW o \in Nodes \ {n}  PROVE FollowerExec(n, o)'
  <2>1. \A k \in 1 .. rpos[o][n] : rlog'[o][k] = rlog[o][k]
    BY Taken DEF ExecKeeps
  <2>2. \A k \in 1 .. rpos[o][n] - 1 : k + 1 \in 1 .. rpos[o][n] /\ k \in 1 .. rpos[o][n]
    BY Positions
  <2>3. executed' = executed /\ rpos' = rpos
    BY DEF ExecKeeps
  <2>4. \A k \in 1 .. rpos[o][n] - 1 : rlog'[o][k] = rlog[o][k] /\ rlog'[o][k + 1] = rlog[o][k + 1]
    BY <2>1, <2>2
  <2> QED  BY <2>3, <2>4 DEF ExecInv, FollowerExec
<1> QED  BY <1>1, <1>2 DEF ExecInv

\* Whatever a thread does in the logs and with the mutexes.
LEMMA LogsKeep ==
  ASSUME AskInv, [Next]_vars,
         ~\E p \in Receivers : Apply(p) \/ Replay(p[1], p[2])
  PROVE  ExecKeeps
<1>1. /\ rlog \in [Nodes -> Seq(Entry)] /\ clog \in [Nodes -> Seq(Request)]
      /\ cpos \in Counters
  BY DEF AskInv, TypeOK
<1>2. \A n, m \in Nodes : cpos[m][n] \in Nat
  BY Positions
<1>3. ASSUME UNCHANGED vars  PROVE ExecKeeps
  <2>1. /\ rlog' = rlog /\ clog' = clog /\ rpos' = rpos /\ cpos' = cpos /\ pc' = pc
        /\ executed' = executed
    BY <1>3 DEF vars, logVars
  <2> QED  BY <2>1, <1>2 DEF ExecKeeps
<1>4. ASSUME /\ executed' = executed /\ rpos' = rpos /\ cpos' = cpos
             /\ \E p \in Procs : pc[p] # "idle" /\ \E l : pc' = [pc EXCEPT ![p] = l]
             /\ \A o \in Nodes : \A i \in DOMAIN rlog[o] : rlog'[o][i] = rlog[o][i]
             /\ \A m \in Nodes : \A i \in DOMAIN clog[m] : clog'[m][i] = clog[m][i]
      PROVE  ExecKeeps
  <2>1. \A q \in Procs : pc[q] = "idle" => pc'[q] = "idle"
    BY <1>4 DEF AskInv, TypeOK
  <2>2. \A n \in Nodes : \A m \in Nodes \ {n} : <<n, m>> \in Procs
    BY DEF Procs, Receivers
  <2> QED  BY <1>2, <1>4, <2>1, <2>2 DEF ExecKeeps
<1>5. ASSUME NEW p \in Apps, Call(p)  PROVE ExecKeeps
  <2>1. /\ rlog' = rlog /\ clog' = clog /\ rpos' = rpos /\ cpos' = cpos
        /\ executed' = executed
    BY <1>5 DEF Call, logVars
  <2>2. \E l : pc' = [pc EXCEPT ![p] = l]
    BY <1>5 DEF Call, Goto
  <2>3. \A n \in Nodes : \A m \in Nodes \ {n} : <<n, m>> \in Procs /\ <<n, m>> # p
    BY Threads DEF Procs, Receivers
  <2>4. \A q \in Procs : q # p => pc'[q] = pc[q]
    BY <2>2 DEF AskInv, TypeOK
  <2> QED  BY <2>1, <2>3, <2>4, <1>2 DEF ExecKeeps
<1>6. ASSUME NEW p \in Procs, RpliLock(p)  PROVE ExecKeeps
  <2> DEFINE e == [req |-> Newest(req[p]), msg |-> IF p \in Apps THEN "PURE" ELSE "ACK"]
  <2>1. /\ rlog' = [rlog EXCEPT ![p[1]] = Append(@, e)]
        /\ pc[p] = "rpli" /\ pc' = [pc EXCEPT ![p] = "rpli_write"]
        /\ clog' = clog /\ rpos' = rpos /\ cpos' = cpos /\ executed' = executed
    BY <1>6 DEF RpliLock, Goto, Reply
  <2> HIDE DEF e
  <2>2. \A o \in Nodes : \A i \in DOMAIN rlog[o] : rlog'[o][i] = rlog[o][i]
    <3> TAKE o \in Nodes
    <3>1. CASE o = p[1]
      <4>1. rlog[o] \in Seq(Entry) /\ rlog'[o] = Append(rlog[o], e)
        BY <3>1, <2>1, <1>1
      <4>2. e \in Entry
        BY <2>1, NewestOfKey DEF Entry, e
      <4> QED  BY <4>1, <4>2
    <3>2. CASE o # p[1]
      BY <3>2, <2>1, <1>1
    <3> QED  BY <3>1, <3>2
  <2> QED  BY <2>1, <2>2, <1>4
<1>7. ASSUME NEW p \in Apps, ChkrLock(p)  PROVE ExecKeeps
  <2>1. /\ clog' = [clog EXCEPT ![p[1]] = Append(@, req[p])]
        /\ pc[p] = "chkr" /\ pc' = [pc EXCEPT ![p] = "chkr_write"]
        /\ rlog' = rlog /\ rpos' = rpos /\ cpos' = cpos /\ executed' = executed
    BY <1>7 DEF ChkrLock, Goto
  <2>2. \A o \in Nodes : \A i \in DOMAIN clog[o] : clog'[o][i] = clog[o][i]
    <3> TAKE o \in Nodes
    <3>1. CASE o = p[1]
      <4>1. clog[o] \in Seq(Request) /\ clog'[o] = Append(clog[o], req[p])
        BY <3>1, <2>1, <1>1
      <4> QED  BY <4>1
    <3>2. CASE o # p[1]
      BY <3>2, <2>1, <1>1
    <3> QED  BY <3>1, <3>2
  <2> QED  BY <2>1, <2>2, <1>4, Threads
<1>8. ASSUME NEW p \in Procs, RpliSkip(p) \/ RpliWrite(p)  PROVE ExecKeeps
  <2>1. /\ pc[p] # "idle"
        /\ \/ pc' = pc
           \/ pc' = [pc EXCEPT ![p] = "idle"] \/ pc' = [pc EXCEPT ![p] = "apply"]
        /\ rlog' = rlog /\ clog' = clog /\ rpos' = rpos /\ cpos' = cpos
        /\ executed' = executed
    BY <1>8 DEF RpliSkip, RpliWrite, Processed, Return, Goto, logVars
  <2>2. CASE pc' = pc
    BY <2>1, <2>2, <1>2 DEF ExecKeeps
  <2>3. CASE pc' # pc
    <3>1. \E l : pc' = [pc EXCEPT ![p] = l]
      BY <2>1, <2>3
    <3> QED  BY <2>1, <3>1, <1>4
  <2> QED  BY <2>2, <2>3
<1>9. ASSUME NEW p \in Apps, ChkrWrite(p) \/ ChkrReturn(p)  PROVE ExecKeeps
  <2>1. /\ pc[p] # "idle"
        /\ rlog' = rlog /\ clog' = clog /\ rpos' = rpos /\ cpos' = cpos
        /\ executed' = executed
    BY <1>9 DEF ChkrWrite, ChkrReturn, logVars
  <2>2. \E l : pc' = [pc EXCEPT ![p] = l]
    BY <1>9 DEF ChkrWrite, ChkrReturn, Return, Goto
  <2> QED  BY <2>1, <2>2, <1>4, Threads
<1>10. ASSUME NEW p \in Receivers, Receive(p)  PROVE ExecKeeps
  <2> DEFINE n == p[1]
             m == p[2]
             k == cpos[m][n] + 1
  <2>1. /\ cpos' = [cpos EXCEPT ![m][n] = @ + 1]
        /\ pc' = pc \/ pc' = [pc EXCEPT ![p] = "rpli"]
        /\ rlog' = rlog /\ clog' = clog /\ rpos' = rpos /\ executed' = executed
    BY <1>10 DEF Receive, Goto
  <2>2. n \in Nodes /\ m \in Nodes /\ n # m /\ k \in Nat
    BY <1>2, Threads
  <2>3. cpos' = [cpos EXCEPT ![m] = [cpos[m] EXCEPT ![n] = k]]
    BY <2>1
  <2>4. k # cpos[m][n] /\ cpos[m][n] <= k
    BY <1>2, <2>2
  <2> HIDE DEF k
  <2>5. \A i, j \in Nodes : cpos'[i][j] = IF i = m /\ j = n THEN k ELSE cpos[i][j]
    BY <2>2, <2>3, <1>1 DEF Counters
  <2>6. ASSUME NEW j \in Nodes, NEW i \in Nodes \ {j}
        PROVE  /\ cpos'[i][j] \in Nat /\ cpos[i][j] <= cpos'[i][j]
               /\ cpos'[i][j] = cpos[i][j] /\ pc[<<j, i>>] = "idle"
                    => pc'[<<j, i>>] = "idle"
    <3>1. CASE i = m /\ j = n
      BY <3>1, <2>2, <2>4, <2>5
    <3>2. CASE ~(i = m /\ j = n)
      <4>1. <<j, i>> \in Procs /\ <<j, i>> # p
        BY <3>2 DEF Procs, Receivers
      <4>2. pc'[<<j, i>>] = pc[<<j, i>>]
        BY <4>1, <2>1 DEF AskInv, TypeOK
      <4>3. cpos'[i][j] = cpos[i][j]
        BY <3>2, <2>5
      <4> QED  BY <4>2, <4>3, <1>2
    <3> QED  BY <3>1, <3>2
  <2> QED  BY <2>1, <2>6 DEF ExecKeeps
<1>11. CASE \E p \in Apps : Call(p) \/ AppStep(p)
  BY <1>11, <1>5, <1>6, <1>7, <1>8, <1>9, Threads DEF AppStep, RpliStep
<1>12. CASE \E p \in Receivers : ReceiverStep(p)
  BY <1>12, <1>6, <1>8, <1>10, Threads DEF ReceiverStep, RpliStep
<1> QED  BY <1>3, <1>11, <1>12 DEF Next, Run

\* What is executed for one owner stands while another one's requests are executed.
LEMMA FollowerKeeps ==
  ASSUME NEW n \in Nodes, NEW o \in Nodes \ {n}, FollowerExec(n, o),
         rlog' = rlog, rpos'[o][n] = rpos[o][n],
         \A j \in DOMAIN executed[n] :
           j \in DOMAIN executed'[n] /\ executed'[n][j] = executed[n][j],
         \A j \in DOMAIN executed'[n] : executed'[n][j].req.owner = o =>
           j \in DOMAIN executed[n] /\ executed'[n][j] = executed[n][j]
  PROVE  FollowerExec(n, o)'
<1>1. \A i \in DOMAIN executed'[n] : executed'[n][i].req.owner = o =>
        /\ executed'[n][i].at \in 1 .. rpos'[o][n] - 1
        /\ rlog'[o][executed'[n][i].at + 1].msg = "PURE"
        /\ rlog'[o][executed'[n][i].at].req = executed'[n][i].req
  BY DEF FollowerExec
<1>2. \A k \in 1 .. rpos'[o][n] - 1 : rlog'[o][k + 1].msg = "PURE" =>
        \E i \in DOMAIN executed'[n] :
          executed'[n][i].req = rlog'[o][k].req /\ executed'[n][i].at = k
  <2> SUFFICES ASSUME NEW k \in 1 .. rpos[o][n] - 1, rlog[o][k + 1].msg = "PURE"
               PROVE  \E i \in DOMAIN executed'[n] :
                        executed'[n][i].req = rlog[o][k].req /\ executed'[n][i].at = k
    OBVIOUS
  <2>1. PICK i \in DOMAIN executed[n] :
               executed[n][i].req = rlog[o][k].req /\ executed[n][i].at = k
    BY DEF FollowerExec
  <2> QED  BY <2>1
<1>3. \A i, j \in DOMAIN executed'[n] :
        executed'[n][i].req.owner = o /\ executed'[n][j].req.owner = o /\ i < j
          => executed'[n][i].at < executed'[n][j].at
  BY DEF FollowerExec
<1> QED  BY <1>1, <1>2, <1>3 DEF FollowerExec

\* A receiver hands its question to user_action: nobody did before.
LEMMA ApplyExec ==
  ASSUME AskInv, ExecInv, NEW p \in Receivers, Apply(p)
  PROVE  ExecInv'
<1> DEFINE n == p[1]
           m == p[2]
           k == cpos[m][n]
           x == Len(executed[n]) + 1
           e == [req |-> req[p], at |-> 0]
<1>1. /\ pc[p] = "apply"
      /\ executed' = [executed EXCEPT ![n] = Append(@, e)]
      /\ pc' = [pc EXCEPT ![p] = "idle"]
      /\ rlog' = rlog /\ clog' = clog /\ rpos' = rpos /\ cpos' = cpos
  BY DEF Apply, Execute, Goto, logVars
<1>2. /\ n \in Nodes /\ m \in Nodes /\ n # m /\ p \in Procs
      /\ p = <<n, m>>
  BY Threads DEF Receivers
<1>3. /\ k \in DOMAIN clog[m] /\ clog[m][k] = req[p] /\ req[p].owner = n
      /\ k \in 1 .. cpos[m][n]
  <2>1. k \in DOMAIN clog[m] /\ clog[m][k] = req[p] /\ req[p].owner = n
    BY <1>1 DEF AskInv, ReceiverInv
  <2>2. clog[m] \in Seq(Request) /\ k \in Nat
    BY <1>2, Positions DEF AskInv, TypeOK
  <2> QED  BY <2>1, <2>2
<1>4. /\ executed'[n] = Append(executed[n], e)
      /\ executed[n] \in Seq(Execution)
      /\ \A i \in Nodes : i # n => executed'[i] = executed[i]
  BY <1>1, <1>2 DEF AskInv, TypeOK
<1>e. e.req = req[p] /\ e.at = 0
  OBVIOUS
<1> HIDE DEF e
<1>5. /\ x \in Nat /\ x \notin DOMAIN executed[n]
      /\ DOMAIN executed'[n] = DOMAIN executed[n] \cup {x}
      /\ executed'[n][x] = e
      /\ \A i \in DOMAIN executed[n] : executed'[n][i] = executed[n][i]
  BY <1>4
<1> HIDE DEF x, k
<1>6. ASSUME NEW i \in Nodes, NEW o \in Nodes \ {i}  PROVE FollowerExec(i, o)'
  <2>1. FollowerExec(i, o)
    BY DEF ExecInv
  <2>2. CASE i # n
    <3>1. executed'[i] = executed[i]
      BY <2>2, <1>4
    <3> QED  BY <3>1, <2>1, <1>1, FollowerKeeps
  <2>3. CASE i = n
    <3>1. \A j \in DOMAIN executed'[n] : executed'[n][j].req.owner = o =>
            j \in DOMAIN executed[n] /\ executed'[n][j] = executed[n][j]
      BY <1>3, <1>5, <1>e, <2>3
    <3>2. \A j \in DOMAIN executed[n] :
            j \in DOMAIN executed'[n] /\ executed'[n][j] = executed[n][j]
      BY <1>5
    <3>3. rlog' = rlog /\ rpos'[o][n] = rpos[o][n]
      BY <1>1
    <3> HIDE DEF n
    <3> QED  BY <3>1, <3>2, <3>3, <2>1, <2>3, FollowerKeeps
  <2> QED  BY <2>2, <2>3
<1>7. ASSUME NEW i \in Nodes  PROVE OwnerExec(i)'
  <2>1. OwnerExec(i)
    BY DEF ExecInv
  <2>2. \A j \in Nodes \ {i} : pc[<<i, j>>] = "idle" => pc'[<<i, j>>] = "idle"
    <3> TAKE j \in Nodes \ {i}
    <3>1. <<i, j>> \in Procs
      BY DEF Procs, Receivers
    <3> QED  BY <3>1, <1>1 DEF AskInv, TypeOK
  <2>5. ASSUME NEW j \in DOMAIN executed[i], executed[i][j].req.owner = i
        PROVE  \E h \in Nodes \ {i} : \E l \in 1 .. cpos'[h][i] :
                 /\ clog'[h][l] = executed[i][j].req
                 /\ l = cpos'[h][i] => pc'[<<i, h>>] = "idle"
    <3>1. PICK h \in Nodes \ {i} : \E l \in 1 .. cpos[h][i] :
            clog[h][l] = executed[i][j].req /\ (l = cpos[h][i] => pc[<<i, h>>] = "idle")
      BY <2>1, <2>5 DEF OwnerExec
    <3>2. PICK l \in 1 .. cpos[h][i] :
            clog[h][l] = executed[i][j].req /\ (l = cpos[h][i] => pc[<<i, h>>] = "idle")
      BY <3>1
    <3>3. l = cpos[h][i] => pc'[<<i, h>>] = "idle"
      BY <3>2, <2>2
    <3> QED  BY <3>2, <3>3, <1>1
  <2>3. CASE i # n
    <3>1. executed'[i] = executed[i]
      BY <2>3, <1>4
    <3> QED  BY <3>1, <2>1, <2>5 DEF OwnerExec
  <2>4. CASE i = n
    <3>1. ASSUME NEW j \in DOMAIN executed[n], executed[n][j].req = req[p]  PROVE FALSE
      <4>1. PICK h \in Nodes \ {n} : \E l \in 1 .. cpos[h][n] :
              clog[h][l] = req[p] /\ (l = cpos[h][n] => pc[<<n, h>>] = "idle")
        BY <3>1, <1>3, <2>1, <2>4 DEF OwnerExec
      <4>2. PICK l \in 1 .. cpos[h][n] :
              clog[h][l] = req[p] /\ (l = cpos[h][n] => pc[<<n, h>>] = "idle")
        BY <4>1
      <4>3. l \in DOMAIN clog[h]
        BY <1>2, TakenQuestion
      <4>4. req[p].by[1] = h
        BY <4>2, <4>3 DEF AskInv, QuestionInv
      <4>5. req[p].by[1] = m
        BY <1>2, <1>3 DEF AskInv, QuestionInv
      <4>6. h = m
        BY <4>4, <4>5
      <4>7. l = k
        BY <4>2, <4>3, <4>6, <1>2, <1>3 DEF AskInv, QuestionInv
      <4> QED  BY <4>2, <4>6, <4>7, <1>1, <1>2 DEF k
    <3>2. ASSUME NEW j \in DOMAIN executed'[n], executed'[n][j].req.owner = n
          PROVE  \E h \in Nodes \ {n} : \E l \in 1 .. cpos'[h][n] :
                   /\ clog'[h][l] = executed'[n][j].req
                   /\ l = cpos'[h][n] => pc'[<<n, h>>] = "idle"
      <4>1. CASE j = x
        <5>1. pc'[<<n, m>>] = "idle"
          BY <1>1, <1>2 DEF AskInv, TypeOK
        <5>2. executed'[n][j].req = req[p]
          BY <4>1, <1>5, <1>e
        <5>3. k \in 1 .. cpos'[m][n] /\ clog'[m][k] = req[p] /\ m \in Nodes \ {n}
          BY <1>1, <1>2, <1>3
        <5> HIDE DEF n, m
        <5> QED  BY <5>1, <5>2, <5>3
      <4>2. CASE j # x
        <5>1. j \in DOMAIN executed[n] /\ executed'[n][j] = executed[n][j]
          BY <4>2, <1>5
        <5> QED  BY <5>1, <3>2, <2>5, <2>4
      <4> QED  BY <4>1, <4>2
    <3>3. \A j, h \in DOMAIN executed'[n] :
            executed'[n][j].req.owner = n /\ executed'[n][j].req = executed'[n][h].req
              => j = h
      BY <3>1, <1>5, <1>e, <2>1, <2>4 DEF OwnerExec
    <3> QED  BY <3>2, <3>3, <2>4 DEF OwnerExec
  <2> QED  BY <2>3, <2>4
<1> QED  BY <1>6, <1>7 DEF ExecInv

\* A replayer takes an entry, and hands the one before it to user_action if it
\* is no ACK: nobody did before, and nothing later in the log is executed yet.
LEMMA ReplayExec ==
  ASSUME AskInv, ExecInv, NEW p \in Receivers, Replay(p[1], p[2])
  PROVE  ExecInv'
<1> DEFINE n == p[1]
           m == p[2]
           old == rpos[m][n]
           k == old + 1
           r == rlog[m][old].req
           e == [req |-> r, at |-> old]
           x == Len(executed[n]) + 1
           Hands == old # 0 /\ rlog[m][k].msg = "PURE"
<1>1. /\ k <= rsent[m][n]
      /\ rpos' = [rpos EXCEPT ![m][n] = k]
      /\ IF rlog[m][k].msg # "ACK" /\ k > 1
           THEN executed' = [executed EXCEPT ![n] =
                               Append(@, [req |-> rlog[m][k - 1].req, at |-> k - 1])]
           ELSE executed' = executed
      /\ rlog' = rlog /\ clog' = clog /\ cpos' = cpos /\ pc' = pc
  BY DEF Replay, Arrived, Execute
<1>2. n \in Nodes /\ m \in Nodes /\ n # m
  BY Threads
<1>3. old \in Nat /\ k \in Nat /\ k > old /\ k - 1 = old /\ rpos \in Counters
  <2>1. old \in Nat
    BY <1>2, Positions
  <2>2. rpos \in Counters
    BY DEF AskInv, TypeOK
  <2> HIDE DEF old
  <2> QED  BY <2>1, <2>2
<1>4. k \in DOMAIN rlog[m] /\ rlog[m][k].msg \in {"PURE", "ACK"} /\ (old # 0 => old \in DOMAIN rlog[m])
  <2>1. /\ rlog[m] \in Seq(Entry) /\ rsent[m][n] \in Nat /\ rsent[m][n] <= Len(rlog[m])
    BY <1>2, Counted
  <2>2. k <= Len(rlog[m]) /\ k \in 1 .. Len(rlog[m])
    BY SMTT(60), <2>1, <1>1, <1>3
  <2>3. rlog[m][k] \in Entry
    BY <2>1, <2>2
  <2> QED  BY <2>1, <2>2, <2>3, <1>3 DEF Entry
<1>5. /\ Hands => executed' = [executed EXCEPT ![n] = Append(@, e)]
      /\ ~Hands => executed' = executed
  <2>1. [req |-> rlog[m][k - 1].req, at |-> k - 1] = e
    BY <1>3
  <2>2. k > 1 <=> old # 0
    BY <1>3
  <2> HIDE DEF k, old, r, e
  <2>3. CASE Hands
    BY <2>1, <2>2, <2>3, <1>1
  <2>4. CASE ~Hands
    BY <2>1, <2>2, <2>4, <1>1, <1>4
  <2> QED  BY <2>3, <2>4
<1>6. \A i, j \in Nodes : rpos'[i][j] = IF i = m /\ j = n THEN k ELSE rpos[i][j]
  <2>1. rpos' = [rpos EXCEPT ![m] = [rpos[m] EXCEPT ![n] = k]]
    BY <1>1
  <2> HIDE DEF k
  <2> QED  BY <2>1, <1>2, <1>3 DEF Counters
<1>7. /\ executed[n] \in Seq(Execution)
      /\ \A i \in Nodes : i # n => executed'[i] = executed[i]
      /\ Hands => executed'[n] = Append(executed[n], e)
      /\ ~Hands => executed' = executed
  BY <1>2, <1>5 DEF AskInv, TypeOK
<1>8. Hands => r.owner = m
  BY <1>2, <1>4 DEF AskInv, OrderInv
<1>e. e.req = r /\ e.at = old
  OBVIOUS
<1> HIDE DEF e
<1>9. /\ x \in Nat /\ x \notin DOMAIN executed[n]
      /\ \A i \in DOMAIN executed[n] : i \in Nat /\ i < x
      /\ DOMAIN executed[n] \subseteq DOMAIN executed'[n]
      /\ \A i \in DOMAIN executed[n] : executed'[n][i] = executed[n][i]
      /\ \A i \in DOMAIN executed'[n] : i \in DOMAIN executed[n] \/ (Hands /\ i = x)
      /\ Hands => x \in DOMAIN executed'[n] /\ executed'[n][x] = e
  <2>1. CASE Hands
    <3>1. executed'[n] = Append(executed[n], e) /\ executed[n] \in Seq(Execution)
      BY <2>1, <1>7
    <3>2. Len(executed[n]) \in Nat /\ DOMAIN executed[n] = 1 .. Len(executed[n])
      BY <3>1
    <3>3. /\ DOMAIN executed'[n] = 1 .. x /\ executed'[n][x] = e
          /\ \A i \in 1 .. Len(executed[n]) : executed'[n][i] = executed[n][i]
      <4> HIDE DEF r, n
      <4> QED  BY <3>1, <3>2
    <3> HIDE DEF Hands, r, n, k, old
    <3> QED  BY <2>1, <3>2, <3>3
  <2>2. CASE ~Hands
    <3>1. executed' = executed /\ executed[n] \in Seq(Execution)
      BY <2>2, <1>7
    <3> HIDE DEF Hands, r, n
    <3> QED  BY <2>2, <3>1
  <2> QED  BY <2>1, <2>2
<1> HIDE DEF x, k, old, Hands, r
<1>10. ASSUME NEW i \in Nodes  PROVE OwnerExec(i)'
  <2>1. OwnerExec(i)
    BY DEF ExecInv
  <2>2. CASE i # n
    <3>1. executed'[i] = executed[i] /\ clog' = clog /\ cpos' = cpos /\ pc' = pc
      BY <2>2, <1>1, <1>7
    <3> HIDE DEF n, m
    <3> QED  BY <3>1, <2>1 DEF OwnerExec
  <2>3. CASE i = n
    <3>1. \A j \in DOMAIN executed'[n] : executed'[n][j].req.owner = n =>
            j \in DOMAIN executed[n] /\ executed'[n][j] = executed[n][j]
      BY <1>2, <1>8, <1>9, <1>e
    <3>2. \A j \in DOMAIN executed'[n] : executed'[n][j].req.owner = n =>
            \E h \in Nodes \ {n} : \E l \in 1 .. cpos[h][n] :
              /\ clog[h][l] = executed'[n][j].req
              /\ l = cpos[h][n] => pc[<<n, h>>] = "idle"
      <4> TAKE j \in DOMAIN executed'[n]
      <4> HAVE executed'[n][j].req.owner = n
      <4>1. j \in DOMAIN executed[n] /\ executed'[n][j] = executed[n][j]
        BY <3>1
      <4> HIDE DEF n, m
      <4> QED  BY <4>1, <2>1, <2>3 DEF OwnerExec
    <3>3. \A j, h \in DOMAIN executed'[n] :
            executed'[n][j].req.owner = n /\ executed'[n][j].req = executed'[n][h].req
              => j = h
      BY <3>1, <2>1, <2>3 DEF OwnerExec
    <3> QED  BY <3>2, <3>3, <2>3, <1>1 DEF OwnerExec
  <2> QED  BY <2>2, <2>3
<1>11. ASSUME NEW i \in Nodes, NEW o \in Nodes \ {i}, i # n \/ o # m
       PROVE  FollowerExec(i, o)'
  <2>1. FollowerExec(i, o) /\ rpos'[o][i] = rpos[o][i] /\ rlog' = rlog
    BY <1>1, <1>6, <1>11 DEF ExecInv
  <2>2. CASE i # n
    <3>1. executed'[i] = executed[i]
      BY <2>2, <1>7
    <3> QED  BY <3>1, <2>1, FollowerKeeps
  <2>3. CASE i = n
    <3>1. \A j \in DOMAIN executed'[n] : executed'[n][j].req.owner = o =>
            j \in DOMAIN executed[n] /\ executed'[n][j] = executed[n][j]
      BY <1>8, <1>9, <1>e, <1>11, <2>3
    <3>2. \A j \in DOMAIN executed[n] :
            j \in DOMAIN executed'[n] /\ executed'[n][j] = executed[n][j]
      BY <1>9
    <3> HIDE DEF n, m
    <3> QED  BY <3>1, <3>2, <2>1, <2>3, FollowerKeeps
  <2> QED  BY <2>2, <2>3
<1>12. FollowerExec(n, m)'
  <2>1. FollowerExec(n, m) /\ rpos'[m][n] = k /\ rlog' = rlog
    BY <1>1, <1>2, <1>6 DEF ExecInv
  <2>2. /\ \A l \in 1 .. old - 1 : l \in 1 .. k - 1 /\ l \in Nat /\ l < old
        /\ \A l \in 1 .. k - 1 : l \in 1 .. old - 1 \/ (l = old /\ old # 0)
        /\ old # 0 => old \in 1 .. k - 1
    BY <1>3 DEF k
  <2>3. Hands => old # 0 /\ rlog[m][old + 1].msg = "PURE"
    BY SMTT(60) DEF Hands, k
  <2>4. \A j \in DOMAIN executed[n] : executed[n][j].req.owner = m =>
          /\ executed[n][j].at \in 1 .. old - 1
          /\ rlog[m][executed[n][j].at + 1].msg = "PURE"
          /\ rlog[m][executed[n][j].at].req = executed[n][j].req
    BY SMTT(60), <2>1 DEF FollowerExec, old
  <2>5. ASSUME NEW j \in DOMAIN executed'[n], executed'[n][j].req.owner = m
        PROVE  /\ executed'[n][j].at \in 1 .. k - 1
               /\ rlog[m][executed'[n][j].at + 1].msg = "PURE"
               /\ rlog[m][executed'[n][j].at].req = executed'[n][j].req
    <3>1. CASE j \in DOMAIN executed[n]
      <4>1. executed'[n][j] = executed[n][j]
        BY <3>1, <1>9
      <4> QED  BY <4>1, <3>1, <2>2, <2>4, <2>5
    <3>2. CASE Hands /\ j = x
      <4>1. executed'[n][j] = e
        BY <3>2, <1>9
      <4> QED  BY <4>1, <3>2, <2>2, <2>3, <1>e DEF r
    <3> QED  BY SMTT(60), <3>1, <3>2, <1>9
  <2>6. ASSUME NEW l \in 1 .. k - 1, rlog[m][l + 1].msg = "PURE"
        PROVE  \E j \in DOMAIN executed'[n] :
                 executed'[n][j].req = rlog[m][l].req /\ executed'[n][j].at = l
    <3>1. CASE l \in 1 .. old - 1
      <4>1. PICK j \in DOMAIN executed[n] :
                   executed[n][j].req = rlog[m][l].req /\ executed[n][j].at = l
        BY <3>1, <2>1, <2>6 DEF FollowerExec, old
      <4> QED  BY <4>1, <1>9
    <3>2. CASE l = old /\ old # 0
      <4>1. Hands
        BY <3>2, <2>6 DEF Hands, k
      <4> QED  BY <4>1, <3>2, <1>9, <1>e DEF r
    <3> QED  BY <3>1, <3>2, <2>2
  <2>7. ASSUME NEW i \in DOMAIN executed'[n], NEW j \in DOMAIN executed'[n],
               executed'[n][i].req.owner = m, executed'[n][j].req.owner = m, i < j
        PROVE  executed'[n][i].at < executed'[n][j].at
    <3>1. i \in DOMAIN executed[n]
      <4>1. \A h \in DOMAIN executed'[n] : h \in Nat /\ ~(x < h)
        BY SMTT(60), <1>9
      <4> QED  BY <4>1, <2>7, <1>9
    <3>2. executed'[n][i] = executed[n][i] /\ executed[n][i].at \in 1 .. old - 1
      BY SMTT(60), <3>1, <2>4, <2>7, <1>9
    <3>3. CASE j \in DOMAIN executed[n]
      <4>1. executed'[n][j] = executed[n][j]
        BY <3>3, <1>9
      <4> QED  BY <4>1, <3>1, <3>2, <3>3, <2>1, <2>7 DEF FollowerExec
    <3>4. CASE Hands /\ j = x
      <4>1. executed'[n][j].at = old
        BY <3>4, <1>9, <1>e
      <4> QED  BY <4>1, <3>2, <2>2
    <3> QED  BY <3>3, <3>4, <1>9
  <2> HIDE DEF k, n, m
  <2> QED  BY <2>1, <2>5, <2>6, <2>7 DEF FollowerExec
<1> QED  BY <1>10, <1>11, <1>12 DEF ExecInv

\* Who has executed which requests of whom, and in which order, is as ExecInv
\* says, always.
THEOREM ProtocolInvCorrect == Spec => []ProtocolInv
<1>1. Init => ExecInv
  <2> SUFFICES ASSUME Init  PROVE ExecInv
    OBVIOUS
  <2>1. \A n \in Nodes : executed[n] = << >>
    BY DEF Init
  <2>2. \A o, n \in Nodes : rpos[o][n] = 0
    BY DEF Init, Zero
  <2>3. \A n \in Nodes : OwnerExec(n)
    BY <2>1 DEF OwnerExec
  <2>4. \A n \in Nodes : \A o \in Nodes \ {n} : FollowerExec(n, o)
    BY <2>1, <2>2 DEF FollowerExec
  <2> QED  BY <2>3, <2>4 DEF ExecInv
<1>2. AskInv /\ ExecInv /\ [Next]_vars => ExecInv'
  <2> SUFFICES ASSUME AskInv, ExecInv, [Next]_vars  PROVE ExecInv'
    OBVIOUS
  <2>1. CASE \E p \in Receivers : Apply(p) \/ Replay(p[1], p[2])
    BY <2>1, ApplyExec, ReplayExec
  <2>2. CASE ~\E p \in Receivers : Apply(p) \/ Replay(p[1], p[2])
    BY <2>2, LogsKeep, KeepsExec
  <2> QED  BY <2>1, <2>2
<1>3. AskInv /\ ExecInv => ProtocolInv
  BY DEF ProtocolInv
<1> QED  BY <1>1, <1>2, <1>3, AskInvCorrect, PTL DEF Spec

\* No receiver calls user_action for one request twice, and no replayer for one
\* whose key has one writer, although receivers and replayers call it side by side
\* and the log may hold a request of a shared key twice.
THEOREM ExecutedOnceCorrect == Spec => []ExecutedOnce
<1>1. ASSUME AskInv, ExecInv  PROVE ExecutedOnce
  <2> SUFFICES ASSUME NEW n \in Nodes,
                      NEW i \in DOMAIN executed[n], NEW j \in DOMAIN executed[n],
                      executed[n][i].req = executed[n][j].req,
                      executed[n][i].req \in Sole \/ executed[n][i].req.owner = n
               PROVE  i = j
    BY DEF ExecutedOnce
  <2> DEFINE r == executed[n][i].req
             o == r.owner
  <2>1. executed[n] \in Seq(Execution)
    BY <1>1 DEF AskInv, TypeOK
  <2>2. r \in Request /\ i \in Nat /\ j \in Nat
    <3>1. executed[n][i] \in Execution /\ i \in Nat /\ j \in Nat
      BY <2>1
    <3> QED  BY <3>1 DEF Execution
  <2>3. o \in Nodes
    BY <2>2, RequestKey
  <2>4. CASE o = n
    BY <2>4, <1>1 DEF ExecInv, OwnerExec
  <2>5. CASE o # n
    <3>1. FollowerExec(n, o) /\ r \in Sole
      BY SMTT(60), <2>3, <2>5, <1>1 DEF ExecInv
    <3>2. /\ executed[n][i].at \in 1 .. rpos[o][n] - 1
          /\ executed[n][j].at \in 1 .. rpos[o][n] - 1
          /\ rlog[o][executed[n][i].at].req = r
          /\ rlog[o][executed[n][j].at].req = r
      BY <3>1 DEF FollowerExec
    <3> HIDE DEF o, r
    <3>3. rpos[o][n] \in Nat
      BY <1>1, <2>3, Positions
    <3>4. executed[n][i].at \in 1 .. rpos[o][n] /\ executed[n][j].at \in 1 .. rpos[o][n]
      BY <3>2, <3>3
    <3>5. executed[n][i].at \in DOMAIN rlog[o] /\ executed[n][j].at \in DOMAIN rlog[o]
      BY <3>4, <1>1, <2>3, <2>5, Taken
    <3>6. executed[n][i].at = executed[n][j].at
      BY <3>1, <3>2, <3>5, <1>1, <2>3 DEF AskInv, OrderInv
    <3>7. executed[n][i].at \in Nat
      BY SMTT(60), <3>2
    <3>8. executed[n][i].req.owner = o /\ executed[n][j].req.owner = o
      BY DEF o, r
    <3>9. \A a, b \in DOMAIN executed[n] :
            executed[n][a].req.owner = o /\ executed[n][b].req.owner = o /\ a < b
              => executed[n][a].at < executed[n][b].at
      BY <3>1 DEF FollowerExec
    <3>10. ~(i < j) /\ ~(j < i)
      BY <3>6, <3>7, <3>8, <3>9
    <3> QED  BY <3>10, <2>2
  <2> QED  BY <2>4, <2>5
<1>2. ProtocolInv => ExecutedOnce
  BY <1>1 DEF ProtocolInv
<1> QED  BY <1>2, ProtocolInvCorrect, PTL

\* Of two entries of one owner, the first in the log was executed before the
\* second by whoever has executed the second.
LEMMA FirstIsFirst ==
  ASSUME AskInv, ExecInv, NEW o \in Nodes, NEW n \in Nodes \ {o},
         NEW j \in DOMAIN executed[n], executed[n][j].req.owner = o,
         NEW k \in Nat, k >= 1, k < executed[n][j].at, rlog[o][k + 1].msg = "PURE"
  PROVE  \E i \in 1 .. j - 1 : executed[n][i].req = rlog[o][k].req
<1>1. FollowerExec(n, o)
  BY DEF ExecInv
<1>2. executed[n] \in Seq(Execution) /\ rpos[o][n] \in Nat
  BY Positions DEF AskInv, TypeOK
<1>3. executed[n][j].at \in 1 .. rpos[o][n] - 1
  BY <1>1 DEF FollowerExec
<1>4. k \in 1 .. rpos[o][n] - 1 /\ k \in 1 .. rpos[o][n]
  BY <1>2, <1>3
<1>5. PICK i \in DOMAIN executed[n] :
             executed[n][i].req = rlog[o][k].req /\ executed[n][i].at = k
  BY <1>1, <1>4 DEF FollowerExec
<1>6. executed[n][i].req.owner = o
  BY <1>4, <1>5, Taken
<1>7. i \in Nat /\ j \in Nat /\ i >= 1
  BY <1>2
<1>8. ~(executed[n][j].at < executed[n][i].at) /\ executed[n][j].at # executed[n][i].at
  BY <1>3, <1>5
<1>9. ~(j < i) /\ i # j
  BY <1>1, <1>6, <1>8 DEF FollowerExec
<1> QED  BY <1>5, <1>7, <1>9

\* The followers of an owner execute its requests alike, those of shared keys too:
\* one may only be ahead of the other.
THEOREM SameExecutionCorrect == Spec => []SameExecution
<1>1. ASSUME AskInv, ExecInv  PROVE SameExecution
  <2> SUFFICES ASSUME NEW o \in Nodes, NEW n \in Nodes \ {o}, NEW m \in Nodes \ {o},
                      NEW i \in DOMAIN executed[n], NEW j \in DOMAIN executed[m],
                      executed[n][i].req.owner = o, executed[m][j].req.owner = o,
                      executed[n][i].req # executed[m][j].req
               PROVE  \/ \E k \in 1 .. j - 1 : executed[m][k].req = executed[n][i].req
                      \/ \E k \in 1 .. i - 1 : executed[n][k].req = executed[m][j].req
    BY DEF SameExecution
  <2> DEFINE k == executed[n][i].at
             l == executed[m][j].at
  <2>1. /\ k \in 1 .. rpos[o][n] - 1
        /\ rlog[o][k + 1].msg = "PURE" /\ rlog[o][k].req = executed[n][i].req
    BY <1>1 DEF ExecInv, FollowerExec
  <2>2. /\ l \in 1 .. rpos[o][m] - 1
        /\ rlog[o][l + 1].msg = "PURE" /\ rlog[o][l].req = executed[m][j].req
    BY <1>1 DEF ExecInv, FollowerExec
  <2>3. k \in Nat /\ l \in Nat /\ k >= 1 /\ l >= 1
    BY <2>1, <2>2
  <2>4. k # l
    BY <2>1, <2>2
  <2>5. CASE k < l
    BY <2>1, <2>3, <2>5, <1>1, FirstIsFirst
  <2>6. CASE l < k
    BY <2>2, <2>3, <2>6, <1>1, FirstIsFirst
  <2> QED  BY <2>3, <2>4, <2>5, <2>6
<1>2. ProtocolInv => SameExecution
  BY <1>1 DEF ProtocolInv
<1> QED  BY <1>2, ProtocolInvCorrect, PTL
=============================================================================
