------------------------- MODULE CheckerProtocolInv -------------------------
(***************************************************************************)
(* The inductive invariant of CheckerProtocol: who holds the mutexes, what *)
(* the calls, the questions and the receivers carry, where an ordered      *)
(* request came from, and what an ACK that is not replayed yet will find.  *)
(***************************************************************************)
EXTENDS CheckerProtocol

InOrder(o, r) == \E i \in DOMAIN rlog[o] : rlog[o][i].req = r
InQuestions(n, r) == \E i \in DOMAIN clog[n] : clog[n][i] = r

----------------------------------------------------------------------------
\* A mutex is held by one thread, which is writing the last entry of the log, its
\* own request if nobody else asks for the key; while nobody holds it, the entries
\* are everywhere.
RpliMutex(n) ==
  /\ \A p \in Procs : p[1] = n /\ pc[p] = "rpli_write" =>
       /\ rpli_mtx[n]
       /\ Len(rlog[n]) > 0
       /\ req[p] \in Sole => rlog[n][Len(rlog[n])].req = req[p]
       /\ \A q \in Procs : q[1] = n /\ pc[q] = "rpli_write" => p = q
  /\ rpli_mtx[n] => Behind(n, rlog, rsent) # {}
  /\ \A m \in Nodes \ {n} :
       /\ rsent[n][m] >= Len(rlog[n]) - 1
       /\ ~rpli_mtx[n] => rsent[n][m] = Len(rlog[n])

ChkrMutex(n) ==
  /\ \A p \in Procs : p[1] = n /\ pc[p] \in {"chkr_write", "wait"} =>
       /\ chkr_mtx[n]
       /\ slot[n].hashed = req[p].hashed
       /\ InQuestions(n, req[p])
       /\ pc[p] = "chkr_write" => Behind(n, clog, csent) # {}
       /\ \A q \in Procs : q[1] = n /\ pc[q] \in {"chkr_write", "wait"} => p = q
  /\ \A m \in Nodes \ {n} :
       /\ csent[n][m] >= Len(clog[n]) - 1
       /\ (\A p \in Procs : p[1] = n => pc[p] # "chkr_write") => csent[n][m] = Len(clog[n])
  /\ ~chkr_mtx[n] => slot[n].hashed = NoHash

MutexInv == \A n \in Nodes : RpliMutex(n) /\ ChkrMutex(n)

----------------------------------------------------------------------------
\* A call under way carries a request of its thread that was asked and not
\* answered, and there are no other such requests.
CallInv ==
  /\ \A p \in Apps : pc[p] # "idle" =>
       /\ req[p] \in asked \ returned
       /\ req[p].by = p
       /\ pc[p] \in IF req[p].owner = p[1] THEN {"rpli", "rpli_write"}
                    ELSE {"chkr", "chkr_write", "wait"}
  /\ \A r \in asked \ returned : pc[r.by] # "idle" /\ req[r.by] = r

\* The numbers of a thread's requests for a key are 1, 2, ...
NumberInv ==
  /\ IsFiniteSet(asked)
  /\ \A r \in asked :
       r.nth <= Cardinality({q \in asked : q.by = r.by /\ q.hashed = r.hashed})

\* The questions of a node are requests of its threads for keys of others, each
\* of them asked once.
QuestionInv ==
  \A n \in Nodes :
    /\ \A i \in DOMAIN clog[n] :
         clog[n][i] \in asked /\ clog[n][i].owner # n /\ clog[n][i].by[1] = n
    /\ \A i, j \in DOMAIN clog[n] : clog[n][i] = clog[n][j] => i = j
    /\ \A p \in Apps : p[1] = n /\ pc[p] = "chkr" => ~InQuestions(n, req[p])

\* A receiver carries the question it took last.
ReceiverInv ==
  \A p \in Receivers : pc[p] # "idle" =>
    LET k == cpos[p[2]][p[1]]
    IN /\ pc[p] \in {"rpli", "rpli_write", "apply"}
       /\ k \in DOMAIN clog[p[2]] /\ clog[p[2]][k] = req[p]
       /\ req[p].owner = p[1]

----------------------------------------------------------------------------
\* The hash table has requests that were asked, and the sole request of a thread
\* that waits for the mutex is the newest of its key, and ready.
TableInv ==
  /\ \A h \in Hash : \A i \in DOMAIN inserted[h] :
       inserted[h][i] \in asked /\ inserted[h][i].hashed = h
  /\ \A p \in Procs : pc[p] = "rpli" =>
       /\ Len(inserted[req[p].hashed]) > 0
       /\ req[p] \in Sole => req[p] \in ready /\ Newest(req[p]) = req[p]

\* An owner orders requests for its keys.  A sole one it orders once, and the
\* request is its own or was taken from the checker log of another node.
OrderInv ==
  /\ \A o \in Nodes : \A i \in DOMAIN rlog[o] :
       /\ rlog[o][i].req \in asked /\ rlog[o][i].req.owner = o
       /\ rlog[o][i].req \in Sole /\ rlog[o][i].req.by[1] # o =>
            \E k \in 1 .. cpos[rlog[o][i].req.by[1]][o] :
              clog[rlog[o][i].req.by[1]][k] = rlog[o][i].req
  /\ \A o \in Nodes : \A i, j \in DOMAIN rlog[o] :
       rlog[o][i].req = rlog[o][j].req /\ rlog[o][i].req \in Sole => i = j
  /\ \A p \in Procs : pc[p] = "rpli" /\ req[p] \in Sole => ~InOrder(p[1], req[p])

\* A sole request's call is released after the answer to that request came, and
\* while the answer is on its way the call waits for it.
AnswerInv ==
  /\ \A p \in Apps :
       pc[p] \in {"chkr_write", "wait"} /\ ~slot[p[1]].is_blocked /\ req[p] \in Sole
       => \E i \in 1 .. rsent[req[p].owner][p[1]] : rlog[req[p].owner][i].req = req[p]
  /\ \A m \in Nodes : \A i \in DOMAIN rlog[m] :
       LET r == rlog[m][i].req
           n == r.by[1]
       IN r \in Sole /\ n # m /\ i > rpos[m][n] =>
            pc[r.by] \in {"chkr_write", "wait"} /\ req[r.by] = r /\ slot[n].is_blocked

AskInv ==
  /\ TypeOK
  /\ MutexInv
  /\ CallInv
  /\ NumberInv
  /\ QuestionInv
  /\ ReceiverInv
  /\ TableInv
  /\ OrderInv
  /\ AnswerInv
  /\ ReturnedIsHeld

----------------------------------------------------------------------------
\* What node n has executed of the requests of another owner o: the entries it
\* took that no ACK came after, in the order of the log.
FollowerExec(n, o) ==
  /\ \A i \in DOMAIN executed[n] : executed[n][i].req.owner = o =>
       LET k == executed[n][i].at
       IN /\ k \in 1 .. rpos[o][n] - 1
          /\ rlog[o][k + 1].msg = "PURE" /\ rlog[o][k].req = executed[n][i].req
  /\ \A k \in 1 .. rpos[o][n] - 1 : rlog[o][k + 1].msg = "PURE" =>
       \E i \in DOMAIN executed[n] :
         executed[n][i].req = rlog[o][k].req /\ executed[n][i].at = k
  /\ \A i, j \in DOMAIN executed[n] :
       executed[n][i].req.owner = o /\ executed[n][j].req.owner = o /\ i < j
         => executed[n][i].at < executed[n][j].at

\* and of its own: questions its receivers took and are done with, once each.
OwnerExec(n) ==
  /\ \A i \in DOMAIN executed[n] : executed[n][i].req.owner = n =>
       \E m \in Nodes \ {n} : \E k \in 1 .. cpos[m][n] :
         clog[m][k] = executed[n][i].req /\ (k = cpos[m][n] => pc[<<n, m>>] = "idle")
  /\ \A i, j \in DOMAIN executed[n] :
       executed[n][i].req.owner = n /\ executed[n][i].req = executed[n][j].req => i = j

ExecInv == \A n \in Nodes : OwnerExec(n) /\ \A o \in Nodes \ {n} : FollowerExec(n, o)

ProtocolInv == AskInv /\ ExecInv
=============================================================================
