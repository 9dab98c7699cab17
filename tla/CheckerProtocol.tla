--------------------------- MODULE CheckerProtocol ---------------------------
(***************************************************************************)
(* rsdco_add_request on every node (src/rsdco_reqs.cc): a request for a    *)
(* key this node owns is replicated; one for another node's key is put as  *)
(* a question into this node's checker log, the owner replicates it as an  *)
(* ACK, and the ACK, coming back over the owner's replication log, ends    *)
(* the call.  The application threads, the receivers and the replayers of  *)
(* all nodes run concurrently (src/rsdco_wrkr.cc).                         *)
(*                                                                         *)
(* A log is the sequence of its entries; HotelLog models how its rooms are *)
(* written and polled.  No node dies; ViewGate and Heartbeat model that.   *)
(*                                                                         *)
(* Any threads may ask for the same key.  Its owner may then write one     *)
(* request for several, or one twice, and an ACK may end a call it is not  *)
(* for; some promises are for requests of keys with one writer only.  Of   *)
(* the owner's slots and hash table, which RequestToRpli models, there is  *)
(* what requests do to each other: the walk and the ready flags, one key   *)
(* in a bucket.  Their reset, which meets no request under way, is left    *)
(* out, and a caller leaves its buffer alone.                              *)
(***************************************************************************)
EXTENDS Naturals, Sequences, FiniteSets

CONSTANTS
  N_NODES,
  N_APPS,    \* application threads of each node
  Keys,      \* Keys[p]: the hashes of the keys thread p makes requests for;
             \* threads may have keys in common
  NoHash,
  MaxCalls   \* bound: calls made

Nodes == 0 .. N_NODES - 1

\* A thread is named by its node and a number: the receiver of n for the
\* checker log of m is <<n, m>>, the application threads come after those.
Apps == Nodes \X (N_NODES .. N_NODES + N_APPS - 1)
Receivers == {p \in Nodes \X Nodes : p[1] # p[2]}
Procs == Apps \cup Receivers

\* hashed stands for the key.
Hash == UNION {Keys[p] : p \in Apps}
rsdco_rule_balanced(hashed) == hashed % N_NODES

ASSUME CheckerAssumption ==
  /\ N_NODES \in Nat \ {0, 1}
  /\ N_APPS \in Nat
  /\ Keys \in [Apps -> SUBSET Nat]
  /\ NoHash \notin Hash
  /\ MaxCalls \in Nat

\* A call: the thread that makes it, which of its calls for the key it is, the
\* key, and the owner of that.
Request ==
  UNION {{[by |-> p, nth |-> k, hashed |-> h, owner |-> rsdco_rule_balanced(h)] :
            k \in 1 .. MaxCalls, h \in Keys[p]} : p \in Apps}
NoRequest == [nth |-> 0, hashed |-> NoHash, owner |-> 0]

\* No other thread of any node makes requests for the key.
Sole == {r \in Request : \A p \in Apps : r.hashed \in Keys[p] => p = r.by}

Entry == [req : Request, msg : {"PURE", "ACK"}]

\* A call of user_action: for which request, and at which place in its owner's
\* log that is; 0 if the owner's receiver made the call.
Execution == [req : Request, at : Nat]

VARIABLES
  rlog,       \* rlog[n]: the replication log n writes, its entries in order
  clog,       \* clog[n]: the checker log n writes
  rsent,      \* rsent[n][m]: entries of rlog[n] that are written to m
  csent,      \* the same for clog[n]
  rpos,       \* rpos[n][m]: entries of rlog[n] m's replayer has taken
  cpos,       \* the same for clog[n] and m's receiver
  inserted,   \* of each key, the requests in its owner's hash table, in order
  ready,      \* requests in an owner's hash table of which is_ready is set
  rpli_mtx,   \* of each node, taken or not
  chkr_mtx,
  slot,       \* the hash in chkr_reqs.slot[next_free_slot] and its is_blocked
  pc, req,    \* of each thread: where it is and the request it carries
  executed,   \* history: what user_action was called with on each node
  asked,      \* history: calls made
  returned    \* history: calls that have returned

logVars == <<rlog, clog, rsent, csent, rpos, cpos>>
tableVars == <<inserted, ready>>
mtxVars == <<rpli_mtx, chkr_mtx>>
callVars == <<asked, returned>>
vars == <<logVars, tableVars, mtxVars, callVars, slot, pc, req, executed>>

Counters == [Nodes -> [Nodes -> Nat]]
Zero == [n \in Nodes |-> [m \in Nodes |-> 0]]

Init ==
  /\ rlog = [n \in Nodes |-> << >>] /\ clog = [n \in Nodes |-> << >>]
  /\ rsent = Zero /\ csent = Zero
  /\ rpos = Zero /\ cpos = Zero
  /\ inserted = [h \in Hash |-> << >>] /\ ready = {}
  /\ rpli_mtx = [n \in Nodes |-> FALSE] /\ chkr_mtx = [n \in Nodes |-> FALSE]
  /\ slot = [n \in Nodes |-> [hashed |-> NoHash, is_blocked |-> FALSE]]
  /\ pc = [p \in Procs |-> "idle"]
  /\ req = [p \in Procs |-> NoRequest]
  /\ executed = [n \in Nodes |-> << >>]
  /\ asked = {} /\ returned = {}

Goto(p, label) == pc' = [pc EXCEPT ![p] = label]

\* A loop over the connections of n writes the last entry of a log to one
\* node after the other, in an order that makes no difference.
Behind(n, log, sent) == {m \in Nodes \ {n} : sent[n][m] < Len(log[n])}
NextConn(n, log, sent) == CHOOSE m \in Behind(n, log, sent) : TRUE
LastConn(n, log, sent) == Behind(n, log, sent) = {NextConn(n, log, sent)}

----------------------------------------------------------------------------
(* An application thread calls rsdco_add_request.                          *)

\* rsdco_request_to_rpli up to the mutex: a slot is filled and becomes the newest
\* of its key.
Insert(r) ==
  /\ inserted' = [inserted EXCEPT ![r.hashed] = Append(@, r)]
  /\ ready' = ready \cup {r}

\* For a key of its own node the thread goes on to the mutex; nothing it does
\* before that but the insertion can be seen by others.
Call(p) ==
  /\ pc[p] = "idle"
  /\ Cardinality(asked) < MaxCalls
  /\ \E hashed \in Keys[p] :
       LET earlier == {q \in asked : q.by = p /\ q.hashed = hashed}
           r == [by |-> p, nth |-> Cardinality(earlier) + 1, hashed |-> hashed,
                 owner |-> rsdco_rule_balanced(hashed)]
       IN /\ req' = [req EXCEPT ![p] = r]
          /\ asked' = asked \cup {r}
          /\ IF r.owner = p[1] THEN Insert(r) /\ Goto(p, "rpli")
                               ELSE UNCHANGED tableVars /\ Goto(p, "chkr")
  /\ UNCHANGED <<logVars, mtxVars, slot, executed, returned>>

Return(p) ==
  /\ returned' = returned \cup {req[p]}
  /\ Goto(p, "idle")

----------------------------------------------------------------------------
(* rsdco_request_to_rpli: under the mutex, the entry goes to every node.   *)

\* What a receiver has replicated answers the question.
Reply_Pure == "PURE"
Reply == "ACK"

\* The walk starts at the thread's own slot and ends at the newest of the key.
Walked(r) ==
  LET line == inserted[r.hashed]
  IN {line[j] : j \in {j \in DOMAIN line : \E i \in 1 .. j : line[i] = r}}
Newest(r) == inserted[r.hashed][Len(inserted[r.hashed])]

\* What is written is the newest request, whoever made it and whether or not it
\* was written before, with the message type of the thread that writes it.
RpliLock(p) ==
  /\ pc[p] = "rpli"
  /\ ~rpli_mtx[p[1]]
  /\ req[p] \in ready
  /\ rpli_mtx' = [rpli_mtx EXCEPT ![p[1]] = TRUE]
  /\ ready' = ready \ Walked(req[p])
  /\ rlog' = [rlog EXCEPT ![p[1]] =
       Append(@, [req |-> Newest(req[p]), msg |-> IF p \in Apps THEN "PURE" ELSE Reply])]
  /\ Goto(p, "rpli_write")
  /\ UNCHANGED <<clog, rsent, csent, rpos, cpos, inserted, chkr_mtx, slot, req,
                 executed, callVars>>

\* rsdco_request_to_rpli returns.
Processed(p) ==
  \/ p \in Apps /\ Return(p)
  \/ p \in Receivers /\ Goto(p, "apply") /\ UNCHANGED returned

\* Another thread's walk came past this one's slot: there is nothing to write.
RpliSkip(p) ==
  /\ pc[p] = "rpli"
  /\ ~rpli_mtx[p[1]]
  /\ req[p] \notin ready
  /\ Processed(p)
  /\ UNCHANGED <<logVars, tableVars, mtxVars, slot, req, executed, asked>>

RpliWrite(p) ==
  LET n == p[1]
      m == NextConn(n, rlog, rsent)
      last == LastConn(n, rlog, rsent)
  IN /\ pc[p] = "rpli_write"
     /\ rsent' = [rsent EXCEPT ![n][m] = @ + 1]
     /\ rpli_mtx' = [rpli_mtx EXCEPT ![n] = ~last]
     /\ \/ ~last /\ UNCHANGED <<pc, returned>>
        \/ last /\ Processed(p)
     /\ UNCHANGED <<rlog, clog, csent, rpos, cpos, tableVars, chkr_mtx, slot, req,
                    executed, asked>>

----------------------------------------------------------------------------
(* rsdco_request_to_chkr: one question of a node at a time.                *)

ChkrLock(p) ==
  LET n == p[1]
  IN /\ pc[p] = "chkr"
     /\ ~chkr_mtx[n]
     /\ chkr_mtx' = [chkr_mtx EXCEPT ![n] = TRUE]
     /\ slot' = [slot EXCEPT ![n] = [hashed |-> req[p].hashed, is_blocked |-> TRUE]]
     /\ clog' = [clog EXCEPT ![n] = Append(@, req[p])]
     /\ Goto(p, "chkr_write")
     /\ UNCHANGED <<rlog, rsent, csent, rpos, cpos, tableVars, rpli_mtx, req, executed,
                    callVars>>

\* The owner gets the question, every other node the header only.
ChkrWrite(p) ==
  LET n == p[1]
  IN /\ pc[p] = "chkr_write"
     /\ csent' = [csent EXCEPT ![n][NextConn(n, clog, csent)] = @ + 1]
     /\ Goto(p, IF LastConn(n, clog, csent) THEN "wait" ELSE "chkr_write")
     /\ UNCHANGED <<rlog, clog, rsent, rpos, cpos, tableVars, mtxVars, slot, req,
                    executed, callVars>>

\* The loop ends, and next_free_slot is the next slot, which nobody used yet.
ChkrReturn(p) ==
  /\ pc[p] = "wait"
  /\ ~slot[p[1]].is_blocked
  /\ slot' = [slot EXCEPT ![p[1]] = [hashed |-> NoHash, is_blocked |-> FALSE]]
  /\ chkr_mtx' = [chkr_mtx EXCEPT ![p[1]] = FALSE]
  /\ Return(p)
  /\ UNCHANGED <<logVars, tableVars, rpli_mtx, req, executed, asked>>

----------------------------------------------------------------------------
(* rsdco_detect_poll with rsdco_detect_action_rcvr and _rply.              *)

Execute(n, r, at) ==
  executed' = [executed EXCEPT ![n] = Append(@, [req |-> r, at |-> at])]

IsQuestion_Any(n, r) == TRUE

\* RSDCO_HDR_ONLY is in what a node gets that is not the owner.
IsQuestion(n, r) == r.owner = n

\* The receiver takes an entry of the checker log; a question it is to replicate.
Receive(p) ==
  LET n == p[1]
      m == p[2]
      r == clog[m][cpos[m][n] + 1]
  IN /\ pc[p] = "idle"
     /\ cpos[m][n] < csent[m][n]
     /\ cpos' = [cpos EXCEPT ![m][n] = @ + 1]
     /\ IF IsQuestion(n, r)
          THEN req' = [req EXCEPT ![p] = r] /\ Insert(r) /\ Goto(p, "rpli")
          ELSE UNCHANGED <<req, tableVars, pc>>
     /\ UNCHANGED <<rlog, clog, rsent, csent, rpos, mtxVars, slot, executed, callVars>>

\* It hands the question to user_action, whether or not it wrote it.
Apply(p) ==
  /\ pc[p] = "apply"
  /\ Execute(p[1], req[p], 0)
  /\ Goto(p, "idle")
  /\ UNCHANGED <<logVars, tableVars, mtxVars, slot, req, callVars>>

IsMine_Always(n, entry) == TRUE

\* The hash alone says whose ACK it is.
IsMine(n, entry) == entry.req.hashed = slot[n].hashed

Arrived_Early(k, n, m) == k <= Len(rlog[m])

\* The proposal and the canary are those of entry k.
Arrived(k, n, m) == k <= rsent[m][n]

\* As if the return stood inside the if of reqs.cc:530.
Replay_FallsThrough(n, m) ==
  LET k == rpos[m][n] + 1
      entry == rlog[m][k]
  IN /\ Arrived(k, n, m)
     /\ rpos' = [rpos EXCEPT ![m][n] = k]
     /\ IF entry.msg = "ACK" /\ IsMine(n, entry)
          THEN slot' = [slot EXCEPT ![n].is_blocked = FALSE] /\ UNCHANGED executed
          ELSE /\ IF k > 1 THEN Execute(n, rlog[m][k - 1].req, k - 1) ELSE UNCHANGED executed
               /\ UNCHANGED slot
     /\ UNCHANGED <<rlog, clog, rsent, csent, cpos, tableVars, mtxVars, pc, req, callVars>>

\* The replayer takes an entry of the replication log.  An ACK may end this
\* node's question and is all there is to do; at any other entry the one
\* before it, whatever that was, goes to user_action.
Replay(n, m) ==
  LET k == rpos[m][n] + 1
      entry == rlog[m][k]
  IN /\ Arrived(k, n, m)
     /\ rpos' = [rpos EXCEPT ![m][n] = k]
     /\ IF entry.msg = "ACK"
          THEN /\ slot' = IF IsMine(n, entry) THEN [slot EXCEPT ![n].is_blocked = FALSE]
                          ELSE slot
               /\ UNCHANGED executed
          ELSE /\ IF k > 1 THEN Execute(n, rlog[m][k - 1].req, k - 1) ELSE UNCHANGED executed
               /\ UNCHANGED slot
     /\ UNCHANGED <<rlog, clog, rsent, csent, cpos, tableVars, mtxVars, pc, req, callVars>>

----------------------------------------------------------------------------
RpliStep(p) == RpliLock(p) \/ RpliSkip(p) \/ RpliWrite(p)
AppStep(p) == RpliStep(p) \/ ChkrLock(p) \/ ChkrWrite(p) \/ ChkrReturn(p)
ReceiverStep(p) == RpliStep(p) \/ Receive(p) \/ Apply(p)

Run ==
  \/ \E p \in Apps : AppStep(p)
  \/ \E p \in Receivers : ReceiverStep(p) \/ Replay(p[1], p[2])

Next == Run \/ \E p \in Apps : Call(p)

Spec == Init /\ [][Next]_vars

\* As long as a thread can take a step, one does; whether a call is made is
\* open.  There are finitely many calls and no thread goes round a loop in
\* vain, so that fairness to each thread would say no more.
FairSpec == Spec /\ WF_vars(Run)

----------------------------------------------------------------------------
\* Every variable has a value of its kind, and no position is past what it
\* counts: a loop never writes an entry the log has not got, and a reader
\* never takes one that was not written to it.
TypeOK ==
  /\ rlog \in [Nodes -> Seq(Entry)]
  /\ clog \in [Nodes -> Seq(Request)]
  /\ executed \in [Nodes -> Seq(Execution)]
  /\ inserted \in [Hash -> Seq(Request)] /\ ready \subseteq Request
  /\ rsent \in Counters /\ csent \in Counters
  /\ rpos \in Counters /\ cpos \in Counters
  /\ \A n \in Nodes : \A m \in Nodes \ {n} :
       /\ rpos[n][m] <= rsent[n][m] /\ rsent[n][m] <= Len(rlog[n])
       /\ cpos[n][m] <= csent[n][m] /\ csent[n][m] <= Len(clog[n])
  /\ rpli_mtx \in [Nodes -> BOOLEAN] /\ chkr_mtx \in [Nodes -> BOOLEAN]
  /\ slot \in [Nodes -> [hashed : Hash \cup {NoHash}, is_blocked : BOOLEAN]]
  /\ pc \in [Procs -> {"idle", "rpli", "rpli_write", "apply", "chkr",
                       "chkr_write", "wait"}]
  /\ req \in [Procs -> Request \cup {NoRequest}]
  /\ asked \subseteq Request /\ returned \subseteq asked

Ordered(n) == [i \in DOMAIN rlog[n] |-> rlog[n][i].req]

\* Sole requests are dealt with as Ordering promises: the owner orders the request
\* once, and the call returns only after that, although requests for shared keys
\* go through the same mutexes, slots and logs and an ACK carries the hash and no
\* more (reqs.cc:530).  For a shared key there is no such promise: the ACK of one
\* call ends the other (530), and a request may be left out or written twice
\* (303-335).
OwnerOrders == INSTANCE Ordering WITH order <- [n \in Nodes |-> Ordered(n)]
KeepsPromise == OwnerOrders!Spec

\* What the caller may rely on when rsdco_add_request returns, if no other thread
\* makes requests for its key: the entry is at every node if this node owns the
\* key, and at this node if another one does.  With a second writer of the key it
\* may be nowhere.
ReturnedIsHeld ==
  \A r \in returned \cap Sole : \A m \in Nodes \ {r.owner} :
    r.by[1] \in {r.owner, m} => \E i \in 1 .. rsent[r.owner][m] : rlog[r.owner][i].req = r

\* user_action is called for a request once on a node at most, by its receiver on
\* the owner and by a replayer on the others.  A follower may call it again for a
\* request of a key others ask for too, which the owner may have written twice.
ExecutedOnce ==
  \A n \in Nodes : \A i, j \in DOMAIN executed[n] :
    /\ executed[n][i].req = executed[n][j].req
    /\ executed[n][i].req \in Sole \/ executed[n][i].req.owner = n
    => i = j

\* The followers of an owner execute its requests alike, whoever asks for their
\* keys: what one has executed begins with what the other one has, or the other
\* way round.  So of two of its requests, executed by one follower each, one came
\* first at both of them.
SameExecution ==
  \A o \in Nodes : \A n, m \in Nodes \ {o} :
    \A i \in DOMAIN executed[n], j \in DOMAIN executed[m] :
      /\ executed[n][i].req.owner = o /\ executed[m][j].req.owner = o
      /\ executed[n][i].req # executed[m][j].req
      => \/ \E k \in 1 .. j - 1 : executed[m][k].req = executed[n][i].req
         \/ \E k \in 1 .. i - 1 : executed[n][k].req = executed[m][j].req

\* No thread of an owner asks for a key that other nodes ask for.
OwnersAskAlone ==
  \A p, q \in Apps : \A hashed \in Keys[p] \cap Keys[q] :
    rsdco_rule_balanced(hashed) = p[1] => q[1] = p[1]

\* Every call returns, so that there always is a later moment with none under
\* way: neither the two mutexes of the nodes, which wait for receivers of other
\* nodes, nor ACKs that come in any order, for questions that were absorbed or
\* written twice, leave one waiting.  Without the premise a thread of the owner may
\* absorb a question; it writes no ACK for it (reqs.cc:335), and that call waits on.
CallsReturn == OwnersAskAlone => []<>(\A p \in Apps : pc[p] = "idle")

\* The replayer hands the entry before the one it takes to user_action ("For
\* replay, previous header room are passed here.", reqs.cc:519; a follower has
\* no other way to execute a request).  Before an ACK it does not.
PreviousIsReplayed ==
  \A n, m \in Nodes : \A i \in 1 .. rpos[m][n] - 1 :
    \E j \in DOMAIN executed[n] : executed[n][j].req = rlog[m][i].req
=============================================================================
