------------------------------- MODULE RcCraq -------------------------------
(***************************************************************************)
(* The chain replication baseline (experiments/rc-craq/rc_craq.cc): three  *)
(* nodes start up over a key-value store, node 0 proposes, and every node  *)
(* after it polls its ring, forwards the entry, waits for the next node's  *)
(* ACK and sends its own back.                                             *)
(*                                                                         *)
(* The rooms of an entry (all have one length here) are a position of the  *)
(* ring.  An RDMA write lands from its lowest address on: first the header,*)
(* which is one word, then the payload, then the canary behind it.         *)
(* The calls into hartebeest are external and modelled from their use.     *)
(***************************************************************************)
EXTENDS Naturals, Sequences

CONSTANTS
  Threads,    \* replicate_func on node 0
  NoThread,
  Ring,       \* positions of the ring
  Proposals,  \* values of the uint8_t header->proposal
  MaxCalls    \* bound: calls of rcraq_propose

ASSUME CraqAssumption ==
  /\ NoThread \notin Threads
  /\ Ring \in Nat \ {0, 1}
  /\ Proposals \in Nat /\ Proposals > 3
  /\ MaxCalls \in Nat

HEAD == 0
TAIL == 2
Nodes == HEAD .. TAIL
Waiters == Nodes \ {HEAD}
Position == 0 .. Ring - 1
Nothing == 0   \* what a room holds that nobody wrote
MAGIC == 3

VARIABLES
  memc,         \* the nodes whose buffer and queue pair keys are stored
  done,         \* the nodes whose "qp-connected" key is stored
  seen,         \* the keys each node's wait loop has found
  reserved,     \* hotel->reserved[0] and [1] of each node
  hdr,          \* of each node and position, header->proposal and ->message
  payload, canary,
  next_room_free,
  local_proposal,
  cur,          \* header_room: the position a node's entry is at
  pc,           \* where each node is; of the head, what propose_lock covers
  propose_lock,
  calls,        \* history: proposed entries are 1 .. calls
  taken,        \* history: what each waiter has detected
  returned      \* history: what rcraq_propose has returned for

startVars == <<memc, done, seen>>
ringVars == <<hdr, payload, canary>>
placeVars == <<next_room_free, local_proposal, cur>>
history == <<calls, taken, returned>>
vars == <<startVars, reserved, ringVars, placeVars, pc, propose_lock, history>>

Init ==
  /\ memc = {} /\ done = {}
  /\ seen = [n \in Nodes |-> {}]
  /\ reserved = [n \in Nodes |-> <<0, 0>>]
  /\ hdr = [n \in Nodes |-> [i \in Position |-> [proposal |-> 0, message |-> 0]]]
  /\ payload = [n \in Nodes |-> [i \in Position |-> Nothing]]
  /\ canary = [n \in Nodes |-> [i \in Position |-> FALSE]]
  /\ next_room_free = [n \in Nodes |-> 0]
  /\ local_proposal = [n \in Nodes |-> 0]
  /\ cur = [n \in Nodes |-> 0]
  /\ pc = [n \in Nodes |-> "push"]
  /\ propose_lock = NoThread
  /\ calls = 0
  /\ taken = [n \in Nodes |-> << >>]
  /\ returned = << >>

From(n, here, there) == pc[n] = here /\ pc' = [pc EXCEPT ![n] = there]

----------------------------------------------------------------------------
(* Start-up.                                                               *)

startUp == <<ringVars, local_proposal, cur, propose_lock, history>>

\* alloc_register_resource, get_remote_resource, connect_to_from.
Push(n) ==
  /\ From(n, "push", "connect")
  /\ memc' = memc \cup {n}
  /\ UNCHANGED <<done, seen, reserved, next_room_free, startUp>>

\* wait_for_others is entered with the own queue pairs connected.
Connect(n) ==
  /\ memc = Nodes
  /\ From(n, "connect", "wait")
  /\ done' = done \cup {n}
  /\ UNCHANGED <<memc, seen, reserved, next_room_free, startUp>>

WaitGeneral(n) ==
  /\ pc[n] = "wait"
  /\ \E m \in done \ seen[n] :
       /\ \A k \in Nodes \ seen[n] : m <= k
       /\ seen' = [seen EXCEPT ![n] = @ \cup {m}]
  /\ pc' = [pc EXCEPT ![n] = IF seen'[n] = Nodes THEN "sleep10" ELSE "wait"]
  /\ UNCHANGED <<memc, done, reserved, next_room_free, startUp>>

Slept3_NotAtAll(n) == TRUE

\* sleep(10) gives every node the time to find this node's key, and the
\* sleep(3) before magic_test gives every node the time to get to it.
Slept10(n) == \A m \in Nodes : n \in seen[m]
Slept3(n) == \A m \in Nodes : pc[m] \notin {"push", "connect", "wait", "sleep10", "init"}

DelGeneral(n) ==
  /\ Slept10(n)
  /\ From(n, "sleep10", "init")
  /\ memc' = memc \ {n}
  /\ done' = done \ {n}
  /\ UNCHANGED <<seen, reserved, next_room_free, startUp>>

local_hotel_init(n) ==
  /\ From(n, "init", "magic")
  /\ reserved' = [reserved EXCEPT ![n] = <<0, 0>>]
  /\ next_room_free' = [next_room_free EXCEPT ![n] = 0]
  /\ UNCHANGED <<startVars, startUp>>

----------------------------------------------------------------------------
(* magic_test.  The value it leaves in reserved[1] of every node is also   *)
(* the first proposal: rcraq_propose and rcraq_wait start from it.         *)

\* Node n sets its own reserved[i] and writes it to the node before it.
SendMagic(n, i) ==
  reserved' = [reserved EXCEPT ![n][i] = MAGIC, ![n - 1][i] = MAGIC]

Magic0(n) ==
  /\ n = HEAD
  /\ reserved[n] = <<MAGIC, MAGIC>>
  /\ From(n, "magic", "propose")
  /\ UNCHANGED <<reserved, local_proposal>>

Magic1Send(n) ==
  /\ n = 1
  /\ Slept3(n)
  /\ From(n, "magic", "magic_wait")
  /\ SendMagic(n, 1)
  /\ UNCHANGED local_proposal

Magic1Forward(n) ==
  /\ n = 1
  /\ reserved[n][2] = MAGIC
  /\ From(n, "magic_wait", "listen")
  /\ SendMagic(n, 2)
  /\ local_proposal' = [local_proposal EXCEPT ![n] = MAGIC]

Magic2(n) ==
  /\ n = TAIL
  /\ Slept3(n)
  /\ From(n, "magic", "listen")
  /\ SendMagic(n, 2)
  /\ local_proposal' = [local_proposal EXCEPT ![n] = MAGIC]

magic_test(n) ==
  /\ \/ Magic0(n) \/ Magic1Send(n) \/ Magic1Forward(n) \/ Magic2(n)
  /\ UNCHANGED <<startVars, ringVars, next_room_free, cur, propose_lock, history>>

----------------------------------------------------------------------------
(* An entry goes to the next node: its header, its payload, its canary.    *)

Written == <<startVars, reserved, placeVars, propose_lock, history>>

PostHeader(n) ==
  /\ From(n, "post", "post_payload")
  /\ hdr' = [hdr EXCEPT ![n + 1][cur[n]] = hdr[n][cur[n]]]
  /\ UNCHANGED <<payload, canary, Written>>

PostPayload(n) ==
  /\ From(n, "post_payload", "post_canary")
  /\ payload' = [payload EXCEPT ![n + 1][cur[n]] = payload[n][cur[n]]]
  /\ UNCHANGED <<hdr, canary, Written>>

PostCanary(n) ==
  /\ From(n, "post_canary", "ack_wait")
  /\ canary' = [canary EXCEPT ![n + 1][cur[n]] = canary[n][cur[n]]]
  /\ UNCHANGED <<hdr, payload, Written>>

post_single_fast(n) == PostHeader(n) \/ PostPayload(n) \/ PostCanary(n)

Acked(n) == hdr[n][cur[n]].message = 0

\* rsdco_next_free_room, entry by entry.
Following_NoWrap(i) == i + 1
Following(i) == (i + 1) % Ring

----------------------------------------------------------------------------
(* rcraq_propose                                                           *)

Propose(t) ==
  LET i == next_room_free[HEAD]
  IN /\ calls < MaxCalls
     /\ propose_lock = NoThread
     /\ From(HEAD, "propose", "post")
     /\ propose_lock' = t
     /\ calls' = calls + 1
     /\ hdr' = [hdr EXCEPT ![HEAD][i] = [proposal |-> reserved[HEAD][2] % Proposals,
                                         message |-> 2]]
     /\ payload' = [payload EXCEPT ![HEAD][i] = calls']
     /\ canary' = [canary EXCEPT ![HEAD][i] = TRUE]
     /\ cur' = [cur EXCEPT ![HEAD] = i]
     /\ next_room_free' = [next_room_free EXCEPT ![HEAD] = Following(i)]
     /\ UNCHANGED <<startVars, reserved, local_proposal, taken, returned>>

Proposed ==
  /\ Acked(HEAD)
  /\ From(HEAD, "ack_wait", "propose")
  /\ reserved' = [reserved EXCEPT ![HEAD][2] = @ + 1]
  /\ propose_lock' = NoThread
  /\ returned' = Append(returned, payload[HEAD][cur[HEAD]])
  /\ UNCHANGED <<startVars, ringVars, placeVars, calls, taken>>

----------------------------------------------------------------------------
(* rcraq_wait                                                              *)

Arrived_NoCanary(n, i) == hdr[n][i].proposal = local_proposal[n]
Arrived(n, i) == hdr[n][i].proposal = local_proposal[n] /\ canary[n][i]

Detect(n) ==
  LET i == next_room_free[n]
  IN /\ Arrived(n, i)
     /\ From(n, "listen", IF n = TAIL THEN "ack" ELSE "post")
     /\ cur' = [cur EXCEPT ![n] = i]
     /\ next_room_free' = [next_room_free EXCEPT ![n] = Following(i)]
     /\ local_proposal' = [local_proposal EXCEPT ![n] = (hdr[n][i].proposal + 1) % Proposals]
     /\ taken' = [taken EXCEPT ![n] = Append(@, payload[n][i])]
     /\ UNCHANGED <<startVars, reserved, ringVars, propose_lock, calls, returned>>

AckWait_NotAtAll(n) ==
  /\ From(n, "ack_wait", "ack")
  /\ UNCHANGED <<ringVars, Written>>

AckWait(n) ==
  /\ Acked(n)
  /\ From(n, "ack_wait", "ack")
  /\ UNCHANGED <<ringVars, Written>>

Ack(n) ==
  /\ From(n, "ack", "clear")
  /\ hdr' = [hdr EXCEPT ![n][cur[n]].message = 0, ![n - 1][cur[n]].message = 0]
  /\ UNCHANGED <<payload, canary, Written>>

\* As if the address were taken from next_room_free again.
ClearCanary_Next(n) ==
  /\ From(n, "clear", "listen")
  /\ canary' = [canary EXCEPT ![n][next_room_free[n]] = FALSE]
  /\ UNCHANGED <<hdr, payload, Written>>

\* The canary goes last, when the head may have posted the next entry.
ClearCanary(n) ==
  /\ From(n, "clear", "listen")
  /\ canary' = [canary EXCEPT ![n][cur[n]] = FALSE]
  /\ UNCHANGED <<hdr, payload, Written>>

rcraq_wait(n) == Detect(n) \/ AckWait(n) \/ Ack(n) \/ ClearCanary(n)

----------------------------------------------------------------------------
StartUp(n) ==
  \/ Push(n) \/ Connect(n) \/ WaitGeneral(n) \/ DelGeneral(n)
  \/ local_hotel_init(n) \/ magic_test(n)

NodeStep(n) ==
  \/ StartUp(n)
  \/ post_single_fast(n)
  \/ n = HEAD /\ Proposed
  \/ n \in Waiters /\ rcraq_wait(n)

Next == (\E n \in Nodes : NodeStep(n)) \/ (\E t \in Threads : Propose(t))

Spec == Init /\ [][Next]_vars

\* Every node runs; that a proposer gets the lock is not needed.
FairSpec == Spec /\ \A n \in Nodes : WF_vars(NodeStep(n))

----------------------------------------------------------------------------
Booting == {"push", "connect", "wait", "sleep10", "init", "magic", "magic_wait"}

\* A node that has an entry posts it, awaits the next node's ACK, and sends its own.
Posting == {"post", "post_payload", "post_canary"}
Sending == Posting \cup {"ack_wait"}
Holding == Sending \cup {"ack"}

\* Every variable has a value of its kind.
TypeOK ==
  /\ memc \subseteq Nodes /\ done \subseteq Nodes
  /\ seen \in [Nodes -> SUBSET Nodes]
  /\ reserved \in [Nodes -> {0, MAGIC} \X (0 .. MAGIC + MaxCalls)]
  /\ hdr \in [Nodes -> [Position -> [proposal : 0 .. Proposals - 1, message : {0, 2}]]]
  /\ payload \in [Nodes -> [Position -> 0 .. MaxCalls]]
  /\ canary \in [Nodes -> [Position -> BOOLEAN]]
  /\ next_room_free \in [Nodes -> Position]
  /\ local_proposal \in [Nodes -> 0 .. Proposals - 1]
  /\ cur \in [Nodes -> Position]
  /\ pc \in [Nodes -> Booting \cup Holding \cup {"propose", "listen", "clear"}]
  /\ propose_lock \in Threads \cup {NoThread}
  /\ calls \in 0 .. MaxCalls
  /\ taken \in [Nodes -> Seq(0 .. MaxCalls)] /\ returned \in Seq(0 .. MaxCalls)

\* How many entries a node has got, and whether the next one lacks the last.
Got(n) == IF n = HEAD THEN calls ELSE Len(taken[n])
Behind(n) == Got(n + 1) # Got(n)

\* The magic values come up the chain: who has one is preceded by nodes that
\* are ready for entries.
BootInv ==
  /\ pc[HEAD] \in Booting \cup Sending \cup {"propose"}
  /\ pc[1] \in Booting \cup Holding \cup {"listen", "clear"}
  /\ pc[TAIL] \in Booting \cup {"listen", "ack", "clear"}
  /\ reserved[1][2] # 0 \/ pc[1] \notin Booting => pc[TAIL] \notin Booting
  /\ reserved[HEAD][2] # 0 \/ pc[HEAD] \notin Booting => pc[1] \notin Booting
  /\ reserved[HEAD][2] <= MAGIC + Len(returned)
  /\ pc[HEAD] \in Booting => calls = 0

\* Between a node and the next one there is one entry at most: it is written
\* part by part, the canary last, then taken, then acknowledged.
Link(n) ==
  /\ pc[n] \in Posting => Behind(n)
  /\ pc[n] \notin Sending => ~Behind(n) /\ pc[n + 1] \notin Holding
  /\ Behind(n) =>
       /\ Got(n) = Got(n + 1) + 1
       /\ pc[n + 1] \in {"listen", "clear"}
       /\ hdr[n][cur[n]].message = 2
       /\ pc[n] # "post" => hdr[n + 1][cur[n]].message = 2
       /\ pc[n] \in {"post_canary", "ack_wait"} => payload[n + 1][cur[n]] = Got(n)
  /\ pc[n + 1] \in Holding => cur[n + 1] = cur[n] /\ hdr[n][cur[n]].message = 2
  /\ \A i \in Position : canary[n + 1][i] =>
       \/ i = cur[n + 1] /\ pc[n + 1] \in Holding \cup {"clear"}
       \/ i = cur[n] /\ pc[n] = "ack_wait" /\ Behind(n)

\* Nodes take and calls return entry after entry.
HistoryInv ==
  /\ \A n \in Nodes : pc[n] \in Holding => payload[n][cur[n]] = Got(n)
  /\ \A n \in Waiters : \A i \in DOMAIN taken[n] : taken[n][i] = i
  /\ \A i \in DOMAIN returned : returned[i] = i
  /\ calls = Len(returned) + (IF pc[HEAD] \in Sending THEN 1 ELSE 0)

\* The chain works entry by entry: nodes get ready from the tail up, between two
\* neighbours one entry is under way, and what a node has taken it has whole.
ChainInv == TypeOK /\ BootInv /\ HistoryInv /\ \A n \in Nodes \ {TAIL} : Link(n)

\* A call that has returned is, whole and at its place, at every node: the ACK
\* comes from the tail and is passed on only after the own one came.
ReturnedIsEverywhere ==
  \A i \in DOMAIN returned, n \in Waiters :
    /\ returned[i] = i
    /\ i \in DOMAIN taken[n] /\ taken[n][i] = i

\* Towards every node the chain is an ordered log of what node 0 proposed.
Proposed1ToN == [i \in 1 .. calls |-> i]
MiddleLog == INSTANCE OrderedLog WITH
  Entry <- 1 .. MaxCalls, written <- Proposed1ToN, taken <- taken[1]
TailLog == INSTANCE OrderedLog WITH
  Entry <- 1 .. MaxCalls, written <- Proposed1ToN, taken <- taken[TAIL]
ChainIsLog == MiddleLog!Spec /\ TailLog!Spec

\* The nodes get through their start-up: the keys they wait for are not deleted
\* before they were seen, and no magic value is wiped by local_hotel_init.
StartsUp == <>(pc[HEAD] = "propose")

\* rcraq_propose returns: no node waits for an ACK that was sent already, and
\* clearing the canary late never wipes the next entry.
ProposeReturns == pc[HEAD] = "post" ~> pc[HEAD] = "propose"
=============================================================================
