------------------------------ MODULE Bootstrap ------------------------------
(***************************************************************************)
(* Start-up: rsdco_connector_init (src/rsdco_conn.cc) with                 *)
(* rsdco_heartbeat_init and _release (src/rsdco_heartbeat.cc), the hotel   *)
(* inits (src/rsdco_hotel.cc) and rsdco_spawn_receiver (src/rsdco_wrkr.cc),*)
(* in the order main calls them (src/tests/st-random.cc).  The nodes find  *)
(* each other over keys in memcached, wait for each other's keys, and      *)
(* delete their own.                                                       *)
(*                                                                         *)
(* A node is one thread that runs through its program, a sequence of       *)
(* loops over nodes; a step of a loop's body is an operation on a key or a *)
(* buffer, shared with the node the loop is at.  A fetch of a key waits    *)
(* until it is stored.  The calls into hartebeest are external and         *)
(* modelled from their use.                                                *)
(***************************************************************************)
EXTENDS Naturals, Sequences, FiniteSetsExt

CONSTANT N_NODES

ASSUME BootAssumption == N_NODES \in Nat \ {0, 1}

Nodes == 0 .. N_NODES - 1
Peers(n) == Nodes \ {n}

\* A step: what it does, and the end of a connection or the key it is about.
Step(op, what) == [op |-> op, what |-> what]

\* for (auto& nid: rsdco_sysvar_nids), in their order; or a step by itself.
For(whom, body) == [whom |-> whom, body |-> body]
Once(n, op, what) == For({n}, <<Step(op, what)>>)

\* The two ends of a connection.
Other == [replicator |-> "replayer", replayer |-> "replicator",
          checker |-> "receiver", receiver |-> "checker",
          actv |-> "pssv", pssv |-> "actv"]

----------------------------------------------------------------------------
(* The programs                                                            *)

\* The keys of one end; for a reader those of the buffer and the queue pair.
Offer(n, end) == For(Peers(n), <<Step("push", end)>>)
rsdco_writer_init(n, writer) == Offer(n, writer)
rsdco_receiver_init(n, reader) == Offer(n, reader)

\* Each end is connected once the keys of the other one are fetched.
Connect(n, end) == For(Peers(n), <<Step("connect", end)>>)
rsdco_writer_qp_connect(n, writer) == Connect(n, writer)
rsdco_receiver_qp_connect(n, reader) == Connect(n, reader)

\* Mutant: the key is stored again.
rdsco_memc_clean_Again(n, writer, reader) ==
  For(Peers(n), <<Step("del", writer), Step("push", writer)>>)

\* Mutant: the reader's keys are forgotten.
rdsco_memc_clean_Writer(n, writer, reader) ==
  For(Peers(n), <<Step("del", writer)>>)

rdsco_memc_clean(n, writer, reader) ==
  For(Peers(n), <<Step("del", writer), Step("del", reader)>>)

\* Mutant: a node waits for its own key only.
WaitForPeers_Itself(n, msg) == For({n}, <<Step("wait", msg)>>)

WaitForPeers(n, msg) == For(Peers(n), <<Step("wait", msg)>>)

\* rsdco_connector_init up to the heartbeat.
rsdco_connector_init(n) ==
  << rsdco_writer_init(n, "replicator"), rsdco_writer_init(n, "checker"),
     rsdco_receiver_init(n, "replayer"), rsdco_receiver_init(n, "receiver"),
     rsdco_writer_qp_connect(n, "replicator"), rsdco_writer_qp_connect(n, "checker"),
     rsdco_receiver_qp_connect(n, "replayer"), rsdco_receiver_qp_connect(n, "receiver"),
     Once(n, "push", "qp-connected"),
     WaitForPeers(n, "qp-connected"),
     rdsco_memc_clean(n, "replicator", "replayer"),
     rdsco_memc_clean(n, "checker", "receiver"),
     Once(n, "del", "qp-connected") >>

\* Mutant: the barrier waits for nobody.
HbBarrier_Nobody(n) ==
  << Once(n, "push", "hbqp-connected"), Once(n, "sleep", "hbqp-connected"),
     Once(n, "del", "hbqp-connected") >>

\* Every node waits for every key, its own included, and then sleeps.
HbBarrier(n) ==
  << Once(n, "push", "hbqp-connected"),
     For(Nodes, <<Step("wait", "hbqp-connected")>>),
     Once(n, "sleep", "hbqp-connected"), Once(n, "del", "hbqp-connected") >>

rsdco_heartbeat_qp_init(n) ==
  << For(Peers(n), <<Step("push", "actv"), Step("push", "pssv")>>),
     For(Peers(n), <<Step("wait", "hbstat-table"), Step("connect", "actv")>>),
     For(Peers(n), <<Step("connect", "pssv")>>) >>
  \o HbBarrier(n)
  \o << For(Peers(n), <<Step("del", "actv"), Step("del", "pssv")>>) >>

\* Mutant: the table is reset when the peers know it.
rsdco_heartbeat_init_ResetLast(n) ==
  << Once(n, "push", "hbstat-table") >>
  \o rsdco_heartbeat_qp_init(n)
  \o << Once(n, "reset", "pssv"), Once(n, "del", "hbstat-table") >>

rsdco_heartbeat_init(n) ==
  << Once(n, "reset", "pssv"), Once(n, "push", "hbstat-table") >>
  \o rsdco_heartbeat_qp_init(n)
  \o << Once(n, "del", "hbstat-table") >>

\* Nobody is dead yet: node 0 is the lowest alive.
rsdco_heartbeat_release(n) ==
  IF n = 0 THEN << For(Peers(n), <<Step("write", "actv")>>) >>
           ELSE << For({0}, <<Step("poll", "pssv")>>) >>

\* The first words of a hotel over those of its copy at each peer, with the
\* reader's cursor among them, and then the same of the other log.
rsdco_remote_writer_hotel_init(n) ==
  << For(Peers(n), <<Step("write", "replicator")>>),
     For(Peers(n), <<Step("write", "checker")>>) >>

\* Mutant: the second log is not waited for.
rsdco_remote_receiver_hotel_init_ReplayersOnly(n) ==
  << For(Peers(n), <<Step("poll", "replayer")>>) >>

rsdco_remote_receiver_hotel_init(n) ==
  << For(Peers(n), <<Step("poll", "replayer")>>),
     For(Peers(n), <<Step("poll", "receiver")>>) >>

rsdco_spawn_receiver(n) ==
  << For(Peers(n), <<Step("spawn", "replayer")>>),
     For(Peers(n), <<Step("spawn", "receiver")>>) >>

main(n) ==
  rsdco_connector_init(n)
  \o rsdco_heartbeat_init(n)
  \o rsdco_heartbeat_release(n)
  \o rsdco_remote_writer_hotel_init(n)
  \o rsdco_remote_receiver_hotel_init(n)
  \o rsdco_spawn_receiver(n)

Program == [n \in Nodes |-> main(n)]

----------------------------------------------------------------------------
VARIABLES
  loop,       \* the loop of its program each node is in
  todo,       \* the nodes that loop has not done with
  step,       \* the step of the loop's body
  memc,       \* the keys that are stored
  connected,  \* the ends that are connected
  written,    \* the buffers that hold what a peer wrote: <<writer's end, from, to>>
  reading,    \* the ends that are polled by a thread of their own
  deleted,    \* history: the keys that were deleted
  late        \* history: was a key deleted that some node had yet to wait for?

vars == <<loop, todo, step, memc, connected, written, reading, deleted, late>>

Whom(n, i) == IF i \in 1 .. Len(Program[n]) THEN Program[n][i].whom ELSE {}
Body(n, i) == Program[n][i].body

Init ==
  /\ loop = [n \in Nodes |-> 1]
  /\ todo = [n \in Nodes |-> Whom(n, 1)]
  /\ step = [n \in Nodes |-> 1]
  /\ memc = {} /\ connected = {} /\ written = {} /\ reading = {} /\ deleted = {}
  /\ late = FALSE

Done(n) == loop[n] > Len(Program[n])
This(n) == Body(n, loop[n])[step[n]]
At(n, op) == ~Done(n) /\ This(n).op = op

\* The node the loop is at.
Peer(n) == Min(todo[n])

\* To the next step, the next peer, or the next loop.
Advance(n) ==
  LET rest == todo[n] \ {Peer(n)}
  IN IF step[n] < Len(Body(n, loop[n]))
       THEN step' = [step EXCEPT ![n] = @ + 1] /\ UNCHANGED <<loop, todo>>
       ELSE /\ step' = [step EXCEPT ![n] = 1]
            /\ IF rest # {}
                 THEN todo' = [todo EXCEPT ![n] = rest] /\ UNCHANGED loop
                 ELSE /\ loop' = [loop EXCEPT ![n] = @ + 1]
                      /\ todo' = [todo EXCEPT ![n] = Whom(n, loop[n] + 1)]

\* Has n been through step k of its loop i with m?
Passed(n, i, k, m) ==
  \/ i < loop[n]
  \/ i = loop[n] /\ m \notin todo[n]
  \/ i = loop[n] /\ m = Peer(n) /\ k < step[n]

\* The key node n stores or deletes for m, and the one its step s needs of m.
OwnKey(n) == <<This(n).what, n, Peer(n)>>
Needs(n, s, m) ==
  IF s.op = "wait" THEN <<s.what, m, m>> ELSE <<Other[s.what], m, n>>
NeededKey(n) == Needs(n, This(n), Peer(n))

StillNeeds(n, key) ==
  \E i \in 1 .. Len(Program[n]) :
    \E m \in Whom(n, i), k \in 1 .. Len(Body(n, i)) :
      /\ Body(n, i)[k].op \in {"wait", "connect"}
      /\ Needs(n, Body(n, i)[k], m) = key
      /\ ~ Passed(n, i, k, m)

Push(n) ==
  /\ At(n, "push")
  /\ memc' = memc \cup {OwnKey(n)}
  /\ Advance(n)
  /\ UNCHANGED <<connected, written, reading, deleted, late>>

Fetch(n) ==
  /\ At(n, "connect")
  /\ NeededKey(n) \in memc
  /\ connected' = connected \cup {OwnKey(n)}
  /\ Advance(n)
  /\ UNCHANGED <<memc, written, reading, deleted, late>>

Wait(n) ==
  /\ At(n, "wait")
  /\ NeededKey(n) \in memc
  /\ Advance(n)
  /\ UNCHANGED <<memc, connected, written, reading, deleted, late>>

Del(n) ==
  LET key == OwnKey(n)
  IN /\ At(n, "del")
     /\ memc' = memc \ {key}
     /\ deleted' = deleted \cup {key}
     /\ late' = (late \/ \E m \in Nodes : StillNeeds(m, key))
     /\ Advance(n)
     /\ UNCHANGED <<connected, written, reading>>

\* sleep(3) gives every node the time to find the key.
Sleep(n) ==
  /\ At(n, "sleep")
  /\ \A m \in Nodes : ~StillNeeds(m, OwnKey(n))
  /\ Advance(n)
  /\ UNCHANGED <<memc, connected, written, reading, deleted, late>>

\* hbstat of n as rsdco_heartbeat_init leaves it: nobody has released it.
Reset(n) ==
  /\ At(n, "reset")
  /\ written' = {w \in written : ~(w[1] = "actv" /\ w[3] = n)}
  /\ Advance(n)
  /\ UNCHANGED <<memc, connected, reading, deleted, late>>

Write(n) ==
  /\ At(n, "write")
  /\ written' = written \cup {OwnKey(n)}
  /\ Advance(n)
  /\ UNCHANGED <<memc, connected, reading, deleted, late>>

Poll(n) ==
  /\ At(n, "poll")
  /\ NeededKey(n) \in written
  /\ Advance(n)
  /\ UNCHANGED <<memc, connected, written, reading, deleted, late>>

Spawn(n) ==
  /\ At(n, "spawn")
  /\ reading' = reading \cup {OwnKey(n)}
  /\ Advance(n)
  /\ UNCHANGED <<memc, connected, written, deleted, late>>

NodeStep(n) ==
  \/ Push(n) \/ Fetch(n) \/ Wait(n) \/ Del(n) \/ Sleep(n)
  \/ Reset(n) \/ Write(n) \/ Poll(n) \/ Spawn(n)

Next == \E n \in Nodes : NodeStep(n)

Spec == Init /\ [][Next]_vars

FairSpec == Spec /\ \A n \in Nodes : WF_vars(NodeStep(n))

----------------------------------------------------------------------------
\* Every variable has a value of its kind; nobody stores what was deleted.
TypeOK ==
  /\ loop \in [Nodes -> Nat \ {0}] /\ step \in [Nodes -> Nat \ {0}]
  /\ todo \in [Nodes -> SUBSET Nodes]
  /\ \A n \in Nodes :
       IF Done(n) THEN loop[n] = Len(Program[n]) + 1 /\ todo[n] = {}
                  ELSE todo[n] \in (SUBSET Whom(n, loop[n])) \ {{}}
                       /\ step[n] \in 1 .. Len(Body(n, loop[n]))
  /\ \A key \in memc \cup connected \cup written \cup reading \cup deleted :
       key[2] \in Nodes /\ key[3] \in Nodes
  /\ memc \cap deleted = {}
  /\ late \in BOOLEAN

\* A queue pair is written over only when both its ends are connected.
WritesLand ==
  \A n \in Nodes : At(n, "write") =>
    /\ OwnKey(n) \in connected
    /\ NeededKey(n) \in connected

\* "Clean up only pushed ones by this node" (conn.cc:173): what a node deletes,
\* no node has still to fetch, however slow that one is.
NoKeyMissed ==
  \A n \in Nodes :
    At(n, "connect") \/ (At(n, "wait") /\ This(n).what = "hbstat-table") =>
      NeededKey(n) \notin deleted

\* Nothing stays behind that a later run of the program would fetch.
NothingLeft == (\A n \in Nodes : Done(n)) => memc = {}

\* The write that starts a log puts the reader's cursor back, so it comes
\* before the thread that polls the log; and so it does for both logs.
NoReaderReset ==
  \A n \in Nodes : At(n, "write") => NeededKey(n) \notin reading

\* Every node gets through, unless a key was deleted before a node that waits
\* for it had looked: nothing but time prevents that at conn.cc:277.
StartsUp == <>(late \/ \A n \in Nodes : Done(n))
=============================================================================
