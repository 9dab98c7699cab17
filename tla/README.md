# Formal models of rsdco

rsdco is a library that orders and replicates updates of an application (the
repository patches memcached and redis to call it). Every node owns a part of
the keys. A request for a key the node owns is written by RDMA into the log of
every other node; a request for another node's key is first sent to its owner,
who replicates it and acknowledges. This directory holds TLA+ models of the
library, the TLC configurations that check them on small instances, and
theorems checked by TLAPS.

`PROJECT.json` lists components, runs, mutants, the source lines each definition
stands for, the hazards of the code and the theorems.

## 1. Inventory

| Component | Source | State | Operations | Talks to |
|---|---|---|---|---|
| Replication queue | `rsdco_reqs.cc` 276-358, `rsdco_reqs.h` | `rpli_reqs` (512 slots, `next_free_slot`, `procd`), propose mutex | claim, fill, insert, lock, walk, write, reset | hash table, log writer, `on_configure` gate |
| Dependency checker | `hashtable.cc`, `hashtable.hh` | buckets of marked `next_slot` links through the slots | search, insert, switch, reset all | called by `rsdco_try_insert`, links read by the walk |
| Log (`MemoryHotel`) | `rsdco_hotel.cc`, `rsdco_reqs.cc` 91-144, 457-514 | rooms, `next_room_free`, proposal counter, canary | copy and RDMA write, poll, wrap | writer on one node, one polling thread per peer |
| Checker requests | `rsdco_reqs.cc` 237-273, 360-455, 517-556 | `chkr_reqs`, its mutex, `is_blocked` | ask owner, wait, ACK, re-send after a view change | log of the owner, replication queue of the owner, replayer thread |
| Heartbeat | `rsdco_heartbeat.cc` | `hbstat` (scores, alive flags, view, msg), `rsdco_on_configure` | tick, suspect, remove connections, release handshake | proposers (gate), node list of the rule |
| Connector | `rsdco_conn.cc` | queue pairs and memory regions, keys in memcached | exchange, barriers | every other node |
| Workers, entry points, rule | `rsdco_wrkr.cc`, `rsdco.cc`, `rsdco_rule.cc` | threads | start-up, `key % nodes` | all |
| Chain baseline | `experiments/rc-craq/rc_craq.cc` | its own copies of queue and log | propose, forward, wait for back-propagation | independent of the library |

What is hard in this code:

* Concurrency in one process: application threads, receiver workers (one per
  peer), replayer workers (one per peer) and the heartbeat tracker share the
  slots, the lock-free table, the connections and the view. Only part of it is
  under a mutex.
* Two mechanisms meet in one field: `next_slot` is the list link of the
  lock-free table and, once marked deleted, the path from a superseded request
  to the one that supersedes it.
* The whole queue is reset in place by whoever processes its last slot.
* RDMA writes carry no acknowledgement of the reader, and the ring has no flow
  control.
* Failure handling is driven by timeouts with one-sided suspicion.

The hazards, each at its line and with the properties that would catch it, are in
`PROJECT.json`. What makes each component correct:

* Replication queue: no slot has two owners; a reset meets no request; a call
  returns only when its request, or a later one of its key, is in the log;
  entries of a key are in order; an answer expected by another node is sent;
  every call returns.
* Dependency checker: an insertion appears atomic and supersedes exactly the
  newest request of its key.
* Log: what the readers take out is what the writer put in, in order.
* Checker requests: a caller that is the only one to write its key is released
  only when its own request is ordered, and its request is executed once on a
  node, whatever others do to keys they share; replicas execute the requests of
  an owner alike; every caller is released eventually.
* Heartbeat: only dead nodes are removed; survivors go on together; after a crash
  they run again. A proposer that waited sees the new membership, and none waits
  for a change that is over.
* Connector: a key is there until every node has fetched it and gone when all are
  through; a connection is written to only when both ends are up; all nodes get
  through start-up.
* Chain baseline: a call returns when every node has its entry; every node takes
  what was proposed, in order.

## 2. Modules

    RpliSlots            the queue, the mutex, the walk, the log, the reset
      RequestToRpli      + insertion as one atomic step   (the abstract one)
        RequestToRpliInv        inductive invariant
          MCRequestToRpli       for TLC
          RequestToRpliProofs   types, ownership of slots, reset, links of the
                                  table, NoAbort, KeyOrder, Durable
      DepChecker         + insertion load by load, CAS by CAS; implements
                           RequestToRpli through INSTANCE ... WITH
        DepCheckerInv           what the lists of the table look like
          MCDepChecker          for TLC
          DepCheckerProofs      any keys in a bucket: links, slots, reset;
                                  a bucket per key: the implementation

    Rooms                the room arithmetic
      HotelLog           one log between two nodes; implements OrderedLog
        HotelLogInv             inductive invariant
          HotelLogProofs        layout, types, PrevWhole, the implementation
    OrderedLog           what a log promises

    CheckerProtocol      requests, questions and answers between all nodes;
                           implements Ordering
      CheckerProtocolInv        inductive invariant
        MCCheckerProtocol       for TLC
        CheckerProtocolProofs   ReturnedIsHeld, ExecutedOnce, SameExecution,
                                  the implementation
    Ordering             what rsdco_add_request promises

    ViewGate             proposers of a node against its own tracker
      ViewGateProofs            types, NoLostWakeup, WaitedSeesRemoval
    Heartbeat            the trackers of all nodes, with crashes
      HeartbeatInv              inductive invariant
        HeartbeatProofs         NoFalseSuspicion, ResumeTogether
    Bootstrap            start-up of all nodes, up to the worker threads
      BootstrapInv              inductive invariant
        BootstrapProofs         NoKeyMissed, WritesLand, NoReaderReset,
                                  NothingLeft
    RcCraq               the chain baseline; implements OrderedLog twice
      RcCraqProofs              ChainInv, ReturnedIsEverywhere, the logs

The modules meet at these seams. `RpliSlots` and `CheckerProtocol` take a log to
be the sequence of its entries: that is `OrderedLog`, which `HotelLog`
implements. `CheckerProtocol` has of its owners' queues the insertion line of each
key and the ready flags: an insertion and a walk under the mutex are one step
each, as the insertion is in `RequestToRpli`, one key has one bucket, and there is
no reset. The gate is any delay in `RpliSlots`, its steps are in
`ViewGate`; the handshake is any delay in `ViewGate`, its steps are in
`Heartbeat`. All of them begin where `Bootstrap` ends.

### RpliSlots

A step is one access to memory another thread can see. `pc[t]` follows the
control of `rsdco_request_to_rpli`:

| Action | Code | Label before |
|---|---|---|
| `Call` | the call, any key | `idle` |
| `Claim` | fetch-and-add loop, 278-280 | `claim` |
| `Fill` | fields of the slot, 282-293 | `fill` |
| `TryInsert` | `rsdco_try_insert`, in the two extending modules | `insert` |
| `Enter` | lock, `is_ready`, deleted mark, 296-306 | `lock` |
| `Walk` | one turn of the loop, 307-319 | `walk` |
| `Write` | gate, log append, flags, 323-343 | `write` |
| `Finish` | `procd`, 347-349 | `finish` |
| `ResetBuckets`, `ClearSlots`, `FreeSlots` | 350-354 | `buckets`, `slots`, `free` |
| `Return` | unlock, 357 | `return` |

Data is abstracted as follows. A key is its hash. A request is identified by its
*stamp*, the position of its insertion in the order of all insertions; the stamp
stored in a slot stands for `buf` and `buf_len`, so reading a slot whose content
was replaced or erased shows as a wrong stamp. The log is the sequence of
entries passed to `rsdco_rdma_write_single_rpli`. Slot fields that are written
but never read (`key`, `is_blocked`, `msg` of a replication slot) are left out.
The gate of a reconfiguration (324-332) can only delay the thread that holds the
mutex, and a delay is what the interleaving between `Walk` and `Write` allows.
`clock`, `issued`, `returned` and the stamp in `call` are history.

The mark bits of a link are modelled by name: `plain`, `deleted`, `protected`.
Memory is sequentially consistent: the code reads and writes links with plain
accesses between the `__sync` operations, which x86 does not reorder in a way
the model would miss except through store buffers; those are drained by each
CAS.

### RequestToRpli and DepChecker

`RequestToRpli` inserts in one step: the slot that is the newest of its key gets a
deleted mark leading to the new slot. `DepChecker` has one action per load or
CAS of `__elemSearch` (`SearchHead`, `SearchFirst`, `Load`, `Protect`, `Advance`,
`CleanUp`), and one per turn of `__elemInsert` (`Link`) and `__elemSwitch` (`Switch`).
Its variable `reg` holds the local variables of the search. The refinement maps
the labels inside a search to `insert`, and a link to itself if it is deleted and
to nothing if it is not; list order and protection are details.

### HotelLog

One writer, one reader, the ring of rooms in the reader's memory. `Write` is
`rsdco_copy_request` and the post of the RDMA write; `Land` brings its parts into
`mem` one at a time, in the order of addresses, while the reader runs its loop
one load at a time:

| Action | Code |
|---|---|
| `Write` | `rsdco_copy_request`, `rsdco_rdma_write_single_rpli`/`_chkr`; waits for the completion of the last write |
| `Land` | the next part of the write: header, a room of payload, the room with the canary |
| `ReadLength` | the length in the header, 490 |
| `ReadCanary` | the byte where that length puts the canary, 491 |
| `Test` | proposal and message, 494-495; if they match, 504-508 |
| `Act` | `detect_func` on the entry, 510-511 |

A cell of memory is the room's content as far as the reader tells it apart:
zeros, a header (the second header room, with length, proposal and message, is
what the reader looks at), payload of an entry, or the last room of an entry
with the offset of its canary. `written` and `taken` are history; `Act` records
`Torn` if the payload is not all of one entry. `OrderedLog` has only these two:
entries are taken in the order in which they were put.

Assumptions. RDMA writes land in the order of addresses and are complete when
the sender polls their completion. The region starts as zeros
(`rsdco_local_hotel_init` clears eight bytes only: `sizeof(sizeof(...))`).
Bytes of a payload are neither `RSDCO_CANARY` nor a header where the reader
looks for one; with byte 36 at the place of the canary an entry is taken before
it is whole. The compiler leaves the loads in the loop. And the writer is at
most `Lead` entries ahead of the reader, so that it does not lap it: no code
ensures that.

### CheckerProtocol and Ordering

`rsdco_add_request` on all nodes. An application thread is a pair of its node and
a number, and the receiver of node `n` for the checker log of `m` is `<<n, m>>`;
replayers have no state between two entries, so they have no `pc`.

| Action | Code | Label before |
|---|---|---|
| `Call` | `rsdco_add_request`, 427-449: the rule, then one of the two request functions; for an own key the slot and its insertion, 276-295 | `idle` |
| `RpliLock` | mutex, walk, entry of the newest request into the own log, flags, 296-343 | `rpli` |
| `RpliSkip` | the slot is not ready any more: nothing is written, 303 | `rpli` |
| `RpliWrite` | one turn of the loop over the connections, 130-143; the last one unlocks and ends the call, or lets a receiver go on | `rpli_write` |
| `ChkrLock` | mutex, slot of `chkr_reqs`, question into the checker log, 360-389 | `chkr` |
| `ChkrWrite` | one turn of the loop over the connections, 237-273 | `chkr_write` |
| `ChkrReturn` | the loop ends, next slot, unlock, 394-424 | `wait` |
| `Receive` | the receiver takes an entry; a question it inserts, to replicate it, 541-550 | `idle` |
| `Apply` | and hands to `user_action`, 552-556 | `apply` |
| `Replay` | a replayer takes an entry: an ACK, or the one before goes to `user_action`, 517-539 | |

`slot[n]` is the one element of `chkr_reqs.slot` that `next_free_slot` points to: the
mutex lets one question of a node be open at a time. After `ChkrReturn` it is a
slot nobody has used, with a hash (`NoHash`) no ACK has; the code uses a slot
again after 512 requests, when the hash in it is an old one and its `is_blocked`
is no longer looked at. In what order a loop goes through the connections makes
no difference to any property, so `NextConn` fixes one.

`Keys[p]` are the keys thread `p` makes requests for, and any threads may have keys in
common, on one node or on several. What the code then does to such a request the
model does as well. The walk of one thread may find a newer request of the key:
it writes that one, with its own message, and the older ones are *absorbed*
(`RpliSkip` of their threads). The newest is written whether or not it was written
before, so that a request may be in the log twice. And an ACK carries a hash and
no more, so that the ACK of one node's question ends another node's call for the
same key (`IsMine`, 530). `Sole` is the requests of keys that only one thread of all
nodes writes. For them the model has the promises one would like to have for all
(`ReturnedIsHeld`, `ExecutedOnce`, `KeepsPromise`), in the midst of the others, which
go through the same mutexes, slots, logs and replayers. `SameExecution` and
`CallsReturn` are about all of them.

`by` and `nth` in a request name it for the properties; no step depends on them but
for `Call`, which numbers its requests. Left out of the owner's queue are its reset,
which meets no request under way (`ResetQuiescent`), keys that share a bucket, and a
caller that writes to its buffer after its call. No node dies here. `executed`,
`asked` and `returned` are history; an entry of `executed` says at which place of the
log the request was (`at`).

`Ordering` has three actions: a request is made, its owner puts it into its order, the
call returns. A sole request is ordered once and before its call returns; of the
others only those that were asked are ordered.

### ViewGate

The proposers of one node and its tracker, which share `hbstat->view`,
`rsdco_on_configure` and the two vectors of connections without a lock. The labels
of a thread are the loads of the gate, one action each, in both places it stands:

| Action | Code |
|---|---|
| `ReadView`, `ReadFlag`, `Spin` | the gate of `rsdco_request_to_rpli`, 324-330, and that of the waiting loop, 395-400 |
| `Lock`, `Written` | the propose mutex, and the end of the loop over `rsdco_rpli_conn` |
| `ChkrLock`, `Asked`, `Wait`, `Done` | `rsdco_request_to_chkr`; after a view change the question goes to the new owner, this node or another, and is not waited for |
| `Ack` | a replayer ends the question, at any time |
| `Detect`, `Configure`, `RemoveRpli`, `RemoveChkr`, `Handshake`, `Release` | `rsdco_reconfigure`, heartbeat.cc 274-328 |

`Release` has two steps: the flag goes down before the view goes up. A thread that
reads the old view and then sees the flag of the *next* reconfiguration finds
another view at once and goes on while that one is under way; `WaitedSeesRemoval`
holds for it, with the node removed by the reconfiguration it has a view of.
`excluded` is the list of all nodes found dead, the last one is `hbstat->exclude`.

### Heartbeat

The trackers of all nodes. `Tick`, `Propagate` (one peer a step) and `Detect` are a
round (366-387, 331-360); `Reconfigure`, `Gather` (one read of a peer's `msg`),
`Release` (one write), `WaitForRelease` and `Resume` are `rsdco_reconfigure` without
the steps `ViewGate` has; `StartLeader`, `StartPeer` and `StartFollower` are
`rsdco_heartbeat_release`. `msg[n]` is written by node `n`, by its leader, and on the
leader by the RDMA read over its own word (294), and the loop of the leader tests
that own word: once the first peer's `MSG_WAIT` is there, it reads from no other
peer. With three nodes there is no other peer left.

A sign of life only matters by whether it differs from its backup (`changed`). A
node that crashes stops; signs written to it are lost; a read of it fails and
leaves the leader where it is.

*Time.* Suspicion counts rounds, so whether a live node is suspected depends on
how far rounds of two nodes drift. `Slot` divides time into slots of one round: a
running tracker makes one round in each, at any point of it, and a slot ends
when every live node has made its round or can only wait for another node
(`Waiting`). What a handshake can do at once is thus done within a slot, while
waiting for another node's detection may take many. The order in a slot is open,
so that signs are up to two slots apart, which `SCORE_DEFAULT` makes up for.

*Crashes* are possible at any moment after the start-up handshake. `Recovers` is
about crashes that met the other nodes running and knowing of all earlier ones
(`orderly`). The code does not get over the others: if a node dies during a
handshake, the leader reads the word of a dead node for ever, or a follower waits
for a leader that is no more, with `rsdco_on_configure` set. The safety properties
hold for those crashes as well.

### Bootstrap

Start-up is straight-line code over a shared key-value store, so a node is a
program: a sequence of loops over nodes, as the functions have them, built by
operators with their names. `loop[n]` is the loop node `n` is in, `todo[n]` the nodes
that loop has not done with (`Peer(n)` is the one it is at), and `step[n]` the place in
its body; a call outside a loop is a loop over the node itself (`Once`). The actions
are the kinds of steps, and each ends in `Advance`:

| Action | Code |
|---|---|
| `Push`, `Del` | `hartebeest_memc_push_...`, `hartebeest_memc_del_general` |
| `Fetch` | fetch of a peer's queue pair or buffer and connection to it |
| `Wait` | `hartebeest_memc_wait_general`, and the fetch of a heartbeat table |
| `Sleep` | `sleep(3)` in the barrier of the heartbeat |
| `Reset` | the fields of the own heartbeat table |
| `Write`, `Poll` | the leader's release, and the hotel inits over RDMA; the wait for them |
| `Spawn` | the thread that polls a log |

The two barriers differ. That of the connector (277) deletes its key as soon as
the node has seen everybody else's, so that a slow node may find it gone: `late`
records that, and `StartsUp` says that nothing else can stop start-up. That of the
heartbeat sleeps three seconds first, and the model takes them to be enough for
every node to look. That a fetch waits until the key is there is how the code
uses it. `rsdco_local_hotel_init` touches nothing another node sees, and the
tracker's thread starts where `Heartbeat` does.

### RcCraq

Three nodes, as in the code. `Push`, `Connect`, `WaitGeneral`, `DelGeneral`,
`local_hotel_init` and `magic_test` are `main` up to the proposals; `Propose`,
`post_single_fast` and `Proposed` are `rcraq_propose`, with the write landing header,
payload and canary one after the other; `Detect`, `post_single_fast`, `AckWait`,
`Ack` and `ClearCanary` are a turn of `rcraq_wait`. The value the magic test leaves
in `reserved[1]` is the first proposal number on every node.

Assumptions. `sleep(10)` and `sleep(3)` cover the differences between the nodes
(`Slept10`, `Slept3`). All entries have one length, so that a position of the ring is
a number. Memory starts as zeros. A write lands in the order of addresses. The
ring has at least two positions: the canary is cleared after the ACK was passed
on, and in a ring of one that wipes the next entry.

## 3. Runs

| Run | Instance | Shows |
|---|---|---|
| `rpli_safety` | 3 threads, 2 keys, 3 slots, 5 calls, 1 failed claim | types, `SlotOwnership`, `ResetQuiescent`, `Durable`, `KeyOrder`, `NoAbort`, and that `IInv` holds |
| `rpli_ack` | 2 callers and a receiver, 1 key | violation of `AckReplied` |
| `dep_refine` | 3 threads, 2 keys in 2 buckets, 3 slots, 4 calls | `ListInv`, `DepChecker` implements `RequestToRpli` |
| `dep_shared` | 2 threads, 2 keys in 1 bucket, 4 slots, 5 calls, fair | `BucketInv`: nobody leaves a bucket's list; `EveryCallReturns` |
| `dep_abort` | 3 threads, 3 keys in 1 bucket, 4 slots, 4 calls | violation of `NoAbort` |
| `hotel_ring` | 7 entries, 3 to a lap, 4 proposal numbers, lengths 4 and 7, with or without payload, fair | the inductive invariant `RingInv`, `HotelLog` implements `OrderedLog`, `PrevWhole`, `UserActionReplayed` |
| `checker_ask` | 3 nodes with 1 thread each, 4 keys, 3 calls, fair; nodes 1 and 2 share a key of node 0 and ask each other for a key of their own, 0 has a key of its own | the inductive invariant `ProtocolInv`, `ReturnedIsHeld`, `ExecutedOnce`, `SameExecution`, implementation of `Ordering`, `CallsReturn` |
| `checker_replay` | the same | violation of `PreviousIsReplayed` |
| `view_gate` | 2 threads, 2 peers that both die, 3 calls of either kind, fair | types, `NoLostWakeup`, `WaitedSeesRemoval`, `RequestReturns` |
| `heartbeat_crash` | 3 nodes, 2 crashes, score 1, fair | the inductive invariant `HeartbeatInv`, `NoFalseSuspicion`, `ResumeTogether`, `Recovers` |
| `boot_start` | 3 nodes, fair | the inductive invariant `BootInv`, `WritesLand`, `NoKeyMissed`, `NothingLeft`, `NoReaderReset`, `StartsUp` |
| `craq_chain` | 2 threads, 2 positions, 5 proposal numbers, 8 calls, fair | the inductive invariant `ChainInv`, `ReturnedIsEverywhere`, the chain implements `OrderedLog` towards both nodes, `StartsUp`, `ProposeReturns` |

Bounds. `MaxReq` bounds the calls, `SpinMax` the failed turns of the claim loop
between two resets, `SLOT_MAX` and `NBuckets` are the code's constants scaled
down. Five calls through three slots go through a reset with threads waiting for
it, which is the only long-range effect in the queue: after the reset the state is the
initial one but for the log. Three threads are enough for one to walk, one to be
superseded while it waits and one to insert meanwhile. `SLOT_MAX + SpinMax` stands
for less than 2^32, so the counter does not wrap. `LastKeyFirst` in `dep_abort`
prunes the search for the counterexample; it restricts which behaviours are
looked at, not what the code does. Threads are symmetric in the runs that
check no action or liveness property.

Seven entries in `hotel_ring` are three laps of the ring, and the proposal number
wraps between entries 4 and 5. Lengths 4 and 7 put the canary at either end of its
room. `Lead` = 1 lets the writer be two entries in while the reader acts on the
entry before them; with three entries to a lap one more would overwrite the
entry that `rsdco_detect_action_rply` still reads.

In `checker_ask` each of the things that meet does: two nodes that ask for one key at
the same time (absorbed, written twice, the ACK of one ends the call of the other)
while the owner has a request of its sole key under way, or before and after one of
a sole key of theirs; a node that asks and is asked at once (its receiver and its
caller contend for the mutex); an owner with entries of its own between ACKs; and a
second call of a thread on the same key. `view_gate` has two reconfigurations, so that a view read before the first can be used in the second.
`heartbeat_crash` has crashes in every state, of leaders and followers, down to one
node; `SCORE_DEFAULT` 1 is the smallest value that tolerates a missed round, and
a larger one only adds rounds. `craq_chain` goes around the ring four times and
wraps the proposal number.

Deadlock is checked in the runs of the queue, of the log and of the heartbeat. A
behaviour of the queue ends only when every call was made and has returned
(`Terminated`). The other five configurations say `CHECK_DEADLOCK FALSE`: the
bounded instance ends when all calls are made and answered, and start-up ends
when all nodes are through. That nothing else stops there is what their liveness
properties say.

Fairness. `DepFairSpec` has weak fairness of each thread's step: the operating
system schedules every runnable thread, and the mutex is released by a thread
that is itself scheduled. Weak fairness of a thread waiting for the mutex is
enough in the bounded instance because the other threads run out of calls; with
unboundedly many calls a non-fair mutex could starve one. `Call` has no fairness:
nobody has to call. `ViewGate` has the same, and weak fairness of the tracker's
reconfiguration: its peers answer. `Ack` has none, so `RequestReturns` is about
requests for own keys.

`FairSpec` of `HotelLog` has weak fairness of `Land` (a posted RDMA write completes)
and of the reader, a thread that never blocks. `Write` has none. `FairSpec` of
`CheckerProtocol` has weak fairness of all steps taken together, which is less than
each thread's: with finitely many calls no thread can go on for ever while
another one waits. `Heartbeat`, `Bootstrap` and `RcCraq` have weak fairness of every
node's steps; in `Heartbeat` only while the node is up, and time (`Slot`) goes on.

### Findings

* `rpli_ack`. The walker writes the newer request with its own message type
  (line 335) and clears its ready flag. If the newer request is a receiver's, the
  receiver returns without an ACK in the log, and the node that asked waits.
* `dep_abort`. `__elemSearch` re-reads `prev_next` after `curr_next`
  (`hashtable.cc` 218-222). A request inserted between the two reads makes them
  disagree, and the clean-up CAS at 226-228 unlinks it. When keys share a bucket
  the list then loses live requests, and with three keys a walk ends on a node
  of another key, where `assert(false)` stands. No build file defines `NDEBUG`.
  Smaller instances already break other promises. With a shared bucket two
  threads and two keys violate `KeyOrder`. `Durable` takes three threads and two
  keys (`NBuckets = 1`, `SLOT_MAX = 4`, `MaxReq = 4`, `SpinMax = 0`; 29 steps): the
  clean-up of a search for key 2 swings the deleted link of key 1's first request
  to the bucket's head; the walk of that request then ends on the head, writes
  what is there and returns, and neither it nor the newer request of key 1 is in
  the log. `dep_shared` therefore does not check `Durable`, and has two threads.
  One key per bucket is safe (`dep_refine`, and section 4 for any size).
* `checker_replay`. A replayer hands the entry *before* the one it takes to
  `user_action`, and returns before that at every ACK, whoever it is for (534). An
  entry that is followed by an ACK in its owner's log is therefore executed on no
  follower. All followers leave out the same ones: `SameExecution` holds.

Further behaviour of this kind, not a run of its own:

* `NotReadySkipped` (`RpliSlots`) fails with three application threads, one key and
  three calls. The test of `is_ready` at line 303 is on the caller's own slot. The
  slot its walk ends on is written whether or not it still is ready. If the
  newer request won the mutex first, it is written a second time, after its call
  has returned and its buffer belongs to its caller again. The order of the key
  is still right (`KeyOrder` holds), as long as that buffer was not reused.
* `UserActionReplayed` (`HotelLog`) fails with four entries, three to a lap and
  `PROPOSALS = 3`. A header-only entry is accepted on its proposal number and its
  message (line 495), and nothing of it is erased afterwards. If the number of
  entries to a lap is a multiple of 256, the header of the lap before carries the
  number that is expected next. The real ring holds exactly 2^24 entries of four
  rooms (payloads of four to seven bytes), and any entry of 2^k rooms gives such a
  multiple. From the second lap on the reader then takes old headers for new
  ones, runs ahead of the writer, and the question written behind it is neither
  acted on nor acknowledged. Replication logs have no header-only entries.
* Entries of different sizes: with `LOGIDX_END = 11`,
  `ROOMS = 18`, `PROPOSALS = 4`, `Lengths = {3, 15}`, `HeaderOnly = {FALSE}`, `Lead = 1`,
  `MaxEntries = 4` TLC finds `UserActionReplayed` violated as well. The reader
  computes the place of the canary from the length of the old header (490), two
  short entries land where a long one was, the byte it reads is the canary of the
  second of them, and line 508 clears it. The second entry is never detected and
  the reader waits for ever. `hotel_ring` therefore keeps to lengths that take the
  same number of rooms.
* `ReturnedIsHeld` (`CheckerProtocol`) without `\cap Sole` fails in the instance of
  `checker_ask`: nodes 1 and 2 ask for the same key, and the ACK of one question,
  which every node gets, ends both calls (530). The second call returns before its
  request is in any log. No line of the repository says what two writers of a key
  may rely on.
* `CallsReturn` without the premise `OwnersAskAlone` fails when a thread of the owner
  writes the key too: that is the lost ACK of `rpli_ack`.
* `LockedOut` (`ViewGate`) fails in the instance of `view_gate`. The flag does not lock
  anybody out who is past it: the tracker erases from `rsdco_rpli_conn` while a
  proposer iterates over it, and the first question of `rsdco_request_to_chkr` does
  not look at the flag at all.
* `<>(\A n \in Nodes : Done(n))` fails in `boot_start`: the first barrier deletes its key
  without giving a slow node the time to see it.

## 4. Proofs

Every theorem is about the specification of a model of which the runs check an
instance.

First about `RequestToRpli`, for every number of threads, keys, slots, buckets and
calls, from `RpliAssumption` alone (`SLOT_MAX` and `NBuckets` are positive, hashes are
naturals, receivers are threads, `NoThread` is none).

| Theorem | Statement |
|---|---|
| `TypeCorrect` | `Spec => []TypeOK` |
| `OwnershipCorrect` | `Spec => []SlotOwnership` |
| `ResetCorrect` | `Spec => []ResetQuiescent` |
| `AbortFree` | `Spec => []NoAbort` |
| `KeyOrderCorrect` | `Spec => []KeyOrder` |
| `DurableCorrect` | `Spec => []Durable` |
| `InvariantCorrect` | `Spec => []IInv` |

None of the properties is inductive. `IInv` (in `RequestToRpliInv`, itself an
invariant of `rpli_safety`) has five layers, each proved preserved from the ones
before it:

1. `TypeInv`: types, and a deleted mark leads to a slot. Without it a walk could
   step on a bucket's head.
2. `QueueInv`: the owner of the mutex is the thread between lock and unlock; every
   owned slot was claimed; `procd` is the number of claimed slots nobody owns any
   more. So `procd + 1 = SLOT_MAX` at `Finish` means that all slots are processed and
   nobody owns one: the counting argument behind the reset (`SlotOwnership`,
   `ResetQuiescent`), with the cardinality theorems of `FiniteSetTheorems`.
3. `TableInv`: a deleted mark leads to a later request of the same key (`Chain`), and
   the request without one is the latest of its key (`NewestLatest`). A walk climbs and
   cannot meet another key (`NoAbort`).
4. `OrderInv`: the log never overtakes the newest request of a key, and what a
   thread is about to write is not older than what is there (`KeyOrder`).
5. `CoverInv`: a request that lost its ready flag is covered by the log or by the
   thread that is walking past it (`Durable`).

About the lock-free table, from the same assumption:

| Theorem | Statement |
|---|---|
| `BucketsCorrect` | `DepSpec => []BucketInv`, and the counting of the queue |
| `DepTypeCorrect` | `DepSpec => []DepTypeOK` |
| `DepOwnershipCorrect` | `DepSpec => []SlotOwnership` |
| `DepResetCorrect` | `DepSpec => []ResetQuiescent` |
| `ListCorrect` | `Separate` implies `DepSpec => []ListInv` |
| `AtomicSpecCorrect` | `Separate` implies `DepSpec => AtomicSpec`: `DepChecker` implements `RequestToRpli` |
| `DepKeyOrder`, `DepDurable`, `DepAbortFree` | `Separate` implies `DepSpec => []KeyOrder`, `[]Durable`, `[]NoAbort` |

The first four hold whatever keys share a bucket. `BucketInv` says that a link
leads from a node of a bucket to one of the same bucket, that a slot above
`next_free_slot` is empty, and where in its bucket each search and walk stands. That
is what survives the clean-up CAS that goes wrong in `dep_abort`: it loses requests
of a list, and never leads out of it.

`Separate` (in `DepCheckerInv`) says that no two keys have one bucket. It is not
something the code ensures. The table has 2^20 / 8 = 2^17 buckets
(`rsdco_reqs.cc` 20-21), and up to 512 requests are in it between two resets: with 512
different keys, two of them sharing a bucket is more likely than not. The findings
above show what then can happen; the theorems that assume `Separate` say nothing
about such a stretch between two resets, the first four do. With it the list of a bucket is the
requests of one key from the oldest on, all but the newest with deleted links
(`TableLinks`, `OneNewest`, `HeadLinks`), and a search can arrive at the place of
an insertion over an empty list only, so the CAS at `hashtable.cc:226` has nothing
to clean up (`SearchInv` says that nobody is at `clean`). The step simulation maps
the successful CAS of `Link` and `Switch` to the abstract `TryInsert` and all other
steps of a search to stuttering. `DepCheckerProofs` instantiates the module of
proofs about `RequestToRpli` with the refinement mapping, so that its theorems are cited
for the real table and not proved again.

About the checker protocol, for every number of nodes and threads, all keys and
any bound on the calls, from `CheckerAssumption`: at least two nodes, and keys are
naturals. Which threads share which keys is open. Where a statement holds for
requests of keys with one writer only, it says so itself (`Sole`).

| Theorem | Statement |
|---|---|
| `ProtocolInvCorrect` | `Spec => []ProtocolInv` |
| `ReturnedIsHeldCorrect` | `Spec => []ReturnedIsHeld`, for sole requests |
| `ExecutedOnceCorrect` | `Spec => []ExecutedOnce`: everything on its owner, sole requests on followers |
| `SameExecutionCorrect` | `Spec => []SameExecution`, for all requests |
| `KeepsPromiseCorrect` | `Spec => KeepsPromise`: `CheckerProtocol` implements `Ordering`, whose promise is for sole requests |

`ProtocolInv` (in `CheckerProtocolInv`, checked by `checker_ask`) is inductive; its first
part is `AskInv`. The difficulty is that a call ends on a hash in somebody's log, so
the invariant has to follow a request on its whole way: who holds which mutex and
is writing what (`MutexInv`); a call carries the one open request of its thread
(`CallInv`), numbered afresh (`NumberInv`); the questions in a checker log were asked
by threads of that node, each once (`QuestionInv`); a receiver carries the question
at its cursor (`ReceiverInv`); the table has requests that were asked, and a sole one
that waits for the mutex is ready and the newest of its key, so that nobody
absorbs it and its own thread writes it (`TableInv`); a sole request is in its
owner's log once and came from a thread of the owner or from a question its
receiver has taken (`OrderInv`). With that, an entry of a sole key that my replayer
has yet to take is the answer to what I am asking now, and a slot with the hash of
a sole key that was unblocked was unblocked by it (`AnswerInv`): entries of shared
keys do not have that hash. The implementation then is a step simulation:
`RpliLock` is `Order` of the newest request, the last `RpliWrite` or the `RpliSkip` of an
application thread and `ChkrReturn` are `Return`, `Call` is `Ask`, and every other step
leaves `asked`, the orders and `returned` as they are.

The second part, `ExecInv`, is about executions. `FollowerExec(n, o)`: what node `n` has
executed of owner `o` is exactly the entries it took that are followed by an entry
which is no ACK, at their places (`at`) and in the order of `o`'s log. `OwnerExec(n)`: of
its own requests a node executes only questions its receivers took and are done
with, each once. A sole request is in a log once (`OrderInv`), so a follower
executes it once at most (`ExecutedOnce`); two followers of an owner have executed
the same places of its log as far as both have taken it, whatever is there, so of
two requests one came first at both (`SameExecution`).

About the gate, for any number of threads, peers, calls and reconfigurations,
from `GateAssumption`:

| Theorem | Statement |
|---|---|
| `GateTypeCorrect` | `Spec => []TypeOK` |
| `NoLostWakeupCorrect` | `Spec => []NoLostWakeup` |
| `WaitedSeesRemovalCorrect` | `Spec => []WaitedSeesRemoval` |

`GateInv` adds to the types what ties the tracker to the flag (`FlagInv`), the view to
the number of removals begun (`ViewInv`), the past removals to the connections
(`RemovedInv`), and each thread's view to those (`LocalInv`). It is the order flag
before view in `Release` and view before flag in the gate that makes it inductive.

About the log, for every size of the ring, set of lengths and number of entries,
from `RoomsAssumption` and `HotelAssumption` (the region has room for an entry that
begins at `LOGIDX_END`, and no length exceeds `MaxLength`, above which the
`uint16_t` rounding overflows):

| Theorem | Statement |
|---|---|
| `Layout` | the canary is in the last room of its entry, the next header in the room after it or in room 0 |
| `HotelTypeCorrect` | `Spec => []TypeOK`: cursors stay in the log, writes in the region |
| `RingInvCorrect` | `RingAssumption` implies `Spec => []RingInv` |
| `PrevWholeCorrect` | `RingAssumption` implies `Spec => []PrevWhole` |
| `LogCorrect` | `RingAssumption` implies `Spec => LogSpec`: `HotelLog` implements `OrderedLog` |

`HotelTypeInv` adds to `TypeOK` that `wire` is a sequence of patches of the region;
`Layout` carries the two cursors.

`RingAssumption` (in `HotelLogInv`) is three conditions, none of which the code
ensures; each is needed:

* `OneSize`: all payloads take the same number of rooms. With two sizes line 508 can
  clear the canary of another entry (last but one of the findings about the log).
* `Lead + 2 <= PerLap`: the writer does not come round to the entry before the one
  being acted on. Nothing tells the writer where the reader is.
* There are no bare headers, as on replication logs, or the number of entries to a
  lap is no multiple of the 256 proposal numbers; otherwise a bare header of the
  lap before is taken for the next one.

The instance of `hotel_ring` satisfies all three (four rooms per entry, three
entries per lap, `Lead` = 1, four numbers). `RingInv` says where everything is:
entry `k` begins at `Place(k)`, both cursors and both proposal counters count the
same entries (`CursorInv`); of the last lap, every entry whose write is complete is in
memory as it was written, with its canary set exactly if it is not yet detected
(`MemoryInv`); of the one on the wire, the parts that landed (`WireInv`); a header in
memory is of the last lap, or of the place where one is about to land
(`HeaderInv`); and a canary that is set belongs to a complete entry that is not yet
detected (`CanaryInv`). So the reader, who computes the place of a canary from what
may be a stale header, can only meet the next entry's canary
(`CanaryIsNext`), and a bare header with the right number is the next one's
(`HeaderIsNext`). The places need arithmetic the solver does not know:
multiples, quotients and remainders around a ring (`Quotient`, `Remainder`,
`ModNext`, `ModApart`, `ModShift`), from which two entries less than a lap apart share
no room (`PlaceApart`). A write is mapped to `Put`, `Act` to `Take`, all else stutters.

About the chain, for any number of proposers and calls, positions of the ring and
proposal numbers, from `CraqAssumption` (at least two positions, more than three
numbers):

| Theorem | Statement |
|---|---|
| `ChainInvCorrect` | `Spec => []ChainInv` |
| `ReturnedIsEverywhereCorrect` | `Spec => []ReturnedIsEverywhere` |
| `ChainIsLogCorrect` | `Spec => ChainIsLog`: towards both nodes the chain implements `OrderedLog` |

`ChainInv` (in `RcCraq`, checked by `craq_chain`) is inductive. Its parts: nodes are
ready from the tail up, so that no magic value or entry meets a node that still
starts up (`BootInv`); between two neighbours there is one entry at most, of which the
canary lands last, and a canary that is set is that entry's or the one the node
is yet to clear (`Link`); what a node holds is whole, and entries are taken and
returned one after the other (`HistoryInv`).

About the failure detector, for at most three nodes, any score to start from but 0
and any number of crashes (`TypeCorrect` needs none of these):

| Theorem | Statement |
|---|---|
| `TypeCorrect` | `Spec => []TypeOK` |
| `HeartbeatCorrect` | `Spec => []HeartbeatInv` |
| `NobodyFalselySuspected` | `Spec => []NoFalseSuspicion` |
| `SurvivorsResumeTogether` | `Spec => ResumeTogether` |

`NoFalseSuspicion` is a statement about time. `HeartbeatInv` (in `HeartbeatInv`, checked
by `heartbeat_crash`) counts it in slots, for every two nodes that are up. While
neither knows of a crash, a sign of the other one is at most one slot old when it
is looked for (`Steady`), and a dead node is found by both within two slots
(`Away`); when one has found it, the other one will, before the score of the first
one, who makes no rounds in the handshake, is used up (`Rounds`, `Sees`). A node
knows nothing of a crash, or all of it, and its connections agree with that
(`Knows`). `Handshake` says for a leader and a follower which of their words are under
way in which of their steps, and that the leader is past its RELEASE exactly if the
follower goes on or can. `StartInv` is the handshake of the start.

`CodeConstants` is what the proof assumes of the constants: `MAX_N_NODES` is 3 in the
code and `SCORE_DEFAULT` 10. Neither half can be dropped. Of four nodes, a leader that
crashes between its words to two followers leaves one of them waiting, and the
other one, who goes on, finds it dead; with a score of 0 a sign that is a slot late
is too late. TLC finds both.

About start-up, for any number of nodes from two on (`BootAssumption`):

| Theorem | Statement |
|---|---|
| `BootCorrect` | `Spec => []BootInv` |
| `KeysFound` | `Spec => []NoKeyMissed` |
| `WritesAfterConnect` | `Spec => []WritesLand` |
| `CursorKept` | `Spec => []NoReaderReset` |
| `StoreEmptied` | `Spec => []NothingLeft` |
| `OnlyFirstBarrierRaces` | `late` only becomes true by a delete of a `qp-connected` key |

`BootInv` (in `BootstrapInv`, checked by `boot_start`) says that each shared set is what
the nodes did to it, where `Did(n, op, what, m)` tells from the place of `n` in its
program that it has been through that step with `m` (`Traces`); and that the owner
of what a node has waited for or polled has put it there (`Met`); and that nobody
still needs the key of a node that has slept (`Slept`). All of it is kept by one
lemma, `AdvanceDid`: a step adds itself to what its node did, and nothing else.
The properties then follow from the order of the loops, which the proofs write out
(`ConnectorLines`, `HeartbeatLines`, `LastLines`, and `Place` for where a step can be): a
node that is far enough to delete a key has waited for a key that the node which
would miss it stores only afterwards, and so on for the other three.
`OnlyFirstBarrierRaces` adds that this order fails for one key only, that of the
first barrier: the race at `conn.cc:277` is the only one of start-up. That all nodes get
through is `StartsUp`, which is a liveness property and stays with TLC.

### Only model-checked, and why

* Liveness, everywhere: TLAPS does not derive it from fairness (`ENABLED`).
* The three findings are counterexamples of TLC.

## 5. What is left out, and the plan

### Not modelled

* The batched write, `rsdco_rdma_write_multi_rpli`. `BATCH_ENABLED` is never defined,
  and the function is unfinished: `last_header_room` never changes, so its branch
  for a wrapped batch is not reached.
* `__elemDelete` and the clean-up loops of the table: nobody calls them. The value of
  the hash function is any number: what matters is which keys collide.
* Two other ownership rules, which return the node itself and node 0.
* The node list that `rsdco_conn_remove` shortens: with three nodes the rule maps keys
  to the dead node unless that is the last one, and nothing says what it should do.
* `chkr_reqs.slot[512]`, read past the array by a replayer between the 512th question
  and the next one.
* Timers (measurement only), the vendored MICA store and City hash, the
  application patches and scripts, reading the environment and allocating memory.

### Next, in order of importance

1. `CheckerProtocol` with the removal of a node (`ViewGate`'s second question), and with
   the reset of the slots and keys that share a bucket.
2. `OneSize` weakened to sizes of which no shorter entry's canary can be where a longer
   one of the lap before had its own.
