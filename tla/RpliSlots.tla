----------------------------- MODULE RpliSlots -----------------------------
(***************************************************************************)
(* The replication request queue of one rsdco node: the SLOT_MAX slots of  *)
(* rpli_reqs, the claim of a slot by fetch-and-add, the propose mutex, the *)
(* walk to the newest request of the same key, the log append, and the     *)
(* reset of the whole queue by the thread that processes its last slot     *)
(* (src/rsdco_reqs.cc, rsdco_request_to_rpli).                             *)
(*                                                                         *)
(* Everything but rsdco_try_insert is here.  RequestToRpli adds the        *)
(* insertion as one atomic step, DepChecker adds it load by load and CAS   *)
(* by CAS as the lock-free hash table performs it.                         *)
(*                                                                         *)
(* A step is one access to memory other threads can see, together with the *)
(* local computation around it; what the mutex protects is grouped where   *)
(* no other thread can tell.  rsdco_on_configure's gate, which only delays *)
(* a proposer that already holds the mutex, is the arbitrary delay between *)
(* Walk and Write.                                                         *)
(***************************************************************************)
EXTENDS Integers, Sequences

CONSTANTS
  Threads,      \* threads that call rsdco_request_to_rpli
  Receivers,    \* those of them that are receiver workers: they pass MSG_ACK
  NoThread,     \* the value of the mutex when it is free
  Hashes,       \* hash values of the keys requests are made for
  SLOT_MAX,     \* slots of rpli_reqs (512 in rsdco_reqs.h)
  NBuckets,     \* buckets of the hash table (rdsco_ht_nbuckets)
  MaxReq,       \* bound: calls of rsdco_request_to_rpli in a behaviour
  SpinMax       \* bound: failed claims of a slot between two resets.  The
                \* counter is a uint32_t, so SLOT_MAX + SpinMax stands for
                \* less than 2^32 and the counter does not wrap.

ASSUME RpliAssumption ==
  /\ SLOT_MAX \in Nat \ {0}
  /\ NBuckets \in Nat \ {0}
  /\ MaxReq \in Nat
  /\ SpinMax \in Nat
  /\ Hashes \subseteq Nat
  /\ Receivers \subseteq Threads
  /\ NoThread \notin Threads

VARIABLES
  pc,             \* where each thread is in rsdco_request_to_rpli
  call,           \* call[t]: key hash of t's request and its insertion stamp
  slot_idx,       \* the slot a thread claimed
  cur_slot,       \* the node a thread's walk stands on
  next_free_slot, \* rpli_reqs.next_free_slot
  procd,          \* rpli_reqs.procd
  mtx,            \* rsdco_propose_rpli_mtx: its owner or NoThread
  slot,           \* rpli_reqs.slot, without the links
  next_slot,      \* the links: next_slot of every slot and bucket head
  log,            \* entries written to the replication log, in order
  clock,          \* history: requests inserted so far
  returned,       \* history: requests whose call has returned
  issued          \* history: calls made so far

rpliVars == <<pc, call, slot_idx, cur_slot, next_free_slot, procd, mtx, slot,
              next_slot, log, clock, returned, issued>>

----------------------------------------------------------------------------
(* Nodes of the hash table's lists: the slots, and one head per bucket.    *)

Slots == 0 .. SLOT_MAX - 1
Heads == SLOT_MAX .. SLOT_MAX + NBuckets - 1
Nodes == 0 .. SLOT_MAX + NBuckets - 1
Null  == -1

\* __getBucket: the head of the list a hash value belongs to.
BucketHead(h) == SLOT_MAX + (h % NBuckets)

\* A link is a pointer and the mark in its two low bits.
Plain(n)     == [ref |-> n, mark |-> "plain"]
Deleted(n)   == [ref |-> n, mark |-> "deleted"]
Protected(n) == [ref |-> n, mark |-> "protected"]

IsDeleted(link) == link.mark = "deleted"

MSG_PURE == "PURE"
MSG_ACK  == "ACK"

\* The message type a thread passes: receivers acknowledge, others do not.
MsgOf(t) == IF t \in Receivers THEN MSG_ACK ELSE MSG_PURE

\* A slot after memset.  stamp stands for buf and buf_len: a request is known
\* by its place in the order of insertion, 0 before it is inserted.  The
\* fields key, is_blocked and msg of a rpli slot are written and never read.
ClearSlot == [hashed |-> 0, is_ready |-> FALSE, stamp |-> 0]

NoCall == [hashed |-> 0, stamp |-> 0]

\* __listInit: an empty list is a head linked to itself.
EmptyLists == [n \in Nodes |-> IF n \in Heads THEN Plain(n) ELSE Plain(Null)]

Init ==
  /\ pc = [t \in Threads |-> "idle"]
  /\ call = [t \in Threads |-> NoCall]
  /\ slot_idx = [t \in Threads |-> 0]
  /\ cur_slot = [t \in Threads |-> 0]
  /\ next_free_slot = 0
  /\ procd = 0
  /\ mtx = NoThread
  /\ slot = [i \in Slots |-> ClearSlot]
  /\ next_slot = EmptyLists
  /\ log = << >>
  /\ clock = 0
  /\ returned = {}
  /\ issued = 0

Goto(t, label) == pc' = [pc EXCEPT ![t] = label]

----------------------------------------------------------------------------
(* Before the insertion.                                                   *)

\* A thread calls rsdco_request_to_rpli for a key that hashes to some h.
Call(t) ==
  /\ pc[t] = "idle"
  /\ issued < MaxReq
  /\ issued' = issued + 1
  /\ \E h \in Hashes : call' = [call EXCEPT ![t] = [hashed |-> h, stamp |-> 0]]
  /\ Goto(t, "claim")
  /\ UNCHANGED <<slot_idx, cur_slot, next_free_slot, procd, mtx, slot,
                 next_slot, log, clock, returned>>

\* Mutant: the comparison with SLOT_MAX admits one index too many.
Claim_OneTooMany(t) ==
  /\ pc[t] = "claim"
  /\ next_free_slot < SLOT_MAX + SpinMax
  /\ next_free_slot' = next_free_slot + 1
  /\ IF next_free_slot <= SLOT_MAX
       THEN /\ slot_idx' = [slot_idx EXCEPT ![t] = next_free_slot]
            /\ Goto(t, "fill")
       ELSE UNCHANGED <<slot_idx, pc>>
  /\ UNCHANGED <<call, cur_slot, procd, mtx, slot, next_slot, log, clock,
                 returned, issued>>

\* The spin on __sync_fetch_and_add: it takes the slot it drew, or draws
\* again when the slots are used up.
Claim(t) ==
  /\ pc[t] = "claim"
  /\ next_free_slot < SLOT_MAX + SpinMax
  /\ next_free_slot' = next_free_slot + 1
  /\ IF next_free_slot < SLOT_MAX
       THEN /\ slot_idx' = [slot_idx EXCEPT ![t] = next_free_slot]
            /\ Goto(t, "fill")
       ELSE UNCHANGED <<slot_idx, pc>>
  /\ UNCHANGED <<call, cur_slot, procd, mtx, slot, next_slot, log, clock,
                 returned, issued>>

\* The fields of the claimed slot; no other thread reaches it yet.
Fill(t) ==
  /\ pc[t] = "fill"
  /\ slot' = [slot EXCEPT ![slot_idx[t]] =
                [hashed |-> call[t].hashed, is_ready |-> TRUE, stamp |-> 0]]
  /\ Goto(t, "insert")
  /\ UNCHANGED <<call, slot_idx, cur_slot, next_free_slot, procd, mtx,
                 next_slot, log, clock, returned, issued>>

\* The history an insertion leaves: the request gets the next stamp and its
\* thread goes on to the mutex.
Inserted(t) ==
  /\ clock' = clock + 1
  /\ call' = [call EXCEPT ![t].stamp = clock + 1]
  /\ slot' = [slot EXCEPT ![slot_idx[t]].stamp = clock + 1]
  /\ Goto(t, "lock")

----------------------------------------------------------------------------
(* Under rsdco_propose_rpli_mtx.                                           *)

\* Mutant: the thread writes its own slot whether or not it was superseded.
Enter_OwnSlot(t) ==
  /\ pc[t] = "lock"
  /\ mtx = NoThread
  /\ mtx' = t
  /\ cur_slot' = [cur_slot EXCEPT ![t] = slot_idx[t]]
  /\ IF slot[slot_idx[t]].is_ready THEN Goto(t, "write") ELSE Goto(t, "finish")
  /\ UNCHANGED <<call, slot_idx, next_free_slot, procd, slot, next_slot, log,
                 clock, returned, issued>>

\* The lock is taken.  A slot that is no longer ready was written, or absorbed
\* by a newer request, while the thread waited: there is nothing to do.
Enter(t) ==
  /\ pc[t] = "lock"
  /\ mtx = NoThread
  /\ mtx' = t
  /\ cur_slot' = [cur_slot EXCEPT ![t] = slot_idx[t]]
  /\ IF ~slot[slot_idx[t]].is_ready
       THEN Goto(t, "finish")
       ELSE IF IsDeleted(next_slot[slot_idx[t]])
              THEN Goto(t, "walk")
              ELSE Goto(t, "write")
  /\ UNCHANGED <<call, slot_idx, next_free_slot, procd, slot, next_slot, log,
                 clock, returned, issued>>

\* Mutant: the walk stops at the first successor.
Walk_OneStep(t) ==
  /\ pc[t] = "walk"
  /\ slot' = [slot EXCEPT ![cur_slot[t]].is_ready = FALSE]
  /\ cur_slot' = [cur_slot EXCEPT ![t] = next_slot[cur_slot[t]].ref]
  /\ Goto(t, "write")
  /\ UNCHANGED <<call, slot_idx, next_free_slot, procd, mtx, next_slot, log,
                 clock, returned, issued>>

\* One turn of the walk along links marked deleted.  It ends on the node whose
\* link is not deleted, where assert(false) fires if that node holds another
\* key, or on the bucket's head.
Walk(t) ==
  /\ pc[t] = "walk"
  /\ LET cur == cur_slot[t]
         nxt == next_slot[cur]
     IN IF IsDeleted(nxt)
          THEN /\ slot' = [slot EXCEPT ![cur].is_ready = FALSE]
               /\ cur_slot' = [cur_slot EXCEPT ![t] = nxt.ref]
               /\ IF nxt.ref = BucketHead(call[t].hashed)
                    THEN Goto(t, "write")
                    ELSE UNCHANGED pc
          ELSE /\ IF slot[cur].hashed = call[t].hashed
                    THEN Goto(t, "write")
                    ELSE Goto(t, "abort")
               /\ UNCHANGED <<slot, cur_slot>>
  /\ UNCHANGED <<call, slot_idx, next_free_slot, procd, mtx, next_slot, log,
                 clock, returned, issued>>

\* What the log receives of a node's buffer; a head's buffer is no request's.
StampOf(n) == IF n \in Slots THEN slot[n].stamp ELSE 0

\* rsdco_rdma_write_single_rpli with the buffer of the slot the walk ended on
\* and the hash and message type of the caller, then both is_ready flags.
Write(t) ==
  /\ pc[t] = "write"
  /\ log' = Append(log, [hashed |-> call[t].hashed, msg |-> MsgOf(t),
                         stamp |-> StampOf(cur_slot[t])])
  /\ slot' = [i \in Slots |-> IF i \in {slot_idx[t], cur_slot[t]}
                                THEN [slot[i] EXCEPT !.is_ready = FALSE]
                                ELSE slot[i]]
  /\ Goto(t, "finish")
  /\ UNCHANGED <<call, slot_idx, cur_slot, next_free_slot, procd, mtx,
                 next_slot, clock, returned, issued>>

\* Mutant: the queue is taken for finished one request too early.
Finish_OneEarly(t) ==
  /\ pc[t] = "finish"
  /\ IF procd + 2 = SLOT_MAX
       THEN /\ procd' = 0
            /\ Goto(t, "buckets")
       ELSE /\ procd' = procd + 1
            /\ Goto(t, "return")
  /\ UNCHANGED <<call, slot_idx, cur_slot, next_free_slot, mtx, slot,
                 next_slot, log, clock, returned, issued>>

\* Mutant: the slots are given out again before they are cleared.
Finish_FreeFirst(t) ==
  /\ pc[t] = "finish"
  /\ IF procd + 1 = SLOT_MAX
       THEN /\ procd' = 0
            /\ next_free_slot' = 0
            /\ Goto(t, "buckets")
       ELSE /\ procd' = procd + 1
            /\ Goto(t, "return")
            /\ UNCHANGED next_free_slot
  /\ UNCHANGED <<call, slot_idx, cur_slot, mtx, slot, next_slot, log, clock,
                 returned, issued>>

\* One more slot is processed; the last one starts the reset of the queue.
Finish(t) ==
  /\ pc[t] = "finish"
  /\ IF procd + 1 = SLOT_MAX
       THEN /\ procd' = 0
            /\ Goto(t, "buckets")
       ELSE /\ procd' = procd + 1
            /\ Goto(t, "return")
  /\ UNCHANGED <<call, slot_idx, cur_slot, next_free_slot, mtx, slot,
                 next_slot, log, clock, returned, issued>>

\* doResetAll: every list becomes empty.
ResetBuckets(t) ==
  /\ pc[t] = "buckets"
  /\ next_slot' = [n \in Nodes |-> IF n \in Heads THEN Plain(n)
                                                  ELSE next_slot[n]]
  /\ Goto(t, "slots")
  /\ UNCHANGED <<call, slot_idx, cur_slot, next_free_slot, procd, mtx, slot,
                 log, clock, returned, issued>>

\* memset of the slots, links included.
ClearSlots(t) ==
  /\ pc[t] = "slots"
  /\ slot' = [i \in Slots |-> ClearSlot]
  /\ next_slot' = [n \in Nodes |-> IF n \in Slots THEN Plain(Null)
                                                  ELSE next_slot[n]]
  /\ Goto(t, "free")
  /\ UNCHANGED <<call, slot_idx, cur_slot, next_free_slot, procd, mtx, log,
                 clock, returned, issued>>

\* __sync_fetch_and_and(&next_free_slot, 0): spinning threads may claim again.
FreeSlots(t) ==
  /\ pc[t] = "free"
  /\ next_free_slot' = 0
  /\ Goto(t, "return")
  /\ UNCHANGED <<call, slot_idx, cur_slot, procd, mtx, slot, next_slot, log,
                 clock, returned, issued>>

\* The mutex is released and the call returns to its caller, who may reuse the
\* buffer from here on.
Return(t) ==
  /\ pc[t] = "return"
  /\ mtx' = NoThread
  /\ returned' = returned \cup {[hashed |-> call[t].hashed, msg |-> MsgOf(t),
                                 stamp |-> call[t].stamp]}
  /\ call' = [call EXCEPT ![t] = NoCall]
  /\ slot_idx' = [slot_idx EXCEPT ![t] = 0]
  /\ cur_slot' = [cur_slot EXCEPT ![t] = 0]
  /\ Goto(t, "idle")
  /\ UNCHANGED <<next_free_slot, procd, slot, next_slot, log, clock, issued>>

\* The steps of a thread that holds the mutex.
Critical(t) ==
  \/ Walk(t)
  \/ Write(t)
  \/ Finish(t)
  \/ ResetBuckets(t)
  \/ ClearSlots(t)
  \/ FreeSlots(t)
  \/ Return(t)

\* All calls were made and have returned.
Terminated ==
  /\ issued = MaxReq
  /\ \A t \in Threads : pc[t] = "idle"
  /\ UNCHANGED rpliVars

----------------------------------------------------------------------------
(* Properties both ways of inserting are checked against.                  *)

\* Threads that own a slot they claimed and have not finished with.
Owning == {"fill", "insert", "first", "load", "protect", "advance",
           "clean", "link", "switch", "lock", "walk", "write", "finish",
           "abort"}

Resetting == {"buckets", "slots", "free"}

\* No two calls in progress own the same slot: fetch-and-add hands each index
\* out once and a reset never gives out a slot still in use.
SlotOwnership ==
  \A t, u \in Threads :
    pc[t] \in Owning /\ pc[u] \in Owning /\ slot_idx[t] = slot_idx[u] => t = u

\* While the queue is reset no other thread owns a slot, so doResetAll and the
\* memset pull no list from under a search and erase no waiting request; the
\* slots are not given out before they are cleared.
ResetQuiescent ==
  \A t \in Threads :
    pc[t] \in Resetting => /\ \A u \in Threads : pc[u] \notin Owning
                           /\ next_free_slot >= SLOT_MAX

\* When rsdco_request_to_rpli returns, the log holds the request or one of the
\* same key inserted after it: an absorbed request was superseded in the log,
\* never dropped.
Durable ==
  \A r \in returned :
    \E i \in 1 .. Len(log) :
      log[i].hashed = r.hashed /\ log[i].stamp >= r.stamp

\* Requests of one key reach the log in the order of their insertion: an older
\* one is never written after a newer one.
KeyOrder ==
  \A i, j \in 1 .. Len(log) :
    i < j /\ log[i].hashed = log[j].hashed => log[i].stamp <= log[j].stamp

\* The "Not ready: ..., skipped" branch of rsdco_reqs.cc: a request that is not
\* ready any more, because it was written, is not written again.  The code
\* does not keep this: it looks at the caller's own slot only.
NotReadySkipped ==
  \A i, j \in 1 .. Len(log) : log[i].stamp = log[j].stamp => i = j

\* "Receiver: Mine! Reply as ACK" of rsdco_detect_action_rcvr: when the
\* receiver's call returns, an ACK of the key is in the log at or after it.
AckReplied ==
  \A r \in returned : r.msg = MSG_ACK =>
    \E i \in 1 .. Len(log) :
      /\ log[i].msg = MSG_ACK
      /\ log[i].hashed = r.hashed
      /\ log[i].stamp >= r.stamp

\* assert(false) in the walk does not fire: links marked deleted lead from a
\* request to a newer one of the same key.
NoAbort == \A t \in Threads : pc[t] # "abort"

\* Every call returns: the slots a spinning thread waits for come back, and
\* the mutex is always released.
EveryCallReturns ==
  \A t \in Threads : pc[t] = "claim" ~> pc[t] = "idle"
=============================================================================
