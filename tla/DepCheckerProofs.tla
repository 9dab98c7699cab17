-------------------------- MODULE DepCheckerProofs --------------------------
(***************************************************************************)
(* Two things about the lock-free hash table, for any number of threads,   *)
(* slots, keys and calls.                                                  *)
(*                                                                         *)
(* Whatever keys share a bucket, no search or walk leaves its bucket's     *)
(* list (DepTypeOK), no two calls own a slot, and a reset finds nobody in  *)
(* the table.                                                              *)
(*                                                                         *)
(* While no two keys share a bucket, the lock-free insertion implements    *)
(* the atomic one.                                                         *)
(*                                                                         *)
(* The proofs about RequestToRpli are used here through the refinement     *)
(* mapping.                                                                *)
(***************************************************************************)
EXTENDS DepCheckerInv, TLAPS

Abstract == INSTANCE RequestToRpliProofs WITH
  pc <- [t \in Threads |-> AbstractPc(t)],
  next_slot <- [n \in Nodes |-> AbstractLink(n)]

----------------------------------------------------------------------------
(* Constants.                                                              *)

LEMMA SameConstants ==
  /\ Abstract!Slots = Slots /\ Abstract!Heads = Heads /\ Abstract!Nodes = Nodes
  /\ Abstract!Null = Null /\ Abstract!ClearSlot = ClearSlot /\ Abstract!NoCall = NoCall
  /\ Abstract!Owning = Owning /\ Abstract!Resetting = Resetting
  /\ \A n : /\ Abstract!Plain(n) = Plain(n) /\ Abstract!Deleted(n) = Deleted(n)
            /\ Abstract!BucketHead(n) = BucketHead(n)
            /\ Abstract!IsDeleted(n) = IsDeleted(n)
            /\ Abstract!MsgOf(n) = MsgOf(n)
            /\ Abstract!StampOf(n) = StampOf(n)
BY DEF Abstract!Slots, Slots, Abstract!Heads, Heads, Abstract!Nodes, Nodes, Abstract!Null, Null,
       Abstract!ClearSlot, ClearSlot, Abstract!NoCall, NoCall, Abstract!Owning, Owning,
       Abstract!Resetting, Resetting, Abstract!Plain, Plain, Abstract!Deleted, Deleted,
       Abstract!BucketHead, BucketHead, Abstract!IsDeleted, IsDeleted, Abstract!MsgOf, MsgOf,
       Abstract!MSG_ACK, MSG_ACK, Abstract!MSG_PURE, MSG_PURE, Abstract!StampOf, StampOf

\* A slot is not a head, and the head of a key's bucket is one.
LEMMA NodeFacts ==
  /\ Slots \subseteq Nodes /\ Heads \subseteq Nodes /\ Slots \cap Heads = {}
  /\ \A i \in Slots : i \in Nat /\ i # Null
  /\ \A h \in Hashes : BucketHead(h) \in Heads
<1>1. SLOT_MAX \in Nat /\ SLOT_MAX > 0 /\ NBuckets \in Nat /\ NBuckets > 0
  BY RpliAssumption
<1>2. ASSUME NEW h \in Hashes  PROVE BucketHead(h) \in Heads
  <2>1. h % NBuckets \in 0 .. NBuckets - 1
    BY <1>1, RpliAssumption
  <2> QED  BY <1>1, <2>1 DEF BucketHead, Heads
<1> QED  BY <1>1, <1>2 DEF Slots, Heads, Nodes, Null

LEMMA LinkFacts ==
  /\ \A n : ~IsDeleted(Plain(n)) /\ ~IsDeleted(Protected(n)) /\ IsDeleted(Deleted(n))
  /\ \A n, m : /\ Plain(n) # Protected(m) /\ Deleted(n) # Protected(m) /\ Plain(n) # Deleted(m)
               /\ (Plain(n) = Plain(m) => n = m)
  /\ \A n : Plain(n).ref = n /\ Protected(n).ref = n /\ Deleted(n).ref = n
  /\ \A n \in Nodes \cup {Null} :
       Plain(n) \in LinkValues /\ Protected(n) \in LinkValues /\ Deleted(n) \in LinkValues
BY DEF IsDeleted, Plain, Protected, Deleted, LinkValues

----------------------------------------------------------------------------
(* The refinement mapping.                                                 *)

LEMMA MapPc ==
  ASSUME DepTypes, NEW t \in Threads, NEW label, label \notin Searching,
         pc' = [pc EXCEPT ![t] = label]
  PROVE  [u \in Threads |-> AbstractPc(u)]' = [[u \in Threads |-> AbstractPc(u)] EXCEPT ![t] = label]
BY DEF AbstractPc, DepTypes

\* A search that goes on has not inserted yet.
LEMMA MapSearch ==
  ASSUME DepTypes, NEW t \in Threads, NEW label \in Searching \cup {"insert"},
         pc[t] \in Searching \cup {"insert"}, pc' = [pc EXCEPT ![t] = label]
  PROVE  [u \in Threads |-> AbstractPc(u)]' = [u \in Threads |-> AbstractPc(u)]
BY DEF AbstractPc, DepTypes

LEMMA MapSame ==
  ASSUME next_slot' = next_slot
  PROVE  [n \in Nodes |-> AbstractLink(n)]' = [n \in Nodes |-> AbstractLink(n)]
BY DEF AbstractLink

\* What the abstract view shows of a thread that does not search.
LEMMA MapHere ==
  ASSUME NEW t \in Threads, pc[t] \notin Searching
  PROVE  [u \in Threads |-> AbstractPc(u)][t] = pc[t]
BY DEF AbstractPc

\* A link is deleted in the one view if it is in the other.
LEMMA MapDeleted ==
  ASSUME NEW i \in Slots
  PROVE  /\ IsDeleted([n \in Nodes |-> AbstractLink(n)][i]) <=> IsDeleted(next_slot[i])
         /\ IsDeleted(next_slot[i]) => [n \in Nodes |-> AbstractLink(n)][i] = next_slot[i]
BY NodeFacts, LinkFacts DEF AbstractLink

----------------------------------------------------------------------------
(* The steps that the proof about the queue has to know as a whole.        *)

LEMMA ClaimRefines ==
  ASSUME DepTypes, NEW t \in Threads, Claim(t)  PROVE Abstract!Claim(t)
<1>1. pc[t] = "claim" /\ next_slot' = next_slot
  BY DEF Claim
<1>2. "claim" \notin Searching /\ "fill" \notin Searching
  BY DEF Searching
<1>3. [u \in Threads |-> AbstractPc(u)][t] = "claim"
  BY <1>1, <1>2, MapHere
<1>4. CASE next_free_slot < SLOT_MAX
  <2>1. pc' = [pc EXCEPT ![t] = "fill"]
    BY <1>4 DEF Claim, Goto
  <2>2. [u \in Threads |-> AbstractPc(u)]' = [[u \in Threads |-> AbstractPc(u)] EXCEPT ![t] = "fill"]
    BY <1>2, <2>1, MapPc
  <2> QED  BY <1>1, <1>3, <1>4, <2>2, MapSame DEF Claim, Abstract!Claim, Abstract!Goto
<1>5. CASE ~(next_free_slot < SLOT_MAX)
  <2>1. pc' = pc
    BY <1>5 DEF Claim
  <2>2. [u \in Threads |-> AbstractPc(u)]' = [u \in Threads |-> AbstractPc(u)]
    BY <2>1 DEF AbstractPc
  <2> QED  BY <1>1, <1>3, <1>5, <2>2, MapSame DEF Claim, Abstract!Claim
<1> QED  BY <1>4, <1>5

LEMMA FinishRefines ==
  ASSUME DepTypes, NEW t \in Threads, Finish(t)  PROVE Abstract!Finish(t)
<1>1. pc[t] = "finish" /\ next_slot' = next_slot
  BY DEF Finish
<1>2. \A l \in {"finish", "buckets", "return"} : l \notin Searching
  BY DEF Searching
<1>3. [u \in Threads |-> AbstractPc(u)][t] = "finish"
  BY <1>1, <1>2, MapHere
<1>4. \A l \in {"buckets", "return"} : Goto(t, l) => Abstract!Goto(t, l)
  BY <1>2, MapPc DEF Goto, Abstract!Goto
<1> QED  BY <1>1, <1>3, <1>4, MapSame DEF Finish, Abstract!Finish

LEMMA FreeSlotsRefines ==
  ASSUME DepTypes, NEW t \in Threads, FreeSlots(t)  PROVE Abstract!FreeSlots(t)
<1>1. pc[t] = "free" /\ pc' = [pc EXCEPT ![t] = "return"] /\ next_slot' = next_slot
  BY DEF FreeSlots, Goto
<1>2. "free" \notin Searching /\ "return" \notin Searching
  BY DEF Searching
<1> QED  BY <1>1, <1>2, MapPc, MapSame, MapHere, SameConstants DEF FreeSlots, Abstract!FreeSlots, Abstract!Goto

LEMMA ReturnRefines ==
  ASSUME DepTypes, NEW t \in Threads, Return(t)  PROVE Abstract!Return(t)
<1>1. pc[t] = "return" /\ pc' = [pc EXCEPT ![t] = "idle"] /\ next_slot' = next_slot
  BY DEF Return, Goto
<1>2. "return" \notin Searching /\ "idle" \notin Searching
  BY DEF Searching
<1> QED  BY <1>1, <1>2, MapPc, MapSame, MapHere, SameConstants DEF Return, Abstract!Return, Abstract!Goto

----------------------------------------------------------------------------
(* The queue: who owns a slot and who resets, with the insertion in steps. *)

DepLabels == Searching \cup {"idle", "claim", "fill", "insert", "lock", "walk", "write",
                            "finish", "buckets", "slots", "free", "return", "abort"}

\* The labels between lock and unlock.
Locked == {"walk", "write", "finish", "buckets", "slots", "free", "return", "abort"}

LEMMA QueueTypesHold == BucketTypes => Abstract!QueueTypes
BY SameConstants DEF BucketTypes, DepTypes, AbstractPc, Searching, Abstract!QueueTypes,
                     Abstract!PcLabels

LEMMA QueueFacts ==
  ASSUME BucketTypes, Abstract!QueueInv
  PROVE  /\ SlotOwnership /\ ResetQuiescent
         /\ \A t \in Threads : pc[t] \in Owning => slot_idx[t] < next_free_slot
         /\ \A t \in Threads : pc[t] \in Locked <=> mtx = t
<1> DEFINE apc == [t \in Threads |-> AbstractPc(t)]
<1>1. Abstract!SlotOwnership /\ Abstract!ResetQuiescent /\ Abstract!OwnedClaimed
     /\ Abstract!MutexHeld
  BY DEF Abstract!QueueInv
<1>2. \A t \in Threads : /\ apc[t] \in Owning <=> pc[t] \in Owning
                         /\ apc[t] \in Resetting <=> pc[t] \in Resetting
                         /\ apc[t] \in Locked <=> pc[t] \in Locked
  BY DEF BucketTypes, DepTypes, AbstractPc, Searching, Owning, Resetting, Locked
<1> HIDE DEF apc
<1>3. SlotOwnership
  BY <1>1, <1>2, SameConstants DEF SlotOwnership, Abstract!SlotOwnership, apc
<1>4. ResetQuiescent
  BY <1>1, <1>2, SameConstants DEF ResetQuiescent, Abstract!ResetQuiescent, apc
<1>5. \A t \in Threads : pc[t] \in Owning => slot_idx[t] < next_free_slot
  BY <1>1, <1>2, SameConstants DEF Abstract!OwnedClaimed, apc
<1>6. \A t \in Threads : pc[t] \in Locked <=> mtx = t
  BY <1>1, <1>2 DEF Abstract!MutexHeld, Abstract!InMutex, Locked, apc
<1> QED  BY <1>3, <1>4, <1>5, <1>6

\* A step between labels of the same standing.
LEMMA MoveKeepsQueue ==
  ASSUME BucketTypes, Abstract!QueueInv, NEW t \in Threads, NEW label \in DepLabels,
         pc' = [pc EXCEPT ![t] = label],
         label \in Owning <=> pc[t] \in Owning,
         label \in Resetting <=> pc[t] \in Resetting,
         label \in Locked <=> pc[t] \in Locked,
         UNCHANGED <<slot_idx, next_free_slot, procd, mtx>>
  PROVE  Abstract!QueueInv'
<1> DEFINE apc == [u \in Threads |-> AbstractPc(u)]
           to == IF label \in Searching THEN "insert" ELSE label
<1>1. apc' = [apc EXCEPT ![t] = to]
  BY DEF AbstractPc, BucketTypes, DepTypes
<1>2. /\ to \in Owning <=> apc[t] \in Owning
      /\ to \in Resetting <=> apc[t] \in Resetting
      /\ to \in Locked <=> apc[t] \in Locked
  BY DEF BucketTypes, DepTypes, DepLabels, AbstractPc, Searching, Owning, Resetting, Locked
<1>3. Abstract!InMutex = Locked /\ Abstract!QueueTypes
  BY QueueTypesHold DEF Abstract!InMutex, Locked
<1> HIDE DEF to
<1> QED  BY <1>1, <1>2, <1>3, SameConstants, Abstract!QueueMove, RpliAssumption

\* The steps that take a slot, give one up, or take or leave the mutex are those
\* of RequestToRpli.
LEMMA StepKeepsQueue ==
  ASSUME BucketTypes, Abstract!QueueInv, NEW t \in Threads, DepStep(t) \/ (Call(t) /\ UNCHANGED reg)
  PROVE  Abstract!QueueInv'
<1> USE DEF Goto, Owning, Resetting, Locked, Searching, DepLabels
<1>0. Abstract!QueueTypes /\ DepTypes
  BY QueueTypesHold DEF BucketTypes
<1>1. CASE Call(t)
  BY <1>1, MoveKeepsQueue DEF Call
<1>2. CASE Claim(t)
  BY <1>0, <1>2, ClaimRefines, Abstract!QueueClaim, RpliAssumption
<1>3. CASE Fill(t)
  BY <1>3, MoveKeepsQueue DEF Fill
<1>4. CASE Enter(t)
  <2>1. PICK label \in {"walk", "write", "finish"} : pc' = [pc EXCEPT ![t] = label]
    BY <1>4 DEF Enter
  <2>2. /\ pc[t] = "lock" /\ mtx = NoThread /\ mtx' = t
        /\ UNCHANGED <<slot_idx, next_free_slot, procd>>
    BY <1>4 DEF Enter
  <2>3. /\ [u \in Threads |-> AbstractPc(u)]' = [[u \in Threads |-> AbstractPc(u)] EXCEPT ![t] = label]
        /\ [u \in Threads |-> AbstractPc(u)][t] = "lock"
    BY <1>0, <2>1, <2>2, MapPc, MapHere
  <2> QED  BY <1>0, <2>2, <2>3, Abstract!QueueEnter, RpliAssumption
<1>5. CASE Walk(t)
  <2>1. PICK label \in {"walk", "write", "abort"} : pc' = [pc EXCEPT ![t] = label]
    BY <1>0, <1>5 DEF Walk, DepTypes
  <2>2. pc[t] = "walk" /\ UNCHANGED <<slot_idx, next_free_slot, procd, mtx>>
    BY <1>5 DEF Walk
  <2> QED  BY <2>1, <2>2, MoveKeepsQueue
<1>6. CASE Write(t)
  BY <1>6, MoveKeepsQueue DEF Write
<1>7. CASE Finish(t)
  BY <1>0, <1>7, FinishRefines, Abstract!QueueFinish, RpliAssumption
<1>8. CASE ResetBuckets(t)
  BY <1>8, MoveKeepsQueue DEF ResetBuckets
<1>9. CASE ClearSlots(t)
  BY <1>9, MoveKeepsQueue DEF ClearSlots
<1>10. CASE FreeSlots(t)
  BY <1>0, <1>10, FreeSlotsRefines, Abstract!QueueFree, RpliAssumption
<1>11. CASE Return(t)
  BY <1>0, <1>11, ReturnRefines, Abstract!QueueReturn, RpliAssumption
<1>12. CASE TryInsert(t)
  <2>1. /\ pc[t] \in Searching \cup {"insert"}
        /\ UNCHANGED <<slot_idx, next_free_slot, procd, mtx>>
    BY <1>12 DEF TryInsert, SearchHead, SearchFirst, Load, Protect, Advance, CleanUp, Link, Switch,
                 Succeed, Retry, Again, searchUnchanged
  <2>2. PICK label \in Searching \cup {"insert", "lock"} : pc' = [pc EXCEPT ![t] = label]
    <3>1. pc' = pc => pc' = [pc EXCEPT ![t] = pc[t]]
      BY <1>0 DEF DepTypes
    <3>2. \/ pc' = pc
          \/ \E label \in Searching \cup {"insert", "lock"} : pc' = [pc EXCEPT ![t] = label]
      BY <1>12 DEF TryInsert, SearchHead, SearchFirst, Load, Protect, Advance, CleanUp, Link, Switch,
                   Succeed, Inserted, Retry, Again, searchUnchanged
    <3> QED  BY <2>1, <3>1, <3>2
  <2> QED  BY <2>1, <2>2, MoveKeepsQueue
<1> QED  BY <1>1, <1>2, <1>3, <1>4, <1>5, <1>6, <1>7, <1>8, <1>9, <1>10, <1>11, <1>12
         DEF DepStep, Critical

----------------------------------------------------------------------------
(* The lists of the buckets.                                               *)

LEMMA BucketFactsOf ==
  /\ \A b \in Heads : \A n : InBucket(n, b) => n \in Nodes /\ (n # b => n \in Slots)
  /\ \A b, c \in Heads : \A n : InBucket(n, b) /\ InBucket(n, c) => b = c
  /\ \A b : InBucket(b, b)
BY NodeFacts DEF InBucket

\* A request stays in its bucket while it stays in the table.
LEMMA BucketStays ==
  ASSUME \A i \in Slots :
           slot[i].stamp > 0 => slot'[i].stamp > 0 /\ slot'[i].hashed = slot[i].hashed,
         NEW n, NEW b, InBucket(n, b)
  PROVE  InBucket(n, b)'
BY DEF InBucket

\* What a step of thread t changes of the others' slots: nothing.  Its own slot,
\* while it owns one, may be filled or get its stamp.
LEMMA BucketFrame ==
  ASSUME BucketInv, Abstract!QueueInv, BucketTypes', BucketLinks', NEW t \in Threads,
         \A i \in Slots : \/ slot'[i].stamp = slot[i].stamp /\ slot'[i].hashed = slot[i].hashed
                          \/ i = slot_idx[t] /\ pc[t] \in Owning /\ slot[i].stamp = 0,
         next_free_slot' >= next_free_slot \/ \A i \in Slots : slot'[i].stamp = 0,
         \A n \in Heads : next_slot'[n] \in {next_slot[n], Plain(n)} \/ pc[t] \in Owning,
         \A u \in Threads \ {t} : /\ pc'[u] = pc[u] /\ reg'[u] = reg[u] /\ call'[u] = call[u]
                                 /\ slot_idx'[u] = slot_idx[u] /\ cur_slot'[u] = cur_slot[u],
         CallInBucket(t)'
  PROVE  BucketInv'
<1>1. /\ BucketTypes /\ SlotOwnership /\ ResetQuiescent
      /\ \A u \in Threads : pc[u] \in Owning => slot_idx[u] < next_free_slot
  BY QueueFacts DEF BucketInv
<1>2. FreeEmpty'
  <2>1. ASSUME NEW i \in Slots, i >= next_free_slot', next_free_slot' >= next_free_slot
        PROVE  slot'[i].stamp = 0
    <3>1. i \in Nat /\ next_free_slot \in Nat /\ next_free_slot' \in Nat
      BY <1>1, NodeFacts DEF BucketTypes
    <3>2. i >= next_free_slot /\ slot[i].stamp = 0
      BY <2>1, <3>1 DEF BucketInv, FreeEmpty
    <3>3. ~(i = slot_idx[t] /\ pc[t] \in Owning)
      BY <1>1, <3>1, <3>2
    <3> QED  BY <3>2, <3>3
  <2> QED  BY <2>1 DEF FreeEmpty
<1>3. ASSUME NEW u \in Threads \ {t}  PROVE CallInBucket(u)'
  <2> DEFINE h == call[u].hashed
             b == BucketHead(h)
  <2>1. CallInBucket(u) /\ pc'[u] = pc[u] /\ reg'[u] = reg[u] /\ call'[u] = call[u]
        /\ slot_idx'[u] = slot_idx[u] /\ cur_slot'[u] = cur_slot[u] /\ slot_idx[u] \in Slots
    BY <1>1 DEF BucketInv, BucketTypes
  <2>2. \A i \in Slots :
          slot[i].stamp > 0 => slot'[i].stamp > 0 /\ slot'[i].hashed = slot[i].hashed
    OBVIOUS
  <2>3. pc[u] \in Owning => /\ slot'[slot_idx[u]].stamp = slot[slot_idx[u]].stamp
                            /\ slot'[slot_idx[u]].hashed = slot[slot_idx[u]].hashed
    BY <1>1, <2>1 DEF SlotOwnership
  <2>4. pc[u] \in Searching \cup {"fill", "insert", "lock"} => pc[u] \in Owning
    BY DEF Searching, Owning
  <2>5. pc[u] = "free" => \A i \in Slots : slot'[i].stamp = 0
    <3>1. pc[u] = "free" => pc[t] \notin Owning
      BY <1>1 DEF ResetQuiescent, Resetting
    <3> QED  BY <2>1, <3>1 DEF CallInBucket
  <2>50. pc[u] = "slots" => \A n \in Heads : next_slot'[n] = Plain(n)
    <3>1. pc[u] = "slots" => pc[t] \notin Owning
      BY <1>1 DEF ResetQuiescent, Resetting
    <3> QED  BY <2>1, <3>1 DEF CallInBucket
  <2>6. BucketHead(call'[u].hashed) = b
    BY <2>1
  <2>7. \A n : InBucket(n, b) => InBucket(n, b)'
    <3> SUFFICES ASSUME NEW n, NEW c, c = b, InBucket(n, c)  PROVE InBucket(n, c)'
      BY <2>6
    <3> QED  BY <2>2, BucketStays
  <2>8. /\ pc[u] \in Searching \cup {"claim", "fill", "insert", "lock", "walk"} => h \in Hashes
        /\ pc[u] \in Searching \cup {"fill", "insert"} => slot'[slot_idx[u]].stamp = 0
        /\ pc[u] \in Searching \cup {"insert", "lock"} => slot'[slot_idx[u]].hashed = h
        /\ pc[u] = "lock" => slot'[slot_idx[u]].stamp > 0
    BY <2>1, <2>3, <2>4 DEF CallInBucket
  <2>9. /\ pc[u] = "walk" => cur_slot[u] \in Slots /\ InBucket(cur_slot[u], b)'
        /\ pc[u] \in Searching => InBucket(reg[u].prev, b)'
        /\ pc[u] \in Searching \ {"first"} => InBucket(reg[u].curr, b)'
        /\ pc[u] \in {"protect", "advance", "switch"} => reg[u].curr \in Slots
        /\ pc[u] \in {"protect", "advance", "switch", "clean", "link"}
            => InBucket(reg[u].curr_next.ref, b)'
    BY <2>1, <2>7 DEF CallInBucket
  <2> HIDE DEF h, b
  <2> QED  BY <2>1, <2>5, <2>50, <2>6, <2>8, <2>9 DEF CallInBucket, h, b
<1> QED  BY <1>2, <1>3 DEF BucketInv

\* Links that lead to a node of the same bucket may change.
LEMMA LinksKept ==
  ASSUME BucketInv,
         \A i \in Slots : /\ slot'[i].stamp = slot[i].stamp
                          /\ slot[i].stamp > 0 => slot'[i].hashed = slot[i].hashed,
         \A b \in Heads : \A n \in Nodes : InBucket(n, b) =>
           next_slot'[n] = next_slot[n] \/ InBucket(next_slot'[n].ref, b)
  PROVE  BucketLinks'
<1>1. ASSUME NEW b \in Heads, NEW n \in Nodes, InBucket(n, b)'
      PROVE  InBucket(next_slot[n].ref, b)'
  <2>1. InBucket(n, b)
    BY <1>1 DEF InBucket
  <2>2. InBucket(next_slot'[n].ref, b)
    BY <2>1 DEF BucketInv, BucketLinks
  <2> QED  BY <2>2 DEF InBucket
<1> QED  BY <1>1 DEF BucketLinks

\* A call is bound to its bucket from the claim to the end of the walk only.
LEMMA CallUnbound ==
  ASSUME NEW t \in Threads,
         pc'[t] \in {"idle", "write", "finish", "buckets", "return", "abort"}
  PROVE  CallInBucket(t)'
BY DEF CallInBucket, Searching

\* A step that touches neither links nor a search.
LEMMA QuietStep ==
  ASSUME BucketInv, Abstract!QueueInv, NEW t \in Threads,
         \E l \in DepLabels : pc' = [pc EXCEPT ![t] = l],
         next_slot' = next_slot, reg' = reg, clock' = clock,
         call' \in [Threads -> [hashed : Nat, stamp : Nat]],
         slot_idx' \in [Threads -> Slots],
         cur_slot' \in [Threads -> Nodes],
         next_free_slot' \in Nat, procd' \in Slots, mtx' \in Threads \cup {NoThread},
         slot' \in [Slots -> [hashed : Nat, is_ready : BOOLEAN, stamp : Nat]],
         \A u \in Threads \ {t} : /\ call'[u] = call[u] /\ slot_idx'[u] = slot_idx[u]
                                 /\ cur_slot'[u] = cur_slot[u],
         \A i \in Slots : /\ slot'[i].stamp = slot[i].stamp
                          /\ \/ slot'[i].hashed = slot[i].hashed
                             \/ i = slot_idx[t] /\ pc[t] \in Owning /\ slot[i].stamp = 0,
         next_free_slot' >= next_free_slot \/ \A i \in Slots : slot'[i].stamp = 0,
         CallInBucket(t)'
  PROVE  BucketInv'
<1>1. /\ BucketTypes /\ pc \in [Threads -> DepLabels]
  BY DEF BucketInv, BucketTypes, DepTypes, DepLabels
<1>2. pc' \in [Threads -> DepLabels] /\ \A u \in Threads \ {t} : pc'[u] = pc[u]
  BY <1>1
<1>3. BucketTypes'
  BY <1>1, <1>2 DEF BucketTypes, DepTypes, DepLabels
<1>4. BucketLinks'
  <2>1. \A i \in Slots : /\ slot'[i].stamp = slot[i].stamp
                         /\ slot[i].stamp > 0 => slot'[i].hashed = slot[i].hashed
    BY <1>1 DEF BucketTypes
  <2> QED  BY <2>1, LinksKept
<1>5. \A u \in Threads \ {t} : /\ pc'[u] = pc[u] /\ reg'[u] = reg[u] /\ call'[u] = call[u]
                              /\ slot_idx'[u] = slot_idx[u] /\ cur_slot'[u] = cur_slot[u]
  BY <1>1, <1>2
<1>6. \A i \in Slots : \/ slot'[i].stamp = slot[i].stamp /\ slot'[i].hashed = slot[i].hashed
                       \/ i = slot_idx[t] /\ pc[t] \in Owning /\ slot[i].stamp = 0
  OBVIOUS
<1> QED  BY <1>3, <1>4, <1>5, <1>6, BucketFrame

LEMMA BucketTypesOf ==
  ASSUME BucketInv
  PROVE  /\ pc \in [Threads -> DepLabels] /\ DepTypes /\ BucketTypes
         /\ call \in [Threads -> [hashed : Nat, stamp : Nat]]
         /\ slot_idx \in [Threads -> Slots] /\ cur_slot \in [Threads -> Nodes]
         /\ next_free_slot \in Nat /\ procd \in Slots /\ mtx \in Threads \cup {NoThread}
         /\ slot \in [Slots -> [hashed : Nat, is_ready : BOOLEAN, stamp : Nat]]
         /\ next_slot \in [Nodes -> LinkValues] /\ reg \in [Threads -> RegValues]
         /\ clock \in Nat
         /\ \A t \in Threads : CallInBucket(t)
         /\ Hashes \subseteq Nat /\ Slots \subseteq Nodes /\ Heads \subseteq Nodes
         /\ SLOT_MAX \in Nat /\ 0 \in Slots /\ Slots \subseteq Nat
<1>1. SLOT_MAX \in Nat /\ SLOT_MAX > 0 /\ Hashes \subseteq Nat
  BY RpliAssumption
<1>2. 0 \in Slots
  BY <1>1 DEF Slots
<1> QED  BY <1>1, <1>2, NodeFacts DEF BucketInv, BucketTypes, DepTypes, DepLabels

LEMMA BucketCall ==
  ASSUME BucketInv, Abstract!QueueInv, NEW t \in Threads, Call(t), reg' = reg
  PROVE  BucketInv'
<1>1. PICK k \in Hashes : call' = [call EXCEPT ![t] = [hashed |-> k, stamp |-> 0]]
  BY DEF Call
<1>2. pc' = [pc EXCEPT ![t] = "claim"] /\ "claim" \in DepLabels
      /\ UNCHANGED <<slot_idx, cur_slot, next_free_slot, procd, mtx, slot, next_slot, clock>>
  BY DEF Call, Goto, DepLabels
<1>3. pc'[t] = "claim" /\ call'[t].hashed = k /\ k \in Nat
      /\ call' \in [Threads -> [hashed : Nat, stamp : Nat]]
  BY <1>1, <1>2, BucketTypesOf
<1>4. CallInBucket(t)'
  BY <1>3 DEF CallInBucket, Searching
<1>5. \A u \in Threads \ {t} : call'[u] = call[u]
  BY <1>1
<1>6. /\ \A u \in Threads \ {t} : /\ call'[u] = call[u] /\ slot_idx'[u] = slot_idx[u]
                                /\ cur_slot'[u] = cur_slot[u]
      /\ \A i \in Slots : /\ slot'[i].stamp = slot[i].stamp
                          /\ \/ slot'[i].hashed = slot[i].hashed
                             \/ i = slot_idx[t] /\ pc[t] \in Owning /\ slot[i].stamp = 0
  BY <1>1, <1>2, <1>3, <1>4, <1>5
<1>7. /\ next_free_slot' >= next_free_slot \/ \A i \in Slots : slot'[i].stamp = 0
      /\ call' \in [Threads -> [hashed : Nat, stamp : Nat]]
      /\ slot_idx' \in [Threads -> Slots] /\ cur_slot' \in [Threads -> Nodes]
      /\ next_free_slot' \in Nat /\ procd' \in Slots /\ mtx' \in Threads \cup {NoThread}
      /\ slot' \in [Slots -> [hashed : Nat, is_ready : BOOLEAN, stamp : Nat]]
  BY <1>1, <1>2, <1>3, <1>4, <1>5, BucketTypesOf
<1>8. \E m \in DepLabels : pc' = [pc EXCEPT ![t] = m]
  BY <1>1, <1>2, <1>3, <1>4, <1>5
<1>9. next_slot' = next_slot /\ reg' = reg /\ clock' = clock /\ CallInBucket(t)'
  BY <1>1, <1>2, <1>3, <1>4, <1>5
<1> QED  BY <1>6, <1>7, <1>8, <1>9, QuietStep

LEMMA BucketClaim ==
  ASSUME BucketInv, Abstract!QueueInv, NEW t \in Threads, Claim(t), reg' = reg
  PROVE  BucketInv'
<1>1. /\ pc[t] = "claim" /\ next_free_slot' = next_free_slot + 1 /\ call[t].hashed \in Hashes
      /\ UNCHANGED <<call, cur_slot, procd, mtx, slot, next_slot, clock>>
  BY BucketTypesOf DEF Claim, CallInBucket
<1>2. next_free_slot' \in Nat /\ next_free_slot' >= next_free_slot
  BY <1>1, BucketTypesOf
<1>3. CASE next_free_slot < SLOT_MAX
  <2>1. /\ slot_idx' = [slot_idx EXCEPT ![t] = next_free_slot] /\ pc' = [pc EXCEPT ![t] = "fill"]
        /\ next_free_slot \in Slots /\ "fill" \in DepLabels
    BY SMTT(60), <1>3, BucketTypesOf DEF Claim, Goto, Slots, DepLabels
  <2>2. slot[next_free_slot].stamp = 0
    BY <2>1, BucketTypesOf DEF BucketInv, FreeEmpty
  <2>3. pc'[t] = "fill" /\ slot_idx'[t] = next_free_slot /\ slot_idx' \in [Threads -> Slots]
        /\ \A u \in Threads \ {t} : slot_idx'[u] = slot_idx[u]
    BY <2>1, BucketTypesOf
  <2>4. CallInBucket(t)'
    BY <1>1, <2>2, <2>3 DEF CallInBucket, Searching
  <2>5. /\ \A u \in Threads \ {t} : /\ call'[u] = call[u] /\ slot_idx'[u] = slot_idx[u]
                                  /\ cur_slot'[u] = cur_slot[u]
        /\ \A i \in Slots : /\ slot'[i].stamp = slot[i].stamp
                            /\ \/ slot'[i].hashed = slot[i].hashed
                               \/ i = slot_idx[t] /\ pc[t] \in Owning /\ slot[i].stamp = 0
    BY <1>1, <1>2, <2>1, <2>3, <2>4
  <2>6. /\ next_free_slot' >= next_free_slot \/ \A i \in Slots : slot'[i].stamp = 0
        /\ call' \in [Threads -> [hashed : Nat, stamp : Nat]]
        /\ slot_idx' \in [Threads -> Slots] /\ cur_slot' \in [Threads -> Nodes]
        /\ next_free_slot' \in Nat /\ procd' \in Slots /\ mtx' \in Threads \cup {NoThread}
        /\ slot' \in [Slots -> [hashed : Nat, is_ready : BOOLEAN, stamp : Nat]]
    BY <1>1, <1>2, <2>1, <2>3, <2>4, BucketTypesOf
  <2>7. \E m \in DepLabels : pc' = [pc EXCEPT ![t] = m]
    BY <1>1, <1>2, <2>1, <2>3, <2>4
  <2>8. next_slot' = next_slot /\ reg' = reg /\ clock' = clock /\ CallInBucket(t)'
    BY <1>1, <1>2, <2>1, <2>3, <2>4
  <2> QED  BY <2>5, <2>6, <2>7, <2>8, QuietStep
<1>4. CASE ~(next_free_slot < SLOT_MAX)
  <2>1. slot_idx' = slot_idx /\ pc' = pc
    BY <1>4 DEF Claim
  <2>2. pc' = [pc EXCEPT ![t] = "claim"] /\ "claim" \in DepLabels
    BY <1>1, <2>1, BucketTypesOf DEF DepLabels
  <2>3. CallInBucket(t)'
    BY <1>1, <2>1 DEF CallInBucket, Searching
  <2>4. /\ \A u \in Threads \ {t} : /\ call'[u] = call[u] /\ slot_idx'[u] = slot_idx[u]
                                  /\ cur_slot'[u] = cur_slot[u]
        /\ \A i \in Slots : /\ slot'[i].stamp = slot[i].stamp
                            /\ \/ slot'[i].hashed = slot[i].hashed
                               \/ i = slot_idx[t] /\ pc[t] \in Owning /\ slot[i].stamp = 0
    BY <1>1, <1>2, <2>1, <2>2, <2>3
  <2>5. /\ next_free_slot' >= next_free_slot \/ \A i \in Slots : slot'[i].stamp = 0
        /\ call' \in [Threads -> [hashed : Nat, stamp : Nat]]
        /\ slot_idx' \in [Threads -> Slots] /\ cur_slot' \in [Threads -> Nodes]
        /\ next_free_slot' \in Nat /\ procd' \in Slots /\ mtx' \in Threads \cup {NoThread}
        /\ slot' \in [Slots -> [hashed : Nat, is_ready : BOOLEAN, stamp : Nat]]
    BY <1>1, <1>2, <2>1, <2>2, <2>3, BucketTypesOf
  <2>6. \E m \in DepLabels : pc' = [pc EXCEPT ![t] = m]
    BY <1>1, <1>2, <2>1, <2>2, <2>3
  <2>7. next_slot' = next_slot /\ reg' = reg /\ clock' = clock /\ CallInBucket(t)'
    BY <1>1, <1>2, <2>1, <2>2, <2>3
  <2> QED  BY <2>4, <2>5, <2>6, <2>7, QuietStep
<1> QED  BY <1>3, <1>4

LEMMA BucketFill ==
  ASSUME BucketInv, Abstract!QueueInv, NEW t \in Threads, Fill(t), reg' = reg
  PROVE  BucketInv'
<1> DEFINE h == call[t].hashed
           s == slot_idx[t]
<1>1. /\ pc[t] = "fill" /\ pc' = [pc EXCEPT ![t] = "insert"] /\ h \in Hashes /\ slot[s].stamp = 0
      /\ slot' = [slot EXCEPT ![s] = [hashed |-> h, is_ready |-> TRUE, stamp |-> 0]]
      /\ UNCHANGED <<call, slot_idx, cur_slot, next_free_slot, procd, mtx, next_slot, clock>>
  BY BucketTypesOf DEF Fill, CallInBucket, Goto
<1>2. s \in Slots /\ pc'[t] = "insert" /\ "insert" \in DepLabels /\ "fill" \in Owning
  BY <1>1, BucketTypesOf DEF DepLabels, Owning
<1>3. slot'[s].hashed = h /\ slot'[s].stamp = 0
  BY <1>1, <1>2, BucketTypesOf
<1>4. \A i \in Slots \ {s} : slot'[i] = slot[i]
  BY <1>1, BucketTypesOf
<1>5. slot' \in [Slots -> [hashed : Nat, is_ready : BOOLEAN, stamp : Nat]]
  <2>1. [hashed |-> h, is_ready |-> TRUE, stamp |-> 0] \in [hashed : Nat, is_ready : BOOLEAN, stamp : Nat]
    BY <1>1, BucketTypesOf
  <2> QED  BY <1>1, <2>1, BucketTypesOf
<1>6. CallInBucket(t)'
  BY <1>1, <1>2, <1>3 DEF CallInBucket, Searching
<1>7. \A i \in Slots : /\ slot'[i].stamp = slot[i].stamp
                       /\ \/ slot'[i].hashed = slot[i].hashed
                          \/ i = slot_idx[t] /\ pc[t] \in Owning /\ slot[i].stamp = 0
  BY <1>1, <1>2, <1>3, <1>4
<1> HIDE DEF h, s
<1>8. /\ \A u \in Threads \ {t} : /\ call'[u] = call[u] /\ slot_idx'[u] = slot_idx[u]
                                /\ cur_slot'[u] = cur_slot[u]
      /\ \A i \in Slots : /\ slot'[i].stamp = slot[i].stamp
                          /\ \/ slot'[i].hashed = slot[i].hashed
                             \/ i = slot_idx[t] /\ pc[t] \in Owning /\ slot[i].stamp = 0
  BY <1>1, <1>2, <1>5, <1>6, <1>7
<1>9. /\ next_free_slot' >= next_free_slot \/ \A i \in Slots : slot'[i].stamp = 0
      /\ call' \in [Threads -> [hashed : Nat, stamp : Nat]]
      /\ slot_idx' \in [Threads -> Slots] /\ cur_slot' \in [Threads -> Nodes]
      /\ next_free_slot' \in Nat /\ procd' \in Slots /\ mtx' \in Threads \cup {NoThread}
      /\ slot' \in [Slots -> [hashed : Nat, is_ready : BOOLEAN, stamp : Nat]]
  BY <1>1, <1>2, <1>5, <1>6, <1>7, BucketTypesOf
<1>10. \E m \in DepLabels : pc' = [pc EXCEPT ![t] = m]
  BY <1>1, <1>2, <1>5, <1>6, <1>7
<1>11. next_slot' = next_slot /\ reg' = reg /\ clock' = clock /\ CallInBucket(t)'
  BY <1>1, <1>2, <1>5, <1>6, <1>7
<1> QED  BY <1>8, <1>9, <1>10, <1>11, QuietStep

LEMMA BucketEnter ==
  ASSUME BucketInv, Abstract!QueueInv, NEW t \in Threads, Enter(t), reg' = reg
  PROVE  BucketInv'
<1>1. PICK l \in {"walk", "write", "finish"} : pc' = [pc EXCEPT ![t] = l]
  BY DEF Enter, Goto
<1>2. /\ pc[t] = "lock" /\ mtx' = t /\ cur_slot' = [cur_slot EXCEPT ![t] = slot_idx[t]]
      /\ UNCHANGED <<call, slot_idx, next_free_slot, procd, slot, next_slot, clock>>
  BY DEF Enter
<1>3. /\ pc'[t] = l /\ cur_slot'[t] = slot_idx[t] /\ slot_idx[t] \in Slots
      /\ cur_slot' \in [Threads -> Nodes]
      /\ \A u \in Threads \ {t} : cur_slot'[u] = cur_slot[u]
  BY <1>1, <1>2, BucketTypesOf
<1>4. call[t].hashed \in Hashes /\ slot[slot_idx[t]].stamp > 0
      /\ slot[slot_idx[t]].hashed = call[t].hashed
  BY <1>2, BucketTypesOf DEF CallInBucket
<1>5. CallInBucket(t)'
  BY <1>2, <1>3, <1>4 DEF CallInBucket, InBucket, Searching
<1>6. /\ \A u \in Threads \ {t} : /\ call'[u] = call[u] /\ slot_idx'[u] = slot_idx[u]
                                /\ cur_slot'[u] = cur_slot[u]
      /\ \A i \in Slots : /\ slot'[i].stamp = slot[i].stamp
                          /\ \/ slot'[i].hashed = slot[i].hashed
                             \/ i = slot_idx[t] /\ pc[t] \in Owning /\ slot[i].stamp = 0
  BY <1>1, <1>2, <1>3, <1>5
<1>7. /\ next_free_slot' >= next_free_slot \/ \A i \in Slots : slot'[i].stamp = 0
      /\ call' \in [Threads -> [hashed : Nat, stamp : Nat]]
      /\ slot_idx' \in [Threads -> Slots] /\ cur_slot' \in [Threads -> Nodes]
      /\ next_free_slot' \in Nat /\ procd' \in Slots /\ mtx' \in Threads \cup {NoThread}
      /\ slot' \in [Slots -> [hashed : Nat, is_ready : BOOLEAN, stamp : Nat]]
  BY <1>1, <1>2, <1>3, <1>5, BucketTypesOf
<1>8. \E m \in DepLabels : pc' = [pc EXCEPT ![t] = m]
  BY <1>1, <1>2, <1>3, <1>5 DEF DepLabels
<1>9. next_slot' = next_slot /\ reg' = reg /\ clock' = clock /\ CallInBucket(t)'
  BY <1>1, <1>2, <1>3, <1>5
<1> QED  BY <1>6, <1>7, <1>8, <1>9, QuietStep

LEMMA BucketWalk ==
  ASSUME BucketInv, Abstract!QueueInv, NEW t \in Threads, Walk(t), reg' = reg
  PROVE  BucketInv'
<1>1. /\ pc[t] = "walk" /\ cur_slot[t] \in Slots /\ call[t].hashed \in Hashes
      /\ InBucket(cur_slot[t], BucketHead(call[t].hashed)) /\ BucketHead(call[t].hashed) \in Heads
      /\ UNCHANGED <<call, slot_idx, next_free_slot, procd, mtx, next_slot, clock>>
  BY BucketTypesOf, NodeFacts DEF Walk, CallInBucket
<1>2. PICK n : n = next_slot[cur_slot[t]].ref
  OBVIOUS
<1>3. PICK b \in Heads : b = BucketHead(call[t].hashed)
  BY <1>1
<1>4. InBucket(n, b)
  BY <1>1, <1>2, <1>3, BucketTypesOf DEF BucketInv, BucketLinks
<1>5. n \in Nodes /\ (n # b => n \in Slots)
  BY <1>4, BucketFactsOf
<1>6. slot' = [slot EXCEPT ![cur_slot[t]].is_ready = FALSE] \/ slot' = slot
  BY DEF Walk
<1>7. /\ slot' \in [Slots -> [hashed : Nat, is_ready : BOOLEAN, stamp : Nat]]
      /\ \A i \in Slots : slot'[i].stamp = slot[i].stamp /\ slot'[i].hashed = slot[i].hashed
  <2>1. PICK c \in Slots : c = cur_slot[t]
    BY <1>1
  <2>2. CASE slot' = [slot EXCEPT ![c].is_ready = FALSE]
    BY <2>2, BucketTypesOf
  <2>3. CASE slot' = slot
    BY <2>3, BucketTypesOf
  <2> QED  BY <1>6, <2>1, <2>2, <2>3
<1>8. cur_slot' = [cur_slot EXCEPT ![t] = n] \/ cur_slot' = cur_slot
  BY <1>2 DEF Walk
<1>9. cur_slot' \in [Threads -> Nodes] /\ \A u \in Threads \ {t} : cur_slot'[u] = cur_slot[u]
  BY <1>5, <1>8, BucketTypesOf
<1>10. \/ \E l \in {"write", "abort"} : pc' = [pc EXCEPT ![t] = l]
       \/ pc' = pc /\ cur_slot' = [cur_slot EXCEPT ![t] = n] /\ n # b
  BY <1>2, <1>3 DEF Walk, Goto
<1>11. CASE \E l \in {"write", "abort"} : pc' = [pc EXCEPT ![t] = l]
  <2>1. PICK l \in {"write", "abort"} : pc' = [pc EXCEPT ![t] = l]
    BY <1>11
  <2>2. pc'[t] = l /\ l \in DepLabels
    BY <2>1, BucketTypesOf DEF DepLabels
  <2>3. CallInBucket(t)'
    BY <2>2, CallUnbound
  <2>4. /\ \A u \in Threads \ {t} : /\ call'[u] = call[u] /\ slot_idx'[u] = slot_idx[u]
                                  /\ cur_slot'[u] = cur_slot[u]
        /\ \A i \in Slots : /\ slot'[i].stamp = slot[i].stamp
                            /\ \/ slot'[i].hashed = slot[i].hashed
                               \/ i = slot_idx[t] /\ pc[t] \in Owning /\ slot[i].stamp = 0
    BY <1>1, <1>7, <1>9, <2>1, <2>2, <2>3
  <2>5. /\ next_free_slot' >= next_free_slot \/ \A i \in Slots : slot'[i].stamp = 0
        /\ call' \in [Threads -> [hashed : Nat, stamp : Nat]]
        /\ slot_idx' \in [Threads -> Slots] /\ cur_slot' \in [Threads -> Nodes]
        /\ next_free_slot' \in Nat /\ procd' \in Slots /\ mtx' \in Threads \cup {NoThread}
        /\ slot' \in [Slots -> [hashed : Nat, is_ready : BOOLEAN, stamp : Nat]]
    BY <1>1, <1>7, <1>9, <2>1, <2>2, <2>3, BucketTypesOf
  <2>6. \E m \in DepLabels : pc' = [pc EXCEPT ![t] = m]
    BY <1>1, <1>7, <1>9, <2>1, <2>2, <2>3
  <2>7. next_slot' = next_slot /\ reg' = reg /\ clock' = clock /\ CallInBucket(t)'
    BY <1>1, <1>7, <1>9, <2>1, <2>2, <2>3
  <2> QED  BY <2>4, <2>5, <2>6, <2>7, QuietStep
<1>12. CASE pc' = pc /\ cur_slot' = [cur_slot EXCEPT ![t] = n] /\ n # b
  <2>1. pc'[t] = "walk" /\ cur_slot'[t] = n /\ n \in Slots /\ call' = call
        /\ pc' = [pc EXCEPT ![t] = "walk"] /\ "walk" \in DepLabels
    BY <1>1, <1>5, <1>12, BucketTypesOf DEF DepLabels
  <2>2. slot'[n].stamp > 0 /\ BucketHead(slot'[n].hashed) = BucketHead(call'[t].hashed)
    BY <1>3, <1>4, <1>7, <1>12, <2>1 DEF InBucket
  <2>3. CallInBucket(t)'
    BY <1>1, <2>1, <2>2 DEF CallInBucket, Searching, InBucket
  <2>4. /\ \A u \in Threads \ {t} : /\ call'[u] = call[u] /\ slot_idx'[u] = slot_idx[u]
                                  /\ cur_slot'[u] = cur_slot[u]
        /\ \A i \in Slots : /\ slot'[i].stamp = slot[i].stamp
                            /\ \/ slot'[i].hashed = slot[i].hashed
                               \/ i = slot_idx[t] /\ pc[t] \in Owning /\ slot[i].stamp = 0
    BY <1>1, <1>7, <1>9, <2>1, <2>3
  <2>5. /\ next_free_slot' >= next_free_slot \/ \A i \in Slots : slot'[i].stamp = 0
        /\ call' \in [Threads -> [hashed : Nat, stamp : Nat]]
        /\ slot_idx' \in [Threads -> Slots] /\ cur_slot' \in [Threads -> Nodes]
        /\ next_free_slot' \in Nat /\ procd' \in Slots /\ mtx' \in Threads \cup {NoThread}
        /\ slot' \in [Slots -> [hashed : Nat, is_ready : BOOLEAN, stamp : Nat]]
    BY <1>1, <1>7, <1>9, <2>1, <2>3, BucketTypesOf
  <2>6. \E m \in DepLabels : pc' = [pc EXCEPT ![t] = m]
    BY <1>1, <1>7, <1>9, <2>1, <2>3
  <2>7. next_slot' = next_slot /\ reg' = reg /\ clock' = clock /\ CallInBucket(t)'
    BY <1>1, <1>7, <1>9, <2>1, <2>3
  <2> QED  BY <2>4, <2>5, <2>6, <2>7, QuietStep
<1> QED  BY <1>10, <1>11, <1>12

LEMMA BucketWrite ==
  ASSUME BucketInv, Abstract!QueueInv, NEW t \in Threads, Write(t), reg' = reg
  PROVE  BucketInv'
<1>1. /\ pc' = [pc EXCEPT ![t] = "finish"] /\ "finish" \in DepLabels
      /\ slot' = [i \in Slots |-> IF i \in {slot_idx[t], cur_slot[t]}
                                    THEN [slot[i] EXCEPT !.is_ready = FALSE] ELSE slot[i]]
      /\ UNCHANGED <<call, slot_idx, cur_slot, next_free_slot, procd, mtx, next_slot, clock>>
  BY DEF Write, Goto, DepLabels
<1>2. /\ slot' \in [Slots -> [hashed : Nat, is_ready : BOOLEAN, stamp : Nat]]
      /\ \A i \in Slots : slot'[i].stamp = slot[i].stamp /\ slot'[i].hashed = slot[i].hashed
  BY <1>1, BucketTypesOf
<1>3. pc'[t] = "finish"
  BY <1>1, BucketTypesOf
<1>4. /\ \A u \in Threads \ {t} : /\ call'[u] = call[u] /\ slot_idx'[u] = slot_idx[u]
                                /\ cur_slot'[u] = cur_slot[u]
      /\ \A i \in Slots : /\ slot'[i].stamp = slot[i].stamp
                          /\ \/ slot'[i].hashed = slot[i].hashed
                             \/ i = slot_idx[t] /\ pc[t] \in Owning /\ slot[i].stamp = 0
  BY <1>1, <1>2, <1>3
<1>5. /\ next_free_slot' >= next_free_slot \/ \A i \in Slots : slot'[i].stamp = 0
      /\ call' \in [Threads -> [hashed : Nat, stamp : Nat]]
      /\ slot_idx' \in [Threads -> Slots] /\ cur_slot' \in [Threads -> Nodes]
      /\ next_free_slot' \in Nat /\ procd' \in Slots /\ mtx' \in Threads \cup {NoThread}
      /\ slot' \in [Slots -> [hashed : Nat, is_ready : BOOLEAN, stamp : Nat]]
  BY <1>1, <1>2, <1>3, BucketTypesOf
<1>6. \E m \in DepLabels : pc' = [pc EXCEPT ![t] = m]
  BY <1>1, <1>2, <1>3
<1>7. next_slot' = next_slot /\ reg' = reg /\ clock' = clock /\ CallInBucket(t)'
  BY <1>1, <1>2, <1>3, CallUnbound
<1> QED  BY <1>4, <1>5, <1>6, <1>7, QuietStep

LEMMA BucketFinish ==
  ASSUME BucketInv, Abstract!QueueInv, NEW t \in Threads, Finish(t), reg' = reg
  PROVE  BucketInv'
<1>1. PICK l \in {"buckets", "return"} : pc' = [pc EXCEPT ![t] = l]
  BY DEF Finish, Goto
<1>2. /\ procd' = IF procd + 1 = SLOT_MAX THEN 0 ELSE procd + 1
      /\ UNCHANGED <<call, slot_idx, cur_slot, next_free_slot, mtx, slot, next_slot, clock>>
  BY DEF Finish
<1>3. procd' \in Slots
  BY SMTT(60), <1>2, BucketTypesOf DEF Slots
<1>4. pc'[t] = l /\ l \in DepLabels
  BY <1>1, BucketTypesOf DEF DepLabels
<1>5. /\ \A u \in Threads \ {t} : /\ call'[u] = call[u] /\ slot_idx'[u] = slot_idx[u]
                                /\ cur_slot'[u] = cur_slot[u]
      /\ \A i \in Slots : /\ slot'[i].stamp = slot[i].stamp
                          /\ \/ slot'[i].hashed = slot[i].hashed
                             \/ i = slot_idx[t] /\ pc[t] \in Owning /\ slot[i].stamp = 0
  BY <1>1, <1>2, <1>3, <1>4
<1>6. /\ next_free_slot' >= next_free_slot \/ \A i \in Slots : slot'[i].stamp = 0
      /\ call' \in [Threads -> [hashed : Nat, stamp : Nat]]
      /\ slot_idx' \in [Threads -> Slots] /\ cur_slot' \in [Threads -> Nodes]
      /\ next_free_slot' \in Nat /\ procd' \in Slots /\ mtx' \in Threads \cup {NoThread}
      /\ slot' \in [Slots -> [hashed : Nat, is_ready : BOOLEAN, stamp : Nat]]
  BY <1>1, <1>2, <1>3, <1>4, BucketTypesOf
<1>7. \E m \in DepLabels : pc' = [pc EXCEPT ![t] = m]
  BY <1>1, <1>2, <1>3, <1>4
<1>8. next_slot' = next_slot /\ reg' = reg /\ clock' = clock /\ CallInBucket(t)'
  BY <1>1, <1>2, <1>3, <1>4, CallUnbound
<1> QED  BY <1>5, <1>6, <1>7, <1>8, QuietStep

LEMMA BucketFree ==
  ASSUME BucketInv, Abstract!QueueInv, NEW t \in Threads, FreeSlots(t), reg' = reg
  PROVE  BucketInv'
<1>1. /\ pc[t] = "free" /\ pc' = [pc EXCEPT ![t] = "return"] /\ next_free_slot' = 0
      /\ UNCHANGED <<call, slot_idx, cur_slot, procd, mtx, slot, next_slot, clock>>
  BY DEF FreeSlots, Goto
<1>2. \A i \in Slots : slot[i].stamp = 0
  BY <1>1, BucketTypesOf DEF CallInBucket
<1>3. pc'[t] = "return" /\ "return" \in DepLabels
  BY <1>1, BucketTypesOf DEF DepLabels
<1>4. /\ \A u \in Threads \ {t} : /\ call'[u] = call[u] /\ slot_idx'[u] = slot_idx[u]
                                /\ cur_slot'[u] = cur_slot[u]
      /\ \A i \in Slots : /\ slot'[i].stamp = slot[i].stamp
                          /\ \/ slot'[i].hashed = slot[i].hashed
                             \/ i = slot_idx[t] /\ pc[t] \in Owning /\ slot[i].stamp = 0
  BY <1>1, <1>2, <1>3
<1>5. /\ next_free_slot' >= next_free_slot \/ \A i \in Slots : slot'[i].stamp = 0
      /\ call' \in [Threads -> [hashed : Nat, stamp : Nat]]
      /\ slot_idx' \in [Threads -> Slots] /\ cur_slot' \in [Threads -> Nodes]
      /\ next_free_slot' \in Nat /\ procd' \in Slots /\ mtx' \in Threads \cup {NoThread}
      /\ slot' \in [Slots -> [hashed : Nat, is_ready : BOOLEAN, stamp : Nat]]
  BY <1>1, <1>2, <1>3, BucketTypesOf
<1>6. \E m \in DepLabels : pc' = [pc EXCEPT ![t] = m]
  BY <1>1, <1>2, <1>3
<1>7. next_slot' = next_slot /\ reg' = reg /\ clock' = clock /\ CallInBucket(t)'
  BY <1>1, <1>2, <1>3, CallUnbound
<1> QED  BY <1>4, <1>5, <1>6, <1>7, QuietStep

LEMMA BucketReturn ==
  ASSUME BucketInv, Abstract!QueueInv, NEW t \in Threads, Return(t), reg' = reg
  PROVE  BucketInv'
<1>1. /\ pc' = [pc EXCEPT ![t] = "idle"] /\ "idle" \in DepLabels /\ mtx' = NoThread
      /\ call' = [call EXCEPT ![t] = [hashed |-> 0, stamp |-> 0]]
      /\ slot_idx' = [slot_idx EXCEPT ![t] = 0] /\ cur_slot' = [cur_slot EXCEPT ![t] = 0]
      /\ UNCHANGED <<next_free_slot, procd, slot, next_slot, clock>>
  BY DEF Return, Goto, DepLabels, NoCall
<1>2. /\ pc'[t] = "idle"
      /\ call' \in [Threads -> [hashed : Nat, stamp : Nat]]
      /\ slot_idx' \in [Threads -> Slots] /\ cur_slot' \in [Threads -> Nodes]
      /\ \A u \in Threads \ {t} : /\ call'[u] = call[u] /\ slot_idx'[u] = slot_idx[u]
                                 /\ cur_slot'[u] = cur_slot[u]
  BY <1>1, BucketTypesOf
<1>3. CallInBucket(t)'
  BY <1>2, CallUnbound
<1>4. \A i \in Slots : /\ slot'[i].stamp = slot[i].stamp
                       /\ \/ slot'[i].hashed = slot[i].hashed
                          \/ i = slot_idx[t] /\ pc[t] \in Owning /\ slot[i].stamp = 0
  BY <1>1
<1>5. /\ next_free_slot' >= next_free_slot /\ next_free_slot' \in Nat
      /\ procd' \in Slots /\ mtx' \in Threads \cup {NoThread}
      /\ slot' \in [Slots -> [hashed : Nat, is_ready : BOOLEAN, stamp : Nat]]
  BY <1>1, BucketTypesOf
<1>6. \E m \in DepLabels : pc' = [pc EXCEPT ![t] = m]
  BY <1>1
<1>7. next_slot' = next_slot /\ reg' = reg /\ clock' = clock
  BY <1>1
<1> QED  BY <1>2, <1>3, <1>4, <1>5, <1>6, <1>7, QuietStep

\* A reset empties the lists, then the slots.
LEMMA BucketReset ==
  ASSUME BucketInv, Abstract!QueueInv, NEW t \in Threads, ResetBuckets(t), reg' = reg
  PROVE  BucketInv'
<1>1. /\ pc' = [pc EXCEPT ![t] = "slots"]
      /\ next_slot' = [n \in Nodes |-> IF n \in Heads THEN Plain(n) ELSE next_slot[n]]
      /\ UNCHANGED <<call, slot_idx, cur_slot, next_free_slot, procd, mtx, slot, clock>>
  BY DEF ResetBuckets, Goto
<1>2. pc' \in [Threads -> DepLabels] /\ pc'[t] = "slots" /\ \A u \in Threads \ {t} : pc'[u] = pc[u]
  BY <1>1, BucketTypesOf DEF DepLabels
<1>3. next_slot' \in [Nodes -> LinkValues]
  BY <1>1, LinkFacts, NodeFacts, BucketTypesOf
<1>4. BucketTypes'
  BY <1>1, <1>2, <1>3, BucketTypesOf DEF BucketTypes, DepTypes, DepLabels
<1>5. ASSUME NEW b \in Heads, NEW n \in Nodes, InBucket(n, b)
      PROVE  next_slot'[n] = next_slot[n] \/ InBucket(next_slot'[n].ref, b)
  <2>1. n = b \/ n \in Slots
    BY <1>5, BucketFactsOf
  <2>2. CASE n = b
    BY <1>1, <2>2, LinkFacts DEF InBucket
  <2>3. CASE n \in Slots
    BY <1>1, <2>3, NodeFacts
  <2> QED  BY <2>1, <2>2, <2>3
<1>6. BucketLinks'
  BY <1>1, <1>5, LinksKept
<1>7. \A n \in Heads : next_slot'[n] = Plain(n)
  BY <1>1, NodeFacts
<1>8. CallInBucket(t)'
  BY <1>2, <1>7 DEF CallInBucket, Searching
<1> QED  BY <1>1, <1>2, <1>4, <1>6, <1>7, <1>8, BucketFrame, BucketTypesOf

LEMMA BucketClear ==
  ASSUME BucketInv, Abstract!QueueInv, NEW t \in Threads, ClearSlots(t), reg' = reg
  PROVE  BucketInv'
<1>1. /\ pc[t] = "slots" /\ pc' = [pc EXCEPT ![t] = "free"]
      /\ slot' = [i \in Slots |-> ClearSlot]
      /\ next_slot' = [n \in Nodes |-> IF n \in Slots THEN Plain(Null) ELSE next_slot[n]]
      /\ UNCHANGED <<call, slot_idx, cur_slot, next_free_slot, procd, mtx, clock>>
  BY DEF ClearSlots, Goto
<1>2. pc' \in [Threads -> DepLabels] /\ pc'[t] = "free" /\ \A u \in Threads \ {t} : pc'[u] = pc[u]
  BY <1>1, BucketTypesOf DEF DepLabels
<1>3. next_slot' \in [Nodes -> LinkValues]
  BY <1>1, LinkFacts, BucketTypesOf
<1>4. /\ slot' \in [Slots -> [hashed : Nat, is_ready : BOOLEAN, stamp : Nat]]
      /\ \A i \in Slots : slot'[i].stamp = 0
  BY <1>1 DEF ClearSlot
<1>5. BucketTypes'
  BY <1>1, <1>2, <1>3, <1>4, BucketTypesOf DEF BucketTypes, DepTypes, DepLabels
<1>6. FreeEmpty'
  BY <1>4 DEF FreeEmpty
<1>7. \A n \in Heads : next_slot'[n] = Plain(n)
  BY <1>1, BucketTypesOf, NodeFacts DEF CallInBucket
<1>8. BucketLinks'
  <2> SUFFICES ASSUME NEW b \in Heads, NEW n \in Nodes, InBucket(n, b)'
               PROVE  InBucket(next_slot[n].ref, b)'
    BY DEF BucketLinks
  <2>1. n = b
    BY <1>4 DEF InBucket
  <2> QED  BY <1>7, <2>1, LinkFacts DEF InBucket
<1>9. ASSUME NEW u \in Threads  PROVE CallInBucket(u)'
  <2>1. CASE u = t
    BY <1>2, <1>4, <2>1 DEF CallInBucket, Searching
  <2>2. CASE u # t
    <3>1. pc[u] \notin Owning /\ pc[u] \notin Locked
      <4>1. pc[u] \notin Owning
        BY <1>1, BucketTypesOf, QueueFacts DEF ResetQuiescent, Resetting
      <4>2. pc[u] \notin Locked
        BY <1>1, <2>2, BucketTypesOf, QueueFacts DEF Locked
      <4> QED  BY <4>1, <4>2
    <3>2. pc[u] \in {"idle", "claim"}
      BY <3>1, BucketTypesOf DEF DepLabels, Locked, Owning, Searching
    <3>3. pc'[u] = pc[u] /\ call'[u] = call[u] /\ CallInBucket(u)
      BY <1>1, <1>2, <2>2, BucketTypesOf
    <3> QED  BY <3>2, <3>3 DEF CallInBucket, Searching
  <2> QED  BY <2>1, <2>2
<1> QED  BY <1>5, <1>6, <1>8, <1>9 DEF BucketInv

----------------------------------------------------------------------------
(* The insertion.                                                          *)

\* What a search has to keep when it writes its own slot's link or one of its
\* bucket, and moves along the bucket.
LEMMA SearchStep ==
  ASSUME BucketInv, Abstract!QueueInv, NEW t \in Threads, pc[t] \in Searching \cup {"insert"},
         NEW b \in Heads, b = BucketHead(call[t].hashed),
         \E l \in Searching \cup {"insert"} : pc' = [pc EXCEPT ![t] = l],
         reg' \in [Threads -> RegValues], \A u \in Threads \ {t} : reg'[u] = reg[u],
         searchUnchanged' = searchUnchanged,
         next_slot' \in [Nodes -> LinkValues],
         \A n \in Nodes : \/ n = slot_idx[t]
                          \/ next_slot'[n] = next_slot[n]
                          \/ InBucket(n, b) /\ InBucket(next_slot'[n].ref, b),
         pc'[t] \in Searching => InBucket(reg'[t].prev, b),
         pc'[t] \in Searching \ {"first"} => InBucket(reg'[t].curr, b),
         pc'[t] \in {"protect", "advance", "switch"} => reg'[t].curr \in Slots,
         pc'[t] \in {"protect", "advance", "switch", "clean", "link"}
           => InBucket(reg'[t].curr_next.ref, b)
  PROVE  BucketInv'
<1>1. /\ pc' \in [Threads -> DepLabels] /\ pc'[t] \in Searching \cup {"insert"}
      /\ \A u \in Threads \ {t} : pc'[u] = pc[u]
  BY BucketTypesOf DEF DepLabels
<1>2. UNCHANGED <<call, slot_idx, cur_slot, next_free_slot, procd, mtx, slot, clock>>
  BY DEF searchUnchanged
<1>3. BucketTypes'
  BY <1>1, <1>2, BucketTypesOf DEF BucketTypes, DepTypes, DepLabels
<1>4. slot_idx[t] \in Slots /\ slot[slot_idx[t]].stamp = 0 /\ call[t].hashed \in Hashes
      /\ slot[slot_idx[t]].hashed = call[t].hashed
  BY BucketTypesOf DEF CallInBucket
<1>5. ASSUME NEW c \in Heads, NEW n \in Nodes, InBucket(n, c)
      PROVE  next_slot'[n] = next_slot[n] \/ InBucket(next_slot'[n].ref, c)
  <2>1. n # slot_idx[t]
    BY <1>4, <1>5, NodeFacts DEF InBucket
  <2>2. InBucket(n, b) => b = c
    BY <1>5, BucketFactsOf
  <2> QED  BY <2>1, <2>2
<1>6. BucketLinks'
  <2>1. \A i \in Slots : /\ slot'[i].stamp = slot[i].stamp
                         /\ slot[i].stamp > 0 => slot'[i].hashed = slot[i].hashed
    BY <1>2
  <2> QED  BY <1>5, <2>1, LinksKept
<1>7. ASSUME NEW n, InBucket(n, b)  PROVE InBucket(n, b)'
  BY <1>2, <1>7 DEF InBucket
<1>8. CallInBucket(t)'
  <2>1. PICK p : p = reg'[t].prev
    OBVIOUS
  <2>2. PICK c : c = reg'[t].curr
    OBVIOUS
  <2>3. PICK r : r = reg'[t].curr_next.ref
    OBVIOUS
  <2>4. /\ pc'[t] \in Searching => InBucket(p, b)'
        /\ pc'[t] \in Searching \ {"first"} => InBucket(c, b)'
        /\ pc'[t] \in {"protect", "advance", "switch", "clean", "link"} => InBucket(r, b)'
    BY <1>7, <2>1, <2>2, <2>3
  <2>5. pc'[t] \notin {"claim", "fill", "lock", "walk", "slots", "free"}
    BY <1>1 DEF Searching
  <2>6. BucketHead(call'[t].hashed) = b
    BY <1>2
  <2> QED  BY <1>1, <1>2, <1>4, <2>1, <2>2, <2>3, <2>4, <2>5, <2>6 DEF CallInBucket
<1>9. pc[t] \in Owning
  BY DEF Searching, Owning
<1>10. \A u \in Threads \ {t} : /\ pc'[u] = pc[u] /\ reg'[u] = reg[u] /\ call'[u] = call[u]
                               /\ slot_idx'[u] = slot_idx[u] /\ cur_slot'[u] = cur_slot[u]
  BY <1>1, <1>2
<1>11. next_free_slot' >= next_free_slot /\ slot' = slot
  BY <1>2, BucketTypesOf
<1> QED  BY <1>3, <1>6, <1>8, <1>9, <1>10, <1>11, BucketFrame

\* The local variables of __elemSearch after an assignment to some of them.
LEMMA RegSet ==
  ASSUME BucketInv, NEW t \in Threads,
         NEW p \in Nodes \cup {Null}, NEW x \in LinkValues,
         NEW c \in Nodes \cup {Null}, NEW y \in LinkValues,
         reg' = [reg EXCEPT ![t] = [prev |-> p, prev_next |-> x, curr |-> c, curr_next |-> y]]
  PROVE  /\ reg' \in [Threads -> RegValues] /\ \A u \in Threads \ {t} : reg'[u] = reg[u]
         /\ reg'[t].prev = p /\ reg'[t].curr = c /\ reg'[t].curr_next = y
<1>1. reg \in [Threads -> RegValues]
  BY BucketTypesOf
<1> QED  BY <1>1 DEF RegValues

LEMMA RegSetCurr ==
  ASSUME BucketInv, NEW t \in Threads, NEW c \in Nodes \cup {Null},
         reg' = [reg EXCEPT ![t].curr = c]
  PROVE  /\ reg' \in [Threads -> RegValues] /\ \A u \in Threads \ {t} : reg'[u] = reg[u]
         /\ reg'[t].prev = reg[t].prev /\ reg'[t].curr = c
<1>1. reg \in [Threads -> RegValues]
  BY BucketTypesOf
<1> QED  BY <1>1 DEF RegValues

LEMMA RegSetNext ==
  ASSUME BucketInv, NEW t \in Threads, NEW y \in LinkValues,
         reg' = [reg EXCEPT ![t].curr_next = y]
  PROVE  /\ reg' \in [Threads -> RegValues] /\ \A u \in Threads \ {t} : reg'[u] = reg[u]
         /\ reg'[t].prev = reg[t].prev /\ reg'[t].curr = reg[t].curr /\ reg'[t].curr_next = y
<1>1. reg \in [Threads -> RegValues]
  BY BucketTypesOf
<1> QED  BY <1>1 DEF RegValues

LEMMA RegFieldTypes ==
  ASSUME BucketInv, NEW t \in Threads
  PROVE  /\ reg[t].prev \in Nodes \cup {Null} /\ reg[t].curr \in Nodes \cup {Null}
         /\ reg[t].prev_next \in LinkValues /\ reg[t].curr_next \in LinkValues
         /\ \A y \in LinkValues : y.ref \in Nodes \cup {Null}
         /\ \A n \in Nodes : next_slot[n] \in LinkValues
BY BucketTypesOf DEF RegValues, LinkValues

\* Where a search stands.
LEMMA SearchPlace ==
  ASSUME BucketInv, NEW t \in Threads, pc[t] \in Searching \cup {"insert"}
  PROVE  \E b \in Heads :
           /\ b = BucketHead(call[t].hashed)
           /\ slot_idx[t] \in Slots /\ slot[slot_idx[t]].stamp = 0
           /\ pc[t] \in Searching => InBucket(reg[t].prev, b)
           /\ pc[t] \in Searching \ {"first"} => InBucket(reg[t].curr, b)
           /\ pc[t] \in {"protect", "advance", "switch"} => reg[t].curr \in Slots
           /\ pc[t] \in {"protect", "advance", "switch", "clean", "link"}
                => InBucket(reg[t].curr_next.ref, b)
           /\ \A n : InBucket(n, b) =>
                /\ n \in Nodes /\ InBucket(next_slot[n].ref, b)
                /\ n # b => n \in Slots
<1>1. call[t].hashed \in Hashes
  BY BucketTypesOf DEF CallInBucket
<1>2. PICK b \in Heads : b = BucketHead(call[t].hashed)
  BY <1>1, NodeFacts
<1>3. \A n : InBucket(n, b) =>
        /\ n \in Nodes /\ InBucket(next_slot[n].ref, b)
        /\ n # b => n \in Slots
  BY BucketFactsOf DEF BucketInv, BucketLinks
<1> QED  BY <1>2, <1>3, BucketTypesOf DEF CallInBucket

LEMMA BucketSearchHead ==
  ASSUME BucketInv, Abstract!QueueInv, NEW t \in Threads, SearchHead(t)
  PROVE  BucketInv'
<1> DEFINE head == BucketHead(call[t].hashed)
           r == [NoReg EXCEPT !.prev = head, !.prev_next = next_slot[head]]
<1>1. pc[t] = "insert" /\ "first" \in Searching
  BY DEF SearchHead, Searching
<1>2. head \in Heads /\ InBucket(head, head)
  BY <1>1, SearchPlace, BucketFactsOf
<1>3. head \in Nodes /\ next_slot[head] \in LinkValues /\ Plain(Null) \in LinkValues
  BY <1>2, BucketTypesOf, LinkFacts
<1>4. r \in RegValues /\ r.prev = head
  BY <1>3 DEF RegValues, NoReg
<1>5. /\ pc' = [pc EXCEPT ![t] = "first"] /\ next_slot' = next_slot
      /\ searchUnchanged' = searchUnchanged /\ reg' = [reg EXCEPT ![t] = r]
  BY DEF SearchHead, Goto
<1> HIDE DEF r
<1>6. /\ reg' \in [Threads -> RegValues] /\ \A u \in Threads \ {t} : reg'[u] = reg[u]
      /\ reg'[t].prev = head
  BY <1>4, <1>5, BucketTypesOf
<1>7. pc'[t] = "first" /\ next_slot' \in [Nodes -> LinkValues]
  BY <1>5, BucketTypesOf
<1>8. PICK b \in Heads : b = head
  BY <1>2
<1>9. b = BucketHead(call[t].hashed) /\ InBucket(reg'[t].prev, b)
  BY <1>2, <1>6, <1>8
<1> QED  BY <1>1, <1>5, <1>6, <1>7, <1>9, SearchStep

LEMMA BucketSearchFirst ==
  ASSUME BucketInv, Abstract!QueueInv, NEW t \in Threads, SearchFirst(t)
  PROVE  BucketInv'
<1>1. pc[t] = "first" /\ "first" \in Searching /\ "load" \in Searching
  BY DEF SearchFirst, Searching
<1>2. PICK b \in Heads :
        /\ b = BucketHead(call[t].hashed) /\ InBucket(reg[t].prev, b)
        /\ InBucket(next_slot[reg[t].prev].ref, b) /\ next_slot[reg[t].prev].ref \in Nodes
  BY <1>1, SearchPlace
<1>3. PICK c \in Nodes : c = next_slot[reg[t].prev].ref
  BY <1>2
<1>4. /\ reg' \in [Threads -> RegValues] /\ \A u \in Threads \ {t} : reg'[u] = reg[u]
      /\ reg'[t].prev = reg[t].prev /\ reg'[t].curr = c
  <2>1. reg' = [reg EXCEPT ![t].curr = c]
    BY <1>3 DEF SearchFirst
  <2> QED  BY <2>1, RegSetCurr
<1>5. /\ pc' = [pc EXCEPT ![t] = "load"] /\ next_slot' = next_slot
      /\ searchUnchanged' = searchUnchanged
  BY DEF SearchFirst, Goto
<1>6. pc'[t] = "load" /\ next_slot' \in [Nodes -> LinkValues]
  BY <1>5, BucketTypesOf
<1> QED  BY <1>1, <1>2, <1>3, <1>4, <1>5, <1>6, SearchStep

LEMMA BucketLoad ==
  ASSUME BucketInv, Abstract!QueueInv, NEW t \in Threads, Load(t)
  PROVE  BucketInv'
<1>1. /\ pc[t] = "load" /\ {"load", "clean", "link", "protect", "advance"} \subseteq Searching
      /\ next_slot' = next_slot /\ searchUnchanged' = searchUnchanged
  BY DEF Load, Searching
<1>2. PICK b \in Heads :
        /\ b = BucketHead(call[t].hashed) /\ InBucket(reg[t].prev, b) /\ InBucket(reg[t].curr, b)
        /\ InBucket(next_slot[reg[t].curr].ref, b)
        /\ reg[t].curr \in Nodes /\ next_slot[reg[t].curr].ref \in Nodes
  BY <1>1, SearchPlace
<1>3. PICK n \in Nodes : n = reg[t].curr
  BY <1>2
<1>4. PICK link \in LinkValues : link = next_slot[n]
  BY RegFieldTypes
<1>5. InBucket(n, b) /\ InBucket(link.ref, b) /\ link.ref \in Nodes
  BY <1>2, <1>3, <1>4
<1>6. pc[t] \in DepLabels /\ pc \in [Threads -> DepLabels] /\ next_slot' \in [Nodes -> LinkValues]
  BY <1>1, BucketTypesOf
<1>7. CASE ~NotBeyond(n, call[t].hashed)
  <2>1. /\ reg' = [reg EXCEPT ![t].curr_next = Plain(n)]
        /\ \E l \in {"clean", "link"} : pc' = [pc EXCEPT ![t] = l]
    BY <1>3, <1>7 DEF Load, Goto
  <2>2. PICK y \in LinkValues : y = Plain(n) /\ y.ref = n
    BY LinkFacts
  <2>3. /\ reg' \in [Threads -> RegValues] /\ \A u \in Threads \ {t} : reg'[u] = reg[u]
        /\ reg'[t].prev = reg[t].prev /\ reg'[t].curr = n /\ reg'[t].curr_next = y
    BY <1>3, <2>1, <2>2, RegSetNext
  <2>4. pc'[t] \in {"clean", "link"}
    BY <1>6, <2>1
  <2>5. \E l \in Searching : pc' = [pc EXCEPT ![t] = l]
    BY <1>1, <2>1
  <2> QED  BY <1>1, <1>2, <1>3, <1>5, <1>6, <2>2, <2>3, <2>4, <2>5, SearchStep
<1>8. CASE NotBeyond(n, call[t].hashed) /\ IsDeleted(link)
  <2>1. reg' = [reg EXCEPT ![t].curr = link.ref] /\ pc' = pc
    BY <1>3, <1>4, <1>8 DEF Load
  <2>2. PICK m \in Nodes : m = link.ref
    BY <1>5
  <2>3. /\ reg' \in [Threads -> RegValues] /\ \A u \in Threads \ {t} : reg'[u] = reg[u]
        /\ reg'[t].prev = reg[t].prev /\ reg'[t].curr = m
    BY <2>1, <2>2, RegSetCurr
  <2>4. pc'[t] = "load" /\ \E l \in Searching : pc' = [pc EXCEPT ![t] = l]
    BY <1>1, <1>6, <2>1
  <2> QED  BY <1>1, <1>2, <1>5, <1>6, <2>2, <2>3, <2>4, SearchStep
<1>9. CASE NotBeyond(n, call[t].hashed) /\ ~IsDeleted(link)
  <2>1. /\ reg' = [reg EXCEPT ![t].curr_next = link]
        /\ \E l \in {"protect", "advance"} : pc' = [pc EXCEPT ![t] = l]
        /\ n \in Slots
    BY <1>3, <1>4, <1>9 DEF Load, Goto, NotBeyond
  <2>2. /\ reg' \in [Threads -> RegValues] /\ \A u \in Threads \ {t} : reg'[u] = reg[u]
        /\ reg'[t].prev = reg[t].prev /\ reg'[t].curr = n /\ reg'[t].curr_next = link
    BY <1>3, <2>1, RegSetNext
  <2>3. pc'[t] \in {"protect", "advance"}
    BY <1>6, <2>1
  <2>4. \E l \in Searching : pc' = [pc EXCEPT ![t] = l]
    BY <1>1, <2>1
  <2> QED  BY <1>1, <1>2, <1>3, <1>5, <1>6, <2>1, <2>2, <2>3, <2>4, SearchStep
<1> QED  BY <1>7, <1>8, <1>9

LEMMA BucketAdvance ==
  ASSUME BucketInv, Abstract!QueueInv, NEW t \in Threads, Advance(t)
  PROVE  BucketInv'
<1>1. /\ pc[t] = "advance" /\ {"load", "advance"} \subseteq Searching
      /\ pc' = [pc EXCEPT ![t] = "load"]
      /\ next_slot' = next_slot /\ searchUnchanged' = searchUnchanged
  BY DEF Advance, Searching, Goto
<1>2. PICK b \in Heads :
        /\ b = BucketHead(call[t].hashed) /\ InBucket(reg[t].curr, b)
        /\ InBucket(reg[t].curr_next.ref, b)
        /\ reg[t].curr \in Nodes /\ reg[t].curr_next.ref \in Nodes
  BY <1>1, SearchPlace
<1>3. PICK p \in Nodes, c \in Nodes, x \in LinkValues :
        p = reg[t].curr /\ c = reg[t].curr_next.ref /\ x = next_slot[p]
  BY <1>2, RegFieldTypes
<1>4. reg' = [reg EXCEPT ![t] = [prev |-> p, prev_next |-> x, curr |-> c, curr_next |-> Plain(Null)]]
  BY <1>3 DEF Advance
<1>5. Plain(Null) \in LinkValues
  BY LinkFacts
<1>6. /\ reg' \in [Threads -> RegValues] /\ \A u \in Threads \ {t} : reg'[u] = reg[u]
      /\ reg'[t].prev = p /\ reg'[t].curr = c
  BY <1>4, <1>5, RegSet
<1>7. pc'[t] = "load" /\ next_slot' \in [Nodes -> LinkValues]
  BY <1>1, BucketTypesOf
<1>8. InBucket(p, b) /\ InBucket(c, b)
  BY <1>2, <1>3
<1> QED  BY <1>1, <1>2, <1>6, <1>7, <1>8, SearchStep

LEMMA BucketProtect ==
  ASSUME BucketInv, Abstract!QueueInv, NEW t \in Threads, Protect(t)
  PROVE  BucketInv'
<1>1. /\ pc[t] = "protect" /\ {"protect", "advance", "switch"} \subseteq Searching
      /\ searchUnchanged' = searchUnchanged
  BY DEF Protect, Searching
<1>2. PICK b \in Heads :
        /\ b = BucketHead(call[t].hashed)
        /\ InBucket(reg[t].prev, b) /\ InBucket(reg[t].curr, b) /\ reg[t].curr \in Slots
        /\ InBucket(reg[t].curr_next.ref, b) /\ reg[t].curr_next.ref \in Nodes
        /\ InBucket(next_slot[reg[t].curr].ref, b)
  BY <1>1, SearchPlace
<1>3. PICK c \in Nodes : c = reg[t].curr
  BY <1>2, BucketTypesOf
<1>4. PICK y \in LinkValues : y = reg[t].curr_next
  BY RegFieldTypes
<1>5. PICK orig \in LinkValues : orig = next_slot[c]
  BY RegFieldTypes
<1>6. /\ InBucket(c, b) /\ InBucket(y.ref, b) /\ InBucket(orig.ref, b) /\ c \in Slots
      /\ y.ref \in Nodes
  BY <1>2, <1>3, <1>4, <1>5
<1>7. PICK new \in LinkValues : new = Protected(y.ref) /\ new.ref = y.ref
  BY <1>6, LinkFacts
<1>8. next_slot' = [next_slot EXCEPT ![c] = IF @ = y THEN new ELSE @]
  BY <1>3, <1>4, <1>7 DEF Protect, CAS
<1>9. /\ next_slot' \in [Nodes -> LinkValues]
      /\ \A n \in Nodes : \/ n = c /\ next_slot'[n] = new
                          \/ next_slot'[n] = next_slot[n]
  BY <1>8, BucketTypesOf
<1>10. \A n \in Nodes : \/ next_slot'[n] = next_slot[n]
                        \/ InBucket(n, b) /\ InBucket(next_slot'[n].ref, b)
  BY <1>6, <1>7, <1>9
<1>11. \/ /\ reg' = [reg EXCEPT ![t].curr_next = Plain(y.ref)]
          /\ pc' = [pc EXCEPT ![t] = "switch"]
       \/ /\ reg' = [reg EXCEPT ![t].curr_next = orig]
          /\ pc' = [pc EXCEPT ![t] = "advance"] \/ pc' = pc
  BY <1>3, <1>4, <1>5 DEF Protect, Goto
<1>12. PICK z \in LinkValues : reg' = [reg EXCEPT ![t].curr_next = z] /\ InBucket(z.ref, b)
  BY <1>6, <1>11, LinkFacts
<1>13. /\ reg' \in [Threads -> RegValues] /\ \A u \in Threads \ {t} : reg'[u] = reg[u]
       /\ reg'[t].prev = reg[t].prev /\ reg'[t].curr = c /\ reg'[t].curr_next = z
  BY <1>3, <1>12, RegSetNext
<1>14. \E l \in Searching : pc' = [pc EXCEPT ![t] = l]
  <2>1. pc = [pc EXCEPT ![t] = "protect"]
    BY <1>1, BucketTypesOf
  <2>2. pc' \in {pc, [pc EXCEPT ![t] = "switch"], [pc EXCEPT ![t] = "advance"]}
    BY <1>11
  <2> QED  BY <1>1, <2>1, <2>2
<1>15. /\ InBucket(reg'[t].prev, b) /\ InBucket(reg'[t].curr, b) /\ reg'[t].curr \in Slots
       /\ InBucket(reg'[t].curr_next.ref, b)
  BY <1>2, <1>6, <1>12, <1>13
<1>16. b = BucketHead(call[t].hashed) /\ pc[t] \in Searching
  BY <1>1, <1>2
<1> QED  BY ZenonT(60), <1>1, <1>9, <1>10, <1>13, <1>14, <1>15, <1>16, SearchStep

LEMMA BucketClean ==
  ASSUME BucketInv, Abstract!QueueInv, NEW t \in Threads, CleanUp(t)
  PROVE  BucketInv'
<1>1. /\ pc[t] = "clean" /\ {"clean", "link"} \subseteq Searching /\ reg' = reg
      /\ searchUnchanged' = searchUnchanged /\ pc' = [pc EXCEPT ![t] = "link"]
  BY DEF CleanUp, Searching, Goto
<1>2. PICK b \in Heads :
        /\ b = BucketHead(call[t].hashed)
        /\ InBucket(reg[t].prev, b) /\ InBucket(reg[t].curr, b)
        /\ InBucket(reg[t].curr_next.ref, b)
        /\ reg[t].prev \in Nodes /\ reg[t].curr \in Nodes
  BY <1>1, SearchPlace
<1>3. PICK p \in Nodes, c \in Nodes : p = reg[t].prev /\ c = reg[t].curr
  BY <1>2
<1>4. PICK x \in LinkValues : x = reg[t].prev_next
  BY RegFieldTypes
<1>5. PICK new \in LinkValues : new = [x EXCEPT !.ref = c] /\ new.ref = c
  <2>1. [x EXCEPT !.ref = c] \in LinkValues /\ [x EXCEPT !.ref = c].ref = c
    BY DEF LinkValues
  <2> QED  BY <2>1
<1>6. next_slot' = [next_slot EXCEPT ![p] = IF @ = x THEN new ELSE @]
  BY <1>3, <1>4, <1>5 DEF CleanUp, CAS
<1>7. /\ next_slot' \in [Nodes -> LinkValues]
      /\ \A n \in Nodes : \/ n = p /\ next_slot'[n] = new
                          \/ next_slot'[n] = next_slot[n]
  BY <1>6, BucketTypesOf
<1>8. \A n \in Nodes : \/ next_slot'[n] = next_slot[n]
                       \/ InBucket(n, b) /\ InBucket(next_slot'[n].ref, b)
  BY <1>2, <1>3, <1>5, <1>7
<1>9. pc'[t] = "link" /\ reg \in [Threads -> RegValues]
  BY <1>1, BucketTypesOf
<1> QED  BY <1>1, <1>2, <1>7, <1>8, <1>9, SearchStep

\* An attempt that fails has written the new slot's own link only.
LEMMA AttemptFails ==
  ASSUME BucketInv, Abstract!QueueInv, NEW t \in Threads, pc[t] \in {"link", "switch"},
         NEW b \in Heads, b = BucketHead(call[t].hashed),
         next_slot' \in [Nodes -> LinkValues],
         \A n \in Nodes \ {slot_idx[t]} : next_slot'[n] = next_slot[n],
         \/ Retry(t)
         \/ \E y \in LinkValues : InBucket(y.ref, b) /\ Again(t, y)
  PROVE  BucketInv'
<1>1. {"link", "switch"} \subseteq Searching /\ "insert" \notin Searching
  BY DEF Searching
<1>2. CASE Retry(t)
  <2>1. /\ pc' = [pc EXCEPT ![t] = "insert"] /\ searchUnchanged' = searchUnchanged
        /\ reg' = [reg EXCEPT ![t] = NoReg]
    BY <1>2 DEF Retry, Goto
  <2>2. NoReg \in RegValues
    BY LinkFacts DEF NoReg, RegValues
  <2>3. /\ reg' \in [Threads -> RegValues] /\ \A u \in Threads \ {t} : reg'[u] = reg[u]
        /\ pc'[t] = "insert"
    BY <2>1, <2>2, BucketTypesOf
  <2> QED  BY <1>1, <2>1, <2>3, SearchStep
<1>3. CASE \E y \in LinkValues : InBucket(y.ref, b) /\ Again(t, y)
  <2>1. PICK y \in LinkValues : InBucket(y.ref, b) /\ Again(t, y)
    BY <1>3
  <2>2. /\ pc' = pc /\ searchUnchanged' = searchUnchanged
        /\ reg' = [reg EXCEPT ![t].curr_next = y]
    BY <2>1 DEF Again, searchUnchanged
  <2>3. /\ reg' \in [Threads -> RegValues] /\ \A u \in Threads \ {t} : reg'[u] = reg[u]
        /\ reg'[t].prev = reg[t].prev /\ reg'[t].curr = reg[t].curr /\ reg'[t].curr_next = y
    BY <2>2, RegSetNext
  <2>4. /\ InBucket(reg'[t].prev, b) /\ InBucket(reg'[t].curr, b) /\ InBucket(reg'[t].curr_next.ref, b)
        /\ pc'[t] = "switch" => reg'[t].curr \in Slots
    BY <1>1, <2>1, <2>2, <2>3, BucketTypesOf DEF CallInBucket
  <2>5. pc' = [pc EXCEPT ![t] = pc[t]] /\ pc[t] \in Searching
    BY <1>1, <2>2, BucketTypesOf
  <2>6. \E l \in Searching : pc' = [pc EXCEPT ![t] = l]
    BY <2>5
  <2>7. pc'[t] \in {"protect", "advance", "switch"} => reg'[t].curr \in Slots
    BY <2>2, <2>4
  <2>8. \A n \in Nodes : n = slot_idx[t] \/ next_slot'[n] = next_slot[n]
    OBVIOUS
  <2> QED  BY ZenonT(60), <2>2, <2>3, <2>4, <2>5, <2>6, <2>7, <2>8, SearchStep
<1> QED  BY <1>2, <1>3

\* One that succeeds has joined the slot to the bucket.
LEMMA AttemptSucceeds ==
  ASSUME BucketInv, Abstract!QueueInv, NEW t \in Threads, pc[t] \in {"link", "switch"}, Succeed(t),
         NEW s \in Slots, s = slot_idx[t],
         NEW b \in Heads, b = BucketHead(call[t].hashed),
         next_slot' \in [Nodes -> LinkValues], InBucket(next_slot'[s].ref, b),
         \A n \in Nodes \ {s} : \/ next_slot'[n] = next_slot[n]
                                \/ InBucket(n, b) /\ next_slot'[n].ref = s
  PROVE  BucketInv'
<1>1. call[t].hashed \in Hashes /\ slot[s].stamp = 0 /\ slot[s].hashed = call[t].hashed
  BY BucketTypesOf DEF CallInBucket, Searching
<1>2. /\ clock' = clock + 1 /\ pc' = [pc EXCEPT ![t] = "lock"]
      /\ call' = [call EXCEPT ![t].stamp = clock + 1]
      /\ slot' = [slot EXCEPT ![s].stamp = clock + 1]
      /\ reg' = [reg EXCEPT ![t] = NoReg]
      /\ UNCHANGED <<slot_idx, cur_slot, next_free_slot, procd, mtx>>
  BY DEF Succeed, Inserted, Goto
<1>3. NoReg \in RegValues
  BY LinkFacts DEF NoReg, RegValues
<1>4. clock + 1 \in Nat /\ clock + 1 > 0
  BY BucketTypesOf
<1>5. /\ pc' \in [Threads -> DepLabels] /\ pc'[t] = "lock"
      /\ \A u \in Threads \ {t} : pc'[u] = pc[u]
  BY <1>2, BucketTypesOf DEF DepLabels
<1>6. /\ reg' \in [Threads -> RegValues] /\ \A u \in Threads \ {t} : reg'[u] = reg[u]
  BY <1>2, <1>3, BucketTypesOf
<1>7. /\ call' \in [Threads -> [hashed : Nat, stamp : Nat]] /\ call'[t].hashed = call[t].hashed
      /\ \A u \in Threads \ {t} : call'[u] = call[u]
  BY <1>2, <1>4, BucketTypesOf
<1>8. /\ slot' \in [Slots -> [hashed : Nat, is_ready : BOOLEAN, stamp : Nat]]
      /\ slot'[s].stamp > 0 /\ slot'[s].hashed = slot[s].hashed
      /\ \A i \in Slots \ {s} : slot'[i] = slot[i]
  BY <1>2, <1>4, BucketTypesOf
<1>9. BucketTypes'
  BY <1>2, <1>4, <1>5, <1>6, <1>7, <1>8, BucketTypesOf DEF BucketTypes, DepTypes, DepLabels
<1>10. ASSUME NEW n, NEW c \in Heads, InBucket(n, c)  PROVE InBucket(n, c)'
  <2>1. \A i \in Slots : slot[i].stamp > 0 => slot'[i].stamp > 0 /\ slot'[i].hashed = slot[i].hashed
    BY <1>1, <1>8
  <2> QED  BY <1>10, <2>1, BucketStays
<1>11. BucketLinks'
  <2> SUFFICES ASSUME NEW c \in Heads, NEW n \in Nodes, InBucket(n, c)'
               PROVE  InBucket(next_slot[n].ref, c)'
    BY DEF BucketLinks
  <2>1. CASE n = s
    <3>1. c = b
      BY <1>1, <1>8, <2>1, NodeFacts DEF InBucket
    <3>2. PICK m : m = next_slot'[s].ref
      OBVIOUS
    <3>3. InBucket(m, c)'
      BY <1>10, <3>1, <3>2
    <3> QED  BY <2>1, <3>2, <3>3
  <2>2. CASE n # s
    <3>1. InBucket(n, c)
      BY <1>8, <2>2 DEF InBucket
    <3>2. PICK m : m = next_slot'[n].ref
      OBVIOUS
    <3>3. CASE next_slot'[n] = next_slot[n]
      <4>1. InBucket(m, c)
        BY <3>1, <3>2, <3>3 DEF BucketInv, BucketLinks
      <4>2. InBucket(m, c)'
        BY <1>10, <4>1
      <4> QED  BY <3>2, <4>2
    <3>4. CASE InBucket(n, b) /\ next_slot'[n].ref = s
      <4>1. c = b
        BY <3>1, <3>4, BucketFactsOf
      <4>2. InBucket(m, c)'
        BY <1>1, <1>8, <3>2, <3>4, <4>1 DEF InBucket
      <4> QED  BY <3>2, <4>2
    <3> QED  BY <2>2, <3>3, <3>4
  <2> QED  BY <2>1, <2>2
<1>12. CallInBucket(t)'
  BY <1>1, <1>2, <1>5, <1>7, <1>8 DEF CallInBucket, Searching
<1>13. \A i \in Slots : \/ slot'[i].stamp = slot[i].stamp /\ slot'[i].hashed = slot[i].hashed
                        \/ i = slot_idx[t] /\ pc[t] \in Owning /\ slot[i].stamp = 0
  BY <1>1, <1>8 DEF Owning
<1>14. next_free_slot' >= next_free_slot /\ pc[t] \in Owning
  BY <1>2, BucketTypesOf DEF Owning
<1>15. \A u \in Threads \ {t} : /\ pc'[u] = pc[u] /\ reg'[u] = reg[u] /\ call'[u] = call[u]
                               /\ slot_idx'[u] = slot_idx[u] /\ cur_slot'[u] = cur_slot[u]
  BY <1>2, <1>5, <1>6, <1>7
<1> QED  BY <1>9, <1>11, <1>12, <1>13, <1>14, <1>15, BucketFrame

LEMMA BucketLink ==
  ASSUME BucketInv, Abstract!QueueInv, NEW t \in Threads, Link(t)
  PROVE  BucketInv'
<1>1. pc[t] = "link" /\ pc[t] \in Searching
  BY DEF Link, Searching
<1>2. PICK b \in Heads :
        /\ b = BucketHead(call[t].hashed)
        /\ slot_idx[t] \in Slots /\ slot[slot_idx[t]].stamp = 0
        /\ InBucket(reg[t].prev, b) /\ reg[t].prev \in Nodes
        /\ InBucket(reg[t].curr_next.ref, b) /\ InBucket(next_slot[reg[t].prev].ref, b)
  BY <1>1, SearchPlace
<1>3. PICK s \in Slots : s = slot_idx[t]
  BY <1>2
<1>4. PICK n \in Nodes : n = reg[t].prev
  BY <1>2
<1>5. PICK right \in LinkValues : right = reg[t].curr_next
  BY RegFieldTypes
<1>6. PICK orig \in LinkValues : orig = next_slot[n]
  BY RegFieldTypes
<1>7. InBucket(n, b) /\ n # s /\ InBucket(right.ref, b) /\ InBucket(orig.ref, b)
  BY <1>2, <1>3, <1>4, <1>5, <1>6, NodeFacts DEF InBucket
<1>8. Plain(s) \in LinkValues /\ Plain(s).ref = s
  BY LinkFacts, NodeFacts
<1>9. next_slot' = [next_slot EXCEPT ![s] = right, ![n] = IF @ = right THEN Plain(s) ELSE @]
  BY <1>3, <1>4, <1>5 DEF Link, Publish
<1>10. /\ next_slot' \in [Nodes -> LinkValues] /\ next_slot'[s] = right
       /\ next_slot'[n] = IF orig = right THEN Plain(s) ELSE orig
       /\ \A m \in Nodes \ {s, n} : next_slot'[m] = next_slot[m]
  <2>1. next_slot \in [Nodes -> LinkValues] /\ s \in Nodes
    BY BucketTypesOf
  <2> QED  BY <1>6, <1>7, <1>8, <1>9, <2>1
<1>11. CASE orig = right /\ Succeed(t)
  BY <1>1, <1>2, <1>3, <1>7, <1>8, <1>10, <1>11, AttemptSucceeds
<1>12. CASE orig # right /\ (Retry(t) \/ Again(t, orig))
  BY <1>1, <1>2, <1>3, <1>6, <1>7, <1>10, <1>12, AttemptFails
<1> QED  BY <1>4, <1>5, <1>6, <1>11, <1>12 DEF Link

LEMMA BucketSwitch ==
  ASSUME BucketInv, Abstract!QueueInv, NEW t \in Threads, Switch(t)
  PROVE  BucketInv'
<1>1. pc[t] = "switch" /\ pc[t] \in Searching
  BY DEF Switch, Searching
<1>2. PICK b \in Heads :
        /\ b = BucketHead(call[t].hashed)
        /\ slot_idx[t] \in Slots /\ slot[slot_idx[t]].stamp = 0
        /\ InBucket(reg[t].curr, b) /\ reg[t].curr \in Nodes
        /\ InBucket(reg[t].curr_next.ref, b) /\ InBucket(next_slot[reg[t].curr].ref, b)
  BY <1>1, SearchPlace
<1>3. PICK s \in Slots : s = slot_idx[t]
  BY <1>2
<1>4. PICK n \in Nodes : n = reg[t].curr
  BY <1>2
<1>5. PICK right \in LinkValues : right = reg[t].curr_next
  BY RegFieldTypes
<1>6. PICK orig \in LinkValues : orig = next_slot[n]
  BY RegFieldTypes
<1>7. InBucket(n, b) /\ n # s /\ InBucket(right.ref, b) /\ InBucket(orig.ref, b)
      /\ orig.ref \in Nodes
  BY <1>2, <1>3, <1>4, <1>5, <1>6, NodeFacts, BucketFactsOf DEF InBucket
<1>8. Deleted(s) \in LinkValues /\ Deleted(s).ref = s
      /\ Plain(orig.ref) \in LinkValues /\ Plain(orig.ref).ref = orig.ref
  BY <1>7, LinkFacts, NodeFacts
<1>9. next_slot' = [next_slot EXCEPT ![s] = right,
                                     ![n] = IF @ = Protected(right.ref) THEN Deleted(s) ELSE @]
  BY <1>3, <1>4, <1>5 DEF Switch, Publish
<1>10. /\ next_slot' \in [Nodes -> LinkValues] /\ next_slot'[s] = right
       /\ next_slot'[n] = IF orig = Protected(right.ref) THEN Deleted(s) ELSE orig
       /\ \A m \in Nodes \ {s, n} : next_slot'[m] = next_slot[m]
  <2>1. next_slot \in [Nodes -> LinkValues] /\ s \in Nodes
    BY BucketTypesOf
  <2> QED  BY <1>6, <1>7, <1>8, <1>9, <2>1
<1>11. CASE orig = Protected(right.ref) /\ Succeed(t)
  BY <1>1, <1>2, <1>3, <1>7, <1>8, <1>10, <1>11, AttemptSucceeds
<1>12. CASE orig # Protected(right.ref) /\ (Retry(t) \/ Again(t, Plain(orig.ref)))
  BY <1>1, <1>2, <1>3, <1>6, <1>7, <1>8, <1>10, <1>12, AttemptFails
<1>13. \/ orig = Protected(right.ref) /\ Succeed(t)
       \/ orig # Protected(right.ref) /\ (Retry(t) \/ Again(t, Plain(orig.ref)))
  BY <1>4, <1>5, <1>6, LinkFacts DEF Switch, IsProtected, Protected
<1> QED  BY <1>11, <1>12, <1>13

----------------------------------------------------------------------------
(* The theorems.                                                           *)

LEMMA StepKeepsBuckets ==
  ASSUME BucketInv, Abstract!QueueInv, NEW t \in Threads,
         DepStep(t) \/ (Call(t) /\ UNCHANGED reg)
  PROVE  BucketInv'
BY BucketCall, BucketClaim, BucketFill, BucketEnter, BucketWalk, BucketWrite, BucketFinish,
   BucketReset, BucketClear, BucketFree, BucketReturn, BucketSearchHead, BucketSearchFirst,
   BucketLoad, BucketProtect, BucketAdvance, BucketClean, BucketLink, BucketSwitch
   DEF DepStep, Critical, TryInsert

LEMMA MapInit == DepInit => Abstract!Init
<1> SUFFICES ASSUME DepInit  PROVE Abstract!Init
  OBVIOUS
<1>1. [u \in Threads |-> AbstractPc(u)] = [u \in Threads |-> "idle"]
  BY DEF DepInit, Init, AbstractPc, Searching
<1>2. [n \in Nodes |-> AbstractLink(n)] = Abstract!EmptyLists
  BY SameConstants, LinkFacts DEF DepInit, Init, EmptyLists, Abstract!EmptyLists, AbstractLink
<1> QED  BY <1>1, <1>2, SameConstants DEF DepInit, Init, Abstract!Init

LEMMA BucketInit ==
  ASSUME DepInit  PROVE BucketInv /\ Abstract!QueueInv
<1>1. /\ pc = [t \in Threads |-> "idle"] /\ call = [t \in Threads |-> [hashed |-> 0, stamp |-> 0]]
      /\ slot_idx = [t \in Threads |-> 0] /\ cur_slot = [t \in Threads |-> 0]
      /\ next_free_slot = 0 /\ procd = 0 /\ mtx = NoThread /\ clock = 0
      /\ slot = [i \in Slots |-> [hashed |-> 0, is_ready |-> FALSE, stamp |-> 0]]
      /\ next_slot = [n \in Nodes |-> IF n \in Heads THEN Plain(n) ELSE Plain(Null)]
      /\ reg = [t \in Threads |-> NoReg]
  BY DEF DepInit, Init, NoCall, ClearSlot, EmptyLists
<1>2. SLOT_MAX \in Nat /\ SLOT_MAX > 0 /\ 0 \in Slots /\ Slots \subseteq Nodes
  BY NodeFacts, RpliAssumption DEF Slots
<1>3. BucketTypes
  <2>1. NoReg \in RegValues
    BY LinkFacts DEF NoReg, RegValues
  <2>2. next_slot \in [Nodes -> LinkValues]
    BY <1>1, LinkFacts, NodeFacts
  <2> QED  BY <1>1, <1>2, <2>1, <2>2 DEF BucketTypes, DepTypes
<1>4. BucketLinks
  <2> SUFFICES ASSUME NEW b \in Heads, NEW n \in Nodes, InBucket(n, b)
               PROVE  InBucket(next_slot[n].ref, b)
    BY DEF BucketLinks
  <2>1. n = b
    BY <1>1 DEF InBucket
  <2> QED  BY <1>1, <2>1, LinkFacts, NodeFacts DEF InBucket
<1>5. BucketInv
  BY <1>1, <1>3, <1>4 DEF BucketInv, FreeEmpty, CallInBucket, Searching
<1>6. Abstract!QueueInv
  BY MapInit, Abstract!QueueInit, RpliAssumption
<1> QED  BY <1>5, <1>6

LEMMA BucketStutter ==
  ASSUME BucketInv, Abstract!QueueInv, UNCHANGED vars  PROVE BucketInv' /\ Abstract!QueueInv'
<1>1. /\ pc' = pc /\ call' = call /\ slot' = slot /\ next_slot' = next_slot /\ reg' = reg
      /\ slot_idx' = slot_idx /\ cur_slot' = cur_slot /\ clock' = clock
      /\ next_free_slot' = next_free_slot /\ procd' = procd /\ mtx' = mtx
  BY DEF vars, rpliVars
<1>2. BucketInv'
  BY <1>1 DEF BucketInv, BucketTypes, DepTypes, BucketLinks, InBucket, FreeEmpty, CallInBucket
<1>3. [u \in Threads |-> AbstractPc(u)]' = [u \in Threads |-> AbstractPc(u)]
  BY <1>1 DEF AbstractPc
<1>4. Abstract!QueueInv'
  BY <1>1, <1>3 DEF Abstract!QueueInv, Abstract!MutexHeld, Abstract!OwnedClaimed,
                    Abstract!SlotOwnership, Abstract!ResetQuiescent, Abstract!ProcdCounts,
                    Abstract!Processed
<1> QED  BY <1>2, <1>4

LEMMA BucketNext ==
  ASSUME BucketInv, Abstract!QueueInv, [DepNext]_vars  PROVE BucketInv' /\ Abstract!QueueInv'
<1>1. ASSUME NEW t \in Threads, DepStep(t) \/ (Call(t) /\ UNCHANGED reg)
      PROVE  BucketInv' /\ Abstract!QueueInv'
  BY <1>1, StepKeepsBuckets, StepKeepsQueue DEF BucketInv
<1>2. ASSUME Terminated, UNCHANGED reg  PROVE UNCHANGED vars
  BY <1>2 DEF Terminated, vars
<1> QED  BY <1>1, <1>2, BucketStutter DEF DepNext

\* Whatever keys share a bucket: a search or a walk never leaves the list of its
\* bucket, whatever searches, switches, clean-ups and resets run meanwhile.
THEOREM BucketsCorrect == DepSpec => [](BucketInv /\ Abstract!QueueInv)
<1>1. DepInit => BucketInv /\ Abstract!QueueInv
  BY BucketInit
<1>2. (BucketInv /\ Abstract!QueueInv) /\ [DepNext]_vars => (BucketInv /\ Abstract!QueueInv)'
  BY BucketNext
<1> QED  BY <1>1, <1>2, PTL DEF DepSpec

\* No load of rsdco_try_insert is through a null link, and what it takes for a
\* request is one, also when other keys share the bucket.
THEOREM DepTypeCorrect == DepSpec => []DepTypeOK
<1>1. BucketInv => DepTypeOK
  <2> SUFFICES ASSUME BucketInv  PROVE DepTypeOK
    OBVIOUS
  <2>1. next_slot \in [Nodes -> LinkValues]
    BY BucketTypesOf
  <2>2. ASSUME NEW t \in Threads
        PROVE  /\ pc[t] \in Searching => reg[t].prev \in Nodes
               /\ pc[t] \in Searching \ {"first"} => reg[t].curr \in Nodes
               /\ pc[t] \in {"protect", "advance", "switch"} => reg[t].curr \in Slots
               /\ reg[t].curr_next.ref \in Nodes \cup {Null}
    <3>1. pc[t] \in {"protect", "advance", "switch"} => pc[t] \in Searching
      BY DEF Searching
    <3> QED  BY <3>1, SearchPlace, RegFieldTypes
  <2> QED  BY <2>1, <2>2 DEF DepTypeOK, LinkValues
<1> QED  BY <1>1, BucketsCorrect, PTL

\* Two calls never own one slot of the hash table at a time, with the insertion
\* in its real steps and any keys in a bucket.
THEOREM DepOwnershipCorrect == DepSpec => []SlotOwnership
<1>1. BucketInv /\ Abstract!QueueInv => SlotOwnership
  BY QueueFacts DEF BucketInv
<1> QED  BY <1>1, BucketsCorrect, PTL

\* While the table is reset nobody searches it, inserts into it or waits in it.
THEOREM DepResetCorrect == DepSpec => []ResetQuiescent
<1>1. BucketInv /\ Abstract!QueueInv => ResetQuiescent
  BY QueueFacts DEF BucketInv
<1> QED  BY <1>1, BucketsCorrect, PTL

----------------------------------------------------------------------------
(* The refinement: from here on no two keys share a bucket.                *)


AbsInv == Abstract!TypeInv /\ Abstract!QueueInv /\ Abstract!TableInv

\* The types RequestToRpli has for what the refinement mapping leaves as it is.
LEMMA AbsTypes ==
  ASSUME AbsInv
  PROVE  /\ call \in [Threads -> [hashed : Nat, stamp : Nat]]
         /\ slot_idx \in [Threads -> Slots] /\ cur_slot \in [Threads -> Slots]
         /\ slot \in [Slots -> [hashed : Nat, is_ready : BOOLEAN, stamp : Nat]]
         /\ clock \in Nat
BY SameConstants DEF AbsInv, Abstract!TypeInv, Abstract!TypeOK, Abstract!CallType, Abstract!SlotType

----------------------------------------------------------------------------
(* The steps outside the insertion are the abstract ones.                  *)

LEMMA CallRefines ==
  ASSUME DepTypes, NEW t \in Threads, Call(t)  PROVE Abstract!Call(t)
<1>1. pc[t] = "idle" /\ pc' = [pc EXCEPT ![t] = "claim"] /\ next_slot' = next_slot
  BY DEF Call, Goto
<1>2. "idle" \notin Searching /\ "claim" \notin Searching
  BY DEF Searching
<1> QED  BY <1>1, <1>2, MapPc, MapSame, MapHere DEF Call, Abstract!Call, Abstract!Goto

LEMMA FillRefines ==
  ASSUME DepTypes, NEW t \in Threads, Fill(t)  PROVE Abstract!Fill(t)
<1>1. pc[t] = "fill" /\ pc' = [pc EXCEPT ![t] = "insert"] /\ next_slot' = next_slot
  BY DEF Fill, Goto
<1>2. "fill" \notin Searching /\ "insert" \notin Searching
  BY DEF Searching
<1> QED  BY <1>1, <1>2, MapPc, MapSame, MapHere DEF Fill, Abstract!Fill, Abstract!Goto

LEMMA EnterRefines ==
  ASSUME DepTypes, AbsInv, NEW t \in Threads, Enter(t)  PROVE Abstract!Enter(t)
<1>1. pc[t] = "lock" /\ next_slot' = next_slot /\ slot_idx[t] \in Slots
  BY AbsTypes DEF Enter
<1>2. "lock" \notin Searching /\ \A l \in {"walk", "write", "finish"} : l \notin Searching
  BY DEF Searching
<1>3. [u \in Threads |-> AbstractPc(u)][t] = "lock"
  BY <1>1, <1>2, MapHere
<1>4. \A l \in {"walk", "write", "finish"} : Goto(t, l) => Abstract!Goto(t, l)
  BY <1>2, MapPc DEF Goto, Abstract!Goto
<1>5. /\ [n \in Nodes |-> AbstractLink(n)]' = [n \in Nodes |-> AbstractLink(n)]
      /\ Abstract!IsDeleted([n \in Nodes |-> AbstractLink(n)][slot_idx[t]])
           <=> IsDeleted(next_slot[slot_idx[t]])
  BY <1>1, MapSame, MapDeleted, SameConstants
<1> QED  BY <1>1, <1>3, <1>4, <1>5 DEF Enter, Abstract!Enter

LEMMA WalkRefines ==
  ASSUME DepTypes, AbsInv, NEW t \in Threads, Walk(t)  PROVE Abstract!Walk(t)
<1> DEFINE link == [n \in Nodes |-> AbstractLink(n)]
           cur == cur_slot[t]
<1>1. pc[t] = "walk" /\ next_slot' = next_slot /\ cur \in Slots
  BY AbsTypes DEF Walk
<1>2. \A l \in {"walk", "write", "abort"} : l \notin Searching
  BY DEF Searching
<1>3. [u \in Threads |-> AbstractPc(u)][t] = "walk"
  BY <1>1, <1>2, MapHere
<1>4. /\ \A l \in {"write", "abort"} : Goto(t, l) => Abstract!Goto(t, l)
      /\ UNCHANGED pc => [u \in Threads |-> AbstractPc(u)]' = [u \in Threads |-> AbstractPc(u)]
  BY <1>2, MapPc DEF Goto, Abstract!Goto, AbstractPc
<1>5. /\ link' = link
      /\ Abstract!IsDeleted(link[cur]) <=> IsDeleted(next_slot[cur])
      /\ IsDeleted(next_slot[cur]) => link[cur] = next_slot[cur]
  BY <1>1, MapSame, MapDeleted, SameConstants
<1>6. Abstract!BucketHead(call[t].hashed) = BucketHead(call[t].hashed)
  BY SameConstants
<1> HIDE DEF link, cur
<1>7. CASE IsDeleted(next_slot[cur])
  BY <1>1, <1>3, <1>4, <1>5, <1>6, <1>7 DEF Walk, Abstract!Walk, link, cur
<1>8. CASE ~IsDeleted(next_slot[cur])
  BY <1>1, <1>3, <1>4, <1>5, <1>6, <1>8 DEF Walk, Abstract!Walk, link, cur
<1> QED  BY <1>7, <1>8

LEMMA WriteRefines ==
  ASSUME DepTypes, NEW t \in Threads, Write(t)  PROVE Abstract!Write(t)
<1>1. pc[t] = "write" /\ pc' = [pc EXCEPT ![t] = "finish"] /\ next_slot' = next_slot
  BY DEF Write, Goto
<1>2. "write" \notin Searching /\ "finish" \notin Searching
  BY DEF Searching
<1> QED  BY <1>1, <1>2, MapPc, MapSame, MapHere, SameConstants DEF Write, Abstract!Write, Abstract!Goto

\* Heads look empty in the abstract view all along.
LEMMA ResetBucketsRefines ==
  ASSUME DepTypes, NEW t \in Threads, ResetBuckets(t)  PROVE Abstract!ResetBuckets(t)
<1>1. pc[t] = "buckets" /\ pc' = [pc EXCEPT ![t] = "slots"]
  BY DEF ResetBuckets, Goto
<1>2. "buckets" \notin Searching /\ "slots" \notin Searching
  BY DEF Searching
<1>3. next_slot' = [n \in Nodes |-> IF n \in Heads THEN Plain(n) ELSE next_slot[n]]
  BY DEF ResetBuckets
<1>4. [n \in Nodes |-> AbstractLink(n)]'
      = [n \in Nodes |-> IF n \in Abstract!Heads THEN Abstract!Plain(n)
                                                   ELSE [m \in Nodes |-> AbstractLink(m)][n]]
  BY <1>3, SameConstants DEF AbstractLink
<1> QED  BY <1>1, <1>2, <1>4, MapPc, MapHere, SameConstants
         DEF ResetBuckets, Abstract!ResetBuckets, Abstract!Goto

LEMMA ClearSlotsRefines ==
  ASSUME DepTypes, NEW t \in Threads, ClearSlots(t)  PROVE Abstract!ClearSlots(t)
<1>1. pc[t] = "slots" /\ pc' = [pc EXCEPT ![t] = "free"]
  BY DEF ClearSlots, Goto
<1>2. "slots" \notin Searching /\ "free" \notin Searching
  BY DEF Searching
<1>3. next_slot' = [n \in Nodes |-> IF n \in Slots THEN Plain(Null) ELSE next_slot[n]]
  BY DEF ClearSlots
<1>4. [n \in Nodes |-> AbstractLink(n)]'
      = [n \in Nodes |-> IF n \in Abstract!Slots THEN Abstract!Plain(Abstract!Null)
                                                   ELSE [m \in Nodes |-> AbstractLink(m)][n]]
  BY <1>3, SameConstants, NodeFacts, LinkFacts DEF AbstractLink
<1> QED  BY <1>1, <1>2, <1>4, MapPc, MapHere, SameConstants
         DEF ClearSlots, Abstract!ClearSlots, Abstract!Goto

LEMMA TerminatedRefines ==
  ASSUME Terminated  PROVE Abstract!Terminated
<1>1. /\ [n \in Nodes |-> AbstractLink(n)]' = [n \in Nodes |-> AbstractLink(n)]
      /\ [u \in Threads |-> AbstractPc(u)]' = [u \in Threads |-> AbstractPc(u)]
  BY DEF Terminated, rpliVars, AbstractLink, AbstractPc
<1>2. \A u \in Threads : [v \in Threads |-> AbstractPc(v)][u] = "idle"
  BY DEF Terminated, AbstractPc, Searching
<1> QED  BY <1>1, <1>2 DEF Terminated, Abstract!Terminated, rpliVars, Abstract!rpliVars

----------------------------------------------------------------------------
(* What the queue's and the table's invariants say here.                   *)

\* Nobody but its caller has a claimed slot, and it is not in the table before
\* the insertion ends.
LEMMA CallFacts ==
  ASSUME DepTypes, AbsInv
  PROVE  /\ SlotOwnership /\ ResetQuiescent
         /\ \A t \in Threads : pc[t] \in Searching \cup {"fill", "insert"} =>
              slot[slot_idx[t]].stamp = 0 /\ ~IsDeleted(next_slot[slot_idx[t]])
         /\ \A t \in Threads : pc[t] \in Searching \cup {"insert"} =>
              slot[slot_idx[t]].hashed = call[t].hashed
<1> DEFINE apc == [t \in Threads |-> AbstractPc(t)]
<1>1. /\ Abstract!SlotOwnership /\ Abstract!ResetQuiescent
      /\ \A t \in Threads : Abstract!Tracked(t)
  BY DEF AbsInv, Abstract!QueueInv, Abstract!TableInv
<1>2. \A t \in Threads : /\ apc[t] \in Owning <=> pc[t] \in Owning
                         /\ apc[t] \in Resetting <=> pc[t] \in Resetting
                         /\ pc[t] \in Searching \cup {"insert"} => apc[t] = "insert"
                         /\ pc[t] = "fill" => apc[t] = "fill"
  BY DEF DepTypes, AbstractPc, Searching, Owning, Resetting
<1> HIDE DEF apc
<1>3. SlotOwnership
  BY <1>1, <1>2, SameConstants DEF SlotOwnership, Abstract!SlotOwnership, apc
<1>4. ResetQuiescent
  BY <1>1, <1>2, SameConstants DEF ResetQuiescent, Abstract!ResetQuiescent, apc
<1>5. ASSUME NEW t \in Threads, pc[t] \in Searching \cup {"fill", "insert"}
      PROVE  /\ slot[slot_idx[t]].stamp = 0 /\ ~IsDeleted(next_slot[slot_idx[t]])
             /\ pc[t] # "fill" => slot[slot_idx[t]].hashed = call[t].hashed
  <2>1. apc[t] \in {"fill", "insert"} /\ slot_idx[t] \in Slots
        /\ (pc[t] # "fill" => apc[t] = "insert")
    BY <1>2, <1>5, AbsTypes
  <2>2. Abstract!Unused(slot_idx[t])
        /\ (pc[t] # "fill" => slot[slot_idx[t]].hashed = call[t].hashed)
    BY <1>1, <2>1 DEF Abstract!Tracked, apc
  <2> QED  BY <2>1, <2>2, MapDeleted, SameConstants DEF Abstract!Unused
<1>6. "fill" \notin Searching
  BY DEF Searching
<1> QED  BY <1>3, <1>4, <1>5, <1>6

\* Requests get into the table and out of it by their stamps.
LEMMA OfKeySame ==
  ASSUME \A i \in Slots : /\ slot'[i].stamp = slot[i].stamp
                          /\ slot[i].stamp > 0 => slot'[i].hashed = slot[i].hashed
  PROVE  \A h \in Hashes : OfKey(h)' = OfKey(h)
BY DEF OfKey

----------------------------------------------------------------------------
(* Steps that leave the requests in the table as they are.                 *)

LEMMA SearchKeep ==
  ASSUME NEW u \in Threads, SearchInv(u),
         pc'[u] = pc[u], reg'[u] = reg[u], call'[u].hashed = call[u].hashed,
         \A h \in Hashes : OfKey(h) \subseteq OfKey(h)'
  PROVE  SearchInv(u)'
<1> DEFINE h == call[u].hashed
<1>1. pc[u] \in Searching => h \in Hashes /\ OfKey(h) \subseteq OfKey(h)'
  BY DEF SearchInv
<1>2. CASE pc[u] \in Searching
  <2>1. OfKey(h) \subseteq OfKey(h)' /\ h' = h
    BY <1>1, <1>2
  <2> QED  BY <2>1 DEF SearchInv
<1>3. CASE pc[u] \notin Searching
  BY <1>3 DEF SearchInv, Searching
<1> QED  BY <1>2, <1>3

LEMMA ListFrame ==
  ASSUME ListInv, DepTypes', NEW t \in Threads,
         \A h \in Hashes : OfKey(h)' = OfKey(h),
         \A n \in Heads : next_slot'[n] = next_slot[n],
         \A h \in Hashes : \A i \in OfKey(h) :
           \/ next_slot'[i] = next_slot[i]
           \/ /\ next_slot[i] \in {Plain(BucketHead(h)), Protected(BucketHead(h))}
              /\ next_slot'[i] \in {Plain(BucketHead(h)), Protected(BucketHead(h))},
         \A u \in Threads \ {t} : pc'[u] = pc[u] /\ reg'[u] = reg[u] /\ call'[u] = call[u],
         pc[t] # "slots", pc'[t] # "slots", SearchInv(t)'
  PROVE  ListInv'
<1>1. TableLinks'
  BY DEF ListInv, TableLinks
<1>2. OneNewest'
  <2>1. ASSUME NEW h \in Hashes, NEW i \in OfKey(h)
        PROVE  IsDeleted(next_slot'[i]) <=> IsDeleted(next_slot[i])
    BY <2>1, LinkFacts
  <2> QED  BY <2>1 DEF ListInv, OneNewest
<1>3. HeadLinks'
  <2>1. (\E u \in Threads : pc[u] = "slots") <=> \E u \in Threads : pc'[u] = "slots"
    OBVIOUS
  <2> QED  BY <2>1, NodeFacts DEF ListInv, HeadLinks
<1>4. \A u \in Threads : SearchInv(u)'
  <2>1. ASSUME NEW u \in Threads \ {t}  PROVE SearchInv(u)'
    BY SearchKeep DEF ListInv
  <2> QED  BY <2>1
<1> QED  BY <1>1, <1>2, <1>3, <1>4 DEF ListInv

\* The steps of a call outside the insertion that reset nothing.
LEMMA ListQuiet ==
  ASSUME ListInv, AbsInv, NEW t \in Threads, reg' = reg,
         \/ Call(t) \/ Claim(t) \/ Fill(t) \/ Enter(t) \/ Walk(t) \/ Write(t)
         \/ Finish(t) \/ FreeSlots(t) \/ Return(t)
  PROVE  ListInv'
<1> DEFINE Labels == {"idle", "claim", "fill", "insert", "lock", "walk", "write", "finish",
                      "buckets", "free", "return", "abort"}
           quiet == /\ next_slot' = next_slot
                    /\ pc[t] \in Labels
                    /\ \E l \in Labels : /\ pc' = [pc EXCEPT ![t] = l]
                                         /\ l \in {"claim", "fill", "insert"} => call'[t].hashed \in Hashes
                    /\ \A u \in Threads \ {t} : call'[u] = call[u]
                    /\ \A i \in Slots : /\ slot'[i].stamp = slot[i].stamp
                                        /\ slot[i].stamp > 0 => slot'[i].hashed = slot[i].hashed
<1> USE DEF Goto
<1>1. /\ pc \in [Threads -> Searching \cup Labels \cup {"slots"}]
      /\ call \in [Threads -> [hashed : Nat, stamp : Nat]]
      /\ slot_idx \in [Threads -> Slots] /\ cur_slot \in [Threads -> Slots]
      /\ slot \in [Slots -> [hashed : Nat, is_ready : BOOLEAN, stamp : Nat]]
      /\ (pc[t] \in {"claim", "fill", "insert"} => call[t].hashed \in Hashes)
      /\ (pc[t] = "fill" => slot[slot_idx[t]].stamp = 0)
  BY AbsTypes, CallFacts DEF ListInv, DepTypes, SearchInv, Labels
<1>2. pc' = pc /\ pc[t] \in Labels => pc' = [pc EXCEPT ![t] = pc[t]]
  BY <1>1
<1>3. ASSUME Call(t)  PROVE quiet
  BY <1>1, <1>2, <1>3 DEF Call, quiet, Labels
<1>4. ASSUME Claim(t)  PROVE quiet
  BY <1>1, <1>2, <1>4 DEF Claim, quiet, Labels
<1>5. ASSUME Fill(t)  PROVE quiet
  BY <1>1, <1>2, <1>5 DEF Fill, quiet, Labels
<1>6. ASSUME Enter(t)  PROVE quiet
  BY <1>1, <1>2, <1>6 DEF Enter, quiet, Labels
<1>7. ASSUME Walk(t)  PROVE quiet
  <2>1. slot' = [slot EXCEPT ![cur_slot[t]].is_ready = FALSE] \/ slot' = slot
    BY <1>7 DEF Walk
  <2>2. \A i \in Slots : slot'[i].stamp = slot[i].stamp /\ slot'[i].hashed = slot[i].hashed
    BY <1>1, <2>1
  <2>3. /\ pc[t] = "walk" /\ next_slot' = next_slot /\ call' = call
        /\ pc' = [pc EXCEPT ![t] = "write"] \/ pc' = [pc EXCEPT ![t] = "abort"] \/ pc' = pc
    BY <1>7 DEF Walk
  <2> QED  BY <1>1, <1>2, <2>2, <2>3 DEF quiet, Labels
<1>8. ASSUME Write(t)  PROVE quiet
  BY <1>1, <1>2, <1>8 DEF Write, quiet, Labels
<1>9. ASSUME Finish(t)  PROVE quiet
  BY <1>1, <1>2, <1>9 DEF Finish, quiet, Labels
<1>10. ASSUME FreeSlots(t)  PROVE quiet
  BY <1>1, <1>2, <1>10 DEF FreeSlots, quiet, Labels
<1>11. ASSUME Return(t)  PROVE quiet
  BY <1>1, <1>2, <1>11 DEF Return, quiet, Labels
<1>12. quiet
  BY <1>3, <1>4, <1>5, <1>6, <1>7, <1>8, <1>9, <1>10, <1>11
<1>13. DepTypes'
  BY <1>12 DEF ListInv, DepTypes, quiet, Labels
<1>14. \A h \in Hashes : OfKey(h)' = OfKey(h)
  BY <1>12, OfKeySame DEF quiet
<1>15. SearchInv(t)'
  <2>1. \A l \in Labels : l \notin Searching /\ l # "slots"
    BY DEF Searching, Labels
  <2>2. pc'[t] \in Labels /\ (pc'[t] \in {"claim", "fill", "insert"} => call'[t].hashed \in Hashes)
    BY <1>1, <1>12 DEF quiet
  <2> QED  BY <2>1, <2>2 DEF SearchInv, Searching
<1>16. \A u \in Threads \ {t} : pc'[u] = pc[u]
  BY <1>12 DEF quiet
<1>17. /\ next_slot' = next_slot /\ pc[t] # "slots" /\ pc'[t] # "slots"
       /\ \A u \in Threads \ {t} : pc'[u] = pc[u] /\ reg'[u] = reg[u] /\ call'[u] = call[u]
  BY <1>1, <1>12, <1>16 DEF quiet, Labels
<1> HIDE DEF quiet, Labels
<1> QED  BY <1>13, <1>14, <1>15, <1>17, ListFrame

----------------------------------------------------------------------------
(* The search, and the attempts to insert that fail: the atomic insertion  *)
(* has not happened yet.                                                   *)

Inserting == Searching \cup {"insert"}

\* The bucket of a thread that inserts: it is not being reset, and the thread's
\* own slot is not in it.
LEMMA BucketFacts ==
  ASSUME ListInv, AbsInv, NEW t \in Threads, pc[t] \in Inserting
  PROVE  LET h == call[t].hashed
             B == BucketHead(h)
         IN /\ h \in Hashes /\ B \in Heads /\ B \notin Slots /\ B \in Nodes
            /\ slot_idx[t] \in Slots /\ OfKey(h) \subseteq Slots
            /\ slot[slot_idx[t]].stamp = 0 /\ slot[slot_idx[t]].hashed = h
            /\ ~IsDeleted(next_slot[slot_idx[t]])
            /\ \/ next_slot[B] = Plain(B) /\ OfKey(h) = {}
               \/ \E i \in OfKey(h) : next_slot[B] = Plain(i)
            /\ \A i \in OfKey(h) :
                 \/ next_slot[i] \in {Plain(B), Protected(B)}
                 \/ \E j \in OfKey(h) : next_slot[i] = Deleted(j)
<1> DEFINE h == call[t].hashed
           B == BucketHead(h)
<1>1. h \in Hashes /\ SearchInv(t) /\ DepTypes
  BY DEF ListInv, SearchInv, Inserting
<1>2. B \in Heads /\ B \notin Slots /\ B \in Nodes
  BY <1>1, NodeFacts
<1>3. /\ slot[slot_idx[t]].stamp = 0 /\ ~IsDeleted(next_slot[slot_idx[t]])
      /\ slot[slot_idx[t]].hashed = h /\ ResetQuiescent /\ slot_idx[t] \in Slots
  BY <1>1, CallFacts, AbsTypes DEF Inserting
<1>4. \A u \in Threads : pc[u] # "slots"
  BY <1>3 DEF ResetQuiescent, Owning, Resetting, Inserting, Searching
<1>5. \/ next_slot[B] = Plain(B) /\ OfKey(h) = {}
      \/ \E i \in OfKey(h) : next_slot[B] = Plain(i)
  BY <1>1, <1>4 DEF ListInv, HeadLinks
<1>6. \A i \in OfKey(h) : \/ next_slot[i] \in {Plain(B), Protected(B)}
                         \/ \E j \in OfKey(h) : next_slot[i] = Deleted(j)
  BY <1>1 DEF ListInv, TableLinks
<1>7. OfKey(h) \subseteq Slots
  BY DEF OfKey
<1> QED  BY <1>1, <1>2, <1>3, <1>5, <1>6, <1>7

\* What all these steps have in common.
LEMMA StillInserting ==
  ASSUME ListInv, AbsInv, NEW t \in Threads, pc[t] \in Inserting,
         UNCHANGED searchUnchanged,
         NEW label \in Inserting, pc' = [pc EXCEPT ![t] = label],
         NEW r \in RegValues, reg' = [reg EXCEPT ![t] = r],
         next_slot' \in [Nodes -> LinkValues],
         \A n \in Heads : next_slot'[n] = next_slot[n],
         \A i \in Slots :
           \/ next_slot'[i] = next_slot[i]
           \/ i = slot_idx[t] /\ ~IsDeleted(next_slot'[i])
           \/ LET head == BucketHead(slot[i].hashed)
              IN /\ next_slot[i] \in {Plain(head), Protected(head)}
                 /\ next_slot'[i] \in {Plain(head), Protected(head)},
         SearchInv(t)'
  PROVE  ListInv' /\ UNCHANGED Abstract!rpliVars
<1>1. /\ call' = call /\ slot_idx' = slot_idx /\ cur_slot' = cur_slot /\ clock' = clock
      /\ next_free_slot' = next_free_slot /\ procd' = procd /\ mtx' = mtx
      /\ slot' = slot /\ log' = log /\ returned' = returned /\ issued' = issued
  BY DEF searchUnchanged
<1>2. slot[slot_idx[t]].stamp = 0 /\ ~IsDeleted(next_slot[slot_idx[t]]) /\ DepTypes
  BY BucketFacts DEF ListInv
<1>3. ListInv'
  <2>1. DepTypes'
    BY <1>2 DEF DepTypes, Inserting
  <2>2. \A h \in Hashes : OfKey(h)' = OfKey(h)
    BY <1>1, OfKeySame
  <2>3. \A h \in Hashes : \A i \in OfKey(h) :
          i \in Slots /\ i # slot_idx[t] /\ slot[i].hashed = h
    BY <1>2 DEF OfKey
  <2>4. pc[t] # "slots" /\ pc'[t] # "slots" /\ \A u \in Threads \ {t} : pc'[u] = pc[u] /\ reg'[u] = reg[u] /\ call'[u] = call[u]
    BY <1>1, <1>2 DEF DepTypes, Inserting, Searching
  <2>5. ASSUME NEW h \in Hashes, NEW i \in OfKey(h)
        PROVE  \/ next_slot'[i] = next_slot[i]
               \/ /\ next_slot[i] \in {Plain(BucketHead(h)), Protected(BucketHead(h))}
                  /\ next_slot'[i] \in {Plain(BucketHead(h)), Protected(BucketHead(h))}
    BY <2>3
  <2> QED  BY <2>1, <2>2, <2>4, <2>5, ListFrame
<1>4. [u \in Threads |-> AbstractPc(u)]' = [u \in Threads |-> AbstractPc(u)]
  BY <1>2, MapSearch DEF Inserting
<1>5. [n \in Nodes |-> AbstractLink(n)]' = [n \in Nodes |-> AbstractLink(n)]
  <2>1. ASSUME NEW n \in Nodes, n \notin Heads
        PROVE  /\ IsDeleted(next_slot'[n]) <=> IsDeleted(next_slot[n])
               /\ IsDeleted(next_slot[n]) => next_slot'[n] = next_slot[n]
    <3>1. n \in Slots
      BY <2>1, RpliAssumption DEF Nodes, Heads, Slots
    <3> QED  BY <1>2, <3>1, LinkFacts
  <2>2. \A n \in Nodes : AbstractLink(n)' = AbstractLink(n)
    BY <2>1 DEF AbstractLink
  <2> QED  BY <2>2
<1> QED  BY <1>1, <1>3, <1>4, <1>5 DEF Abstract!rpliVars

LEMMA RegFacts ==
  ASSUME DepTypes, NEW t \in Threads
  PROVE  /\ NoReg \in RegValues
         /\ reg \in [Threads -> RegValues]
         /\ reg[t] \in RegValues
         /\ \A n \in Nodes : next_slot[n] \in LinkValues
         /\ next_slot \in [Nodes -> LinkValues]
BY LinkFacts DEF DepTypes, NoReg, RegValues

LEMMA SearchHeadStutters ==
  ASSUME ListInv, AbsInv, NEW t \in Threads, SearchHead(t)
  PROVE  ListInv' /\ UNCHANGED Abstract!rpliVars
<1> DEFINE h == call[t].hashed
           B == BucketHead(h)
           r == [NoReg EXCEPT !.prev = B, !.prev_next = next_slot[B]]
<1>1. pc[t] \in Inserting /\ "first" \in Inserting
  BY DEF SearchHead, Inserting, Searching
<1>2. DepTypes /\ B \in Nodes
  BY <1>1, BucketFacts DEF ListInv
<1>3. /\ pc' = [pc EXCEPT ![t] = "first"] /\ reg' = [reg EXCEPT ![t] = r]
      /\ UNCHANGED searchUnchanged /\ next_slot' = next_slot
      /\ slot' = slot /\ call' = call
  BY DEF SearchHead, Goto, searchUnchanged
<1>4. r \in RegValues /\ r.prev = B /\ r.prev_next = next_slot[B]
  BY <1>2, RegFacts DEF RegValues, NoReg
<1> HIDE DEF r
<1>5. SearchInv(t)'
  <2>1. pc'[t] = "first" /\ reg'[t] = r /\ OfKey(h)' = OfKey(h) /\ call'[t].hashed = h
    BY <1>2, <1>3 DEF DepTypes, OfKey
  <2>2. h \in Hashes /\ (r.prev_next = Plain(B) \/ OfKey(h) # {})
    BY <1>1, <1>4, BucketFacts
  <2> QED  BY <1>4, <2>1, <2>2 DEF SearchInv, Searching
<1> QED  BY <1>1, <1>2, <1>3, <1>4, <1>5, RegFacts, StillInserting

LEMMA SearchFirstStutters ==
  ASSUME ListInv, AbsInv, NEW t \in Threads, SearchFirst(t)
  PROVE  ListInv' /\ UNCHANGED Abstract!rpliVars
<1> DEFINE h == call[t].hashed
           B == BucketHead(h)
           r == [reg[t] EXCEPT !.curr = next_slot[B].ref]
<1>1. pc[t] = "first" /\ pc[t] \in Inserting /\ "load" \in Inserting
  BY DEF SearchFirst, Inserting, Searching
<1>2. DepTypes /\ B \in Nodes /\ SearchInv(t)
  BY <1>1, BucketFacts DEF ListInv
<1>3. reg[t].prev = B /\ (reg[t].prev_next = Plain(B) \/ OfKey(h) # {})
  BY <1>1, <1>2 DEF SearchInv, Searching
<1>4. /\ pc' = [pc EXCEPT ![t] = "load"] /\ reg' = [reg EXCEPT ![t] = r]
      /\ UNCHANGED searchUnchanged /\ next_slot' = next_slot
      /\ slot' = slot /\ call' = call
  BY <1>3 DEF SearchFirst, Goto, searchUnchanged
<1>5. next_slot[B].ref \in Nodes \cup {Null}
  BY <1>2, RegFacts DEF LinkValues
<1>6. r \in RegValues /\ r.curr = next_slot[B].ref /\ r.prev = B /\ r.prev_next = reg[t].prev_next
  BY <1>2, <1>3, <1>5, RegFacts DEF RegValues
<1> HIDE DEF r
<1>7. SearchInv(t)'
  <2>1. pc'[t] = "load" /\ reg'[t] = r /\ OfKey(h)' = OfKey(h) /\ call'[t].hashed = h
    BY <1>2, <1>4 DEF DepTypes, OfKey
  <2>2. /\ h \in Hashes
        /\ (r.prev_next = Plain(B) /\ r.curr = B) \/ r.curr \in OfKey(h)
    BY <1>1, <1>3, <1>6, BucketFacts, LinkFacts
  <2> QED  BY <1>6, <2>1, <2>2 DEF SearchInv, Searching
<1> QED  BY <1>1, <1>2, <1>4, <1>6, <1>7, RegFacts, StillInserting

LEMMA LoadStutters ==
  ASSUME ListInv, AbsInv, NEW t \in Threads, Load(t)
  PROVE  ListInv' /\ UNCHANGED Abstract!rpliVars
<1> DEFINE h == call[t].hashed
           B == BucketHead(h)
           curr == reg[t].curr
           link == next_slot[curr]
<1>1. pc[t] = "load" /\ pc[t] \in Inserting /\ {"load", "link", "protect"} \subseteq Inserting
  BY DEF Load, Inserting, Searching
<1>2. DepTypes /\ B \in Nodes /\ B \notin Slots /\ h \in Hashes /\ SearchInv(t)
  BY <1>1, BucketFacts DEF ListInv
<1>3. /\ reg[t].prev \in {B} \cup OfKey(h)
      /\ \/ reg[t].prev = B /\ reg[t].prev_next = Plain(B) /\ curr = B
         \/ curr \in OfKey(h)
  BY <1>1, <1>2 DEF SearchInv, Searching
<1>4. /\ UNCHANGED searchUnchanged /\ next_slot' = next_slot /\ slot' = slot /\ call' = call
      /\ OfKey(h)' = OfKey(h)
  BY DEF Load, searchUnchanged, OfKey
<1>5. /\ \A i \in OfKey(h) : /\ i \in Slots /\ i \in Nodes /\ slot[i].hashed = h /\ next_slot[i] \in LinkValues
                              /\ \/ next_slot[i] \in {Plain(B), Protected(B)}
                                 \/ \E j \in OfKey(h) : next_slot[i] = Deleted(j)
      /\ h \in Nat
  BY <1>1, <1>2, BucketFacts, NodeFacts, RegFacts, RpliAssumption DEF OfKey
<1>6. ASSUME NEW label \in {"load", "link", "protect"}, NEW r \in RegValues,
             pc' = [pc EXCEPT ![t] = label], reg' = [reg EXCEPT ![t] = r],
             r.prev = reg[t].prev,
             label = "load" => r.curr \in OfKey(h),
             label = "link" => r.prev = B /\ r.curr_next = Plain(B),
             label = "protect" => r.curr \in OfKey(h) /\ r.curr_next \in {Plain(B), Protected(B)}
      PROVE  ListInv' /\ UNCHANGED Abstract!rpliVars
  <2>1. pc'[t] = label /\ reg'[t] = r /\ call'[t].hashed = h
    BY <1>2, <1>4, <1>6 DEF DepTypes
  <2>2. SearchInv(t)'
    BY <1>2, <1>3, <1>4, <1>6, <2>1 DEF SearchInv, Searching
  <2>3. label \in Inserting
    BY <1>1
  <2> QED  BY <1>1, <1>2, <1>4, <1>6, <2>2, <2>3, RegFacts, StillInserting
<1>7. CASE ~NotBeyond(curr, h)
  <2> DEFINE r == [reg[t] EXCEPT !.curr_next = Plain(curr)]
  <2>1. curr = B /\ reg[t].prev = B /\ reg[t].prev_next = Plain(B)
    BY <1>3, <1>5, <1>7 DEF NotBeyond
  <2>2. r \in RegValues /\ r.curr_next = Plain(B) /\ r.prev = B
    BY <1>2, <2>1, RegFacts, LinkFacts DEF RegValues
  <2>3. pc' = [pc EXCEPT ![t] = "link"] /\ reg' = [reg EXCEPT ![t] = r]
    BY <1>7, <2>1, LinkFacts DEF Load, Goto
  <2> HIDE DEF r
  <2> QED  BY <1>6, <2>1, <2>2, <2>3
<1>8. CASE NotBeyond(curr, h) /\ IsDeleted(link)
  <2> DEFINE r == [reg[t] EXCEPT !.curr = link.ref]
  <2>1. curr \in OfKey(h)
    BY <1>2, <1>3, <1>8 DEF NotBeyond
  <2>2. link.ref \in OfKey(h)
    BY <1>5, <1>8, <2>1, LinkFacts
  <2>3. r \in RegValues /\ r.curr \in OfKey(h) /\ r.prev = reg[t].prev
    BY <1>2, <1>5, <2>2, RegFacts DEF RegValues
  <2>4. pc' = [pc EXCEPT ![t] = "load"] /\ reg' = [reg EXCEPT ![t] = r]
    BY <1>1, <1>2, <1>8 DEF Load, DepTypes
  <2> HIDE DEF r
  <2> QED  BY <1>6, <2>3, <2>4
<1>9. CASE NotBeyond(curr, h) /\ ~IsDeleted(link)
  <2> DEFINE r == [reg[t] EXCEPT !.curr_next = link]
  <2>1. curr \in OfKey(h)
    BY <1>2, <1>3, <1>9 DEF NotBeyond
  <2>2. link \in {Plain(B), Protected(B)} /\ slot[curr].hashed = h /\ link \in LinkValues
    BY <1>5, <1>9, <2>1, LinkFacts
  <2>3. /\ r \in RegValues /\ r.curr \in OfKey(h) /\ r.prev = reg[t].prev
        /\ r.curr_next \in {Plain(B), Protected(B)}
    BY <1>2, <2>1, <2>2, RegFacts DEF RegValues
  <2>4. pc' = [pc EXCEPT ![t] = "protect"] /\ reg' = [reg EXCEPT ![t] = r]
    BY <1>9, <2>2 DEF Load, Goto
  <2> HIDE DEF r
  <2> QED  BY <1>6, <2>3, <2>4
<1> QED  BY <1>7, <1>8, <1>9

LEMMA ProtectStutters ==
  ASSUME ListInv, AbsInv, NEW t \in Threads, Protect(t)
  PROVE  ListInv' /\ UNCHANGED Abstract!rpliVars
<1> DEFINE h == call[t].hashed
           B == BucketHead(h)
           curr == reg[t].curr
           cnext == reg[t].curr_next
           orig == next_slot[curr]
           now == IF orig = cnext THEN Protected(cnext.ref) ELSE orig
<1>1. pc[t] = "protect" /\ pc[t] \in Inserting /\ {"protect", "switch", "advance"} \subseteq Inserting
  BY DEF Protect, Inserting, Searching
<1>2. DepTypes /\ B \in Nodes /\ B \notin Slots /\ h \in Hashes /\ SearchInv(t)
  BY <1>1, BucketFacts DEF ListInv
<1>3. curr \in OfKey(h) /\ cnext \in {Plain(B), Protected(B)} /\ reg[t].prev \in {B} \cup OfKey(h)
  BY <1>1, <1>2 DEF SearchInv, Searching
<1>4. /\ UNCHANGED searchUnchanged /\ slot' = slot /\ call' = call /\ OfKey(h)' = OfKey(h)
      /\ next_slot' = [next_slot EXCEPT ![curr] = now]
  BY <1>1 DEF Protect, CAS, searchUnchanged, OfKey
<1>5. curr \in Slots /\ curr \in Nodes /\ slot[curr].hashed = h /\ cnext.ref = B
  BY <1>3, NodeFacts, LinkFacts DEF OfKey
<1>6. \/ orig \in {Plain(B), Protected(B)}
      \/ \E j \in OfKey(h) : orig = Deleted(j)
  BY <1>1, <1>3, BucketFacts
<1>7. /\ now \in LinkValues
      /\ now = orig \/ {orig, now} \subseteq {Plain(B), Protected(B)}
      /\ \A j : orig = Deleted(j) => now = orig
  BY <1>2, <1>3, <1>5, <1>6, RegFacts, LinkFacts
<1> HIDE DEF now
<1>8. /\ next_slot' \in [Nodes -> LinkValues]
      /\ \A n \in Heads : next_slot'[n] = next_slot[n]
      /\ \A i \in Slots : \/ next_slot'[i] = next_slot[i]
                          \/ LET head == BucketHead(slot[i].hashed)
                             IN /\ next_slot[i] \in {Plain(head), Protected(head)}
                                /\ next_slot'[i] \in {Plain(head), Protected(head)}
  BY <1>2, <1>4, <1>5, <1>7, NodeFacts, RegFacts
<1>9. ASSUME NEW label \in {"protect", "switch", "advance"}, NEW r \in RegValues,
             pc' = [pc EXCEPT ![t] = label], reg' = [reg EXCEPT ![t] = r],
             r.prev = reg[t].prev, r.curr = curr,
             label = "protect" => r.curr_next \in {Plain(B), Protected(B)},
             label = "switch" => r.curr_next = Plain(B),
             label = "advance" => r.curr_next.ref \in OfKey(h)
      PROVE  ListInv' /\ UNCHANGED Abstract!rpliVars
  <2>1. pc'[t] = label /\ reg'[t] = r /\ call'[t].hashed = h
    BY <1>2, <1>4, <1>9 DEF DepTypes
  <2>2. SearchInv(t)'
    BY <1>2, <1>3, <1>4, <1>9, <2>1 DEF SearchInv, Searching
  <2>3. label \in Inserting
    BY <1>1
  <2> QED  BY <1>1, <1>2, <1>4, <1>8, <1>9, <2>2, <2>3, StillInserting
<1>10. CASE orig \in {cnext, Protected(cnext.ref)}
  <2> DEFINE r == [reg[t] EXCEPT !.curr_next = Plain(cnext.ref)]
  <2>1. r \in RegValues /\ r.curr_next = Plain(B) /\ r.prev = reg[t].prev /\ r.curr = curr
    BY <1>2, <1>5, RegFacts, LinkFacts DEF RegValues
  <2>2. pc' = [pc EXCEPT ![t] = "switch"] /\ reg' = [reg EXCEPT ![t] = r]
    BY <1>10 DEF Protect, Goto
  <2> HIDE DEF r
  <2> QED  BY <1>9, <2>1, <2>2
<1>11. CASE orig \notin {cnext, Protected(cnext.ref)}
  <2> DEFINE r == [reg[t] EXCEPT !.curr_next = orig]
  <2>1. r \in RegValues /\ r.curr_next = orig /\ r.prev = reg[t].prev /\ r.curr = curr
    BY <1>2, <1>5, RegFacts DEF RegValues
  <2>2. reg' = [reg EXCEPT ![t] = r]
    BY <1>11 DEF Protect
  <2> HIDE DEF r
  <2>3. CASE IsDeleted(orig)
    <3>1. pc' = [pc EXCEPT ![t] = "advance"]
      BY <1>11, <2>3 DEF Protect, Goto
    <3>2. orig.ref \in OfKey(h)
      BY <1>6, <2>3, LinkFacts
    <3> QED  BY <1>9, <2>1, <2>2, <3>1, <3>2
  <2>4. CASE ~IsDeleted(orig)
    <3>1. pc' = [pc EXCEPT ![t] = "protect"]
      BY <1>1, <1>2, <1>11, <2>4 DEF Protect, DepTypes
    <3>2. orig \in {Plain(B), Protected(B)}
      BY <1>6, <2>4, LinkFacts
    <3> QED  BY <1>9, <2>1, <2>2, <3>1, <3>2
  <2> QED  BY <2>3, <2>4
<1> QED  BY <1>10, <1>11

LEMMA AdvanceStutters ==
  ASSUME ListInv, AbsInv, NEW t \in Threads, Advance(t)
  PROVE  ListInv' /\ UNCHANGED Abstract!rpliVars
<1> DEFINE h == call[t].hashed
           B == BucketHead(h)
           r == [prev |-> reg[t].curr, prev_next |-> next_slot[reg[t].curr],
                 curr |-> reg[t].curr_next.ref, curr_next |-> Plain(Null)]
<1>1. pc[t] = "advance" /\ pc[t] \in Inserting /\ "load" \in Inserting
  BY DEF Advance, Inserting, Searching
<1>2. DepTypes /\ h \in Hashes /\ SearchInv(t) /\ OfKey(h) \subseteq Nodes
  BY <1>1, BucketFacts, NodeFacts DEF ListInv
<1>3. reg[t].curr \in OfKey(h) /\ reg[t].curr_next.ref \in OfKey(h)
  BY <1>1, <1>2 DEF SearchInv, Searching
<1>4. /\ pc' = [pc EXCEPT ![t] = "load"] /\ reg' = [reg EXCEPT ![t] = r]
      /\ UNCHANGED searchUnchanged /\ next_slot' = next_slot /\ slot' = slot /\ call' = call
  BY DEF Advance, Goto, searchUnchanged
<1>5. r \in RegValues /\ r.prev \in OfKey(h) /\ r.curr \in OfKey(h)
  BY <1>2, <1>3, RegFacts, LinkFacts DEF RegValues
<1> HIDE DEF r
<1>6. SearchInv(t)'
  <2>1. pc'[t] = "load" /\ reg'[t] = r /\ OfKey(h)' = OfKey(h) /\ call'[t].hashed = h
    BY <1>2, <1>4 DEF DepTypes, OfKey
  <2> QED  BY <1>2, <1>5, <2>1 DEF SearchInv, Searching
<1> QED  BY <1>1, <1>2, <1>4, <1>5, <1>6, RegFacts, StillInserting

\* Two keys would have to share a bucket for a search to end over nodes that
\* stand between prev and curr.
LEMMA NothingToClean ==
  ASSUME ListInv, NEW t \in Threads  PROVE ~CleanUp(t)
BY DEF ListInv, SearchInv, CleanUp

\* A failed attempt has changed the new slot's own link at most.
LEMMA RetryStutters ==
  ASSUME ListInv, AbsInv, NEW t \in Threads, pc[t] \in Inserting, Retry(t),
         NEW n \in Nodes, n # slot_idx[t], NEW right \in LinkValues, ~IsDeleted(right),
         next_slot' = [next_slot EXCEPT ![slot_idx[t]] = right, ![n] = @]
  PROVE  ListInv' /\ UNCHANGED Abstract!rpliVars
<1>1. DepTypes /\ slot_idx[t] \in Slots /\ call[t].hashed \in Hashes /\ "insert" \in Inserting
  BY BucketFacts DEF ListInv, Inserting
<1>2. /\ pc' = [pc EXCEPT ![t] = "insert"] /\ reg' = [reg EXCEPT ![t] = NoReg]
      /\ UNCHANGED searchUnchanged /\ call' = call
  BY DEF Retry, Goto, searchUnchanged
<1>3. next_slot' = [next_slot EXCEPT ![slot_idx[t]] = right]
  BY <1>1, NodeFacts DEF DepTypes
<1>4. /\ next_slot' \in [Nodes -> LinkValues]
      /\ \A m \in Heads : next_slot'[m] = next_slot[m]
      /\ \A i \in Slots : next_slot'[i] = next_slot[i] \/ (i = slot_idx[t] /\ ~IsDeleted(next_slot'[i]))
  BY <1>1, <1>3, NodeFacts, RegFacts
<1>5. SearchInv(t)'
  <2>1. pc'[t] = "insert" /\ call'[t].hashed \in Hashes
    BY <1>1, <1>2 DEF DepTypes
  <2> QED  BY <2>1 DEF SearchInv, Searching
<1> QED  BY <1>1, <1>2, <1>4, <1>5, RegFacts, StillInserting

----------------------------------------------------------------------------
(* The compare-and-swap that succeeds is the atomic insertion.             *)

\* What a list becomes: the new request is its newest, and the one that was
\* leads to it.
NowNewest(t) ==
  LET h == call[t].hashed
      B == BucketHead(h)
      s == slot_idx[t]
  IN /\ next_slot' \in [Nodes -> LinkValues]
     /\ \A i \in OfKey(h) :
          next_slot'[i] = IF IsDeleted(next_slot[i]) THEN next_slot[i] ELSE Deleted(s)
     /\ next_slot'[s] = Plain(B)
     /\ next_slot'[B] = IF OfKey(h) = {} THEN Plain(s) ELSE next_slot[B]
     /\ \A n \in Nodes \ ({s, B} \cup OfKey(h)) : next_slot'[n] = next_slot[n]

LEMMA SucceedRefines ==
  ASSUME ListInv, AbsInv, NEW t \in Threads, pc[t] \in Inserting, Succeed(t), NowNewest(t)
  PROVE  Abstract!TryInsert(t)
<1> DEFINE h == call[t].hashed
           B == BucketHead(h)
           s == slot_idx[t]
           link == [n \in Nodes |-> AbstractLink(n)]
<1>1. /\ DepTypes /\ s \in Slots /\ B \in Heads /\ slot[s].stamp = 0
      /\ ~IsDeleted(next_slot[s]) /\ OfKey(h) \subseteq Slots
  BY BucketFacts DEF ListInv
<1>2. /\ pc' = [pc EXCEPT ![t] = "lock"] /\ clock' = clock + 1
      /\ call' = [call EXCEPT ![t].stamp = clock + 1]
      /\ slot' = [slot EXCEPT ![s].stamp = clock + 1]
      /\ UNCHANGED <<slot_idx, cur_slot, next_free_slot, procd, mtx, log, returned, issued>>
  BY DEF Succeed, Inserted, Goto
<1>3. "lock" \notin Searching /\ [u \in Threads |-> AbstractPc(u)][t] = "insert"
  BY DEF Searching, AbstractPc, Inserting
<1>4. [u \in Threads |-> AbstractPc(u)]' = [[u \in Threads |-> AbstractPc(u)] EXCEPT ![t] = "lock"]
  BY <1>1, <1>2, <1>3, MapPc
<1>5. ASSUME NEW n \in Slots
      PROVE  /\ n \in Nodes
             /\ Abstract!Newest(n, h) <=> (n \in OfKey(h) /\ ~IsDeleted(next_slot[n]))
  BY NodeFacts, MapDeleted, SameConstants DEF Abstract!Newest, Abstract!InTable, OfKey
<1>6. ASSUME NEW n \in Nodes
      PROVE  AbstractLink(n)' = IF n \in Slots /\ Abstract!Newest(n, h) THEN Deleted(s)
                                                                      ELSE AbstractLink(n)
  <2>1. CASE n \in Heads
    BY <2>1, NodeFacts DEF AbstractLink
  <2>2. CASE n \notin Heads
    <3>1. n \in Slots /\ n # B
      BY <1>1, <2>2, RpliAssumption DEF Nodes, Heads, Slots
    <3>2. CASE n \in OfKey(h)
      BY <1>5, <2>2, <3>1, <3>2, LinkFacts DEF NowNewest, AbstractLink
    <3>3. CASE n = s
      <4>1. n \notin OfKey(h) /\ next_slot'[n] = Plain(B)
        BY <1>1, <3>3 DEF NowNewest, OfKey
      <4> QED  BY <1>1, <1>5, <2>2, <3>1, <3>3, <4>1, LinkFacts DEF AbstractLink
    <3>4. CASE n \notin OfKey(h) /\ n # s
      <4>1. next_slot'[n] = next_slot[n]
        BY <3>1, <3>4 DEF NowNewest
      <4> QED  BY <1>5, <3>1, <3>4, <4>1 DEF AbstractLink
    <3> QED  BY <3>2, <3>3, <3>4
  <2> QED  BY <2>1, <2>2
<1>7. link' = [n \in Nodes |-> IF n \in Slots /\ Abstract!Newest(n, h) THEN Deleted(s) ELSE link[n]]
  BY <1>6
<1> HIDE DEF link
<1> QED  BY <1>2, <1>3, <1>4, <1>7, SameConstants
         DEF Abstract!TryInsert, Abstract!Inserted, Abstract!Goto, link

LEMMA SucceedLists ==
  ASSUME Separate, ListInv, AbsInv, NEW t \in Threads, pc[t] \in Inserting, Succeed(t),
         NowNewest(t)
  PROVE  ListInv'
<1> DEFINE h == call[t].hashed
           B == BucketHead(h)
           s == slot_idx[t]
<1>1. /\ DepTypes /\ s \in Slots /\ B \in Heads /\ B \in Nodes /\ slot[s].stamp = 0
      /\ slot[s].hashed = h /\ h \in Hashes /\ OfKey(h) \subseteq Slots /\ s \notin Heads
      /\ call \in [Threads -> [hashed : Nat, stamp : Nat]] /\ clock \in Nat
      /\ slot \in [Slots -> [hashed : Nat, is_ready : BOOLEAN, stamp : Nat]]
  BY BucketFacts, AbsTypes, NodeFacts DEF ListInv
<1>2. /\ pc' = [pc EXCEPT ![t] = "lock"] /\ reg' = [reg EXCEPT ![t] = NoReg]
      /\ slot' = [slot EXCEPT ![s].stamp = clock + 1]
      /\ call' = [call EXCEPT ![t].stamp = clock + 1]
  BY DEF Succeed, Inserted, Goto
<1>3. ASSUME NEW k \in Hashes, k = h
      PROVE  s \notin OfKey(k) /\ OfKey(k)' = OfKey(k) \cup {s}
  <2>1. /\ \A i \in Slots : slot'[i].hashed = slot[i].hashed
        /\ \A i \in Slots \ {s} : slot'[i] = slot[i]
        /\ slot'[s].stamp > 0
    BY <1>1, <1>2
  <2> QED  BY <1>1, <1>3, <2>1 DEF OfKey
<1>4. ASSUME NEW k \in Hashes, k # h
      PROVE  /\ OfKey(k)' = OfKey(k) /\ BucketHead(k) # B
             /\ next_slot'[BucketHead(k)] = next_slot[BucketHead(k)]
             /\ \A i \in OfKey(k) : next_slot'[i] = next_slot[i]
  <2>1. OfKey(k)' = OfKey(k)
    BY <1>1, <1>2, <1>4 DEF OfKey
  <2>2. BucketHead(k) # B /\ BucketHead(k) \in Heads /\ BucketHead(k) \in Nodes
    BY <1>1, <1>4, NodeFacts DEF Separate
  <2>3. BucketHead(k) \notin {s, B} \cup OfKey(h)
    BY <1>1, <2>2, NodeFacts
  <2>4. \A i \in OfKey(k) : i \in Nodes /\ i \notin {s, B} \cup OfKey(h)
    BY <1>1, <1>4, NodeFacts DEF OfKey
  <2> QED  BY <2>1, <2>2, <2>3, <2>4 DEF NowNewest
<1>5. DepTypes'
  BY <1>1, <1>2, RegFacts DEF DepTypes, NowNewest
<1>6. \A i \in OfKey(h) : \E j \in OfKey(h) \cup {s} : next_slot'[i] = Deleted(j)
  <2>1. ASSUME NEW i \in OfKey(h)
        PROVE  \E j \in OfKey(h) \cup {s} : next_slot'[i] = Deleted(j)
    <3>1. \/ next_slot[i] \in {Plain(B), Protected(B)}
          \/ \E j \in OfKey(h) : next_slot[i] = Deleted(j)
      BY <1>1, BucketFacts
    <3> QED  BY <3>1, LinkFacts DEF NowNewest
  <2> QED  BY <2>1
<1>7. TableLinks'
  <2>1. ASSUME NEW k \in Hashes, NEW i \in OfKey(k)'
        PROVE  \/ next_slot'[i] \in {Plain(BucketHead(k)), Protected(BucketHead(k))}
               \/ \E j \in OfKey(k)' : next_slot'[i] = Deleted(j)
    <3>1. CASE k # h
      BY <1>4, <2>1, <3>1 DEF ListInv, TableLinks
    <3>2. CASE k = h
      BY <1>3, <1>6, <2>1, <3>2 DEF NowNewest
    <3> QED  BY <3>1, <3>2
  <2> QED  BY <2>1 DEF TableLinks
<1>8. OneNewest'
  <2>1. ASSUME NEW k \in Hashes, NEW i \in OfKey(k)', NEW j \in OfKey(k)',
               ~IsDeleted(next_slot'[i]), ~IsDeleted(next_slot'[j])
        PROVE  i = j
    <3>1. CASE k # h
      BY <1>4, <2>1, <3>1 DEF ListInv, OneNewest
    <3>2. CASE k = h
      BY <1>3, <1>6, <2>1, <3>2, LinkFacts
    <3> QED  BY <3>1, <3>2
  <2> QED  BY <2>1 DEF OneNewest
<1>9. HeadLinks'
  <2>1. (\E u \in Threads : pc[u] = "slots") <=> \E u \in Threads : pc'[u] = "slots"
    BY <1>1, <1>2 DEF DepTypes, Inserting, Searching
  <2>2. ~\E u \in Threads : pc[u] = "slots"
    BY <1>1, CallFacts DEF ResetQuiescent, Owning, Resetting, Inserting, Searching
  <2>3. ASSUME NEW k \in Hashes
        PROVE  \/ OfKey(k)' = {} /\ next_slot'[BucketHead(k)] = Plain(BucketHead(k))
               \/ \E i \in OfKey(k)' : next_slot'[BucketHead(k)] = Plain(i)
    <3>1. CASE k # h
      BY <1>4, <2>2, <2>3, <3>1 DEF ListInv, HeadLinks
    <3>2. CASE k = h
      <4>1. CASE OfKey(h) = {}
        BY <1>3, <3>2, <4>1 DEF NowNewest
      <4>2. CASE OfKey(h) # {}
        <5>1. \E i \in OfKey(h) : next_slot[B] = Plain(i)
          BY <4>2, BucketFacts
        <5> QED  BY <1>3, <3>2, <4>2, <5>1 DEF NowNewest
      <4> QED  BY <4>1, <4>2
    <3> QED  BY <3>1, <3>2
  <2> QED  BY <2>1, <2>2, <2>3 DEF HeadLinks
<1>10. ASSUME NEW u \in Threads  PROVE SearchInv(u)'
  <2>1. CASE u = t
    <3>1. pc'[u] = "lock"
      BY <1>1, <1>2, <2>1 DEF DepTypes
    <3> QED  BY <3>1 DEF SearchInv, Searching
  <2>2. CASE u # t
    <3>1. pc'[u] = pc[u] /\ reg'[u] = reg[u] /\ call'[u].hashed = call[u].hashed
      BY <1>1, <1>2, <2>2 DEF DepTypes
    <3>2. \A k \in Hashes : OfKey(k) \subseteq OfKey(k)'
      BY <1>3, <1>4
    <3> QED  BY <3>1, <3>2, SearchKeep DEF ListInv
  <2> QED  BY <2>1, <2>2
<1> QED  BY <1>5, <1>7, <1>8, <1>9, <1>10 DEF ListInv

\* __elemInsert publishes a request as the only one of its key, or retries.
LEMMA LinkRefines ==
  ASSUME Separate, ListInv, AbsInv, NEW t \in Threads, Link(t)
  PROVE  ListInv' /\ (Abstract!TryInsert(t) \/ UNCHANGED Abstract!rpliVars)
<1> DEFINE h == call[t].hashed
           B == BucketHead(h)
           s == slot_idx[t]
<1>1. pc[t] = "link" /\ pc[t] \in Inserting
  BY DEF Link, Inserting, Searching
<1>2. /\ DepTypes /\ SearchInv(t) /\ s \in Slots /\ s \in Nodes /\ s \notin Heads /\ B \in Heads
      /\ B \in Nodes /\ OfKey(h) \subseteq Slots
      /\ \/ next_slot[B] = Plain(B) /\ OfKey(h) = {}
         \/ \E i \in OfKey(h) : next_slot[B] = Plain(i)
  BY <1>1, BucketFacts, NodeFacts DEF ListInv
<1>3. reg[t].prev = B /\ reg[t].curr_next = Plain(B)
  BY <1>1, <1>2 DEF SearchInv
<1>4. next_slot' = [next_slot EXCEPT ![s] = Plain(B),
                                     ![B] = IF @ = Plain(B) THEN Plain(s) ELSE @]
  BY <1>3 DEF Link, Publish
<1>5. Plain(B) \in LinkValues /\ Plain(s) \in LinkValues /\ ~IsDeleted(Plain(B))
  BY <1>2, LinkFacts
<1>6. CASE next_slot[B] = Plain(B)
  <2>1. Succeed(t)
    BY <1>3, <1>6, LinkFacts DEF Link
  <2>2. OfKey(h) = {}
    BY <1>2, <1>6, NodeFacts, LinkFacts
  <2>3. NowNewest(t)
    BY <1>2, <1>4, <1>5, <1>6, <2>2, RegFacts DEF NowNewest
  <2> QED  BY <1>1, <2>1, <2>3, SucceedRefines, SucceedLists
<1>7. CASE next_slot[B] # Plain(B)
  <2>1. next_slot[B] # Protected(B)
    BY <1>2, <1>7, LinkFacts
  <2>2. Retry(t)
    BY <1>3, <1>7, <2>1, LinkFacts DEF Link
  <2>3. next_slot' = [next_slot EXCEPT ![s] = Plain(B), ![B] = @]
    BY <1>2, <1>4, <1>7
  <2> QED  BY <1>1, <1>2, <1>5, <2>2, <2>3, RetryStutters
<1> QED  BY <1>6, <1>7

\* __elemSwitch supersedes the newest request of its key, or retries.
LEMMA SwitchRefines ==
  ASSUME Separate, ListInv, AbsInv, NEW t \in Threads, Switch(t)
  PROVE  ListInv' /\ (Abstract!TryInsert(t) \/ UNCHANGED Abstract!rpliVars)
<1> DEFINE h == call[t].hashed
           B == BucketHead(h)
           s == slot_idx[t]
           left == reg[t].curr
<1>1. pc[t] = "switch" /\ pc[t] \in Inserting
  BY DEF Switch, Inserting, Searching
<1>2. /\ DepTypes /\ SearchInv(t) /\ s \in Slots /\ s \in Nodes /\ s \notin Heads /\ B \in Heads
      /\ B \in Nodes /\ OfKey(h) \subseteq Slots /\ h \in Hashes
      /\ slot[s].stamp = 0
      /\ \A i \in OfKey(h) : \/ next_slot[i] \in {Plain(B), Protected(B)}
                             \/ \E j \in OfKey(h) : next_slot[i] = Deleted(j)
  BY <1>1, BucketFacts, NodeFacts DEF ListInv
<1>3. left \in OfKey(h) /\ reg[t].curr_next = Plain(B)
  BY <1>1, <1>2 DEF SearchInv
<1>4. next_slot' = [next_slot EXCEPT ![s] = Plain(B),
                                     ![left] = IF @ = Protected(B) THEN Deleted(s) ELSE @]
  <2>1. Plain(B).ref = B
    BY LinkFacts
  <2>2. next_slot' = [next_slot EXCEPT ![slot_idx[t]] = reg[t].curr_next,
                        ![left] = IF @ = Protected(reg[t].curr_next.ref) THEN Deleted(slot_idx[t]) ELSE @]
    BY DEF Switch, Publish
  <2> QED  BY <1>3, <2>1, <2>2
<1>5. left \in Nodes /\ left # s /\ left # B /\ s \notin OfKey(h) /\ B \notin OfKey(h)
  BY <1>2, <1>3, NodeFacts DEF OfKey
<1>6. Plain(B) \in LinkValues /\ Deleted(s) \in LinkValues /\ ~IsDeleted(Plain(B))
  BY <1>2, LinkFacts
<1>7. CASE next_slot[left] = Protected(B)
  <2>1. Succeed(t)
    <3>1. /\ ~(IsProtected(Protected(B)) /\ Protected(B).ref # Plain(B).ref)
          /\ ~(~IsProtected(Protected(B)))
      BY DEF IsProtected, Protected, Plain
    <3> QED  BY <1>3, <1>7, <3>1 DEF Switch
  <2>2. \A i \in OfKey(h) \ {left} : IsDeleted(next_slot[i])
    BY <1>2, <1>3, <1>7, LinkFacts DEF ListInv, OneNewest
  <2>3. next_slot' = [next_slot EXCEPT ![s] = Plain(B), ![left] = Deleted(s)]
    BY <1>2, <1>4, <1>5, <1>7 DEF DepTypes
  <2>4. next_slot \in [Nodes -> LinkValues] /\ ~IsDeleted(next_slot[left]) /\ OfKey(h) \subseteq Nodes
    BY <1>2, <1>7, RegFacts, LinkFacts, NodeFacts
  <2>5. NowNewest(t)
    BY <1>2, <1>3, <1>5, <1>6, <2>2, <2>3, <2>4 DEF NowNewest
  <2> QED  BY <1>1, <2>1, <2>5, SucceedRefines, SucceedLists
<1>8. CASE next_slot[left] # Protected(B)
  <2>1. ~IsProtected(next_slot[left])
    <3>1. \/ next_slot[left] = Plain(B) \/ \E j \in OfKey(h) : next_slot[left] = Deleted(j)
      BY <1>2, <1>3, <1>8
    <3>2. \A n : ~IsProtected(Plain(n)) /\ ~IsProtected(Deleted(n))
      BY DEF IsProtected, Plain, Deleted
    <3> QED  BY <3>1, <3>2
  <2>2. Retry(t)
    BY <1>3, <1>8, <2>1, LinkFacts DEF Switch
  <2>3. next_slot' = [next_slot EXCEPT ![s] = Plain(B), ![left] = @]
    BY <1>2, <1>4, <1>5, <1>8 DEF DepTypes
  <2> QED  BY <1>1, <1>5, <1>6, <2>2, <2>3, RetryStutters
<1> QED  BY <1>7, <1>8

----------------------------------------------------------------------------
(* The reset of the queue.                                                 *)

LEMMA ListResetBuckets ==
  ASSUME ListInv, AbsInv, NEW t \in Threads, ResetBuckets(t), reg' = reg
  PROVE  ListInv'
<1>1. /\ pc[t] = "buckets" /\ pc' = [pc EXCEPT ![t] = "slots"] /\ call' = call /\ slot' = slot
      /\ next_slot' = [n \in Nodes |-> IF n \in Heads THEN Plain(n) ELSE next_slot[n]]
  BY DEF ResetBuckets, Goto
<1>2. DepTypes
  BY DEF ListInv
<1>3. /\ \A i \in Slots : next_slot'[i] = next_slot[i]
      /\ \A h \in Hashes : next_slot'[BucketHead(h)] = Plain(BucketHead(h)) /\ OfKey(h)' = OfKey(h)
      /\ next_slot' \in [Nodes -> LinkValues]
  BY <1>1, <1>2, NodeFacts, LinkFacts DEF DepTypes, OfKey
<1>4. DepTypes'
  BY <1>1, <1>2, <1>3 DEF DepTypes
<1>5. \A h \in Hashes : \A i \in OfKey(h) : i \in Slots
  BY DEF OfKey
<1>6. TableLinks'
  BY <1>3, <1>5 DEF ListInv, TableLinks
<1>7. OneNewest'
  BY <1>3, <1>5 DEF ListInv, OneNewest
<1>8. HeadLinks'
  <2>1. pc'[t] = "slots"
    BY <1>1, <1>2 DEF DepTypes
  <2> QED  BY <1>3, <2>1 DEF HeadLinks
<1>9. ASSUME NEW u \in Threads  PROVE SearchInv(u)'
  <2>1. CASE u = t
    <3>1. pc'[u] = "slots"
      BY <1>1, <1>2, <2>1 DEF DepTypes
    <3> QED  BY <3>1 DEF SearchInv, Searching
  <2>2. CASE u # t
    <3>1. pc'[u] = pc[u] /\ reg'[u] = reg[u] /\ call'[u].hashed = call[u].hashed
      BY <1>1, <1>2, <2>2 DEF DepTypes
    <3> QED  BY <1>3, <3>1, SearchKeep DEF ListInv
  <2> QED  BY <2>1, <2>2
<1> QED  BY <1>4, <1>6, <1>7, <1>8, <1>9 DEF ListInv

\* Nobody searches a list while the slots are cleared.
LEMMA ListClearSlots ==
  ASSUME ListInv, AbsInv, NEW t \in Threads, ClearSlots(t), reg' = reg
  PROVE  ListInv'
<1>1. /\ pc[t] = "slots" /\ pc' = [pc EXCEPT ![t] = "free"] /\ call' = call
      /\ slot' = [i \in Slots |-> ClearSlot]
      /\ next_slot' = [n \in Nodes |-> IF n \in Slots THEN Plain(Null) ELSE next_slot[n]]
  BY DEF ClearSlots, Goto
<1>2. DepTypes /\ ResetQuiescent
  BY CallFacts DEF ListInv
<1>3. \A h \in Hashes : OfKey(h)' = {}
  BY <1>1 DEF OfKey, ClearSlot
<1>4. next_slot' \in [Nodes -> LinkValues]
  BY <1>1, <1>2, LinkFacts DEF DepTypes
<1>5. DepTypes'
  BY <1>1, <1>2, <1>4 DEF DepTypes
<1>6. TableLinks' /\ OneNewest'
  BY <1>3 DEF TableLinks, OneNewest
<1>7. \A u \in Threads : pc[u] \notin Searching \cup {"fill", "insert"}
  BY <1>1, <1>2 DEF ResetQuiescent, Resetting, Owning, Searching
<1>8. HeadLinks'
  <2>1. \A h \in Hashes : next_slot[BucketHead(h)] = Plain(BucketHead(h))
    BY <1>1 DEF ListInv, HeadLinks
  <2>2. \A h \in Hashes : next_slot'[BucketHead(h)] = next_slot[BucketHead(h)]
    BY <1>1, NodeFacts
  <2> QED  BY <1>3, <2>1, <2>2 DEF HeadLinks
<1>9. ASSUME NEW u \in Threads  PROVE SearchInv(u)'
  <2>1. pc'[u] \notin Searching \cup {"fill", "insert"} /\ (pc'[u] = "claim" => pc[u] = "claim")
    BY <1>1, <1>2, <1>7 DEF DepTypes, Searching
  <2>2. call'[u].hashed = call[u].hashed /\ (pc[u] = "claim" => call[u].hashed \in Hashes)
    BY <1>1 DEF ListInv, SearchInv
  <2> QED  BY <2>1, <2>2 DEF SearchInv, Searching
<1> QED  BY <1>5, <1>6, <1>8, <1>9 DEF ListInv

----------------------------------------------------------------------------
(* Every step.                                                             *)

LEMMA RefineInit == DepInit => Abstract!Init /\ ListInv /\ AbsInv
<1> SUFFICES ASSUME DepInit  PROVE Abstract!Init /\ ListInv /\ AbsInv
  OBVIOUS
<1>3. Abstract!Init
  BY MapInit
<1>4. AbsInv
  BY <1>3, Abstract!TypeInit, Abstract!QueueInit, Abstract!TableInit, RpliAssumption DEF AbsInv
<1>5. DepTypes
  BY LinkFacts DEF DepInit, Init, EmptyLists, DepTypes, NoReg, RegValues
<1>6. \A h \in Hashes : OfKey(h) = {}
  BY DEF DepInit, Init, OfKey, ClearSlot
<1>7. TableLinks /\ OneNewest
  BY <1>6 DEF TableLinks, OneNewest
<1>8. HeadLinks
  BY <1>6, NodeFacts DEF HeadLinks, DepInit, Init, EmptyLists
<1>9. \A t \in Threads : SearchInv(t)
  BY DEF DepInit, Init, SearchInv, Searching
<1> QED  BY <1>3, <1>4, <1>5, <1>7, <1>8, <1>9 DEF ListInv

\* A step of a call that the atomic specification has too.
LEMMA SharedStep ==
  ASSUME ListInv, AbsInv, NEW t \in Threads, reg' = reg,
         Call(t) \/ Claim(t) \/ Fill(t) \/ Enter(t) \/ Critical(t)
  PROVE  ListInv' /\ (Abstract!Call(t) \/ Abstract!Step(t))
<1> USE DEF ListInv
<1>1. CASE Call(t)
  BY <1>1, CallRefines, ListQuiet DEF Abstract!Step
<1>2. CASE Claim(t)
  BY <1>2, ClaimRefines, ListQuiet DEF Abstract!Step
<1>3. CASE Fill(t)
  BY <1>3, FillRefines, ListQuiet DEF Abstract!Step
<1>4. CASE Enter(t)
  BY <1>4, EnterRefines, ListQuiet DEF Abstract!Step
<1>5. CASE Walk(t)
  BY <1>5, WalkRefines, ListQuiet DEF Abstract!Step, Abstract!Critical
<1>6. CASE Write(t)
  BY <1>6, WriteRefines, ListQuiet DEF Abstract!Step, Abstract!Critical
<1>7. CASE Finish(t)
  BY <1>7, FinishRefines, ListQuiet DEF Abstract!Step, Abstract!Critical
<1>8. CASE ResetBuckets(t)
  BY <1>8, ResetBucketsRefines, ListResetBuckets DEF Abstract!Step, Abstract!Critical
<1>9. CASE ClearSlots(t)
  BY <1>9, ClearSlotsRefines, ListClearSlots DEF Abstract!Step, Abstract!Critical
<1>10. CASE FreeSlots(t)
  BY <1>10, FreeSlotsRefines, ListQuiet DEF Abstract!Step, Abstract!Critical
<1>11. CASE Return(t)
  BY <1>11, ReturnRefines, ListQuiet DEF Abstract!Step, Abstract!Critical
<1> QED  BY <1>1, <1>2, <1>3, <1>4, <1>5, <1>6, <1>7, <1>8, <1>9, <1>10, <1>11 DEF Critical

LEMMA InsertStep ==
  ASSUME Separate, ListInv, AbsInv, NEW t \in Threads, TryInsert(t)
  PROVE  ListInv' /\ (Abstract!TryInsert(t) \/ UNCHANGED Abstract!rpliVars)
BY SearchHeadStutters, SearchFirstStutters, LoadStutters, ProtectStutters, AdvanceStutters,
   NothingToClean, LinkRefines, SwitchRefines DEF TryInsert

LEMMA RefineNext ==
  ASSUME Separate, ListInv, AbsInv, [DepNext]_vars
  PROVE  ListInv' /\ AbsInv' /\ [Abstract!Next]_(Abstract!rpliVars)
<1>1. ASSUME NEW t \in Threads, (Call(t) /\ UNCHANGED reg) \/ DepStep(t)
      PROVE  ListInv' /\ [Abstract!Next]_(Abstract!rpliVars)
  <2>1. CASE TryInsert(t)
    BY <2>1, InsertStep DEF Abstract!Next, Abstract!Step
  <2>2. CASE ~TryInsert(t)
    BY <1>1, <2>2, SharedStep DEF DepStep, Abstract!Next
  <2> QED  BY <2>1, <2>2
<1>2. ASSUME UNCHANGED vars  PROVE ListInv' /\ UNCHANGED Abstract!rpliVars
  <2>1. /\ pc' = pc /\ call' = call /\ slot' = slot /\ next_slot' = next_slot /\ reg' = reg
        /\ slot_idx' = slot_idx /\ cur_slot' = cur_slot /\ clock' = clock
        /\ next_free_slot' = next_free_slot /\ procd' = procd /\ mtx' = mtx
        /\ log' = log /\ returned' = returned /\ issued' = issued
    BY <1>2 DEF vars, rpliVars
  <2>2. \A h \in Hashes : OfKey(h)' = OfKey(h)
    BY <2>1 DEF OfKey
  <2>3. DepTypes' /\ TableLinks' /\ OneNewest' /\ HeadLinks'
    BY <2>1, <2>2 DEF ListInv, DepTypes, TableLinks, OneNewest, HeadLinks
  <2>4. \A u \in Threads : SearchInv(u)'
    BY <2>1, <2>2, SearchKeep DEF ListInv
  <2> QED  BY <2>1, <2>3, <2>4 DEF ListInv, Abstract!rpliVars, AbstractPc, AbstractLink
<1>3. ASSUME Terminated, UNCHANGED reg  PROVE ListInv' /\ [Abstract!Next]_(Abstract!rpliVars)
  <2>1. UNCHANGED vars
    BY <1>3 DEF Terminated, vars
  <2> QED  BY <1>2, <2>1
<1>4. ListInv' /\ [Abstract!Next]_(Abstract!rpliVars)
  BY <1>1, <1>2, <1>3 DEF DepNext
<1>5. AbsInv'
  <2>1. Abstract!TypeInv' /\ Abstract!QueueInv'
    BY <1>4, Abstract!TypeNext, Abstract!QueueNext, RpliAssumption DEF AbsInv
  <2> QED  BY <1>4, <2>1, Abstract!TableNext, RpliAssumption DEF AbsInv
<1> QED  BY <1>4, <1>5

----------------------------------------------------------------------------
(* The proofs of RequestToRpli are about the very specification that       *)
(* DepChecker implements.                                                  *)

LEMMA SameInit == Abstract!Init <=> Atomic!Init
BY DEF Abstract!Init, Atomic!Init, Abstract!EmptyLists, Atomic!EmptyLists, Abstract!Slots,
       Atomic!Slots, Abstract!Heads, Atomic!Heads, Abstract!Nodes, Atomic!Nodes, Abstract!Null,
       Atomic!Null, Abstract!Plain, Atomic!Plain, Abstract!ClearSlot, Atomic!ClearSlot,
       Abstract!NoCall, Atomic!NoCall

LEMMA SameNext ==
  /\ Abstract!Next <=> Atomic!Next
  /\ Abstract!rpliVars = Atomic!rpliVars
<1>1. ASSUME NEW t \in Threads
      PROVE  Abstract!Call(t) \/ Abstract!Step(t) <=> Atomic!Call(t) \/ Atomic!Step(t)
  <2>1. Abstract!Call(t) <=> Atomic!Call(t)
    BY DEF Abstract!Call, Atomic!Call, Abstract!Goto, Atomic!Goto
  <2>2. Abstract!Claim(t) <=> Atomic!Claim(t)
    BY DEF Abstract!Claim, Atomic!Claim, Abstract!Goto, Atomic!Goto
  <2>3. Abstract!Fill(t) <=> Atomic!Fill(t)
    BY DEF Abstract!Fill, Atomic!Fill, Abstract!Goto, Atomic!Goto
  <2>4. Abstract!TryInsert(t) <=> Atomic!TryInsert(t)
    BY DEF Abstract!TryInsert, Atomic!TryInsert, Abstract!Goto, Atomic!Goto, Abstract!Inserted,
           Atomic!Inserted, Abstract!Newest, Atomic!Newest, Abstract!InTable, Atomic!InTable,
           Abstract!IsDeleted, Atomic!IsDeleted, Abstract!Deleted, Atomic!Deleted,
           Abstract!Nodes, Atomic!Nodes, Abstract!Slots, Atomic!Slots
  <2>5. Abstract!Enter(t) <=> Atomic!Enter(t)
    BY DEF Abstract!Enter, Atomic!Enter, Abstract!Goto, Atomic!Goto, Abstract!IsDeleted,
           Atomic!IsDeleted
  <2>6. Abstract!Walk(t) <=> Atomic!Walk(t)
    BY DEF Abstract!Walk, Atomic!Walk, Abstract!Goto, Atomic!Goto, Abstract!IsDeleted,
           Atomic!IsDeleted, Abstract!BucketHead, Atomic!BucketHead
  <2>7. Abstract!Write(t) <=> Atomic!Write(t)
    BY DEF Abstract!Write, Atomic!Write, Abstract!Goto, Atomic!Goto, Abstract!MsgOf,
           Atomic!MsgOf, Abstract!MSG_PURE, Atomic!MSG_PURE, Abstract!MSG_ACK, Atomic!MSG_ACK,
           Abstract!StampOf, Atomic!StampOf, Abstract!Slots, Atomic!Slots
  <2>8. Abstract!Finish(t) <=> Atomic!Finish(t)
    BY DEF Abstract!Finish, Atomic!Finish, Abstract!Goto, Atomic!Goto
  <2>9. Abstract!ResetBuckets(t) <=> Atomic!ResetBuckets(t)
    BY DEF Abstract!ResetBuckets, Atomic!ResetBuckets, Abstract!Goto, Atomic!Goto,
           Abstract!Nodes, Atomic!Nodes, Abstract!Heads, Atomic!Heads, Abstract!Plain,
           Atomic!Plain
  <2>10. Abstract!ClearSlots(t) <=> Atomic!ClearSlots(t)
    BY DEF Abstract!ClearSlots, Atomic!ClearSlots, Abstract!Goto, Atomic!Goto, Abstract!Nodes,
           Atomic!Nodes, Abstract!Slots, Atomic!Slots, Abstract!Plain, Atomic!Plain,
           Abstract!Null, Atomic!Null, Abstract!ClearSlot, Atomic!ClearSlot
  <2>11. Abstract!FreeSlots(t) <=> Atomic!FreeSlots(t)
    BY DEF Abstract!FreeSlots, Atomic!FreeSlots, Abstract!Goto, Atomic!Goto
  <2>12. Abstract!Return(t) <=> Atomic!Return(t)
    BY DEF Abstract!Return, Atomic!Return, Abstract!Goto, Atomic!Goto, Abstract!MsgOf,
           Atomic!MsgOf, Abstract!MSG_PURE, Atomic!MSG_PURE, Abstract!MSG_ACK, Atomic!MSG_ACK,
           Abstract!NoCall, Atomic!NoCall
  <2> QED
    BY <2>1, <2>2, <2>3, <2>4, <2>5, <2>6, <2>7, <2>8, <2>9, <2>10, <2>11, <2>12
       DEF Abstract!Step, Atomic!Step, Abstract!Critical, Atomic!Critical
<1>2. Abstract!rpliVars = Atomic!rpliVars
  BY DEF Abstract!rpliVars, Atomic!rpliVars
<1>3. Abstract!Terminated <=> Atomic!Terminated
  BY DEF Abstract!Terminated, Atomic!Terminated, Abstract!rpliVars, Atomic!rpliVars
<1> QED  BY <1>1, <1>2, <1>3 DEF Abstract!Next, Atomic!Next

----------------------------------------------------------------------------
\* While no two keys share a bucket: a bucket's list is its key's requests from
\* the oldest on, exactly one of them not superseded, and a search never leaves
\* it, whatever the other searches, switches and resets of hashtable.cc do.
THEOREM ListCorrect ==
  ASSUME Separate  PROVE DepSpec => []ListInv
<1>1. DepInit => ListInv /\ AbsInv
  BY RefineInit
<1>2. ListInv /\ AbsInv /\ [DepNext]_vars => (ListInv /\ AbsInv)'
  BY RefineNext
<1> QED  BY <1>1, <1>2, PTL DEF DepSpec

\* While no two keys share a bucket the loads and compare-and-swaps of
\* rsdco_try_insert implement the atomic insertion: a request supersedes exactly
\* the newest one of its key, at the instant its last compare-and-swap succeeds.
THEOREM AtomicSpecCorrect ==
  ASSUME Separate  PROVE DepSpec => AtomicSpec
<1>1. DepInit => Atomic!Init /\ ListInv /\ AbsInv
  BY RefineInit, SameInit
<1>2. ListInv /\ AbsInv /\ [DepNext]_vars
      => (ListInv /\ AbsInv)' /\ [Atomic!Next]_(Atomic!rpliVars)
  <2>1. ListInv /\ AbsInv /\ [DepNext]_vars
        => (ListInv /\ AbsInv)' /\ [Abstract!Next]_(Abstract!rpliVars)
    BY RefineNext
  <2>2. [Abstract!Next]_(Abstract!rpliVars) => [Atomic!Next]_(Atomic!rpliVars)
    <3>1. ASSUME Abstract!Next  PROVE Atomic!Next
      BY <3>1, SameNext
    <3>2. ASSUME UNCHANGED Abstract!rpliVars  PROVE UNCHANGED Atomic!rpliVars
      BY <3>2 DEF Abstract!rpliVars, Atomic!rpliVars
    <3> QED  BY <3>1, <3>2
  <2> QED  BY <2>1, <2>2
<1> QED  BY <1>1, <1>2, PTL DEF DepSpec, AtomicSpec, Atomic!Spec

----------------------------------------------------------------------------
(* What is proved of RequestToRpli holds of the real insertion.            *)

LEMMA AbstractSpecCorrect ==
  ASSUME Separate  PROVE DepSpec => Abstract!Spec /\ [](DepTypes)
<1>1. DepInit => Abstract!Init /\ ListInv /\ AbsInv
  BY RefineInit
<1>2. ListInv /\ AbsInv /\ [DepNext]_vars
      => (ListInv /\ AbsInv)' /\ [Abstract!Next]_(Abstract!rpliVars)
  BY RefineNext
<1>3. ListInv => DepTypes
  BY DEF ListInv
<1> QED  BY <1>1, <1>2, <1>3, PTL DEF DepSpec, Abstract!Spec

\* While no two keys share a bucket, requests of one key reach the log in the
\* order in which the compare-and-swaps inserted them.
THEOREM DepKeyOrder ==
  ASSUME Separate  PROVE DepSpec => []KeyOrder
<1>1. Abstract!Spec => []Abstract!KeyOrder
  BY Abstract!KeyOrderCorrect, RpliAssumption
<1>2. Abstract!KeyOrder => KeyOrder
  BY DEF KeyOrder, Abstract!KeyOrder
<1> QED  BY <1>1, <1>2, AbstractSpecCorrect, PTL

\* While no two keys share a bucket, a call that absorbed its request returns
\* with a newer one of its key in the log.
THEOREM DepDurable ==
  ASSUME Separate  PROVE DepSpec => []Durable
<1>1. Abstract!Spec => []Abstract!Durable
  BY Abstract!DurableCorrect, RpliAssumption
<1>2. Abstract!Durable => Durable
  BY DEF Durable, Abstract!Durable
<1> QED  BY <1>1, <1>2, AbstractSpecCorrect, PTL

\* The walk's assert(false) is not reached while no two keys share a bucket; the
\* hypothesis is needed, as a clean-up can cut off the requests of another key.
THEOREM DepAbortFree ==
  ASSUME Separate  PROVE DepSpec => []NoAbort
<1>1. Abstract!Spec => []Abstract!NoAbort
  BY Abstract!AbortFree, RpliAssumption
<1>2. Abstract!NoAbort => NoAbort
  <2> SUFFICES ASSUME Abstract!NoAbort, NEW t \in Threads  PROVE pc[t] # "abort"
    BY DEF NoAbort
  <2>1. AbstractPc(t) # "abort"
    BY DEF Abstract!NoAbort
  <2> QED  BY <2>1 DEF AbstractPc, Searching
<1> QED  BY <1>1, <1>2, AbstractSpecCorrect, PTL
=============================================================================
