------------------------ MODULE RequestToRpliProofs ------------------------
(***************************************************************************)
(* Proofs that the properties of RequestToRpli hold for every number of    *)
(* threads, slots, buckets and calls.  The layers of RequestToRpliInv are  *)
(* proved one on top of the other: the queue, the table, and the log.      *)
(***************************************************************************)
EXTENDS RequestToRpliInv, FiniteSetTheorems, TLAPS

----------------------------------------------------------------------------
(* Types                                                                   *)

\* The slots are the nodes below SLOT_MAX, and some nodes are heads.
LEMMA NodeFacts ==
  /\ Slots \subseteq Nodes
  /\ Slots \subseteq Nat
  /\ 0 \in Slots
  /\ Null \notin Nodes
  /\ Heads \cap Slots = {}
  /\ \A n \in Nat : n \in Slots <=> n < SLOT_MAX
  BY RpliAssumption DEF Slots, Nodes, Heads, Null

\* The queue starts within its types: every slot is free, every list empty.
LEMMA TypeInit == Init => TypeInv
  BY NodeFacts DEF Init, TypeInv, TypeOK, DeletedToSlot, PcLabels, NoCall,
     EmptyLists, Plain, IsDeleted, ClearSlot, CallType, SlotType, LinkType,
     EntryType

\* Links built from nodes are well typed, and carry the mark they say.
LEMMA LinkTypes ==
  \A n \in Nodes \cup {Null} :
    /\ Plain(n) \in LinkType /\ Plain(n).ref = n /\ ~IsDeleted(Plain(n))
    /\ Deleted(n) \in LinkType /\ Deleted(n).ref = n /\ IsDeleted(Deleted(n))
  BY DEF LinkType, Plain, Deleted, IsDeleted

\* A slot changed in one field, a call given its stamp, are still well typed.
LEMMA UpdateTypes ==
  /\ \A s \in SlotType, x \in Nat : [s EXCEPT !.stamp = x] \in SlotType
  /\ \A s \in SlotType : [s EXCEPT !.is_ready = FALSE] \in SlotType
  /\ \A c \in CallType, x \in Nat : [c EXCEPT !.stamp = x] \in CallType
  BY DEF SlotType, CallType

\* The message type a thread passes is one of the two.
LEMMA MsgType == \A t : MsgOf(t) \in {MSG_PURE, MSG_ACK}
  BY DEF MsgOf

\* No step of rsdco_request_to_rpli takes a variable out of its range.
LEMMA TypeNext == TypeInv /\ [Next]_rpliVars => TypeInv'
<1> SUFFICES ASSUME TypeInv, [Next]_rpliVars PROVE TypeInv'
  OBVIOUS
<1> USE DEF TypeInv, TypeOK, Goto
<1>1. ASSUME NEW t \in Threads, Call(t) PROVE TypeInv'
  <2>1. pc' \in [Threads -> PcLabels]
    BY <1>1 DEF Call, PcLabels
  <2>2. call' \in [Threads -> CallType]
    BY RpliAssumption, <1>1 DEF Call, CallType
  <2> QED
    BY <1>1, <2>1, <2>2 DEF Call, DeletedToSlot
<1>2. ASSUME NEW t \in Threads, Claim(t) PROVE TypeInv'
  <2>1. CASE next_free_slot < SLOT_MAX
    <3>1. slot_idx' \in [Threads -> Slots]
      BY NodeFacts, <1>2, <2>1 DEF Claim
    <3>2. pc' \in [Threads -> PcLabels]
      BY <1>2, <2>1 DEF Claim, PcLabels
    <3> QED
      BY <1>2, <3>1, <3>2 DEF Claim, DeletedToSlot
  <2>2. CASE ~(next_free_slot < SLOT_MAX)
    BY <1>2, <2>2 DEF Claim, DeletedToSlot
  <2> QED
    BY <2>1, <2>2
<1>3. ASSUME NEW t \in Threads, Fill(t) PROVE TypeInv'
  <2>1. slot' \in [Slots -> SlotType]
    BY <1>3 DEF Fill, SlotType, CallType
  <2>2. pc' \in [Threads -> PcLabels]
    BY <1>3 DEF Fill, PcLabels
  <2> QED
    BY <1>3, <2>1, <2>2 DEF Fill, DeletedToSlot
<1>4. ASSUME NEW t \in Threads, TryInsert(t) PROVE TypeInv'
  <2>1. slot' \in [Slots -> SlotType]
    <3>1. slot' = [slot EXCEPT ![slot_idx[t]].stamp = clock + 1]
      BY <1>4 DEF TryInsert, Inserted
    <3>2. slot_idx[t] \in Slots /\ clock + 1 \in Nat
      OBVIOUS
    <3> QED
      BY <3>1, <3>2, UpdateTypes
  <2>2. call' \in [Threads -> CallType] /\ clock' \in Nat
    BY <1>4, UpdateTypes DEF TryInsert, Inserted
  <2>3. next_slot' \in [Nodes -> LinkType] /\ DeletedToSlot'
    BY LinkTypes, NodeFacts, <1>4 DEF TryInsert, DeletedToSlot
  <2>4. pc' \in [Threads -> PcLabels]
    BY <1>4 DEF TryInsert, Inserted, PcLabels
  <2> QED
    BY <1>4, <2>1, <2>2, <2>3, <2>4 DEF TryInsert
<1>5. ASSUME NEW t \in Threads, Enter(t) PROVE TypeInv'
  <2>1. cur_slot' \in [Threads -> Slots]
    BY <1>5 DEF Enter
  <2>2. pc' \in [Threads -> PcLabels]
    BY <1>5 DEF Enter, PcLabels
  <2> QED
    BY <1>5, <2>1, <2>2 DEF Enter, DeletedToSlot
<1>6. ASSUME NEW t \in Threads, Walk(t) PROVE TypeInv'
  <2>1. slot' \in [Slots -> SlotType]
    BY <1>6, UpdateTypes DEF Walk
  <2>3. cur_slot' \in [Threads -> Slots]
    BY <1>6 DEF Walk, DeletedToSlot
  <2>2. pc' \in [Threads -> PcLabels]
    BY <1>6 DEF Walk, PcLabels
  <2> QED
    BY <1>6, <2>1, <2>2, <2>3 DEF Walk, DeletedToSlot
<1>7. ASSUME NEW t \in Threads, Write(t) PROVE TypeInv'
  <2>1. slot' \in [Slots -> SlotType]
    BY <1>7 DEF Write, SlotType
  <2>2. log' \in Seq(EntryType)
    BY <1>7, MsgType DEF Write, StampOf, SlotType, CallType, EntryType
  <2>3. pc' \in [Threads -> PcLabels]
    BY <1>7 DEF Write, PcLabels
  <2> QED
    BY <1>7, <2>1, <2>2, <2>3 DEF Write, DeletedToSlot
<1>8. ASSUME NEW t \in Threads, Finish(t) PROVE TypeInv'
  <2>1. procd' \in Slots
    BY RpliAssumption, <1>8 DEF Finish, Slots
  <2>2. pc' \in [Threads -> PcLabels]
    BY <1>8 DEF Finish, PcLabels
  <2> QED
    BY <1>8, <2>1, <2>2 DEF Finish, DeletedToSlot
<1>9. ASSUME NEW t \in Threads, ResetBuckets(t) PROVE TypeInv'
  <2>1. next_slot' \in [Nodes -> LinkType] /\ DeletedToSlot'
    BY LinkTypes, NodeFacts, <1>9 DEF ResetBuckets, DeletedToSlot
  <2>2. pc' \in [Threads -> PcLabels]
    BY <1>9 DEF ResetBuckets, PcLabels
  <2> QED
    BY <1>9, <2>1, <2>2 DEF ResetBuckets
<1>10. ASSUME NEW t \in Threads, ClearSlots(t) PROVE TypeInv'
  <2>1. next_slot' \in [Nodes -> LinkType] /\ DeletedToSlot'
    BY LinkTypes, NodeFacts, <1>10 DEF ClearSlots, DeletedToSlot
  <2>2. pc' \in [Threads -> PcLabels]
    BY <1>10 DEF ClearSlots, PcLabels
  <2>3. slot' \in [Slots -> SlotType]
    BY <1>10 DEF ClearSlots, ClearSlot, SlotType
  <2> QED
    BY <1>10, <2>1, <2>2, <2>3 DEF ClearSlots
<1>11. ASSUME NEW t \in Threads, FreeSlots(t) PROVE TypeInv'
  BY <1>11 DEF FreeSlots, DeletedToSlot, PcLabels
<1>12. ASSUME NEW t \in Threads, Return(t) PROVE TypeInv'
  <2>1. pc' \in [Threads -> PcLabels]
    BY <1>12 DEF Return, PcLabels
  <2>2. returned' \subseteq EntryType
    BY <1>12, MsgType DEF Return, CallType, EntryType
  <2>3. call' \in [Threads -> CallType]
    BY <1>12 DEF Return, NoCall, CallType
  <2>4. slot_idx' \in [Threads -> Slots] /\ cur_slot' \in [Threads -> Slots]
    BY <1>12, NodeFacts DEF Return
  <2> QED
    BY <1>12, <2>1, <2>2, <2>3, <2>4 DEF Return, DeletedToSlot
<1>13. CASE UNCHANGED rpliVars
  BY <1>13 DEF rpliVars, DeletedToSlot
<1> QED
  BY <1>1, <1>2, <1>3, <1>4, <1>5, <1>6, <1>7, <1>8, <1>9, <1>10, <1>11,
     <1>12, <1>13 DEF Next, Step, Critical, Terminated

\* Every variable keeps its type; in particular a claimed index is an index of
\* the array and a walk always stands on a slot.
THEOREM TypeCorrect == Spec => []TypeOK
<1>1. TypeInv => TypeOK
  BY DEF TypeInv
<1> QED
  BY TypeInit, TypeNext, <1>1, PTL DEF Spec

----------------------------------------------------------------------------
(* Who owns which slot                                                     *)

\* There are SLOT_MAX slots, and finitely many are processed.
LEMMA SlotsFinite ==
  /\ IsFiniteSet(Slots) /\ Cardinality(Slots) = SLOT_MAX
  /\ Processed \subseteq Slots
  /\ IsFiniteSet(Processed) /\ Cardinality(Processed) \in Nat
<1>1. IsFiniteSet(Slots) /\ Cardinality(Slots) = SLOT_MAX
  BY RpliAssumption, FS_Interval DEF Slots
<1>2. Processed \subseteq Slots
  BY DEF Processed
<1> QED
  BY <1>1, <1>2, FS_Subset, FS_CardinalityType

\* Nothing is owned, processed or counted at the start.
LEMMA QueueInit == Init => QueueInv
<1> SUFFICES ASSUME Init PROVE QueueInv
  OBVIOUS
<1>1. Processed = {}
  <2> SUFFICES ASSUME NEW i \in Processed PROVE FALSE
    OBVIOUS
  <2>1. i \in Nat /\ i < 0
    BY NodeFacts DEF Init, Processed
  <2> QED
    BY <2>1
<1>2. Cardinality(Processed) = 0
  BY <1>1, FS_EmptySet
<1> QED
  BY <1>2, RpliAssumption
     DEF Init, QueueInv, MutexHeld, OwnedClaimed, SlotOwnership,
         ResetQuiescent, ProcdCounts, Owning, Resetting, InMutex

\* A step that moves one thread to a label of the same standing (it owns its
\* slot, resets the queue, holds the mutex as before) keeps the invariant.
LEMMA QueueMove ==
  ASSUME QueueTypes, QueueInv, NEW t \in Threads, NEW label,
         pc' = [pc EXCEPT ![t] = label],
         label \in Owning <=> pc[t] \in Owning,
         label \in Resetting <=> pc[t] \in Resetting,
         label \in InMutex <=> pc[t] \in InMutex,
         UNCHANGED <<slot_idx, next_free_slot, procd, mtx>>
  PROVE  QueueInv'
<1>1. \A u \in Threads : /\ pc'[u] \in Owning <=> pc[u] \in Owning
                         /\ pc'[u] \in Resetting <=> pc[u] \in Resetting
                         /\ pc'[u] \in InMutex <=> pc[u] \in InMutex
  BY DEF QueueTypes
<1>2. Processed' = Processed
  BY <1>1 DEF Processed
<1>3. ProcdCounts'
  BY <1>1, <1>2 DEF QueueInv, ProcdCounts
<1>4. MutexHeld' /\ OwnedClaimed' /\ SlotOwnership' /\ ResetQuiescent'
  BY <1>1 DEF QueueInv, MutexHeld, OwnedClaimed, SlotOwnership, ResetQuiescent
<1> QED
  BY <1>3, <1>4 DEF QueueInv

\* The slot a claim draws is one nobody owns and that was not processed.
LEMMA QueueClaim ==
  ASSUME QueueTypes, QueueInv, NEW t \in Threads, Claim(t)
  PROVE  QueueInv'
<1> USE DEF QueueTypes
<1>0. /\ SLOT_MAX \in Nat /\ next_free_slot \in Nat
      /\ \A u \in Threads : slot_idx[u] \in Nat
  BY RpliAssumption, NodeFacts
<1>1. CASE next_free_slot < SLOT_MAX
  <2>1. /\ next_free_slot' = next_free_slot + 1
        /\ slot_idx' = [slot_idx EXCEPT ![t] = next_free_slot]
        /\ pc' = [pc EXCEPT ![t] = "fill"]
        /\ UNCHANGED <<procd, mtx>>
        /\ pc[t] = "claim"
    BY <1>1 DEF Claim, Goto
  <2>2. \A u \in Threads : pc[u] \notin Resetting
    <3> SUFFICES ASSUME NEW u \in Threads, pc[u] \in Resetting PROVE FALSE
      OBVIOUS
    <3>1. next_free_slot >= SLOT_MAX
      BY DEF QueueInv, ResetQuiescent
    <3> QED
      BY <1>0, <1>1, <3>1
  <2>3. \A u \in Threads : u # t => pc'[u] = pc[u] /\ slot_idx'[u] = slot_idx[u]
    BY <2>1
  <2>4. pc'[t] = "fill" /\ slot_idx'[t] = next_free_slot
    BY <2>1
  <2>5. Processed' = Processed
    <3>1. \A i \in Slots : i \in Nat
      BY NodeFacts
    <3>2. ASSUME NEW i \in Slots PROVE i \in Processed' <=> i \in Processed
      <4>1. CASE i = next_free_slot
        BY <2>1, <2>4, <4>1 DEF Processed, Owning
      <4>2. CASE i # next_free_slot
        <5>1. i < next_free_slot' <=> i < next_free_slot
          BY <2>1, <3>1, <4>2
        <5>2. (\A u \in Threads : pc'[u] \in Owning => slot_idx'[u] # i)
              <=> (\A u \in Threads : pc[u] \in Owning => slot_idx[u] # i)
          BY <2>1, <2>3, <2>4, <4>2 DEF Owning
        <5> QED
          BY <5>1, <5>2 DEF Processed
      <4> QED
        BY <4>1, <4>2
    <3> QED
      BY <3>2 DEF Processed
  <2>6. ProcdCounts'
    <3>1. \A u \in Threads : pc'[u] \notin Resetting
      BY <2>2, <2>3, <2>4 DEF Resetting
    <3> QED
      BY <2>1, <2>2, <2>5, <3>1 DEF QueueInv, ProcdCounts
  <2>7. MutexHeld'
    BY <2>1, <2>3, <2>4 DEF QueueInv, MutexHeld, InMutex
  <2>8. OwnedClaimed'
    <3>1. ASSUME NEW u \in Threads, pc'[u] \in Owning
          PROVE  slot_idx'[u] < next_free_slot'
      <4>1. CASE u = t
        BY <1>0, <2>1, <2>4, <4>1
      <4>2. CASE u # t
        <5>1. slot_idx[u] < next_free_slot
          BY <2>3, <3>1, <4>2 DEF QueueInv, OwnedClaimed
        <5> QED
          BY <1>0, <2>1, <2>3, <4>2, <5>1
      <4> QED
        BY <4>1, <4>2
    <3> QED
      BY <3>1 DEF OwnedClaimed
  <2>9. SlotOwnership'
    BY <1>0, <2>3, <2>4 DEF QueueInv, OwnedClaimed, SlotOwnership
  <2>10. ResetQuiescent'
    BY <2>2, <2>3, <2>4 DEF ResetQuiescent, Resetting
  <2> QED
    BY <2>6, <2>7, <2>8, <2>9, <2>10 DEF QueueInv
<1>2. CASE ~(next_free_slot < SLOT_MAX)
  <2>1. /\ next_free_slot' = next_free_slot + 1
        /\ UNCHANGED <<pc, slot_idx, procd, mtx>>
    BY <1>2 DEF Claim
  <2>2. Processed' = Processed
    <3>1. \A i \in Slots : i < next_free_slot /\ i < next_free_slot'
      BY <1>2, <2>1, NodeFacts, RpliAssumption
    <3> QED
      BY <2>1, <3>1 DEF Processed
  <2>3. OwnedClaimed' /\ ResetQuiescent'
    BY <1>0, <2>1 DEF QueueInv, OwnedClaimed, ResetQuiescent
  <2>4. MutexHeld' /\ SlotOwnership' /\ ProcdCounts'
    BY <2>1, <2>2 DEF QueueInv, MutexHeld, SlotOwnership, ProcdCounts
  <2> QED
    BY <2>3, <2>4 DEF QueueInv
<1> QED
  BY <1>1, <1>2

\* Taking the free mutex moves a waiting request into the critical section.
LEMMA QueueEnter ==
  ASSUME QueueTypes, QueueInv, NEW t \in Threads,
         NEW label \in {"walk", "write", "finish"},
         pc[t] = "lock", pc' = [pc EXCEPT ![t] = label],
         mtx = NoThread, mtx' = t, UNCHANGED <<slot_idx, next_free_slot, procd>>
  PROVE  QueueInv'
<1> USE DEF QueueTypes
<1>2. UNCHANGED <<slot_idx, next_free_slot, procd>>
  OBVIOUS
<1>3. \A u \in Threads : pc[u] \notin InMutex
  BY <1>2, RpliAssumption DEF QueueInv, MutexHeld
<1>4. \A u \in Threads : u # t => pc'[u] = pc[u]
  OBVIOUS
<1>5. pc'[t] = label
  OBVIOUS
<1>6. \A u \in Threads : /\ pc'[u] \in Owning <=> pc[u] \in Owning
                         /\ pc[u] \notin Resetting /\ pc'[u] \notin Resetting
  BY <1>2, <1>3, <1>4, <1>5 DEF Owning, Resetting, InMutex
<1>7. Processed' = Processed
  BY <1>2, <1>6 DEF Processed
<1>8. MutexHeld'
  BY <1>2, <1>3, <1>4, <1>5 DEF MutexHeld, InMutex
<1>9. OwnedClaimed' /\ SlotOwnership' /\ ResetQuiescent' /\ ProcdCounts'
  BY <1>2, <1>6, <1>7
     DEF QueueInv, OwnedClaimed, SlotOwnership, ResetQuiescent, ProcdCounts
<1> QED
  BY <1>8, <1>9 DEF QueueInv

\* Leaving the mutex: the thread owns nothing any more.
LEMMA QueueReturn ==
  ASSUME QueueTypes, QueueInv, NEW t \in Threads, Return(t)
  PROVE  QueueInv'
<1> USE DEF QueueTypes
<1>1. /\ pc[t] = "return" /\ pc' = [pc EXCEPT ![t] = "idle"]
      /\ mtx' = NoThread /\ slot_idx' = [slot_idx EXCEPT ![t] = 0]
      /\ UNCHANGED <<next_free_slot, procd>>
  BY DEF Return, Goto
<1>2. mtx = t
  BY <1>1 DEF QueueInv, MutexHeld, InMutex
<1>3. \A u \in Threads : u # t => pc'[u] = pc[u] /\ slot_idx'[u] = slot_idx[u]
  BY <1>1
<1>4. pc'[t] = "idle"
  BY <1>1
<1>5. \A u \in Threads : /\ pc'[u] \in Owning <=> pc[u] \in Owning
                         /\ pc'[u] \in Resetting <=> pc[u] \in Resetting
                         /\ pc'[u] \in Owning => slot_idx'[u] = slot_idx[u]
  BY <1>1, <1>3, <1>4 DEF Owning, Resetting
<1>6. Processed' = Processed
  BY <1>1, <1>5 DEF Processed
<1>7. MutexHeld'
  BY <1>1, <1>2, <1>3, <1>4, RpliAssumption DEF QueueInv, MutexHeld, InMutex
<1>8. OwnedClaimed' /\ SlotOwnership' /\ ResetQuiescent' /\ ProcdCounts'
  BY <1>1, <1>5, <1>6
     DEF QueueInv, OwnedClaimed, SlotOwnership, ResetQuiescent, ProcdCounts
<1> QED
  BY <1>7, <1>8 DEF QueueInv

\* The thread that finishes hands its slot over to the processed ones; when
\* that is the last slot, every slot was claimed and nobody owns one.
LEMMA QueueFinish ==
  ASSUME QueueTypes, QueueInv, NEW t \in Threads, Finish(t)
  PROVE  QueueInv'
<1> USE DEF QueueTypes
<1> DEFINE i == slot_idx[t]
<1>1. pc[t] = "finish" /\ UNCHANGED <<slot_idx, next_free_slot, mtx>>
  BY DEF Finish
<1>2. PICK label \in {"buckets", "return"} : pc' = [pc EXCEPT ![t] = label]
  BY DEF Finish, Goto
<1>3. \A u \in Threads : u # t => pc'[u] = pc[u]
  BY <1>2
<1>4. pc'[t] = label
  BY <1>2
<1>5. \A u \in Threads : u # t => pc[u] \notin InMutex
  BY <1>1 DEF QueueInv, MutexHeld, InMutex
<1>6. \A u \in Threads : pc[u] \notin Resetting
  BY <1>1, <1>5 DEF InMutex, Resetting
<1>7. i \in Slots /\ i \notin Processed
  BY <1>1 DEF Processed, Owning
<1>8. Processed' = Processed \cup {i}
  <2>1. i < next_free_slot
    BY <1>1 DEF QueueInv, OwnedClaimed, Owning
  <2>2. \A u \in Threads : pc'[u] \in Owning <=> pc[u] \in Owning /\ u # t
    BY <1>3, <1>4 DEF Owning
  <2>3. \A u \in Threads : pc[u] \in Owning /\ u # t => slot_idx[u] # i
    BY <1>1 DEF QueueInv, SlotOwnership, Owning
  <2>4. ASSUME NEW j \in Slots
        PROVE  j \in Processed' <=> j \in Processed \/ j = i
    BY <1>1, <2>1, <2>2, <2>3, <2>4 DEF Processed
  <2> QED
    BY <1>7, <2>4 DEF Processed
<1>9. Cardinality(Processed') = procd + 1
  <2>1. procd = Cardinality(Processed)
    BY <1>6 DEF QueueInv, ProcdCounts
  <2> QED
    BY <1>7, <1>8, <2>1, SlotsFinite, FS_AddElement
<1>10. MutexHeld' /\ OwnedClaimed' /\ SlotOwnership'
  <2>1. \A u \in Threads : /\ pc'[u] \in Owning => pc[u] \in Owning
                           /\ pc'[u] \in InMutex <=> pc[u] \in InMutex
    BY <1>1, <1>3, <1>4 DEF Owning, InMutex
  <2> QED
    BY <1>1, <2>1 DEF QueueInv, MutexHeld, OwnedClaimed, SlotOwnership
<1>11. CASE procd + 1 = SLOT_MAX
  <2>1. procd' = 0 /\ label = "buckets"
    BY <1>2, <1>11 DEF Finish, Goto
  <2>2. Processed' = Slots
    BY <1>7, <1>8, <1>9, <1>11, SlotsFinite, FS_Subset
  <2>3. \A u \in Threads : pc'[u] \notin Owning
    BY <1>1, <2>2 DEF Processed
  <2>4. next_free_slot' >= SLOT_MAX
    <3>1. SLOT_MAX - 1 \in Slots
      BY RpliAssumption DEF Slots
    <3>2. SLOT_MAX - 1 < next_free_slot'
      BY <2>2, <3>1 DEF Processed
    <3> QED
      BY <1>1, <3>2, RpliAssumption
  <2>5. ResetQuiescent'
    BY <2>3, <2>4 DEF ResetQuiescent
  <2>6. ProcdCounts'
    BY <1>4, <2>1 DEF ProcdCounts, Resetting
  <2> QED
    BY <1>10, <2>5, <2>6 DEF QueueInv
<1>12. CASE procd + 1 # SLOT_MAX
  <2>1. procd' = procd + 1 /\ label = "return"
    BY <1>2, <1>12 DEF Finish, Goto
  <2>2. \A u \in Threads : pc'[u] \notin Resetting
    BY <1>3, <1>4, <1>6, <2>1 DEF Resetting
  <2>3. ResetQuiescent' /\ ProcdCounts'
    BY <1>9, <2>1, <2>2 DEF ResetQuiescent, ProcdCounts
  <2> QED
    BY <1>10, <2>3 DEF QueueInv
<1> QED
  BY <1>11, <1>12

\* The end of a reset: no slot is claimed, so none is owned or processed.
LEMMA QueueFree ==
  ASSUME QueueTypes, QueueInv, NEW t \in Threads, FreeSlots(t)
  PROVE  QueueInv'
<1> USE DEF QueueTypes
<1>1. /\ pc[t] = "free" /\ pc' = [pc EXCEPT ![t] = "return"]
      /\ next_free_slot' = 0 /\ UNCHANGED <<slot_idx, procd, mtx>>
  BY DEF FreeSlots, Goto
<1>2. \A u \in Threads : u # t => pc'[u] = pc[u]
  BY <1>1
<1>3. pc'[t] = "return"
  BY <1>1
<1>4. \A u \in Threads : u # t => pc[u] \notin InMutex
  BY <1>1 DEF QueueInv, MutexHeld, InMutex
<1>5. \A u \in Threads : pc'[u] \notin Owning /\ pc'[u] \notin Resetting
  BY <1>1, <1>2, <1>3, <1>4
     DEF QueueInv, ResetQuiescent, Owning, Resetting, InMutex
<1>6. procd = 0
  BY <1>1 DEF QueueInv, ProcdCounts, Resetting
<1>7. Processed' = {}
  <2> SUFFICES ASSUME NEW i \in Processed' PROVE FALSE
    OBVIOUS
  <2>1. i \in Nat /\ i < 0
    BY <1>1, NodeFacts DEF Processed
  <2> QED
    BY <2>1
<1>8. ProcdCounts'
  BY <1>1, <1>5, <1>6, <1>7, FS_EmptySet DEF ProcdCounts
<1>9. MutexHeld'
  BY <1>1, <1>2, <1>3 DEF QueueInv, MutexHeld, InMutex
<1>10. OwnedClaimed' /\ SlotOwnership' /\ ResetQuiescent'
  BY <1>5 DEF OwnedClaimed, SlotOwnership, ResetQuiescent
<1> QED
  BY <1>8, <1>9, <1>10 DEF QueueInv

\* Every step keeps slots owned by one call each, and every slot accounted for.
LEMMA QueueNext == TypeInv /\ QueueInv /\ [Next]_rpliVars => QueueInv'
<1> SUFFICES ASSUME TypeInv, QueueInv, [Next]_rpliVars PROVE QueueInv'
  OBVIOUS
<1> USE DEF Goto, Owning, Resetting, InMutex
<1>0. QueueTypes
  BY DEF TypeInv, TypeOK, QueueTypes
<1>1. ASSUME NEW t \in Threads, Call(t) PROVE QueueInv'
  BY <1>0, <1>1, QueueMove DEF Call
<1>2. ASSUME NEW t \in Threads, Fill(t) PROVE QueueInv'
  BY <1>0, <1>2, QueueMove DEF Fill
<1>3. ASSUME NEW t \in Threads, TryInsert(t) PROVE QueueInv'
  BY <1>0, <1>3, QueueMove DEF TryInsert, Inserted
<1>4. ASSUME NEW t \in Threads, Walk(t) PROVE QueueInv'
  <2>1. PICK label \in {"walk", "write", "abort"} : pc' = [pc EXCEPT ![t] = label]
    BY <1>4 DEF Walk, TypeInv, TypeOK
  <2>2. pc[t] = "walk" /\ UNCHANGED <<slot_idx, next_free_slot, procd, mtx>>
    BY <1>4 DEF Walk
  <2> QED
    BY <1>0, <2>1, <2>2, QueueMove
<1>5. ASSUME NEW t \in Threads, Write(t) PROVE QueueInv'
  BY <1>0, <1>5, QueueMove DEF Write
<1>6. ASSUME NEW t \in Threads, ResetBuckets(t) PROVE QueueInv'
  BY <1>0, <1>6, QueueMove DEF ResetBuckets
<1>7. ASSUME NEW t \in Threads, ClearSlots(t) PROVE QueueInv'
  BY <1>0, <1>7, QueueMove DEF ClearSlots
<1>8. ASSUME NEW t \in Threads, Enter(t) PROVE QueueInv'
  <2>1. PICK label \in {"walk", "write", "finish"} : pc' = [pc EXCEPT ![t] = label]
    BY <1>8 DEF Enter
  <2>2. /\ pc[t] = "lock" /\ mtx = NoThread /\ mtx' = t
        /\ UNCHANGED <<slot_idx, next_free_slot, procd>>
    BY <1>8 DEF Enter
  <2> QED
    BY <1>0, <2>1, <2>2, QueueEnter
<1>9. CASE UNCHANGED rpliVars
  BY <1>9 DEF rpliVars, QueueInv, MutexHeld, OwnedClaimed, SlotOwnership,
              ResetQuiescent, ProcdCounts, Processed
<1> QED
  BY <1>0, <1>1, <1>2, <1>3, <1>4, <1>5, <1>6, <1>7, <1>8, <1>9, QueueClaim,
     QueueFinish, QueueFree, QueueReturn DEF Next, Step, Critical, Terminated

\* Both layers hold in every reachable state.
LEMMA QueueCorrect == Spec => [](TypeInv /\ QueueInv)
<1>1. Init => TypeInv /\ QueueInv
  BY TypeInit, QueueInit
<1>2. TypeInv /\ QueueInv /\ [Next]_rpliVars => (TypeInv /\ QueueInv)'
  BY TypeNext, QueueNext
<1> QED
  BY <1>1, <1>2, PTL DEF Spec

\* No two calls in progress own the same slot of rpli_reqs.
THEOREM OwnershipCorrect == Spec => []SlotOwnership
<1>1. QueueInv => SlotOwnership
  BY DEF QueueInv
<1> QED
  BY QueueCorrect, <1>1, PTL

\* doResetAll and the memset of the slots run while no call owns a slot.
THEOREM ResetCorrect == Spec => []ResetQuiescent
<1>1. QueueInv => ResetQuiescent
  BY DEF QueueInv
<1> QED
  BY QueueCorrect, <1>1, PTL

----------------------------------------------------------------------------
(* The hash table: deleted marks lead to newer requests of the same key    *)
(* (Chain), the request that is not superseded is the latest of its key    *)
(* (NewestLatest), and so assert(false) in rsdco_request_to_rpli does not  *)
(* fire (NoAbort).                                                         *)

\* The table is empty at the start.
LEMMA TableInit == Init => TableInv
  BY NodeFacts DEF Init, TableInv, FreeUnused, StampBound, Chain, NewestLatest,
     Tracked, InTable, Unused, EmptyLists, Plain, IsDeleted, ClearSlot

\* A step that changes no stamp and no slot's link, and no key of a request in
\* the table, has to answer only for the call that takes it.
LEMMA TableFrame ==
  ASSUME TypeInv, TypeInv', TableInv, NEW t \in Threads,
         \A i \in Slots : /\ slot'[i].stamp = slot[i].stamp
                          /\ next_slot'[i] = next_slot[i]
                          /\ InTable(i) => slot'[i].hashed = slot[i].hashed,
         clock' = clock, next_free_slot' >= next_free_slot,
         \A u \in Threads \ {t} :
           /\ pc'[u] = pc[u] /\ call'[u] = call[u]
           /\ slot_idx'[u] = slot_idx[u] /\ cur_slot'[u] = cur_slot[u]
           /\ pc[u] = "insert" => slot'[slot_idx[u]] = slot[slot_idx[u]],
         Tracked(t)'
  PROVE  TableInv'
<1>1. /\ \A i \in Slots : /\ i \in Nat
                          /\ slot[i].stamp \in Nat /\ slot'[i].stamp \in Nat
      /\ next_free_slot \in Nat /\ next_free_slot' \in Nat
  BY NodeFacts DEF TypeInv, TypeOK, SlotType
<1>2. \A i \in Slots : /\ Unused(i)' <=> Unused(i)
                       /\ InTable(i)' <=> InTable(i)
  BY DEF Unused, InTable
<1>3. FreeUnused'
  BY <1>1, <1>2 DEF TableInv, FreeUnused
<1>4. StampBound'
  BY DEF TableInv, StampBound
<1>5. Chain'
  <2> SUFFICES ASSUME NEW i \in Slots, IsDeleted(next_slot[i])
               PROVE  /\ InTable(i)'
                      /\ slot'[next_slot[i].ref].hashed = slot'[i].hashed
                      /\ slot'[next_slot[i].ref].stamp > slot'[i].stamp
    BY DEF Chain
  <2> DEFINE r == next_slot[i].ref
  <2>1. r \in Slots
    BY DEF TypeInv, DeletedToSlot
  <2>2. /\ InTable(i) /\ slot[r].hashed = slot[i].hashed
        /\ slot[r].stamp > slot[i].stamp
    BY DEF TableInv, Chain
  <2>3. InTable(r)
    BY <1>1, <2>1, <2>2 DEF InTable
  <2> QED
    BY <1>2, <2>1, <2>2, <2>3
<1>6. NewestLatest'
  <2> SUFFICES ASSUME NEW i \in Slots, NEW j \in Slots,
                      InTable(i)', ~IsDeleted(next_slot'[i]), InTable(j)',
                      slot'[j].hashed = slot'[i].hashed
               PROVE  slot'[j].stamp <= slot'[i].stamp
    BY DEF NewestLatest
  <2>1. /\ InTable(i) /\ ~IsDeleted(next_slot[i]) /\ InTable(j)
        /\ slot[j].hashed = slot[i].hashed
    BY <1>2
  <2>2. slot[j].stamp <= slot[i].stamp
    BY <2>1 DEF TableInv, NewestLatest
  <2> QED
    BY <2>2
<1>7. ASSUME NEW u \in Threads PROVE Tracked(u)'
  <2>1. CASE u = t
    BY <2>1
  <2>2. CASE u # t
    <3>0. /\ pc'[u] = pc[u] /\ call'[u] = call[u]
          /\ slot_idx'[u] = slot_idx[u] /\ cur_slot'[u] = cur_slot[u]
          /\ pc[u] = "insert" => slot'[slot_idx[u]] = slot[slot_idx[u]]
      BY <2>2
    <3>1. Tracked(u) /\ slot_idx[u] \in Slots /\ cur_slot[u] \in Slots
          /\ call[u].stamp \in Nat
      BY DEF TableInv, TypeInv, TypeOK, CallType
    <3>2. pc[u] \in {"lock", "walk", "write", "finish"} => InTable(slot_idx[u])
      BY <3>1 DEF Tracked, InTable
    <3>3. pc[u] \in {"walk", "write"} => InTable(cur_slot[u])
      BY <1>1, <3>1 DEF Tracked, InTable
    <3> QED
      BY <1>2, <3>0, <3>1, <3>2, <3>3 DEF Tracked
  <2> QED
    BY <2>1, <2>2
<1> QED
  BY <1>3, <1>4, <1>5, <1>6, <1>7 DEF TableInv

\* The steps that write nothing a search or a walk could see.
LEMMA TableQuiet ==
  ASSUME TypeInv, TypeInv', QueueInv, TableInv, NEW t \in Threads,
         Call(t) \/ Claim(t) \/ Finish(t) \/ ResetBuckets(t) \/ Return(t)
  PROVE  TableInv'
<1> USE DEF TypeInv, TypeOK, Goto
<1>1. \A i \in Slots : slot'[i] = slot[i] /\ next_slot'[i] = next_slot[i]
  BY NodeFacts DEF Call, Claim, Finish, ResetBuckets, Return
<1>2. clock' = clock
  BY DEF Call, Claim, Finish, ResetBuckets, Return
<1>3. next_free_slot' >= next_free_slot
  BY DEF Call, Claim, Finish, ResetBuckets, Return
<1>4. ASSUME NEW u \in Threads \ {t}
      PROVE  /\ pc'[u] = pc[u] /\ call'[u] = call[u]
             /\ slot_idx'[u] = slot_idx[u] /\ cur_slot'[u] = cur_slot[u]
  BY DEF Call, Claim, Finish, ResetBuckets, Return
<1>5. Tracked(t)'
  <2>1. CASE pc'[t] \in {"claim", "buckets", "slots", "return", "idle"}
    BY <2>1 DEF Tracked
  <2>2. CASE Claim(t) /\ next_free_slot < SLOT_MAX
    <3>1. /\ pc'[t] = "fill" /\ slot_idx'[t] = next_free_slot
          /\ UNCHANGED <<slot, next_slot>>
      BY <2>2 DEF Claim
    <3>2. next_free_slot \in Slots
      BY <2>2, NodeFacts
    <3>3. Unused(next_free_slot)
      BY <3>2 DEF TableInv, FreeUnused
    <3> QED
      BY <3>1, <3>3 DEF Tracked, Unused
  <2> QED
    BY <2>1, <2>2 DEF Call, Claim, Finish, ResetBuckets, Return
<1> QED
  BY <1>1, <1>2, <1>3, <1>4, <1>5, TableFrame

\* Filling an unused slot, which no walk stands on and no other call claimed.
LEMMA TableFill ==
  ASSUME TypeInv, TypeInv', QueueInv, TableInv, NEW t \in Threads, Fill(t)
  PROVE  TableInv'
<1> USE DEF TypeInv, TypeOK
<1> DEFINE i == slot_idx[t]
<1>1. /\ pc[t] = "fill" /\ pc' = [pc EXCEPT ![t] = "insert"]
      /\ slot' = [slot EXCEPT ![i] = [hashed |-> call[t].hashed,
                                      is_ready |-> TRUE, stamp |-> 0]]
      /\ UNCHANGED <<call, slot_idx, cur_slot, next_free_slot, next_slot, clock>>
  BY DEF Fill, Goto
<1>2. i \in Slots /\ Unused(i)
  BY <1>1 DEF TableInv, Tracked
<1>3. \A j \in Slots : /\ slot'[j].stamp = slot[j].stamp
                       /\ next_slot'[j] = next_slot[j]
                       /\ InTable(j) => slot'[j].hashed = slot[j].hashed
  BY <1>1, <1>2 DEF Unused, InTable
<1>4. ASSUME NEW u \in Threads \ {t}, pc[u] = "insert"
      PROVE  slot'[slot_idx[u]] = slot[slot_idx[u]]
  <2>1. slot_idx[u] # i
    BY <1>1, <1>4 DEF QueueInv, SlotOwnership, Owning
  <2> QED
    BY <1>1, <2>1
<1>5. Tracked(t)'
  BY <1>1, <1>2 DEF Tracked, Unused
<1>6. ASSUME NEW u \in Threads \ {t}
      PROVE  /\ pc'[u] = pc[u] /\ call'[u] = call[u]
             /\ slot_idx'[u] = slot_idx[u] /\ cur_slot'[u] = cur_slot[u]
  BY <1>1
<1>7. clock' = clock /\ next_free_slot' >= next_free_slot
  BY <1>1
<1> HIDE DEF TypeInv
<1> QED
  BY <1>3, <1>4, <1>5, <1>6, <1>7, TableFrame

\* A thread that got the mutex starts from its own slot.
LEMMA TableEnter ==
  ASSUME TypeInv, TypeInv', QueueInv, TableInv, NEW t \in Threads, Enter(t)
  PROVE  TableInv'
<1> USE DEF TypeInv, TypeOK
<1>1. /\ pc[t] = "lock" /\ cur_slot' = [cur_slot EXCEPT ![t] = slot_idx[t]]
      /\ UNCHANGED <<call, slot_idx, next_free_slot, slot, next_slot, clock>>
  BY DEF Enter
<1>2. PICK label \in {"walk", "write", "finish"} : pc' = [pc EXCEPT ![t] = label]
  BY DEF Enter, Goto
<1>3. /\ slot[slot_idx[t]].hashed = call[t].hashed
      /\ slot[slot_idx[t]].stamp = call[t].stamp
      /\ call[t].stamp > 0
  BY <1>1 DEF TableInv, Tracked
<1>4. Tracked(t)'
  <2>1. pc'[t] = label /\ cur_slot'[t] = slot_idx[t]
    BY <1>1, <1>2
  <2>2. call[t].stamp \in Nat
    BY DEF CallType
  <2> QED
    BY <1>1, <1>3, <2>1, <2>2 DEF Tracked
<1> QED
  BY <1>1, <1>2, <1>4, TableFrame

\* A walk goes along a deleted mark to a newer request of the same key, and
\* ends on one: the assertion holds.
LEMMA TableWalk ==
  ASSUME TypeInv, TypeInv', QueueInv, TableInv, NEW t \in Threads, Walk(t)
  PROVE  TableInv'
<1> USE DEF TypeInv, TypeOK
<1> DEFINE cur == cur_slot[t]
<1>1. /\ pc[t] = "walk" /\ cur \in Slots /\ slot_idx[t] \in Slots
      /\ UNCHANGED <<call, slot_idx, next_free_slot, next_slot, clock>>
  BY DEF Walk
<1>2. /\ slot[slot_idx[t]].hashed = call[t].hashed
      /\ slot[slot_idx[t]].stamp = call[t].stamp
      /\ call[t].stamp > 0
      /\ slot[cur].hashed = call[t].hashed
      /\ slot[cur].stamp >= call[t].stamp
  BY <1>1 DEF TableInv, Tracked
<1>3. call[t].stamp \in Nat /\ \A i \in Slots : slot[i].stamp \in Nat
  BY DEF CallType, SlotType
<1>4. InTable(cur)
  BY <1>1, <1>2, <1>3 DEF InTable
<1>5. CASE IsDeleted(next_slot[cur])
  <2> DEFINE nxt == next_slot[cur].ref
  <2>1. /\ slot' = [slot EXCEPT ![cur].is_ready = FALSE]
        /\ cur_slot' = [cur_slot EXCEPT ![t] = nxt]
    BY <1>5 DEF Walk
  <2>2. PICK label \in {"walk", "write"} : pc' = [pc EXCEPT ![t] = label]
    BY <1>1, <1>5 DEF Walk, Goto
  <2>3. /\ nxt \in Slots /\ slot[nxt].hashed = slot[cur].hashed
        /\ slot[nxt].stamp > slot[cur].stamp
    BY <1>1, <1>5 DEF TableInv, Chain, DeletedToSlot
  <2>4. \A i \in Slots : /\ slot'[i].stamp = slot[i].stamp
                         /\ slot'[i].hashed = slot[i].hashed
                         /\ i # cur => slot'[i] = slot[i]
    BY <2>1 DEF SlotType
  <2>5. ASSUME NEW u \in Threads \ {t}, pc[u] = "insert"
        PROVE  slot'[slot_idx[u]] = slot[slot_idx[u]]
    <3>1. Unused(slot_idx[u])
      BY <2>5 DEF TableInv, Tracked
    <3>2. slot_idx[u] # cur
      BY <1>4, <3>1 DEF Unused, InTable
    <3> QED
      BY <2>4, <3>2
  <2>6. Tracked(t)'
    <3>1. pc'[t] = label /\ cur_slot'[t] = nxt
      BY <2>1, <2>2
    <3>2. slot[nxt].stamp >= call[t].stamp
      BY <1>1, <1>2, <1>3, <2>3
    <3> QED
      BY <1>1, <1>2, <2>3, <2>4, <3>1, <3>2 DEF Tracked
  <2>7. ASSUME NEW u \in Threads \ {t}
        PROVE  /\ pc'[u] = pc[u] /\ call'[u] = call[u]
               /\ slot_idx'[u] = slot_idx[u] /\ cur_slot'[u] = cur_slot[u]
    BY <1>1, <2>1, <2>2
  <2> QED
    BY <1>1, <2>4, <2>5, <2>6, <2>7, TableFrame
<1>6. CASE ~IsDeleted(next_slot[cur])
  <2>1. pc' = [pc EXCEPT ![t] = "write"] /\ UNCHANGED <<slot, cur_slot>>
    BY <1>2, <1>6 DEF Walk, Goto
  <2>2. Tracked(t)'
    BY <1>1, <1>2, <2>1 DEF Tracked
  <2> QED
    BY <1>1, <2>1, <2>2, TableFrame
<1> QED
  BY <1>5, <1>6

\* The write takes ready flags away, from requests that are in the table.
LEMMA TableWrite ==
  ASSUME TypeInv, TypeInv', QueueInv, TableInv, NEW t \in Threads, Write(t)
  PROVE  TableInv'
<1> USE DEF TypeInv, TypeOK
<1>1. /\ pc[t] = "write" /\ pc' = [pc EXCEPT ![t] = "finish"]
      /\ slot' = [i \in Slots |-> IF i \in {slot_idx[t], cur_slot[t]}
                                    THEN [slot[i] EXCEPT !.is_ready = FALSE]
                                    ELSE slot[i]]
      /\ UNCHANGED <<call, slot_idx, cur_slot, next_free_slot, next_slot, clock>>
  BY DEF Write, Goto
<1>2. /\ slot[slot_idx[t]].hashed = call[t].hashed
      /\ slot[slot_idx[t]].stamp = call[t].stamp
      /\ call[t].stamp > 0
      /\ slot[cur_slot[t]].stamp >= call[t].stamp
  BY <1>1 DEF TableInv, Tracked
<1>3. call[t].stamp \in Nat /\ \A i \in Slots : slot[i].stamp \in Nat
  BY DEF CallType, SlotType
<1>4. \A i \in Slots :
        /\ slot'[i].stamp = slot[i].stamp /\ slot'[i].hashed = slot[i].hashed
        /\ i \notin {slot_idx[t], cur_slot[t]} => slot'[i] = slot[i]
  BY <1>1 DEF SlotType
<1>5. ASSUME NEW u \in Threads \ {t}, pc[u] = "insert"
      PROVE  slot'[slot_idx[u]] = slot[slot_idx[u]]
  <2>1. Unused(slot_idx[u])
    BY <1>5 DEF TableInv, Tracked
  <2>2. slot_idx[u] \notin {slot_idx[t], cur_slot[t]}
    BY <1>2, <1>3, <2>1 DEF Unused
  <2> QED
    BY <1>4, <2>2
<1>6. Tracked(t)'
  BY <1>1, <1>2, <1>4 DEF Tracked
<1>7. ASSUME NEW u \in Threads \ {t}
      PROVE  /\ pc'[u] = pc[u] /\ call'[u] = call[u]
             /\ slot_idx'[u] = slot_idx[u] /\ cur_slot'[u] = cur_slot[u]
  BY <1>1
<1>8. /\ clock' = clock /\ next_free_slot' >= next_free_slot
      /\ \A i \in Slots : next_slot'[i] = next_slot[i]
  BY <1>1
<1> HIDE DEF TypeInv
<1> QED
  BY <1>4, <1>5, <1>6, <1>7, <1>8, TableFrame

\* An insertion: its request becomes the newest of the key, and the one that
\* was gets the mark that leads to it.
LEMMA TableInsert ==
  ASSUME TypeInv, TypeInv', QueueInv, TableInv, NEW t \in Threads, TryInsert(t)
  PROVE  TableInv'
<1> USE DEF TypeInv, TypeOK
<1> DEFINE i == slot_idx[t]
           h == call[t].hashed
<1>1. /\ pc[t] = "insert" /\ pc' = [pc EXCEPT ![t] = "lock"]
      /\ slot' = [slot EXCEPT ![i].stamp = clock + 1]
      /\ call' = [call EXCEPT ![t].stamp = clock + 1]
      /\ clock' = clock + 1
      /\ UNCHANGED <<slot_idx, cur_slot, next_free_slot>>
  BY DEF TryInsert, Inserted, Goto
<1>2. \A n \in Slots : next_slot'[n] = IF Newest(n, h) THEN Deleted(i)
                                                      ELSE next_slot[n]
  BY NodeFacts DEF TryInsert
<1>3. /\ i \in Slots /\ Unused(i) /\ ~InTable(i)
      /\ slot[i].hashed = h /\ clock \in Nat
  BY <1>1 DEF TableInv, Tracked, Unused, InTable
<1>4. /\ slot'[i].stamp = clock + 1 /\ slot'[i].hashed = h
      /\ \A n \in Slots \ {i} : slot'[n] = slot[n]
      /\ slot'[i].is_ready = slot[i].is_ready
  BY <1>1, <1>3 DEF SlotType
<1>5. \A n \in Slots : slot[n].stamp \in Nat /\ slot[n].stamp <= clock
  BY DEF SlotType, TableInv, StampBound
<1>6. \A n \in Slots \ {i} : ~InTable(n) => (Unused(n) => Unused(n)')
  BY <1>2, <1>4 DEF Newest, Unused
<1>7. FreeUnused'
  <2> SUFFICES ASSUME NEW n \in Slots, n >= next_free_slot PROVE Unused(n)'
    BY <1>1 DEF FreeUnused
  <2>1. i < next_free_slot
    BY <1>1 DEF QueueInv, OwnedClaimed, Owning
  <2>2. n # i
    BY <2>1, NodeFacts
  <2>3. Unused(n)
    BY DEF TableInv, FreeUnused
  <2> QED
    BY <1>5, <1>6, <2>2, <2>3 DEF Unused, InTable
<1>8. StampBound'
  BY <1>1, <1>3, <1>4, <1>5 DEF StampBound
<1>9. Chain'
  <2> SUFFICES ASSUME NEW n \in Slots, IsDeleted(next_slot'[n])
               PROVE  /\ InTable(n)'
                      /\ slot'[next_slot'[n].ref].hashed = slot'[n].hashed
                      /\ slot'[next_slot'[n].ref].stamp > slot'[n].stamp
    BY DEF Chain
  <2>1. CASE Newest(n, h)
    <3>1. next_slot'[n].ref = i
      BY <1>2, <1>3, <2>1, NodeFacts, LinkTypes
    <3>2. n # i /\ slot[n].hashed = h /\ InTable(n)
      BY <1>3, <2>1 DEF Newest
    <3> QED
      BY <1>3, <1>4, <1>5, <3>1, <3>2 DEF InTable
  <2>2. CASE ~Newest(n, h)
    <3> DEFINE r == next_slot[n].ref
    <3>1. next_slot'[n] = next_slot[n] /\ r \in Slots
      BY <1>2, <2>2 DEF DeletedToSlot
    <3>2. /\ InTable(n) /\ slot[r].hashed = slot[n].hashed
          /\ slot[r].stamp > slot[n].stamp
      BY <3>1 DEF TableInv, Chain
    <3>3. n # i /\ r # i
      BY <1>3, <1>5, <3>1, <3>2 DEF InTable
    <3> QED
      BY <1>4, <3>1, <3>2, <3>3 DEF InTable
  <2> QED
    BY <2>1, <2>2
<1>10. NewestLatest'
  <2> SUFFICES ASSUME NEW m \in Slots, NEW n \in Slots,
                      InTable(m)', ~IsDeleted(next_slot'[m]), InTable(n)',
                      slot'[n].hashed = slot'[m].hashed
               PROVE  slot'[n].stamp <= slot'[m].stamp
    BY DEF NewestLatest
  <2>1. CASE m = i
    <3>1. slot'[n].stamp = clock + 1 \/ slot'[n].stamp <= clock
      BY <1>4, <1>5
    <3>2. slot'[n].stamp \in Nat
      BY DEF SlotType
    <3> QED
      BY <1>3, <1>4, <2>1, <3>1, <3>2
  <2>2. CASE m # i
    <3>1. slot'[m] = slot[m] /\ InTable(m)
      BY <1>4, <2>2 DEF InTable
    <3>2. ~Newest(m, h)
      BY ZenonT(60), <1>2, <1>3, NodeFacts, LinkTypes
    <3>3. ~IsDeleted(next_slot[m]) /\ slot[m].hashed # h
      BY <1>2, <3>1, <3>2 DEF Newest
    <3>4. n # i
      BY <1>4, <3>1, <3>3
    <3>5. slot'[n] = slot[n] /\ InTable(n)
      BY <1>4, <3>4 DEF InTable
    <3> QED
      BY <3>1, <3>3, <3>5 DEF TableInv, NewestLatest
  <2> QED
    BY <2>1, <2>2
<1>11. ASSUME NEW u \in Threads PROVE Tracked(u)'
  <2>1. CASE u = t
    <3>1. pc'[t] = "lock" /\ call'[t].hashed = h /\ call'[t].stamp = clock + 1
      BY <1>1 DEF CallType
    <3> QED
      BY <1>1, <1>3, <1>4, <2>1, <3>1 DEF Tracked
  <2>2. CASE u # t
    <3>1. /\ pc'[u] = pc[u] /\ call'[u] = call[u]
          /\ slot_idx'[u] = slot_idx[u] /\ cur_slot'[u] = cur_slot[u]
          /\ slot_idx[u] \in Slots /\ cur_slot[u] \in Slots
          /\ call[u].stamp \in Nat
      BY <1>1, <2>2 DEF CallType
    <3>2. Tracked(u)
      BY DEF TableInv
    <3>3. pc[u] # "free"
      BY <1>1 DEF QueueInv, ResetQuiescent, Resetting, Owning
    <3>4. pc[u] \in Owning => slot_idx[u] # i
      BY <1>1, <2>2 DEF QueueInv, SlotOwnership, Owning
    <3>5. pc[u] \in {"fill", "insert"} => Unused(slot_idx[u])'
      BY <1>6, <3>1, <3>2, <3>4 DEF Tracked, Unused, InTable, Owning
    <3>6. pc[u] \in {"insert", "lock", "walk", "write", "finish"} =>
            slot'[slot_idx[u]] = slot[slot_idx[u]]
      BY <1>4, <3>1, <3>4 DEF Owning
    <3>7. pc[u] \in {"walk", "write"} => slot'[cur_slot[u]] = slot[cur_slot[u]]
      <4> SUFFICES ASSUME pc[u] \in {"walk", "write"} PROVE cur_slot[u] # i
        BY <1>4, <3>1
      <4>1. slot[cur_slot[u]].stamp >= call[u].stamp /\ call[u].stamp > 0
        BY <3>2 DEF Tracked
      <4> QED
        BY <1>3, <1>5, <3>1, <4>1 DEF Unused
    <3> QED
      BY <3>1, <3>2, <3>3, <3>5, <3>6, <3>7 DEF Tracked
  <2> QED
    BY <2>1, <2>2
<1> QED
  BY <1>7, <1>8, <1>9, <1>10, <1>11 DEF TableInv

\* The memset of a reset: no call is between its claim and its finish.
LEMMA TableClear ==
  ASSUME TypeInv, TypeInv', QueueInv, TableInv, NEW t \in Threads, ClearSlots(t)
  PROVE  TableInv'
<1> USE DEF TypeInv, TypeOK
<1>1. /\ pc[t] = "slots" /\ pc' = [pc EXCEPT ![t] = "free"]
      /\ clock' = clock
      /\ \A i \in Slots : slot'[i] = ClearSlot /\ next_slot'[i] = Plain(Null)
  BY NodeFacts DEF ClearSlots, Goto
<1>2. \A i \in Slots : Unused(i)' /\ ~InTable(i)' /\ slot'[i].stamp = 0
  BY <1>1, LinkTypes DEF Unused, InTable, ClearSlot
<1>3. FreeUnused' /\ StampBound' /\ Chain' /\ NewestLatest'
  BY <1>1, <1>2 DEF FreeUnused, StampBound, Chain, NewestLatest, Unused
<1>4. ASSUME NEW u \in Threads PROVE Tracked(u)'
  <2>1. pc'[u] \notin Owning
    BY <1>1 DEF QueueInv, ResetQuiescent, Resetting, Owning
  <2> QED
    BY <1>2, <2>1 DEF Tracked, Owning
<1> QED
  BY <1>3, <1>4 DEF TableInv

\* The slots are given out again only when all of them are unused.
LEMMA TableFree ==
  ASSUME TypeInv, TypeInv', QueueInv, TableInv, NEW t \in Threads, FreeSlots(t)
  PROVE  TableInv'
<1> USE DEF TypeInv, TypeOK
<1>1. /\ pc[t] = "free" /\ pc' = [pc EXCEPT ![t] = "return"]
      /\ UNCHANGED <<call, slot_idx, cur_slot, slot, next_slot, clock>>
  BY DEF FreeSlots, Goto
<1>2. \A i \in Slots : Unused(i) /\ Unused(i)'
  BY <1>1 DEF TableInv, Tracked, Unused
<1>3. FreeUnused' /\ StampBound' /\ Chain' /\ NewestLatest'
  BY <1>1, <1>2
     DEF TableInv, FreeUnused, StampBound, Chain, NewestLatest, InTable
<1>4. ASSUME NEW u \in Threads PROVE Tracked(u)'
  <2>1. pc'[u] \notin Owning
    BY <1>1 DEF QueueInv, ResetQuiescent, Resetting, Owning
  <2> QED
    BY <1>2, <2>1 DEF Tracked, Owning
<1> QED
  BY <1>3, <1>4 DEF TableInv

\* Every step keeps the order the table's links stand for.
LEMMA TableNext ==
  TypeInv /\ TypeInv' /\ QueueInv /\ TableInv /\ [Next]_rpliVars => TableInv'
<1> SUFFICES ASSUME TypeInv, TypeInv', QueueInv, TableInv, [Next]_rpliVars
             PROVE  TableInv'
  OBVIOUS
<1>1. CASE UNCHANGED rpliVars
  BY <1>1 DEF rpliVars, TableInv, FreeUnused, StampBound, Chain, NewestLatest,
              Tracked, Unused, InTable
<1> QED
  BY <1>1, TableQuiet, TableFill, TableInsert, TableEnter, TableWalk,
     TableWrite, TableClear, TableFree DEF Next, Step, Critical, Terminated

\* The layers so far hold in every reachable state.
LEMMA TableCorrect == Spec => [](TypeInv /\ QueueInv /\ TableInv)
<1>1. Init => TypeInv /\ QueueInv /\ TableInv
  BY TypeInit, QueueInit, TableInit
<1>2. TypeInv /\ QueueInv /\ TableInv /\ [Next]_rpliVars
      => (TypeInv /\ QueueInv /\ TableInv)'
  BY TypeNext, QueueNext, TableNext
<1> QED
  BY <1>1, <1>2, PTL DEF Spec

\* assert(false) of the walk in rsdco_request_to_rpli never fires.
THEOREM AbortFree == Spec => []NoAbort
<1>1. TableInv => NoAbort
  BY DEF TableInv, Tracked, NoAbort
<1> QED
  BY TableCorrect, <1>1, PTL


----------------------------------------------------------------------------
(* Order                                                                   *)

\* A walking or writing thread stands on a request in the table that has its
\* key and is not older than its own.
LEMMA WalkStands ==
  ASSUME TypeInv, TableInv, NEW u \in Threads, pc[u] \in {"walk", "write"}
  PROVE  /\ cur_slot[u] \in Slots /\ slot_idx[u] \in Slots
         /\ InTable(cur_slot[u]) /\ InTable(slot_idx[u])
         /\ slot[cur_slot[u]].hashed = call[u].hashed
         /\ slot[cur_slot[u]].stamp >= call[u].stamp
         /\ slot[slot_idx[u]].hashed = call[u].hashed
         /\ slot[slot_idx[u]].stamp = call[u].stamp
<1>1. Tracked(u)
  BY DEF TableInv
<1>2. /\ cur_slot[u] \in Slots /\ slot_idx[u] \in Slots
      /\ call[u].stamp \in Nat /\ slot[cur_slot[u]].stamp \in Nat
  BY DEF TypeInv, TypeOK, CallType, SlotType
<1> QED
  BY <1>1, <1>2 DEF Tracked, InTable

\* The log is empty at the start.
LEMMA OrderInit == Init => OrderInv
  BY DEF Init, OrderInv, LogBound, LogBehind, WriteLater, KeyOrder, InTable,
     ClearSlot

\* A step that writes nothing to the log keeps the order if each newest request
\* was one before or was inserted by the step, and each thread about to write
\* was about to write before or stands on what was a newest request.
LEMMA OrderFrame ==
  ASSUME TypeInv, TypeInv', OrderInv,
         log' = log, clock' >= clock,
         \A i \in Slots : InTable(i)' /\ ~IsDeleted(next_slot'[i]) =>
           \/ slot'[i].stamp > clock
           \/ /\ InTable(i) /\ ~IsDeleted(next_slot[i])
              /\ slot'[i].hashed = slot[i].hashed
              /\ slot'[i].stamp = slot[i].stamp,
         \A u \in Threads : pc'[u] = "write" =>
           /\ slot'[cur_slot'[u]].stamp = slot[cur_slot'[u]].stamp
           /\ call'[u].hashed = call[u].hashed
           /\ \/ pc[u] = "write" /\ cur_slot'[u] = cur_slot[u]
              \/ /\ InTable(cur_slot'[u])
                 /\ ~IsDeleted(next_slot[cur_slot'[u]])
                 /\ slot[cur_slot'[u]].hashed = call[u].hashed
  PROVE  OrderInv'
<1>1. /\ clock \in Nat /\ clock' \in Nat
      /\ \A k \in 1 .. Len(log) : log[k].stamp \in Nat
      /\ \A i \in Slots : slot[i].stamp \in Nat /\ slot'[i].stamp \in Nat
      /\ \A u \in Threads : cur_slot'[u] \in Slots
  <2>1. \A k \in 1 .. Len(log) : log[k] \in EntryType
    BY DEF TypeInv, TypeOK
  <2>2. \A i \in Slots : slot[i] \in SlotType /\ slot'[i] \in SlotType
    BY DEF TypeInv, TypeOK
  <2>3. clock \in Nat /\ clock' \in Nat
    BY DEF TypeInv, TypeOK
  <2>4. \A u \in Threads : cur_slot'[u] \in Slots
    BY DEF TypeInv, TypeOK
  <2> QED
    BY <2>1, <2>2, <2>3, <2>4 DEF EntryType, SlotType
<1>2. \A k \in 1 .. Len(log) : log[k].stamp <= clock
  BY DEF OrderInv, LogBound
<1>3. LogBound'
  BY <1>1, <1>2 DEF LogBound
<1>4. LogBehind'
  <2> SUFFICES ASSUME NEW k \in 1 .. Len(log), NEW i \in Slots,
                      InTable(i)', ~IsDeleted(next_slot'[i]),
                      log[k].hashed = slot'[i].hashed
               PROVE  log[k].stamp <= slot'[i].stamp
    BY DEF LogBehind
  <2>1. CASE slot'[i].stamp > clock
    BY <1>1, <1>2, <2>1
  <2>2. CASE /\ InTable(i) /\ ~IsDeleted(next_slot[i])
             /\ slot'[i].hashed = slot[i].hashed
             /\ slot'[i].stamp = slot[i].stamp
    BY <2>2 DEF OrderInv, LogBehind
  <2> QED
    BY <2>1, <2>2
<1>5. WriteLater'
  <2> SUFFICES ASSUME NEW u \in Threads, pc'[u] = "write",
                      NEW k \in 1 .. Len(log), log[k].hashed = call'[u].hashed
               PROVE  log[k].stamp <= slot'[cur_slot'[u]].stamp
    BY DEF WriteLater
  <2>1. CASE pc[u] = "write" /\ cur_slot'[u] = cur_slot[u]
    BY <2>1 DEF OrderInv, WriteLater
  <2>2. CASE /\ InTable(cur_slot'[u])
             /\ ~IsDeleted(next_slot[cur_slot'[u]])
             /\ slot[cur_slot'[u]].hashed = call[u].hashed
    BY <1>1, <2>2 DEF OrderInv, LogBehind
  <2> QED
    BY <2>1, <2>2
<1>6. KeyOrder'
  BY DEF OrderInv, KeyOrder
<1> QED
  BY <1>3, <1>4, <1>5, <1>6 DEF OrderInv

\* The steps that change no slot.
LEMMA OrderQuiet ==
  ASSUME TypeInv, TypeInv', TableInv, OrderInv, NEW t \in Threads,
         \/ Call(t) \/ Claim(t) \/ Finish(t) \/ ResetBuckets(t)
         \/ FreeSlots(t) \/ Return(t)
  PROVE  OrderInv'
<1> USE DEF TypeInv, TypeOK, Goto
<1>1. \A i \in Slots : slot'[i] = slot[i] /\ next_slot'[i] = next_slot[i]
  BY NodeFacts DEF Call, Claim, Finish, ResetBuckets, FreeSlots, Return
<1>2. log' = log /\ clock' >= clock
  BY DEF Call, Claim, Finish, ResetBuckets, FreeSlots, Return
<1>3. ASSUME NEW u \in Threads, pc'[u] = "write"
      PROVE  pc[u] = "write" /\ cur_slot'[u] = cur_slot[u] /\ call'[u] = call[u]
  <2>1. u # t
    BY <1>3 DEF Call, Claim, Finish, ResetBuckets, FreeSlots, Return
  <2> QED
    BY <1>3, <2>1 DEF Call, Claim, Finish, ResetBuckets, FreeSlots, Return
<1>4. \A u \in Threads : cur_slot'[u] \in Slots
  OBVIOUS
<1> HIDE DEF TypeInv
<1> QED
  BY <1>1, <1>2, <1>3, <1>4, OrderFrame DEF InTable

\* A filled slot is not in the table yet, and no writer stands on it.
LEMMA OrderFill ==
  ASSUME TypeInv, TypeInv', TableInv, OrderInv, NEW t \in Threads, Fill(t)
  PROVE  OrderInv'
<1> USE DEF TypeInv, TypeOK
<1> DEFINE i == slot_idx[t]
<1>1. /\ pc[t] = "fill" /\ pc' = [pc EXCEPT ![t] = "insert"]
      /\ slot' = [slot EXCEPT ![i] = [hashed |-> call[t].hashed,
                                      is_ready |-> TRUE, stamp |-> 0]]
      /\ UNCHANGED <<call, cur_slot, next_slot, log, clock>>
  BY DEF Fill, Goto
<1>2. i \in Slots /\ slot[i].stamp = 0 /\ slot'[i].stamp = 0
  BY <1>1 DEF TableInv, Tracked, Unused
<1>3. \A j \in Slots \ {i} : slot'[j] = slot[j]
  BY <1>1
<1>4. \A u \in Threads : pc'[u] = "write" => pc[u] = "write"
  BY <1>1
<1>5. clock' >= clock /\ \A u \in Threads : cur_slot[u] \in Slots
  BY <1>1
<1> HIDE DEF TypeInv
<1> QED
  BY <1>1, <1>2, <1>3, <1>4, <1>5, OrderFrame DEF InTable

\* An inserted request has a stamp above every other.
LEMMA OrderInsert ==
  ASSUME TypeInv, TypeInv', TableInv, OrderInv, NEW t \in Threads, TryInsert(t)
  PROVE  OrderInv'
<1> USE DEF TypeInv, TypeOK
<1> DEFINE i == slot_idx[t]
<1>1. /\ pc[t] = "insert" /\ pc' = [pc EXCEPT ![t] = "lock"]
      /\ slot' = [slot EXCEPT ![i].stamp = clock + 1]
      /\ call' = [call EXCEPT ![t].stamp = clock + 1]
      /\ clock' = clock + 1
      /\ UNCHANGED <<cur_slot, log>>
  BY DEF TryInsert, Inserted, Goto
<1>2. /\ i \in Slots /\ slot[i].stamp = 0 /\ slot'[i].stamp = clock + 1
      /\ clock \in Nat
  BY <1>1 DEF TableInv, Tracked, Unused, SlotType
<1>3. \A j \in Slots \ {i} : slot'[j] = slot[j]
  BY <1>1
<1>4. \A n \in Slots : ~IsDeleted(next_slot'[n]) => next_slot'[n] = next_slot[n]
  BY NodeFacts, LinkTypes DEF TryInsert
<1>5. ASSUME NEW u \in Threads, pc'[u] = "write"
      PROVE  /\ pc[u] = "write" /\ cur_slot'[u] = cur_slot[u]
             /\ call'[u].hashed = call[u].hashed
             /\ cur_slot[u] \in Slots \ {i}
  <2>1. pc[u] = "write" /\ u # t
    BY <1>1, <1>5
  <2>2. InTable(cur_slot[u]) /\ cur_slot[u] \in Slots
    BY <2>1, WalkStands
  <2> QED
    BY <1>1, <1>2, <2>1, <2>2 DEF InTable
<1>6. clock' >= clock /\ slot'[i].stamp > clock
  BY <1>1, <1>2
<1> HIDE DEF TypeInv
<1> QED
  BY <1>1, <1>3, <1>4, <1>5, <1>6, OrderFrame DEF InTable

\* A thread goes on to write its own request when that is its key's newest.
LEMMA OrderEnter ==
  ASSUME TypeInv, TypeInv', TableInv, OrderInv, NEW t \in Threads, Enter(t)
  PROVE  OrderInv'
<1> USE DEF TypeInv, TypeOK
<1> DEFINE i == slot_idx[t]
<1>1. /\ pc[t] = "lock" /\ cur_slot' = [cur_slot EXCEPT ![t] = i]
      /\ UNCHANGED <<call, slot, next_slot, log, clock>>
  BY DEF Enter
<1>2. \A u \in Threads \ {t} : pc'[u] = pc[u] /\ cur_slot'[u] = cur_slot[u]
  BY DEF Enter, Goto
<1>3. pc'[t] = "write" => ~IsDeleted(next_slot[i])
  BY <1>1 DEF Enter, Goto
<1>4. /\ InTable(i) /\ slot[i].hashed = call[t].hashed
      /\ cur_slot'[t] = i /\ clock' >= clock
  BY <1>1 DEF TableInv, Tracked, InTable
<1> HIDE DEF TypeInv
<1> QED
  BY <1>1, <1>2, <1>3, <1>4, OrderFrame DEF InTable

\* A walk ends on the newest request of the key.
LEMMA OrderWalk ==
  ASSUME TypeInv, TypeInv', TableInv, OrderInv, NEW t \in Threads, Walk(t)
  PROVE  OrderInv'
<1> USE DEF TypeInv, TypeOK
<1> DEFINE cur == cur_slot[t]
<1>1. /\ pc[t] = "walk" /\ cur \in Slots
      /\ UNCHANGED <<call, next_slot, log, clock>>
  BY DEF Walk
<1>2. \A u \in Threads \ {t} : pc'[u] = pc[u] /\ cur_slot'[u] = cur_slot[u]
  BY DEF Walk, Goto
<1>3. \A j \in Slots : /\ slot'[j].stamp = slot[j].stamp
                       /\ slot'[j].hashed = slot[j].hashed
  <2>1. CASE slot' = slot
    BY <2>1
  <2>2. CASE slot' = [slot EXCEPT ![cur].is_ready = FALSE]
    BY <1>1, <2>2 DEF SlotType
  <2> QED
    BY <2>1, <2>2 DEF Walk
<1>4. InTable(cur) /\ slot[cur].hashed = call[t].hashed
  BY <1>1, WalkStands
<1>5. pc'[t] = "write" => cur_slot'[t] = cur /\ ~IsDeleted(next_slot[cur])
  <2> SUFFICES ASSUME IsDeleted(next_slot[cur]) PROVE pc'[t] # "write"
    BY DEF Walk
  <2>1. next_slot[cur].ref \in Slots
    BY <1>1 DEF DeletedToSlot
  <2>2. next_slot[cur].ref # BucketHead(call[t].hashed)
    <3>1. call[t].hashed \in Nat
      BY DEF CallType
    <3>2. BucketHead(call[t].hashed) \notin Slots
      BY <3>1, RpliAssumption, NodeFacts DEF BucketHead
    <3> QED
      BY <2>1, <3>2
  <2> QED
    BY <1>1, <2>2 DEF Walk
<1>6. clock' >= clock /\ \A u \in Threads : cur_slot'[u] \in Slots
  BY <1>1
<1> HIDE DEF TypeInv
<1> QED
  BY <1>1, <1>2, <1>3, <1>4, <1>5, <1>6, OrderFrame DEF InTable

\* After the memset the table is empty, and nobody was about to write.
LEMMA OrderClear ==
  ASSUME TypeInv, TypeInv', QueueInv, OrderInv, NEW t \in Threads, ClearSlots(t)
  PROVE  OrderInv'
<1> USE DEF TypeInv, TypeOK
<1>1. /\ pc[t] = "slots" /\ pc' = [pc EXCEPT ![t] = "free"]
      /\ \A i \in Slots : slot'[i] = ClearSlot
      /\ UNCHANGED <<log, clock>>
  BY DEF ClearSlots, Goto
<1>2. \A i \in Slots : ~InTable(i)'
  BY <1>1 DEF InTable, ClearSlot
<1>3. \A u \in Threads : pc'[u] # "write"
  BY <1>1 DEF QueueInv, ResetQuiescent, Resetting, Owning
<1>4. clock' >= clock
  BY <1>1
<1> HIDE DEF TypeInv
<1> QED
  BY <1>1, <1>2, <1>3, <1>4, OrderFrame

\* What is written is not older than anything of its key in the log, and not
\* newer than the key's newest request.
LEMMA OrderWrite ==
  ASSUME TypeInv, TypeInv', QueueInv, TableInv, OrderInv, NEW t \in Threads,
         Write(t)
  PROVE  OrderInv'
<1> DEFINE cur == cur_slot[t]
           entry == [hashed |-> call[t].hashed, msg |-> MsgOf(t),
                     stamp |-> slot[cur].stamp]
<1>1. /\ pc[t] = "write" /\ pc' = [pc EXCEPT ![t] = "finish"]
      /\ UNCHANGED <<call, cur_slot, next_slot, clock>>
  BY DEF Write, Goto
<1>2. /\ cur \in Slots /\ InTable(cur) /\ slot[cur].hashed = call[t].hashed
  BY <1>1, WalkStands
<1>3. log' = Append(log, entry)
  BY <1>2 DEF Write, StampOf
<1>4. \A j \in Slots : /\ slot'[j].stamp = slot[j].stamp
                       /\ slot'[j].hashed = slot[j].hashed
  <2>1. \A j \in Slots : slot'[j] = IF j \in {slot_idx[t], cur_slot[t]}
                                      THEN [slot[j] EXCEPT !.is_ready = FALSE]
                                      ELSE slot[j]
    BY DEF Write
  <2>2. \A j \in Slots : slot[j] \in SlotType
    BY DEF TypeInv, TypeOK
  <2> QED
    BY <2>1, <2>2 DEF SlotType
<1>5. /\ Len(log') = Len(log) + 1 /\ Len(log) \in Nat
      /\ \A k \in 1 .. Len(log) : log'[k] = log[k]
      /\ log'[Len(log) + 1] = entry
  BY <1>3 DEF TypeInv, TypeOK
<1>6. \A k \in 1 .. Len(log') : k \in 1 .. Len(log) \/ k = Len(log) + 1
  BY <1>5
<1>7. LogBound'
  <2>1. \A k \in 1 .. Len(log) : log[k].stamp <= clock
    BY DEF OrderInv, LogBound
  <2>2. slot[cur].stamp <= clock
    BY <1>2 DEF TableInv, StampBound
  <2> QED
    BY <1>1, <1>5, <1>6, <2>1, <2>2 DEF LogBound
<1>8. LogBehind'
  <2> SUFFICES ASSUME NEW k \in 1 .. Len(log'), NEW i \in Slots,
                      InTable(i)', ~IsDeleted(next_slot'[i]),
                      log'[k].hashed = slot'[i].hashed
               PROVE  log'[k].stamp <= slot'[i].stamp
    BY DEF LogBehind
  <2>1. InTable(i) /\ ~IsDeleted(next_slot[i])
    BY <1>1, <1>4 DEF InTable
  <2>2. CASE k \in 1 .. Len(log)
    BY <1>4, <1>5, <2>1, <2>2 DEF OrderInv, LogBehind
  <2>3. CASE k = Len(log) + 1
    <3>1. slot[cur].hashed = slot[i].hashed
      BY <1>2, <1>4, <1>5, <2>3
    <3>2. slot[cur].stamp <= slot[i].stamp
      BY <1>2, <2>1, <3>1 DEF TableInv, NewestLatest
    <3> QED
      BY <1>4, <1>5, <2>3, <3>2
  <2> QED
    BY <1>6, <2>2, <2>3
<1>9. WriteLater'
  <2>1. \A u \in Threads : u # t => pc[u] # "write"
    BY <1>1 DEF QueueInv, MutexHeld, InMutex
  <2>2. \A u \in Threads : pc'[u] # "write"
    BY <1>1, <2>1 DEF TypeInv, TypeOK
  <2> QED
    BY <2>2 DEF WriteLater
<1>10. KeyOrder'
  <2> SUFFICES ASSUME NEW i \in 1 .. Len(log'), NEW j \in 1 .. Len(log'),
                      i < j, log'[i].hashed = log'[j].hashed
               PROVE  log'[i].stamp <= log'[j].stamp
    BY DEF KeyOrder
  <2>1. i \in 1 .. Len(log)
    BY <1>5
  <2>2. CASE j \in 1 .. Len(log)
    BY <1>5, <2>1, <2>2 DEF OrderInv, KeyOrder
  <2>3. CASE j = Len(log) + 1
    <3>1. log[i].hashed = call[t].hashed
      BY <1>5, <2>1, <2>3
    <3>2. log[i].stamp <= slot[cur].stamp
      BY <1>1, <2>1, <3>1 DEF OrderInv, WriteLater
    <3> QED
      BY <1>5, <2>1, <2>3, <3>2
  <2> QED
    BY <1>6, <2>2, <2>3
<1> QED
  BY <1>7, <1>8, <1>9, <1>10 DEF OrderInv

\* Every step keeps the log behind the table, key by key.
LEMMA OrderNext ==
  TypeInv /\ TypeInv' /\ QueueInv /\ TableInv /\ OrderInv /\ [Next]_rpliVars
  => OrderInv'
<1> SUFFICES ASSUME TypeInv, TypeInv', QueueInv, TableInv, OrderInv,
                    [Next]_rpliVars
             PROVE  OrderInv'
  OBVIOUS
<1>1. CASE UNCHANGED rpliVars
  BY <1>1 DEF rpliVars, OrderInv, LogBound, LogBehind, WriteLater, KeyOrder,
              InTable
<1> QED
  BY <1>1, OrderQuiet, OrderFill, OrderInsert, OrderEnter, OrderWalk,
     OrderWrite, OrderClear DEF Next, Step, Critical, Terminated

\* Four layers hold in every reachable state.
LEMMA OrderCorrect == Spec => [](TypeInv /\ QueueInv /\ TableInv /\ OrderInv)
<1>1. Init => TypeInv /\ QueueInv /\ TableInv /\ OrderInv
  BY TypeInit, QueueInit, TableInit, OrderInit
<1>2. TypeInv /\ QueueInv /\ TableInv /\ OrderInv /\ [Next]_rpliVars
      => (TypeInv /\ QueueInv /\ TableInv /\ OrderInv)'
  BY TypeNext, QueueNext, TableNext, OrderNext
<1> QED
  BY <1>1, <1>2, PTL DEF Spec

\* Requests of one key reach the replication log in the order of insertion.
THEOREM KeyOrderCorrect == Spec => []KeyOrder
<1>1. OrderInv => KeyOrder
  BY DEF OrderInv
<1> QED
  BY OrderCorrect, <1>1, PTL

----------------------------------------------------------------------------
(* Durability                                                              *)

\* The labels of a thread that has dealt with its request.
Done == {"finish", "buckets", "slots", "free", "return"}

\* No request is in the table, and no call is over, at the start.
LEMMA CoverInit == Init => CoverInv
  BY DEF Init, CoverInv, NotReadyCovered, DoneCovered, Durable, InTable,
     ClearSlot

\* A step that writes nothing to the log and ends no call keeps requests
\* covered if it takes no ready flag away, no walk steps back, and no thread
\* gets done.
LEMMA CoverFrame ==
  ASSUME TypeInv, TypeInv', CoverInv,
         UNCHANGED <<log, returned>>,
         \A i \in Slots : InTable(i)' /\ ~slot'[i].is_ready =>
           /\ InTable(i) /\ ~slot[i].is_ready
           /\ slot'[i].hashed = slot[i].hashed
           /\ slot'[i].stamp = slot[i].stamp,
         \A u \in Threads : pc[u] \in {"walk", "write"} =>
           /\ pc'[u] \in {"walk", "write"} /\ call'[u] = call[u]
           /\ slot'[cur_slot'[u]].stamp = slot[cur_slot[u]].stamp,
         \A u \in Threads : pc'[u] \in Done =>
           pc[u] \in Done /\ call'[u] = call[u]
  PROVE  CoverInv'
<1>1. \A h, x : Covered(h, x) => Covered(h, x)'
  BY DEF Covered
<1>2. NotReadyCovered'
  <2> SUFFICES ASSUME NEW i \in Slots, InTable(i)', ~slot'[i].is_ready
               PROVE  \/ Covered(slot[i].hashed, slot[i].stamp)'
                      \/ \E u \in Threads :
                           /\ pc'[u] \in {"walk", "write"}
                           /\ call'[u].hashed = slot'[i].hashed
                           /\ slot'[cur_slot'[u]].stamp >= slot'[i].stamp
    BY DEF NotReadyCovered
  <2>1. \/ Covered(slot[i].hashed, slot[i].stamp)
        \/ \E u \in Threads : /\ pc[u] \in {"walk", "write"}
                              /\ call[u].hashed = slot[i].hashed
                              /\ slot[cur_slot[u]].stamp >= slot[i].stamp
    BY DEF CoverInv, NotReadyCovered
  <2> QED
    BY <1>1, <2>1
<1>3. DoneCovered'
  BY <1>1 DEF CoverInv, DoneCovered, Done
<1>4. Durable'
  BY DEF CoverInv, Durable
<1> QED
  BY <1>2, <1>3, <1>4 DEF CoverInv

\* The steps that neither walk, write, enter nor leave the mutex.
LEMMA CoverQuiet ==
  ASSUME TypeInv, TypeInv', QueueInv, TableInv, CoverInv, NEW t \in Threads,
         \/ Call(t) \/ Claim(t) \/ Finish(t) \/ ResetBuckets(t) \/ FreeSlots(t)
  PROVE  CoverInv'
<1> USE DEF TypeInv, TypeOK, Goto
<1>1. UNCHANGED <<slot, log, returned>>
  BY DEF Call, Claim, Finish, ResetBuckets, FreeSlots
<1>2. \A u \in Threads \ {t} : /\ pc'[u] = pc[u] /\ call'[u] = call[u]
                               /\ cur_slot'[u] = cur_slot[u]
  BY DEF Call, Claim, Finish, ResetBuckets, FreeSlots
<1>3. /\ pc[t] \notin {"walk", "write"}
      /\ pc'[t] \in Done => pc[t] \in Done /\ call'[t] = call[t]
  BY DEF Call, Claim, Finish, ResetBuckets, FreeSlots, Done
<1> HIDE DEF TypeInv
<1> QED
  BY <1>1, <1>2, <1>3, CoverFrame DEF InTable

\* A filled slot is ready, and no walk stands on it.
LEMMA CoverFill ==
  ASSUME TypeInv, TypeInv', TableInv, CoverInv, NEW t \in Threads, Fill(t)
  PROVE  CoverInv'
<1> USE DEF TypeInv, TypeOK
<1> DEFINE i == slot_idx[t]
<1>1. /\ pc[t] = "fill" /\ pc' = [pc EXCEPT ![t] = "insert"]
      /\ slot' = [slot EXCEPT ![i] = [hashed |-> call[t].hashed,
                                      is_ready |-> TRUE, stamp |-> 0]]
      /\ UNCHANGED <<call, cur_slot, log, returned>>
  BY DEF Fill, Goto
<1>2. i \in Slots /\ slot[i].stamp = 0 /\ slot'[i].is_ready
  BY <1>1 DEF TableInv, Tracked, Unused
<1>3. \A j \in Slots \ {i} : slot'[j] = slot[j]
  BY <1>1
<1>4. ASSUME NEW u \in Threads, pc[u] \in {"walk", "write"}
      PROVE  /\ pc'[u] = pc[u]
             /\ slot'[cur_slot'[u]].stamp = slot[cur_slot[u]].stamp
  <2>1. InTable(cur_slot[u]) /\ cur_slot[u] \in Slots
    BY <1>4, WalkStands
  <2> QED
    BY <1>1, <1>2, <1>3, <1>4, <2>1 DEF InTable
<1>5. \A u \in Threads : pc'[u] \in Done => pc[u] \in Done
  BY <1>1 DEF Done
<1> HIDE DEF TypeInv
<1> QED
  BY <1>1, <1>2, <1>3, <1>4, <1>5, CoverFrame DEF InTable

\* An inserted request is ready.
LEMMA CoverInsert ==
  ASSUME TypeInv, TypeInv', TableInv, CoverInv, NEW t \in Threads, TryInsert(t)
  PROVE  CoverInv'
<1> USE DEF TypeInv, TypeOK
<1> DEFINE i == slot_idx[t]
<1>1. /\ pc[t] = "insert" /\ pc' = [pc EXCEPT ![t] = "lock"]
      /\ slot' = [slot EXCEPT ![i].stamp = clock + 1]
      /\ call' = [call EXCEPT ![t].stamp = clock + 1]
      /\ UNCHANGED <<cur_slot, log, returned>>
  BY DEF TryInsert, Inserted, Goto
<1>2. i \in Slots /\ slot[i].stamp = 0 /\ slot[i].is_ready
  BY <1>1 DEF TableInv, Tracked, Unused
<1>3. slot'[i].is_ready /\ \A j \in Slots \ {i} : slot'[j] = slot[j]
  BY <1>1, <1>2 DEF SlotType
<1>4. ASSUME NEW u \in Threads, pc[u] \in {"walk", "write"}
      PROVE  /\ pc'[u] = pc[u] /\ call'[u] = call[u]
             /\ slot'[cur_slot'[u]].stamp = slot[cur_slot[u]].stamp
  <2>1. InTable(cur_slot[u]) /\ cur_slot[u] \in Slots
    BY <1>4, WalkStands
  <2> QED
    BY <1>1, <1>2, <1>3, <1>4, <2>1 DEF InTable
<1>5. \A u \in Threads : pc'[u] \in Done => pc[u] \in Done /\ call'[u] = call[u]
  BY <1>1 DEF Done
<1>6. UNCHANGED <<log, returned>>
  BY <1>1
<1> HIDE DEF TypeInv
<1> QED
  BY <1>3, <1>4, <1>5, <1>6, CoverFrame DEF InTable

\* After the memset no request is in the table.
LEMMA CoverClear ==
  ASSUME TypeInv, TypeInv', QueueInv, CoverInv, NEW t \in Threads, ClearSlots(t)
  PROVE  CoverInv'
<1> USE DEF TypeInv, TypeOK
<1>1. /\ pc[t] = "slots" /\ pc' = [pc EXCEPT ![t] = "free"]
      /\ \A i \in Slots : slot'[i] = ClearSlot
      /\ UNCHANGED <<call, log, returned>>
  BY DEF ClearSlots, Goto
<1>2. \A i \in Slots : ~InTable(i)'
  BY <1>1 DEF InTable, ClearSlot
<1>3. \A u \in Threads : pc[u] \notin {"walk", "write"}
  BY <1>1 DEF QueueInv, ResetQuiescent, Resetting, Owning
<1>4. \A u \in Threads : pc'[u] \in Done => pc[u] \in Done
  BY <1>1 DEF Done
<1> HIDE DEF TypeInv
<1> QED
  BY <1>1, <1>2, <1>3, <1>4, CoverFrame

\* A thread that finds its request not ready finds it covered: nobody else is
\* between a walk and its write.
LEMMA CoverEnter ==
  ASSUME TypeInv, TypeInv', QueueInv, TableInv, CoverInv, NEW t \in Threads,
         Enter(t)
  PROVE  CoverInv'
<1> USE DEF TypeInv, TypeOK
<1> DEFINE i == slot_idx[t]
<1>1. /\ pc[t] = "lock" /\ mtx = NoThread
      /\ UNCHANGED <<call, slot, log, returned>>
  BY DEF Enter
<1>2. \A u \in Threads \ {t} : pc'[u] = pc[u]
  BY DEF Enter, Goto
<1>3. \A u \in Threads : pc[u] \notin InMutex
  BY <1>1, RpliAssumption DEF QueueInv, MutexHeld
<1>4. \A u \in Threads : pc[u] \notin {"walk", "write"}
  BY <1>3 DEF InMutex
<1>5. \A j \in Slots : InTable(j) /\ ~slot[j].is_ready =>
                         Covered(slot[j].hashed, slot[j].stamp)
  BY <1>4 DEF CoverInv, NotReadyCovered
<1>6. \A h, x : Covered(h, x)' <=> Covered(h, x)
  BY <1>1 DEF Covered
<1>7. NotReadyCovered'
  BY <1>1, <1>5, <1>6 DEF NotReadyCovered, InTable
<1>8. pc'[t] = "finish" => Covered(call[t].hashed, call[t].stamp)
  <2> SUFFICES ASSUME pc'[t] = "finish"
               PROVE  Covered(call[t].hashed, call[t].stamp)
    OBVIOUS
  <2>1. ~slot[i].is_ready
    BY DEF Enter, Goto
  <2>2. /\ slot[i].hashed = call[t].hashed /\ slot[i].stamp = call[t].stamp
        /\ InTable(i) /\ i \in Slots
    BY <1>1 DEF TableInv, Tracked, InTable
  <2> QED
    BY <1>5, <2>1, <2>2
<1>9. pc'[t] \in {"walk", "write", "finish"}
  BY DEF Enter, Goto
<1>10. DoneCovered'
  <2> SUFFICES ASSUME NEW u \in Threads, pc'[u] \in Done
               PROVE  Covered(call[u].hashed, call[u].stamp)
    BY <1>1, <1>6 DEF DoneCovered, Done
  <2>1. CASE u = t
    BY <1>8, <1>9, <2>1 DEF Done
  <2>2. CASE u # t
    BY <1>2, <2>2 DEF CoverInv, DoneCovered, Done
  <2> QED
    BY <2>1, <2>2
<1>11. Durable'
  BY <1>1 DEF CoverInv, Durable
<1> QED
  BY <1>7, <1>10, <1>11 DEF CoverInv

\* The request a walk passes, and all it covered before, are older than the one
\* it goes on to.
LEMMA CoverWalk ==
  ASSUME TypeInv, TypeInv', TableInv, CoverInv, NEW t \in Threads, Walk(t)
  PROVE  CoverInv'
<1> USE DEF TypeInv, TypeOK
<1> DEFINE cur == cur_slot[t]
<1>1. /\ pc[t] = "walk" /\ UNCHANGED <<call, next_slot, log, returned>>
  BY DEF Walk
<1>2. /\ cur \in Slots /\ InTable(cur) /\ slot[cur].hashed = call[t].hashed
  BY <1>1, WalkStands
<1>3. CASE IsDeleted(next_slot[cur])
  <2> DEFINE nxt == next_slot[cur].ref
  <2>1. /\ slot' = [slot EXCEPT ![cur].is_ready = FALSE]
        /\ cur_slot' = [cur_slot EXCEPT ![t] = nxt]
    BY <1>3 DEF Walk
  <2>2. PICK label \in {"walk", "write"} : pc' = [pc EXCEPT ![t] = label]
    BY <1>1, <1>3 DEF Walk, Goto
  <2>3. nxt \in Slots /\ slot[nxt].stamp > slot[cur].stamp
    BY <1>2, <1>3 DEF TableInv, Chain, DeletedToSlot
  <2>4. \A j \in Slots : /\ slot'[j].stamp = slot[j].stamp
                         /\ slot'[j].hashed = slot[j].hashed
                         /\ j # cur => slot'[j].is_ready = slot[j].is_ready
    BY <2>1 DEF SlotType
  <2>5. \A j \in Slots : slot[j].stamp \in Nat
    BY DEF SlotType
  <2>6. /\ pc'[t] \in {"walk", "write"} /\ cur_slot'[t] = nxt
        /\ \A u \in Threads \ {t} : pc'[u] = pc[u] /\ cur_slot'[u] = cur_slot[u]
    BY <2>1, <2>2
  <2>7. \A h, x : Covered(h, x) => Covered(h, x)'
    BY <1>1 DEF Covered
  <2>8. NotReadyCovered'
    <3> SUFFICES ASSUME NEW j \in Slots, InTable(j)', ~slot'[j].is_ready
                 PROVE  \/ Covered(slot[j].hashed, slot[j].stamp)'
                        \/ \E u \in Threads :
                             /\ pc'[u] \in {"walk", "write"}
                             /\ call'[u].hashed = slot'[j].hashed
                             /\ slot'[cur_slot'[u]].stamp >= slot'[j].stamp
      BY DEF NotReadyCovered
    <3>1. CASE j = cur
      <4>1. slot'[nxt].stamp >= slot'[j].stamp
        BY <2>3, <2>4, <2>5, <3>1
      <4> QED
        BY ZenonT(60), <1>1, <1>2, <2>4, <2>6, <3>1, <4>1
    <3>2. CASE j # cur /\ Covered(slot[j].hashed, slot[j].stamp)
      BY <2>4, <2>7, <3>2
    <3>3. CASE j # cur /\ ~Covered(slot[j].hashed, slot[j].stamp)
      <4>1. InTable(j) /\ ~slot[j].is_ready
        BY <2>4, <3>3 DEF InTable
      <4>2. PICK u \in Threads : /\ pc[u] \in {"walk", "write"}
                                 /\ call[u].hashed = slot[j].hashed
                                 /\ slot[cur_slot[u]].stamp >= slot[j].stamp
        BY <3>3, <4>1 DEF CoverInv, NotReadyCovered
      <4>3. slot[cur_slot'[u]].stamp >= slot[cur_slot[u]].stamp
        <5>1. cur_slot[u] \in Slots
          OBVIOUS
        <5>2. CASE u = t
          BY <2>3, <2>5, <2>6, <5>1, <5>2
        <5>3. CASE u # t
          BY <2>5, <2>6, <5>1, <5>3
        <5> QED
          BY <5>2, <5>3
      <4>4. slot'[cur_slot'[u]].stamp >= slot'[j].stamp
        <5>1. cur_slot[u] \in Slots /\ cur_slot'[u] \in Slots
          OBVIOUS
        <5> QED
          BY <2>4, <2>5, <4>2, <4>3, <5>1
      <4>5. pc'[u] \in {"walk", "write"} /\ call'[u].hashed = slot'[j].hashed
        BY <1>1, <2>4, <2>6, <4>2
      <4> QED
        BY <4>4, <4>5
    <3> QED
      BY <3>1, <3>2, <3>3
  <2>9. DoneCovered'
    BY <1>1, <2>6, <2>7 DEF CoverInv, DoneCovered
  <2>10. Durable'
    BY <1>1 DEF CoverInv, Durable
  <2> QED
    BY <2>8, <2>9, <2>10 DEF CoverInv
<1>4. CASE ~IsDeleted(next_slot[cur])
  <2>1. pc' = [pc EXCEPT ![t] = "write"] /\ UNCHANGED <<slot, cur_slot>>
    BY <1>2, <1>4 DEF Walk, Goto
  <2>2. /\ pc'[t] = "write" /\ \A u \in Threads \ {t} : pc'[u] = pc[u]
        /\ UNCHANGED <<log, returned>>
    BY <1>1, <2>1
  <2> HIDE DEF TypeInv
  <2> QED
    BY <1>1, <2>1, <2>2, CoverFrame DEF InTable, Done
<1> QED
  BY <1>3, <1>4

\* The written request is not older than any its walk passed, nor than the
\* caller's own.
LEMMA CoverWrite ==
  ASSUME TypeInv, TypeInv', QueueInv, TableInv, CoverInv, NEW t \in Threads,
         Write(t)
  PROVE  CoverInv'
<1> USE DEF TypeInv, TypeOK
<1> DEFINE cur == cur_slot[t]
           i   == slot_idx[t]
           Soon(h, x) == \E k \in 1 .. Len(log') :
                            log'[k].hashed = h /\ log'[k].stamp >= x
<1>1. /\ pc[t] = "write" /\ pc' = [pc EXCEPT ![t] = "finish"]
      /\ UNCHANGED <<call, cur_slot, next_slot, returned>>
  BY DEF Write, Goto
<1>2. \A k \in Slots : /\ slot'[k].hashed = slot[k].hashed
                       /\ slot'[k].stamp = slot[k].stamp
                       /\ k \notin {i, cur} => slot'[k] = slot[k]
  BY DEF Write, SlotType
<1>3. /\ cur \in Slots /\ slot[cur].hashed = call[t].hashed
      /\ i \in Slots /\ slot[i].hashed = call[t].hashed
      /\ slot[i].stamp = call[t].stamp /\ slot[cur].stamp >= call[t].stamp
  BY <1>1 DEF TableInv, Tracked
<1>4. /\ Len(log') = Len(log) + 1 /\ Len(log) \in Nat
      /\ log'[Len(log) + 1].hashed = call[t].hashed
      /\ log'[Len(log) + 1].stamp = slot[cur].stamp
      /\ \A k \in 1 .. Len(log) : log'[k] = log[k]
  BY <1>3 DEF Write, StampOf
<1>5. \A h, x : Covered(h, x) => Soon(h, x)
  BY <1>4 DEF Covered
<1>6. ASSUME NEW x \in Nat, x <= slot[cur].stamp
      PROVE  Soon(call[t].hashed, x)
  <2> Len(log) + 1 \in 1 .. Len(log') /\ log'[Len(log) + 1].stamp >= x
    BY <1>3, <1>4, <1>6
  <2> QED
    BY <1>4
<1>7. \A u \in Threads \ {t} : pc[u] \notin {"walk", "write"}
  BY <1>1 DEF QueueInv, MutexHeld, InMutex
<1> HIDE DEF Soon, TypeInv, TypeOK
<1>8. NotReadyCovered'
  <2> SUFFICES ASSUME NEW j \in Slots, InTable(j)', ~slot'[j].is_ready
               PROVE  Soon(slot'[j].hashed, slot'[j].stamp)
    BY DEF NotReadyCovered, Covered, Soon
  <2>1. slot[j].stamp \in Nat /\ slot[cur].stamp \in Nat
    BY <1>3 DEF TypeInv, TypeOK, SlotType
  <2>2. CASE slot[j].hashed = call[t].hashed /\ slot[j].stamp <= slot[cur].stamp
    BY <1>2, <1>6, <2>1, <2>2
  <2>3. CASE Covered(slot[j].hashed, slot[j].stamp)
    BY <1>2, <1>5, <2>3
  <2>4. CASE j \notin {i, cur}
    <3>1. InTable(j) /\ ~slot[j].is_ready
      BY <1>2, <2>4 DEF InTable
    <3>2. \/ Covered(slot[j].hashed, slot[j].stamp)
          \/ /\ call[t].hashed = slot[j].hashed
             /\ slot[cur].stamp >= slot[j].stamp
      BY <1>7, <3>1 DEF CoverInv, NotReadyCovered
    <3> QED
      BY <2>1, <2>2, <2>3, <3>2
  <2> QED
    <3>1. Soon(slot[j].hashed, slot[j].stamp)
      BY <1>2, <1>3, <1>5, <2>1, <2>2, <2>4
    <3> QED
      BY <1>2, <3>1
<1>9. DoneCovered'
  <2> SUFFICES ASSUME NEW u \in Threads, pc'[u] \in Done
               PROVE  Soon(call'[u].hashed, call'[u].stamp)
    BY DEF DoneCovered, Done, Covered, Soon
  <2>1. CASE u = t
    <3>1. call[t].stamp \in Nat
      BY DEF TypeInv, TypeOK, CallType
    <3> QED
      BY <1>1, <1>3, <1>6, <2>1, <3>1
  <2>2. CASE u # t
    BY <1>1, <1>5, <2>2 DEF CoverInv, DoneCovered, Done, TypeInv, TypeOK
  <2> QED
    BY <2>1, <2>2
<1>10. Durable'
  <2> SUFFICES ASSUME NEW r \in returned
               PROVE  Soon(r.hashed, r.stamp)
    BY <1>1 DEF Durable, Soon
  <2> QED
    BY <1>5 DEF CoverInv, Durable, Covered
<1> QED
  BY <1>8, <1>9, <1>10 DEF CoverInv

\* A call that returns was done, hence covered.
LEMMA CoverReturn ==
  ASSUME TypeInv, TypeInv', CoverInv, NEW t \in Threads, Return(t)
  PROVE  CoverInv'
<1> USE DEF TypeInv, TypeOK
<1>1. /\ pc[t] = "return" /\ pc' = [pc EXCEPT ![t] = "idle"]
      /\ returned' = returned \cup {[hashed |-> call[t].hashed,
                                     msg |-> MsgOf(t), stamp |-> call[t].stamp]}
      /\ UNCHANGED <<slot, log>>
      /\ \A u \in Threads \ {t} : /\ pc'[u] = pc[u] /\ call'[u] = call[u]
                                  /\ cur_slot'[u] = cur_slot[u]
  BY DEF Return, Goto
<1>2. Covered(call[t].hashed, call[t].stamp)
  BY <1>1 DEF CoverInv, DoneCovered
<1>3. Durable'
  BY <1>1, <1>2 DEF CoverInv, Durable, Covered
<1>4. \A h, x : Covered(h, x) => Covered(h, x)'
  BY <1>1 DEF Covered
<1>5. DoneCovered'
  BY <1>1, <1>4 DEF CoverInv, DoneCovered
<1>6. NotReadyCovered'
  <2> SUFFICES ASSUME NEW i \in Slots, InTable(i)', ~slot'[i].is_ready
               PROVE  \/ Covered(slot[i].hashed, slot[i].stamp)'
                      \/ \E u \in Threads :
                           /\ pc'[u] \in {"walk", "write"}
                           /\ call'[u].hashed = slot'[i].hashed
                           /\ slot'[cur_slot'[u]].stamp >= slot'[i].stamp
    BY DEF NotReadyCovered
  <2>1. \/ Covered(slot[i].hashed, slot[i].stamp)
        \/ \E u \in Threads \ {t} : /\ pc[u] \in {"walk", "write"}
                                    /\ call[u].hashed = slot[i].hashed
                                    /\ slot[cur_slot[u]].stamp >= slot[i].stamp
    BY <1>1 DEF CoverInv, NotReadyCovered, InTable
  <2> QED
    BY <1>1, <1>4, <2>1
<1> QED
  BY <1>3, <1>5, <1>6 DEF CoverInv

\* Every step keeps the requests that lost their ready flag, and the calls that
\* are over, covered by the log.
LEMMA CoverNext ==
  TypeInv /\ TypeInv' /\ QueueInv /\ TableInv /\ CoverInv /\ [Next]_rpliVars
  => CoverInv'
<1> SUFFICES ASSUME TypeInv, TypeInv', QueueInv, TableInv, CoverInv,
                    [Next]_rpliVars
             PROVE  CoverInv'
  OBVIOUS
<1>1. CASE UNCHANGED rpliVars
  BY <1>1 DEF rpliVars, CoverInv, NotReadyCovered, DoneCovered, Durable,
              Covered, InTable
<1> QED
  BY <1>1, CoverQuiet, CoverFill, CoverInsert, CoverEnter, CoverWalk,
     CoverWrite, CoverClear, CoverReturn DEF Next, Step, Critical, Terminated

\* The whole inductive invariant holds in every reachable state.
THEOREM InvariantCorrect == Spec => []IInv
<1>1. Init => IInv
  BY TypeInit, QueueInit, TableInit, OrderInit, CoverInit DEF IInv
<1>2. IInv /\ [Next]_rpliVars => IInv'
  BY TypeNext, QueueNext, TableNext, OrderNext, CoverNext DEF IInv
<1> QED
  BY <1>1, <1>2, PTL DEF Spec

\* A request whose call has returned is in the log, or superseded there by a
\* later one of its key.
THEOREM DurableCorrect == Spec => []Durable
<1>1. IInv => Durable
  BY DEF IInv, CoverInv
<1> QED
  BY InvariantCorrect, <1>1, PTL
=============================================================================
