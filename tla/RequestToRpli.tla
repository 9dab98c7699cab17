--------------------------- MODULE RequestToRpli ---------------------------
(***************************************************************************)
(* rsdco_request_to_rpli with rsdco_try_insert as one atomic step: what    *)
(* the dependency checker promises the proposers.  A new request           *)
(* supersedes the newest one of its key, whose link becomes a deleted mark *)
(* that points to it.  DepChecker is the detailed module.                  *)
(***************************************************************************)
EXTENDS RpliSlots

\* Slots in the hash table: filled, inserted and not yet cleared.
InTable(i) == slot[i].stamp > 0

\* The request of a key that no other one has superseded.
Newest(i, h) == InTable(i) /\ slot[i].hashed = h /\ ~IsDeleted(next_slot[i])

\* Mutant: the superseding link is set on every request of the bucket.
TryInsert_AnyKey(t) ==
  /\ pc[t] = "insert"
  /\ next_slot' = [n \in Nodes |->
                     IF n \in Slots /\ InTable(n) /\ ~IsDeleted(next_slot[n])
                       THEN Deleted(slot_idx[t])
                       ELSE next_slot[n]]
  /\ Inserted(t)
  /\ UNCHANGED <<slot_idx, cur_slot, next_free_slot, procd, mtx, log, returned,
                 issued>>

\* rsdco_try_insert at the instant its last compare-and-swap succeeds.
TryInsert(t) ==
  /\ pc[t] = "insert"
  /\ next_slot' = [n \in Nodes |->
                     IF n \in Slots /\ Newest(n, call[t].hashed)
                       THEN Deleted(slot_idx[t])
                       ELSE next_slot[n]]
  /\ Inserted(t)
  /\ UNCHANGED <<slot_idx, cur_slot, next_free_slot, procd, mtx, log, returned,
                 issued>>

Step(t) ==
  \/ Claim(t)
  \/ Fill(t)
  \/ TryInsert(t)
  \/ Enter(t)
  \/ Critical(t)

Next ==
  \/ \E t \in Threads : Call(t) \/ Step(t)
  \/ Terminated

Spec == Init /\ [][Next]_rpliVars

----------------------------------------------------------------------------
PcLabels == {"idle", "claim", "fill", "insert", "lock", "walk", "write",
             "finish", "buckets", "slots", "free", "return", "abort"}

CallType  == [hashed : Nat, stamp : Nat]
SlotType  == [hashed : Nat, is_ready : BOOLEAN, stamp : Nat]
LinkType  == [ref : Nodes \cup {Null}, mark : {"plain", "deleted"}]
EntryType == [hashed : Nat, msg : {MSG_PURE, MSG_ACK}, stamp : Nat]

\* The values the variables range over; in particular a claimed index is one
\* of the array's, and what a walk stands on is a slot.
TypeOK ==
  /\ pc \in [Threads -> PcLabels]
  /\ call \in [Threads -> CallType]
  /\ slot_idx \in [Threads -> Slots]
  /\ cur_slot \in [Threads -> Slots]
  /\ next_free_slot \in Nat
  /\ procd \in Slots
  /\ mtx \in Threads \cup {NoThread}
  /\ slot \in [Slots -> SlotType]
  /\ next_slot \in [Nodes -> LinkType]
  /\ log \in Seq(EntryType)
  /\ clock \in Nat
  /\ returned \subseteq EntryType
  /\ issued \in Nat
=============================================================================
