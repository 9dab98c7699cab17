-------------------------- MODULE RequestToRpliInv --------------------------
(***************************************************************************)
(* The inductive invariant of RequestToRpli, in the layers its proof uses: *)
(* TypeInv, who may hold what (QueueInv), what the hash table looks like   *)
(* (TableInv), and what the log holds (OrderInv, CoverInv).                *)
(***************************************************************************)
EXTENDS RequestToRpli, FiniteSets

\* The labels between lock and unlock.
InMutex == {"walk", "write", "finish", "buckets", "slots", "free", "return",
            "abort"}

\* A deleted mark leads to a slot, never to the head of a bucket.
DeletedToSlot ==
  \A n \in Slots : IsDeleted(next_slot[n]) => next_slot[n].ref \in Slots

TypeInv == TypeOK /\ DeletedToSlot

----------------------------------------------------------------------------
\* The types of what the queue alone is made of.
QueueTypes ==
  /\ pc \in [Threads -> PcLabels]
  /\ slot_idx \in [Threads -> Slots]
  /\ next_free_slot \in Nat
  /\ procd \in Slots
  /\ mtx \in Threads \cup {NoThread}

\* Slots claimed since the last reset whose owner has finished with them.
Processed ==
  {i \in Slots : /\ i < next_free_slot
                 /\ \A t \in Threads : pc[t] \in Owning => slot_idx[t] # i}

MutexHeld == \A t \in Threads : pc[t] \in InMutex <=> mtx = t

OwnedClaimed ==
  \A t \in Threads : pc[t] \in Owning => slot_idx[t] < next_free_slot

\* procd counts the processed slots, except in a reset, which zeroes it first.
ProcdCounts ==
  procd = IF \E t \in Threads : pc[t] \in Resetting
            THEN 0 ELSE Cardinality(Processed)

QueueInv ==
  MutexHeld /\ OwnedClaimed /\ SlotOwnership /\ ResetQuiescent /\ ProcdCounts

----------------------------------------------------------------------------
\* A slot that is not in the table and that no other request superseded.
Unused(i) == slot[i].stamp = 0 /\ ~IsDeleted(next_slot[i])

FreeUnused == \A i \in Slots : i >= next_free_slot => Unused(i)

StampBound == \A i \in Slots : slot[i].stamp <= clock

\* A deleted mark leads from a request to a later one of the same key.
Chain ==
  \A i \in Slots : IsDeleted(next_slot[i]) =>
    /\ InTable(i)
    /\ slot[next_slot[i].ref].hashed = slot[i].hashed
    /\ slot[next_slot[i].ref].stamp > slot[i].stamp

\* A request that is not superseded is the latest of its key.
NewestLatest ==
  \A i, j \in Slots :
    /\ InTable(i) /\ ~IsDeleted(next_slot[i])
    /\ InTable(j) /\ slot[j].hashed = slot[i].hashed
    => slot[j].stamp <= slot[i].stamp

\* What the table holds of a call.  Its slot is unused until the insertion and
\* then holds its request and stamp; its walk stands on a request of the same
\* key that is not older; it never meets assert(false).
Tracked(t) ==
  /\ pc[t] # "abort"
  /\ pc[t] = "free" => \A i \in Slots : Unused(i)
  /\ pc[t] \in {"fill", "insert"} => Unused(slot_idx[t])
  /\ pc[t] = "insert" => /\ slot[slot_idx[t]].hashed = call[t].hashed
                         /\ slot[slot_idx[t]].is_ready
  /\ pc[t] \in {"lock", "walk", "write", "finish"} =>
       /\ slot[slot_idx[t]].hashed = call[t].hashed
       /\ slot[slot_idx[t]].stamp = call[t].stamp
       /\ call[t].stamp > 0
  /\ pc[t] \in {"walk", "write"} =>
       /\ slot[cur_slot[t]].hashed = call[t].hashed
       /\ slot[cur_slot[t]].stamp >= call[t].stamp

TableInv ==
  /\ FreeUnused /\ StampBound /\ Chain /\ NewestLatest
  /\ \A t \in Threads : Tracked(t)

----------------------------------------------------------------------------
LogBound == \A k \in 1 .. Len(log) : log[k].stamp <= clock

\* Nothing of a key in the log is later than the key's newest request.
LogBehind ==
  \A k \in 1 .. Len(log), i \in Slots :
    InTable(i) /\ ~IsDeleted(next_slot[i]) /\ log[k].hashed = slot[i].hashed
    => log[k].stamp <= slot[i].stamp

\* What a thread is about to write is not older than what the log has.
WriteLater ==
  \A t \in Threads : pc[t] = "write" =>
    \A k \in 1 .. Len(log) :
      log[k].hashed = call[t].hashed => log[k].stamp <= slot[cur_slot[t]].stamp

OrderInv == LogBound /\ LogBehind /\ WriteLater /\ KeyOrder

\* The log holds a request of h that is not older than s.
Covered(h, s) ==
  \E k \in 1 .. Len(log) : log[k].hashed = h /\ log[k].stamp >= s

\* A request that is not ready any more is in the log, or superseded there, or
\* the thread that walks past it is about to supersede it.
NotReadyCovered ==
  \A i \in Slots : InTable(i) /\ ~slot[i].is_ready =>
    \/ Covered(slot[i].hashed, slot[i].stamp)
    \/ \E t \in Threads : /\ pc[t] \in {"walk", "write"}
                          /\ call[t].hashed = slot[i].hashed
                          /\ slot[cur_slot[t]].stamp >= slot[i].stamp

DoneCovered ==
  \A t \in Threads : pc[t] \in {"finish", "buckets", "slots", "free", "return"}
    => Covered(call[t].hashed, call[t].stamp)

CoverInv == NotReadyCovered /\ DoneCovered /\ Durable

----------------------------------------------------------------------------
\* The argument behind the safety properties of rsdco_request_to_rpli: every
\* slot is free, owned by one call, or processed and counted; a chain of
\* deleted marks climbs to the newest request of a key; the log never overtakes
\* that one; and what lost its ready flag is covered by the log.
IInv == TypeInv /\ QueueInv /\ TableInv /\ OrderInv /\ CoverInv
=============================================================================
