----------------------------- MODULE DepChecker -----------------------------
(***************************************************************************)
(* rsdco_request_to_rpli over the lock-free hash table it really uses      *)
(* (src/hashtable.cc): rsdco_try_insert as the loads and compare-and-swaps *)
(* of __elemSearch, __elemInsert and __elemSwitch, interleaved with those  *)
(* of other inserting threads and with the walk of the thread that holds   *)
(* the mutex.                                                              *)
(*                                                                         *)
(* A bucket is a list sorted by hash.  A search that finds the newest      *)
(* request of its key marks that one's link protected, and a switch then   *)
(* turns the protected link into a deleted one that leads to the new       *)
(* request; superseded requests stay in the list.  While no two keys share *)
(* a bucket this implements RequestToRpli.                                 *)
(***************************************************************************)
EXTENDS RpliSlots

VARIABLE reg   \* the local variables of __elemSearch, per thread

vars == <<rpliVars, reg>>

\* The fields of a thread's call that a search does not touch.
searchUnchanged == <<call, slot_idx, cur_slot, next_free_slot, procd, mtx,
                     slot, log, clock, returned, issued>>

NoReg == [prev |-> Null, prev_next |-> Plain(Null),
          curr |-> Null, curr_next |-> Plain(Null)]

IsProtected(link) == link.mark = "protected"

\* compare_func(n, key) <= 0 for a node other than the head.
NotBeyond(n, h) == n \in Slots /\ slot[n].hashed <= h

\* __sync_val_compare_and_swap on the link of n, which also says what it read.
CAS(n, old, new) ==
  next_slot' = [next_slot EXCEPT ![n] = IF @ = old THEN new ELSE @]

DepInit == Init /\ reg = [t \in Threads |-> NoReg]

----------------------------------------------------------------------------
(* __elemSearch                                                            *)

\* prev and prev_next: the head of the bucket and its link.
SearchHead(t) ==
  /\ pc[t] = "insert"
  /\ LET head == BucketHead(call[t].hashed)
     IN reg' = [reg EXCEPT ![t] = [NoReg EXCEPT !.prev = head,
                                                !.prev_next = next_slot[head]]]
  /\ Goto(t, "first")
  /\ UNCHANGED <<searchUnchanged, next_slot>>

\* curr: the head's link is read a second time.
SearchFirst(t) ==
  /\ pc[t] = "first"
  /\ reg' = [reg EXCEPT ![t].curr = next_slot[reg[t].prev].ref]
  /\ Goto(t, "load")
  /\ UNCHANGED <<searchUnchanged, next_slot>>

\* curr_next is read, and the loop's conditions decide.  Past the key's place
\* the search ends with prev and curr, over a clean-up if prev_next does not
\* name curr; from then on curr_next is the successor an insertion expects.  A
\* deleted node is passed over; on the key itself its link is protected; a
\* smaller key becomes prev.
Load(t) ==
  /\ pc[t] = "load"
  /\ LET curr == reg[t].curr
         link == next_slot[curr]
     IN IF ~NotBeyond(curr, call[t].hashed)
          THEN /\ reg' = [reg EXCEPT ![t].curr_next = Plain(curr)]
               /\ Goto(t, IF reg[t].prev_next.ref # curr THEN "clean"
                                                         ELSE "link")
          ELSE IF IsDeleted(link)
                 THEN /\ reg' = [reg EXCEPT ![t].curr = link.ref]
                      /\ UNCHANGED pc
                 ELSE /\ reg' = [reg EXCEPT ![t].curr_next = link]
                      /\ Goto(t, IF slot[curr].hashed = call[t].hashed
                                   THEN "protect" ELSE "advance")
  /\ UNCHANGED <<searchUnchanged, next_slot>>

\* Mutant: the mark is set on whatever link the node has by now.
Protect_Blind(t) ==
  /\ pc[t] = "protect"
  /\ LET curr == reg[t].curr
         cnext == reg[t].curr_next
     IN /\ next_slot' = [next_slot EXCEPT ![curr] = Protected(cnext.ref)]
        /\ reg' = [reg EXCEPT ![t].curr_next = Plain(cnext.ref)]
        /\ Goto(t, "switch")
  /\ UNCHANGED searchUnchanged

\* One turn of the loop that protects the link of the node with the same key.
\* It succeeds too when the link is already protected; it gives up when another
\* request has superseded the node, and goes on from there.
Protect(t) ==
  /\ pc[t] = "protect"
  /\ LET curr == reg[t].curr
         cnext == reg[t].curr_next
         orig == next_slot[curr]
     IN /\ CAS(curr, cnext, Protected(cnext.ref))
        /\ IF orig \in {cnext, Protected(cnext.ref)}
             THEN /\ reg' = [reg EXCEPT ![t].curr_next = Plain(cnext.ref)]
                  /\ Goto(t, "switch")
             ELSE /\ reg' = [reg EXCEPT ![t].curr_next = orig]
                  /\ IF IsDeleted(orig) THEN Goto(t, "advance")
                                        ELSE UNCHANGED pc
  /\ UNCHANGED searchUnchanged

\* prev becomes curr and prev_next is read again, from memory, after curr_next
\* was; curr moves to where the first of the two reads pointed.
Advance(t) ==
  /\ pc[t] = "advance"
  /\ reg' = [reg EXCEPT ![t] = [prev |-> reg[t].curr,
                                prev_next |-> next_slot[reg[t].curr],
                                curr |-> reg[t].curr_next.ref,
                                curr_next |-> Plain(Null)]]
  /\ Goto(t, "load")
  /\ UNCHANGED <<searchUnchanged, next_slot>>

\* The search ends with nodes between prev and curr: it swings prev's link to
\* curr, keeping its mark, whatever stands between them.
CleanUp(t) ==
  /\ pc[t] = "clean"
  /\ LET prev == reg[t].prev
         pnext == reg[t].prev_next
     IN CAS(prev, pnext, [pnext EXCEPT !.ref = reg[t].curr])
  /\ Goto(t, "link")
  /\ UNCHANGED <<searchUnchanged, reg>>

----------------------------------------------------------------------------
(* __elemInsert and __elemSwitch                                           *)

\* The end of rsdco_try_insert.
Succeed(t) ==
  /\ Inserted(t)
  /\ reg' = [reg EXCEPT ![t] = NoReg]
  /\ UNCHANGED <<slot_idx, cur_slot, next_free_slot, procd, mtx, log, returned,
                 issued>>

\* A failed attempt: the loop of rsdco_try_insert searches again.
Retry(t) ==
  /\ reg' = [reg EXCEPT ![t] = NoReg]
  /\ Goto(t, "insert")
  /\ UNCHANGED searchUnchanged

\* Another turn of the same loop, with the link that was there.
Again(t, link) ==
  /\ reg' = [reg EXCEPT ![t].curr_next = link]
  /\ UNCHANGED <<searchUnchanged, pc>>

\* What is between the new slot and its predecessor's link: the slot's own link
\* is set first, then the predecessor's if it is still the expected one.
Publish(t, n, right, expected, new) ==
  next_slot' = [next_slot EXCEPT ![slot_idx[t]] = right,
                                 ![n] = IF @ = expected THEN new ELSE @]

\* Mutant: the insertion never gives up, so nobody searches again.
Link_Forever(t) ==
  /\ pc[t] = "link"
  /\ LET right == reg[t].curr_next
         orig == next_slot[reg[t].prev]
     IN /\ Publish(t, reg[t].prev, right, right, Plain(slot_idx[t]))
        /\ IF orig = right THEN Succeed(t) ELSE Again(t, right)

\* __elemInsert between prev and curr.  On a link found protected it tries once
\* more with the mark, which the new slot's own link then carries.
Link(t) ==
  /\ pc[t] = "link"
  /\ LET prev == reg[t].prev
         right == reg[t].curr_next
         orig == next_slot[prev]
     IN /\ Publish(t, prev, right, right, Plain(slot_idx[t]))
        /\ \/ orig = right /\ Succeed(t)
           \/ orig # right /\ orig = Protected(right.ref) /\ Again(t, orig)
           \/ orig \notin {right, Protected(right.ref)} /\ Retry(t)

\* Mutant: a link that was protected again for another successor is replaced
\* all the same.
Switch_Unchecked(t) ==
  /\ pc[t] = "switch"
  /\ LET right == reg[t].curr_next
     IN /\ next_slot' = [next_slot EXCEPT ![slot_idx[t]] = right,
                                          ![reg[t].curr] = Deleted(slot_idx[t])]
        /\ Succeed(t)

\* __elemSwitch on the node with the same key: its protected link becomes the
\* deleted mark that leads to the new slot.
Switch(t) ==
  /\ pc[t] = "switch"
  /\ LET left == reg[t].curr
         right == reg[t].curr_next
         orig == next_slot[left]
     IN /\ Publish(t, left, right, Protected(right.ref), Deleted(slot_idx[t]))
        /\ \/ orig = Protected(right.ref) /\ Succeed(t)
           \/ /\ IsProtected(orig) /\ orig.ref # right.ref
              /\ Again(t, Plain(orig.ref))
           \/ ~IsProtected(orig) /\ Retry(t)

----------------------------------------------------------------------------
TryInsert(t) ==
  \/ SearchHead(t)
  \/ SearchFirst(t)
  \/ Load(t)
  \/ Protect(t)
  \/ Advance(t)
  \/ CleanUp(t)
  \/ Link(t)
  \/ Switch(t)

DepStep(t) ==
  \/ /\ Claim(t) \/ Fill(t) \/ Enter(t) \/ Critical(t)
     /\ UNCHANGED reg
  \/ TryInsert(t)

DepNext ==
  \/ \E t \in Threads : (Call(t) /\ UNCHANGED reg) \/ DepStep(t)
  \/ Terminated /\ UNCHANGED reg

DepSpec == DepInit /\ [][DepNext]_vars

DepFairSpec == DepSpec /\ \A t \in Threads : WF_vars(DepStep(t))

----------------------------------------------------------------------------
Searching == {"first", "load", "protect", "advance", "clean", "link", "switch"}

\* Ranges of the links and of a search's local variables: a search never leaves
\* the list, so none of its loads is through a null link.
DepTypeOK ==
  /\ next_slot \in [Nodes -> [ref : Nodes \cup {Null},
                              mark : {"plain", "deleted", "protected"}]]
  /\ \A t \in Threads :
       /\ pc[t] \in Searching => reg[t].prev \in Nodes
       /\ pc[t] \in Searching \ {"first"} => reg[t].curr \in Nodes
       /\ pc[t] \in {"protect", "advance", "switch"} => reg[t].curr \in Slots
       /\ reg[t].curr_next.ref \in Nodes \cup {Null}

\* The abstract link: only a deleted mark says anything, and only the order in
\* which requests of one key supersede each other is promised.
AbstractLink(n) ==
  IF n \in Heads THEN Plain(n)
  ELSE IF IsDeleted(next_slot[n]) THEN next_slot[n] ELSE Plain(Null)

\* A search is a part of the insertion.
AbstractPc(t) == IF pc[t] \in Searching THEN "insert" ELSE pc[t]

Atomic == INSTANCE RequestToRpli WITH
  pc <- [t \in Threads |-> AbstractPc(t)],
  next_slot <- [n \in Nodes |-> AbstractLink(n)]

\* The lock-free insertion looks atomic: at the instant its last
\* compare-and-swap succeeds the request supersedes exactly the newest one of
\* its key, whatever the other searches, switches and resets are doing.
AtomicSpec == Atomic!Spec
=============================================================================
