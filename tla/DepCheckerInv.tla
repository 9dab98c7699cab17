--------------------------- MODULE DepCheckerInv ---------------------------
(***************************************************************************)
(* What the lists of the hash table look like.  BucketInv says of any      *)
(* table that nobody leaves a bucket's list; ListInv says what the list is *)
(* while no two keys share a bucket, the invariant behind the refinement   *)
(* of RequestToRpli.                                                       *)
(***************************************************************************)
EXTENDS DepChecker

LinkValues == [ref : Nodes \cup {Null}, mark : {"plain", "deleted", "protected"}]

RegValues == [prev : Nodes \cup {Null}, prev_next : LinkValues,
              curr : Nodes \cup {Null}, curr_next : LinkValues]

DepTypes ==
  /\ pc \in [Threads -> Searching \cup {"idle", "claim", "fill", "insert", "lock", "walk",
                                        "write", "finish", "buckets", "slots", "free",
                                        "return", "abort"}]
  /\ next_slot \in [Nodes -> LinkValues]
  /\ reg \in [Threads -> RegValues]

----------------------------------------------------------------------------
(* Any table.                                                              *)

BucketTypes ==
  /\ DepTypes
  /\ call \in [Threads -> [hashed : Nat, stamp : Nat]]
  /\ slot_idx \in [Threads -> Slots]
  /\ cur_slot \in [Threads -> Nodes]
  /\ next_free_slot \in Nat
  /\ procd \in Slots
  /\ mtx \in Threads \cup {NoThread}
  /\ slot \in [Slots -> [hashed : Nat, is_ready : BOOLEAN, stamp : Nat]]
  /\ clock \in Nat

\* The head b and the requests in the table that belong to its bucket.
InBucket(n, b) ==
  n = b \/ (n \in Slots /\ slot[n].stamp > 0 /\ BucketHead(slot[n].hashed) = b)

\* A link leads from a node of a bucket to one of the same bucket.
BucketLinks ==
  \A b \in Heads, n \in Nodes : InBucket(n, b) => InBucket(next_slot[n].ref, b)

FreeEmpty == \A i \in Slots : i >= next_free_slot => slot[i].stamp = 0

\* A call stays in the bucket of its key, from the claim of its slot to the end
\* of its walk.
CallInBucket(t) ==
  LET h == call[t].hashed
      b == BucketHead(h)
      r == reg[t]
  IN /\ pc[t] \in Searching \cup {"claim", "fill", "insert", "lock", "walk"} => h \in Hashes
     /\ pc[t] \in Searching \cup {"fill", "insert"} => slot[slot_idx[t]].stamp = 0
     /\ pc[t] \in Searching \cup {"insert", "lock"} => slot[slot_idx[t]].hashed = h
     /\ pc[t] = "lock" => slot[slot_idx[t]].stamp > 0
     /\ pc[t] = "walk" => cur_slot[t] \in Slots /\ InBucket(cur_slot[t], b)
     /\ pc[t] \in Searching => InBucket(r.prev, b)
     /\ pc[t] \in Searching \ {"first"} => InBucket(r.curr, b)
     /\ pc[t] \in {"protect", "advance", "switch"} => r.curr \in Slots
     /\ pc[t] \in {"protect", "advance", "switch", "clean", "link"}
          => InBucket(r.curr_next.ref, b)
     /\ pc[t] = "slots" => \A n \in Heads : next_slot[n] = Plain(n)
     /\ pc[t] = "free" => \A i \in Slots : slot[i].stamp = 0

BucketInv ==
  BucketTypes /\ BucketLinks /\ FreeEmpty /\ \A t \in Threads : CallInBucket(t)

----------------------------------------------------------------------------
(* A table in which no two keys share a bucket.                            *)

\* Every bucket holds the requests of one key.
Separate == \A h, k \in Hashes : BucketHead(h) = BucketHead(k) => h = k

\* The requests of h in the table.
OfKey(h) == {i \in Slots : slot[i].stamp > 0 /\ slot[i].hashed = h}

\* The newest request of a key is the last of its list; the ones it superseded
\* lead to later ones.
TableLinks ==
  \A h \in Hashes : \A i \in OfKey(h) :
    \/ next_slot[i] \in {Plain(BucketHead(h)), Protected(BucketHead(h))}
    \/ \E j \in OfKey(h) : next_slot[i] = Deleted(j)

OneNewest ==
  \A h \in Hashes : \A i, j \in OfKey(h) :
    ~IsDeleted(next_slot[i]) /\ ~IsDeleted(next_slot[j]) => i = j

\* A bucket leads to a request of its key as soon as there is one; a reset
\* empties the buckets before the slots.
HeadLinks ==
  \A h \in Hashes :
    IF OfKey(h) = {} \/ \E t \in Threads : pc[t] = "slots"
      THEN next_slot[BucketHead(h)] = Plain(BucketHead(h))
      ELSE \E i \in OfKey(h) : next_slot[BucketHead(h)] = Plain(i)

\* A search stays with the requests of its key.  It comes to the place of an
\* insertion only over an empty list, so it never has anything to clean up.
SearchInv(t) ==
  LET h == call[t].hashed
      B == BucketHead(h)
      r == reg[t]
  IN /\ pc[t] \in Searching \cup {"claim", "fill", "insert"} => h \in Hashes
     /\ pc[t] \in Searching => r.prev \in {B} \cup OfKey(h)
     /\ pc[t] = "first" =>
          r.prev = B /\ (r.prev_next = Plain(B) \/ OfKey(h) # {})
     /\ pc[t] = "load" =>
          (r.prev = B /\ r.prev_next = Plain(B) /\ r.curr = B) \/ r.curr \in OfKey(h)
     /\ pc[t] \in {"protect", "advance", "switch"} => r.curr \in OfKey(h)
     /\ pc[t] = "protect" => r.curr_next \in {Plain(B), Protected(B)}
     /\ pc[t] = "advance" => r.curr_next.ref \in OfKey(h)
     /\ pc[t] = "link" => r.prev = B
     /\ pc[t] \in {"link", "switch"} => r.curr_next = Plain(B)
     /\ pc[t] # "clean"

\* While no two keys share a bucket, a list is its key's requests from the oldest
\* on, and whoever searches it is on one of them.
ListInv ==
  DepTypes /\ TableLinks /\ OneNewest /\ HeadLinks /\ \A t \in Threads : SearchInv(t)
=============================================================================
