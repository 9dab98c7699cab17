------------------------------ MODULE Ordering ------------------------------
(***************************************************************************)
(* What rsdco_add_request promises the caller of a request nobody else's   *)
(* request gets in the way of: the owner of the key puts it into its order *)
(* once, and the call returns after that.  Of the other requests only what *)
(* was asked is ordered, and each call returns once at most.               *)
(***************************************************************************)
EXTENDS Naturals, Sequences

CONSTANTS
  Nodes, Request,
  Sole        \* the requests the promise is given for

VARIABLES
  asked,      \* requests made
  order,      \* for each owner, the requests it has ordered
  returned    \* requests whose call has returned

Init ==
  /\ asked = {}
  /\ order = [o \in Nodes |-> << >>]
  /\ returned = {}

IsOrdered(r) == \E i \in DOMAIN order[r.owner] : order[r.owner][i] = r

Ask(r) ==
  /\ r \notin asked
  /\ asked' = asked \cup {r}
  /\ UNCHANGED <<order, returned>>

Order(o, r) ==
  /\ r \in asked
  /\ r.owner = o
  /\ r \in Sole => r \notin returned /\ ~IsOrdered(r)
  /\ order' = [order EXCEPT ![o] = Append(@, r)]
  /\ UNCHANGED <<asked, returned>>

Return(r) ==
  /\ r \in asked \ returned
  /\ r \in Sole => IsOrdered(r)
  /\ returned' = returned \cup {r}
  /\ UNCHANGED <<asked, order>>

Next ==
  \/ \E r \in Request : Ask(r)
  \/ \E r \in asked : Return(r) \/ \E o \in Nodes : Order(o, r)

Spec == Init /\ [][Next]_<<asked, order, returned>>
=============================================================================
