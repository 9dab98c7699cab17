----------------------------- MODULE BootstrapInv -----------------------------
(***************************************************************************)
(* The inductive invariant of Bootstrap.  Each shared set is what the nodes*)
(* did to it, as their places in their programs tell; and what a node has  *)
(* found or fetched, its owner has stored.  The order of a program does    *)
(* the rest.                                                               *)
(***************************************************************************)
EXTENDS Bootstrap

\* The ends of connections, and the keys that have no other end.
Ends == DOMAIN Other
Keys == (Ends \cup {"qp-connected", "hbqp-connected", "hbstat-table"}) \X Nodes \X Nodes

\* n has been through this step with m.
Did(n, op, what, m) ==
  \E i \in 1 .. Len(Program[n]) :
    \E k \in 1 .. Len(Body(n, i)) :
      /\ Body(n, i)[k] = Step(op, what)
      /\ m \in Whom(n, i)
      /\ Passed(n, i, k, m)

DidTo(key, op) == Did(key[2], op, key[1], key[3])

\* What is shared is what was done, and nobody else undid it.
Traces ==
  /\ memc \cup connected \cup written \cup reading \cup deleted \subseteq Keys
  /\ \A key \in Keys :
       /\ key \in memc <=> DidTo(key, "push") /\ ~ DidTo(key, "del")
       /\ key \in deleted <=> DidTo(key, "del")
       /\ key \in connected <=> DidTo(key, "connect")
       /\ key \in reading <=> DidTo(key, "spawn")
       /\ key \in written => DidTo(key, "write")

\* A barrier's key was stored before anyone found it, a log's first words
\* were written before anyone saw them.
Met ==
  \A n, m \in Nodes :
    /\ \A msg \in {"qp-connected", "hbqp-connected"} :
         Did(n, "wait", msg, m) => Did(m, "push", msg, m)
    /\ \A end \in Ends : Did(n, "poll", end, m) => Did(m, "write", Other[end], n)

\* Whoever has slept in the heartbeat's barrier has left nobody behind there.
Slept ==
  \A n \in Nodes : Did(n, "sleep", "hbqp-connected", n) =>
    \A m \in Nodes : ~ StillNeeds(m, <<"hbqp-connected", n, n>>)

BootInv == TypeOK /\ Traces /\ Met /\ Slept
=============================================================================
