----------------------------- MODULE DecisionLog -----------------------------
(***************************************************************************)
(* What the consensus layer promises to the validator node that uses it:   *)
(* a log with one request per sequence number, and nodes that execute only *)
(* what the log holds.  PBFT implements it as long as no view changes      *)
(* (module FirstViewLog); the ticket layer is built on it (module Tickets).*)
(* Nodes execute at different times, in any order, or never.               *)
(***************************************************************************)
CONSTANTS Node, Sequence, Request

VARIABLES
    chosen,   \* pairs <<sequence, request>>: what has been proposed
    applied   \* [node]: the pairs the node has executed

vars == <<chosen, applied>>

Init ==
    /\ chosen = {}
    /\ applied = [n \in Node |-> {}]

\* A sequence number is given to one request, once.
Choose(s, r) ==
    /\ \A d \in chosen : d[1] # s
    /\ chosen' = chosen \cup {<<s, r>>}
    /\ UNCHANGED applied

\* A node executes the request that the log has for the sequence number.
Apply(n, s, r) ==
    /\ <<s, r>> \in chosen
    /\ applied' = [applied EXCEPT ![n] = @ \cup {<<s, r>>}]
    /\ UNCHANGED chosen

Next ==
    \E s \in Sequence, r \in Request :
        \/ Choose(s, r)
        \/ \E n \in Node : Apply(n, s, r)

Spec == Init /\ [][Next]_vars
=============================================================================
