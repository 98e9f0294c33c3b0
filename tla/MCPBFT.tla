------------------------------- MODULE MCPBFT -------------------------------
(***************************************************************************)
(* PBFT instantiated for TLC: validators node0 .. node3, or the first two  *)
(* of them, and the connection graphs of the runs.                         *)
(***************************************************************************)
EXTENDS FirstViewLog, TLC

CONSTANTS n0, n1, n2, n3, r1, r2

MCnodeAt == [i \in 0 .. N - 1 |-> <<n0, n1, n2, n3>>[i + 1]]

\* Every validator is connected to every other.
Complete == [n \in Node |-> Node \ {n}]

\* One validator of four is down; the others are just a quorum.
OneDown == [n \in Node |-> IF n = n3 THEN {} ELSE {n0, n1, n2} \ {n}]

\* One validator of four only has a connection to the first primary.
OneLink ==
    [n \in Node |-> IF n = n0 THEN {n1, n2, n3}
                    ELSE IF n = n3 THEN {n0} ELSE {n0, n1, n2} \ {n}]

\* One validator of four hears the others, and none of its messages arrives.
OneSilent == [n \in Node |-> IF n = n3 THEN {} ELSE Node \ {n}]

\* Requests only differ in their identity.
RequestSymmetry == Permutations(Request)
=============================================================================
