---------------------------- MODULE VectorClock ----------------------------
(***************************************************************************)
(* pkg/state/vectorclock.go: the vector clocks that order the versions of  *)
(* a ticket.  The map of the code is a total function here: an absent      *)
(* entry counts as 0 in every operation of the code, so the two agree.     *)
(* The uint64 counters are far from their limit and are naturals.          *)
(***************************************************************************)
EXTENDS Naturals

CONSTANT Node

Clock == [Node -> Nat]

NewVectorClock == [k \in Node |-> 0]

Increment(vc, n) == [vc EXCEPT ![n] = @ + 1]

\* Merge, and Update for a single entry: the greater counter wins.
Merge(vc, other) == [k \in Node |-> IF other[k] > vc[k] THEN other[k] ELSE vc[k]]

\* The clock after a Merge with each of the others.
MergeAll(vc, others) ==
    [k \in Node |-> CHOOSE c \in {vc[k]} \cup {o[k] : o \in others} :
                       c >= vc[k] /\ \A o \in others : c >= o[k]]

LessOrEqual(vc, other) == \A k \in Node : vc[k] <= other[k]

\* Compare: the position of vc relative to other.
Compare(vc, other) ==
    LET lessOrEqual == LessOrEqual(vc, other)
        greaterOrEqual == LessOrEqual(other, vc)
    IN CASE lessOrEqual /\ greaterOrEqual -> "Equal"
         [] lessOrEqual /\ ~greaterOrEqual -> "Before"
         [] ~lessOrEqual /\ greaterOrEqual -> "After"
         [] OTHER -> "Concurrent"
=============================================================================
