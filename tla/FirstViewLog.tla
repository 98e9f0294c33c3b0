---------------------------- MODULE FirstViewLog ----------------------------
(***************************************************************************)
(* PBFT seen as a log of decisions: the proposals of view 0 are the log,   *)
(* and the executions made in view 0 are what the nodes took from it.      *)
(* Whatever happens in later views is invisible here: a new primary reuses *)
(* sequence numbers, so no such log spans a view change.                   *)
(***************************************************************************)
EXTENDS PBFT

FirstViewChosen ==
    {d \in Sequence \X Request :
        PhaseMsg("PRE_PREPARE", 0, d[1], d[2], Primary(0)) \in sent}

FirstViewApplied ==
    [n \in Node |-> {d \in Sequence \X Request :
        \E e \in executed[n] : e.view = 0 /\ e.seq = d[1] /\ e.req = d[2]}]

Log == INSTANCE DecisionLog WITH chosen <- FirstViewChosen, applied <- FirstViewApplied

\* PBFT implements the decision log in its first view: ProposeRequest never
\* gives a sequence number to a second request, and executeRequest only runs a
\* request under the number it was proposed with, whatever arrives in which order.
FirstViewIsALog == Log!Spec
=============================================================================
