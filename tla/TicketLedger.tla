---------------------------- MODULE TicketLedger ----------------------------
(***************************************************************************)
(* What the validators promise about tickets, without clocks, disks or     *)
(* messages: every node shows a state for each ticket it knows; a ticket   *)
(* is validated only after consensus chose it and consumed only where it   *)
(* is validated; and a node takes over from elsewhere, or finds again when *)
(* it restarts, only a state that the ticket has really been in.  Nothing  *)
(* is promised about when the nodes agree.                                 *)
(***************************************************************************)
CONSTANTS Node, Ticket, None

VARIABLES
    decided,   \* the tickets consensus has chosen to validate
    shown,     \* [node][ticket]: the state the node holds, or None
    happened   \* pairs <<ticket, state>>: the states tickets have been in

vars == <<decided, shown, happened>>

State == {"ISSUED", "VALIDATED", "CONSUMED", "DISPUTED"}

\* Some nodes begin with all tickets issued, the others with none.
Init ==
    /\ decided = {}
    /\ \E seeded \in SUBSET Node :
          /\ shown = [n \in Node |-> [t \in Ticket |-> IF n \in seeded THEN "ISSUED" ELSE None]]
          /\ happened = IF seeded = {} THEN {} ELSE {<<t, "ISSUED">> : t \in Ticket}

Decide(t) ==
    /\ decided' = decided \cup {t}
    /\ UNCHANGED <<shown, happened>>

\* The node itself moves the ticket to state s.
Move(n, t, s) ==
    /\ shown' = [shown EXCEPT ![n][t] = s]
    /\ happened' = happened \cup {<<t, s>>}
    /\ UNCHANGED decided

Validate(n, t) == t \in decided /\ shown[n][t] = "ISSUED" /\ Move(n, t, "VALIDATED")

Consume(n, t) == shown[n][t] = "VALIDATED" /\ Move(n, t, "CONSUMED")

Dispute(n, t) == shown[n][t] # None /\ Move(n, t, "DISPUTED")

\* The node issues every ticket it does not know.
Issue(n) ==
    /\ shown' = [shown EXCEPT ![n] = [t \in Ticket |-> IF @[t] = None THEN "ISSUED" ELSE @[t]]]
    /\ happened' = happened \cup {<<t, "ISSUED">> : t \in Ticket}
    /\ UNCHANGED decided

\* Tickets of the node take states they have been in; a crash forgets them all.
Learn(n) ==
    /\ \E known \in [Ticket -> State \cup {None}] :
          /\ shown' = [shown EXCEPT ![n] = known]
          /\ \A t \in Ticket : known[t] \in {shown[n][t], None} \/ <<t, known[t]>> \in happened
    /\ UNCHANGED <<decided, happened>>

Next ==
    \/ \E t \in Ticket : Decide(t)
    \/ \E n \in Node :
          \/ Issue(n)
          \/ Learn(n)
          \/ \E t \in Ticket : Validate(n, t) \/ Consume(n, t) \/ Dispute(n, t)

Spec == Init /\ [][Next]_vars
=============================================================================
