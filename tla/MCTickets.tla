----------------------------- MODULE MCTickets -----------------------------
(***************************************************************************)
(* Tickets instantiated for TLC.                                           *)
(***************************************************************************)
EXTENDS Tickets

CONSTANTS n0, n1, t1
=============================================================================
