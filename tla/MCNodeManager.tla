--------------------------- MODULE MCNodeManager ---------------------------
(***************************************************************************)
(* Instances of NodeManager for TLC.                                       *)
(***************************************************************************)
EXTENDS NodeManager
=============================================================================
