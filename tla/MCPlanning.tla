----------------------------- MODULE MCPlanning -----------------------------
(***************************************************************************)
(* Instances of module Planning for TLC, with a lock time of one slot.     *)
(* MCPlanning.cfg: one window of three slots (a move can miss its time     *)
(* while the event is still to come), every policy, two reconcile passes   *)
(* at a time.  MCPlanningEnd.cfg: two windows of two slots planned         *)
(* together, for removal and liveness.                                     *)
(***************************************************************************)
EXTENDS Planning
=============================================================================
