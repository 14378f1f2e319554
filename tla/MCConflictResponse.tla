------------------------ MODULE MCConflictResponse --------------------------
(***************************************************************************)
(* Two invitations that compete for a budget of one.                       *)
(***************************************************************************)
EXTENDS ConflictResponse

MCStart == [i \in Invitations |-> i]
=============================================================================
