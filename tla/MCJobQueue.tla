----------------------------- MODULE MCJobQueue -----------------------------
(***************************************************************************)
(* Two rows, one repeatable and one windowed key, a worker that stays up   *)
(* and one that may crash.                                                 *)
(***************************************************************************)
EXTENDS JobQueue
=============================================================================
