----------------------------- MODULE MCCopySync -----------------------------
(***************************************************************************)
(* What the source occurrence looks like, version by version, after the    *)
(* policy's selection and privacy rules: the environments of the runs.     *)
(***************************************************************************)
EXTENDS CopySync, TLC

\* Every version is selected and reads differently on the destination.
Renamed == <<"first", "second">>

\* One version: the source changes only by leaving the horizon.
Single == <<"first">>

\* The occurrence is deleted, or the policy excludes it, in its last version.
Removed == <<"first", "none">>

\* The last version differs from the one before in a field the copy does not show.
Unseen == <<"first", "second", "second">>

\* Workers are interchangeable (used by a safety run only).
WorkerSymmetry == Permutations(Workers)
=============================================================================
