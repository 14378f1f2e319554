-------------------------- MODULE MCCalendarIngest --------------------------
(***************************************************************************)
(* Two interchangeable events: one that a scan sees and one that changes   *)
(* behind its back.                                                        *)
(***************************************************************************)
EXTENDS CalendarIngest
=============================================================================
