------------------------------- MODULE Schema -------------------------------
(***************************************************************************)
(* What migrate promises: each migration takes effect once, in the order   *)
(* of the list, whatever processes start at once and whichever of them     *)
(* are killed.                                                             *)
(***************************************************************************)
EXTENDS Naturals, Sequences

CONSTANT N      \* number of migrations
VARIABLE log    \* the migrations in effect, in the order they were committed

Init == log = <<>>

\* The next one of the list.
Step == /\ Len(log) < N /\ log' = Append(log, Len(log) + 1)

Spec == Init /\ [][Step]_log
=============================================================================
