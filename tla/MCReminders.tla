----------------------------- MODULE MCReminders -----------------------------
(* Reminders on small instances.                                           *)
EXTENDS Reminders

CONSTANTS own, lead, c1

\* The event starts at 2 and is announced one unit ahead.
MCStartOf == [l \in Lead |-> 2]
MCAheadOf == [l \in Lead |-> 1]

=============================================================================
