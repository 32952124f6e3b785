--------------------------- MODULE MCNotifications ---------------------------
(* Notifications for TLC: a day of four minutes, two ticks of the cron job. *)
EXTENDS Notifications, TLC

\* Across midnight, with the only open minute between two ticks; within the day,
\* ending on a tick.
Night   == [on |-> TRUE, start |-> 2, end |-> 1]
Morning == [on |-> TRUE, start |-> 1, end |-> 2]

TwoWindows == {Night, Morning}

Symmetry == Permutations(Checks)
=============================================================================
