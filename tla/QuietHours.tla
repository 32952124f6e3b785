------------------------------ MODULE QuietHours ------------------------------
(***************************************************************************)
(* notifications/quiet-hours.ts: the window [start, end) of minutes of the *)
(* local day in which automatic notifications are held, and how long it    *)
(* has still to run.  A time of day is a number of minutes since midnight  *)
(* (the "HH:MM" of the settings already parsed, the clock already in the   *)
(* window's time zone).                                                    *)
(***************************************************************************)
EXTENDS Integers

CONSTANT DayMinutes     \* minutes in a day

ASSUME DayAssumption == DayMinutes \in Nat \ {0}

Minutes == 0 .. DayMinutes - 1
Window  == [on : BOOLEAN, start : Minutes, end : Minutes]

\* Mutant: a window that wraps past midnight is taken for one that does not.
InsideNoWrap(w, cur) == w.on /\ w.start # w.end /\ cur >= w.start /\ cur < w.end

\* start > end wraps past midnight, start = end is empty.
Inside(w, cur) ==
    /\ w.on
    /\ w.start # w.end
    /\ IF w.start < w.end THEN cur >= w.start /\ cur < w.end
                          ELSE cur >= w.start \/ cur < w.end

\* Mutant: counted up to midnight.
LeftToMidnight(w, cur) == DayMinutes - cur

\* Minutes from cur to the end of the window.
Left(w, cur) == (w.end - cur + DayMinutes) % DayMinutes

\* quietHoursRemainingMs in whole minutes: 0 outside the window.
MinutesLeft(w, cur) == IF Inside(w, cur) THEN Left(w, cur) ELSE 0

\* quietHoursRemainingMs itself, sec and ms being the clock's position in the minute.
QuietMs(w, cur, sec, ms) ==
    IF Inside(w, cur) THEN Left(w, cur) * 60000 - sec * 1000 - ms ELSE 0

-----------------------------------------------------------------------------
(* The reference: walk forward from the start, minute by minute.           *)

\* The minute n minutes after t, n less than a day.
Later(t, n) == IF t + n < DayMinutes THEN t + n ELSE t + n - DayMinutes

\* How many minutes the window lasts.
Length(w) == IF w.start <= w.end THEN w.end - w.start ELSE w.end - w.start + DayMinutes

\* The minutes an enabled window consists of.
InWindow(w, cur) == w.on /\ \E n \in 0 .. Length(w) - 1 : cur = Later(w.start, n)
=============================================================================
