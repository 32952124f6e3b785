------------------------------- MODULE Spend -------------------------------
(***************************************************************************)
(* Daily spend of an account and how long its balance lasts                *)
(* (common/spend.ts, common/runway.ts).  Times are ticks, DayTicks to a    *)
(* day, the window starting at 0; amounts are kept as multiples of 1/Unit, *)
(* Unit being divisible by every interval that occurs, so that no share of *)
(* an interval is rounded.  (The code rounds each day to a cent.)          *)
(***************************************************************************)
EXTENDS Integers, Sequences, FiniteSets, SequencesExt, FiniteSetsExt

\* No date, no amount, no currency.
CONSTANT None

DayTicks == 2
Unit     == 420
NoBurn   == [spent |-> 0, span |-> 0]

Earlier(x, y) == IF x <= y THEN x ELSE y
Later(x, y)   == IF x >= y THEN x ELSE y

\* A loop that adds up, and a filter.
Added(amounts) ==
    LET sum[n \in 0..Len(amounts)] == IF n = 0 THEN 0 ELSE sum[n - 1] + amounts[n]
    IN  sum[Len(amounts)]
Kept(rows, which) ==
    LET kept[n \in 0..Len(rows)] == IF n = 0 THEN <<>>
                                    ELSE IF n \in which THEN Append(kept[n - 1], rows[n]) ELSE kept[n - 1]
    IN  kept[Len(rows)]

\* The intervals between snapshots, oldest first.
Intervals(points) == {n \in 2..Len(points) : points[n].at > points[n - 1].at}
Decline(points, n) == points[n - 1].balance - points[n].balance
Length(points, n)  == points[n].at - points[n - 1].at

\* burnFromSnapshots: what the balance fell by, over the intervals in which it did
\* not rise; NoBurn below a day of them, or when it never fell.
Burn(points) ==
    LET falls == {n \in Intervals(points) : Decline(points, n) >= 0}
        spent == Added([n \in 1..Len(points) |-> IF n \in falls THEN Decline(points, n) ELSE 0])
        span  == Added([n \in 1..Len(points) |-> IF n \in falls THEN Length(points, n) ELSE 0])
    IN  IF Len(points) < 2 \/ span < DayTicks \/ spent <= 0 THEN NoBurn ELSE [spent |-> spent, span |-> span]

\* What an interval cost: the fall, or for a top-up a guess from the burn rate.
Spent(points, n) ==
    IF Decline(points, n) >= 0 THEN Decline(points, n) * Unit
    ELSE IF Burn(points) = NoBurn THEN 0
    ELSE (Burn(points).spent * Length(points, n) * Unit) \div Burn(points).span

\* Mutant: the part of the interval before the window counts.
OverlapFromDay(days, points, n, i) ==
    Earlier(Earlier(points[n].at, days * DayTicks), (i + 1) * DayTicks) - Later(points[n - 1].at, 0)
\* How much of day i (counted from 0) interval n covers, inside the window.
Overlap(days, points, n, i) ==
    LET from == Later(points[n - 1].at, 0)
        to   == Earlier(points[n].at, days * DayTicks)
    IN  Earlier(to, (i + 1) * DayTicks) - Later(from, i * DayTicks)

\* fromSnapshots: each interval is spread over the days it spans; a day outside
\* the snapshots is not known.
CoverStart(points) == Later(0, points[1].at)
CoverEnd(days, points) == Earlier(days * DayTicks, points[Len(points)].at)
Covered(days, points, i) == i * DayTicks < CoverEnd(days, points) /\ (i + 1) * DayTicks > CoverStart(points)
Hits(days, points, i) == {n \in Intervals(points) : Overlap(days, points, n, i) > 0}
Share(days, points, n, i) == (Spent(points, n) * Overlap(days, points, n, i)) \div Length(points, n)
FromSnapshots(days, points) ==
    [i \in 0..(days - 1) |->
        IF Covered(days, points, i)
        THEN [amount |-> Added([n \in 1..Len(points) |->
                                  IF n \in Hits(days, points, i) THEN Share(days, points, n, i) ELSE 0]),
              estimated |-> \E n \in Hits(days, points, i) : Decline(points, n) < 0]
        ELSE [amount |-> None, estimated |-> FALSE]]

InWindow(x) == {c \in DOMAIN x.charges : x.charges[c].at >= 0 /\ x.charges[c].at < x.days * DayTicks}

\* mostCommonCurrency: currencies are numbers, in alphabetical order.
Count(x, cur) == Cardinality({c \in InWindow(x) : x.charges[c].currency = cur})
Better(x, cur, best) ==
    best = None \/ Count(x, cur) > Count(x, best) \/ (Count(x, cur) = Count(x, best) /\ cur < best)
MostCommonCurrency(x) ==
    LET best[n \in 0..Len(x.charges)] ==
            IF n = 0 THEN None
            ELSE IF n \in InWindow(x) /\ Better(x, x.charges[n].currency, best[n - 1]) THEN x.charges[n].currency
            ELSE best[n - 1]
    IN  best[Len(x.charges)]
CurrencyOf(x) == IF x.currency # None THEN x.currency ELSE MostCommonCurrency(x)

\* What counts for an account: charges in the window and snapshots, in its currency.
Own(x)    == {c \in InWindow(x) : x.charges[c].currency = CurrencyOf(x)}
Points(x) == Kept(x.snapshots, {n \in DOMAIN x.snapshots : x.snapshots[n].currency = CurrencyOf(x)})

\* fromCharges: days before the first charge ever are not known.
FromCharges(x) ==
    LET on(i)    == {c \in Own(x) : x.charges[c].at \div DayTicks = i}
        earliest == Min({x.charges[c].at : c \in Own(x)} \cup ({x.firstChargeAt} \ {None}))
        firstIdx == Later(0, earliest \div DayTicks)
    IN  [i \in 0..(x.days - 1) |->
            [amount |-> IF i < firstIdx THEN None
                        ELSE Added([c \in DOMAIN x.charges |-> IF c \in on(i) THEN x.charges[c].amount * Unit ELSE 0]),
             estimated |-> FALSE]]

Unknown(days) == [i \in 0..(days - 1) |-> [amount |-> None, estimated |-> FALSE]]

\* accountSpend: charges in the window and the account's currency win over
\* snapshots; a postpaid balance is no prepaid money.
AccountSpend(x) ==
    IF Own(x) # {} THEN FromCharges(x)
    ELSE IF x.isPostpaid \/ Len(Points(x)) < 2 THEN Unknown(x.days)
    ELSE IF CoverEnd(x.days, Points(x)) <= CoverStart(Points(x)) THEN Unknown(x.days)
    ELSE FromSnapshots(x.days, Points(x))

\* sumDays.
Known(spend) == {i \in DOMAIN spend : spend[i].amount # None}
SumDays(days, spend) == Added([i \in 1..days |-> IF i - 1 \in Known(spend) THEN spend[i - 1].amount ELSE 0])

\* daysOfRunway, at a burn of spent per span ticks.
DaysOfRunway(balance, burn) == IF balance <= 0 THEN 0 ELSE (balance * burn.span) \div (burn.spent * DayTicks)

\* balanceRunway of summary: prepaid accounts with a balance and without a dated
\* service, at the burn the snapshots show, or that of the services' monthly cost
\* (730 hours).
RunwayBurn(x) ==
    IF Burn(Points(x)) # NoBurn THEN Burn(Points(x))
    ELSE IF x.monthly <= 0 THEN NoBurn ELSE [spent |-> x.monthly * 24, span |-> 730 * DayTicks]
RunwaySeverity(x) ==
    IF None \in {x.balance, x.currency} \/ x.isPostpaid \/ x.dated \/ RunwayBurn(x) = NoBurn THEN "ok"
    ELSE LET days == DaysOfRunway(x.balance, RunwayBurn(x))
         IN  IF days <= 3 THEN "critical" ELSE IF days <= 7 THEN "warning" ELSE "ok"

----------------------------------------------------------------------------
\* Nothing is lost or counted twice when spend is spread over days: charges in the
\* window add up; snapshots inside the window, taken at different times and without
\* a top-up, add up to what the balance fell by, where no share of an interval is
\* rounded; the days that are known are a run of days without a gap, and a day is
\* marked estimated only if a top-up falls on it.  The currency picked is the most
\* frequent whatever the order of the charges ("so the pick is stable").
SpendConserved(x) ==
    LET spend  == AccountSpend(x)
        points == Points(x)
        inside == Len(points) >= 2 /\ (Len(points) >= 2 => points[1].at >= 0 /\ points[Len(points)].at <= x.days * DayTicks)
        rises  == {n \in Intervals(points) : Decline(points, n) < 0}
        whole  == \A n \in Intervals(points) : Unit % Length(points, n) = 0
    IN  /\ Own(x) # {} => SumDays(x.days, spend) =
                Unit * Added([c \in DOMAIN x.charges |-> IF c \in Own(x) THEN x.charges[c].amount ELSE 0])
        /\ Own(x) = {} /\ Known(spend) # {} /\ inside /\ rises = {} /\ Intervals(points) = 2..Len(points) /\ whole =>
                SumDays(x.days, spend) = Unit * (points[1].balance - points[Len(points)].balance)
        /\ \A i, j, k \in DOMAIN spend : i < j /\ j < k /\ {i, k} \subseteq Known(spend) => j \in Known(spend)
        /\ Own(x) = {} => \A i \in DOMAIN spend : spend[i].estimated => \E n \in rises :
                points[n - 1].at < (i + 1) * DayTicks /\ points[n].at > i * DayTicks
        /\ CurrencyOf(x) = CurrencyOf([x EXCEPT !.charges = Reverse(@)])

\* A prepaid account whose balance is gone within seven days at the rate it falls,
\* or its services cost, is listed, critical within three, unless dated charges
\* watch over it.
RunwayWarns(x) ==
    RunwayBurn(x) # NoBurn /\ None \notin {x.balance, x.currency} /\ ~x.isPostpaid /\ ~x.dated =>
        \A d \in {3, 7} :
            (x.balance * RunwayBurn(x).span < (d + 1) * RunwayBurn(x).spent * DayTicks)
            <=> (RunwaySeverity(x) \in {"critical"} \cup (IF d = 7 THEN {"warning"} ELSE {}))
=============================================================================
