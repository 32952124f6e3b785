----------------------------- MODULE Analytics -----------------------------
(***************************************************************************)
(* What the dashboard and the alerts compute from the tables               *)
(* (analytics.service.ts, common/overdue, billing-severity, money): the    *)
(* charges ahead and overdue, which of them the balances cover, how much to *)
(* top up, and the chart of past and projected months.  Amounts are whole  *)
(* numbers; a rate of 0 is a rate that is not known.                       *)
(***************************************************************************)
EXTENDS Spend

\* CurrencyService.convert: without a rate the amount is left as it is.
Convert(amount, from, to, rates) ==
    IF from = to \/ rates[from] = 0 \/ rates[to] = 0 THEN amount ELSE (amount * rates[from]) \div rates[to]

\* isMeteredPeriod.
Metered(s) == s.period \in {"daily", "hourly"}

----------------------------------------------------------------------------
(* summary: a portfolio p has accounts, services in the order they are     *)
(* listed, rates, the base currency and the time of day.  Times are half   *)
(* days from the start of today; a day is a pair of them.                  *)

StartOfDay(t) == t \div 2
Horizon(p) == 28 + p.clock

\* overdueDays: 0 for none.
OverdueDays(s) == IF s.due = None \/ s.due >= 0 THEN 0 ELSE 0 - StartOfDay(s.due)

Overdue(p) == {i \in DOMAIN p.services : ~Metered(p.services[i]) /\ OverdueDays(p.services[i]) > 0}

\* Mutant: what was due earlier today is not ahead any more.
UpcomingFromNow(p, s) == s.due # None /\ ~Metered(s) /\ OverdueDays(s) = 0 /\ s.due >= p.clock /\ s.due < Horizon(p)
IsUpcoming(p, s) == s.due # None /\ ~Metered(s) /\ OverdueDays(s) = 0 /\ s.due < Horizon(p)

\* Soonest first; the sort keeps the order of what is due together.
Soon(p) == {i \in DOMAIN p.services : IsUpcoming(p, p.services[i])}
NotAfter(p, i) == {j \in Soon(p) : \/ p.services[j].due < p.services[i].due
                                   \/ p.services[j].due = p.services[i].due /\ j <= i}
Places(p) == [i \in Soon(p) |-> Cardinality(NotAfter(p, i))]
UpcomingSorted(p) == [n \in 1..Cardinality(Soon(p)) |-> CHOOSE i \in Soon(p) : Places(p)[i] = n]

Prepaid(a) == a.balance # None /\ ~a.isPostpaid

\* chargeSeverity.
ChargeSeverity(covered, daysUntil, isPostpaid) ==
    IF covered = "no" /\ daysUntil <= 7 THEN "critical"
    ELSE IF covered = "unknown" /\ ~isPostpaid /\ daysUntil <= 7 THEN "critical"
    ELSE IF covered = "no" \/ daysUntil <= 3 THEN "warning" ELSE "ok"

\* Mutant: a charge that is not covered does not lower the balance.
LeftIfCovered(balance, cost) == IF balance >= cost THEN balance - cost ELSE balance
\* The running balance after a charge, covered or not.
LeftAfter(balance, cost) == balance - cost

\* The running balances, in the base currency and in the account's own, and the
\* lines shown so far; one charge more.
Running(p) ==
    [base   |-> [a \in DOMAIN p.accounts |->
                    IF Prepaid(p.accounts[a]) THEN Convert(p.accounts[a].balance, p.accounts[a].currency, p.base, p.rates) ELSE None],
     native |-> [a \in DOMAIN p.accounts |-> IF Prepaid(p.accounts[a]) THEN p.accounts[a].balance ELSE None],
     lines  |-> <<>>]
Charge(p, run, i) ==
    LET s       == p.services[i]
        a       == p.accounts[s.account]
        cost    == Convert(s.cost, s.currency, p.base, p.rates)
        known   == run.base[s.account] # None
        covered == IF ~known THEN "unknown" ELSE IF run.base[s.account] >= cost THEN "yes" ELSE "no"
        line    == [service |-> i, account |-> s.account, days |-> StartOfDay(s.due), covered |-> covered,
                    severity |-> ChargeSeverity(covered, StartOfDay(s.due), a.isPostpaid)]
    IN  IF ~known THEN [run EXCEPT !.lines = Append(@, line)]
        ELSE [base   |-> [run.base EXCEPT ![s.account] = LeftAfter(@, cost)],
              native |-> [run.native EXCEPT ![s.account] = LeftAfter(@, Convert(s.cost, s.currency, a.currency, p.rates))],
              lines  |-> Append(run.lines, line)]
Simulated(p) ==
    LET order == UpcomingSorted(p)
        run[n \in 0..Len(order)] == IF n = 0 THEN Running(p) ELSE Charge(p, run[n - 1], order[n])
    IN  run[Len(order)]

\* balanceTopUps: what is missing after every charge ahead, for accounts with a
\* critical line.
TopUps(p) ==
    LET run == Simulated(p)
        critical == {run.lines[n].account : n \in {m \in DOMAIN run.lines : run.lines[m].severity = "critical"}}
        short == {a \in critical : run.native[a] # None /\ run.native[a] < 0}
    IN  [a \in short |-> 0 - run.native[a]]

\* monthlyCost, in 24ths: 730 hours make a month; what is paid once does not recur.
MonthlyFactor == [hourly |-> 17520, daily |-> 730, monthly |-> 24, quarterly |-> 8, yearly |-> 2, onetime |-> 0]

\* A loop that adds to the total of each amount's key (bump).
Bumped(keys, amounts) ==
    LET agg[n \in 0..Len(amounts)] == IF n = 0 THEN [k \in Range(keys) |-> 0]
                                      ELSE [agg[n - 1] EXCEPT ![keys[n]] = @ + amounts[n]]
    IN  agg[Len(amounts)]

\* The monthly cost of the services, in all and broken down.
MonthlyBase(p, s) == Convert(s.cost * MonthlyFactor[s.period], s.currency, p.base, p.rates)
MonthlyBases(p) == [i \in DOMAIN p.services |-> MonthlyBase(p, p.services[i])]
MonthlyTotal(p) == Added(MonthlyBases(p))
Breakdown(p, key) == Bumped([i \in DOMAIN p.services |-> p.services[i][key]], MonthlyBases(p))

\* projectStats: the same over the services of one project.
ProjectStats(p, project) ==
    Added([i \in DOMAIN p.services |-> IF p.services[i].project = project THEN MonthlyBases(p)[i] ELSE 0])

----------------------------------------------------------------------------
(* forecast and the figures of summary about payments: a ledger l has      *)
(* payments, services, the window and the settings.  Times are days from   *)
(* the start of the current month; MonthDays make a month.                 *)
MonthDays == 4
Month(day) == day \div MonthDays

\* The rate of a day; that of today is the rate of day 0.
RateOn(day) == 10 + Month(day)

\* Accounts with top-ups: their charges are only detail.
WithTopups(l) == {l.payments[i].account : i \in {j \in DOMAIN l.payments : l.payments[j].type # "charge"}}
Spends(l) == {i \in DOMAIN l.payments : l.payments[i].type # "charge" \/ l.payments[i].account \notin WithTopups(l)}
InMonth(l, m) == {i \in Spends(l) : Month(l.payments[i].day) = m}

\* Mutant: the chart values payments at today's rate.
ValuedToday(x) == x.amount * RateOn(0)
\* A payment is valued at the rate of its date.
Valued(x) == x.amount * RateOn(x.day)
CardValue(x) == x.amount * RateOn(x.day)

CurrentMonthPayments(l) == Added([i \in DOMAIN l.payments |-> IF i \in InMonth(l, 0) THEN CardValue(l.payments[i]) ELSE 0])
TotalSpent(l) == Added([i \in DOMAIN l.payments |-> IF i \in Spends(l) THEN CardValue(l.payments[i]) ELSE 0])

\* The services of a month: those created by then, or whose account paid by then.
StartMonth(l, s) ==
    LET paid == {l.payments[i].day : i \in {j \in DOMAIN l.payments : l.payments[j].account = s.account}}
    IN  IF l.backdate /\ paid # {} THEN Min({Month(s.created), Month(Min(paid))}) ELSE Month(s.created)
TariffForMonth(l, m) ==
    LET tariff(s) == s.cost * MonthlyFactor[s.period] * RateOn(0)
    IN  Added([i \in DOMAIN l.services |->
                  IF ~l.respectCreatedAt \/ StartMonth(l, l.services[i]) <= m THEN tariff(l.services[i]) ELSE 0])

Estimated(l, m) == IF l.backfill /\ m <= 0 THEN TariffForMonth(l, m) ELSE 0
Forced(l) == l.backfill /\ l.force
Actual(l, m) ==
    IF m > 0 THEN 0
    ELSE IF Forced(l) THEN TariffForMonth(l, m)
    ELSE Added([i \in DOMAIN l.payments |-> IF i \in InMonth(l, m) THEN Valued(l.payments[i]) ELSE 0])

\* periodStep, in days; 0 for a charge that does not repeat.  Hourly services
\* step by the month, with the price of an hour.
PeriodStep(period) == CASE period = "daily" -> 1 [] period = "quarterly" -> 3 * MonthDays
                        [] period = "yearly" -> 12 * MonthDays [] period = "onetime" -> 0 [] OTHER -> MonthDays

\* The first loop: from the billing date on to the first charge of next month or
\* later.
FirstCharge(due, step) ==
    LET from[d \in due..(Max({due, MonthDays}) + step)] == IF d < MonthDays THEN from[d + step] ELSE d
    IN  from[due]

\* The second loop: every charge before the end of the projection.
Projected(l, s, m) ==
    LET step == PeriodStep(s.period)
        first == FirstCharge(s.due, step)
        ends  == (l.months + 1) * MonthDays
    IN  IF step = 0 THEN IF Month(s.due) = m /\ s.due >= MonthDays THEN s.cost ELSE 0
        ELSE s.cost * Cardinality({k \in 0..((ends - first) \div step) :
                                     first + k * step < ends /\ Month(first + k * step) = m})

----------------------------------------------------------------------------
(* What must hold of them.                                                 *)

\* "so the two lists partition dated services with no gap and no overlap"
\* (overdue.ts:7); every breakdown adds up to the monthly total, and a project's
\* part of it is the total its own page shows.
PartitionHolds(p) ==
    LET ahead == {UpcomingSorted(p)[n] : n \in DOMAIN UpcomingSorted(p)}
        dated == {i \in DOMAIN p.services : ~Metered(p.services[i]) /\ p.services[i].due # None}
        later == {i \in dated : p.services[i].due >= Horizon(p)}
    IN  /\ ahead \cup Overdue(p) \cup later = dated
        /\ ahead \cap Overdue(p) = {} /\ ahead \cap later = {} /\ Overdue(p) \cap later = {}
        /\ SumFunction(Breakdown(p, "account")) = MonthlyTotal(p)
        /\ SumFunction(Breakdown(p, "currency")) = MonthlyTotal(p)
        /\ \A q \in {p.services[i].project : i \in DOMAIN p.services} :
              Breakdown(p, "project")[q] = ProjectStats(p, q)

\* No conversion rounds: the code's decimals keep twenty digits, these are whole
\* numbers.
Exact(p) ==
    LET exactly(amount, from, to) == from = to \/ (amount * p.rates[from]) % p.rates[to] = 0
    IN  /\ \A a \in DOMAIN p.accounts :
              Prepaid(p.accounts[a]) => exactly(p.accounts[a].balance, p.accounts[a].currency, p.base)
        /\ \A i \in DOMAIN p.services :
              LET s == p.services[i]
              IN  exactly(s.cost, s.currency, p.base) /\ exactly(s.cost, s.currency, p.accounts[s.account].currency)

\* A top-up of the amount suggested covers every charge ahead of that account and
\* a smaller one does not; an account whose balance does not cover a charge of the
\* next seven days gets a suggestion; and once a charge is not covered, no later
\* one of the account is.  So where every rate is known and nothing is credited:
\* the schema lets a cost be negative, and a later credit would hide a shortfall.
TopUpSuffices(p) ==
    LET lines == Simulated(p).lines
        tops  == TopUps(p)
        uncovered(q, a) == \E n \in DOMAIN Simulated(q).lines :
                              Simulated(q).lines[n].account = a /\ Simulated(q).lines[n].covered = "no"
        with(a, more) == [p EXCEPT !.accounts[a].balance = @ + more]
    IN  (\A c \in DOMAIN p.rates : p.rates[c] # 0) /\ Exact(p) /\ (\A i \in DOMAIN p.services : p.services[i].cost >= 0) =>
        /\ \A a \in DOMAIN tops : ~uncovered(with(a, tops[a]), a) /\ uncovered(with(a, tops[a] - 1), a)
        /\ \A n \in DOMAIN lines : lines[n].covered = "no" /\ lines[n].days <= 7 => lines[n].account \in DOMAIN tops
        /\ \A n, m \in DOMAIN lines : n < m /\ lines[n].account = lines[m].account /\ lines[n].covered = "no"
                                      => lines[m].covered = "no"

\* The chart's current month is the card's ("keeps Actual consistent with the KPI
\* card"), its past months add up to what was spent in the window, and its
\* projected months hold the charges that fall into them: the billing date and
\* its repetitions, none dropped at the edges.
ChartAgrees(l) ==
    /\ ~Forced(l) =>
        /\ Actual(l, 0) = CurrentMonthPayments(l)
        /\ (\A i \in DOMAIN l.payments : Month(l.payments[i].day) \in (-l.monthsBack)..0)
           => Added([n \in 1..(l.monthsBack + 1) |-> Actual(l, 1 - n)]) = TotalSpent(l)
    /\ \A i \in DOMAIN l.services, m \in 1..l.months :
        LET s == l.services[i]
            dates == IF PeriodStep(s.period) = 0 THEN {s.due}
                     ELSE {d \in (m * MonthDays)..(m * MonthDays + MonthDays - 1) :
                              d >= s.due /\ (d - s.due) % PeriodStep(s.period) = 0}
        IN  Projected(l, s, m) = s.cost * Cardinality({d \in dates : Month(d) = m})
=============================================================================
