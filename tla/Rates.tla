------------------------------- MODULE Rates -------------------------------
(***************************************************************************)
(* Exchange rates (currency/): the newest rate of each currency, the archive*)
(* of daily rates past spend is valued with, and the calls that fill them: *)
(* the refresh at start, the daily job, and the panel's buttons.           *)
(* A rate is known by where it comes from; an archived one by its day.     *)
(***************************************************************************)
EXTENDS Integers, FiniteSets, Sequences

CONSTANTS
    Fiat,             \* the currencies of the central bank
    MaxDay,           \* bound: the last day
    Cutoff,           \* the archive reaches back far enough when it has this day
    STARTUP_REFRESH_ATTEMPTS,
    Holidays          \* days for which the central bank publishes nothing

ASSUME RatesAssumption ==
    /\ MaxDay \in Nat /\ Cutoff \in 1..MaxDay /\ STARTUP_REFRESH_ATTEMPTS \in Nat \ {0} /\ Holidays \subseteq 2..MaxDay
    /\ "USDT" \notin Fiat

USDT  == "USDT"
Codes == Fiat \cup {USDT}
Days  == 1..MaxDay           \* day 1 is BACKFILL_FROM
\* The refresh at start; and a refresh or backfill of the daily job or the panel
\* (bound: one of these at a time).
Calls == {"startup", "other"}

VARIABLES
    source,   \* Settings.rateSource
    live,     \* per fiat code, where the newest row of exchange_rates comes from
              \* (that of USDT is always the last quote)
    archive,  \* per code, the days of exchange_rates_daily
    today,
    up,       \* the process runs
    dailyDone,\* the job of 4 AM has been started today, or is not due any more
    call,     \* what each caller is doing
    lost,     \* history: the days whose USDT quote a failing source withheld
    masked    \* history: the days missing when a start that had today's quote was cut
              \* short, by its end or by midnight

vars == <<source, live, archive, today, up, dailyDone, call, lost, masked>>

Idle == [step |-> "idle", by |-> "none", src |-> "none", rows |-> {}, todo |-> {}, to |-> 0, attempt |-> 0]
At(c, step) == call[c].step = step

Init ==
    /\ source = "cbr"
    /\ live = [c \in Fiat |-> "none"]
    /\ archive = [c \in Codes |-> {}]
    /\ today = 1
    /\ up = FALSE
    /\ dailyDone = TRUE
    /\ call = [c \in Calls |-> Idle]
    /\ lost = {} /\ masked = {}

----------------------------------------------------------------------------
(* The life of the process, the calendar and the owner.                    *)

\* The days of the USDT quotes a call has in hand.
Fetched(c) == {r.day : r \in {x \in call[c].rows : x.code = USDT}}

Begin(c, by, step) == [call EXCEPT ![c] = [Idle EXCEPT !.step = step, !.by = by, !.attempt = 1]]

\* onApplicationBootstrap, before or after the hour of the daily job.
Start ==
    /\ ~up
    /\ up' = TRUE
    /\ dailyDone' \in BOOLEAN
    /\ call' = Begin("startup", "startup", "read")
    /\ UNCHANGED <<source, live, archive, today, lost, masked>>

\* A start cut short with `known` of today's days leaves a hole behind that today's
\* quote hides from every later start.
Mask(known) ==
    masked' = IF At("startup", "idle") \/ today \notin known THEN masked
              ELSE masked \cup (1..(today - 1) \ archive[USDT])

\* The process ends, whatever was under way with it.
Stop ==
    /\ up
    /\ up' = FALSE
    /\ dailyDone' = TRUE
    /\ call' = [c \in Calls |-> Idle]
    /\ Mask(archive[USDT])
    /\ UNCHANGED <<source, live, archive, today, lost>>

\* Midnight (UTC).  The job of 4 AM has run by then if the process was up; a
\* start may straddle one midnight, its timeouts being minutes.
NextDay ==
    /\ today < MaxDay
    /\ dailyDone /\ call["other"].by # "daily"
    /\ call["startup"].by # "late"
    /\ call' = IF At("startup", "idle") THEN call ELSE [call EXCEPT !["startup"].by = "late"]
    /\ today' = today + 1
    /\ dailyDone' = ~up
    /\ Mask(archive[USDT] \cup Fetched("startup") \cup Fetched("other"))
    /\ UNCHANGED <<source, live, archive, up, lost>>

\* scheduledRefresh.
DailyJob ==
    /\ up /\ ~dailyDone /\ At("other", "idle")
    /\ dailyDone' = TRUE
    /\ call' = Begin("other", "daily", "read")
    /\ UNCHANGED <<source, live, archive, today, up, lost, masked>>

\* RatesController.refresh and .backfill.
Request(step) ==
    /\ up /\ At("other", "idle")
    /\ call' = Begin("other", "request", step)
    /\ UNCHANGED <<source, live, archive, today, up, dailyDone, lost, masked>>

\* The panel's rate source.
SetSource ==
    /\ up
    /\ source' \in {"cbr", "manual"} \ {source}
    /\ UNCHANGED <<live, archive, today, up, dailyDone, call, lost, masked>>

\* addManualRate: accepted in either mode.
AddManualRate(c) ==
    /\ up
    /\ live' = [live EXCEPT ![c] = "manual"]
    /\ UNCHANGED <<source, archive, today, up, dailyDone, call, lost, masked>>

----------------------------------------------------------------------------
(* refreshRates.                                                           *)

\* The central bank's days; its feed carries the newest one, from noon on that
\* of tomorrow.
CbrDays == Days \ Holidays
Newest(days) == CHOOSE d \in days : \A e \in days : e <= d
Oldest(days) == CHOOSE d \in days : \A e \in days : e >= d
FeedDays == {Newest({d \in CbrDays : d <= today})} \cup (CbrDays \cap {today + 1})

\* What comes after the refresh: nothing, or at start the look at the archive.
After(c) == IF c = "startup" THEN [Idle EXCEPT !.step = "check", !.by = call[c].by] ELSE Idle

\* Mutant: the rate source is not looked at.
AlwaysFetch(c) == "cbr"
\* Where a refresh goes with the rate source it read.
FirstFetch(c) == IF source = "cbr" THEN "cbr" ELSE "usdt"

ReadSource(c) ==
    /\ At(c, "read")
    /\ call' = [call EXCEPT ![c].step = FirstFetch(c), ![c].src = source]
    /\ UNCHANGED <<source, live, archive, today, up, dailyDone, lost, masked>>

CbrAnswers(c) ==
    /\ At(c, "cbr")
    /\ \E d \in FeedDays :
        call' = [call EXCEPT ![c].step = "usdt", ![c].rows = {[code |-> f, day |-> d] : f \in Fiat}]
    /\ UNCHANGED <<source, live, archive, today, up, dailyDone, lost, masked>>

\* The failure of the central bank is that of the refresh: no USDT quote either.
\* At start it is tried again a few times.
CbrFails(c) ==
    /\ At(c, "cbr")
    /\ \/ /\ c = "startup" /\ call[c].attempt < STARTUP_REFRESH_ATTEMPTS
          /\ call' = [call EXCEPT ![c].step = "read", ![c].attempt = @ + 1]
          /\ lost' = lost
       \/ /\ ~(c = "startup" /\ call[c].attempt < STARTUP_REFRESH_ATTEMPTS)
          /\ call' = [call EXCEPT ![c] = After(c)]
          /\ lost' = IF call[c].by = "request" THEN lost ELSE lost \cup {today}
    /\ UNCHANGED <<source, live, archive, today, up, dailyDone, masked>>

UsdtAnswers(c) ==
    /\ At(c, "usdt")
    /\ call' = [call EXCEPT ![c].step = "live", ![c].rows = @ \cup {[code |-> USDT, day |-> today]}]
    /\ UNCHANGED <<source, live, archive, today, up, dailyDone, lost, masked>>

\* The failure of the USDT source costs only USDT.
UsdtFails(c) ==
    /\ At(c, "usdt")
    /\ call' = [call EXCEPT ![c] = IF @.rows = {} THEN After(c) ELSE [@ EXCEPT !.step = "live"]]
    /\ lost' = IF call[c].by = "request" THEN lost ELSE lost \cup {today}
    /\ UNCHANGED <<source, live, archive, today, up, dailyDone, masked>>

\* rates.createMany.
StoreLive(c) ==
    /\ At(c, "live")
    /\ live' = [k \in Fiat |-> IF \E r \in call[c].rows : r.code = k THEN "cbr" ELSE live[k]]
    /\ call' = [call EXCEPT ![c].step = "daily"]
    /\ UNCHANGED <<source, archive, today, up, dailyDone, lost, masked>>

\* daily.createMany: a day that is there stays as it is.
Archived(rows) == [k \in Codes |-> archive[k] \cup {r.day : r \in {x \in rows : x.code = k}}]
StoreDaily(c) ==
    /\ At(c, "daily")
    /\ archive' = Archived(call[c].rows)
    /\ call' = [call EXCEPT ![c] = After(c)]
    /\ UNCHANGED <<source, live, today, up, dailyDone, lost, masked>>

----------------------------------------------------------------------------
(* The archive: backfillIfMissing and backfillHistory.                     *)

\* expectedHistoryCodes.
Expected == IF source = "cbr" THEN Codes ELSE {USDT}

\* Mutant: today counts.
CoverageWithToday(k) == archive[k] \cap 1..today
\* daily.coverage: the stored days before today.
Coverage(k) == archive[k] \cap 1..(today - 1)

\* Only USDT is quoted every day.
Incomplete(k) ==
    \/ Coverage(k) = {}
    \/ Oldest(Coverage(k)) > Cutoff
    \/ k = USDT /\ Newest(Coverage(k)) < today - 1

BackfillIfMissing(c) ==
    /\ At(c, "check")
    /\ call' = [call EXCEPT ![c] = IF \E k \in Expected : Incomplete(k) THEN [@ EXCEPT !.step = "fill"] ELSE Idle]
    /\ UNCHANGED <<source, live, archive, today, up, dailyDone, lost, masked>>

BackfillHistory(c) ==
    /\ At(c, "fill")
    /\ call' = [call EXCEPT ![c].step = "history", ![c].to = today, ![c].todo = Expected]
    /\ UNCHANGED <<source, live, archive, today, up, dailyDone, lost, masked>>

\* One currency after the other, USDT last; then the call is over.
Turn(c, k) == At(c, "history") /\ k \in call[c].todo /\ (k = USDT => call[c].todo = {USDT})
Done(c, k) ==
    LET rest == call[c].todo \ {k}
    IN  [call EXCEPT ![c] = IF rest = {} THEN Idle ELSE [@ EXCEPT !.todo = rest]]

FillFiat(c, k) ==
    /\ Turn(c, k) /\ k \in Fiat
    /\ archive' = [archive EXCEPT ![k] = @ \cup {d \in CbrDays : d <= call[c].to}]
    /\ call' = Done(c, k)
    /\ UNCHANGED <<source, live, today, up, dailyDone, lost, masked>>

\* fetchUsdtRange: closed days only, paged backwards; without a cursor the pages
\* end early and the older days are missing.
FillUsdt(c) ==
    /\ Turn(c, USDT)
    /\ \E from \in 1..call[c].to :
        /\ archive' = [archive EXCEPT ![USDT] = @ \cup {d \in from..call[c].to : d < today}]
        /\ lost' = lost \cup 1..(from - 1)
    /\ call' = Done(c, USDT)
    /\ UNCHANGED <<source, live, today, up, dailyDone, masked>>

\* A currency that fails is named in the answer and left out; an empty answer for
\* USDT is a failure.
FillFails(c, k) ==
    /\ Turn(c, k)
    /\ lost' = IF k = USDT THEN lost \cup 1..call[c].to ELSE lost
    /\ call' = Done(c, k)
    /\ UNCHANGED <<source, live, archive, today, up, dailyDone, masked>>

Next ==
    \/ Start \/ Stop \/ NextDay \/ DailyJob \/ SetSource
    \/ \E step \in {"read", "fill"} : Request(step)
    \/ \E k \in Fiat : AddManualRate(k)
    \/ \E c \in Calls :
        \/ ReadSource(c) \/ CbrAnswers(c) \/ CbrFails(c) \/ UsdtAnswers(c) \/ UsdtFails(c)
        \/ StoreLive(c) \/ StoreDaily(c) \/ BackfillIfMissing(c) \/ BackfillHistory(c)
        \/ FillUsdt(c) \/ \E k \in Codes : FillFiat(c, k) \/ FillFails(c, k)

Spec == Init /\ [][Next]_vars

----------------------------------------------------------------------------
(* Valuing a past day: HistoricalRates.                                    *)

\* Mutant: the first day on or before the target is missed.
SearchStrict(days, day) ==
    LET find[w \in [lo : 1..(Len(days) + 1), hi : 0..Len(days), found : 1..Len(days)]] ==
            IF w.lo > w.hi THEN w.found
            ELSE LET mid == (w.lo + w.hi) \div 2
                 IN  find[IF days[mid] < day THEN [w EXCEPT !.lo = mid + 1, !.found = mid] ELSE [w EXCEPT !.hi = mid - 1]]
    IN  find[[lo |-> 1, hi |-> Len(days), found |-> 1]]

\* The binary search of asOf: the index of the newest day on or before `day`.
Search(days, day) ==
    LET find[w \in [lo : 1..(Len(days) + 1), hi : 0..Len(days), found : 1..Len(days)]] ==
            IF w.lo > w.hi THEN w.found
            ELSE LET mid == (w.lo + w.hi) \div 2
                 IN  find[IF days[mid] <= day THEN [w EXCEPT !.lo = mid + 1, !.found = mid] ELSE [w EXCEPT !.hi = mid - 1]]
    IN  find[[lo |-> 1, hi |-> Len(days), found |-> 1]]

AsOf(days, day) == IF day < days[1] THEN days[1] ELSE days[Search(days, day)]

\* getHistoricalRates: the rows loaded, oldest first; in manual mode not those of
\* the central bank, which are all a fiat currency has.
Loaded(k) == IF source = "manual" /\ k \in Fiat THEN {} ELSE archive[k]
Series(k) == [i \in 1..Cardinality(Loaded(k)) |->
                CHOOSE d \in Loaded(k) : Cardinality({e \in Loaded(k) : e <= d}) = i]

\* ratesOn: the archived day whose rate is used, or 0 for the newest rate.
RateDay(k, day) == LET days == Series(k) IN  IF days = <<>> THEN 0 ELSE AsOf(days, day)

----------------------------------------------------------------------------
(* Properties.                                                             *)

CallState == [step : {"idle", "read", "cbr", "usdt", "live", "daily", "check", "fill", "history"},
              by : {"none", "startup", "late", "daily", "request"}, src : {"none", "cbr", "manual"},
              rows : SUBSET [code : Codes, day : Days], todo : SUBSET Codes, to : 0..MaxDay,
              attempt : 0..STARTUP_REFRESH_ATTEMPTS]

\* Every table and call holds what it may hold; no quote of USDT is of a day to come.
TypeOK ==
    /\ source \in {"cbr", "manual"}
    /\ live \in [Fiat -> {"none", "cbr", "manual"}]
    /\ archive \in [Codes -> SUBSET Days]
    /\ today \in Days
    /\ up \in BOOLEAN /\ dailyDone \in BOOLEAN
    /\ call \in [Calls -> CallState]
    /\ lost \subseteq Days /\ masked \subseteq Days
    /\ archive[USDT] \cup Fetched("startup") \cup Fetched("other") \subseteq 1..today

\* With the rates entered by hand, what the owner entered stays: only a refresh
\* that read the rate source before the owner changed it puts a rate of the
\* central bank in its place.
ManualRateHoldsUnlessOvertaken ==
    [][\A k \in Fiat : source = "manual" /\ live[k] = "manual" /\ live'[k] # "manual"
        => \E c \in Calls : At(c, "live") /\ call[c].src = "cbr"]_vars

\* Past spend is valued at the newest rate on or before its day, for a day before
\* the archive at the oldest, for a currency without an archive (in manual mode:
\* a fiat one) at today's: "Lookup is newest day <= target, never an exact match".
LookupFindsNewest ==
    \A k \in Codes, day \in Days :
        LET known  == Loaded(k)
            before == {d \in known : d <= day}
        IN  RateDay(k, day) = IF known = {} THEN 0
                              ELSE IF before # {} THEN Newest(before) ELSE Oldest(known)

\* "Tops the archive up when it ... has a hole": once the start is over every past
\* day has its USDT quote, whatever the process missed while it was down, except a
\* day for which a source failed when it was asked, and except a day that was missing
\* when an earlier start had stored that day's quote and the process ended, or
\* midnight came, before the archive was topped up.  (backfillIfMissing leaves out
\* today's quote, which would mask the hole; tomorrow the same quote is not left out
\* and masks it.  That takes four days: one archived, one missing, one of the start
\* cut short, and the next.)
DowntimeIsFilled ==
    up /\ At("startup", "idle") => Cutoff..(today - 1) \subseteq archive[USDT] \cup lost \cup masked
=============================================================================
