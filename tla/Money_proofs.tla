---------------------------- MODULE Money_proofs ----------------------------
(***************************************************************************)
(* Proofs about Rates, for any currencies, calendar, holidays and number   *)
(* of attempts at start: rates entered by hand are not overwritten behind  *)
(* the owner's back, what the process missed while it was down is filled   *)
(* in at the next start, but for what a source withheld or a start cut     *)
(* short hides, and past spend is valued at the newest rate on or before   *)
(* its day.  And about what Money answers, for any services and payments:  *)
(* the lists ahead and overdue part the dated services, the breakdowns add *)
(* up, the top-ups suggested are what is missing, the chart, the cards and *)
(* the charges to come agree, and daily spend loses and doubles nothing.   *)
(*                                                                         *)
(* The archive is judged by its oldest and its newest day only, so the     *)
(* second result needs NothingHidden (no hole lies before a day that is    *)
(* stored and over) and TodaySeenTo (somebody stores today's quote before  *)
(* midnight makes it part of the past).  What loops compute is found by    *)
(* Induction, a fact about sets of numbers.                                *)
(***************************************************************************)
EXTENDS Rates, Money, FiniteSetTheorems, SequenceTheorems, WellFoundedInduction, TLAPS

\* What the calls may be doing: none without a process; a start is early or late; while
\* it fills the archive USDT is still to come, up to today or, after midnight, yesterday.
CallsFit ==
    /\ ~up => \A c \in Calls : call[c] = Idle
    /\ ~At("startup", "idle") => call["startup"].by \in {"startup", "late"}
    /\ At("startup", "history") =>
        /\ USDT \in call["startup"].todo
        /\ call["startup"].to \in {today - 1, today}
        /\ call["startup"].by # "late" => call["startup"].to = today

\* No unexcused hole up to day n.
Kept == archive[USDT] \cup lost \cup masked
Covered(n) == Cutoff..n \subseteq Kept

\* There is no unexcused hole before a stored day that is over, before a day fetched
\* and over, or before today while the process is down and today is stored: such a
\* hole would be hidden from the next start.
NothingHidden ==
    /\ \A e \in archive[USDT] : e < today => Covered(e)
    /\ \A c \in Calls : \A e \in Fetched(c) : e < today => Covered(e - 1)
    /\ ~up /\ today \in archive[USDT] => Covered(today - 1)

\* Somebody sees to today's quote while the process is up: it is there, or the daily
\* job is to come, or the job or the start that has it in hand.
InHand(c) ==
    \/ call[c].step \in {"read", "cbr", "usdt"}
    \/ call[c].step \in {"live", "daily"} /\ today \in Fetched(c)
TodaySeenTo ==
    up => \/ today \in Kept
          \/ ~dailyDone
          \/ call["other"].by = "daily" /\ InHand("other")
          \/ call["startup"].by = "startup" /\ InHand("startup")

RatesInv == TypeOK /\ CallsFit /\ DowntimeIsFilled /\ NothingHidden /\ TodaySeenTo

-----------------------------------------------------------------------------
(* The oldest and the newest day of a set of days.                         *)

\* A set of numbers has a least one.
LEMMA LeastExists ==
    ASSUME NEW S \in SUBSET Nat, S # {}
    PROVE  \E d \in S : \A e \in S : e >= d
<1>. DEFINE Less == {ss \in Nat \X Nat : ss[1] < ss[2]}
<1>1. OpToRel(<, Nat) = Less
    BY Zenon DEF OpToRel
<1>2. IsWellFoundedOn(Less, Nat)
    BY <1>1, NatLessThanWellFounded, Zenon
<1>. HIDE DEF Less
<1>3. PICK d \in S : \A e \in S : ~(<<e, d>> \in Less)
    BY <1>2, WFMin
<1>4. \A e \in S : <<e, d>> \in Less <=> e < d
    BY DEF Less
<1>5. \A e \in S : e >= d
    <2>. SUFFICES ASSUME NEW e \in S PROVE e >= d
        OBVIOUS
    <2>1. ~(e < d) /\ e \in Nat /\ d \in Nat
        BY <1>3, <1>4
    <2>. QED  BY <2>1
<1>. QED  BY <1>5

\* Induction: a set of numbers that has 0 and the successor of each of its members
\* has them all.
LEMMA Induction ==
    ASSUME NEW G \in SUBSET Nat, 0 \in G, \A n \in G : n + 1 \in G
    PROVE  G = Nat
<1>. SUFFICES ASSUME Nat \ G # {}  PROVE FALSE
    OBVIOUS
<1>1. PICK m \in Nat \ G : \A e \in Nat \ G : e >= m
    BY LeastExists
<1>2. m # 0 /\ m - 1 \in Nat /\ m - 1 \notin Nat \ G
    BY <1>1
<1>3. (m - 1) + 1 \in G
    BY <1>2
<1>. QED  BY <1>1, <1>2, <1>3

\* A set of days has a last one.
LEMMA GreatestExists ==
    ASSUME NEW n \in Nat, NEW S \in SUBSET (1 .. n), S # {}
    PROVE  \E d \in S : \A e \in S : e <= d
<1>. DEFINE R == {m \in 0 .. n : n - m \in S}
<1>1. R \in SUBSET Nat
    OBVIOUS
<1>2. R # {}
    <2>1. PICK d \in S : TRUE
        OBVIOUS
    <2>2. n - d \in 0 .. n /\ n - (n - d) = d
        BY <2>1
    <2>. QED  BY <2>1, <2>2
<1>3. PICK x \in R : \A y \in R : y >= x
    BY <1>1, <1>2, LeastExists
<1>4. \A e \in S : n - e \in R
    <2>1. \A e \in S : n - e \in 0 .. n /\ n - (n - e) = e
        OBVIOUS
    <2>. QED  BY <2>1
<1>5. n - x \in S /\ \A e \in S : e <= n - x
    BY <1>3, <1>4
<1>. QED  BY <1>5

\* Oldest and Newest are what their names say.
LEMMA EndsOfSet ==
    ASSUME NEW n \in Nat, NEW S \in SUBSET (1 .. n), S # {}
    PROVE  /\ Oldest(S) \in S /\ \A e \in S : e >= Oldest(S)
           /\ Newest(S) \in S /\ \A e \in S : e <= Newest(S)
<1>1. S \in SUBSET Nat
    OBVIOUS
<1>2. \E d \in S : \A e \in S : e >= d
    BY <1>1, LeastExists
<1>3. \E d \in S : \A e \in S : e <= d
    BY GreatestExists
<1>. QED  BY <1>2, <1>3 DEF Oldest, Newest

\* An archive found complete at start has yesterday's quote and one from before the
\* cutoff.
LEMMA CompleteArchive ==
    ASSUME TypeOK, ~Incomplete(USDT)
    PROVE  today - 1 \in archive[USDT]
<1>1. today - 1 \in Nat /\ Coverage(USDT) \in SUBSET (1 .. today - 1) /\ Coverage(USDT) # {}
    BY RatesAssumption DEF TypeOK, Days, Incomplete, Coverage
<1>2. Newest(Coverage(USDT)) \in Coverage(USDT)
    BY <1>1, EndsOfSet
<1>3. ~(Newest(Coverage(USDT)) < today - 1)
    BY DEF Incomplete
<1>. QED  BY <1>1, <1>2, <1>3 DEF Coverage, TypeOK, Days

\* The central bank's feed is of a day of the calendar.
LEMMA FeedIsOfADay ==
    ASSUME TypeOK
    PROVE  FeedDays \subseteq Days
<1>. DEFINE S == {d \in CbrDays : d <= today}
<1>1. today \in Nat /\ S \in SUBSET (1 .. today) /\ 1 \in S
    BY RatesAssumption DEF TypeOK, Days, CbrDays
<1>2. Newest(S) \in S
    BY <1>1, EndsOfSet
<1>. QED  BY <1>2 DEF FeedDays, CbrDays

-----------------------------------------------------------------------------
(* Calls.                                                                  *)

\* An idle call is a call, and holds no rows.
LEMMA IdleCall == Idle \in CallState /\ Idle.rows = {}
<1>. QED  BY RatesAssumption DEF Idle, CallState, Codes, Days

\* So is one that begins, and one that goes on after its refresh.
LEMMA BegunCall ==
    ASSUME NEW by \in {"startup", "daily", "request"}, NEW step \in {"read", "fill"}
    PROVE  /\ [Idle EXCEPT !.step = step, !.by = by, !.attempt = 1] \in CallState
           /\ [Idle EXCEPT !.step = step, !.by = by, !.attempt = 1].rows = {}
<1>1. 1 \in 0..STARTUP_REFRESH_ATTEMPTS
    BY RatesAssumption
<1>. QED  BY <1>1, IdleCall DEF CallState

LEMMA AfterCall ==
    ASSUME TypeOK, NEW c \in Calls
    PROVE  After(c) \in CallState /\ After(c).rows = {}
<1>1. call[c].by \in {"none", "startup", "late", "daily", "request"}
    BY DEF TypeOK, CallState
<1>2. [Idle EXCEPT !.step = "check", !.by = call[c].by] \in CallState
    BY <1>1, IdleCall DEF CallState
<1>. QED  BY <1>2, IdleCall DEF After, Idle

\* A call moves on: it is still a call, and has no quote of a day to come.
LEMMA CallMoves ==
    ASSUME TypeOK, NEW c \in Calls, NEW x \in CallState, call' = [call EXCEPT ![c] = x],
           \A r \in x.rows : r.code = USDT => r.day \in 1..today
    PROVE  /\ call' \in [Calls -> CallState]
           /\ Fetched("startup")' \cup Fetched("other")' \subseteq 1..today
<1>1. call' \in [Calls -> CallState]
    BY DEF TypeOK
<1>2. ASSUME NEW b \in Calls PROVE Fetched(b)' \subseteq 1..today
    <2>1. CASE b = c
        BY <2>1 DEF TypeOK, Fetched
    <2>2. CASE b # c
        <3>1. Fetched(b)' = Fetched(b)
            BY <2>2 DEF TypeOK, Fetched
        <3>. QED  BY <3>1, <1>2 DEF TypeOK, Calls
    <2>. QED  BY <2>1, <2>2
<1>. QED  BY <1>1, <1>2 DEF Calls

\* The quotes a call has in hand are rows of it.
LEMMA FetchedRows ==
    ASSUME TypeOK, NEW c \in Calls, NEW r \in call[c].rows, r.code = USDT
    PROVE  r.day \in Fetched(c) /\ r.day \in 1..today
<1>1. r.day \in Fetched(c)
    BY DEF Fetched
<1>. QED  BY <1>1 DEF TypeOK, Calls

\* Covered days stay covered while quotes are only added.
LEMMA CoveredStays ==
    ASSUME archive[USDT] \subseteq archive'[USDT], lost \subseteq lost', masked \subseteq masked'
    PROVE  Kept \subseteq Kept' /\ \A n : Covered(n) => Covered(n)'
<1>. QED  BY DEF Kept, Covered

\* A step that adds quotes or marks, and does not end a start, leaves the past filled.
LEMMA FilledStays ==
    ASSUME DowntimeIsFilled, UNCHANGED today, up' => up, At("startup", "idle")' => At("startup", "idle"),
           archive[USDT] \subseteq archive'[USDT], lost \subseteq lost', masked \subseteq masked'
    PROVE  DowntimeIsFilled'
<1>. QED  BY DEF DowntimeIsFilled, At

\* A step that stores and fetches nothing hides nothing.
LEMMA HiddenStays ==
    ASSUME NothingHidden, UNCHANGED <<archive, today, up>>, lost \subseteq lost', masked \subseteq masked',
           \A b \in Calls : Fetched(b)' \subseteq Fetched(b)
    PROVE  NothingHidden'
<1>1. \A n : Covered(n) => Covered(n)'
    BY CoveredStays
<1>. QED  BY <1>1 DEF NothingHidden

\* One currency is done with: the call is over if it was the last, USDT being last;
\* else that currency is off its list and nothing else about it changed.
LEMMA DoneCall ==
    ASSUME TypeOK, NEW c \in Calls, NEW k \in Codes, Turn(c, k), call' = Done(c, k)
    PROVE  /\ call' \in [Calls -> CallState]
           /\ \A b \in Calls \ {c} : call'[b] = call[b]
           /\ \A b \in Calls : Fetched(b)' \subseteq Fetched(b)
           /\ call[c].todo = {k} => call'[c] = Idle
           /\ call[c].todo # {k} =>
                /\ k # USDT
                /\ call'[c].todo = call[c].todo \ {k}
                /\ call'[c].step = "history" /\ call'[c].to = call[c].to /\ call'[c].by = call[c].by
<1>1. call[c] \in CallState /\ call[c].step = "history"
    BY DEF TypeOK, Turn, At
<1>. DEFINE x == IF call[c].todo = {k} THEN Idle ELSE [call[c] EXCEPT !.todo = @ \ {k}]
<1>2. call' = [call EXCEPT ![c] = x]
    <2>1. call[c].todo \ {k} = {} <=> call[c].todo = {k}
        BY DEF Turn
    <2>. QED  BY <2>1 DEF Done
<1>3. x \in CallState /\ x.rows \subseteq call[c].rows
    BY <1>1, IdleCall DEF CallState
<1>4. call[c].todo # {k} =>
        /\ x.todo = call[c].todo \ {k}
        /\ x.step = "history" /\ x.to = call[c].to /\ x.by = call[c].by
    BY <1>1 DEF CallState
<1>5. call[c].todo # {k} => k # USDT
    BY DEF Turn
<1>6. call'[c] = x /\ \A b \in Calls \ {c} : call'[b] = call[b]
    BY <1>2 DEF TypeOK
<1>7. call' \in [Calls -> CallState]
    BY <1>2, <1>3 DEF TypeOK
<1>8. \A b \in Calls : Fetched(b)' \subseteq Fetched(b)
    BY <1>3, <1>6 DEF Fetched
<1>. HIDE DEF x
<1>9. call[c].todo = {k} => call'[c] = Idle
    BY <1>6 DEF x
<1>. QED  BY <1>4, <1>5, <1>6, <1>7, <1>8, <1>9

-----------------------------------------------------------------------------
(* One lemma per step.                                                     *)

\* A start begins with the refresh.
LEMMA StartStep ==
    ASSUME RatesInv, Start
    PROVE  RatesInv'
<1>1. TypeOK'
    <2>. DEFINE x == [Idle EXCEPT !.step = "read", !.by = "startup", !.attempt = 1]
    <2>1. call' = [call EXCEPT !["startup"] = x] /\ x \in CallState /\ x.rows = {}
        BY BegunCall DEF Start, Begin
    <2>2. call' \in [Calls -> CallState] /\ Fetched("startup")' \cup Fetched("other")' \subseteq 1..today
        BY <2>1, CallMoves DEF RatesInv, Calls
    <2>. QED  BY <2>2 DEF RatesInv, TypeOK, Start
<1>2. CallsFit'
    BY RatesAssumption DEF RatesInv, TypeOK, CallState, Calls, Codes, Days, CallsFit, At, Idle,
        Start, Begin
<1>3. DowntimeIsFilled'
    BY DEF RatesInv, TypeOK, CallState, Calls, CallsFit, DowntimeIsFilled, At, Idle, Start,
        Begin
<1>4. NothingHidden'
    BY DEF RatesInv, TypeOK, CallState, Calls, NothingHidden, Covered, Kept, Fetched, Idle,
        Start, Begin
<1>5. TodaySeenTo'
    BY DEF RatesInv, TypeOK, CallState, Calls, TodaySeenTo, InHand, Kept, Fetched, At, Idle,
        Start, Begin
<1>. QED  BY <1>1, <1>2, <1>3, <1>4, <1>5 DEF RatesInv

\* What the start that is cut short leaves open is marked, if today's quote would
\* hide it.
LEMMA StopStep ==
    ASSUME RatesInv, Stop
    PROVE  RatesInv'
<1>1. TypeOK'
    <2>1. call' \in [Calls -> CallState] /\ Fetched("startup")' = {} /\ Fetched("other")' = {}
        BY IdleCall DEF Stop, Fetched, Calls
    <2>2. masked' \subseteq Days
        <3>1. 1..(today - 1) \subseteq Days
            BY RatesAssumption DEF RatesInv, TypeOK, Days
        <3>. QED  BY <3>1 DEF RatesInv, TypeOK, Stop, Mask
    <2>. QED  BY <2>1, <2>2 DEF RatesInv, TypeOK, Stop
<1>2. CallsFit'
    BY RatesAssumption DEF RatesInv, TypeOK, CallState, Calls, Codes, Days, CallsFit, At, Idle,
        Stop, Mask
<1>3. DowntimeIsFilled'
    BY DEF RatesInv, TypeOK, CallState, Calls, CallsFit, DowntimeIsFilled, At, Idle, Stop, Mask
<1>4. NothingHidden'
    <2>1. archive' = archive /\ lost' = lost /\ masked \subseteq masked' /\ today' = today
        BY DEF Stop, Mask
    <2>2. Kept \subseteq Kept' /\ \A n : Covered(n) => Covered(n)'
        BY <2>1, CoveredStays
    <2>3. \A c \in Calls : Fetched(c)' = {}
        BY IdleCall DEF Stop, Fetched
    <2>4. today \in archive[USDT] => Covered(today - 1)'
        <3>1. CASE At("startup", "idle")
            BY <2>2, <3>1 DEF RatesInv, DowntimeIsFilled, Covered, Kept, Stop
        <3>2. CASE ~At("startup", "idle")
            BY <3>2, RatesAssumption DEF RatesInv, TypeOK, Days, Covered, Kept, Stop, Mask
        <3>. QED  BY <3>1, <3>2
    <2>. QED  BY <2>1, <2>2, <2>3, <2>4 DEF RatesInv, NothingHidden
<1>5. TodaySeenTo'
    BY DEF RatesInv, TypeOK, CallState, Calls, TodaySeenTo, InHand, Kept, Fetched, At, Idle,
        Stop, Mask
<1>. QED  BY <1>1, <1>2, <1>3, <1>4, <1>5 DEF RatesInv

\* Today becomes the past: somebody saw to its quote, or the start under way is
\* marked or looks again.
LEMMA NextDayStep ==
    ASSUME RatesInv, NextDay
    PROVE  RatesInv'
<1>1. TypeOK'
    BY RatesAssumption DEF RatesInv, TypeOK, CallState, Calls, Codes, Days, Fetched, Idle,
        NextDay, Mask
<1>2. CallsFit'
    <2>1. call["startup"] \in CallState /\ call' \in [Calls -> CallState]
        BY <1>1 DEF RatesInv, TypeOK, Calls
    <2>2. CASE At("startup", "idle")
        BY <2>1, <2>2 DEF RatesInv, CallsFit, NextDay, At
    <2>3. CASE ~At("startup", "idle")
        <3>1. /\ call'["startup"] = [call["startup"] EXCEPT !.by = "late"]
              /\ today' = today + 1 /\ up' = up
            BY <2>3 DEF NextDay, RatesInv, TypeOK, Calls
        <3>2. up
            BY <2>3 DEF RatesInv, CallsFit, Calls, At, Idle
        <3>3. call["startup"].by # "late" /\ today \in Nat
            BY DEF NextDay, RatesInv, TypeOK, Days
        <3>. QED  BY <2>1, <3>1, <3>2, <3>3 DEF RatesInv, CallsFit, CallState, At
    <2>. QED  BY <2>2, <2>3
<1>3. DowntimeIsFilled'
    <2>1. archive' = archive /\ lost' = lost /\ masked \subseteq masked' /\ today' = today + 1 /\ up' = up
        BY DEF NextDay, Mask
    <2>2. Kept \subseteq Kept' /\ \A n : Covered(n) => Covered(n)'
        BY <2>1, CoveredStays
    <2>3. today \in Nat
        BY DEF RatesInv, TypeOK, Days
    <2>. SUFFICES ASSUME up, At("startup", "idle")'
                  PROVE  Cutoff..today \subseteq Kept'
        BY <2>1, <2>3 DEF DowntimeIsFilled, Kept, At
    <2>4. At("startup", "idle")
        BY DEF RatesInv, TypeOK, CallState, Calls, NextDay, At
    <2>5. Cutoff..(today - 1) \subseteq Kept
        BY <2>4 DEF RatesInv, DowntimeIsFilled, Kept
    <2>6. today \in Kept
        BY <2>4 DEF RatesInv, TodaySeenTo, InHand, At, NextDay
    <2>. QED  BY <2>2, <2>3, <2>5, <2>6, RatesAssumption
<1>4. NothingHidden'
    <2>1. archive' = archive /\ lost' = lost /\ masked \subseteq masked' /\ today' = today + 1 /\ up' = up
        BY DEF NextDay, Mask
    <2>2. Kept \subseteq Kept' /\ \A n : Covered(n) => Covered(n)'
        BY <2>1, CoveredStays
    <2>3. today \in Nat
        BY DEF RatesInv, TypeOK, Days
    <2>4. /\ today \in archive[USDT] => Cutoff..today \subseteq Kept'
          /\ \A c \in Calls : today \in Fetched(c) => Cutoff..(today - 1) \subseteq Kept'
        <3>1. ASSUME today \in archive[USDT] \cup Fetched("startup") \cup Fetched("other")
              PROVE  Cutoff..(today - 1) \subseteq Kept'
            <4>1. CASE At("startup", "idle") /\ up
                BY <2>2, <4>1 DEF RatesInv, DowntimeIsFilled, Kept
            <4>2. CASE ~At("startup", "idle")
                <5>1. masked' = masked \cup (1..(today - 1) \ archive[USDT])
                    BY <3>1, <4>2 DEF NextDay, Mask
                <5>2. 1..(today - 1) \subseteq Kept'
                    BY <2>1, <5>1 DEF Kept
                <5>. QED  BY <2>3, <5>2, RatesAssumption
            <4>3. CASE ~up
                <5>1. Fetched("startup") = {} /\ Fetched("other") = {}
                    BY <4>3, IdleCall DEF RatesInv, CallsFit, Fetched, Calls
                <5>2. Covered(today - 1)
                    BY <3>1, <4>3, <5>1 DEF RatesInv, NothingHidden
                <5>. QED  BY <2>2, <5>2 DEF Covered
            <4>. QED  BY <4>1, <4>2, <4>3
        <3>2. today \in archive[USDT] => Cutoff..today \subseteq Kept'
            <4>. SUFFICES ASSUME today \in archive[USDT] PROVE Cutoff..today \subseteq Kept'
                OBVIOUS
            <4>1. Cutoff..today \subseteq Cutoff..(today - 1) \cup {today}
                BY <2>3, RatesAssumption
            <4>. QED  BY <2>1, <3>1, <4>1 DEF Kept
        <3>. QED  BY <3>1, <3>2 DEF Calls
    <2>5. \A c \in Calls : Fetched(c)' = Fetched(c)
        BY DEF RatesInv, TypeOK, CallState, Calls, NextDay, Fetched
    <2>6. today + 1 \notin archive[USDT]
        BY <2>3 DEF RatesInv, TypeOK
    <2>7. \A e \in archive[USDT] : e < today + 1 => e < today \/ e = today
        BY <2>3 DEF RatesInv, TypeOK
    <2>8. \A c \in Calls : \A e \in Fetched(c) : e < today + 1 => e < today \/ e = today
        BY <2>3 DEF RatesInv, TypeOK, Calls
    <2>9. \A e \in archive[USDT] : e < today' => Covered(e)'
        BY <2>1, <2>2, <2>4, <2>7 DEF RatesInv, NothingHidden, Covered
    <2>10. \A c \in Calls : \A e \in Fetched(c)' : e < today' => Covered(e - 1)'
        BY <2>1, <2>2, <2>4, <2>5, <2>8 DEF RatesInv, NothingHidden, Covered
    <2>. QED  BY <2>1, <2>6, <2>9, <2>10 DEF NothingHidden
<1>5. TodaySeenTo'
    BY DEF RatesInv, TypeOK, CallState, Calls, TodaySeenTo, InHand, Kept, Fetched, At, Idle,
        NextDay, Mask
<1>. QED  BY <1>1, <1>2, <1>3, <1>4, <1>5 DEF RatesInv

\* The daily job takes today's quote in hand.
LEMMA DailyJobStep ==
    ASSUME RatesInv, DailyJob
    PROVE  RatesInv'
<1>1. TypeOK'
    <2>. DEFINE x == [Idle EXCEPT !.step = "read", !.by = "daily", !.attempt = 1]
    <2>1. call' = [call EXCEPT !["other"] = x] /\ x \in CallState /\ x.rows = {}
        BY BegunCall DEF DailyJob, Begin
    <2>2. call' \in [Calls -> CallState] /\ Fetched("startup")' \cup Fetched("other")' \subseteq 1..today
        BY <2>1, CallMoves DEF RatesInv, Calls
    <2>. QED  BY <2>2 DEF RatesInv, TypeOK, DailyJob
<1>2. CallsFit'
    BY RatesAssumption DEF RatesInv, TypeOK, CallState, Calls, Codes, Days, CallsFit, At, Idle,
        DailyJob, Begin
<1>3. DowntimeIsFilled'
    BY DEF RatesInv, TypeOK, CallState, Calls, CallsFit, DowntimeIsFilled, At, Idle, DailyJob,
        Begin
<1>4. NothingHidden'
    BY DEF RatesInv, TypeOK, CallState, Calls, NothingHidden, Covered, Kept, Fetched, Idle,
        DailyJob, Begin
<1>5. TodaySeenTo'
    BY DEF RatesInv, TypeOK, CallState, Calls, TodaySeenTo, InHand, Kept, Fetched, At, Idle,
        DailyJob, Begin
<1>. QED  BY <1>1, <1>2, <1>3, <1>4, <1>5 DEF RatesInv

\* The rate source is not part of the archive.
LEMMA SetSourceStep ==
    ASSUME RatesInv, SetSource
    PROVE  RatesInv'
<1>1. TypeOK'
    BY RatesAssumption DEF RatesInv, TypeOK, CallState, Calls, Codes, Days, Fetched, Idle,
        SetSource
<1>2. CallsFit'
    BY RatesAssumption DEF RatesInv, TypeOK, CallState, Calls, Codes, Days, CallsFit, At, Idle,
        SetSource
<1>3. DowntimeIsFilled'
    BY DEF RatesInv, TypeOK, CallState, Calls, CallsFit, DowntimeIsFilled, At, Idle, SetSource
<1>4. NothingHidden'
    BY DEF RatesInv, TypeOK, CallState, Calls, NothingHidden, Covered, Kept, Fetched, Idle,
        SetSource
<1>5. TodaySeenTo'
    BY DEF RatesInv, TypeOK, CallState, Calls, TodaySeenTo, InHand, Kept, Fetched, At, Idle,
        SetSource
<1>. QED  BY <1>1, <1>2, <1>3, <1>4, <1>5 DEF RatesInv

\* A call of the panel.
LEMMA RequestStep ==
    ASSUME RatesInv, NEW step \in {"read", "fill"}, Request(step)
    PROVE  RatesInv'
<1>1. TypeOK'
    <2>. DEFINE x == [Idle EXCEPT !.step = step, !.by = "request", !.attempt = 1]
    <2>1. call' = [call EXCEPT !["other"] = x] /\ x \in CallState /\ x.rows = {}
        BY BegunCall DEF Request, Begin
    <2>2. call' \in [Calls -> CallState] /\ Fetched("startup")' \cup Fetched("other")' \subseteq 1..today
        BY <2>1, CallMoves DEF RatesInv, Calls
    <2>. QED  BY <2>2 DEF RatesInv, TypeOK, Request
<1>2. CallsFit'
    BY RatesAssumption DEF RatesInv, TypeOK, CallState, Calls, Codes, Days, CallsFit, At, Idle,
        Request, Begin
<1>3. DowntimeIsFilled'
    BY DEF RatesInv, TypeOK, CallState, Calls, CallsFit, DowntimeIsFilled, At, Idle, Request,
        Begin
<1>4. NothingHidden'
    BY DEF RatesInv, TypeOK, CallState, Calls, NothingHidden, Covered, Kept, Fetched, Idle,
        Request, Begin
<1>5. TodaySeenTo'
    BY DEF RatesInv, TypeOK, CallState, Calls, TodaySeenTo, InHand, Kept, Fetched, At, Idle,
        Request, Begin
<1>. QED  BY <1>1, <1>2, <1>3, <1>4, <1>5 DEF RatesInv

\* The newest rates are not part of the archive.
LEMMA AddManualRateStep ==
    ASSUME RatesInv, NEW k \in Fiat, AddManualRate(k)
    PROVE  RatesInv'
<1>1. TypeOK'
    BY RatesAssumption DEF RatesInv, TypeOK, CallState, Calls, Codes, Days, Fetched, Idle,
        AddManualRate
<1>2. CallsFit'
    BY RatesAssumption DEF RatesInv, TypeOK, CallState, Calls, Codes, Days, CallsFit, At, Idle,
        AddManualRate
<1>3. DowntimeIsFilled'
    BY DEF RatesInv, TypeOK, CallState, Calls, CallsFit, DowntimeIsFilled, At, Idle,
        AddManualRate
<1>4. NothingHidden'
    BY DEF RatesInv, TypeOK, CallState, Calls, NothingHidden, Covered, Kept, Fetched, Idle,
        AddManualRate
<1>5. TodaySeenTo'
    BY DEF RatesInv, TypeOK, CallState, Calls, TodaySeenTo, InHand, Kept, Fetched, At, Idle,
        AddManualRate
<1>. QED  BY <1>1, <1>2, <1>3, <1>4, <1>5 DEF RatesInv

\* The quote is still in hand.
LEMMA ReadSourceStep ==
    ASSUME RatesInv, NEW c \in Calls, ReadSource(c)
    PROVE  RatesInv'
<1>1. TypeOK'
    BY RatesAssumption, SMTT(60) DEF RatesInv, TypeOK, CallState, Calls, Codes, Days, Fetched, Idle,
        ReadSource, FirstFetch
<1>2. CallsFit'
    BY RatesAssumption DEF RatesInv, TypeOK, CallState, Calls, Codes, Days, CallsFit, At, Idle,
        ReadSource, FirstFetch
<1>3. DowntimeIsFilled'
    BY DEF RatesInv, TypeOK, CallState, Calls, CallsFit, DowntimeIsFilled, At, Idle, ReadSource,
        FirstFetch
<1>4. NothingHidden'
    BY DEF RatesInv, TypeOK, CallState, Calls, NothingHidden, Covered, Kept, Fetched, Idle,
        ReadSource, FirstFetch
<1>5. TodaySeenTo'
    BY DEF RatesInv, TypeOK, CallState, Calls, TodaySeenTo, InHand, Kept, Fetched, At, Idle,
        ReadSource, FirstFetch
<1>. QED  BY <1>1, <1>2, <1>3, <1>4, <1>5 DEF RatesInv

\* Rows of the central bank are not of USDT.
LEMMA CbrAnswersStep ==
    ASSUME RatesInv, NEW c \in Calls, CbrAnswers(c)
    PROVE  RatesInv'
<1>1. TypeOK'
    BY RatesAssumption, SMTT(60) DEF RatesInv, TypeOK, CallState, Calls, Codes, Days, Fetched, Idle,
        CbrAnswers
<1>2. CallsFit'
    BY RatesAssumption DEF RatesInv, TypeOK, CallState, Calls, Codes, Days, CallsFit, At, Idle,
        CbrAnswers
<1>3. DowntimeIsFilled'
    BY DEF RatesInv, TypeOK, CallState, Calls, CallsFit, DowntimeIsFilled, At, Idle, CbrAnswers
<1>4. NothingHidden'
    BY DEF RatesInv, TypeOK, CallState, Calls, NothingHidden, Covered, Kept, Fetched, Idle,
        CbrAnswers
<1>5. TodaySeenTo'
    BY DEF RatesInv, TypeOK, CallState, Calls, TodaySeenTo, InHand, Kept, Fetched, At, Idle,
        CbrAnswers
<1>. QED  BY <1>1, <1>2, <1>3, <1>4, <1>5 DEF RatesInv

\* The quote is given up, and marked; or the start tries again.
LEMMA CbrFailsStep ==
    ASSUME RatesInv, NEW c \in Calls, CbrFails(c)
    PROVE  RatesInv'
<1>0. /\ \A b \in Calls \ {c} : call'[b] = call[b]
      /\ call'[c].rows \subseteq call[c].rows
      /\ call'[c].step \in {"read", "check", "idle"}
      /\ c = "startup" => call'[c].step # "idle" /\ call'[c].by = call[c].by
      /\ lost \subseteq lost' /\ UNCHANGED <<archive, today, up, masked>>
    <2>1. call[c] \in CallState
        BY DEF RatesInv, TypeOK
    <2>2. call' = [call EXCEPT ![c] = After(c)] \/ call' = [call EXCEPT ![c].step = "read", ![c].attempt = @ + 1]
        BY DEF CbrFails
    <2>3. call' = [call EXCEPT ![c].step = "read", ![c].attempt = @ + 1] =>
            call'[c].rows = call[c].rows /\ call'[c].step = "read" /\ call'[c].by = call[c].by
        BY <2>1 DEF RatesInv, TypeOK, CallState
    <2>4. call' = [call EXCEPT ![c] = After(c)] =>
            /\ call'[c].rows = {} /\ call'[c].step \in {"check", "idle"}
            /\ c = "startup" => call'[c].step = "check" /\ call'[c].by = call[c].by
        <3>. SUFFICES ASSUME call' = [call EXCEPT ![c] = After(c)]
                      PROVE  /\ call'[c].rows = {} /\ call'[c].step \in {"check", "idle"}
                             /\ c = "startup" => call'[c].step = "check" /\ call'[c].by = call[c].by
            OBVIOUS
        <3>1. call'[c] = After(c)
            BY DEF RatesInv, TypeOK
        <3>2. c = "startup" => After(c).step = "check" /\ After(c).by = call[c].by
            BY DEF After, Idle
        <3>3. After(c).step \in {"check", "idle"}
            BY DEF After, Idle
        <3>. QED  BY <3>1, <3>2, <3>3, AfterCall DEF RatesInv
    <2>5. \A b \in Calls \ {c} : call'[b] = call[b]
        BY <2>2 DEF RatesInv, TypeOK
    <2>6. lost \subseteq lost' /\ UNCHANGED <<archive, today, up, masked>>
        BY DEF CbrFails
    <2>. QED  BY <2>2, <2>3, <2>4, <2>5, <2>6
<1>1. TypeOK'
    <2>0. call[c] \in CallState
        BY DEF RatesInv, TypeOK
    <2>1. CASE c = "startup" /\ call[c].attempt < STARTUP_REFRESH_ATTEMPTS
        <3>. DEFINE x == [call[c] EXCEPT !.step = "read", !.attempt = @ + 1]
        <3>1. call' = [call EXCEPT ![c] = x] /\ lost' = lost
            BY <2>1, ZenonT(60) DEF CbrFails
        <3>2. x \in CallState
            <4>1. call[c].attempt + 1 \in 0..STARTUP_REFRESH_ATTEMPTS
                BY <2>0, <2>1, RatesAssumption DEF CallState
            <4>. QED  BY <2>0, <4>1 DEF CallState
        <3>3. x.rows = call[c].rows
            BY <2>0 DEF CallState
        <3>4. \A r \in x.rows : r.code = USDT => r.day \in 1..today
            BY <3>3, FetchedRows DEF RatesInv
        <3>5. /\ call' \in [Calls -> CallState]
              /\ Fetched("startup")' \cup Fetched("other")' \subseteq 1..today
            BY <3>1, <3>2, <3>4, CallMoves DEF RatesInv
        <3>. QED  BY <3>1, <3>5 DEF RatesInv, TypeOK, CbrFails
    <2>2. CASE ~(c = "startup" /\ call[c].attempt < STARTUP_REFRESH_ATTEMPTS)
        <3>1. /\ call' = [call EXCEPT ![c] = After(c)]
              /\ lost' \subseteq lost \cup {today}
            BY <2>2 DEF CbrFails
        <3>2. /\ call' \in [Calls -> CallState]
              /\ Fetched("startup")' \cup Fetched("other")' \subseteq 1..today
            BY <3>1, AfterCall, CallMoves DEF RatesInv
        <3>. QED  BY <3>1, <3>2 DEF RatesInv, TypeOK, CbrFails
    <2>. QED  BY <2>1, <2>2
<1>2. CallsFit'
    BY <1>0 DEF RatesInv, CallsFit, Calls, At, Idle, CbrFails
<1>3. DowntimeIsFilled'
    <2>1. At("startup", "idle")' => At("startup", "idle")
        BY <1>0 DEF Calls, At
    <2>. QED  BY <1>0, <2>1, FilledStays DEF RatesInv
<1>4. NothingHidden'
    <2>1. \A b \in Calls : Fetched(b)' \subseteq Fetched(b)
        BY <1>0 DEF Fetched
    <2>. QED  BY <1>0, <2>1, HiddenStays DEF RatesInv
<1>5. TodaySeenTo'
    BY DEF RatesInv, TypeOK, CallState, Calls, TodaySeenTo, InHand, Kept, Fetched, At, Idle,
        CbrFails, After
<1>. QED  BY <1>1, <1>2, <1>3, <1>4, <1>5 DEF RatesInv

\* Today's quote is fetched.
LEMMA UsdtAnswersStep ==
    ASSUME RatesInv, NEW c \in Calls, UsdtAnswers(c)
    PROVE  RatesInv'
<1>1. TypeOK'
    BY RatesAssumption, SMTT(60) DEF RatesInv, TypeOK, CallState, Calls, Codes, Days, Fetched, Idle,
        UsdtAnswers
<1>2. CallsFit'
    BY RatesAssumption DEF RatesInv, TypeOK, CallState, Calls, Codes, Days, CallsFit, At, Idle,
        UsdtAnswers
<1>3. DowntimeIsFilled'
    BY DEF RatesInv, TypeOK, CallState, Calls, CallsFit, DowntimeIsFilled, At, Idle, UsdtAnswers
<1>4. NothingHidden'
    BY DEF RatesInv, TypeOK, CallState, Calls, NothingHidden, Covered, Kept, Fetched, Idle,
        UsdtAnswers
<1>5. TodaySeenTo'
    <2>. DEFINE row == [code |-> USDT, day |-> today]
    <2>1. /\ call'[c].step = "live" /\ call'[c].by = call[c].by
          /\ call'[c].rows = call[c].rows \cup {row}
          /\ \A b \in Calls \ {c} : call'[b] = call[b]
        BY DEF RatesInv, TypeOK, CallState, UsdtAnswers
    <2>2. today \in Fetched(c)'
        <3>1. row \in call'[c].rows /\ row.code = USDT /\ row.day = today
            BY <2>1
        <3>. HIDE DEF row
        <3>. QED  BY <3>1 DEF Fetched
    <2>3. InHand(c)' /\ \A b \in Calls \ {c} : InHand(b) => InHand(b)'
        BY <2>1, <2>2 DEF InHand, Fetched, UsdtAnswers
    <2>4. UNCHANGED <<archive, today, up, dailyDone, lost, masked>>
        BY DEF UsdtAnswers
    <2>. QED  BY <2>1, <2>3, <2>4 DEF RatesInv, TodaySeenTo, Kept, Calls
<1>. QED  BY <1>1, <1>2, <1>3, <1>4, <1>5 DEF RatesInv

\* The quote is given up, and marked.
LEMMA UsdtFailsStep ==
    ASSUME RatesInv, NEW c \in Calls, UsdtFails(c)
    PROVE  RatesInv'
<1>1. TypeOK'
    <2>0. call[c] \in CallState
        BY DEF RatesInv, TypeOK
    <2>. DEFINE x == IF call[c].rows = {} THEN After(c) ELSE [call[c] EXCEPT !.step = "live"]
    <2>1. call' = [call EXCEPT ![c] = x] /\ lost' \subseteq lost \cup {today}
        BY DEF UsdtFails
    <2>2. x \in CallState /\ x.rows \subseteq call[c].rows
        BY <2>0, AfterCall DEF RatesInv, CallState
    <2>3. \A r \in x.rows : r.code = USDT => r.day \in 1..today
        BY <2>2, FetchedRows DEF RatesInv
    <2>4. /\ call' \in [Calls -> CallState]
          /\ Fetched("startup")' \cup Fetched("other")' \subseteq 1..today
        BY <2>1, <2>2, <2>3, CallMoves DEF RatesInv
    <2>. QED  BY <2>1, <2>4 DEF RatesInv, TypeOK, UsdtFails
<1>2. CallsFit'
    BY RatesAssumption DEF RatesInv, TypeOK, CallState, Calls, Codes, Days, CallsFit, At, Idle,
        UsdtFails, After
<1>3. DowntimeIsFilled'
    BY DEF RatesInv, TypeOK, CallState, Calls, CallsFit, DowntimeIsFilled, At, Idle, UsdtFails,
        After
<1>4. NothingHidden'
    BY DEF RatesInv, TypeOK, CallState, Calls, NothingHidden, Covered, Kept, Fetched, Idle,
        UsdtFails, After
<1>5. TodaySeenTo'
    BY DEF RatesInv, TypeOK, CallState, Calls, TodaySeenTo, InHand, Kept, Fetched, At, Idle,
        UsdtFails, After
<1>. QED  BY <1>1, <1>2, <1>3, <1>4, <1>5 DEF RatesInv

\* The rows are still in hand.
LEMMA StoreLiveStep ==
    ASSUME RatesInv, NEW c \in Calls, StoreLive(c)
    PROVE  RatesInv'
<1>1. TypeOK'
    BY RatesAssumption DEF RatesInv, TypeOK, CallState, Calls, Codes, Days, Fetched, Idle,
        StoreLive
<1>2. CallsFit'
    BY RatesAssumption DEF RatesInv, TypeOK, CallState, Calls, Codes, Days, CallsFit, At, Idle,
        StoreLive
<1>3. DowntimeIsFilled'
    BY DEF RatesInv, TypeOK, CallState, Calls, CallsFit, DowntimeIsFilled, At, Idle, StoreLive
<1>4. NothingHidden'
    BY DEF RatesInv, TypeOK, CallState, Calls, NothingHidden, Covered, Kept, Fetched, Idle,
        StoreLive
<1>5. TodaySeenTo'
    BY DEF RatesInv, TypeOK, CallState, Calls, TodaySeenTo, InHand, Kept, Fetched, At, Idle,
        StoreLive
<1>. QED  BY <1>1, <1>2, <1>3, <1>4, <1>5 DEF RatesInv

\* What was fetched is stored; it hides no hole.
LEMMA StoreDailyStep ==
    ASSUME RatesInv, NEW c \in Calls, StoreDaily(c)
    PROVE  RatesInv'
<1>0. /\ archive' \in [Codes -> SUBSET Days]
      /\ archive'[USDT] = archive[USDT] \cup Fetched(c)
      /\ call' = [call EXCEPT ![c] = After(c)]
      /\ UNCHANGED <<today, up, dailyDone, lost, masked>>
    <2>1. \A k \in Codes : {r.day : r \in {x \in call[c].rows : x.code = k}} \subseteq Days
        BY DEF RatesInv, TypeOK, CallState
    <2>. QED  BY <2>1 DEF RatesInv, TypeOK, StoreDaily, Archived, Codes, Fetched
<1>1. TypeOK'
    <2>1. /\ call' \in [Calls -> CallState]
          /\ Fetched("startup")' \cup Fetched("other")' \subseteq 1..today
        BY <1>0, AfterCall, CallMoves DEF RatesInv
    <2>2. archive'[USDT] \subseteq 1..today
        BY <1>0 DEF RatesInv, TypeOK, Calls
    <2>. QED  BY <1>0, <2>1, <2>2 DEF RatesInv, TypeOK, StoreDaily
<1>2. CallsFit'
    BY RatesAssumption DEF RatesInv, TypeOK, CallState, Calls, Codes, Days, CallsFit, At, Idle,
        StoreDaily, Archived, After
<1>3. DowntimeIsFilled'
    <2>1. At("startup", "idle")' => At("startup", "idle")
        BY <1>0 DEF RatesInv, TypeOK, After, Idle, At, Calls
    <2>. QED  BY <1>0, <2>1, FilledStays DEF RatesInv
<1>4. NothingHidden'
    <2>1. \A n : Covered(n) => Covered(n)'
        BY <1>0, CoveredStays
    <2>2. up
        BY DEF RatesInv, CallsFit, StoreDaily, At, Idle
    <2>3. \A b \in Calls : Fetched(b)' \subseteq Fetched(b)
        BY <1>0, AfterCall DEF RatesInv, TypeOK, Fetched
    <2>4. ASSUME NEW e \in Fetched(c), e < today PROVE Covered(e)'
        <3>1. Covered(e - 1)' /\ e \in Kept' /\ e \in Nat
            BY <1>0, <2>1, <2>4 DEF RatesInv, NothingHidden, Kept, TypeOK, Calls
        <3>. QED  BY <3>1, RatesAssumption DEF Covered
    <2>. QED  BY <1>0, <2>1, <2>2, <2>3, <2>4 DEF RatesInv, NothingHidden
<1>5. TodaySeenTo'
    <2>1. \A b \in Calls \ {c} : call'[b] = call[b]
        BY <1>0 DEF RatesInv, TypeOK
    <2>2. \A b \in Calls \ {c} : InHand(b) => InHand(b)'
        BY <1>0, <2>1 DEF InHand, Fetched
    <2>3. InHand(c) => today \in Kept'
        BY <1>0 DEF InHand, Kept, StoreDaily, At
    <2>. QED  BY <1>0, <2>1, <2>2, <2>3 DEF RatesInv, TodaySeenTo, Kept, Calls
<1>. QED  BY <1>1, <1>2, <1>3, <1>4, <1>5 DEF RatesInv

\* A start ends here only with yesterday's quote in the archive.
LEMMA BackfillIfMissingStep ==
    ASSUME RatesInv, NEW c \in Calls, BackfillIfMissing(c)
    PROVE  RatesInv'
<1>1. TypeOK'
    BY RatesAssumption DEF RatesInv, TypeOK, CallState, Calls, Codes, Days, Fetched, Idle,
        BackfillIfMissing
<1>2. CallsFit'
    BY RatesAssumption DEF RatesInv, TypeOK, CallState, Calls, Codes, Days, CallsFit, At, Idle,
        BackfillIfMissing
<1>3. DowntimeIsFilled'
    <2>1. UNCHANGED <<archive, today, up, lost, masked>>
        BY DEF BackfillIfMissing
    <2>2. CASE At("startup", "idle")' => At("startup", "idle")
        BY <2>1, <2>2, FilledStays DEF RatesInv
    <2>3. CASE At("startup", "idle")' /\ ~At("startup", "idle")
        <3>1. ~Incomplete(USDT)
            <4>1. c = "startup"
                BY <2>3 DEF BackfillIfMissing, RatesInv, TypeOK, At, Calls
            <4>2. ASSUME Incomplete(USDT) PROVE FALSE
                <5>1. USDT \in Expected
                    BY DEF Expected, Codes
                <5>2. call'["startup"].step = "fill"
                    BY <4>1, <4>2, <5>1 DEF BackfillIfMissing, RatesInv, TypeOK, CallState, Calls
                <5>. QED  BY <2>3, <5>2 DEF At
            <4>. QED  BY <4>2
        <3>2. today - 1 \in archive[USDT] /\ today \in Nat
            BY <3>1, CompleteArchive DEF RatesInv, TypeOK, Days
        <3>3. Covered(today - 1)
            BY <3>2 DEF RatesInv, NothingHidden
        <3>. QED  BY <2>1, <3>3 DEF DowntimeIsFilled, Covered, Kept
    <2>. QED  BY <2>2, <2>3
<1>4. NothingHidden'
    BY DEF RatesInv, TypeOK, CallState, Calls, NothingHidden, Covered, Kept, Fetched, Idle,
        BackfillIfMissing
<1>5. TodaySeenTo'
    BY DEF RatesInv, TypeOK, CallState, Calls, TodaySeenTo, InHand, Kept, Fetched, At, Idle,
        BackfillIfMissing
<1>. QED  BY <1>1, <1>2, <1>3, <1>4, <1>5 DEF RatesInv

\* The archive is filled up to today.
LEMMA BackfillHistoryStep ==
    ASSUME RatesInv, NEW c \in Calls, BackfillHistory(c)
    PROVE  RatesInv'
<1>1. TypeOK'
    <2>0. call[c] \in CallState /\ Expected \subseteq Codes /\ today \in 0..MaxDay
        BY DEF RatesInv, TypeOK, Days, Expected, Codes
    <2>. DEFINE x == [call[c] EXCEPT !.step = "history", !.to = today, !.todo = Expected]
    <2>1. call' = [call EXCEPT ![c] = x]
        BY DEF BackfillHistory
    <2>2. x \in CallState /\ x.rows = call[c].rows
        BY <2>0 DEF CallState
    <2>3. \A r \in x.rows : r.code = USDT => r.day \in 1..today
        BY <2>2, FetchedRows DEF RatesInv
    <2>4. /\ call' \in [Calls -> CallState]
          /\ Fetched("startup")' \cup Fetched("other")' \subseteq 1..today
        BY <2>1, <2>2, <2>3, CallMoves DEF RatesInv
    <2>. QED  BY <2>4 DEF RatesInv, TypeOK, BackfillHistory
<1>2. CallsFit'
    BY RatesAssumption DEF RatesInv, TypeOK, CallState, Calls, Codes, Days, CallsFit, At, Idle,
        BackfillHistory, Expected
<1>3. DowntimeIsFilled'
    BY DEF RatesInv, TypeOK, CallState, Calls, CallsFit, DowntimeIsFilled, At, Idle,
        BackfillHistory, Expected
<1>4. NothingHidden'
    BY SMTT(60) DEF RatesInv, TypeOK, CallState, Calls, NothingHidden, Covered, Kept, Fetched, Idle,
        BackfillHistory, Expected
<1>5. TodaySeenTo'
    BY DEF RatesInv, TypeOK, CallState, Calls, TodaySeenTo, InHand, Kept, Fetched, At, Idle,
        BackfillHistory, Expected
<1>. QED  BY <1>1, <1>2, <1>3, <1>4, <1>5 DEF RatesInv

\* The central bank's days are not of USDT, and USDT is still to come.
LEMMA FillFiatStep ==
    ASSUME RatesInv, NEW c \in Calls, NEW k \in Codes, FillFiat(c, k)
    PROVE  RatesInv'
<1>0. /\ call' \in [Calls -> CallState]
      /\ \A b \in Calls \ {c} : call'[b] = call[b]
      /\ \A b \in Calls : Fetched(b)' \subseteq Fetched(b)
      /\ call[c].todo = {k} => call'[c] = Idle
      /\ call[c].todo # {k} =>
            /\ k # USDT
            /\ call'[c].todo = call[c].todo \ {k}
            /\ call'[c].step = "history" /\ call'[c].to = call[c].to /\ call'[c].by = call[c].by
    BY DoneCall DEF RatesInv, FillFiat, Codes
<1>a. /\ call[c].step = "history" /\ up
      /\ k = USDT => call[c].todo = {USDT}
      /\ call[c].to \in 0..MaxDay
      /\ c = "startup" => USDT \in call[c].todo /\ call[c].to \in {today - 1, today}
    BY DEF RatesInv, TypeOK, CallState, CallsFit, FillFiat, Turn, At, Idle, Calls
<1>1. TypeOK'
    <2>1. Fetched("startup")' \cup Fetched("other")' \subseteq 1..today
        BY <1>0 DEF RatesInv, TypeOK, Calls
    <2>2. archive' \in [Codes -> SUBSET Days] /\ archive'[USDT] = archive[USDT]
        BY RatesAssumption DEF RatesInv, TypeOK, FillFiat, CbrDays, Codes, USDT
    <2>. QED  BY <1>0, <2>1, <2>2 DEF RatesInv, TypeOK, FillFiat
<1>2. CallsFit'
    BY <1>0, <1>a DEF RatesInv, CallsFit, Calls, At, Idle, FillFiat
<1>3. DowntimeIsFilled'
    <2>1. archive'[USDT] = archive[USDT] /\ UNCHANGED <<today, up, lost, masked>>
        BY RatesAssumption DEF RatesInv, TypeOK, FillFiat, Codes, USDT
    <2>2. k # USDT
        BY RatesAssumption DEF FillFiat, USDT
    <2>3. At("startup", "idle")' => At("startup", "idle")
        BY <1>0, <1>a, <2>2 DEF Calls, At
    <2>. QED  BY <2>1, <2>3, FilledStays DEF RatesInv
<1>4. NothingHidden'
    <2>1. archive'[USDT] = archive[USDT] /\ UNCHANGED <<today, up, lost, masked>>
        BY RatesAssumption DEF RatesInv, TypeOK, FillFiat, Codes, USDT
    <2>2. \A n : Covered(n) <=> Covered(n)'
        BY <2>1 DEF Covered, Kept
    <2>. QED  BY <1>0, <2>1, <2>2 DEF RatesInv, NothingHidden
<1>5. TodaySeenTo'
    <2>1. ~InHand(c)
        BY <1>a DEF InHand
    <2>2. \A b \in Calls \ {c} : InHand(b) => InHand(b)'
        BY <1>0 DEF InHand, Fetched, FillFiat
    <2>3. Kept \subseteq Kept' /\ UNCHANGED <<today, up, dailyDone>>
        BY RatesAssumption DEF RatesInv, TypeOK, Codes, Kept, FillFiat
    <2>. QED  BY <1>0, <2>1, <2>2, <2>3 DEF RatesInv, TodaySeenTo, Calls
<1>. QED  BY <1>1, <1>2, <1>3, <1>4, <1>5 DEF RatesInv

\* The days filled and the days before them leave no hole up to yesterday.
LEMMA FillUsdtStep ==
    ASSUME RatesInv, NEW c \in Calls, FillUsdt(c)
    PROVE  RatesInv'
<1>0. /\ call' \in [Calls -> CallState]
      /\ \A b \in Calls \ {c} : call'[b] = call[b]
      /\ \A b \in Calls : Fetched(b)' \subseteq Fetched(b)
      /\ call[c].todo = {USDT} => call'[c] = Idle
      /\ call[c].todo # {USDT} =>
            /\ USDT # USDT
            /\ call'[c].todo = call[c].todo \ {USDT}
            /\ call'[c].step = "history" /\ call'[c].to = call[c].to /\ call'[c].by = call[c].by
    BY DoneCall DEF RatesInv, FillUsdt, Codes
<1>a. /\ call[c].step = "history" /\ up
      /\ USDT = USDT => call[c].todo = {USDT}
      /\ call[c].to \in 0..MaxDay
      /\ c = "startup" => USDT \in call[c].todo /\ call[c].to \in {today - 1, today}
    BY DEF RatesInv, TypeOK, CallState, CallsFit, FillUsdt, Turn, At, Idle, Calls
<1>1. TypeOK'
    <2>1. PICK from \in 1..call[c].to :
            /\ archive' = [archive EXCEPT ![USDT] = @ \cup {d \in from..call[c].to : d < today}]
            /\ lost' = lost \cup 1..(from - 1)
        BY DEF FillUsdt
    <2>2. /\ archive'[USDT] = archive[USDT] \cup {d \in from..call[c].to : d < today}
          /\ UNCHANGED <<today, up, masked>>
        BY <2>1 DEF RatesInv, TypeOK, Codes, FillUsdt
    <2>3. archive' \in [Codes -> SUBSET Days] /\ archive'[USDT] \subseteq 1..today
        <3>1. {d \in from..call[c].to : d < today} \subseteq Days
            BY <1>a, RatesAssumption DEF Days
        <3>2. {d \in from..call[c].to : d < today} \subseteq 1..today
            BY <1>a DEF RatesInv, TypeOK, Days
        <3>. QED  BY <2>1, <2>2, <3>1, <3>2 DEF RatesInv, TypeOK, Codes
    <2>4. lost' \subseteq Days
        BY <1>a, <2>1, RatesAssumption DEF RatesInv, TypeOK, Days
    <2>5. Fetched("startup")' \cup Fetched("other")' \subseteq 1..today
        BY <1>0 DEF RatesInv, TypeOK, Calls
    <2>. QED  BY <1>0, <2>3, <2>4, <2>5 DEF RatesInv, TypeOK, FillUsdt
<1>2. CallsFit'
    BY <1>0, <1>a DEF RatesInv, CallsFit, Calls, At, Idle, FillUsdt
<1>3. DowntimeIsFilled'
    <2>1. PICK from \in 1..call[c].to :
            /\ archive' = [archive EXCEPT ![USDT] = @ \cup {d \in from..call[c].to : d < today}]
            /\ lost' = lost \cup 1..(from - 1)
        BY DEF FillUsdt
    <2>2. /\ archive'[USDT] = archive[USDT] \cup {d \in from..call[c].to : d < today}
          /\ UNCHANGED <<today, up, masked>>
        BY <2>1 DEF RatesInv, TypeOK, Codes, FillUsdt
    <2>3. \A n \in Int : n <= call[c].to /\ n < today => Covered(n)'
        <3>. SUFFICES ASSUME NEW n \in Int, n <= call[c].to, n < today, NEW d \in Cutoff..n
                      PROVE  d \in Kept'
            BY DEF Covered
        <3>1. d \in 1..(from - 1) \/ (d \in from..call[c].to /\ d < today)
            BY <1>a, RatesAssumption DEF RatesInv, TypeOK, Days
        <3>. QED  BY <2>1, <2>2, <3>1 DEF Kept
    <2>4. today \in Nat
        BY DEF RatesInv, TypeOK, Days
    <2>5. CASE At("startup", "idle")' => At("startup", "idle")
        BY <2>1, <2>2, <2>5, FilledStays DEF RatesInv
    <2>6. CASE At("startup", "idle")' /\ ~At("startup", "idle")
        <3>1. c = "startup"
            BY <1>0, <2>6 DEF Calls, At
        <3>2. today - 1 \in Int /\ today - 1 <= call[c].to /\ today - 1 < today
            BY <1>a, <2>4, <3>1
        <3>3. Covered(today - 1)'
            BY <2>2, <2>3, <3>2 DEF Covered
        <3>. QED  BY <2>2, <3>3 DEF DowntimeIsFilled, Covered, Kept
    <2>. QED  BY <2>5, <2>6
<1>4. NothingHidden'
    <2>1. PICK from \in 1..call[c].to :
            /\ archive' = [archive EXCEPT ![USDT] = @ \cup {d \in from..call[c].to : d < today}]
            /\ lost' = lost \cup 1..(from - 1)
        BY DEF FillUsdt
    <2>2. /\ archive'[USDT] = archive[USDT] \cup {d \in from..call[c].to : d < today}
          /\ UNCHANGED <<today, up, masked>>
        BY <2>1 DEF RatesInv, TypeOK, Codes, FillUsdt
    <2>3. \A n \in Int : n <= call[c].to /\ n < today => Covered(n)'
        <3>. SUFFICES ASSUME NEW n \in Int, n <= call[c].to, n < today, NEW d \in Cutoff..n
                      PROVE  d \in Kept'
            BY DEF Covered
        <3>1. d \in 1..(from - 1) \/ (d \in from..call[c].to /\ d < today)
            BY <1>a, RatesAssumption DEF RatesInv, TypeOK, Days
        <3>. QED  BY <2>1, <2>2, <3>1 DEF Kept
    <2>4. today \in Nat
        BY DEF RatesInv, TypeOK, Days
    <2>5. \A n : Covered(n) => Covered(n)'
        BY <2>1, <2>2, CoveredStays
    <2>6. ASSUME NEW e \in archive'[USDT], e < today PROVE Covered(e)'
        <3>1. CASE e \in archive[USDT]
            BY <2>5, <2>6, <3>1 DEF RatesInv, NothingHidden
        <3>2. CASE e \in from..call[c].to
            BY <1>a, <2>3, <2>6, <3>2
        <3>. QED  BY <2>2, <2>6, <3>1, <3>2
    <2>. QED  BY <1>0, <1>a, <2>2, <2>5, <2>6 DEF RatesInv, NothingHidden
<1>5. TodaySeenTo'
    <2>1. ~InHand(c)
        BY <1>a DEF InHand
    <2>2. \A b \in Calls \ {c} : InHand(b) => InHand(b)'
        BY <1>0 DEF InHand, Fetched, FillUsdt
    <2>3. Kept \subseteq Kept' /\ UNCHANGED <<today, up, dailyDone>>
        BY RatesAssumption DEF RatesInv, TypeOK, Codes, Kept, FillUsdt
    <2>. QED  BY <1>0, <2>1, <2>2, <2>3 DEF RatesInv, TodaySeenTo, Calls
<1>. QED  BY <1>1, <1>2, <1>3, <1>4, <1>5 DEF RatesInv

\* Days that are withheld are marked.
LEMMA FillFailsStep ==
    ASSUME RatesInv, NEW c \in Calls, NEW k \in Codes, FillFails(c, k)
    PROVE  RatesInv'
<1>0. /\ call' \in [Calls -> CallState]
      /\ \A b \in Calls \ {c} : call'[b] = call[b]
      /\ \A b \in Calls : Fetched(b)' \subseteq Fetched(b)
      /\ call[c].todo = {k} => call'[c] = Idle
      /\ call[c].todo # {k} =>
            /\ k # USDT
            /\ call'[c].todo = call[c].todo \ {k}
            /\ call'[c].step = "history" /\ call'[c].to = call[c].to /\ call'[c].by = call[c].by
    BY DoneCall DEF RatesInv, FillFails, Codes
<1>a. /\ call[c].step = "history" /\ up
      /\ k = USDT => call[c].todo = {USDT}
      /\ call[c].to \in 0..MaxDay
      /\ c = "startup" => USDT \in call[c].todo /\ call[c].to \in {today - 1, today}
    BY DEF RatesInv, TypeOK, CallState, CallsFit, FillFails, Turn, At, Idle, Calls
<1>1. TypeOK'
    <2>1. Fetched("startup")' \cup Fetched("other")' \subseteq 1..today
        BY <1>0 DEF RatesInv, TypeOK, Calls
    <2>2. lost' \subseteq Days
        BY <1>a, RatesAssumption DEF RatesInv, TypeOK, Days, FillFails
    <2>. QED  BY <1>0, <2>1, <2>2 DEF RatesInv, TypeOK, FillFails
<1>2. CallsFit'
    BY <1>0, <1>a DEF RatesInv, CallsFit, Calls, At, Idle, FillFails
<1>3. DowntimeIsFilled'
    <2>1. UNCHANGED <<archive, today, up, masked>> /\ lost \subseteq lost'
        BY DEF FillFails
    <2>2. CASE At("startup", "idle")' => At("startup", "idle")
        BY <2>1, <2>2, FilledStays DEF RatesInv
    <2>3. CASE At("startup", "idle")' /\ ~At("startup", "idle")
        <3>1. c = "startup" /\ k = USDT
            BY <1>0, <1>a, <2>3 DEF Calls, At
        <3>2. 1..call[c].to \subseteq lost'
            BY <3>1 DEF FillFails
        <3>3. Cutoff..(today - 1) \subseteq 1..call[c].to
            BY <1>a, <3>1, RatesAssumption DEF RatesInv, TypeOK, Days
        <3>. QED  BY <2>1, <3>2, <3>3 DEF DowntimeIsFilled
    <2>. QED  BY <2>2, <2>3
<1>4. NothingHidden'
    <2>1. UNCHANGED <<archive, today, up, masked>> /\ lost \subseteq lost'
        BY DEF FillFails
    <2>. QED  BY <1>0, <2>1, HiddenStays DEF RatesInv
<1>5. TodaySeenTo'
    <2>1. ~InHand(c)
        BY <1>a DEF InHand
    <2>2. \A b \in Calls \ {c} : InHand(b) => InHand(b)'
        BY <1>0 DEF InHand, Fetched, FillFails
    <2>3. Kept \subseteq Kept' /\ UNCHANGED <<today, up, dailyDone>>
        BY RatesAssumption DEF RatesInv, TypeOK, Codes, Kept, FillFails
    <2>. QED  BY <1>0, <2>1, <2>2, <2>3 DEF RatesInv, TodaySeenTo, Calls
<1>. QED  BY <1>1, <1>2, <1>3, <1>4, <1>5 DEF RatesInv

-----------------------------------------------------------------------------
(* The results.                                                            *)

\* No day is over, nothing is stored, no process runs.
LEMMA InitRatesInv == Init => RatesInv
<1>. SUFFICES ASSUME Init PROVE RatesInv
    OBVIOUS
<1>1. \A c \in Calls : Fetched(c) = {}
    BY IdleCall DEF Init, Fetched
<1>2. TypeOK
    <2>1. 1 \in Days /\ USDT \in Codes
        BY RatesAssumption DEF Days, Codes
    <2>. QED  BY <1>1, <2>1, IdleCall DEF Init, TypeOK, Calls
<1>3. CallsFit /\ TodaySeenTo /\ DowntimeIsFilled
    BY DEF Init, CallsFit, TodaySeenTo, DowntimeIsFilled, At, Calls, Idle
<1>4. NothingHidden
    BY <1>1 DEF Init, NothingHidden, Codes
<1>. QED  BY <1>2, <1>3, <1>4 DEF RatesInv

\* Every step of the process, the calendar, the owner and the sources preserves the
\* invariant.
LEMMA NextRatesInv == RatesInv /\ [Next]_vars => RatesInv'
<1>. SUFFICES ASSUME RatesInv, [Next]_vars PROVE RatesInv'
    OBVIOUS
<1>1. CASE UNCHANGED vars
    <2>1. \A c \in Calls : Fetched(c)' = Fetched(c)
        BY <1>1 DEF vars, Fetched
    <2>2. TypeOK'
        BY <1>1, <2>1 DEF RatesInv, TypeOK, vars, Calls
    <2>3. CallsFit' /\ DowntimeIsFilled'
        BY <1>1 DEF RatesInv, CallsFit, DowntimeIsFilled, At, vars
    <2>4. NothingHidden' /\ TodaySeenTo'
        BY <1>1, <2>1 DEF RatesInv, NothingHidden, TodaySeenTo, InHand, Covered, Kept, vars, Calls
    <2>. QED  BY <2>2, <2>3, <2>4 DEF RatesInv
<1>2. CASE Start \/ Stop \/ NextDay \/ DailyJob \/ SetSource
    BY <1>2, StartStep, StopStep, NextDayStep, DailyJobStep, SetSourceStep
<1>3. ASSUME NEW step \in {"read", "fill"}, Request(step) PROVE RatesInv'
    BY <1>3, RequestStep
<1>4. ASSUME NEW k \in Fiat, AddManualRate(k) PROVE RatesInv'
    BY <1>4, AddManualRateStep
<1>5. ASSUME NEW c \in Calls,
             \/ ReadSource(c) \/ CbrAnswers(c) \/ CbrFails(c) \/ UsdtAnswers(c) \/ UsdtFails(c)
             \/ StoreLive(c) \/ StoreDaily(c)
      PROVE  RatesInv'
    BY <1>5, ReadSourceStep, CbrAnswersStep, CbrFailsStep, UsdtAnswersStep, UsdtFailsStep,
        StoreLiveStep, StoreDailyStep
<1>6. ASSUME NEW c \in Calls,
             \/ BackfillIfMissing(c) \/ BackfillHistory(c) \/ FillUsdt(c)
             \/ \E k \in Codes : FillFiat(c, k) \/ FillFails(c, k)
      PROVE  RatesInv'
    BY <1>6, BackfillIfMissingStep, BackfillHistoryStep, FillUsdtStep, FillFiatStep, FillFailsStep
<1>. QED  BY <1>1, <1>2, <1>3, <1>4, <1>5, <1>6 DEF Next

\* The invariant holds in every reachable state.
LEMMA RatesInvHolds == Spec => []RatesInv
<1>. QED  BY InitRatesInv, NextRatesInv, PTL DEF Spec

\* Rates, archive and calls stay within their types, and no quote of USDT is ever
\* stored or fetched for a day to come.
THEOREM RatesTypes == Spec => []TypeOK
<1>1. RatesInv => TypeOK
    BY DEF RatesInv
<1>. QED  BY <1>1, RatesInvHolds, PTL

\* For any calendar and any times at which the process dies, starts, is asked by the
\* panel or overtaken by midnight: once a start is over, every day since the cutoff
\* has its USDT quote, a source withheld it, or an earlier start was cut short.
THEOREM DowntimeTheorem == Spec => []DowntimeIsFilled
<1>1. RatesInv => DowntimeIsFilled
    BY DEF RatesInv
<1>. QED  BY <1>1, RatesInvHolds, PTL

\* Where the rows of a call come from: the central bank was asked because the rate
\* source said so when it was read.
RowsFit == \A c \in Calls :
    /\ At(c, "cbr") => call[c].src = "cbr"
    /\ call[c].step \in {"read", "cbr"} => call[c].rows = {}
    /\ \A r \in call[c].rows : r.code \in Fiat => call[c].src = "cbr"

\* A call that begins, ends or goes on after its refresh has no rows.
LEMMA RowsFitStep ==
    ASSUME RatesInv, RowsFit, [Next]_vars
    PROVE  RowsFit'
<1>. USE DEF RowsFit, At
<1>1. CASE UNCHANGED <<call>>
    BY <1>1
<1>2. CASE Start \/ DailyJob \/ \E step \in {"read", "fill"} : Request(step)
    <2>1. PICK c \in Calls, by \in {"startup", "daily", "request"}, step \in {"read", "fill"} :
            call' = [call EXCEPT ![c] = [Idle EXCEPT !.step = step, !.by = by, !.attempt = 1]]
        BY <1>2 DEF Start, DailyJob, Request, Begin, Calls
    <2>2. /\ call'[c].rows = {} /\ call'[c].step # "cbr"
          /\ \A b \in Calls \ {c} : call'[b] = call[b]
        BY <2>1, BegunCall DEF RatesInv, TypeOK, Idle
    <2>. QED  BY <2>2
<1>3. CASE Stop
    BY <1>3, IdleCall DEF Stop, Idle
<1>4. CASE NextDay
    BY <1>4 DEF RatesInv, TypeOK, CallState, NextDay, Calls
<1>5. ASSUME NEW c \in Calls, ReadSource(c) PROVE RowsFit'
    BY <1>5 DEF RatesInv, TypeOK, CallState, ReadSource, FirstFetch
<1>6. ASSUME NEW c \in Calls, CbrAnswers(c) PROVE RowsFit'
    BY <1>6 DEF RatesInv, TypeOK, CallState, CbrAnswers
<1>7. ASSUME NEW c \in Calls, CbrFails(c) PROVE RowsFit'
    <2>1. CASE call' = [call EXCEPT ![c] = After(c)]
        <3>1. After(c).rows = {} /\ After(c).step \in {"check", "idle"}
            BY AfterCall DEF RatesInv, After, Idle
        <3>. QED  BY <2>1, <3>1 DEF RatesInv, TypeOK
    <2>2. CASE call' = [call EXCEPT ![c].step = "read", ![c].attempt = @ + 1]
        BY <1>7, <2>2 DEF RatesInv, TypeOK, CallState, CbrFails
    <2>. QED  BY <1>7, <2>1, <2>2 DEF CbrFails
<1>8. ASSUME NEW c \in Calls, UsdtAnswers(c) PROVE RowsFit'
    <2>1. /\ call'[c].step = "live" /\ call'[c].src = call[c].src
          /\ call'[c].rows = call[c].rows \cup {[code |-> USDT, day |-> today]}
          /\ \A b \in Calls \ {c} : call'[b] = call[b]
        BY <1>8 DEF RatesInv, TypeOK, CallState, UsdtAnswers
    <2>. QED  BY <2>1, RatesAssumption DEF USDT
<1>9. ASSUME NEW c \in Calls, UsdtFails(c) PROVE RowsFit'
    <2>1. After(c).rows = {} /\ After(c).step \in {"check", "idle"}
        BY AfterCall DEF RatesInv, After, Idle
    <2>. QED  BY <1>9, <2>1 DEF RatesInv, TypeOK, CallState, UsdtFails
<1>10. ASSUME NEW c \in Calls, StoreLive(c) \/ BackfillHistory(c) PROVE RowsFit'
    <2>1. /\ call'[c].rows = call[c].rows /\ call'[c].src = call[c].src
          /\ call'[c].step \in {"daily", "history"}
          /\ \A b \in Calls \ {c} : call'[b] = call[b]
        BY <1>10 DEF RatesInv, TypeOK, CallState, StoreLive, BackfillHistory
    <2>. QED  BY <2>1
<1>11. ASSUME NEW c \in Calls, StoreDaily(c) PROVE RowsFit'
    <2>1. After(c).rows = {} /\ After(c).step \in {"check", "idle"}
        BY AfterCall DEF RatesInv, After, Idle
    <2>. QED  BY <1>11, <2>1 DEF RatesInv, TypeOK, StoreDaily
<1>12. ASSUME NEW c \in Calls, BackfillIfMissing(c) PROVE RowsFit'
    BY <1>12, IdleCall DEF RatesInv, TypeOK, CallState, BackfillIfMissing, Idle
<1>13. ASSUME NEW c \in Calls, NEW k \in Codes, Turn(c, k), call' = Done(c, k) PROVE RowsFit'
    <2>1. call'[c].rows \subseteq call[c].rows
        BY <1>13, IdleCall DEF RatesInv, TypeOK, CallState, Done
    <2>2. call'[c].step \in {"history", "idle"} /\ \A b \in Calls \ {c} : call'[b] = call[b]
        BY <1>13, DoneCall DEF RatesInv, Idle
    <2>3. call'[c].rows = {} \/ call'[c].src = call[c].src
        BY <1>13, IdleCall DEF RatesInv, TypeOK, CallState, Done
    <2>. QED  BY <2>1, <2>2, <2>3
<1>14. ASSUME NEW c \in Calls, FillUsdt(c) \/ \E k \in Codes : FillFiat(c, k) \/ FillFails(c, k)
       PROVE  RowsFit'
    <2>1. \E k \in Codes : Turn(c, k) /\ call' = Done(c, k)
        BY <1>14 DEF FillUsdt, FillFiat, FillFails, Codes
    <2>. QED  BY <1>13, <2>1
<1>. QED  BY <1>1, <1>2, <1>3, <1>4, <1>5, <1>6, <1>7, <1>8, <1>9, <1>10, <1>11, <1>12, <1>14
        DEF Next, SetSource, AddManualRate, vars

\* However calls and the owner interleave: in manual mode a rate entered by hand gives
\* way only to a refresh that had read the rate source while it was the central bank.
THEOREM ManualRateTheorem == Spec => ManualRateHoldsUnlessOvertaken
<1>1. Init => RowsFit
    BY IdleCall DEF Init, RowsFit, At, Idle
<1>2. RatesInv /\ RowsFit /\ [Next]_vars => RowsFit'
    BY RowsFitStep
<1>3. RatesInv /\ RowsFit /\ [Next]_vars =>
        [\A k \in Fiat : source = "manual" /\ live[k] = "manual" /\ live'[k] # "manual"
            => \E c \in Calls : At(c, "live") /\ call[c].src = "cbr"]_vars
    <2>. SUFFICES ASSUME RatesInv, RowsFit, Next, NEW k \in Fiat, live[k] = "manual",
                         live'[k] # "manual"
                  PROVE  \E c \in Calls : At(c, "live") /\ call[c].src = "cbr"
        BY SMTT(60)
    <2>1. PICK c \in Calls : StoreLive(c)
        BY ZenonT(60) DEF Next, Start, Stop, NextDay, DailyJob, SetSource, Request, AddManualRate, ReadSource,
            CbrAnswers, CbrFails, UsdtAnswers, UsdtFails, StoreDaily, BackfillIfMissing,
            BackfillHistory, FillUsdt, FillFiat, FillFails, RatesInv, TypeOK
    <2>2. \E r \in call[c].rows : r.code = k
        BY <2>1 DEF StoreLive
    <2>. QED  BY <2>1, <2>2 DEF StoreLive, RowsFit
<1>. QED  BY <1>1, <1>2, <1>3, RatesInvHolds, PTL DEF Spec, ManualRateHoldsUnlessOvertaken

-----------------------------------------------------------------------------
(* Valuing a past day: the rows loaded, and the binary search among them.  *)

\* The variables of asOf's loop, and one turn of it.
Loop(n) == [lo : 1..(n + 1), hi : 0..n, found : 1..n]
Halve(days, day, w) ==
    LET mid == (w.lo + w.hi) \div 2
    IN  IF days[mid] <= day THEN [w EXCEPT !.lo = mid + 1, !.found = mid] ELSE [w EXCEPT !.hi = mid - 1]
Ends(days, day, f, w) == IF w.lo > w.hi THEN w.found ELSE f[Halve(days, day, w)]

\* The middle lies between the ends.
LEMMA Middle ==
    ASSUME NEW a \in Nat, NEW b \in Nat, a <= b
    PROVE  (a + b) \div 2 \in a..b
    OBVIOUS

\* A turn of the loop leaves fewer days to look at.
LEMMA HalveShrinks ==
    ASSUME NEW days, NEW day, NEW n \in Nat, NEW w \in Loop(n), w.lo <= w.hi
    PROVE  /\ Halve(days, day, w) \in Loop(n)
           /\ Halve(days, day, w).hi - Halve(days, day, w).lo < w.hi - w.lo
<1>. DEFINE mid == (w.lo + w.hi) \div 2
<1>1. w.lo \in 1..(n + 1) /\ w.hi \in 0..n /\ w.found \in 1..n
    BY DEF Loop
<1>2. mid \in w.lo..w.hi
    BY <1>1, Middle
<1>. HIDE DEF mid
<1>3. Halve(days, day, w) = IF days[mid] <= day THEN [w EXCEPT !.lo = mid + 1, !.found = mid] ELSE [w EXCEPT !.hi = mid - 1]
    BY DEF Halve, mid
<1>4. CASE days[mid] <= day
    <2>1. Halve(days, day, w) = [lo |-> mid + 1, hi |-> w.hi, found |-> mid]
        BY <1>3, <1>4 DEF Loop
    <2>. QED  BY <1>1, <1>2, <2>1 DEF Loop
<1>5. CASE ~(days[mid] <= day)
    <2>1. Halve(days, day, w) = [lo |-> w.lo, hi |-> mid - 1, found |-> w.found]
        BY <1>3, <1>5 DEF Loop
    <2>. QED  BY <1>1, <1>2, <2>1 DEF Loop
<1>. QED  BY <1>4, <1>5

\* The loop ends from every state: there is a function of where it ends.
LEMMA LoopEnds ==
    ASSUME NEW days, NEW day, NEW n \in Nat \ {0}
    PROVE  \E f : f = [w \in Loop(n) |-> Ends(days, day, f, w)]
<1>. DEFINE Works(f, m) == \A w \in Loop(n) : w.hi - w.lo < m => f[w] = Ends(days, day, f, w)
            Stuck == {m \in Nat : \A f \in [Loop(n) -> 1..n] : ~Works(f, m)}
<1>1. \A w \in Loop(n) : w.lo \in 1..(n + 1) /\ w.hi \in 0..n /\ w.found \in 1..n
    BY DEF Loop
<1>2. Stuck = {}
    <2>. SUFFICES ASSUME Stuck # {}  PROVE FALSE
        OBVIOUS
    <2>1. PICK m \in Stuck : \A e \in Stuck : e >= m
        BY LeastExists
    <2>2. CASE m = 0
        <3>. DEFINE f == [w \in Loop(n) |-> w.found]
        <3>1. f \in [Loop(n) -> 1..n]
            BY <1>1
        <3>2. Works(f, 0)
            BY <1>1 DEF Ends
        <3>. QED  BY <2>1, <2>2, <3>1, <3>2
    <2>3. CASE m # 0
        <3>1. m - 1 \in Nat /\ m - 1 \notin Stuck
            BY <2>1, <2>3
        <3>2. PICK g \in [Loop(n) -> 1..n] : Works(g, m - 1)
            BY <3>1
        <3>. DEFINE f == [w \in Loop(n) |-> Ends(days, day, g, w)]
        <3>3. f \in [Loop(n) -> 1..n]
            BY <1>1, HalveShrinks DEF Ends
        <3>4. ASSUME NEW w \in Loop(n), w.hi - w.lo < m  PROVE f[w] = Ends(days, day, f, w)
            <4>1. CASE w.lo > w.hi
                BY <4>1 DEF Ends
            <4>2. CASE w.lo <= w.hi
                <5>. DEFINE v == Halve(days, day, w)
                <5>1. v \in Loop(n) /\ v.hi - v.lo < m - 1
                    BY <3>4, <4>2, <1>1, <2>1, HalveShrinks
                <5>2. f[v] = g[v]
                    BY <5>1, <3>2
                <5>3. ~(w.lo > w.hi)
                    BY <4>2, <1>1
                <5>. QED  BY <5>2, <5>3 DEF Ends
            <4>. QED  BY <4>1, <4>2, <1>1
        <3>. QED  BY <3>3, <3>4, <2>1
    <2>. QED  BY <2>2, <2>3
<1>3. PICK f \in [Loop(n) -> 1..n] : Works(f, n + 1)
    <2>1. n + 1 \in Nat
        OBVIOUS
    <2>2. n + 1 \notin Stuck
        <3>. HIDE DEF Stuck
        <3>. QED  BY <1>2
    <2>. QED  BY <2>1, <2>2
<1>4. \A w \in Loop(n) : w.hi - w.lo < n + 1
    BY <1>1
<1>5. f = [w \in Loop(n) |-> Ends(days, day, f, w)]
    BY <1>3, <1>4
<1>. QED  BY <1>5

\* Search is where the loop ends from its first state.
LEMMA SearchUnfolds ==
    ASSUME NEW days, NEW day, Len(days) \in Nat \ {0}
    PROVE  \E f : /\ f = [w \in Loop(Len(days)) |-> Ends(days, day, f, w)]
                  /\ Search(days, day) = f[[lo |-> 1, hi |-> Len(days), found |-> 1]]
<1>. DEFINE find == CHOOSE f : f = [w \in Loop(Len(days)) |-> Ends(days, day, f, w)]
<1>1. find = [w \in Loop(Len(days)) |-> Ends(days, day, find, w)]
    BY LoopEnds, ZenonT(60)
<1>2. Search(days, day) = find[[lo |-> 1, hi |-> Len(days), found |-> 1]]
    BY Zenon DEF Search, Loop, Ends, Halve
<1>. QED  BY <1>1, <1>2, Zenon

\* What the loop keeps true: days from lo on are open, days after hi are later than
\* the target, the best so far is the one before lo.
Searching(days, day, w) ==
    /\ w.lo <= w.hi + 1 /\ days[w.found] <= day
    /\ w.found = w.lo - 1 \/ (w.lo = 1 /\ w.found = 1)
    /\ \A i \in (w.hi + 1)..Len(days) : days[i] > day

\* The binary search of asOf: among any number of days, oldest first, of which the
\* first is not later than the target, it finds the newest that is not.
THEOREM SearchFindsNewest ==
    ASSUME NEW days \in Seq(Int), NEW day \in Int, Len(days) # 0, days[1] <= day,
           \A i, j \in 1..Len(days) : i < j => days[i] < days[j]
    PROVE  LET s == Search(days, day)
           IN  s \in 1..Len(days) /\ days[s] <= day /\ \A i \in (s + 1)..Len(days) : days[i] > day
<1>. DEFINE n == Len(days)
            Found(s) == s \in 1..n /\ days[s] <= day /\ \A i \in (s + 1)..n : days[i] > day
<1>1. n \in Nat \ {0} /\ \A i \in 1..n : days[i] \in Int
    OBVIOUS
<1>2. PICK f : /\ f = [w \in Loop(n) |-> Ends(days, day, f, w)]
               /\ Search(days, day) = f[[lo |-> 1, hi |-> n, found |-> 1]]
    BY <1>1, SearchUnfolds
<1>. HIDE DEF n
<1>. DEFINE Wrong == {m \in Nat : \E w \in Loop(n) : Searching(days, day, w) /\ w.hi - w.lo + 1 = m /\ ~Found(f[w])}
<1>3. \A w \in Loop(n) : f[w] = Ends(days, day, f, w)
    BY <1>2
<1>4. Wrong = {}
    <2>. SUFFICES ASSUME Wrong # {}  PROVE FALSE
        OBVIOUS
    <2>1. PICK m \in Wrong : \A e \in Wrong : e >= m
        BY LeastExists
    <2>2. PICK w \in Loop(n) : Searching(days, day, w) /\ w.hi - w.lo + 1 = m /\ ~Found(f[w])
        BY <2>1
    <2>3. w.lo \in 1..(n + 1) /\ w.hi \in 0..n /\ w.found \in 1..n
        BY DEF Loop
    <2>4. CASE w.lo > w.hi
        <3>1. f[w] = w.found /\ w.lo = w.hi + 1
            BY <2>2, <2>3, <2>4, <1>3, SMTT(60) DEF Ends, Searching
        <3>2. w.hi # 0
            BY <2>2, <2>3, <1>1, SMTT(60) DEF Searching, n
        <3>3. w.found = w.hi
            BY <2>2, <2>3, <3>1, <3>2, SMTT(60) DEF Searching
        <3>. QED  BY <2>2, <2>3, <3>1, <3>3 DEF Searching, n
    <2>5. CASE w.lo <= w.hi
        <3>. DEFINE v == Halve(days, day, w)
                    mid == (w.lo + w.hi) \div 2
        <3>1. v \in Loop(n) /\ v.hi - v.lo < w.hi - w.lo
            BY <2>5, <1>1, HalveShrinks
        <3>2. f[w] = f[v]
            BY <2>3, <2>5, <1>3 DEF Ends
        <3>3. mid \in w.lo..w.hi
            BY <2>3, <2>5, Middle, SMTT(60)
        <3>. HIDE DEF mid
        <3>4. v = IF days[mid] <= day THEN [w EXCEPT !.lo = mid + 1, !.found = mid] ELSE [w EXCEPT !.hi = mid - 1]
            BY DEF Halve, mid
        <3>5. Searching(days, day, v)
            <4>1. CASE days[mid] <= day
                <5>1. v.lo = mid + 1 /\ v.hi = w.hi /\ v.found = mid
                    BY <3>4, <4>1 DEF Loop
                <5>. QED  BY <4>1, <5>1, <2>2, <2>3, <3>3 DEF Searching
            <4>2. CASE ~(days[mid] <= day)
                <5>1. v.lo = w.lo /\ v.hi = mid - 1 /\ v.found = w.found
                    BY <3>4, <4>2 DEF Loop
                <5>2. mid \in 1..n /\ days[mid] > day
                    BY <2>3, <3>3, <4>2, <1>1, SMTT(60)
                <5>3. \A i \in mid..n : days[i] > day
                    BY <5>2, <1>1, SMTT(60) DEF n
                <5>. QED  BY <5>1, <5>3, <2>2, <2>3, <3>3 DEF Searching, n
            <4>. QED  BY <4>1, <4>2
        <3>. HIDE DEF v
        <3>6. v.hi - v.lo + 1 \in Nat
            <4>1. v.lo \in Nat /\ v.hi \in Nat
                BY <3>1, <1>1, SMTT(60) DEF Loop
            <4>2. v.lo <= v.hi + 1
                BY <3>5 DEF Searching
            <4>. QED  BY <4>1, <4>2, SMTT(60)
        <3>7. v.hi - v.lo + 1 \in Wrong
            <4>. HIDE DEF Found
            <4>. QED  BY <3>1, <3>2, <3>5, <3>6, <2>2
        <3>8. v.hi - v.lo + 1 >= m
            <4>. HIDE DEF Wrong
            <4>. QED  BY <3>7, <2>1
        <3>9. v.lo \in Int /\ v.hi \in Int
            BY <3>1, <1>1 DEF Loop
        <3>. QED  BY <3>1, <3>8, <3>9, <2>2, <2>3, SMTT(60)
    <2>. QED  BY <2>3, <2>4, <2>5
<1>5. Found(Search(days, day))
    <2>. DEFINE w == [lo |-> 1, hi |-> n, found |-> 1]
    <2>1. w \in Loop(n) /\ Searching(days, day, w) /\ w.hi - w.lo + 1 \in Nat
        BY <1>1 DEF Loop, Searching, n
    <2>. HIDE DEF w
    <2>2. w.hi - w.lo + 1 \notin Wrong
        <3>. HIDE DEF Wrong
        <3>. QED  BY <1>4
    <2>3. Found(f[w])
        BY <2>1, <2>2
    <2>. QED  BY <2>3, <1>2 DEF w
<1>. QED  BY <1>5 DEF n

\* How many members of Q a relation R puts not after d.
Place(Q, R, d) == Cardinality({e \in Q : <<e, d>> \in R})

\* In a linear order, later members have later places, and every place is taken.
LEMMA Places ==
    ASSUME NEW Q, IsFiniteSet(Q), NEW R,
           \A d \in Q : <<d, d>> \in R,
           \A d, e \in Q : d # e => (<<d, e>> \in R <=> <<e, d>> \notin R),
           \A c, d, e \in Q : <<c, d>> \in R /\ <<d, e>> \in R => <<c, e>> \in R
    PROVE  /\ Cardinality(Q) \in Nat
           /\ \A d \in Q : Place(Q, R, d) \in 1..Cardinality(Q)
           /\ \A d, e \in Q : d # e /\ <<d, e>> \in R => Place(Q, R, d) < Place(Q, R, e)
           /\ \A i \in 1..Cardinality(Q) : \E d \in Q : Place(Q, R, d) = i
<1>. DEFINE n == Cardinality(Q)
            UpTo(d) == {e \in Q : <<e, d>> \in R}
<1>1. n \in Nat
    BY FS_CardinalityType
<1>2. \A d \in Q : IsFiniteSet(UpTo(d)) /\ Place(Q, R, d) \in Nat /\ Place(Q, R, d) <= n
    <2>. SUFFICES ASSUME NEW d \in Q  PROVE IsFiniteSet(UpTo(d)) /\ Place(Q, R, d) \in Nat /\ Place(Q, R, d) <= n
        OBVIOUS
    <2>1. UpTo(d) \in SUBSET Q
        OBVIOUS
    <2>2. IsFiniteSet(UpTo(d)) /\ Cardinality(UpTo(d)) <= n
        BY <2>1, FS_Subset
    <2>3. Cardinality(UpTo(d)) \in Nat
        BY <2>2, FS_CardinalityType
    <2>. QED  BY <2>2, <2>3 DEF Place
<1>3. \A d \in Q : Place(Q, R, d) # 0
    <2>. SUFFICES ASSUME NEW d \in Q  PROVE Place(Q, R, d) # 0
        OBVIOUS
    <2>1. d \in UpTo(d)
        OBVIOUS
    <2>. QED  BY <2>1, <1>2, FS_EmptySet DEF Place
<1>4. \A d \in Q : Place(Q, R, d) \in 1..n
    <2>. SUFFICES ASSUME NEW d \in Q  PROVE Place(Q, R, d) \in 1..n
        OBVIOUS
    <2>1. Place(Q, R, d) \in Nat /\ Place(Q, R, d) <= n /\ Place(Q, R, d) # 0
        BY <1>2, <1>3
    <2>. QED  BY <1>1, <2>1
<1>5. ASSUME NEW d \in Q, NEW e \in Q, d # e, <<d, e>> \in R  PROVE Place(Q, R, d) < Place(Q, R, e)
    <2>1. UpTo(d) \in SUBSET UpTo(e) /\ e \in UpTo(e) /\ e \notin UpTo(d)
        BY <1>5
    <2>2. Cardinality(UpTo(d)) <= Cardinality(UpTo(e)) /\ Cardinality(UpTo(d)) # Cardinality(UpTo(e))
        <3>. HIDE DEF UpTo
        <3>. QED  BY <2>1, <1>2, FS_Subset
    <2>. QED  BY <2>2, <1>2 DEF Place
<1>6. ASSUME NEW i \in 1..n, \A d \in Q : Place(Q, R, d) # i  PROVE FALSE
    <2>. DEFINE T == (1..n) \ {i}
                f == [d \in Q |-> Place(Q, R, d)]
    <2>1. f \in [Q -> T]
        BY <1>6, <1>4
    <2>2. IsFiniteSet(T) /\ Cardinality(T) = n - 1
        <3>1. IsFiniteSet(1..n) /\ Cardinality(1..n) = n
            BY <1>1, FS_Interval
        <3>. QED  BY <3>1, FS_RemoveElement
    <2>3. PICK x \in Q, y \in Q : x # y /\ f[x] = f[y]
        <3>. HIDE DEF T, f
        <3>. QED  BY <1>1, <2>1, <2>2, FS_PigeonHole
    <2>4. <<x, y>> \in R \/ <<y, x>> \in R
        BY <2>3
    <2>5. Place(Q, R, x) = Place(Q, R, y) /\ Place(Q, R, x) \in Nat /\ Place(Q, R, y) \in Nat
        BY <2>3, <1>2
    <2>. QED  BY <2>3, <2>4, <2>5, <1>5
<1>. QED  BY <1>1, <1>4, <1>5, <1>6

\* The rows loaded are the archive's days, oldest first.
LEMMA SeriesInOrder ==
    ASSUME TypeOK, NEW k \in Codes
    PROVE  /\ Loaded(k) \in SUBSET Days
           /\ Series(k) \in Seq(Int) /\ Len(Series(k)) = Cardinality(Loaded(k))
           /\ \A i \in 1..Len(Series(k)) : Series(k)[i] \in Loaded(k)
           /\ \A i, j \in 1..Len(Series(k)) : i < j => Series(k)[i] < Series(k)[j]
           /\ \A d \in Loaded(k) : \E i \in 1..Len(Series(k)) : Series(k)[i] = d
           /\ Loaded(k) = {} <=> Len(Series(k)) = 0
<1>. DEFINE S == Loaded(k)
            n == Cardinality(S)
            s == Series(k)
<1>1. S \in SUBSET Days
    BY DEF Loaded, TypeOK
<1>. DEFINE R == {x \in S \X S : x[1] <= x[2]}
            Rank(d) == Place(S, R, d)
<1>. HIDE DEF S
<1>3. \A d \in S : d \in Int
    BY <1>1 DEF Days
<1>2. /\ IsFiniteSet(S) /\ n \in Nat
      /\ \A d \in S : Rank(d) \in 1..n
      /\ \A d, e \in S : d < e => Rank(d) < Rank(e)
      /\ \A i \in 1..n : \E d \in S : Rank(d) = i
    <2>1. IsFiniteSet(S)
        <3>1. IsFiniteSet(Days)
            BY FS_Interval, RatesAssumption DEF Days
        <3>. QED  BY <1>1, <3>1, FS_Subset
    <2>2. /\ \A d \in S : <<d, d>> \in R
          /\ \A d, e \in S : d # e => (<<d, e>> \in R <=> <<e, d>> \notin R)
          /\ \A c, d, e \in S : <<c, d>> \in R /\ <<d, e>> \in R => <<c, e>> \in R
        BY <1>3
    <2>3. \A d, e \in S : d < e => d # e /\ <<d, e>> \in R
        BY <1>3
    <2>. HIDE DEF R
    <2>4. /\ n \in Nat
          /\ \A d \in S : Rank(d) \in 1..n
          /\ \A d, e \in S : d # e /\ <<d, e>> \in R => Rank(d) < Rank(e)
          /\ \A i \in 1..n : \E d \in S : Rank(d) = i
        BY <2>1, <2>2, Places
    <2>. QED  BY <2>1, <2>3, <2>4
<1>4. s = [i \in 1..n |-> CHOOSE d \in S : Rank(d) = i]
    <2>1. \A d \in S : {e \in S : e <= d} = {e \in S : <<e, d>> \in R}
        OBVIOUS
    <2>2. s = [i \in 1..n |-> CHOOSE d \in S : Cardinality({e \in S : e <= d}) = i]
        BY DEF Series, S
    <2>3. \A i \in 1..n : (CHOOSE d \in S : Cardinality({e \in S : e <= d}) = i) = CHOOSE d \in S : Rank(d) = i
        BY <2>1 DEF Place
    <2>. QED  BY <2>2, <2>3
<1>. HIDE DEF R, Rank
<1>5. \A i \in 1..n : (CHOOSE d \in S : Rank(d) = i) \in S /\ Rank(CHOOSE d \in S : Rank(d) = i) = i
    BY <1>2
<1>. HIDE DEF s, n
<1>6. s \in Seq(S) /\ Len(s) = n /\ \A i \in 1..n : s[i] \in S /\ Rank(s[i]) = i
    BY <1>2, <1>4, <1>5
<1>7. s \in Seq(Int)
    BY <1>6, <1>3, <1>2
<1>8. ASSUME NEW i \in 1..n, NEW j \in 1..n, i < j  PROVE s[i] < s[j]
    BY <1>2, <1>3, <1>6, <1>8, SMTT(60)
<1>9. \A d, e \in S : Rank(d) = Rank(e) => d = e
    BY <1>2, <1>3
<1>10. \A d \in S : s[Rank(d)] = d /\ Rank(d) \in 1..n
    BY <1>2, <1>6, <1>9
<1>11. S = {} <=> n = 0
    BY <1>2, FS_EmptySet DEF n
<1>. QED  BY <1>1, <1>6, <1>7, <1>8, <1>10, <1>11 DEF S, n, s

\* Past spend is valued at the newest archived rate on or before its day, else at the
\* oldest, else at today's: for every archive the jobs can build, every length of it
\* and every target, the binary search over the rows finds that rate.
THEOREM LookupTheorem == Spec => []LookupFindsNewest
<1>1. TypeOK => LookupFindsNewest
    <2>. SUFFICES ASSUME TypeOK, NEW k \in Codes, NEW day \in Days
                  PROVE  LET before == {d \in Loaded(k) : d <= day}
                         IN  RateDay(k, day) = IF Loaded(k) = {} THEN 0
                                               ELSE IF before # {} THEN Newest(before) ELSE Oldest(Loaded(k))
        BY DEF LookupFindsNewest
    <2>. DEFINE S == Loaded(k)
                s == Series(k)
                n == Len(s)
                before == {d \in S : d <= day}
    <2>1. /\ S \in SUBSET Days /\ s \in Seq(Int) /\ n \in Nat
          /\ \A i \in 1..n : s[i] \in S
          /\ \A i, j \in 1..n : i < j => s[i] < s[j]
          /\ \A d \in S : \E i \in 1..n : s[i] = d
          /\ S = {} <=> n = 0
        BY SeriesInOrder
    <2>2. S \in SUBSET (1..MaxDay) /\ MaxDay \in Nat /\ day \in Int
        BY <2>1, RatesAssumption DEF Days
    <2>8. \A d \in S : d \in Int
        BY <2>1 DEF Days
    <2>3. s = << >> <=> n = 0
        BY <2>1
    <2>4. RateDay(k, day) = IF s = << >> THEN 0 ELSE AsOf(s, day)
        BY DEF RateDay
    <2>. HIDE DEF S, s, n
    <2>5. CASE S = {}
        BY <2>1, <2>3, <2>4, <2>5 DEF S, s
    <2>6. CASE S # {} /\ day < s[1]
        <3>1. n \in Nat /\ 1 \in 1..n /\ s[1] \in S
            BY <2>1, <2>6
        <3>2. \A d \in S : s[1] <= d
            <4>. SUFFICES ASSUME NEW d \in S  PROVE s[1] <= d
                OBVIOUS
            <4>1. PICK i \in 1..n : s[i] = d
                BY <2>1
            <4>2. i = 1 \/ s[1] < s[i]
                BY <2>1, <3>1
            <4>. QED  BY <4>1, <4>2, <2>8, <3>1
        <3>3. before = {}
            <4>. SUFFICES ASSUME NEW d \in S, d <= day  PROVE FALSE
                OBVIOUS
            <4>1. d \in Int /\ s[1] \in Int /\ s[1] <= d
                BY <2>8, <3>1, <3>2
            <4>. QED  BY <4>1, <2>2, <2>6
        <3>4. Oldest(S) \in S /\ \A e \in S : e >= Oldest(S)
            BY <2>2, <2>6, EndsOfSet
        <3>5. Oldest(S) = s[1]
            <4>1. Oldest(S) >= s[1] /\ s[1] >= Oldest(S) /\ Oldest(S) \in Int /\ s[1] \in Int
                BY <3>1, <3>2, <3>4, <2>8
            <4>. QED  BY <4>1
        <3>6. RateDay(k, day) = s[1]
            BY <2>1, <2>3, <2>4, <2>6 DEF AsOf
        <3>. QED  BY <2>6, <3>3, <3>5, <3>6 DEF S
    <2>7. CASE S # {} /\ ~(day < s[1])
        <3>. DEFINE f == Search(s, day)
        <3>1. n # 0 /\ 1 \in 1..n /\ s[1] \in S
            BY <2>1, <2>7
        <3>2. f \in 1..n /\ s[f] <= day /\ \A i \in (f + 1)..n : s[i] > day
            <4>1. s[1] <= day
                <5>1. s[1] \in Int /\ day \in Int
                    BY <2>2, <2>8, <3>1
                <5>. QED  BY <5>1, <2>7
            <4>. QED  BY <2>1, <2>2, <3>1, <4>1, SearchFindsNewest DEF n
        <3>. HIDE DEF f
        <3>3. s[f] \in before
            BY <3>2, <2>1
        <3>4. \A d \in before : d <= s[f]
            <4>. SUFFICES ASSUME NEW d \in before  PROVE d <= s[f]
                OBVIOUS
            <4>1. PICK i \in 1..n : s[i] = d
                BY <2>1
            <4>2. ~(i \in (f + 1)..n)
                BY <3>2, <4>1, <2>2
            <4>3. i <= f
                BY <4>2, <3>2, <2>1
            <4>4. i = f \/ s[i] < s[f]
                BY <4>3, <3>2, <2>1
            <4>. QED  BY <4>1, <4>4, <3>2, <2>1, <2>8
        <3>5. Newest(before) \in before /\ \A e \in before : e <= Newest(before)
            BY <2>2, <3>3, EndsOfSet
        <3>6. Newest(before) = s[f]
            <4>1. Newest(before) <= s[f] /\ s[f] <= Newest(before) /\ Newest(before) \in Int /\ s[f] \in Int
                BY <3>3, <3>4, <3>5, <2>8
            <4>. QED  BY <4>1
        <3>7. RateDay(k, day) = s[f]
            BY <2>3, <2>4, <2>7, <3>1 DEF AsOf, f
        <3>. QED  BY <2>7, <3>3, <3>6, <3>7 DEF S
    <2>. QED  BY <2>5, <2>6, <2>7
<1>. QED  BY <1>1, RatesTypes, PTL

-----------------------------------------------------------------------------
(* What is asked is a question.                                            *)
AskedOK == asked = Nothing \/ IsQuestion(asked)
LEMMA AskedTheorem == MoneySpec => []AskedOK
<1>. USE DEF AskedOK
<1>1. MoneyInit => AskedOK
    BY DEF MoneyInit
<1>2. AskedOK /\ [MoneyNext]_asked => AskedOK'
    <2>1. ASSUME NEW q, Ask(q)  PROVE AskedOK'
        <3>1. IsQuestion(q) /\ asked' = q
            BY <2>1 DEF Ask
        <3>. QED  BY <3>1, Zenon
    <2>2. ASSUME AskedOK, UNCHANGED asked  PROVE AskedOK'
        BY <2>2, Zenon
    <2>. QED  BY <2>1, <2>2 DEF MoneyNext
<1>. QED  BY <1>1, <1>2, PTL DEF MoneySpec

-----------------------------------------------------------------------------
(* Loops that add up.                                                      *)

\* The sums of the first amounts.
Sums(v) == CHOOSE g : g = [n \in 0..Len(v) |-> IF n = 0 THEN 0 ELSE g[n - 1] + v[n]]

\* The loop starts at nothing, adds each amount in turn and ends with Added.
LEMMA AddedSteps ==
    ASSUME NEW n \in Nat, NEW v \in [1..n -> Int]
    PROVE  /\ Len(v) = n /\ Sums(v) \in [0..n -> Int] /\ Sums(v)[0] = 0
           /\ \A i \in 1..n : Sums(v)[i] = Sums(v)[i - 1] + v[i]
           /\ A!Added(v) = Sums(v)[n] /\ A!Added(v) \in Int
<1>1. Len(v) = n
    OBVIOUS
<1>. DEFINE Runs(g, m) == g[0] = 0 /\ \A i \in 1..m : g[i] = g[i - 1] + v[i]
            G == {m \in Nat : m <= n => \E g \in [0..n -> Int] : Runs(g, m)}
<1>2. 0 \in G
    <2>. DEFINE g == [i \in 0..n |-> 0]
    <2>1. g \in [0..n -> Int] /\ Runs(g, 0)
        OBVIOUS
    <2>. QED  BY <2>1
<1>3. ASSUME NEW m \in G  PROVE m + 1 \in G
    <2>0. m + 1 \in Nat
        BY <1>3
    <2>. SUFFICES ASSUME m + 1 <= n  PROVE \E g \in [0..n -> Int] : Runs(g, m + 1)
        BY <2>0
    <2>1. m \in Nat /\ m <= n
        BY <1>3
    <2>2. PICK h \in [0..n -> Int] : Runs(h, m)
        BY <2>1
    <2>. DEFINE g == [h EXCEPT ![m + 1] = h[m] + v[m + 1]]
    <2>3. g \in [0..n -> Int]
        BY <2>1, <2>2, SMTT(60)
    <2>4. ASSUME NEW i \in 1..(m + 1)  PROVE g[i] = g[i - 1] + v[i]
        <3>1. CASE i = m + 1
            BY <3>1, <2>1, <2>2
        <3>2. CASE i # m + 1
            <4>1. i \in 1..m /\ i - 1 # m + 1 /\ i - 1 \in 0..n /\ i \in 0..n
                BY <3>2, <2>1
            <4>. QED  BY <4>1, <2>2
        <3>. QED  BY <3>1, <3>2
    <2>5. g[0] = 0
        BY <2>1, <2>2
    <2>. QED  BY <2>3, <2>4, <2>5
<1>4. G = Nat
    <2>1. G \in SUBSET Nat
        OBVIOUS
    <2>. HIDE DEF G
    <2>. QED  BY <1>2, <1>3, <2>1, Induction
<1>5. PICK g \in [0..n -> Int] : Runs(g, n)
    <2>1. n \in G
        <3>. HIDE DEF G
        <3>. QED  BY <1>4
    <2>. QED  BY <2>1
<1>6. g = [i \in 0..n |-> IF i = 0 THEN 0 ELSE g[i - 1] + v[i]]
    BY <1>5
<1>7. Sums(v) = [i \in 0..n |-> IF i = 0 THEN 0 ELSE Sums(v)[i - 1] + v[i]]
    <2>1. \E f : f = [i \in 0..Len(v) |-> IF i = 0 THEN 0 ELSE f[i - 1] + v[i]]
        BY <1>6, <1>1, Zenon
    <2>2. Sums(v) = [i \in 0..Len(v) |-> IF i = 0 THEN 0 ELSE Sums(v)[i - 1] + v[i]]
        BY <2>1, Zenon DEF Sums
    <2>. QED  BY <2>2, <1>1, Zenon
<1>. DEFINE s == Sums(v)
<1>. HIDE DEF s
<1>8. s = [i \in 0..n |-> IF i = 0 THEN 0 ELSE s[i - 1] + v[i]]
    BY <1>7 DEF s
<1>9. DOMAIN s = 0..n /\ s[0] = 0 /\ \A i \in 1..n : s[i] = s[i - 1] + v[i]
    BY <1>8, SMTT(60)
<1>10. \A i \in 0..n : s[i] \in Int
    <2>. DEFINE H == {i \in Nat : i <= n => s[i] \in Int}
    <2>1. 0 \in H /\ H \in SUBSET Nat
        BY <1>9
    <2>2. ASSUME NEW i \in H  PROVE i + 1 \in H
        <3>. SUFFICES ASSUME i + 1 <= n  PROVE s[i + 1] \in Int
            OBVIOUS
        <3>1. i \in Nat /\ i + 1 \in 1..n /\ (i + 1) - 1 = i /\ s[i] \in Int
            BY <2>2
        <3>. QED  BY <3>1, <1>9
    <2>3. H = Nat
        <3>. HIDE DEF H
        <3>. QED  BY <2>1, <2>2, Induction
    <2>. QED  BY <2>3, SMTT(60)
<1>11. A!Added(v) = s[n]
    BY <1>1, Zenon DEF A!Added, Sums, s
<1>. QED  BY <1>1, <1>8, <1>9, <1>10, <1>11, SMTT(60) DEF s

\* Two loops side by side add up to one over the sums.
LEMMA AddedBoth ==
    ASSUME NEW n \in Nat, NEW u \in [1..n -> Int], NEW v \in [1..n -> Int], NEW w \in [1..n -> Int],
           \A i \in 1..n : w[i] = u[i] + v[i]
    PROVE  A!Added(w) = A!Added(u) + A!Added(v)
<1>. DEFINE G == {m \in Nat : m <= n => Sums(w)[m] = Sums(u)[m] + Sums(v)[m]}
<1>1. \A x \in [1..n -> Int] : /\ Sums(x) \in [0..n -> Int] /\ Sums(x)[0] = 0 /\ A!Added(x) = Sums(x)[n]
                                  /\ \A i \in 1..n : Sums(x)[i] = Sums(x)[i - 1] + x[i]
    BY AddedSteps
<1>2. 0 \in G /\ G \in SUBSET Nat
    <2>1. Sums(u)[0] = 0 /\ Sums(v)[0] = 0 /\ Sums(w)[0] = 0
        BY <1>1
    <2>. QED  BY <2>1
<1>3. ASSUME NEW m \in G  PROVE m + 1 \in G
    <2>. SUFFICES ASSUME m + 1 <= n  PROVE Sums(w)[m + 1] = Sums(u)[m + 1] + Sums(v)[m + 1]
        BY <1>3
    <2>1. m \in 0..n /\ m + 1 \in 1..n /\ (m + 1) - 1 = m /\ Sums(w)[m] = Sums(u)[m] + Sums(v)[m]
        BY <1>3
    <2>2. \A x \in {u, v, w} : Sums(x)[m] \in Int /\ Sums(x)[m + 1] = Sums(x)[m] + x[m + 1]
        BY <1>1, <2>1, ZenonT(60)
    <2>3. u[m + 1] \in Int /\ v[m + 1] \in Int /\ w[m + 1] = u[m + 1] + v[m + 1]
        BY <2>1
    <2>. QED  BY <2>1, <2>2, <2>3, SMTT(60)
<1>4. n \in G
    <2>. HIDE DEF G
    <2>. QED  BY <1>2, <1>3, Induction
<1>. QED  BY <1>1, <1>4

\* A loop that adds nothing.
LEMMA AddedNothing ==
    ASSUME NEW n \in Nat, NEW v \in [1..n -> Int], \A i \in 1..n : v[i] = 0
    PROVE  A!Added(v) = 0
<1>1. A!Added(v) \in Int
    BY AddedSteps
<1>2. A!Added(v) = A!Added(v) + A!Added(v)
    BY AddedBoth
<1>. QED  BY <1>1, <1>2

-----------------------------------------------------------------------------
(* The sum over a breakdown's keys.                                        *)

\* Whole amounts by key.
Amounts(K) == [K -> Int]

\* A key of a set, and the sums over sets of keys.
Pick(s) == CHOOSE x \in s : TRUE
Tally(f) == CHOOSE g : g = [s \in SUBSET DOMAIN f |->
                             IF s = {} THEN 0 ELSE f[Pick(s)] + g[s \ {Pick(s)}]]

\* The sum over a finite set is found key by key.
LEMMA TallySteps ==
    ASSUME NEW K, IsFiniteSet(K), NEW f \in Amounts(K)
    PROVE  /\ Tally(f) \in [SUBSET K -> Int] /\ Tally(f)[{}] = 0
           /\ \A s \in SUBSET K : s # {} => Tally(f)[s] = f[Pick(s)] + Tally(f)[s \ {Pick(s)}]
           /\ A!SumFunction(f) = Tally(f)[K]
<1>. USE DEF Amounts
<1>. DEFINE Runs(g, m) == \A s \in SUBSET K : Cardinality(s) <= m =>
                             g[s] = IF s = {} THEN 0 ELSE f[Pick(s)] + g[s \ {Pick(s)}]
            G == {m \in Nat : \E g \in [SUBSET K -> Int] : Runs(g, m)}
<1>1. \A s \in SUBSET K : IsFiniteSet(s) /\ Cardinality(s) \in Nat /\ Cardinality(s) <= Cardinality(K)
    BY FS_Subset, FS_CardinalityType
<1>2. \A s \in SUBSET K : s # {} => Pick(s) \in s
    BY DEF Pick
<1>3. \A s \in SUBSET K : s # {} => /\ s \ {Pick(s)} \in SUBSET K /\ Cardinality(s \ {Pick(s)}) = Cardinality(s) - 1
                                     /\ f[Pick(s)] \in Int
    BY <1>1, <1>2, FS_RemoveElement
<1>4. \A s \in SUBSET K : Cardinality(s) = 0 <=> s = {}
    BY <1>1, FS_EmptySet
<1>5. 0 \in G /\ G \in SUBSET Nat
    <2>. DEFINE g == [s \in SUBSET K |-> 0]
    <2>1. g \in [SUBSET K -> Int] /\ Runs(g, 0)
        BY <1>1, <1>4
    <2>. QED  BY <2>1
<1>6. ASSUME NEW m \in G  PROVE m + 1 \in G
    <2>1. PICK h \in [SUBSET K -> Int] : Runs(h, m)
        BY <1>6
    <2>. DEFINE g == [s \in SUBSET K |-> IF s = {} THEN 0 ELSE f[Pick(s)] + h[s \ {Pick(s)}]]
    <2>2. g \in [SUBSET K -> Int]
        <3>1. ASSUME NEW s \in SUBSET K, s # {}  PROVE f[Pick(s)] + h[s \ {Pick(s)}] \in Int
            <4>. DEFINE r == s \ {Pick(s)}
            <4>1. r \in SUBSET K /\ f[Pick(s)] \in Int
                BY <1>3, <3>1
            <4>2. h[r] \in Int
                <5>. HIDE DEF r
                <5>. QED  BY <2>1, <4>1
            <4>. QED  BY <4>1, <4>2
        <3>. QED  BY <3>1
    <2>3. ASSUME NEW s \in SUBSET K, Cardinality(s) <= m + 1, s # {}  PROVE g[s] = f[Pick(s)] + g[s \ {Pick(s)}]
        <3>. DEFINE r == s \ {Pick(s)}
        <3>1. r \in SUBSET K /\ Cardinality(r) <= m
            BY <1>1, <1>3, <1>6, <2>3
        <3>2. h[r] = g[r]
            <4>. HIDE DEF r
            <4>. QED  BY <3>1, <2>1
        <3>. QED  BY <3>2, <2>3
    <2>4. Runs(g, m + 1)
        BY <2>3
    <2>5. m + 1 \in Nat
        BY <1>6
    <2>. HIDE DEF g, Runs
    <2>. QED  BY <2>2, <2>4, <2>5
<1>7. G = Nat
    <2>. HIDE DEF G
    <2>. QED  BY <1>5, <1>6, Induction
<1>8. PICK g \in [SUBSET K -> Int] : Runs(g, Cardinality(K))
    <2>1. Cardinality(K) \in G
        <3>. HIDE DEF G
        <3>. QED  BY <1>7, FS_CardinalityType
    <2>. QED  BY <2>1
<1>9. g = [s \in SUBSET K |-> IF s = {} THEN 0 ELSE f[Pick(s)] + g[s \ {Pick(s)}]]
    BY <1>8, <1>1
<1>10. DOMAIN f = K
    OBVIOUS
<1>. DEFINE t == Tally(f)
<1>11. t = [s \in SUBSET K |-> IF s = {} THEN 0 ELSE f[Pick(s)] + t[s \ {Pick(s)}]]
    <2>1. \E e : e = [s \in SUBSET K |-> IF s = {} THEN 0 ELSE f[Pick(s)] + e[s \ {Pick(s)}]]
        BY <1>9, Zenon
    <2>2. t = CHOOSE e : e = [s \in SUBSET K |-> IF s = {} THEN 0 ELSE f[Pick(s)] + e[s \ {Pick(s)}]]
        BY <1>10, Zenon DEF Tally
    <2>. HIDE DEF t
    <2>. QED  BY <2>1, <2>2, Zenon
<1>12. A!SumFunction(f) = t[K]
    BY <1>10, Zenon DEF Tally, Pick, A!SumFunction, A!SumFunctionOnSet, A!FoldFunctionOnSet, A!MapThenFoldSet
<1>. HIDE DEF t
<1>13. \A m \in Nat : \A s \in SUBSET K : Cardinality(s) <= m => t[s] \in Int
    <2>. DEFINE H == {m \in Nat : \A s \in SUBSET K : Cardinality(s) <= m => t[s] \in Int}
    <2>1. 0 \in H /\ H \in SUBSET Nat
        BY <1>1, <1>4, <1>11
    <2>2. ASSUME NEW m \in H  PROVE m + 1 \in H
        <3>. SUFFICES ASSUME NEW s \in SUBSET K, Cardinality(s) <= m + 1, s # {}  PROVE t[s] \in Int
            <4>1. t[{}] \in Int /\ m + 1 \in Nat
                BY <1>11, <2>2
            <4>. QED  BY <4>1
        <3>. DEFINE r == s \ {Pick(s)}
        <3>1. r \in SUBSET K /\ Cardinality(r) <= m /\ f[Pick(s)] \in Int
            BY <1>1, <1>3, <2>2
        <3>2. t[s] = f[Pick(s)] + t[r]
            BY <1>11
        <3>3. t[r] \in Int
            <4>. HIDE DEF r
            <4>. QED  BY <3>1, <2>2
        <3>. HIDE DEF r
        <3>. QED  BY <3>1, <3>2, <3>3
    <2>3. H = Nat
        <3>. HIDE DEF H
        <3>. QED  BY <2>1, <2>2, Induction
    <2>. QED  BY <2>3
<1>14. t \in [SUBSET K -> Int]
    BY <1>1, <1>11, <1>13, FS_CardinalityType
<1>. QED  BY <1>11, <1>12, <1>14 DEF t

\* Whichever key is taken out first.
LEMMA TallyTakes ==
    ASSUME NEW K, IsFiniteSet(K), NEW f \in Amounts(K)
    PROVE  \A T \in SUBSET K : \A k \in T : Tally(f)[T] = f[k] + Tally(f)[T \ {k}]
<1>. USE DEF Amounts
<1>. DEFINE t == Tally(f)
            G == {m \in Nat : \A s \in SUBSET K : Cardinality(s) <= m => \A x \in s : t[s] = f[x] + t[s \ {x}]}
<1>1. t \in [SUBSET K -> Int] /\ \A s \in SUBSET K : s # {} => t[s] = f[Pick(s)] + t[s \ {Pick(s)}]
    BY TallySteps
<1>2. \A s \in SUBSET K : IsFiniteSet(s) /\ Cardinality(s) \in Nat
    BY FS_Subset, FS_CardinalityType
<1>3. \A s \in SUBSET K : s # {} => Pick(s) \in s
    BY DEF Pick
<1>. HIDE DEF t
<1>4. 0 \in G /\ G \in SUBSET Nat
    <2>1. \A s \in SUBSET K : Cardinality(s) <= 0 => s = {}
        BY <1>2, FS_EmptySet
    <2>. QED  BY <2>1
<1>5. ASSUME NEW m \in G  PROVE m + 1 \in G
    <2>. SUFFICES ASSUME NEW s \in SUBSET K, Cardinality(s) <= m + 1, NEW x \in s  PROVE t[s] = f[x] + t[s \ {x}]
        BY <1>5
    <2>. DEFINE y == Pick(s)
    <2>1. y \in s /\ t[s] = f[y] + t[s \ {y}]
        BY <1>1, <1>3
    <2>. HIDE DEF y
    <2>2. CASE x = y
        BY <2>1, <2>2
    <2>3. CASE x # y
        <3>. DEFINE a == s \ {x}
                    b == s \ {y}
                    c == s \ {x, y}
        <3>1. a \in SUBSET K /\ b \in SUBSET K /\ c \in SUBSET K /\ y \in a /\ x \in b /\ a \ {y} = c /\ b \ {x} = c
            BY <2>1, <2>3
        <3>2. Cardinality(a) = Cardinality(s) - 1 /\ Cardinality(b) = Cardinality(s) - 1
            BY <1>2, <2>1, FS_RemoveElement
        <3>3. Cardinality(a) <= m /\ Cardinality(b) <= m
            BY <1>2, <1>5, <3>2
        <3>. HIDE DEF a, b, c
        <3>4. t[a] = f[y] + t[c] /\ t[b] = f[x] + t[c]
            <4>1. t[a] = f[y] + t[a \ {y}]
                BY <3>1, <3>3, <1>5
            <4>2. t[b] = f[x] + t[b \ {x}]
                BY <3>1, <3>3, <1>5
            <4>. QED  BY <3>1, <4>1, <4>2
        <3>5. f[x] \in Int /\ f[y] \in Int /\ t[c] \in Int
            BY <1>1, <2>1, <3>1
        <3>6. t[s] = f[x] + t[a]
            BY <2>1, <3>4, <3>5 DEF b
        <3>. QED  BY <3>6 DEF a
    <2>. QED  BY <2>2, <2>3
<1>6. Cardinality(K) \in G
    <2>. HIDE DEF G
    <2>. QED  BY <1>4, <1>5, Induction, FS_CardinalityType
<1>7. \A s \in SUBSET K : Cardinality(s) <= Cardinality(K)
    BY FS_Subset
<1>. QED  BY <1>6, <1>7 DEF t

\* A sum over other keys does not change.
LEMMA TallyAgrees ==
    ASSUME NEW K, IsFiniteSet(K), NEW f \in Amounts(K), NEW g \in Amounts(K), NEW T \in SUBSET K,
           \A x \in T : f[x] = g[x]
    PROVE  Tally(f)[T] = Tally(g)[T]
<1>. USE DEF Amounts
<1>. DEFINE G == {m \in Nat : \A s \in SUBSET T : Cardinality(s) <= m => Tally(f)[s] = Tally(g)[s]}
<1>1. \A s \in SUBSET T : IsFiniteSet(s) /\ Cardinality(s) \in Nat
    BY FS_Subset, FS_CardinalityType
<1>2. Tally(f)[{}] = 0 /\ Tally(g)[{}] = 0
    BY TallySteps
<1>3. 0 \in G /\ G \in SUBSET Nat
    BY <1>1, <1>2, FS_EmptySet
<1>4. ASSUME NEW m \in G  PROVE m + 1 \in G
    <2>. SUFFICES ASSUME NEW s \in SUBSET T, Cardinality(s) <= m + 1, s # {}  PROVE Tally(f)[s] = Tally(g)[s]
        <3>1. m + 1 \in Nat
            BY <1>4
        <3>. QED  BY <1>2, <3>1
    <2>1. PICK x \in s : TRUE
        OBVIOUS
    <2>. DEFINE r == s \ {x}
    <2>2. r \in SUBSET T /\ Cardinality(r) = Cardinality(s) - 1
        BY <1>1, FS_RemoveElement
    <2>3. Cardinality(r) <= m
        BY <1>1, <1>4, <2>2
    <2>4. Tally(f)[s] = f[x] + Tally(f)[r] /\ Tally(g)[s] = g[x] + Tally(g)[r]
        <3>1. s \in SUBSET K
            OBVIOUS
        <3>2. Tally(f)[s] = f[x] + Tally(f)[r]
            BY <3>1, TallyTakes
        <3>3. Tally(g)[s] = g[x] + Tally(g)[r]
            BY <3>1, TallyTakes
        <3>. QED  BY <3>2, <3>3
    <2>. HIDE DEF r
    <2>5. Tally(f)[r] = Tally(g)[r]
        BY <1>4, <2>2, <2>3
    <2>6. f[x] = g[x]
        BY <2>1
    <2>. QED  BY <2>4, <2>5, <2>6
<1>5. Cardinality(T) \in G
    <2>. HIDE DEF G
    <2>. QED  BY <1>1, <1>3, <1>4, Induction
<1>. QED  BY <1>1, <1>5

\* Adding to one key adds to the sum.
Plus(f, k, c) == [f EXCEPT ![k] = @ + c]
LEMMA TallyBump ==
    ASSUME NEW K, IsFiniteSet(K), NEW f \in Amounts(K), NEW k \in K, NEW c \in Int
    PROVE  A!SumFunction(Plus(f, k, c)) = A!SumFunction(f) + c
<1>. DEFINE R == K \ {k}
            g == Plus(f, k, c)
<1>0. /\ K \in SUBSET K /\ R \in SUBSET K /\ \A x \in R : f[x] = g[x]
      /\ g \in Amounts(K) /\ g[k] = f[k] + c /\ f[k] \in Int
    BY DEF Amounts, Plus
<1>. HIDE DEF g
<1>1. Tally(f)[K] = f[k] + Tally(f)[R] /\ Tally(g)[K] = g[k] + Tally(g)[R]
    <2>1. Tally(f)[K] = f[k] + Tally(f)[K \ {k}]
        BY <1>0, TallyTakes
    <2>2. Tally(g)[K] = g[k] + Tally(g)[K \ {k}]
        BY <1>0, TallyTakes
    <2>. QED  BY <2>1, <2>2
<1>2. Tally(f)[R] = Tally(g)[R]
    <2>. HIDE DEF R
    <2>. QED  BY <1>0, TallyAgrees
<1>3. Tally(f)[R] \in Int /\ Tally(f)[K] \in Int /\ A!SumFunction(f) = Tally(f)[K] /\ A!SumFunction(g) = Tally(g)[K]
    <2>1. Tally(f) \in [SUBSET K -> Int] /\ A!SumFunction(f) = Tally(f)[K]
        BY TallySteps
    <2>2. A!SumFunction(g) = Tally(g)[K]
        BY <1>0, TallySteps
    <2>. HIDE DEF R
    <2>. QED  BY <1>0, <2>1, <2>2
<1>. HIDE DEF R
<1>. QED  BY <1>0, <1>1, <1>2, <1>3 DEF g

\* A breakdown before any amount is added sums to nothing.
LEMMA TallyNothing ==
    ASSUME NEW K, IsFiniteSet(K), NEW f \in Amounts(K), \A x \in K : f[x] = 0
    PROVE  A!SumFunction(f) = 0
<1>. USE DEF Amounts
<1>. DEFINE G == {m \in Nat : \A s \in SUBSET K : Cardinality(s) <= m => Tally(f)[s] = 0}
<1>1. \A s \in SUBSET K : IsFiniteSet(s) /\ Cardinality(s) \in Nat
    BY FS_Subset, FS_CardinalityType
<1>2. Tally(f)[{}] = 0 /\ A!SumFunction(f) = Tally(f)[K]
    BY TallySteps
<1>3. 0 \in G /\ G \in SUBSET Nat
    <2>1. \A s \in SUBSET K : Cardinality(s) <= 0 => s = {}
        BY <1>1, FS_EmptySet
    <2>. QED  BY <1>2, <2>1
<1>4. ASSUME NEW m \in G  PROVE m + 1 \in G
    <2>. SUFFICES ASSUME NEW s \in SUBSET K, Cardinality(s) <= m + 1, s # {}  PROVE Tally(f)[s] = 0
        <3>1. m + 1 \in Nat
            BY <1>4
        <3>. QED  BY <1>2, <3>1
    <2>1. PICK x \in s : TRUE
        OBVIOUS
    <2>. DEFINE r == s \ {x}
    <2>2. r \in SUBSET K /\ Cardinality(r) = Cardinality(s) - 1
        BY <1>1, FS_RemoveElement
    <2>3. Cardinality(r) <= m
        BY <1>1, <1>4, <2>2
    <2>4. Tally(f)[s] = f[x] + Tally(f)[r]
        BY TallyTakes
    <2>. HIDE DEF r
    <2>5. Tally(f)[r] = 0 /\ f[x] = 0
        BY <1>4, <2>2, <2>3
    <2>. QED  BY <2>4, <2>5
<1>5. Cardinality(K) \in G
    <2>. HIDE DEF G
    <2>. QED  BY <1>3, <1>4, Induction, FS_CardinalityType
<1>6. K \in SUBSET K /\ Cardinality(K) <= Cardinality(K)
    BY <1>1
<1>. QED  BY <1>2, <1>5, <1>6

-----------------------------------------------------------------------------
(* The breakdowns.                                                         *)

\* The breakdown after the first amounts.
Bumps(keys, v) ==
    CHOOSE g : g = [n \in 0..Len(v) |-> IF n = 0 THEN [k \in A!Range(keys) |-> 0]
                                        ELSE [g[n - 1] EXCEPT ![keys[n]] = @ + v[n]]]

\* The keys of n amounts, K being those that occur.
Keys(n, K) == {keys \in [1..n -> K] : A!Range(keys) = K}

\* The loop starts with nothing for every key, and bumps one key at a time.
LEMMA BumpedSteps ==
    ASSUME NEW n \in Nat, NEW v \in Amounts(1..n), NEW K, NEW keys \in Keys(n, K)
    PROVE  /\ Bumps(keys, v) \in [0..n -> Amounts(K)] /\ Bumps(keys, v)[0] = [k \in K |-> 0]
           /\ \A i \in 1..n : keys[i] \in K /\ Bumps(keys, v)[i] = Plus(Bumps(keys, v)[i - 1], keys[i], v[i])
           /\ A!Bumped(keys, v) = Bumps(keys, v)[n]
<1>. USE DEF Amounts
<1>1. Len(v) = n /\ A!Range(keys) = K /\ \A i \in 1..n : keys[i] \in K
    BY DEF Keys
<1>. DEFINE Zero == [k \in K |-> 0]
            Bump(f, i) == Plus(f, keys[i], v[i])
            Runs(g, m) == g[0] = Zero /\ \A i \in 1..m : g[i] = Bump(g[i - 1], i)
            G == {m \in Nat : m <= n => \E g \in [0..n -> [K -> Int]] : Runs(g, m)}
<1>0. Zero \in [K -> Int] /\ \A f \in [K -> Int] : \A i \in 1..n : Bump(f, i) \in [K -> Int]
    BY <1>1 DEF Plus
<1>2. 0 \in G
    <2>. DEFINE g == [i \in 0..n |-> Zero]
    <2>1. g \in [0..n -> [K -> Int]] /\ Runs(g, 0)
        BY <1>0
    <2>. QED  BY <2>1
<1>. HIDE DEF Zero, Bump
<1>3. ASSUME NEW m \in G  PROVE m + 1 \in G
    <2>0. m + 1 \in Nat
        BY <1>3
    <2>. SUFFICES ASSUME m + 1 <= n  PROVE \E g \in [0..n -> [K -> Int]] : Runs(g, m + 1)
        BY <2>0
    <2>1. m \in Nat /\ m <= n
        BY <1>3
    <2>2. PICK h \in [0..n -> [K -> Int]] : Runs(h, m)
        BY <2>1
    <2>. DEFINE g == [h EXCEPT ![m + 1] = Bump(h[m], m + 1)]
    <2>3. g \in [0..n -> [K -> Int]]
        <3>1. m \in 0..n /\ m + 1 \in 1..n
            BY <2>1
        <3>2. h[m] \in [K -> Int]
            BY <2>2, <3>1
        <3>3. Bump(h[m], m + 1) \in [K -> Int]
            BY <1>0, <3>1, <3>2
        <3>. QED  BY <2>2, <3>3
    <2>4. ASSUME NEW i \in 1..(m + 1)  PROVE g[i] = Bump(g[i - 1], i)
        <3>1. CASE i = m + 1
            BY <3>1, <2>1, <2>2
        <3>2. CASE i # m + 1
            <4>1. i \in 1..m /\ i - 1 # m + 1 /\ i - 1 \in 0..n /\ i \in 0..n
                BY <3>2, <2>1
            <4>2. g[i] = h[i] /\ g[i - 1] = h[i - 1]
                BY <3>2, <4>1, <2>2
            <4>. QED  BY <4>1, <4>2, <2>2
        <3>. QED  BY <3>1, <3>2
    <2>5. g[0] = Zero
        BY <2>1, <2>2
    <2>. QED  BY <2>3, <2>4, <2>5
<1>4. n \in G
    <2>1. G \in SUBSET Nat
        OBVIOUS
    <2>. HIDE DEF G
    <2>. QED  BY <1>2, <1>3, <2>1, Induction
<1>5. PICK g \in [0..n -> [K -> Int]] : Runs(g, n)
    <2>. HIDE DEF Runs
    <2>. QED  BY <1>4, SMTT(60)
<1>6. g = [i \in 0..n |-> IF i = 0 THEN Zero ELSE Bump(g[i - 1], i)]
    BY <1>5
<1>. DEFINE s == Bumps(keys, v)
<1>7. s = [i \in 0..n |-> IF i = 0 THEN Zero ELSE Bump(s[i - 1], i)]
    <2>1. \E f : f = [i \in 0..n |-> IF i = 0 THEN Zero ELSE Bump(f[i - 1], i)]
        BY <1>6, Zenon
    <2>2. s = CHOOSE f : f = [i \in 0..n |-> IF i = 0 THEN Zero ELSE Bump(f[i - 1], i)]
        BY <1>1, Zenon DEF Bumps, Zero, Bump, Plus
    <2>. HIDE DEF s
    <2>. QED  BY <2>1, <2>2, Zenon
<1>8. A!Bumped(keys, v) = s[n]
    BY <1>1, Zenon DEF A!Bumped, Bumps
<1>. HIDE DEF s
<1>9. DOMAIN s = 0..n /\ s[0] = Zero /\ \A i \in 1..n : s[i] = Bump(s[i - 1], i)
    BY <1>7
<1>10. \A i \in 0..n : s[i] \in [K -> Int]
    <2>. DEFINE H == {i \in Nat : i <= n => s[i] \in [K -> Int]}
    <2>1. 0 \in H /\ H \in SUBSET Nat
        BY <1>9, <1>0
    <2>2. ASSUME NEW i \in H  PROVE i + 1 \in H
        <3>. SUFFICES ASSUME i + 1 <= n  PROVE s[i + 1] \in [K -> Int]
            <4>1. i + 1 \in Nat
                BY <2>2
            <4>. QED  BY <4>1
        <3>1. i \in Nat /\ i + 1 \in 1..n /\ (i + 1) - 1 = i /\ s[i] \in [K -> Int]
            BY <2>2
        <3>2. s[i + 1] = Bump(s[i], i + 1)
            BY <1>9, <3>1
        <3>3. Bump(s[i], i + 1) \in [K -> Int]
            BY <3>1, <1>0
        <3>. QED  BY <3>2, <3>3
    <2>3. \A i \in Nat : i \in H
        <3>. HIDE DEF H
        <3>. QED  BY <2>1, <2>2, Induction
    <2>. QED  BY <2>3
<1>11. s \in [0..n -> [K -> Int]]
    BY <1>7, <1>10
<1>. QED  BY <1>1, <1>8, <1>9, <1>11 DEF s, Zero, Bump

\* A breakdown adds up to the total, and a key has what its own amounts add up to.
LEMMA BreakdownAdds ==
    ASSUME NEW n \in Nat, NEW v \in Amounts(1..n), NEW K, NEW keys \in Keys(n, K)
    PROVE  /\ A!SumFunction(A!Bumped(keys, v)) = A!Added(v)
           /\ \A q \in K : A!Bumped(keys, v)[q] = A!Added([i \in 1..n |-> IF keys[i] = q THEN v[i] ELSE 0])
<1>. DEFINE b == Bumps(keys, v)
            s == Sums(v)
<1>0. v \in [1..n -> Int]
    BY DEF Amounts
<1>1. IsFiniteSet(K)
    <2>1. IsFiniteSet(1..n)
        BY FS_Interval
    <2>2. keys \in Surjection(1..n, K)
        BY DEF Surjection, A!Range, Keys
    <2>. QED  BY <2>1, <2>2, FS_Surjection
<1>2. /\ b \in [0..n -> Amounts(K)] /\ b[0] = [k \in K |-> 0] /\ A!Bumped(keys, v) = b[n]
      /\ \A i \in 1..n : keys[i] \in K /\ b[i] = Plus(b[i - 1], keys[i], v[i])
    BY BumpedSteps
<1>3. s \in [0..n -> Int] /\ s[0] = 0 /\ A!Added(v) = s[n] /\ \A i \in 1..n : s[i] = s[i - 1] + v[i]
    BY <1>0, AddedSteps
<1>. HIDE DEF b, s
<1>4. \A i \in 0..n : b[i] \in Amounts(K) /\ s[i] \in Int
    BY <1>2, <1>3
<1>5. A!SumFunction(b[n]) = s[n]
    <2>. DEFINE G == {m \in Nat : m <= n => A!SumFunction(b[m]) = s[m]}
    <2>1. 0 \in G /\ G \in SUBSET Nat
        <3>1. b[0] \in Amounts(K) /\ \A k \in K : b[0][k] = 0
            BY <1>2, <1>4
        <3>2. A!SumFunction(b[0]) = 0
            BY <1>1, <3>1, TallyNothing
        <3>. QED  BY <3>2, <1>3
    <2>2. ASSUME NEW m \in G  PROVE m + 1 \in G
        <3>0. m + 1 \in Nat
            BY <2>2
        <3>. SUFFICES ASSUME m + 1 <= n  PROVE A!SumFunction(b[m + 1]) = s[m + 1]
            BY <3>0
        <3>1. m \in 0..n /\ m + 1 \in 1..n /\ m + 1 \in 0..n /\ (m + 1) - 1 = m /\ A!SumFunction(b[m]) = s[m]
            BY <2>2
        <3>. DEFINE f == b[m]
                    g == b[m + 1]
                    k == keys[m + 1]
                    c == v[m + 1]
        <3>2. f \in Amounts(K) /\ g \in Amounts(K) /\ k \in K /\ c \in Int /\ g = Plus(f, k, c)
            BY <1>0, <1>2, <1>4, <3>1
        <3>3. s[m + 1] = s[m] + c
            BY <1>3, <3>1
        <3>. HIDE DEF f, g, k, c
        <3>4. A!SumFunction(g) = A!SumFunction(f) + c
            BY <1>1, <3>2, TallyBump
        <3>. QED  BY <3>1, <3>3, <3>4 DEF f, g
    <2>3. n \in G
        <3>. HIDE DEF G
        <3>. QED  BY <2>1, <2>2, Induction
    <2>. QED  BY <2>3
<1>6. ASSUME NEW q \in K  PROVE b[n][q] = A!Added([i \in 1..n |-> IF keys[i] = q THEN v[i] ELSE 0])
    <2>. DEFINE w == [i \in 1..n |-> IF keys[i] = q THEN v[i] ELSE 0]
                r == Sums(w)
                G == {m \in Nat : m <= n => b[m][q] = r[m]}
    <2>1. w \in [1..n -> Int] /\ \A i \in 1..n : w[i] = IF keys[i] = q THEN v[i] ELSE 0
        BY <1>0
    <2>. HIDE DEF w
    <2>2. r \in [0..n -> Int] /\ r[0] = 0 /\ A!Added(w) = r[n] /\ \A i \in 1..n : r[i] = r[i - 1] + w[i]
        BY <2>1, AddedSteps
    <2>. HIDE DEF r
    <2>3. 0 \in G /\ G \in SUBSET Nat
        BY <1>2, <1>6, <2>2
    <2>4. ASSUME NEW m \in G  PROVE m + 1 \in G
        <3>0. m + 1 \in Nat
            BY <2>4
        <3>. SUFFICES ASSUME m + 1 <= n  PROVE b[m + 1][q] = r[m + 1]
            BY <3>0
        <3>1. m \in 0..n /\ m + 1 \in 1..n /\ (m + 1) - 1 = m /\ b[m][q] = r[m]
            BY <2>4
        <3>2. b[m] \in [K -> Int] /\ r[m] \in Int /\ v[m + 1] \in Int /\ keys[m + 1] \in K
            BY <1>0, <1>2, <1>4, <2>2, <3>1 DEF Amounts
        <3>3. b[m + 1] = Plus(b[m], keys[m + 1], v[m + 1]) /\ r[m + 1] = r[m] + w[m + 1]
            BY <1>2, <2>2, <3>1
        <3>4. w[m + 1] = IF keys[m + 1] = q THEN v[m + 1] ELSE 0
            BY <2>1, <3>1
        <3>. QED  BY <1>6, <3>1, <3>2, <3>3, <3>4 DEF Plus
    <2>5. n \in G
        <3>. HIDE DEF G
        <3>. QED  BY <2>3, <2>4, Induction
    <2>6. b[n][q] = A!Added(w)
        BY <2>2, <2>5
    <2>. QED  BY <2>6 DEF w
<1>. QED  BY <1>2, <1>3, <1>5, <1>6

-----------------------------------------------------------------------------
(* The list ahead: each charge has a place of its own.                     *)

\* Analytics counts as everybody does.
LEMMA SameCardinality == ASSUME NEW Q PROVE A!Cardinality(Q) = Cardinality(Q)
    BY Zenon DEF A!Cardinality, Cardinality

\* The charges ahead are listed, each once in its place.
LEMMA AheadIsSoon ==
    ASSUME NEW p, IsPortfolio(p)
    PROVE  {A!UpcomingSorted(p)[n] : n \in DOMAIN A!UpcomingSorted(p)} = A!Soon(p)
<1>. DEFINE Q == A!Soon(p)
            R == {x \in Q \X Q : \/ p.services[x[1]].due < p.services[x[2]].due
                                 \/ p.services[x[1]].due = p.services[x[2]].due /\ x[1] <= x[2]}
            u == A!UpcomingSorted(p)
<1>1. PICK k \in Nat : DOMAIN p.services = 1..k
    BY DEF IsPortfolio, IsSeq
<1>2. IsFiniteSet(Q) /\ Q \in SUBSET (1..k)
    <2>1. Q \in SUBSET (1..k)
        BY <1>1 DEF A!Soon
    <2>2. IsFiniteSet(1..k)
        BY FS_Interval
    <2>. HIDE DEF Q
    <2>. QED  BY <2>1, <2>2, FS_Subset
<1>3. \A i \in Q : i \in Int /\ p.services[i].due \in Int
    BY <1>1 DEF IsPortfolio, A!Soon, A!IsUpcoming
<1>4. \A i \in Q : A!NotAfter(p, i) = {j \in Q : <<j, i>> \in R}
    BY DEF A!NotAfter
<1>. HIDE DEF Q
<1>5. /\ \A d \in Q : <<d, d>> \in R
      /\ \A d, e \in Q : d # e => (<<d, e>> \in R <=> <<e, d>> \notin R)
      /\ \A c, d, e \in Q : <<c, d>> \in R /\ <<d, e>> \in R => <<c, e>> \in R
    BY <1>3
<1>. HIDE DEF R
<1>6. /\ Cardinality(Q) \in Nat
      /\ \A d \in Q : Place(Q, R, d) \in 1..Cardinality(Q)
      /\ \A d, e \in Q : d # e /\ <<d, e>> \in R => Place(Q, R, d) < Place(Q, R, e)
      /\ \A i \in 1..Cardinality(Q) : \E d \in Q : Place(Q, R, d) = i
    BY <1>2, <1>5, Places
<1>7. \A i \in Q : A!Places(p)[i] = Place(Q, R, i)
    <2>1. \A i \in Q : A!Places(p)[i] = Cardinality(A!NotAfter(p, i))
        BY SameCardinality DEF A!Places, Q
    <2>. QED  BY <1>4, <2>1 DEF Place
<1>8. u = [n \in 1..Cardinality(Q) |-> CHOOSE i \in Q : A!Places(p)[i] = n]
    BY Zenon DEF A!UpcomingSorted, Q, A!Cardinality, Cardinality
<1>9. \A n \in 1..Cardinality(Q) : u[n] \in Q /\ Place(Q, R, u[n]) = n
    <2>. SUFFICES ASSUME NEW n \in 1..Cardinality(Q)  PROVE u[n] \in Q /\ Place(Q, R, u[n]) = n
        OBVIOUS
    <2>1. u[n] = CHOOSE i \in Q : A!Places(p)[i] = n
        BY <1>8
    <2>2. \E i \in Q : A!Places(p)[i] = n
        BY <1>6, <1>7
    <2>. HIDE DEF u
    <2>3. u[n] \in Q /\ A!Places(p)[u[n]] = n
        BY <2>1, <2>2
    <2>. QED  BY <2>3, <1>7
<1>10. DOMAIN u = 1..Cardinality(Q)
    BY <1>8
<1>. HIDE DEF u
<1>11. ASSUME NEW i \in Q  PROVE \E n \in DOMAIN u : u[n] = i
    <2>. DEFINE n == Place(Q, R, i)
    <2>1. n \in 1..Cardinality(Q) /\ n \in Int
        BY <1>6
    <2>2. u[n] \in Q /\ Place(Q, R, u[n]) = n
        BY <2>1, <1>9
    <2>3. u[n] = i
        <3>1. ASSUME u[n] # i  PROVE FALSE
            <4>1. <<u[n], i>> \in R \/ <<i, u[n]>> \in R
                BY <1>5, <2>2, <3>1
            <4>2. n < n
                <5>. HIDE DEF n
                <5>. QED  BY <1>6, <2>2, <3>1, <4>1 DEF n
            <4>. QED  BY <2>1, <4>2
        <3>. QED  BY <3>1
    <2>. QED  BY <2>1, <2>3, <1>10
<1>. QED  BY <1>9, <1>10, <1>11 DEF u, Q

\* "so the two lists partition dated services with no gap and no overlap"
\* (overdue.ts:7), every breakdown adds up to the monthly total and a project's page
\* shows its part: for every portfolio, whatever its size, amounts and dates.
THEOREM PortfolioAnswers ==
    ASSUME NEW p, IsPortfolio(p)
    PROVE  A!PartitionHolds(p)
<1>. DEFINE ahead == {A!UpcomingSorted(p)[n] : n \in DOMAIN A!UpcomingSorted(p)}
            dated == {i \in DOMAIN p.services : ~A!Metered(p.services[i]) /\ p.services[i].due # None}
            later == {i \in dated : p.services[i].due >= A!Horizon(p)}
<1>1. PICK k \in Nat : DOMAIN p.services = 1..k
    BY DEF IsPortfolio, IsSeq
<1>2. ahead = A!Soon(p)
    BY AheadIsSoon
<1>3. A!Horizon(p) \in Nat
    BY DEF A!Horizon, IsPortfolio
<1>. HIDE DEF ahead
<1>4. ASSUME NEW i \in DOMAIN p.services
      PROVE  /\ A!OverdueDays(p.services[i]) > 0 <=> p.services[i].due # None /\ p.services[i].due < 0
             /\ A!OverdueDays(p.services[i]) = 0 <=> ~(p.services[i].due # None /\ p.services[i].due < 0)
             /\ p.services[i].due # None => p.services[i].due \in Int
    <2>1. p.services[i].due \in Int \cup {None}
        BY <1>4 DEF IsPortfolio
    <2>. QED  BY <2>1 DEF A!OverdueDays, A!StartOfDay
<1>5. ahead \cup A!Overdue(p) \cup later = dated
    BY <1>2, <1>3, <1>4 DEF A!Soon, A!IsUpcoming, A!Overdue
<1>6. ahead \cap A!Overdue(p) = {} /\ ahead \cap later = {} /\ A!Overdue(p) \cap later = {}
    BY <1>2, <1>3, <1>4 DEF A!Soon, A!IsUpcoming, A!Overdue
<1>7. A!MonthlyBases(p) \in Amounts(1..k) /\ A!MonthlyBases(p) \in [1..k -> Int]
    <2>1. ASSUME NEW i \in 1..k  PROVE A!MonthlyBase(p, p.services[i]) \in Int
        <3>. DEFINE s == p.services[i]
                    c == s.cost * A!MonthlyFactor[s.period]
        <3>1. s.cost \in Int /\ s.currency \in DOMAIN p.rates /\ s.period \in DOMAIN A!MonthlyFactor
            BY <1>1, <2>1 DEF IsPortfolio
        <3>2. A!MonthlyFactor[s.period] \in Int
            BY <3>1 DEF A!MonthlyFactor
        <3>3. c \in Int
            BY <3>1, <3>2
        <3>4. p.rates[s.currency] \in Nat /\ p.rates[p.base] \in Nat
            BY <3>1 DEF IsPortfolio
        <3>. HIDE DEF c
        <3>5. c * p.rates[s.currency] \in Int
            BY <3>3, <3>4
        <3>6. A!Convert(c, s.currency, p.base, p.rates) \in Int
            BY <3>3, <3>4, <3>5 DEF A!Convert
        <3>. QED  BY <3>6 DEF A!MonthlyBase, c
    <2>. QED  BY <1>1, <2>1 DEF A!MonthlyBases, Amounts
<1>8. ASSUME NEW key
      PROVE  LET keys == [i \in DOMAIN p.services |-> p.services[i][key]]
             IN  /\ A!SumFunction(A!Breakdown(p, key)) = A!MonthlyTotal(p)
                 /\ \A q \in A!Range(keys) : A!Breakdown(p, key)[q] =
                        A!Added([i \in 1..k |-> IF keys[i] = q THEN A!MonthlyBases(p)[i] ELSE 0])
    <2>. DEFINE keys == [i \in DOMAIN p.services |-> p.services[i][key]]
                K == A!Range(keys)
    <2>1. keys \in Keys(k, K)
        BY <1>1 DEF Keys, A!Range
    <2>2. A!Breakdown(p, key) = A!Bumped(keys, A!MonthlyBases(p)) /\ A!MonthlyTotal(p) = A!Added(A!MonthlyBases(p))
        BY DEF A!Breakdown, A!MonthlyTotal
    <2>. HIDE DEF keys, K
    <2>3. /\ A!SumFunction(A!Bumped(keys, A!MonthlyBases(p))) = A!Added(A!MonthlyBases(p))
          /\ \A q \in K : A!Bumped(keys, A!MonthlyBases(p))[q] = A!Added([i \in 1..k |-> IF keys[i] = q THEN A!MonthlyBases(p)[i] ELSE 0])
        BY <1>7, <2>1, BreakdownAdds
    <2>. QED  BY <2>2, <2>3 DEF keys, K
<1>9. ASSUME NEW q \in {p.services[i].project : i \in DOMAIN p.services}
      PROVE  A!Breakdown(p, "project")[q] = A!ProjectStats(p, q)
    <2>. DEFINE keys == [i \in DOMAIN p.services |-> p.services[i]["project"]]
    <2>1. q \in A!Range(keys)
        BY <1>9 DEF A!Range
    <2>2. A!Breakdown(p, "project")[q] = A!Added([i \in 1..k |-> IF keys[i] = q THEN A!MonthlyBases(p)[i] ELSE 0])
        <3>. HIDE DEF keys
        <3>. QED  BY <1>8, <2>1 DEF keys
    <2>3. [i \in 1..k |-> IF keys[i] = q THEN A!MonthlyBases(p)[i] ELSE 0]
           = [i \in DOMAIN p.services |-> IF p.services[i].project = q THEN A!MonthlyBases(p)[i] ELSE 0]
        BY <1>1
    <2>. QED  BY <2>2, <2>3 DEF A!ProjectStats
<1>10. A!SumFunction(A!Breakdown(p, "account")) = A!MonthlyTotal(p) /\ A!SumFunction(A!Breakdown(p, "currency")) = A!MonthlyTotal(p)
    BY <1>8
<1>. QED  BY <1>5, <1>6, <1>9, <1>10 DEF A!PartitionHolds, ahead

\* For every question asked of a portfolio: see PortfolioAnswers.
THEOREM PartitionTheorem == MoneySpec => []ListsPartition
<1>1. AskedOK => ListsPartition
    BY PortfolioAnswers DEF AskedOK, ListsPartition, IsQuestion, Nothing
<1>. QED  BY <1>1, AskedTheorem, PTL

----------------------------------------------------------------------------
(* Top-ups.  The two running balances are one amount in two currencies, as *)
(* long as no conversion rounds; charges only take.  So the account with   *)
(* the suggested amount more on it ends the charges ahead with exactly     *)
(* nothing, and with one less it ends below.                               *)

\* The charges ahead in turn: whose service, whose account, at what cost in base
\* currency and in the account's.
Order(p) == A!UpcomingSorted(p)
Ahead(p) == Len(Order(p))
Bill(p, n) == p.services[Order(p)[n]]
Payer(p, n) == Bill(p, n).account
BaseCost(p, n) == A!Convert(Bill(p, n).cost, Bill(p, n).currency, p.base, p.rates)
OwnCost(p, n)  == A!Convert(Bill(p, n).cost, Bill(p, n).currency, p.accounts[Payer(p, n)].currency, p.rates)

\* f goes through the charges in turn.
Charging(p, f) == f[0] = A!Running(p) /\ \A n \in 1..Ahead(p) : f[n] = A!Charge(p, f[n - 1], Order(p)[n])

\* They are services of the portfolio, with a date.
LEMMA OrderGiven ==
    ASSUME NEW p, IsPortfolio(p)
    PROVE  /\ Ahead(p) \in Nat /\ DOMAIN Order(p) = 1..Ahead(p)
           /\ \A n \in 1..Ahead(p) : Order(p)[n] \in A!Soon(p) /\ Order(p)[n] \in DOMAIN p.services /\ Bill(p, n).due \in Int
<1>. DEFINE Q == A!Soon(p)
            u == A!UpcomingSorted(p)
<1>1. PICK k \in Nat : DOMAIN p.services = 1..k
    BY DEF IsPortfolio, IsSeq
<1>2. IsFiniteSet(Q) /\ Q \in SUBSET (1..k)
    <2>1. Q \in SUBSET (1..k)
        BY <1>1 DEF A!Soon
    <2>2. IsFiniteSet(1..k)
        BY FS_Interval
    <2>. HIDE DEF Q
    <2>. QED  BY <2>1, <2>2, FS_Subset
<1>3. Cardinality(Q) \in Nat
    BY <1>2, FS_CardinalityType
<1>4. u = [n \in 1..Cardinality(Q) |-> CHOOSE i \in Q : A!Places(p)[i] = n]
    BY Zenon DEF A!UpcomingSorted, Q, A!Cardinality, Cardinality
<1>5. DOMAIN u = 1..Cardinality(Q) /\ Len(u) = Cardinality(Q)
    BY <1>3, <1>4
<1>6. \A i \in Q : i \in DOMAIN p.services /\ p.services[i].due \in Int
    BY DEF IsPortfolio, A!Soon, A!IsUpcoming
<1>7. \A n \in DOMAIN u : u[n] \in Q
    BY AheadIsSoon
<1>. HIDE DEF u, Q
<1>. QED  BY <1>3, <1>5, <1>6, <1>7 DEF Order, Ahead, Bill, u, Q

\* The loop over the charges ends.
LEMMA Simulates ==
    ASSUME NEW p, IsPortfolio(p)
    PROVE  \E f : Charging(p, f) /\ A!Simulated(p) = f[Ahead(p)]
<1>. DEFINE k == Ahead(p)
            Then(g, n) == A!Charge(p, g[n - 1], Order(p)[n])
            Follows(g, m) == /\ g = [n \in 0..k |-> g[n]] /\ g[0] = A!Running(p)
                             /\ \A n \in 1..m : g[n] = Then(g, n)
            G == {m \in Nat : m <= k => \E g : Follows(g, m)}
            Unrolled(g) == [n \in 0..k |-> IF n = 0 THEN A!Running(p) ELSE Then(g, n)]
<1>1. k \in Nat
    BY OrderGiven
<1>. HIDE DEF k
<1>2. 0 \in G
    <2>1. Follows([n \in 0..k |-> A!Running(p)], 0)
        BY <1>1
    <2>. QED  BY <2>1
<1>3. ASSUME NEW m \in G  PROVE m + 1 \in G
    <2>0. m + 1 \in Nat
        BY <1>3
    <2>. SUFFICES ASSUME m + 1 <= k  PROVE \E g : Follows(g, m + 1)
        BY <2>0
    <2>1. m \in Nat /\ m <= k
        BY <1>1, <1>3
    <2>2. PICK h : Follows(h, m)
        BY <2>1
    <2>. DEFINE c == A!Charge(p, h[m], Order(p)[m + 1])
                g == [n \in 0..k |-> IF n = m + 1 THEN c ELSE h[n]]
    <2>. HIDE DEF c
    <2>3. \A n \in 0..m : g[n] = h[n]
        BY <1>1, <2>1
    <2>4. g[m + 1] = c /\ g[0] = h[0]
        BY <1>1, <2>1
    <2>5. g = [n \in 0..k |-> g[n]]
        OBVIOUS
    <2>. HIDE DEF g
    <2>6. \A n \in 1..(m + 1) : g[n] = Then(g, n)
        <3>1. \A n \in 1..m : n - 1 \in 0..m /\ n \in 0..m
            BY <2>1
        <3>2. \A n \in 1..m : g[n] = Then(g, n)
            BY <2>2, <2>3, <3>1
        <3>3. g[m + 1] = Then(g, m + 1)
            <4>1. (m + 1) - 1 = m /\ m \in 0..m
                BY <2>1
            <4>2. g[(m + 1) - 1] = h[m]
                BY <2>3, <4>1
            <4>. QED  BY <2>4, <4>2 DEF c
        <3>4. \A n \in 1..(m + 1) : n = m + 1 \/ n \in 1..m
            BY <2>1
        <3>. HIDE DEF Then
        <3>. QED  BY <3>2, <3>3, <3>4
    <2>. QED  BY <2>2, <2>4, <2>5, <2>6
<1>4. k \in G
    <2>1. G \in SUBSET Nat
        OBVIOUS
    <2>. HIDE DEF G
    <2>. QED  BY <1>1, <1>2, <1>3, <2>1, Induction
<1>5. PICK g : Follows(g, k)
    <2>. HIDE DEF Follows
    <2>. QED  BY <1>1, <1>4
<1>6. g = Unrolled(g)
    <2>1. \A n \in 0..k : n = 0 \/ n \in 1..k
        BY <1>1
    <2>. HIDE DEF Then
    <2>. QED  BY <1>5, <2>1
<1>. DEFINE s == CHOOSE f : f = Unrolled(f)
<1>7. s = Unrolled(s)
    <2>. HIDE DEF Unrolled
    <2>. QED  BY <1>6, Zenon
<1>8. A!Simulated(p) = s[k]
    BY Zenon DEF A!Simulated, k, Ahead, Order
<1>. HIDE DEF s, Then
<1>9. Charging(p, s)
    <2>1. s[0] = A!Running(p)
        BY <1>1, <1>7
    <2>2. \A n \in 1..k : s[n] = Then(s, n)
        BY <1>1, <1>7
    <2>. QED  BY <2>1, <2>2 DEF Charging, k, Then
<1>. QED  BY <1>8, <1>9 DEF k

\* The balances of a prepaid account are numbers, the others are not known.
IsRun(p, r) ==
    /\ r = [base |-> r.base, native |-> r.native, lines |-> r.lines]
    /\ r.base = [b \in DOMAIN p.accounts |-> r.base[b]] /\ r.native = [b \in DOMAIN p.accounts |-> r.native[b]]
    /\ \A b \in DOMAIN p.accounts : IF A!Prepaid(p.accounts[b]) THEN r.base[b] \in Int /\ r.native[b] \in Int
                                                              ELSE r.base[b] = None /\ r.native[b] = None

\* A conversion gives a whole number.
LEMMA ConvertsToInt ==
    ASSUME NEW rates, rates \in [DOMAIN rates -> Nat], NEW from \in DOMAIN rates, NEW to \in DOMAIN rates, NEW amount \in Int
    PROVE  A!Convert(amount, from, to, rates) \in Int
<1>1. rates[from] \in Nat /\ rates[to] \in Nat
    OBVIOUS
<1>2. amount * rates[from] \in Int
    BY <1>1
<1>3. CASE rates[to] = 0
    BY <1>3 DEF A!Convert
<1>4. CASE rates[to] # 0
    <2>1. (amount * rates[from]) \div rates[to] \in Int
        BY <1>1, <1>2, <1>4
    <2>. QED  BY <2>1 DEF A!Convert
<1>. QED  BY <1>3, <1>4

\* What a charge of the list costs, in base currency and in the account's.
LEMMA CostsGiven ==
    ASSUME NEW p, IsPortfolio(p), NEW n \in 1..Ahead(p)
    PROVE  /\ Payer(p, n) \in DOMAIN p.accounts
           /\ BaseCost(p, n) \in Int /\ OwnCost(p, n) \in Int
<1>1. Order(p)[n] \in DOMAIN p.services
    BY OrderGiven
<1>2. /\ Bill(p, n).account \in DOMAIN p.accounts /\ Bill(p, n).cost \in Int
      /\ Bill(p, n).currency \in DOMAIN p.rates /\ p.accounts[Payer(p, n)].currency \in DOMAIN p.rates
    BY <1>1 DEF IsPortfolio, Bill, Payer
<1>3. p.base \in DOMAIN p.rates /\ p.rates \in [DOMAIN p.rates -> Nat]
    BY DEF IsPortfolio
<1>. QED  BY <1>2, <1>3, ConvertsToInt DEF BaseCost, OwnCost, Payer

\* The line of a charge, given the balances before it.
LineOf(p, r, n) ==
    LET covered == IF r.base[Payer(p, n)] = None THEN "unknown"
                   ELSE IF r.base[Payer(p, n)] >= BaseCost(p, n) THEN "yes" ELSE "no"
    IN  [service |-> Order(p)[n], account |-> Payer(p, n), days |-> A!StartOfDay(Bill(p, n).due), covered |-> covered,
         severity |-> A!ChargeSeverity(covered, A!StartOfDay(Bill(p, n).due), p.accounts[Payer(p, n)].isPostpaid)]

\* One charge takes its cost from the account that pays it, and lists it.
LEMMA OneCharge ==
    ASSUME NEW p, IsPortfolio(p), NEW n \in 1..Ahead(p), NEW r, IsRun(p, r)
    PROVE  LET c == A!Charge(p, r, Order(p)[n])
           IN  /\ IsRun(p, c) /\ c.lines = Append(r.lines, LineOf(p, r, n))
               /\ \A b \in DOMAIN p.accounts : A!Prepaid(p.accounts[b]) =>
                    /\ c.base[b] = IF b = Payer(p, n) THEN r.base[b] - BaseCost(p, n) ELSE r.base[b]
                    /\ c.native[b] = IF b = Payer(p, n) THEN r.native[b] - OwnCost(p, n) ELSE r.native[b]
<1>. DEFINE c == A!Charge(p, r, Order(p)[n])
            a == Payer(p, n)
            line == LineOf(p, r, n)
<1>1. a \in DOMAIN p.accounts /\ BaseCost(p, n) \in Int /\ OwnCost(p, n) \in Int
    BY CostsGiven
<1>2. A!Prepaid(p.accounts[a]) <=> r.base[a] # None
    BY <1>1, NoneAssumption DEF IsRun
<1>3. CASE r.base[a] = None
    <2>1. c = [r EXCEPT !.lines = Append(@, line)]
        BY <1>3, Zenon DEF A!Charge, LineOf, Payer, Bill, BaseCost
    <2>2. c = [base |-> r.base, native |-> r.native, lines |-> Append(r.lines, line)]
        BY <2>1 DEF IsRun
    <2>. HIDE DEF c, line
    <2>3. c.base = r.base /\ c.native = r.native /\ c.lines = Append(r.lines, line)
        BY <2>2
    <2>4. IsRun(p, c)
        BY <2>2, <2>3 DEF IsRun
    <2>5. \A b \in DOMAIN p.accounts : A!Prepaid(p.accounts[b]) => b # a
        BY <1>2, <1>3
    <2>. QED  BY <2>3, <2>4, <2>5 DEF c, line
<1>4. CASE r.base[a] # None
    <2>1. c = [base   |-> [r.base EXCEPT ![a] = @ - BaseCost(p, n)],
               native |-> [r.native EXCEPT ![a] = @ - OwnCost(p, n)], lines |-> Append(r.lines, line)]
        BY <1>4 DEF A!Charge, A!LeftAfter, LineOf, Payer, Bill, BaseCost, OwnCost
    <2>. HIDE DEF c, line
    <2>2. c.base = [r.base EXCEPT ![a] = @ - BaseCost(p, n)] /\ c.native = [r.native EXCEPT ![a] = @ - OwnCost(p, n)]
          /\ c.lines = Append(r.lines, line)
        BY <2>1
    <2>3. \A b \in DOMAIN p.accounts : /\ c.base[b] = IF b = a THEN r.base[b] - BaseCost(p, n) ELSE r.base[b]
                                       /\ c.native[b] = IF b = a THEN r.native[b] - OwnCost(p, n) ELSE r.native[b]
        BY <2>2 DEF IsRun
    <2>4. IsRun(p, c)
        <3>1. c = [base |-> c.base, native |-> c.native, lines |-> c.lines]
            BY <2>1
        <3>2. c.base = [b \in DOMAIN p.accounts |-> c.base[b]] /\ c.native = [b \in DOMAIN p.accounts |-> c.native[b]]
            <4>1. r.base = [b \in DOMAIN p.accounts |-> r.base[b]] /\ r.native = [b \in DOMAIN p.accounts |-> r.native[b]]
                BY DEF IsRun
            <4>. QED  BY <2>2, <4>1
        <3>3. ASSUME NEW b \in DOMAIN p.accounts
              PROVE  IF A!Prepaid(p.accounts[b]) THEN c.base[b] \in Int /\ c.native[b] \in Int
                                                 ELSE c.base[b] = None /\ c.native[b] = None
            <4>1. CASE b = a
                <5>1. r.base[a] \in Int /\ r.native[a] \in Int /\ A!Prepaid(p.accounts[a])
                    BY <1>1, <1>2, <1>4 DEF IsRun
                <5>. QED  BY <1>1, <2>3, <4>1, <5>1
            <4>2. CASE b # a
                BY <2>3, <4>2 DEF IsRun
            <4>. QED  BY <4>1, <4>2
        <3>. QED  BY <3>1, <3>2, <3>3 DEF IsRun
    <2>. QED  BY <2>2, <2>3, <2>4 DEF c, line
<1>. QED  BY <1>3, <1>4

\* Before the first charge the balances are those of the accounts.
LEMMA RunningGiven ==
    ASSUME NEW p, IsPortfolio(p)
    PROVE  LET r == A!Running(p)
           IN  /\ IsRun(p, r) /\ r.lines = << >>
               /\ \A b \in DOMAIN p.accounts : A!Prepaid(p.accounts[b]) =>
                    /\ r.base[b] = A!Convert(p.accounts[b].balance, p.accounts[b].currency, p.base, p.rates)
                    /\ r.native[b] = p.accounts[b].balance
<1>. DEFINE r == A!Running(p)
            first(b) == A!Convert(p.accounts[b].balance, p.accounts[b].currency, p.base, p.rates)
<1>1. r = [base   |-> [b \in DOMAIN p.accounts |-> IF A!Prepaid(p.accounts[b]) THEN first(b) ELSE None],
           native |-> [b \in DOMAIN p.accounts |-> IF A!Prepaid(p.accounts[b]) THEN p.accounts[b].balance ELSE None],
           lines  |-> << >>]
    BY DEF A!Running
<1>2. ASSUME NEW b \in DOMAIN p.accounts, A!Prepaid(p.accounts[b])
      PROVE  p.accounts[b].balance \in Int /\ first(b) \in Int
    <2>1. p.accounts[b].balance \in Int /\ p.accounts[b].currency \in DOMAIN p.rates
        BY <1>2 DEF IsPortfolio, A!Prepaid
    <2>2. p.base \in DOMAIN p.rates /\ p.rates \in [DOMAIN p.rates -> Nat]
        BY DEF IsPortfolio
    <2>. QED  BY <2>1, <2>2, ConvertsToInt
<1>. HIDE DEF r, first
<1>3. /\ r.lines = << >>
      /\ r.base = [b \in DOMAIN p.accounts |-> IF A!Prepaid(p.accounts[b]) THEN first(b) ELSE None]
      /\ r.native = [b \in DOMAIN p.accounts |-> IF A!Prepaid(p.accounts[b]) THEN p.accounts[b].balance ELSE None]
      /\ r = [base |-> r.base, native |-> r.native, lines |-> r.lines]
    BY <1>1
<1>4. IsRun(p, r)
    BY <1>2, <1>3 DEF IsRun
<1>. QED  BY <1>3, <1>4 DEF r, first

\* Step by step: the balances stay balances.
LEMMA RunsGiven ==
    ASSUME NEW p, IsPortfolio(p), NEW f, Charging(p, f)
    PROVE  \A n \in 0..Ahead(p) : IsRun(p, f[n])
<1>. DEFINE k == Ahead(p)
            G == {n \in Nat : n <= k => IsRun(p, f[n])}
<1>1. k \in Nat
    BY OrderGiven
<1>2. 0 \in G
    BY RunningGiven DEF Charging
<1>3. ASSUME NEW n \in G  PROVE n + 1 \in G
    <2>. SUFFICES ASSUME n + 1 <= k  PROVE IsRun(p, f[n + 1])
        BY <1>3
    <2>1. n + 1 \in 1..k /\ (n + 1) - 1 = n /\ IsRun(p, f[n])
        BY <1>1, <1>3
    <2>2. f[n + 1] = A!Charge(p, f[n], Order(p)[n + 1])
        BY <2>1 DEF Charging
    <2>. QED  BY <2>1, <2>2, OneCharge
<1>4. \A n \in Nat : n \in G
    <2>1. G \in SUBSET Nat
        OBVIOUS
    <2>. HIDE DEF G
    <2>. QED  BY <1>2, <1>3, <2>1, Induction
<1>. QED  BY <1>1, <1>4

\* What a charge does to the balance of a prepaid account.
LEMMA BalancesMove ==
    ASSUME NEW p, IsPortfolio(p), NEW f, Charging(p, f), NEW b \in DOMAIN p.accounts, A!Prepaid(p.accounts[b])
    PROVE  /\ \A n \in 0..Ahead(p) : f[n].base[b] \in Int /\ f[n].native[b] \in Int
           /\ \A n \in 1..Ahead(p) : BaseCost(p, n) \in Int /\ OwnCost(p, n) \in Int
           /\ \A n \in 1..Ahead(p) :
                /\ f[n].base[b] = IF b = Payer(p, n) THEN f[n - 1].base[b] - BaseCost(p, n) ELSE f[n - 1].base[b]
                /\ f[n].native[b] = IF b = Payer(p, n) THEN f[n - 1].native[b] - OwnCost(p, n) ELSE f[n - 1].native[b]
           /\ f[0].base[b] = A!Convert(p.accounts[b].balance, p.accounts[b].currency, p.base, p.rates)
           /\ f[0].native[b] = p.accounts[b].balance
<1>1. \A n \in 0..Ahead(p) : IsRun(p, f[n])
    BY RunsGiven
<1>2. \A n \in 0..Ahead(p) : f[n].base[b] \in Int /\ f[n].native[b] \in Int
    BY <1>1 DEF IsRun
<1>3. ASSUME NEW n \in 1..Ahead(p)
      PROVE  /\ f[n].base[b] = IF b = Payer(p, n) THEN f[n - 1].base[b] - BaseCost(p, n) ELSE f[n - 1].base[b]
             /\ f[n].native[b] = IF b = Payer(p, n) THEN f[n - 1].native[b] - OwnCost(p, n) ELSE f[n - 1].native[b]
    <2>1. n - 1 \in 0..Ahead(p)
        BY OrderGiven
    <2>2. IsRun(p, f[n - 1]) /\ f[n] = A!Charge(p, f[n - 1], Order(p)[n])
        BY <1>1, <2>1 DEF Charging
    <2>. QED  BY <2>2, OneCharge
<1>4. \A n \in 1..Ahead(p) : BaseCost(p, n) \in Int /\ OwnCost(p, n) \in Int
    BY CostsGiven
<1>5. /\ f[0].base[b] = A!Convert(p.accounts[b].balance, p.accounts[b].currency, p.base, p.rates)
      /\ f[0].native[b] = p.accounts[b].balance
    BY RunningGiven DEF Charging
<1>. QED  BY <1>2, <1>3, <1>4, <1>5

\* The lines shown: one per charge, each judged by the balance before it.
LEMMA LinesGiven ==
    ASSUME NEW p, IsPortfolio(p), NEW f, Charging(p, f)
    PROVE  /\ DOMAIN f[Ahead(p)].lines = 1..Ahead(p)
           /\ \A j \in 1..Ahead(p) : f[Ahead(p)].lines[j] = LineOf(p, f[j - 1], j)
<1>. DEFINE k == Ahead(p)
            S == {LineOf(p, f[j - 1], j) : j \in 1..k}
            Listed(n) == /\ f[n].lines \in Seq(S) /\ Len(f[n].lines) = n
                         /\ \A j \in 1..n : f[n].lines[j] = LineOf(p, f[j - 1], j)
            G == {n \in Nat : n <= k => Listed(n)}
<1>1. k \in Nat
    BY OrderGiven
<1>2. ASSUME NEW n \in 1..k  PROVE f[n].lines = Append(f[n - 1].lines, LineOf(p, f[n - 1], n))
    <2>1. n - 1 \in 0..k
        BY <1>1
    <2>2. IsRun(p, f[n - 1])
        BY <2>1, RunsGiven
    <2>3. f[n] = A!Charge(p, f[n - 1], Order(p)[n])
        BY DEF Charging
    <2>. QED  BY <2>2, <2>3, OneCharge, SMTT(60)
<1>3. 0 \in G
    <2>1. f[0].lines = << >>
        BY RunningGiven DEF Charging
    <2>. HIDE DEF S
    <2>2. Listed(0)
        BY <2>1
    <2>. QED  BY <2>2
<1>4. ASSUME NEW n \in G  PROVE n + 1 \in G
    <2>0. n \in Nat /\ n + 1 \in Nat
        BY <1>4
    <2>. SUFFICES ASSUME n + 1 <= k  PROVE Listed(n + 1)
        BY <2>0
    <2>1. n + 1 \in 1..k /\ (n + 1) - 1 = n /\ n \in 0..k /\ Listed(n)
        BY <1>1, <1>4
    <2>. DEFINE e == LineOf(p, f[n], n + 1)
    <2>2. n + 1 \in 1..k /\ (n + 1) - 1 = n
        BY <2>1
    <2>3. f[n + 1].lines = Append(f[n].lines, e)
        BY <2>2, <1>2, SMTT(60)
    <2>4. e \in S
        BY <2>1
    <2>. HIDE DEF S, e
    <2>5. /\ f[n + 1].lines \in Seq(S) /\ Len(f[n + 1].lines) = n + 1
          /\ \A j \in 1..n : f[n + 1].lines[j] = f[n].lines[j]
          /\ f[n + 1].lines[n + 1] = e
        BY <2>1, <2>3, <2>4, AppendProperties
    <2>6. \A j \in 1..(n + 1) : j \in 1..n \/ j = n + 1
        BY <2>0
    <2>. QED  BY <2>1, <2>5, <2>6 DEF e
<1>5. \A n \in Nat : n \in G
    <2>1. G \in SUBSET Nat
        OBVIOUS
    <2>. HIDE DEF G
    <2>. QED  BY <1>3, <1>4, <2>1, Induction
<1>6. Listed(k)
    <2>. HIDE DEF Listed
    <2>. QED  BY <1>1, <1>5
<1>. HIDE DEF S
<1>. QED  BY <1>1, <1>6

\* A line says "no" exactly if the charge takes the balance below zero, and that is
\* critical within a week.
LEMMA VerdictGiven ==
    ASSUME NEW p, IsPortfolio(p), NEW f, Charging(p, f), NEW j \in 1..Ahead(p)
    PROVE  LET line == f[Ahead(p)].lines[j]
           IN  /\ line.account = Payer(p, j)
               /\ line.covered = "no" <=> A!Prepaid(p.accounts[Payer(p, j)]) /\ f[j].base[Payer(p, j)] < 0
               /\ line.covered = "no" /\ line.days <= 7 => line.severity = "critical"
<1>. DEFINE line == f[Ahead(p)].lines[j]
            a == Payer(p, j)
            r == f[j - 1]
<1>1. line = LineOf(p, r, j)
    BY LinesGiven
<1>. HIDE DEF line
<1>2. /\ line.account = a
      /\ line.covered = "no" <=> r.base[a] # None /\ ~(r.base[a] >= BaseCost(p, j))
      /\ line.covered = "no" /\ line.days <= 7 => line.severity = "critical"
    BY <1>1 DEF LineOf, A!ChargeSeverity
<1>3. j - 1 \in 0..Ahead(p) /\ a \in DOMAIN p.accounts
    BY OrderGiven, CostsGiven
<1>4. IsRun(p, r)
    BY <1>3, RunsGiven
<1>5. A!Prepaid(p.accounts[a]) <=> r.base[a] # None
    BY <1>3, <1>4, NoneAssumption DEF IsRun
<1>6. A!Prepaid(p.accounts[a]) => f[j].base[a] = r.base[a] - BaseCost(p, j) /\ r.base[a] \in Int /\ BaseCost(p, j) \in Int
    BY <1>3, BalancesMove
<1>7. r.base[a] # None /\ ~(r.base[a] >= BaseCost(p, j)) <=> A!Prepaid(p.accounts[a]) /\ f[j].base[a] < 0
    <2>. HIDE DEF a, r
    <2>. QED  BY <1>5, <1>6
<1>. QED  BY <1>2, <1>7 DEF line

\* The costs are no credits, every rate is known and no conversion rounds.
Plain(p) == /\ A!Exact(p) /\ \A c \in DOMAIN p.rates : p.rates[c] # 0
            /\ \A i \in DOMAIN p.services : p.services[i].cost >= 0

\* Quotient and remainder.
LEMMA DivMod ==
    ASSUME NEW x \in Int, NEW d \in Nat, d # 0
    PROVE  /\ x \div d \in Int /\ x % d \in 0..(d - 1)
           /\ x = d * (x \div d) + (x % d)
    BY SMTT(30)

\* A conversion that is exact, times the rate it is divided by.
LEMMA Converts ==
    ASSUME NEW rates, rates \in [DOMAIN rates -> Nat], \A c \in DOMAIN rates : rates[c] # 0,
           NEW from \in DOMAIN rates, NEW to \in DOMAIN rates, NEW amount \in Int,
           from = to \/ (amount * rates[from]) % rates[to] = 0
    PROVE  LET x == A!Convert(amount, from, to, rates)
           IN  x \in Int /\ rates[to] * x = amount * rates[from]
<1>. DEFINE x == A!Convert(amount, from, to, rates)
            v == amount * rates[from]
<1>1. rates[from] \in Nat \ {0} /\ rates[to] \in Nat \ {0} /\ v \in Int
    OBVIOUS
<1>2. ASSUME from = to  PROVE x \in Int /\ rates[to] * x = v
    <2>1. x = amount
        BY <1>2 DEF A!Convert
    <2>. HIDE DEF x
    <2>2. rates[to] * amount = amount * rates[to]
        BY <1>1
    <2>. QED  BY <1>2, <2>1, <2>2
<1>3. ASSUME from # to  PROVE x \in Int /\ rates[to] * x = v
    <2>1. x = v \div rates[to] /\ v % rates[to] = 0
        BY <1>1, <1>3 DEF A!Convert
    <2>. HIDE DEF x, v
    <2>2. x \in Int /\ v = rates[to] * x + 0
        BY <1>1, <2>1, DivMod
    <2>3. rates[to] * x \in Int
        BY <1>1, <2>2
    <2>. QED  BY <2>2, <2>3
<1>. HIDE DEF x, v
<1>4. x \in Int /\ rates[to] * x = v
    BY <1>2, <1>3
<1>. QED  BY <1>4 DEF x, v

\* A product is not negative, or negative, as its other factor is.
LEMMA Signs ==
    ASSUME NEW d \in Nat \ {0}, NEW x \in Int
    PROVE  d * x \in Int /\ (d * x >= 0 <=> x >= 0)
    BY SMTT(30)

\* What a charge of a plain portfolio costs, in the two currencies.
LEMMA PlainCosts ==
    ASSUME NEW p, IsPortfolio(p), Plain(p), NEW n \in 1..Ahead(p)
    PROVE  /\ BaseCost(p, n) \in Nat /\ OwnCost(p, n) \in Nat
           /\ p.rates[p.base] * BaseCost(p, n) = p.rates[p.accounts[Payer(p, n)].currency] * OwnCost(p, n)
<1>. DEFINE s == Bill(p, n)
            own == p.accounts[Payer(p, n)].currency
<1>1. Order(p)[n] \in DOMAIN p.services
    BY OrderGiven
<1>2. s.cost \in Int /\ s.cost >= 0 /\ s.currency \in DOMAIN p.rates /\ s.account \in DOMAIN p.accounts
    BY <1>1 DEF IsPortfolio, Bill, Plain
<1>3. own \in DOMAIN p.rates /\ p.base \in DOMAIN p.rates /\ p.rates \in [DOMAIN p.rates -> Nat]
      /\ \A c \in DOMAIN p.rates : p.rates[c] # 0
    <2>1. p.base \in DOMAIN p.rates /\ p.rates \in [DOMAIN p.rates -> Nat]
        BY DEF IsPortfolio
    <2>2. own \in DOMAIN p.rates
        BY <1>2, CostsGiven DEF IsPortfolio
    <2>. QED  BY <2>1, <2>2 DEF Plain
<1>4. /\ s.currency = p.base \/ (s.cost * p.rates[s.currency]) % p.rates[p.base] = 0
      /\ s.currency = own \/ (s.cost * p.rates[s.currency]) % p.rates[own] = 0
    BY <1>1, Zenon DEF Plain, A!Exact, Bill, Payer
<1>. HIDE DEF s, own
<1>5. BaseCost(p, n) \in Int /\ p.rates[p.base] * BaseCost(p, n) = s.cost * p.rates[s.currency]
    BY <1>2, <1>3, <1>4, Converts DEF BaseCost, s
<1>6. OwnCost(p, n) \in Int /\ p.rates[own] * OwnCost(p, n) = s.cost * p.rates[s.currency]
    BY <1>2, <1>3, <1>4, Converts DEF OwnCost, s, own
<1>7. p.rates[s.currency] \in Nat \ {0} /\ p.rates[own] \in Nat \ {0} /\ p.rates[p.base] \in Nat \ {0}
    BY <1>2, <1>3
<1>8. p.rates[s.currency] * s.cost >= 0 /\ s.cost * p.rates[s.currency] = p.rates[s.currency] * s.cost
    BY <1>2, <1>7, Signs
<1>9. BaseCost(p, n) >= 0 /\ OwnCost(p, n) >= 0
    BY <1>5, <1>6, <1>7, <1>8, Signs
<1>. QED  BY <1>5, <1>6, <1>9 DEF own

\* The two running balances are one amount in two currencies.
LEMMA BalancesAgree ==
    ASSUME NEW p, IsPortfolio(p), Plain(p), NEW f, Charging(p, f),
           NEW b \in DOMAIN p.accounts, A!Prepaid(p.accounts[b]), NEW n \in 0..Ahead(p)
    PROVE  p.rates[p.base] * f[n].base[b] = p.rates[p.accounts[b].currency] * f[n].native[b]
<1>. DEFINE k == Ahead(p)
            own == p.accounts[b].currency
            rb == p.rates[p.base]
            ro == p.rates[own]
            G == {m \in Nat : m <= k => rb * f[m].base[b] = ro * f[m].native[b]}
<1>1. k \in Nat
    BY OrderGiven
<1>2. own \in DOMAIN p.rates /\ p.base \in DOMAIN p.rates /\ p.rates \in [DOMAIN p.rates -> Nat]
      /\ (\A c \in DOMAIN p.rates : p.rates[c] # 0) /\ p.accounts[b].balance \in Int
    BY DEF IsPortfolio, Plain, A!Prepaid
<1>3. rb \in Nat \ {0} /\ ro \in Nat \ {0}
    BY <1>2, SMTT(60)
<1>4. own = p.base \/ (p.accounts[b].balance * p.rates[own]) % p.rates[p.base] = 0
    BY DEF Plain, A!Exact
<1>5. rb * f[0].base[b] = p.accounts[b].balance * ro /\ f[0].native[b] = p.accounts[b].balance
    BY <1>2, <1>4, BalancesMove, Converts
<1>6. 0 \in G
    <2>1. p.accounts[b].balance * ro = ro * p.accounts[b].balance
        BY <1>2, <1>3
    <2>. QED  BY <1>5, <2>1
<1>7. ASSUME NEW m \in G  PROVE m + 1 \in G
    <2>0. m \in Nat /\ m + 1 \in Nat
        BY <1>7
    <2>. SUFFICES ASSUME m + 1 <= k  PROVE rb * f[m + 1].base[b] = ro * f[m + 1].native[b]
        BY <2>0
    <2>1. m \in 0..k /\ m + 1 \in 1..k /\ (m + 1) - 1 = m /\ rb * f[m].base[b] = ro * f[m].native[b]
        BY <1>1, <1>7
    <2>. DEFINE x == f[m].base[b]
                y == f[m].native[b]
                c == BaseCost(p, m + 1)
                d == OwnCost(p, m + 1)
    <2>2. x \in Int /\ y \in Int
        BY <2>1, BalancesMove
    <2>3. c \in Nat /\ d \in Nat
        BY <2>1, PlainCosts
    <2>4. CASE b = Payer(p, m + 1)
        <3>1. f[m + 1].base[b] = x - c /\ f[m + 1].native[b] = y - d
            BY <2>1, <2>4, BalancesMove
        <3>2. rb * c = ro * d
            BY <2>1, <2>4, PlainCosts
        <3>. HIDE DEF x, y, c, d, rb, ro
        <3>3. rb * (x - c) = rb * x - rb * c /\ ro * (y - d) = ro * y - ro * d
            BY <1>3, <2>2, <2>3
        <3>4. rb * x = ro * y
            BY <2>1 DEF x, y
        <3>. QED  BY <3>1, <3>2, <3>3, <3>4
    <2>5. CASE b # Payer(p, m + 1)
        <3>1. f[m + 1].base[b] = x /\ f[m + 1].native[b] = y
            BY <2>1, <2>5, BalancesMove, SMTT(60)
        <3>. QED  BY <2>1, <3>1
    <2>. QED  BY <2>4, <2>5
<1>8. \A m \in Nat : m \in G
    <2>1. G \in SUBSET Nat
        OBVIOUS
    <2>. HIDE DEF G
    <2>. QED  BY <1>6, <1>7, <2>1, Induction
<1>. QED  BY <1>1, <1>8

\* Charges take and do not give.
LEMMA BalancesFall ==
    ASSUME NEW p, IsPortfolio(p), Plain(p), NEW f, Charging(p, f),
           NEW b \in DOMAIN p.accounts, A!Prepaid(p.accounts[b]), NEW m \in 0..Ahead(p), NEW n \in m..Ahead(p)
    PROVE  f[n].base[b] <= f[m].base[b]
<1>. DEFINE k == Ahead(p)
            G == {i \in Nat : m + i <= k => f[m + i].base[b] <= f[m].base[b]}
<1>1. k \in Nat /\ m \in Nat
    BY OrderGiven
<1>2. \A i \in 0..k : f[i].base[b] \in Int
    BY BalancesMove
<1>3. 0 \in G
    BY <1>1, <1>2
<1>4. ASSUME NEW i \in G  PROVE i + 1 \in G
    <2>0. i \in Nat /\ i + 1 \in Nat
        BY <1>4
    <2>. SUFFICES ASSUME m + (i + 1) <= k  PROVE f[m + (i + 1)].base[b] <= f[m].base[b]
        BY <2>0
    <2>. DEFINE j == m + (i + 1)
    <2>1. j \in 1..k /\ j - 1 = m + i /\ m + i <= k /\ m + i \in 0..k
        BY <1>1, <2>0
    <2>2. f[m + i].base[b] <= f[m].base[b]
        BY <1>4, <2>1
    <2>. HIDE DEF j
    <2>3. f[j].base[b] = f[j - 1].base[b] \/ f[j].base[b] = f[j - 1].base[b] - BaseCost(p, j)
        BY <2>1, BalancesMove
    <2>4. BaseCost(p, j) \in Nat
        BY <2>1, PlainCosts
    <2>5. f[m + i].base[b] \in Int /\ f[j].base[b] \in Int /\ f[m].base[b] \in Int
        BY <1>1, <1>2, <2>1
    <2>6. f[j].base[b] <= f[m].base[b]
        BY <2>1, <2>2, <2>3, <2>4, <2>5
    <2>. QED  BY <2>6 DEF j
<1>5. \A i \in Nat : i \in G
    <2>1. G \in SUBSET Nat
        OBVIOUS
    <2>. HIDE DEF G
    <2>. QED  BY <1>3, <1>4, <2>1, Induction
<1>6. n - m \in Nat /\ m + (n - m) = n /\ n <= k
    BY <1>1
<1>7. n - m \in G
    <2>. HIDE DEF G
    <2>. QED  BY <1>5, <1>6
<1>. QED  BY <1>6, <1>7

\* The portfolio with more on one prepaid account.
With(p, a, more) == [p EXCEPT !.accounts[a].balance = @ + more]

\* It has the same charges ahead, in the same order.
LEMMA SameCharges ==
    ASSUME NEW p, IsPortfolio(p), NEW a \in DOMAIN p.accounts, A!Prepaid(p.accounts[a]), NEW more \in Int
    PROVE  LET q == With(p, a, more)
           IN  /\ IsPortfolio(q) /\ Order(q) = Order(p) /\ Ahead(q) = Ahead(p)
               /\ DOMAIN q.accounts = DOMAIN p.accounts /\ A!Prepaid(q.accounts[a])
               /\ q.accounts[a].balance = p.accounts[a].balance + more /\ q.accounts[a].currency = p.accounts[a].currency
               /\ q.rates = p.rates /\ q.base = p.base /\ q.services = p.services
<1>. DEFINE q == With(p, a, more)
            x == p.accounts[a]
            y == [balance |-> x.balance + more, currency |-> x.currency, isPostpaid |-> x.isPostpaid]
<1>1. /\ x = [balance |-> x.balance, currency |-> x.currency, isPostpaid |-> x.isPostpaid]
      /\ x.balance \in Int /\ x.isPostpaid = FALSE
    BY DEF IsPortfolio, A!Prepaid
<1>2. [x EXCEPT !.balance = @ + more] = y
    BY <1>1
<1>. DEFINE accounts == [p.accounts EXCEPT ![a] = y]
<1>3. q = [p EXCEPT !.accounts = accounts]
    BY <1>2, Zenon DEF With
<1>4. /\ q.accounts = accounts /\ q.services = p.services /\ q.rates = p.rates /\ q.base = p.base /\ q.clock = p.clock
      /\ DOMAIN q = DOMAIN p
    BY <1>3 DEF IsPortfolio
<1>5. DOMAIN accounts = DOMAIN p.accounts /\ accounts[a] = y /\ \A b \in DOMAIN p.accounts : b # a => accounts[b] = p.accounts[b]
    OBVIOUS
<1>. HIDE DEF q, accounts
<1>6. y.balance = x.balance + more /\ y.currency = x.currency /\ y.isPostpaid = FALSE /\ y.balance \in Int
      /\ y = [balance |-> y.balance, currency |-> y.currency, isPostpaid |-> y.isPostpaid]
    BY <1>1
<1>. HIDE DEF x, y
<1>7. IsPortfolio(q)
    <2>1. \A b \in DOMAIN q.accounts :
            /\ q.accounts[b] = [balance |-> q.accounts[b].balance, currency |-> q.accounts[b].currency, isPostpaid |-> q.accounts[b].isPostpaid]
            /\ q.accounts[b].balance \in Int \cup {None} /\ q.accounts[b].currency \in DOMAIN q.rates /\ q.accounts[b].isPostpaid \in BOOLEAN
        <3>. SUFFICES ASSUME NEW b \in DOMAIN p.accounts
                      PROVE  /\ accounts[b] = [balance |-> accounts[b].balance, currency |-> accounts[b].currency, isPostpaid |-> accounts[b].isPostpaid]
                             /\ accounts[b].balance \in Int \cup {None} /\ accounts[b].currency \in DOMAIN p.rates /\ accounts[b].isPostpaid \in BOOLEAN
            BY <1>4, <1>5
        <3>1. CASE b = a
            <4>1. x.currency \in DOMAIN p.rates
                BY DEF IsPortfolio, x
            <4>. QED  BY <1>5, <1>6, <3>1, <4>1
        <3>2. CASE b # a
            BY <1>5, <3>2 DEF IsPortfolio
        <3>. QED  BY <3>1, <3>2
    <2>2. DOMAIN q.accounts = DOMAIN p.accounts
        BY <1>4, <1>5
    <2>. QED  BY <1>4, <2>1, <2>2 DEF IsPortfolio
<1>8. A!UpcomingSorted(q) = A!UpcomingSorted(p)
    <2>1. A!Horizon(q) = A!Horizon(p)
        BY <1>4 DEF A!Horizon
    <2>2. A!Soon(q) = A!Soon(p)
        BY <1>4, <2>1 DEF A!Soon, A!IsUpcoming
    <2>3. \A i \in A!Soon(p) : A!NotAfter(q, i) = A!NotAfter(p, i)
        BY <1>4, <2>2 DEF A!NotAfter
    <2>4. A!Places(q) = A!Places(p)
        BY <2>2, <2>3 DEF A!Places
    <2>. QED  BY <2>2, <2>4 DEF A!UpcomingSorted
<1>9. A!Prepaid(q.accounts[a])
    BY <1>4, <1>5, <1>6, NoneAssumption DEF A!Prepaid
<1>. QED  BY <1>4, <1>5, <1>6, <1>7, <1>8, <1>9 DEF q, x, Order, Ahead

\* With more on it, an account has that much more after every charge.
LEMMA MoreStays ==
    ASSUME NEW p, IsPortfolio(p), NEW a \in DOMAIN p.accounts, A!Prepaid(p.accounts[a]), NEW more \in Int,
           NEW f, Charging(p, f), NEW g, Charging(With(p, a, more), g), NEW n \in 0..Ahead(p)
    PROVE  g[n].base[a] = f[n].base[a] + (g[0].base[a] - f[0].base[a])
<1>. DEFINE q == With(p, a, more)
            k == Ahead(p)
            extra == g[0].base[a] - f[0].base[a]
            G == {m \in Nat : m <= k => g[m].base[a] = f[m].base[a] + extra}
<1>1. k \in Nat
    BY OrderGiven
<1>2. /\ IsPortfolio(q) /\ Order(q) = Order(p) /\ Ahead(q) = k /\ a \in DOMAIN q.accounts /\ A!Prepaid(q.accounts[a])
      /\ q.rates = p.rates /\ q.base = p.base /\ q.services = p.services
    BY SameCharges
<1>. HIDE DEF q
<1>3. Charging(q, g)
    BY DEF q
<1>4. \A m \in 0..k : f[m].base[a] \in Int /\ g[m].base[a] \in Int
    <2>1. \A m \in 0..k : f[m].base[a] \in Int
        BY BalancesMove
    <2>2. \A m \in 0..Ahead(q) : g[m].base[a] \in Int
        BY <1>2, <1>3, BalancesMove
    <2>. QED  BY <1>2, <2>1, <2>2
<1>5. ASSUME NEW m \in 1..k  PROVE Payer(q, m) = Payer(p, m) /\ BaseCost(q, m) = BaseCost(p, m)
    BY <1>2 DEF Payer, BaseCost, Bill
<1>6. \A m \in 1..k : BaseCost(p, m) \in Int
    BY CostsGiven
<1>7. \A m \in 1..k : f[m].base[a] = IF a = Payer(p, m) THEN f[m - 1].base[a] - BaseCost(p, m) ELSE f[m - 1].base[a]
    BY BalancesMove
<1>8. \A m \in 1..k : g[m].base[a] = IF a = Payer(p, m) THEN g[m - 1].base[a] - BaseCost(p, m) ELSE g[m - 1].base[a]
    <2>1. \A m \in 1..Ahead(q) : g[m].base[a] = IF a = Payer(q, m) THEN g[m - 1].base[a] - BaseCost(q, m) ELSE g[m - 1].base[a]
        BY <1>2, <1>3, BalancesMove
    <2>. QED  BY <1>2, <1>5, <2>1
<1>9. 0 \in G
    BY <1>1, <1>4
<1>10. ASSUME NEW m \in G  PROVE m + 1 \in G
    <2>0. m \in Nat /\ m + 1 \in Nat
        BY <1>10
    <2>. SUFFICES ASSUME m + 1 <= k  PROVE g[m + 1].base[a] = f[m + 1].base[a] + extra
        BY <2>0
    <2>1. m + 1 \in 1..k /\ (m + 1) - 1 = m /\ m \in 0..k /\ g[m].base[a] = f[m].base[a] + extra
        BY <1>1, <1>10
    <2>2. extra \in Int /\ f[m].base[a] \in Int /\ BaseCost(p, m + 1) \in Int
        <3>1. 0 \in 0..k
            BY <1>1
        <3>. QED  BY <1>4, <1>6, <2>1, <3>1
    <2>. HIDE DEF extra
    <2>3. f[m + 1].base[a] = IF a = Payer(p, m + 1) THEN f[m].base[a] - BaseCost(p, m + 1) ELSE f[m].base[a]
        BY <1>7, <2>1
    <2>4. g[m + 1].base[a] = IF a = Payer(p, m + 1) THEN g[m].base[a] - BaseCost(p, m + 1) ELSE g[m].base[a]
        BY <1>8, <2>1
    <2>. QED  BY <2>1, <2>2, <2>3, <2>4
<1>11. \A m \in Nat : m \in G
    <2>1. G \in SUBSET Nat
        OBVIOUS
    <2>. HIDE DEF G
    <2>. QED  BY <1>9, <1>10, <2>1, Induction
<1>. QED  BY <1>1, <1>11

\* An account that ends below zero has a charge that took it there, unless it had
\* none.
LEMMA SomeChargeFails ==
    ASSUME NEW p, IsPortfolio(p), NEW f, Charging(p, f), NEW b \in DOMAIN p.accounts, A!Prepaid(p.accounts[b]),
           NEW j \in 1..Ahead(p), Payer(p, j) = b, f[Ahead(p)].base[b] < 0
    PROVE  \E i \in 1..Ahead(p) : Payer(p, i) = b /\ f[i].base[b] < 0
<1>. DEFINE k == Ahead(p)
            Broke == \E i \in 1..k : Payer(p, i) = b /\ f[i].base[b] < 0
            G == {m \in Nat : m \in j..k => f[m].base[b] >= 0}
<1>. SUFFICES ASSUME ~Broke  PROVE FALSE
    OBVIOUS
<1>1. k \in Nat /\ j \in Nat /\ j \in 1..k
    BY OrderGiven
<1>2. \A m \in 0..k : f[m].base[b] \in Int
    BY BalancesMove
<1>3. \A m \in 1..k : Payer(p, m) = b => f[m].base[b] >= 0
    BY <1>1, <1>2
<1>4. 0 \in G
    BY <1>1
<1>5. ASSUME NEW m \in G  PROVE m + 1 \in G
    <2>0. m \in Nat /\ m + 1 \in Nat
        BY <1>5
    <2>. SUFFICES ASSUME m + 1 \in j..k  PROVE f[m + 1].base[b] >= 0
        BY <2>0
    <2>1. m + 1 \in 1..k /\ (m + 1) - 1 = m
        BY <1>1, <2>0
    <2>2. CASE Payer(p, m + 1) = b
        BY <1>3, <2>1, <2>2
    <2>3. CASE Payer(p, m + 1) # b
        <3>1. m \in j..k
            <4>1. m + 1 # j
                BY <2>3
            <4>. QED  BY <1>1, <2>0, <4>1
        <3>2. f[m].base[b] >= 0
            BY <1>5, <3>1
        <3>3. f[m + 1].base[b] = f[(m + 1) - 1].base[b]
            BY <2>1, <2>3, BalancesMove, SMTT(60)
        <3>. QED  BY <2>1, <3>2, <3>3
    <2>. QED  BY <2>2, <2>3
<1>6. \A m \in Nat : m \in G
    <2>1. G \in SUBSET Nat
        OBVIOUS
    <2>. HIDE DEF G
    <2>. QED  BY <1>4, <1>5, <2>1, Induction
<1>7. f[k].base[b] >= 0
    BY <1>1, <1>6
<1>. QED  BY <1>1, <1>2, <1>7

\* Products of one factor are ordered as their other factors are.
LEMMA Scaled ==
    ASSUME NEW d \in Nat \ {0}, NEW x \in Int, NEW y \in Int
    PROVE  d * x \in Int /\ d * y \in Int /\ (d * x < d * y <=> x < y)
<1>. DEFINE z == x - y
<1>1. z \in Int /\ (z >= 0 <=> ~(x < y))
    OBVIOUS
<1>2. d * x \in Int /\ d * y \in Int /\ d * (x - y) = d * x - d * y
    BY SMTT(30)
<1>3. d * z \in Int /\ (d * z >= 0 <=> z >= 0)
    <2>. HIDE DEF z
    <2>. QED  BY <1>1, Signs
<1>. QED  BY <1>1, <1>2, <1>3

\* A conversion rounds down.
LEMMA RoundsDown ==
    ASSUME NEW rates, rates \in [DOMAIN rates -> Nat], \A c \in DOMAIN rates : rates[c] # 0,
           NEW from \in DOMAIN rates, NEW to \in DOMAIN rates, NEW amount \in Int
    PROVE  LET x == A!Convert(amount, from, to, rates)
           IN  /\ x \in Int /\ rates[to] * x <= amount * rates[from]
               /\ amount * rates[from] < rates[to] * (x + 1)
<1>. DEFINE x == A!Convert(amount, from, to, rates)
            v == amount * rates[from]
            d == rates[to]
<1>1. rates[from] \in Nat \ {0} /\ d \in Nat \ {0} /\ v \in Int
    OBVIOUS
<1>2. ASSUME from = to  PROVE x \in Int /\ d * x <= v /\ v < d * (x + 1)
    <2>1. x = amount /\ v = amount * d
        BY <1>2 DEF A!Convert
    <2>. HIDE DEF x, v, d
    <2>2. d * amount = amount * d /\ d * (amount + 1) = d * amount + d /\ d * amount \in Int
        BY <1>1
    <2>. QED  BY <1>1, <2>1, <2>2
<1>3. ASSUME from # to  PROVE x \in Int /\ d * x <= v /\ v < d * (x + 1)
    <2>1. x = v \div d
        BY <1>1, <1>3 DEF A!Convert
    <2>. DEFINE r == v % d
    <2>. HIDE DEF x, v, d
    <2>2. x \in Int /\ r \in 0..(d - 1) /\ v = d * x + r
        BY <1>1, <2>1, DivMod
    <2>. HIDE DEF r
    <2>3. d * x \in Int /\ d * (x + 1) = d * x + d
        BY <1>1, <2>2
    <2>. QED  BY <1>1, <2>2, <2>3
<1>. QED  BY <1>2, <1>3

\* What the account has at the start with the top-up: exactly what the charges
\* take; with one less, less than that.
LEMMA TopUpConverted ==
    ASSUME NEW p, IsPortfolio(p), Plain(p), NEW f, Charging(p, f),
           NEW a \in DOMAIN p.accounts, A!Prepaid(p.accounts[a])
    PROVE  LET start(more) == A!Convert(p.accounts[a].balance + more, p.accounts[a].currency, p.base, p.rates)
               taken == f[0].base[a] - f[Ahead(p)].base[a]
               missing == 0 - f[Ahead(p)].native[a]
           IN  start(missing) = taken /\ start(missing - 1) \in Int /\ start(missing - 1) < taken
<1>. DEFINE own == p.accounts[a].currency
            rb == p.rates[p.base]
            ro == p.rates[own]
            bal == p.accounts[a].balance
            k == Ahead(p)
            start(more) == A!Convert(bal + more, own, p.base, p.rates)
            x == f[0].base[a]
            y == f[k].base[a]
            n == f[k].native[a]
<1>1. own \in DOMAIN p.rates /\ p.base \in DOMAIN p.rates /\ p.rates \in [DOMAIN p.rates -> Nat]
      /\ (\A c \in DOMAIN p.rates : p.rates[c] # 0) /\ bal \in Int
    BY DEF IsPortfolio, Plain, A!Prepaid
<1>2. rb \in Nat \ {0} /\ ro \in Nat \ {0}
    BY <1>1
<1>3. k \in Nat /\ 0 \in 0..k /\ k \in 0..k
    BY OrderGiven
<1>4. x \in Int /\ y \in Int /\ n \in Int /\ f[0].native[a] = bal
    BY <1>3, BalancesMove
<1>5. rb * x = ro * bal /\ rb * y = ro * n
    <2>1. rb * x = ro * f[0].native[a] /\ rb * y = ro * n
        BY <1>3, BalancesAgree
    <2>. QED  BY <1>4, <2>1
<1>6. ASSUME NEW more \in Int
      PROVE  /\ start(more) \in Int /\ rb * start(more) <= (bal + more) * ro
             /\ (bal + more) * ro < rb * (start(more) + 1)
    <2>1. bal + more \in Int
        BY <1>1
    <2>. QED  BY <1>1, <2>1, RoundsDown
<1>7. 0 - n \in Int /\ (0 - n) - 1 \in Int
    BY <1>4
<1>. DEFINE s == start(0 - n)
            t == start((0 - n) - 1)
<1>8. /\ s \in Int /\ rb * s <= (bal + (0 - n)) * ro /\ (bal + (0 - n)) * ro < rb * (s + 1)
      /\ t \in Int /\ rb * t <= (bal + ((0 - n) - 1)) * ro
    BY <1>6, <1>7
<1>. HIDE DEF start, s, t, x, y, n, rb, ro, bal
<1>9. /\ (bal + (0 - n)) * ro = ro * bal - ro * n /\ (bal + ((0 - n) - 1)) * ro = ro * bal - ro * n - ro
      /\ rb * (x - y) = rb * x - rb * y
      /\ rb * x \in Int /\ rb * y \in Int /\ ro * bal \in Int /\ ro * n \in Int
    <2>1. bal \in Int
        BY <1>1 DEF bal
    <2>. QED  BY <1>2, <1>4, <2>1, SMTT(30)
<1>. DEFINE w == x - y
<1>10. w \in Int /\ rb * w \in Int /\ rb * w = rb * x - rb * y
    BY <1>4, <1>9
<1>. HIDE DEF w
<1>11. ~(rb * w < rb * s) /\ rb * w < rb * (s + 1) /\ rb * t < rb * w
    <2>1. rb * s \in Int /\ rb * t \in Int /\ rb * (s + 1) \in Int /\ s + 1 \in Int
        BY <1>2, <1>8
    <2>2. rb * w = ro * bal - ro * n
        BY <1>5, <1>10
    <2>3. rb * s <= rb * w /\ rb * w < rb * (s + 1)
        BY <1>8, <1>9, <2>2
    <2>4. rb * t <= rb * w - ro
        BY <1>8, <1>9, <2>2
    <2>. QED  BY <1>2, <1>10, <2>1, <2>3, <2>4
<1>12. ~(w < s) /\ w < s + 1 /\ t < w
    <2>1. s + 1 \in Int
        BY <1>8
    <2>. QED  BY <1>2, <1>8, <1>10, <1>11, <2>1, Scaled
<1>13. s = w /\ t \in Int /\ t < w
    BY <1>8, <1>10, <1>12
<1>. QED  BY <1>13 DEF s, t, start, w, x, y, n, bal

\* The suggestions: the accounts with a critical line that end below zero.
LEMMA TopUpsGiven ==
    ASSUME NEW p, IsPortfolio(p), NEW f, Charging(p, f), A!Simulated(p) = f[Ahead(p)]
    PROVE  LET tops == A!TopUps(p)
               last == f[Ahead(p)]
           IN  /\ \A a \in DOMAIN tops : /\ \E j \in 1..Ahead(p) : Payer(p, j) = a
                                         /\ a \in DOMAIN p.accounts /\ A!Prepaid(p.accounts[a])
                                         /\ last.native[a] < 0 /\ tops[a] = 0 - last.native[a]
               /\ \A j \in 1..Ahead(p) : last.lines[j].severity = "critical" /\ A!Prepaid(p.accounts[Payer(p, j)])
                                         /\ last.native[Payer(p, j)] < 0 => Payer(p, j) \in DOMAIN tops
<1>. DEFINE last == f[Ahead(p)]
            critical == {last.lines[n].account : n \in {m \in DOMAIN last.lines : last.lines[m].severity = "critical"}}
            short == {a \in critical : last.native[a] # None /\ last.native[a] < 0}
<1>1. A!TopUps(p) = [a \in short |-> 0 - last.native[a]]
    BY Zenon DEF A!TopUps
<1>2. Ahead(p) \in Nat /\ Ahead(p) \in 0..Ahead(p)
    BY OrderGiven
<1>3. IsRun(p, last)
    BY <1>2, RunsGiven
<1>4. DOMAIN last.lines = 1..Ahead(p)
    BY LinesGiven
<1>5. \A j \in 1..Ahead(p) : last.lines[j].account = Payer(p, j) /\ Payer(p, j) \in DOMAIN p.accounts
    BY VerdictGiven, CostsGiven
<1>. HIDE DEF last
<1>6. ASSUME NEW a \in short
      PROVE  /\ \E j \in 1..Ahead(p) : Payer(p, j) = a
             /\ a \in DOMAIN p.accounts /\ A!Prepaid(p.accounts[a]) /\ last.native[a] < 0
    <2>1. PICK j \in DOMAIN last.lines : a = last.lines[j].account
        OBVIOUS
    <2>2. j \in 1..Ahead(p) /\ Payer(p, j) = a /\ a \in DOMAIN p.accounts
        BY <1>4, <1>5, <2>1
    <2>3. last.native[a] # None /\ last.native[a] < 0
        OBVIOUS
    <2>4. A!Prepaid(p.accounts[a])
        BY <1>3, <2>2, <2>3 DEF IsRun
    <2>. QED  BY <2>2, <2>3, <2>4
<1>7. ASSUME NEW j \in 1..Ahead(p), last.lines[j].severity = "critical", A!Prepaid(p.accounts[Payer(p, j)]),
             last.native[Payer(p, j)] < 0
      PROVE  Payer(p, j) \in short
    <2>1. Payer(p, j) \in critical
        BY <1>4, <1>5, <1>7
    <2>2. last.native[Payer(p, j)] \in Int
        BY <1>3, <1>5, <1>7 DEF IsRun
    <2>3. last.native[Payer(p, j)] # None
        BY <2>2, NoneAssumption
    <2>. HIDE DEF critical
    <2>. QED  BY <1>7, <2>1, <2>3
<1>. HIDE DEF short
<1>8. DOMAIN A!TopUps(p) = short /\ \A a \in short : A!TopUps(p)[a] = 0 - last.native[a]
    BY <1>1
<1>. QED  BY <1>6, <1>7, <1>8 DEF last

\* Whether some charge of an account is not covered.
Uncovered(p, a) == \E n \in DOMAIN A!Simulated(p).lines :
                      A!Simulated(p).lines[n].account = a /\ A!Simulated(p).lines[n].covered = "no"

LEMMA UncoveredIsBroke ==
    ASSUME NEW p, IsPortfolio(p), NEW f, Charging(p, f), A!Simulated(p) = f[Ahead(p)],
           NEW a \in DOMAIN p.accounts, A!Prepaid(p.accounts[a])
    PROVE  Uncovered(p, a) <=> \E i \in 1..Ahead(p) : Payer(p, i) = a /\ f[i].base[a] < 0
<1>1. DOMAIN f[Ahead(p)].lines = 1..Ahead(p)
    BY LinesGiven
<1>2. ASSUME NEW i \in 1..Ahead(p)
      PROVE  /\ f[Ahead(p)].lines[i].account = Payer(p, i)
             /\ f[Ahead(p)].lines[i].covered = "no" <=> A!Prepaid(p.accounts[Payer(p, i)]) /\ f[i].base[Payer(p, i)] < 0
    BY VerdictGiven
<1>3. Uncovered(p, a) <=> \E i \in 1..Ahead(p) : /\ f[Ahead(p)].lines[i].account = a
                                               /\ f[Ahead(p)].lines[i].covered = "no"
    BY <1>1, Zenon DEF Uncovered
<1>. QED  BY <1>2, <1>3

\* The suggestion covers every charge, one less does not.
LEMMA TopUpCovers ==
    ASSUME NEW p, IsPortfolio(p), Plain(p), NEW a \in DOMAIN A!TopUps(p)
    PROVE  ~Uncovered(With(p, a, A!TopUps(p)[a]), a) /\ Uncovered(With(p, a, A!TopUps(p)[a] - 1), a)
<1>. DEFINE k == Ahead(p)
            t == A!TopUps(p)[a]
            q == With(p, a, t)
            w == With(p, a, t - 1)
<1>1. PICK f : Charging(p, f) /\ A!Simulated(p) = f[k]
    BY Simulates
<1>2. /\ a \in DOMAIN p.accounts /\ A!Prepaid(p.accounts[a])
      /\ f[k].native[a] < 0 /\ t = 0 - f[k].native[a]
    BY <1>1, TopUpsGiven
<1>3. PICK j \in 1..k : Payer(p, j) = a
    BY <1>1, TopUpsGiven
<1>4. k \in Nat /\ k \in 0..k /\ \A i \in 1..k : i \in 0..k /\ k \in i..k
    BY OrderGiven
<1>5. \A i \in 0..k : f[i].base[a] \in Int /\ f[i].native[a] \in Int
    BY <1>1, <1>2, BalancesMove
<1>6. t \in Int /\ t - 1 \in Int
    BY <1>2, <1>4, <1>5
<1>. DEFINE Same(m) == LET x == With(p, a, m)
                       IN  /\ IsPortfolio(x) /\ Ahead(x) = k /\ a \in DOMAIN x.accounts /\ A!Prepaid(x.accounts[a])
                           /\ \A i \in 1..k : Payer(x, i) = Payer(p, i)
<1>7. ASSUME NEW m \in Int  PROVE Same(m)
    <2>. DEFINE x == With(p, a, m)
    <2>1. /\ IsPortfolio(x) /\ Order(x) = Order(p) /\ Ahead(x) = k /\ DOMAIN x.accounts = DOMAIN p.accounts
          /\ A!Prepaid(x.accounts[a]) /\ x.services = p.services
        BY <1>2, SameCharges
    <2>. HIDE DEF x
    <2>2. \A i \in 1..k : Payer(x, i) = Payer(p, i)
        BY <2>1 DEF Payer, Bill
    <2>. QED  BY <1>2, <2>1, <2>2 DEF x
<1>8. ASSUME NEW m \in Int, NEW g, Charging(With(p, a, m), g)
      PROVE  /\ g[0].base[a] = A!Convert(p.accounts[a].balance + m, p.accounts[a].currency, p.base, p.rates)
             /\ \A i \in 0..k : g[i].base[a] = f[i].base[a] + (g[0].base[a] - f[0].base[a])
    <2>. DEFINE x == With(p, a, m)
    <2>1. /\ IsPortfolio(x) /\ DOMAIN x.accounts = DOMAIN p.accounts /\ A!Prepaid(x.accounts[a])
          /\ x.accounts[a].balance = p.accounts[a].balance + m /\ x.accounts[a].currency = p.accounts[a].currency
          /\ x.rates = p.rates /\ x.base = p.base
        BY <1>2, SameCharges
    <2>. HIDE DEF x
    <2>2. g[0].base[a] = A!Convert(p.accounts[a].balance + m, p.accounts[a].currency, p.base, p.rates)
        <3>1. Charging(x, g)
            BY <1>8 DEF x
        <3>2. g[0].base[a] = A!Convert(x.accounts[a].balance, x.accounts[a].currency, x.base, x.rates)
            BY <1>2, <2>1, <3>1, BalancesMove
        <3>. QED  BY <2>1, <3>2
    <2>3. \A i \in 0..k : g[i].base[a] = f[i].base[a] + (g[0].base[a] - f[0].base[a])
        BY <1>1, <1>2, <1>8, MoreStays
    <2>. QED  BY <2>2, <2>3
<1>9. LET start(more) == A!Convert(p.accounts[a].balance + more, p.accounts[a].currency, p.base, p.rates)
          taken == f[0].base[a] - f[k].base[a]
      IN  start(t) = taken /\ start(t - 1) \in Int /\ start(t - 1) < taken
    BY <1>1, <1>2, TopUpConverted
<1>. HIDE DEF t, k
<1>10. ~Uncovered(q, a)
    <2>1. /\ IsPortfolio(q) /\ Ahead(q) = k /\ a \in DOMAIN q.accounts /\ A!Prepaid(q.accounts[a])
          /\ \A i \in 1..k : Payer(q, i) = Payer(p, i)
        BY <1>6, <1>7
    <2>2. PICK g : Charging(q, g) /\ A!Simulated(q) = g[Ahead(q)]
        BY <2>1, Simulates
    <2>3. ASSUME NEW i \in 1..k  PROVE ~(g[i].base[a] < 0)
        <3>1. f[k].base[a] <= f[i].base[a]
            BY <1>1, <1>2, <1>4, BalancesFall DEF k
        <3>2. g[i].base[a] = f[i].base[a] + (g[0].base[a] - f[0].base[a]) /\ g[0].base[a] = f[0].base[a] - f[k].base[a]
            BY <1>4, <1>6, <1>8, <1>9, <2>2
        <3>3. f[i].base[a] \in Int /\ f[k].base[a] \in Int /\ f[0].base[a] \in Int
            BY <1>4, <1>5
        <3>. QED  BY <3>1, <3>2, <3>3
    <2>. HIDE DEF q
    <2>4. Uncovered(q, a) <=> \E i \in 1..Ahead(q) : Payer(q, i) = a /\ g[i].base[a] < 0
        BY <2>1, <2>2, UncoveredIsBroke
    <2>. QED  BY <2>1, <2>3, <2>4
<1>11. Uncovered(w, a)
    <2>1. /\ IsPortfolio(w) /\ Ahead(w) = k /\ a \in DOMAIN w.accounts /\ A!Prepaid(w.accounts[a])
          /\ \A i \in 1..k : Payer(w, i) = Payer(p, i)
        BY <1>6, <1>7
    <2>2. PICK g : Charging(w, g) /\ A!Simulated(w) = g[Ahead(w)]
        BY <2>1, Simulates
    <2>3. g[k].base[a] < 0
        <3>1. g[k].base[a] = f[k].base[a] + (g[0].base[a] - f[0].base[a]) /\ g[0].base[a] < f[0].base[a] - f[k].base[a]
              /\ g[0].base[a] \in Int
            BY <1>4, <1>6, <1>8, <1>9, <2>2
        <3>2. f[k].base[a] \in Int /\ f[0].base[a] \in Int
            BY <1>4, <1>5
        <3>. QED  BY <3>1, <3>2
    <2>. HIDE DEF w
    <2>4. \E i \in 1..Ahead(w) : Payer(w, i) = a /\ g[i].base[a] < 0
        BY <1>3, <2>1, <2>2, <2>3, SomeChargeFails
    <2>. QED  BY <2>1, <2>2, <2>4, UncoveredIsBroke
<1>. QED  BY <1>10, <1>11 DEF q, w, t

\* A charge not covered stays so: what a prepaid account ends with tells.
LEMMA BrokeStays ==
    ASSUME NEW p, IsPortfolio(p), Plain(p), NEW f, Charging(p, f), NEW n \in 1..Ahead(p), NEW m \in n..Ahead(p),
           f[Ahead(p)].lines[n].covered = "no"
    PROVE  LET a == Payer(p, n)
           IN  A!Prepaid(p.accounts[a]) /\ a \in DOMAIN p.accounts /\ f[m].base[a] < 0
<1>. DEFINE a == Payer(p, n)
<1>1. a \in DOMAIN p.accounts /\ A!Prepaid(p.accounts[a]) /\ f[n].base[a] < 0
    BY VerdictGiven, CostsGiven
<1>. HIDE DEF a
<1>2. n \in 0..Ahead(p) /\ m \in 0..Ahead(p)
    BY OrderGiven
<1>3. f[m].base[a] <= f[n].base[a]
    BY <1>1, <1>2, BalancesFall
<1>4. f[n].base[a] \in Int /\ f[m].base[a] \in Int
    BY <1>1, <1>2, BalancesMove
<1>. QED  BY <1>1, <1>3, <1>4 DEF a

\* Every portfolio the tables can hold has its top-ups answered.
LEMMA TopUpsAnswered ==
    ASSUME NEW p, IsPortfolio(p)
    PROVE  A!TopUpSuffices(p)
<1>. DEFINE k == Ahead(p)
            tops == A!TopUps(p)
            lines == A!Simulated(p).lines
<1>. SUFFICES ASSUME Plain(p)
     PROVE  /\ \A a \in DOMAIN tops : ~Uncovered(With(p, a, tops[a]), a) /\ Uncovered(With(p, a, tops[a] - 1), a)
            /\ \A n \in DOMAIN lines : lines[n].covered = "no" /\ lines[n].days <= 7 => lines[n].account \in DOMAIN tops
            /\ \A n, m \in DOMAIN lines : n < m /\ lines[n].account = lines[m].account /\ lines[n].covered = "no"
                                          => lines[m].covered = "no"
    BY Zenon DEF A!TopUpSuffices, Plain, Uncovered, With
<1>1. PICK f : Charging(p, f) /\ A!Simulated(p) = f[k]
    BY Simulates
<1>2. lines = f[k].lines /\ DOMAIN lines = 1..k
    BY <1>1, LinesGiven
<1>3. k \in Nat /\ k \in 0..k
    BY OrderGiven
<1>4. ASSUME NEW n \in 1..k, lines[n].covered = "no", lines[n].days <= 7  PROVE lines[n].account \in DOMAIN tops
    <2>. DEFINE a == Payer(p, n)
                own == p.accounts[a].currency
    <2>1. lines[n].account = a /\ f[k].lines[n].severity = "critical"
        BY <1>1, <1>2, <1>4, VerdictGiven
    <2>2. A!Prepaid(p.accounts[a]) /\ a \in DOMAIN p.accounts /\ f[k].base[a] < 0
        <3>1. k \in n..k
            BY <1>3
        <3>. QED  BY <1>1, <1>2, <1>4, <3>1, BrokeStays
    <2>3. f[k].base[a] \in Int /\ f[k].native[a] \in Int
        BY <1>1, <1>3, <2>2, BalancesMove
    <2>4. p.rates[p.base] \in Nat \ {0} /\ p.rates[own] \in Nat \ {0}
        BY <2>2 DEF IsPortfolio, Plain
    <2>5. p.rates[p.base] * f[k].base[a] = p.rates[own] * f[k].native[a]
        BY <1>1, <1>3, <2>2, BalancesAgree
    <2>. HIDE DEF a, own
    <2>6. f[k].native[a] < 0
        BY <2>2, <2>3, <2>4, <2>5, Signs
    <2>. QED  BY <1>1, <2>1, <2>2, <2>6, TopUpsGiven DEF a
<1>5. ASSUME NEW n \in 1..k, NEW m \in 1..k, n < m, lines[n].account = lines[m].account, lines[n].covered = "no"
      PROVE  lines[m].covered = "no"
    <2>1. Payer(p, n) = Payer(p, m)
        BY <1>1, <1>2, <1>5, VerdictGiven
    <2>2. A!Prepaid(p.accounts[Payer(p, n)]) /\ f[m].base[Payer(p, n)] < 0
        <3>1. m \in n..k
            BY <1>3, <1>5
        <3>. QED  BY <1>1, <1>2, <1>5, <3>1, BrokeStays
    <2>. QED  BY <1>1, <1>2, <2>1, <2>2, VerdictGiven
<1>6. \A a \in DOMAIN tops : ~Uncovered(With(p, a, tops[a]), a) /\ Uncovered(With(p, a, tops[a] - 1), a)
    BY TopUpCovers
<1>. QED  BY <1>2, <1>4, <1>5, <1>6

\* Whatever portfolio is asked about.
THEOREM TopUpsTheorem == MoneySpec => []TopUpsSuffice
<1>1. AskedOK => TopUpsSuffice
    BY TopUpsAnswered DEF AskedOK, TopUpsSuffice, IsQuestion, Nothing
<1>. QED  BY <1>1, AskedTheorem, PTL

-----------------------------------------------------------------------------
(* The chart.                                                              *)

\* Month by month, the chart's past adds up to what was spent.
LEMMA PastAddsUp ==
    ASSUME NEW l, IsLedger(l), ~A!Forced(l),
           \A i \in DOMAIN l.payments : A!Month(l.payments[i].day) \in (-l.monthsBack)..0
    PROVE  A!Added([n \in 1..(l.monthsBack + 1) |-> A!Actual(l, 1 - n)]) = A!TotalSpent(l)
<1>1. PICK k \in Nat : DOMAIN l.payments = 1..k
    BY DEF IsLedger, IsSeq
<1>. DEFINE value(i) == A!CardValue(l.payments[i])
            in(i)    == A!Month(l.payments[i].day)
            S_       == A!Spends(l)
            T(m)     == [i \in 1..k |-> IF i \in S_ /\ in(i) \in (1 - m)..0 THEN value(i) ELSE 0]
            U(m)     == [i \in 1..k |-> IF i \in S_ /\ in(i) = 1 - m THEN value(i) ELSE 0]
            N        == l.monthsBack + 1
            a        == [n \in 1..N |-> A!Actual(l, 1 - n)]
<1>2. N \in Nat /\ l.monthsBack \in Nat
    BY DEF IsLedger
<1>3. \A i \in 1..k : value(i) \in Int /\ in(i) \in Int
    <2>. SUFFICES ASSUME NEW i \in 1..k  PROVE value(i) \in Int /\ in(i) \in Int
        OBVIOUS
    <2>1. l.payments[i].amount \in Int /\ l.payments[i].day \in Int
        BY <1>1 DEF IsLedger
    <2>2. in(i) \in Int
        BY <2>1 DEF A!Month, A!MonthDays
    <2>3. A!RateOn(l.payments[i].day) \in Int
        BY <2>2 DEF A!RateOn
    <2>4. value(i) \in Int
        BY <2>1, <2>3 DEF A!CardValue
    <2>. QED  BY <2>2, <2>4
<1>4. \A n \in 1..N : A!Actual(l, 1 - n) = A!Added(U(n))
    <2>. SUFFICES ASSUME NEW n \in 1..N  PROVE A!Actual(l, 1 - n) = A!Added(U(n))
        OBVIOUS
    <2>1. ~(1 - n > 0)
        BY <1>2
    <2>2. [i \in DOMAIN l.payments |-> IF i \in A!InMonth(l, 1 - n) THEN A!Valued(l.payments[i]) ELSE 0] = U(n)
        BY <1>1 DEF A!InMonth, A!Valued, A!CardValue
    <2>. QED  BY <2>1, <2>2, Zenon DEF A!Actual
<1>5. \A m \in Int : T(m) \in [1..k -> Int] /\ U(m) \in [1..k -> Int]
    BY <1>3
<1>6. \A m \in Nat : \A i \in 1..k : T(m + 1)[i] = T(m)[i] + U(m + 1)[i]
    BY <1>3
<1>7. \A i \in 1..k : T(0)[i] = 0
    BY <1>3
<1>8. T(N) = [i \in DOMAIN l.payments |-> IF i \in A!Spends(l) THEN A!CardValue(l.payments[i]) ELSE 0]
    BY <1>1, <1>2
<1>. HIDE DEF T, U
<1>9. a \in [1..N -> Int] /\ \A n \in 1..N : a[n] = A!Added(U(n))
    <2>1. \A n \in 1..N : A!Added(U(n)) \in Int
        BY <1>5, AddedSteps
    <2>. QED  BY <1>4, <2>1
<1>. HIDE DEF a, N
<1>10. Sums(a) \in [0..N -> Int] /\ Sums(a)[0] = 0 /\ A!Added(a) = Sums(a)[N] /\ \A i \in 1..N : Sums(a)[i] = Sums(a)[i - 1] + a[i]
    BY <1>2, <1>9, AddedSteps, ZenonT(60)
<1>. DEFINE G == {m \in Nat : m <= N => Sums(a)[m] = A!Added(T(m))}
<1>11. 0 \in G /\ G \in SUBSET Nat
    <2>1. T(0) \in [1..k -> Int]
        BY <1>5
    <2>2. A!Added(T(0)) = 0
        BY <1>7, <2>1, AddedNothing
    <2>. QED  BY <1>10, <2>2
<1>12. ASSUME NEW m \in G  PROVE m + 1 \in G
    <2>1. m \in Nat /\ m + 1 \in Nat /\ m + 1 \in Int /\ (m + 1) - 1 = m
        BY <1>12
    <2>. SUFFICES ASSUME m + 1 <= N  PROVE Sums(a)[m + 1] = A!Added(T(m + 1))
        BY <2>1
    <2>2. m + 1 \in 1..N /\ Sums(a)[m] = A!Added(T(m))
        <3>1. m <= N /\ m + 1 \in 1..N
            BY <1>2, <2>1
        <3>. QED  BY <1>12, <3>1
    <2>3. Sums(a)[m + 1] = A!Added(T(m)) + A!Added(U(m + 1))
        BY <1>9, <1>10, <2>1, <2>2
    <2>4. /\ T(m) \in [1..k -> Int] /\ U(m + 1) \in [1..k -> Int] /\ T(m + 1) \in [1..k -> Int]
          /\ \A i \in 1..k : T(m + 1)[i] = T(m)[i] + U(m + 1)[i]
        BY <1>5, <1>6, <2>1
    <2>5. A!Added(T(m + 1)) = A!Added(T(m)) + A!Added(U(m + 1))
        BY <2>4, AddedBoth
    <2>. QED  BY <2>3, <2>5
<1>13. N \in G
    <2>. HIDE DEF G
    <2>. QED  BY <1>2, <1>11, <1>12, Induction
<1>14. A!Added(a) = A!Added(T(N))
    BY <1>2, <1>10, <1>13
<1>. QED  BY <1>8, <1>14, Zenon DEF A!TotalSpent, a, N

\* The first charge of next month or later, without the loop.
First(due, step) == IF due >= 4 THEN due ELSE due + step * ((3 - due + step) \div step)

\* The first loop of forecast finds it.
LEMMA FirstChargeFound ==
    ASSUME NEW due \in Int, NEW step \in {1, 4, 12, 48}
    PROVE  A!FirstCharge(due, step) = First(due, step)
<1>. DEFINE top == A!Max({due, A!MonthDays})
            D == due..(top + step)
            Next_(f, d) == IF d < 4 THEN f[d + step] ELSE d
            from == CHOOSE f : f = [d \in D |-> Next_(f, d)]
<1>1. top \in Int /\ top >= due /\ top >= 4
    <2>1. \E x \in {due, 4} : \A y \in {due, 4} : x >= y
        OBVIOUS
    <2>2. top \in {due, 4} /\ \A y \in {due, 4} : top >= y
        BY <2>1 DEF A!Max, A!MonthDays
    <2>. QED  BY <2>2
<1>. HIDE DEF top
<1>2. \A d \in D : d \in Int /\ (d < 4 => d + step \in D)
    BY <1>1
<1>3. \A d \in Int : d < 4 => First(d, step) = First(d + step, step)
    <2>1. CASE step = 1
        BY <2>1 DEF First
    <2>2. CASE step = 4
        BY <2>2 DEF First
    <2>3. CASE step = 12
        BY <2>3 DEF First
    <2>4. CASE step = 48
        BY <2>4 DEF First
    <2>. QED  BY <2>1, <2>2, <2>3, <2>4
<1>4. \E f : f = [d \in D |-> Next_(f, d)]
    <2>. DEFINE f == [d \in D |-> First(d, step)]
    <2>1. \A d \in D : First(d, step) = Next_(f, d)
        BY <1>2, <1>3 DEF First
    <2>2. f = [d \in D |-> Next_(f, d)]
        BY <2>1
    <2>. QED  BY <2>2
<1>5. from = [d \in D |-> Next_(from, d)]
    BY <1>4, Zenon
<1>6. A!FirstCharge(due, step) = from[due]
    BY Zenon DEF A!FirstCharge, A!MonthDays, top
<1>. HIDE DEF from
<1>7. \A d \in D : from[d] = IF d < 4 THEN from[d + step] ELSE d
    BY <1>5, ZenonT(60)
<1>. HIDE DEF D
<1>. DEFINE G == {m \in Nat : \A d \in D : d >= 4 - m => from[d] = First(d, step)}
<1>8. 0 \in G /\ G \in SUBSET Nat
    BY <1>2, <1>7 DEF First
<1>9. ASSUME NEW m \in G  PROVE m + 1 \in G
    <2>1. m \in Nat /\ m + 1 \in Nat
        BY <1>9
    <2>. SUFFICES ASSUME NEW d \in D, d >= 4 - (m + 1)  PROVE from[d] = First(d, step)
        BY <2>1
    <2>2. CASE d < 4
        <3>1. d + step \in D /\ d + step >= 4 - m /\ d \in Int
            BY <1>2, <2>1, <2>2
        <3>2. from[d + step] = First(d + step, step)
            BY <1>9, <3>1
        <3>. QED  BY <1>3, <1>7, <2>2, <3>1, <3>2
    <2>3. CASE ~(d < 4)
        BY <1>2, <1>7, <2>3 DEF First
    <2>. QED  BY <2>2, <2>3
<1>10. \A m \in Nat : m \in G
    <2>. HIDE DEF G
    <2>. QED  BY <1>8, <1>9, Induction
<1>11. due \in D
    BY <1>1 DEF D
<1>12. from[due] = First(due, step)
    <2>1. CASE due >= 4
        <3>1. 0 \in G
            BY <1>8
        <3>. QED  BY <1>11, <2>1, <3>1
    <2>2. CASE due < 4
        <3>1. 4 - due \in Nat /\ due >= 4 - (4 - due)
            BY <2>2
        <3>2. 4 - due \in G
            <4>. HIDE DEF G
            <4>. QED  BY <1>10, <3>1
        <3>. QED  BY <1>11, <3>1, <3>2
    <2>. QED  BY <2>1, <2>2
<1>. QED  BY <1>6, <1>12

\* The charges of month m: counted from that one on, or by date.
Counted(due, step, months, m) ==
    {k \in 0..(((months + 1) * 4 - First(due, step)) \div step) :
        First(due, step) + k * step < (months + 1) * 4 /\ (First(due, step) + k * step) \div 4 = m}
Dated(due, step, m) == {d \in {e \in (m * 4)..(m * 4 + 4 - 1) : e >= due /\ (e - due) % step = 0} : d \div 4 = m}

\* They are as many.
LEMMA SameCount ==
    ASSUME NEW due \in Int, NEW step \in {1, 4, 12, 48}, NEW months \in Nat, NEW m \in 1..months
    PROVE  Cardinality(Counted(due, step, months, m)) = Cardinality(Dated(due, step, m))
<1>. USE DEF Counted, Dated
<1>. DEFINE F == First(due, step)
            ends == (months + 1) * 4
            X == {k \in 0..((ends - F) \div step) : F + k * step < ends /\ (F + k * step) \div 4 = m}
            Y == {d \in {e \in (m * 4)..(m * 4 + 4 - 1) : e >= due /\ (e - due) % step = 0} : d \div 4 = m}
            h == [k \in X |-> F + k * step]
<1>1. /\ F \in Int /\ F >= due /\ (F - due) % step = 0
      /\ \A d \in Int : d >= 4 /\ d >= due /\ (d - due) % step = 0 => d >= F
    <2>1. CASE step = 1
        BY <2>1 DEF First
    <2>2. CASE step = 4
        BY <2>2 DEF First
    <2>3. CASE step = 12
        BY <2>3 DEF First
    <2>4. CASE step = 48
        BY <2>4 DEF First
    <2>. QED  BY <2>1, <2>2, <2>3, <2>4
<1>. HIDE DEF F
<1>2. m \in Nat /\ m >= 1 /\ m * 4 + 3 < ends /\ ends \in Int
    OBVIOUS
<1>. HIDE DEF ends
<1>3. ASSUME NEW k \in X  PROVE F + k * step \in Y
    <2>1. k \in Nat /\ (F + k * step) \div 4 = m
        BY <1>3
    <2>. DEFINE d == F + k * step
    <2>2. d \in Int /\ d >= due /\ (d - due) % step = 0
        <3>1. CASE step = 1
            BY <1>1, <2>1, <3>1
        <3>2. CASE step = 4
            BY <1>1, <2>1, <3>2
        <3>3. CASE step = 12
            BY <1>1, <2>1, <3>3
        <3>4. CASE step = 48
            BY <1>1, <2>1, <3>4
        <3>. QED  BY <3>1, <3>2, <3>3, <3>4
    <2>. HIDE DEF d
    <2>3. d \in (m * 4)..(m * 4 + 4 - 1)
        BY <1>2, <2>1, <2>2 DEF d
    <2>. QED  BY <2>1, <2>2, <2>3 DEF d
<1>4. ASSUME NEW d \in Y  PROVE \E k \in X : F + k * step = d
    <2>1. d \in Int /\ d >= m * 4 /\ d <= m * 4 + 3 /\ d >= due /\ (d - due) % step = 0 /\ d \div 4 = m
        BY <1>2, <1>4
    <2>2. d >= F /\ d < ends
        BY <1>1, <1>2, <2>1
    <2>. DEFINE k == (d - F) \div step
    <2>3. k \in Nat /\ F + k * step = d /\ k <= (ends - F) \div step /\ (ends - F) \div step \in Int
        <3>1. CASE step = 1
            BY <1>1, <1>2, <2>1, <2>2, <3>1
        <3>2. CASE step = 4
            BY <1>1, <1>2, <2>1, <2>2, <3>2
        <3>3. CASE step = 12
            BY <1>1, <1>2, <2>1, <2>2, <3>3
        <3>4. CASE step = 48
            BY <1>1, <1>2, <2>1, <2>2, <3>4
        <3>. QED  BY <3>1, <3>2, <3>3, <3>4
    <2>. HIDE DEF k
    <2>4. k \in X
        BY <2>1, <2>2, <2>3
    <2>. QED  BY <2>3, <2>4
<1>5. \A j, k \in X : F + j * step = F + k * step => j = k
    <2>. SUFFICES ASSUME NEW j \in X, NEW k \in X, F + j * step = F + k * step  PROVE j = k
        OBVIOUS
    <2>1. j \in Int /\ k \in Int
        OBVIOUS
    <2>2. CASE step = 1
        BY <1>1, <2>1, <2>2
    <2>3. CASE step = 4
        BY <1>1, <2>1, <2>3
    <2>4. CASE step = 12
        BY <1>1, <2>1, <2>4
    <2>5. CASE step = 48
        BY <1>1, <2>1, <2>5
    <2>. QED  BY <2>2, <2>3, <2>4, <2>5
<1>6. IsFiniteSet(X)
    <2>1. (ends - F) \div step \in Int
        BY <1>1, <1>2
    <2>2. IsFiniteSet(0..((ends - F) \div step))
        BY <2>1, FS_Interval
    <2>3. X \in SUBSET (0..((ends - F) \div step))
        OBVIOUS
    <2>. HIDE DEF X
    <2>. QED  BY <2>2, <2>3, FS_Subset
<1>. HIDE DEF X, Y
<1>7. h \in Bijection(X, Y)
    BY <1>3, <1>4, <1>5 DEF Bijection, Injection, Surjection, IsInjective
<1>8. Cardinality(Y) = Cardinality(X)
    <2>1. ExistsBijection(X, Y)
        BY <1>7 DEF ExistsBijection
    <2>. QED  BY <1>6, <2>1, FS_Bijection
<1>. QED  BY <1>8 DEF X, Y, F, ends

\* "keeps Actual consistent with the KPI card" (analytics.service.ts): the chart's
\* current month is the card's, its past months add up to what was spent, and each
\* month to come holds exactly the charges dated in it: for every ledger and window.
THEOREM LedgerAnswers ==
    ASSUME NEW l, IsLedger(l)
    PROVE  A!ChartAgrees(l)
<1>1. ~A!Forced(l) => A!Actual(l, 0) = A!CurrentMonthPayments(l)
    <2>. SUFFICES ASSUME ~A!Forced(l)  PROVE A!Actual(l, 0) = A!CurrentMonthPayments(l)
        OBVIOUS
    <2>1. [i \in DOMAIN l.payments |-> IF i \in A!InMonth(l, 0) THEN A!Valued(l.payments[i]) ELSE 0]
          = [i \in DOMAIN l.payments |-> IF i \in A!InMonth(l, 0) THEN A!CardValue(l.payments[i]) ELSE 0]
        BY Zenon DEF A!Valued, A!CardValue
    <2>2. ~(0 > 0)
        OBVIOUS
    <2>. QED  BY <2>1, <2>2, Zenon DEF A!Actual, A!CurrentMonthPayments
<1>2. ASSUME NEW i \in DOMAIN l.services, NEW m \in 1..l.months
      PROVE  LET s == l.services[i]
                 dates == IF A!PeriodStep(s.period) = 0 THEN {s.due}
                          ELSE {d \in (m * A!MonthDays)..(m * A!MonthDays + A!MonthDays - 1) :
                                   d >= s.due /\ (d - s.due) % A!PeriodStep(s.period) = 0}
             IN  A!Projected(l, s, m) = s.cost * Cardinality({d \in dates : A!Month(d) = m})
    <2>. DEFINE s == l.services[i]
                step == A!PeriodStep(s.period)
    <2>1. s.cost \in Int /\ s.due \in Int /\ l.months \in Nat
        BY <1>2 DEF IsLedger
    <2>2. step \in {0, 1, 4, 12, 48}
        BY DEF A!PeriodStep, A!MonthDays
    <2>. HIDE DEF step
    <2>3. CASE step = 0
        <3>1. A!Projected(l, s, m) = IF s.due \div 4 = m /\ s.due >= 4 THEN s.cost ELSE 0
            BY <2>3 DEF A!Projected, A!Month, A!MonthDays, step
        <3>. DEFINE Z == {d \in {s.due} : A!Month(d) = m}
        <3>2. CASE s.due \div 4 = m
            <4>1. Z = {s.due} /\ s.due >= 4
                BY <2>1, <3>2 DEF A!Month, A!MonthDays
            <4>2. Cardinality(Z) = 1
                BY <4>1, FS_Singleton
            <4>. QED  BY <2>1, <2>3, <3>1, <3>2, <4>1, <4>2 DEF step
        <3>3. CASE s.due \div 4 # m
            <4>1. Z = {}
                BY <3>3 DEF A!Month, A!MonthDays
            <4>2. Cardinality(Z) = 0
                BY <4>1, FS_EmptySet
            <4>. QED  BY <2>1, <2>3, <3>1, <3>3, <4>2 DEF step
        <3>. QED  BY <3>2, <3>3
    <2>4. CASE step # 0
        <3>1. step \in {1, 4, 12, 48}
            BY <2>2, <2>4
        <3>. DEFINE X == Counted(s.due, step, l.months, m)
                    Y == Dated(s.due, step, m)
        <3>2. Cardinality(X) = Cardinality(Y)
            BY <2>1, <3>1, SameCount
        <3>3. A!FirstCharge(s.due, step) = First(s.due, step)
            BY <2>1, <3>1, FirstChargeFound
        <3>4. A!Projected(l, s, m) = s.cost * A!Cardinality(X)
            BY <2>4, <3>3, Zenon DEF A!Projected, A!Month, A!MonthDays, step, Counted
        <3>5. A!Projected(l, s, m) = s.cost * Cardinality(Y)
            BY <3>2, <3>4, SameCardinality, Zenon
        <3>. QED  BY <2>4, <3>5, Zenon DEF step, A!Month, A!MonthDays, Dated
    <2>. QED  BY <2>3, <2>4
<1>3. ASSUME NEW i \in DOMAIN l.services, NEW m \in 1..l.months
      PROVE  LET s == l.services[i]
                 dates == IF A!PeriodStep(s.period) = 0 THEN {s.due}
                          ELSE {d \in (m * A!MonthDays)..(m * A!MonthDays + A!MonthDays - 1) :
                                   d >= s.due /\ (d - s.due) % A!PeriodStep(s.period) = 0}
             IN  A!Projected(l, s, m) = s.cost * A!Cardinality({d \in dates : A!Month(d) = m})
    BY <1>2, SameCardinality, Zenon
<1>. QED  BY <1>1, <1>3, PastAddsUp DEF A!ChartAgrees

\* For every question asked of a ledger: see LedgerAnswers.
THEOREM ChartTheorem == MoneySpec => []ChartAgrees
<1>1. AskedOK => ChartAgrees
    BY LedgerAnswers DEF AskedOK, ChartAgrees, IsQuestion, Nothing
<1>. QED  BY <1>1, AskedTheorem, PTL

-----------------------------------------------------------------------------
(* Loops, and sums taken apart.                                            *)

\* A loop that goes through n turns, each taking one state to the next.
Turned(n, S, start, turn, f) == f \in [0..n -> S] /\ f[0] = start /\ \A i \in 1..n : f[i] = turn[i][f[i - 1]]
LEMMA Turns ==
    ASSUME NEW n \in Nat, NEW S, NEW start \in S, NEW turn \in [1..n -> [S -> S]]
    PROVE  \E f : Turned(n, S, start, turn, f)
<1>. DEFINE Runs(g, m) == g[0] = start /\ \A i \in 1..m : g[i] = turn[i][g[i - 1]]
            G == {m \in Nat : m <= n => \E g \in [0..n -> S] : Runs(g, m)}
<1>1. 0 \in G
    <2>. DEFINE g == [i \in 0..n |-> start]
    <2>1. g \in [0..n -> S] /\ Runs(g, 0)
        OBVIOUS
    <2>. QED  BY <2>1
<1>2. ASSUME NEW m \in G  PROVE m + 1 \in G
    <2>0. m + 1 \in Nat
        BY <1>2
    <2>. SUFFICES ASSUME m + 1 <= n  PROVE \E g \in [0..n -> S] : Runs(g, m + 1)
        BY <2>0
    <2>1. m \in Nat /\ m <= n /\ m + 1 \in 1..n /\ m \in 0..n /\ m + 1 \in 0..n
        BY <1>2
    <2>2. PICK h \in [0..n -> S] : Runs(h, m)
        BY <2>1
    <2>. DEFINE e == turn[m + 1][h[m]]
                g == [h EXCEPT ![m + 1] = e]
    <2>3. e \in S
        <3>1. turn[m + 1] \in [S -> S] /\ h[m] \in S
            BY <2>1, <2>2
        <3>. QED  BY <3>1
    <2>. HIDE DEF e
    <2>4. g \in [0..n -> S] /\ g[m + 1] = e /\ \A i \in 0..n : i # m + 1 => g[i] = h[i]
        BY <2>1, <2>2, <2>3
    <2>. HIDE DEF g
    <2>5. ASSUME NEW i \in 1..(m + 1)  PROVE g[i] = turn[i][g[i - 1]]
        <3>1. CASE i = m + 1
            <4>1. i - 1 = m /\ m # m + 1
                BY <2>1, <3>1
            <4>2. g[i - 1] = h[m]
                BY <2>1, <2>4, <4>1
            <4>. QED  BY <2>4, <3>1, <4>2 DEF e
        <3>2. CASE i # m + 1
            <4>1. i \in 1..m /\ i - 1 # m + 1 /\ i - 1 \in 0..n /\ i \in 0..n
                BY <3>2, <2>1
            <4>. QED  BY <4>1, <2>2, <2>4, <3>2
        <3>. QED  BY <3>1, <3>2
    <2>6. g[0] = start
        BY <2>1, <2>2, <2>4
    <2>. QED  BY <2>4, <2>5, <2>6
<1>3. n \in G
    <2>1. G \in SUBSET Nat
        OBVIOUS
    <2>. HIDE DEF G
    <2>. QED  BY <1>1, <1>2, <2>1, Induction
<1>. QED  BY <1>3 DEF Turned

\* What one number adds: all the others are nothing.
LEMMA AddedTelescopes ==
    ASSUME NEW n \in Nat, NEW c \in [0..n -> Int], NEW v \in [1..n -> Int], \A i \in 1..n : v[i] = c[i] - c[i - 1]
    PROVE  A!Added(v) = c[n] - c[0]
<1>. DEFINE G == {m \in Nat : m <= n => Sums(v)[m] = c[m] - c[0]}
<1>1. /\ Sums(v) \in [0..n -> Int] /\ Sums(v)[0] = 0 /\ A!Added(v) = Sums(v)[n]
      /\ \A i \in 1..n : Sums(v)[i] = Sums(v)[i - 1] + v[i]
    BY AddedSteps
<1>2. 0 \in G /\ G \in SUBSET Nat
    BY <1>1
<1>3. ASSUME NEW m \in G  PROVE m + 1 \in G
    <2>. SUFFICES ASSUME m + 1 <= n  PROVE Sums(v)[m + 1] = c[m + 1] - c[0]
        BY <1>3
    <2>1. m \in 0..n /\ m + 1 \in 1..n /\ (m + 1) - 1 = m /\ Sums(v)[m] = c[m] - c[0]
        BY <1>3
    <2>2. Sums(v)[m + 1] = Sums(v)[m] + v[m + 1] /\ v[m + 1] = c[m + 1] - c[m]
        BY <1>1, <2>1
    <2>3. c[m + 1] \in Int /\ c[m] \in Int /\ c[0] \in Int
        BY <2>1
    <2>. QED  BY <2>1, <2>2, <2>3
<1>4. n \in G
    <2>. HIDE DEF G
    <2>. QED  BY <1>2, <1>3, Induction
<1>. QED  BY <1>1, <1>4

\* A loop in which one turn only adds something.
LEMMA AddedOnce ==
    ASSUME NEW n \in Nat, NEW k \in 1..n, NEW v \in [1..n -> Int], \A i \in 1..n : i # k => v[i] = 0
    PROVE  A!Added(v) = v[k]
<1>. DEFINE c == [i \in 0..n |-> IF i < k THEN 0 ELSE v[k]]
<1>1. c \in [0..n -> Int] /\ c[0] = 0 /\ c[n] = v[k] /\ v[k] \in Int
    OBVIOUS
<1>2. \A i \in 1..n : v[i] = c[i] - c[i - 1]
    OBVIOUS
<1>. HIDE DEF c
<1>3. A!Added(v) = c[n] - c[0]
    BY <1>1, <1>2, AddedTelescopes
<1>. QED  BY <1>1, <1>3

\* Amounts in the smallest unit.
LEMMA AddedUnits ==
    ASSUME NEW n \in Nat, NEW v \in [1..n -> Int], NEW w \in [1..n -> Int], \A i \in 1..n : w[i] = v[i] * A!Unit
    PROVE  A!Added(w) = A!Unit * A!Added(v)
<1>. DEFINE c == [i \in 0..n |-> 420 * Sums(v)[i]]
<1>1. /\ Sums(v) \in [0..n -> Int] /\ Sums(v)[0] = 0 /\ A!Added(v) = Sums(v)[n] /\ A!Added(v) \in Int
      /\ \A i \in 1..n : Sums(v)[i] = Sums(v)[i - 1] + v[i]
    BY AddedSteps
<1>2. c \in [0..n -> Int] /\ c[0] = 0 /\ c[n] = 420 * A!Added(v)
    BY <1>1
<1>3. ASSUME NEW i \in 1..n  PROVE w[i] = c[i] - c[i - 1]
    <2>1. i \in 0..n /\ i - 1 \in 0..n
        OBVIOUS
    <2>2. Sums(v)[i] = Sums(v)[i - 1] + v[i] /\ Sums(v)[i - 1] \in Int /\ v[i] \in Int /\ w[i] = v[i] * 420
        BY <1>1, <2>1, SMTT(60) DEF A!Unit
    <2>3. c[i] = 420 * Sums(v)[i] /\ c[i - 1] = 420 * Sums(v)[i - 1]
        BY <2>1
    <2>. QED  BY <2>2, <2>3
<1>. HIDE DEF c
<1>4. A!Added(w) = c[n] - c[0]
    BY <1>2, <1>3, AddedTelescopes, ZenonT(60)
<1>. QED  BY <1>1, <1>2, <1>4 DEF A!Unit

\* A table added up by rows or by columns.
LEMMA AddedEitherWay ==
    ASSUME NEW n \in Nat, NEW m \in Nat, NEW F \in [1..n -> [1..m -> Int]]
    PROVE  A!Added([i \in 1..n |-> A!Added(F[i])]) = A!Added([j \in 1..m |-> A!Added([i \in 1..n |-> F[i][j]])])
<1>. DEFINE rows == [i \in 1..n |-> A!Added(F[i])]
            column(j) == [i \in 1..n |-> F[i][j]]
            upto(r) == [j \in 1..m |-> Sums(column(j))[r]]
            G == {r \in Nat : r <= n => Sums(rows)[r] = A!Added(upto(r))}
<1>1. \A i \in 1..n : F[i] \in [1..m -> Int] /\ A!Added(F[i]) \in Int
    BY AddedSteps
<1>2. rows \in [1..n -> Int] /\ \A i \in 1..n : rows[i] = A!Added(F[i])
    BY <1>1
<1>3. ASSUME NEW j \in 1..m
      PROVE  /\ column(j) \in [1..n -> Int] /\ Sums(column(j)) \in [0..n -> Int] /\ Sums(column(j))[0] = 0
             /\ \A i \in 1..n : Sums(column(j))[i] = Sums(column(j))[i - 1] + F[i][j]
             /\ A!Added(column(j)) = Sums(column(j))[n]
    <2>. DEFINE v == column(j)
    <2>1. v \in [1..n -> Int] /\ \A i \in 1..n : v[i] = F[i][j]
        BY <1>1
    <2>. HIDE DEF v
    <2>2. /\ Sums(v) \in [0..n -> Int] /\ Sums(v)[0] = 0 /\ A!Added(v) = Sums(v)[n]
          /\ \A i \in 1..n : Sums(v)[i] = Sums(v)[i - 1] + v[i]
        BY <2>1, AddedSteps, ZenonT(60)
    <2>3. \A i \in 1..n : Sums(v)[i] = Sums(v)[i - 1] + F[i][j]
        BY <2>1, <2>2
    <2>. QED  BY <2>1, <2>2, <2>3 DEF v
<1>. HIDE DEF column, rows
<1>4. ASSUME NEW r \in 0..n  PROVE upto(r) \in [1..m -> Int]
    BY <1>3
<1>5. /\ Sums(rows) \in [0..n -> Int] /\ Sums(rows)[0] = 0 /\ A!Added(rows) = Sums(rows)[n]
      /\ \A i \in 1..n : Sums(rows)[i] = Sums(rows)[i - 1] + rows[i]
    BY <1>2, AddedSteps, ZenonT(60)
<1>6. 0 \in G
    <2>1. 0 \in 0..n
        OBVIOUS
    <2>2. upto(0) \in [1..m -> Int] /\ \A j \in 1..m : upto(0)[j] = 0
        BY <1>3, <1>4, <2>1
    <2>. HIDE DEF upto
    <2>3. A!Added(upto(0)) = 0
        BY <2>2, AddedNothing
    <2>. QED  BY <1>5, <2>3
<1>7. ASSUME NEW r \in G  PROVE r + 1 \in G
    <2>0. r \in Nat /\ r + 1 \in Nat
        BY <1>7
    <2>. SUFFICES ASSUME r + 1 <= n  PROVE Sums(rows)[r + 1] = A!Added(upto(r + 1))
        BY <2>0
    <2>1. r + 1 \in 1..n /\ r + 1 \in 0..n /\ r \in 0..n /\ (r + 1) - 1 = r /\ Sums(rows)[r] = A!Added(upto(r))
        BY <1>7
    <2>2. upto(r) \in [1..m -> Int] /\ upto(r + 1) \in [1..m -> Int] /\ F[r + 1] \in [1..m -> Int]
        BY <1>1, <1>4, <2>1
    <2>3. \A j \in 1..m : upto(r + 1)[j] = upto(r)[j] + F[r + 1][j]
        BY <1>3, <2>1
    <2>. HIDE DEF upto
    <2>4. A!Added(upto(r + 1)) = A!Added(upto(r)) + A!Added(F[r + 1])
        BY <2>2, <2>3, AddedBoth
    <2>. QED  BY <1>2, <1>5, <2>1, <2>4
<1>8. n \in G
    <2>1. G \in SUBSET Nat
        OBVIOUS
    <2>. HIDE DEF G
    <2>. QED  BY <1>6, <1>7, <2>1, Induction
<1>9. upto(n) = [j \in 1..m |-> A!Added(column(j))]
    BY <1>3
<1>10. Sums(rows)[n] = A!Added(upto(n))
    BY <1>8
<1>11. A!Added(rows) = A!Added([j \in 1..m |-> A!Added(column(j))])
    BY <1>5, <1>9, <1>10, Zenon
<1>. QED  BY <1>11, Zenon DEF rows, column

-----------------------------------------------------------------------------
(* Snapshots kept in order, and the currency picked.                       *)

\* Snapshots in the order they were taken.
Ordered(points) ==
    /\ Len(points) \in Nat /\ DOMAIN points = 1..Len(points)
    /\ \A n \in 1..Len(points) : points[n].at \in Int /\ points[n].balance \in Int
    /\ \A m, n \in 1..Len(points) : m <= n => points[m].at <= points[n].at

\* A filter keeps the order.
LEMMA KeptInOrder ==
    ASSUME NEW rows, IsSeq(rows), Ordered(rows), NEW which
    PROVE  Ordered(A!Kept(rows, which))
<1>. DEFINE R == {rows[i] : i \in DOMAIN rows}
            k == Len(rows)
            S == Seq(R)
            Step(s, i) == IF i \in which THEN Append(s, rows[i]) ELSE s
            turn == [i \in 1..k |-> [s \in S |-> Step(s, i)]]
            nil == <<>>
            Body(f) == [n \in 0..k |-> IF n = 0 THEN nil ELSE Step(f[n - 1], n)]
<1>1. k \in Nat /\ DOMAIN rows = 1..k /\ rows \in Seq(R)
    BY DEF Ordered, IsSeq
<1>. HIDE DEF k
<1>2. \A i \in 1..k : rows[i] \in R
    BY <1>1
<1>. HIDE DEF R
<1>3. turn \in [1..k -> [S -> S]] /\ nil \in S
    <2>1. ASSUME NEW i \in 1..k, NEW s \in S  PROVE Step(s, i) \in S
        <3>1. Append(s, rows[i]) \in S
            BY <1>2, AppendProperties
        <3>. QED  BY <3>1
    <2>. HIDE DEF Step
    <2>2. nil \in S
        OBVIOUS
    <2>. HIDE DEF S, nil
    <2>. QED  BY <2>1, <2>2
<1>. HIDE DEF S, nil, Step
<1>4. PICK g : Turned(k, S, nil, turn, g)
    <2>. HIDE DEF turn
    <2>. QED  BY <1>1, <1>3, Turns
<1>5. \A i \in 1..k : g[i - 1] \in S /\ g[i] = Step(g[i - 1], i)
    <2>1. \A i \in 1..k : i - 1 \in 0..k
        BY <1>1
    <2>. QED  BY <1>4, <2>1 DEF Turned
<1>6. g = Body(g)
    <2>1. \A n \in 0..k : n = 0 \/ n \in 1..k
        BY <1>1
    <2>. QED  BY <1>4, <1>5, <2>1 DEF Turned
<1>. DEFINE f == CHOOSE h : h = Body(h)
<1>7. f = Body(f)
    <2>. HIDE DEF Body
    <2>. QED  BY <1>6, Zenon
<1>8. A!Kept(rows, which) = f[k]
    BY Zenon DEF A!Kept, k, Step, nil
<1>. HIDE DEF f
<1>9. f[0] = nil /\ \A n \in 1..k : f[n] = Step(f[n - 1], n)
    BY <1>1, <1>7
<1>. HIDE DEF Body, turn
<1>. DEFINE Good(s, n) == /\ s \in Seq(R)
                          /\ \A j \in 1..Len(s) : \E i \in 1..n : s[j] = rows[i]
                          /\ \A j, l \in 1..Len(s) : j <= l => s[j].at <= s[l].at
            G == {n \in Nat : n <= k => Good(f[n], n)}
<1>10. \A i \in 1..k : rows[i].at \in Int /\ rows[i].balance \in Int
       /\ \A j \in 1..k : i <= j => rows[i].at <= rows[j].at
    BY DEF Ordered, k
<1>11. 0 \in G
    <2>1. nil \in Seq(R) /\ Len(nil) = 0
        BY DEF nil
    <2>2. Good(nil, 0)
        BY <2>1
    <2>. QED  BY <1>9, <2>2
<1>12. ASSUME NEW n \in G  PROVE n + 1 \in G
    <2>0. n \in Nat /\ n + 1 \in Nat
        BY <1>12
    <2>. SUFFICES ASSUME n + 1 <= k  PROVE Good(f[n + 1], n + 1)
        BY <2>0
    <2>1. n + 1 \in 1..k /\ (n + 1) - 1 = n /\ Good(f[n], n) /\ 1..n \subseteq 1..(n + 1) /\ 1..n \subseteq 1..k
        BY <1>1, <1>12, SMTT(60)
    <2>. DEFINE s == f[n]
                t == f[n + 1]
                e == rows[n + 1]
    <2>2. CASE n + 1 \notin which
        <3>1. t = s
            BY <1>9, <2>1, <2>2 DEF Step
        <3>. HIDE DEF s, t
        <3>2. Good(s, n + 1)
            BY <2>1 DEF s
        <3>. QED  BY <3>1, <3>2 DEF t
    <2>3. CASE n + 1 \in which
        <3>1. t = Append(s, e)
            BY <1>9, <2>1, <2>3 DEF Step
        <3>2. e \in R
            BY <1>2, <2>1
        <3>3. s \in Seq(R) /\ Len(s) \in Nat
            BY <2>1
        <3>4. \A j \in 1..Len(s) : \E i \in 1..n : s[j] = rows[i]
            BY <2>1
        <3>5. \A j, l \in 1..Len(s) : j <= l => s[j].at <= s[l].at
            BY <2>1
        <3>. HIDE DEF s, t
        <3>6. /\ t \in Seq(R) /\ Len(t) = Len(s) + 1 /\ t[Len(s) + 1] = e
              /\ \A j \in 1..Len(s) : t[j] = s[j]
            <4>. HIDE DEF e
            <4>. QED  BY <3>1, <3>2, <3>3, AppendProperties
        <3>7. \A j \in 1..Len(t) : j \in 1..Len(s) \/ j = Len(s) + 1
            BY <3>3, <3>6
        <3>8. ASSUME NEW j \in 1..Len(t)  PROVE \E i \in 1..(n + 1) : t[j] = rows[i]
            <4>1. CASE j \in 1..Len(s)
                BY <2>1, <3>4, <3>6, <4>1
            <4>2. CASE j = Len(s) + 1
                <5>1. n + 1 \in 1..(n + 1)
                    BY <2>0
                <5>. QED  BY <3>6, <4>2, <5>1
            <4>. QED  BY <3>7, <4>1, <4>2
        <3>9. ASSUME NEW j \in 1..Len(t), NEW l \in 1..Len(t), j <= l  PROVE t[j].at <= t[l].at
            <4>1. CASE l \in 1..Len(s)
                <5>1. j \in 1..Len(s)
                    BY <3>3, <3>9, <4>1
                <5>. QED  BY <3>5, <3>6, <3>9, <4>1, <5>1
            <4>2. CASE l = Len(s) + 1
                <5>1. PICK i \in 1..(n + 1) : t[j] = rows[i]
                    BY <3>8
                <5>2. i \in 1..k /\ i <= n + 1
                    BY <1>1, <2>1, <2>0
                <5>. QED  BY <1>10, <2>1, <3>6, <4>2, <5>1, <5>2
            <4>. QED  BY <3>7, <4>1, <4>2
        <3>10. Good(t, n + 1)
            BY <3>6, <3>8, <3>9
        <3>. QED  BY <3>10 DEF t
    <2>. QED  BY <2>2, <2>3
<1>13. Good(f[k], k)
    <2>1. G \in SUBSET Nat
        OBVIOUS
    <2>2. k \in G
        <3>. HIDE DEF G
        <3>. QED  BY <1>1, <1>11, <1>12, <2>1, Induction
    <2>. HIDE DEF Good
    <2>. QED  BY <1>1, <2>2
<1>. DEFINE p == A!Kept(rows, which)
<1>14. Good(p, k)
    <2>. HIDE DEF Good
    <2>. QED  BY <1>8, <1>13
<1>. HIDE DEF p
<1>15. Len(p) \in Nat /\ DOMAIN p = 1..Len(p)
    BY <1>14
<1>16. \A j \in 1..Len(p) : p[j].at \in Int /\ p[j].balance \in Int
    BY <1>10, <1>14
<1>. QED  BY <1>14, <1>15, <1>16 DEF Ordered, p

LEMMA PointsOrdered ==
    ASSUME NEW x, IsAccount(x)
    PROVE  Ordered(A!Points(x))
<1>1. Ordered(x.snapshots) /\ IsSeq(x.snapshots)
    <2>. DEFINE s == x.snapshots
    <2>1. IsSeq(s) /\ (\A n \in DOMAIN s : s[n].at \in Int /\ s[n].balance \in Int)
          /\ \A m, n \in DOMAIN s : m < n => s[m].at <= s[n].at
        BY DEF IsAccount
    <2>. HIDE DEF s
    <2>2. Len(s) \in Nat /\ DOMAIN s = 1..Len(s)
        BY <2>1 DEF IsSeq
    <2>. QED  BY <2>1, <2>2, SMTT(60) DEF Ordered, s
<1>. QED  BY <1>1, KeptInOrder DEF A!Points

\* The charges are a sequence, so many of each currency.
LEMMA ChargesGiven ==
    ASSUME NEW x, IsAccount(x)
    PROVE  /\ Len(x.charges) \in Nat /\ DOMAIN x.charges = 1..Len(x.charges)
           /\ A!InWindow(x) \in SUBSET (1..Len(x.charges)) /\ IsFiniteSet(A!InWindow(x))
           /\ \A cur : A!Count(x, cur) = Cardinality({c \in A!InWindow(x) : x.charges[c].currency = cur})
                       /\ A!Count(x, cur) \in Nat
<1>. DEFINE s == x.charges
            W == A!InWindow(x)
<1>1. IsSeq(s)
    BY DEF IsAccount
<1>2. Len(s) \in Nat /\ DOMAIN s = 1..Len(s)
    <2>. HIDE DEF s
    <2>. QED  BY <1>1 DEF IsSeq
<1>3. W \in SUBSET (1..Len(s))
    BY <1>2 DEF A!InWindow
<1>4. IsFiniteSet(W)
    <2>1. IsFiniteSet(1..Len(s))
        BY <1>2, FS_Interval
    <2>. HIDE DEF W, s
    <2>. QED  BY <1>3, <2>1, FS_Subset
<1>. HIDE DEF W
<1>5. ASSUME NEW cur
      PROVE  A!Count(x, cur) = Cardinality({c \in W : x.charges[c].currency = cur}) /\ A!Count(x, cur) \in Nat
    <2>. DEFINE C == {c \in W : x.charges[c].currency = cur}
    <2>1. A!Count(x, cur) = A!Cardinality(C)
        BY DEF A!Count, W
    <2>2. C \in SUBSET W
        OBVIOUS
    <2>. HIDE DEF C
    <2>3. Cardinality(C) \in Nat
        BY <1>4, <2>2, FS_Subset, FS_CardinalityType
    <2>4. A!Count(x, cur) = Cardinality(C)
        BY <2>1, SameCardinality
    <2>. QED  BY <2>3, <2>4 DEF C
<1>. QED  BY <1>2, <1>3, <1>4, <1>5 DEF W

\* Better is a strict order.
LEMMA BetterOrders ==
    ASSUME NEW x, IsAccount(x), NEW a \in Int, NEW b \in Int, NEW c \in Int
    PROVE  /\ ~A!Better(x, a, a)
           /\ A!Better(x, a, b) /\ ~A!Better(x, c, b) => ~A!Better(x, c, a)
           /\ a = b \/ A!Better(x, a, b) \/ A!Better(x, b, a)
           /\ A!Better(x, a, None)
<1>1. A!Count(x, a) \in Nat /\ A!Count(x, b) \in Nat /\ A!Count(x, c) \in Nat
    BY ChargesGiven
<1>2. a # None /\ b # None /\ c # None
    BY NoneAssumption
<1>. QED  BY <1>1, <1>2 DEF A!Better

\* The currencies of the charges in the window; the pick is the best of them.
Heard(x) == {x.charges[c].currency : c \in A!InWindow(x)}
Best(x, m) == /\ Heard(x) = {} => m = None
              /\ Heard(x) # {} => m \in Heard(x) /\ \A cur \in Heard(x) : ~A!Better(x, cur, m)

LEMMA MostCommonIsBest ==
    ASSUME NEW x, IsAccount(x)
    PROVE  Best(x, A!MostCommonCurrency(x)) /\ Heard(x) \in SUBSET Int
<1>. DEFINE k == Len(x.charges)
            W == A!InWindow(x)
            cur(i) == x.charges[i].currency
            S == Int \cup {None}
            Step(b, i) == IF i \in W /\ A!Better(x, cur(i), b) THEN cur(i) ELSE b
            turn == [i \in 1..k |-> [b \in S |-> Step(b, i)]]
            Body(f) == [n \in 0..k |-> IF n = 0 THEN None ELSE Step(f[n - 1], n)]
<1>1. k \in Nat /\ DOMAIN x.charges = 1..k /\ W \in SUBSET (1..k)
    BY ChargesGiven
<1>2. \A i \in 1..k : cur(i) \in Int
    BY <1>1 DEF IsAccount
<1>. HIDE DEF k, W, cur
<1>3. turn \in [1..k -> [S -> S]] /\ None \in S
    BY <1>2
<1>. HIDE DEF Step
<1>4. PICK g : Turned(k, S, None, turn, g)
    <2>. HIDE DEF turn, S
    <2>. QED  BY <1>1, <1>3, Turns
<1>5. \A i \in 1..k : g[i - 1] \in S /\ g[i] = Step(g[i - 1], i)
    <2>1. \A i \in 1..k : i - 1 \in 0..k
        BY <1>1
    <2>. HIDE DEF S
    <2>. QED  BY <1>4, <2>1 DEF Turned
<1>6. g = Body(g)
    <2>1. \A n \in 0..k : n = 0 \/ n \in 1..k
        BY <1>1
    <2>. HIDE DEF S
    <2>. QED  BY <1>4, <1>5, <2>1 DEF Turned
<1>. DEFINE f == CHOOSE h : h = Body(h)
<1>7. f = Body(f)
    <2>. HIDE DEF Body
    <2>. QED  BY <1>6, Zenon
<1>8. A!MostCommonCurrency(x) = f[k]
    BY Zenon DEF A!MostCommonCurrency, k, Step, W, cur
<1>. HIDE DEF f
<1>9. f[0] = None /\ \A n \in 1..k : f[n] = Step(f[n - 1], n)
    BY <1>1, <1>7
<1>. HIDE DEF Body, turn
<1>. DEFINE Good(b, n) == /\ (\A i \in 1..n : i \notin W) => b = None
                          /\ (\E i \in 1..n : i \in W) => /\ \E i \in 1..n : i \in W /\ b = cur(i)
                                                        /\ \A i \in 1..n : i \in W => ~A!Better(x, cur(i), b)
            G == {n \in Nat : n <= k => Good(f[n], n)}
<1>10. 0 \in G /\ G \in SUBSET Nat
    BY <1>9
<1>11. ASSUME NEW n \in G  PROVE n + 1 \in G
    <2>0. n \in Nat /\ n + 1 \in Nat
        BY <1>11
    <2>. SUFFICES ASSUME n + 1 <= k  PROVE Good(f[n + 1], n + 1)
        BY <2>0
    <2>1. n + 1 \in 1..k /\ (n + 1) - 1 = n /\ Good(f[n], n) /\ 1..n \subseteq 1..k
        BY <1>1, <1>11
    <2>. DEFINE b == f[n]
                c == f[n + 1]
                e == cur(n + 1)
    <2>2. c = IF n + 1 \in W /\ A!Better(x, e, b) THEN e ELSE b
        BY <1>9, <2>1 DEF Step
    <2>3. Good(b, n) /\ e \in Int
        BY <1>2, <2>1
    <2>4. \A i \in 1..(n + 1) : i \in 1..n \/ i = n + 1
        BY <2>0
    <2>5. n + 1 \in 1..(n + 1) /\ \A i \in 1..n : i \in 1..(n + 1)
        BY <2>0
    <2>6. \A i \in 1..n : cur(i) \in Int
        BY <1>2, <2>1
    <2>. SUFFICES Good(c, n + 1)
        OBVIOUS
    <2>. HIDE DEF b, c, e
    <2>7. CASE \A i \in 1..n : i \notin W
        <3>1. b = None /\ A!Better(x, e, b) /\ ~A!Better(x, e, e)
            BY <2>3, <2>7, BetterOrders
        <3>2. CASE n + 1 \in W
            <4>1. c = e
                BY <2>2, <3>1, <3>2
            <4>. QED  BY <2>4, <2>5, <2>7, <3>1, <3>2, <4>1 DEF e
        <3>3. CASE n + 1 \notin W
            <4>1. c = b
                BY <2>2, <3>3
            <4>. QED  BY <2>4, <2>7, <3>1, <3>3, <4>1
        <3>. QED  BY <3>2, <3>3
    <2>8. CASE \E i \in 1..n : i \in W
        <3>1. (\E i \in 1..n : i \in W /\ b = cur(i)) /\ \A i \in 1..n : i \in W => ~A!Better(x, cur(i), b)
            BY <2>3, <2>8
        <3>2. b \in Int
            BY <2>6, <3>1
        <3>3. CASE n + 1 \in W /\ A!Better(x, e, b)
            <4>1. c = e
                BY <2>2, <3>3
            <4>2. ASSUME NEW i \in 1..n, i \in W  PROVE ~A!Better(x, cur(i), e)
                BY <2>3, <2>6, <3>1, <3>2, <3>3, <4>2, BetterOrders
            <4>3. ~A!Better(x, e, e)
                BY <2>3, BetterOrders
            <4>. QED  BY <2>4, <2>5, <3>3, <4>1, <4>2, <4>3 DEF e
        <3>4. CASE ~(n + 1 \in W /\ A!Better(x, e, b))
            <4>1. c = b
                BY <2>2, <3>4
            <4>2. ASSUME NEW i \in 1..(n + 1), i \in W  PROVE ~A!Better(x, cur(i), c)
                BY <2>4, <3>1, <3>4, <4>1, <4>2 DEF e
            <4>3. \E i \in 1..(n + 1) : i \in W /\ c = cur(i)
                BY <2>5, <3>1, <4>1
            <4>. QED  BY <4>2, <4>3
        <3>. QED  BY <3>3, <3>4
    <2>. QED  BY <2>7, <2>8
<1>12. Good(f[k], k)
    <2>1. k \in G
        <3>. HIDE DEF G
        <3>. QED  BY <1>1, <1>10, <1>11, Induction
    <2>. HIDE DEF Good
    <2>. QED  BY <1>1, <2>1
<1>. DEFINE m == A!MostCommonCurrency(x)
<1>13. Good(m, k)
    <2>. HIDE DEF Good
    <2>. QED  BY <1>8, <1>12
<1>. HIDE DEF m
<1>14. Heard(x) = {cur(i) : i \in W}
    BY DEF Heard, W, cur
<1>15. \A i \in W : i \in 1..k
    BY <1>1
<1>16. Best(x, m)
    BY <1>13, <1>14, <1>15 DEF Best
<1>. QED  BY <1>2, <1>14, <1>15, <1>16 DEF m

\* The account with its charges in the opposite order.
Reversed(x) == [x EXCEPT !.charges = A!Reverse(@)]

LEMMA ReversedHears ==
    ASSUME NEW x, IsAccount(x)
    PROVE  /\ IsAccount(Reversed(x)) /\ Reversed(x).currency = x.currency
           /\ Heard(Reversed(x)) = Heard(x)
           /\ \A cur : A!Count(Reversed(x), cur) = A!Count(x, cur)
<1>. DEFINE y == Reversed(x)
            k == Len(x.charges)
            back(i) == k + 1 - i
<1>1. k \in Nat /\ DOMAIN x.charges = 1..k /\ A!InWindow(x) \in SUBSET (1..k) /\ IsFiniteSet(A!InWindow(x))
    BY ChargesGiven
<1>2. A!Reverse(x.charges) = [i \in 1..k |-> x.charges[back(i)]]
    <2>1. A!Reverse(x.charges) = [i \in 1..k |-> x.charges[(k - i) + 1]]
        BY DEF A!Reverse
    <2>2. \A i \in 1..k : (k - i) + 1 = back(i)
        BY <1>1
    <2>. QED  BY <2>1, <2>2
<1>. DEFINE r == [i \in 1..k |-> x.charges[back(i)]]
<1>3. y = [x EXCEPT !.charges = r]
    BY <1>2 DEF Reversed
<1>4. \A i \in 1..k : back(i) \in 1..k /\ back(back(i)) = i
    BY <1>1
<1>. HIDE DEF k, back
<1>5. DOMAIN r = 1..k /\ \A i \in 1..k : r[i] = x.charges[back(i)]
    OBVIOUS
<1>6. IsSeq(r) /\ Len(r) = k
    <2>1. r \in Seq({r[i] : i \in 1..k}) /\ Len(r) = k
        BY <1>1
    <2>. QED  BY <1>5, <2>1 DEF IsSeq
<1>. HIDE DEF r
<1>7. /\ y.charges = r /\ y.snapshots = x.snapshots /\ y.days = x.days /\ y.currency = x.currency
      /\ y.firstChargeAt = x.firstChargeAt /\ y.balance = x.balance /\ y.monthly = x.monthly /\ DOMAIN y = DOMAIN x
    BY <1>3 DEF IsAccount
<1>. HIDE DEF y
<1>8. IsAccount(y)
    <2>1. \A c \in DOMAIN r : r[c].at \in Int /\ r[c].amount \in Int /\ r[c].currency \in Int
        BY <1>1, <1>4, <1>5 DEF IsAccount
    <2>. QED  BY <1>6, <1>7, <2>1 DEF IsAccount
<1>9. \A i \in 1..k : i \in A!InWindow(y) <=> back(i) \in A!InWindow(x)
    BY <1>1, <1>4, <1>5, <1>7 DEF A!InWindow
<1>10. A!InWindow(y) \in SUBSET (1..k)
    BY <1>5, <1>7 DEF A!InWindow
<1>11. ASSUME NEW cur  PROVE A!Count(y, cur) = A!Count(x, cur)
    <2>. DEFINE C == {c \in A!InWindow(x) : x.charges[c].currency = cur}
                D == {c \in A!InWindow(y) : y.charges[c].currency = cur}
                h == [c \in D |-> back(c)]
    <2>1. \A i \in 1..k : i \in D <=> back(i) \in C
        BY <1>4, <1>5, <1>7, <1>9
    <2>2. C \in SUBSET (1..k) /\ D \in SUBSET (1..k)
        BY <1>1, <1>10
    <2>3. IsFiniteSet(C)
        BY <1>1, FS_Subset
    <2>4. A!Count(x, cur) = Cardinality(C) /\ A!Count(y, cur) = Cardinality(D)
        BY <1>8, ChargesGiven
    <2>. HIDE DEF C, D
    <2>5. h \in Bijection(D, C)
        <3>1. \A i \in D : back(i) \in C /\ i \in 1..k /\ back(back(i)) = i
            BY <1>4, <2>1, <2>2
        <3>2. \A c \in C : back(c) \in D /\ back(back(c)) = c
            BY <1>4, <2>1, <2>2
        <3>3. h \in [D -> C]
            BY <3>1
        <3>4. \A i, j \in D : h[i] = h[j] => i = j
            BY <3>1
        <3>5. \A c \in C : \E i \in D : h[i] = c
            BY <3>2
        <3>. HIDE DEF h
        <3>. QED  BY <3>3, <3>4, <3>5 DEF Bijection, Injection, Surjection, IsInjective
    <2>6. IsFiniteSet(D)
        <3>1. IsFiniteSet(1..k)
            BY <1>1, FS_Interval
        <3>. QED  BY <2>2, <3>1, FS_Subset
    <2>7. Cardinality(D) = Cardinality(C)
        <3>. HIDE DEF h
        <3>1. ExistsBijection(D, C)
            BY <2>5 DEF ExistsBijection
        <3>. QED  BY <2>3, <2>6, <3>1, FS_Bijection
    <2>. QED  BY <2>4, <2>7
<1>12. Heard(y) = Heard(x)
    <2>1. \A c \in A!InWindow(y) : \E d \in A!InWindow(x) : y.charges[c].currency = x.charges[d].currency
        BY <1>5, <1>7, <1>9, <1>10
    <2>2. \A d \in A!InWindow(x) : \E c \in A!InWindow(y) : y.charges[c].currency = x.charges[d].currency
        <3>1. ASSUME NEW d \in A!InWindow(x)
              PROVE  back(d) \in A!InWindow(y) /\ y.charges[back(d)].currency = x.charges[d].currency
            <4>1. d \in 1..k /\ back(d) \in 1..k /\ back(back(d)) = d
                BY <1>1, <1>4
            <4>. QED  BY <1>5, <1>7, <1>9, <4>1
        <3>. QED  BY <3>1
    <2>. QED  BY <2>1, <2>2 DEF Heard
<1>. QED  BY <1>7, <1>8, <1>11, <1>12 DEF y

\* The pick does not depend on the order.
LEMMA PickStable ==
    ASSUME NEW x, IsAccount(x)
    PROVE  A!CurrencyOf(Reversed(x)) = A!CurrencyOf(x)
<1>. DEFINE y == Reversed(x)
            m == A!MostCommonCurrency(x)
            n == A!MostCommonCurrency(y)
<1>1. IsAccount(y) /\ y.currency = x.currency /\ Heard(y) = Heard(x) /\ \A cur : A!Count(y, cur) = A!Count(x, cur)
    BY ReversedHears
<1>. HIDE DEF y
<1>2. Best(x, m) /\ Best(y, n) /\ Heard(x) \in SUBSET Int
    BY <1>1, MostCommonIsBest
<1>3. \A a, b : A!Better(y, a, b) <=> A!Better(x, a, b)
    BY <1>1 DEF A!Better
<1>. HIDE DEF m, n
<1>4. m = n
    <2>1. CASE Heard(x) = {}
        BY <1>1, <1>2, <2>1 DEF Best
    <2>2. CASE Heard(x) # {}
        <3>1. m \in Heard(x) /\ n \in Heard(x) /\ ~A!Better(x, n, m) /\ ~A!Better(x, m, n) /\ m \in Int /\ n \in Int
            BY <1>1, <1>2, <1>3, <2>2 DEF Best
        <3>. QED  BY <3>1, BetterOrders
    <2>. QED  BY <2>1, <2>2
<1>. QED  BY <1>1, <1>4 DEF A!CurrencyOf, m, n, y

-----------------------------------------------------------------------------
(* Spend from charges.                                                     *)

\* Days known without a gap; none is marked estimated.
Gapless(spend) ==
    \A i, j, k \in DOMAIN spend :
        i < j /\ j < k /\ {i, k} \subseteq A!Known(spend) => j \in A!Known(spend)

\* The day the charges begin.
LEMMA EarliestFound ==
    ASSUME NEW x, IsAccount(x), A!Own(x) # {},
           NEW first, first = A!Min({x.charges[c].at : c \in A!Own(x)} \cup ({x.firstChargeAt} \ {None}))
    PROVE  first \in Int /\ \A c \in A!Own(x) : first <= x.charges[c].at
<1>. DEFINE ats == {x.charges[c].at : c \in A!Own(x)}
            f == {x.firstChargeAt} \ {None}
            T == ats \cup f
<1>1. ats \in SUBSET Nat /\ ats # {} /\ f \in SUBSET Int /\ \A m, n \in f : m = n
    BY DEF IsAccount, A!Own, A!InWindow
<1>. HIDE DEF ats, f
<1>2. \E d \in T : \A e \in T : d <= e
    <2>1. PICK d \in ats : \A e \in ats : e >= d
        BY <1>1, LeastExists
    <2>2. CASE \A m \in f : d <= m
        BY <1>1, <2>1, <2>2
    <2>3. CASE \E m \in f : ~(d <= m)
        BY <1>1, <2>1, <2>3
    <2>. QED  BY <2>2, <2>3
<1>3. A!Min(T) = CHOOSE d \in T : \A e \in T : d <= e
    BY Zenon DEF A!Min
<1>4. A!Min(T) \in T /\ \A e \in T : A!Min(T) <= e
    BY <1>2, <1>3, Zenon
<1>5. first = A!Min(T)
    BY Zenon DEF ats, f
<1>6. \A c \in A!Own(x) : x.charges[c].at \in T
    BY DEF ats
<1>7. T \in SUBSET Int
    BY <1>1
<1>. HIDE DEF T
<1>. QED  BY <1>4, <1>5, <1>6, <1>7

\* Charges in the window are spread over its days: every charge is on one of them.
LEMMA ChargesConserved ==
    ASSUME NEW x, IsAccount(x), A!Own(x) # {}
    PROVE  LET spend == A!FromCharges(x)
           IN  /\ A!SumDays(x.days, spend) =
                    A!Unit * A!Added([c \in DOMAIN x.charges |-> IF c \in A!Own(x) THEN x.charges[c].amount ELSE 0])
               /\ Gapless(spend)
<1>. DEFINE d == x.days
            k == Len(x.charges)
            Own == A!Own(x)
            at(c) == x.charges[c].at
            amt(c) == x.charges[c].amount
            first == A!Min({x.charges[c].at : c \in A!Own(x)} \cup ({x.firstChargeAt} \ {None}))
            firstIdx == A!Later(0, first \div A!DayTicks)
            spend == A!FromCharges(x)
            F == [i \in 1..d |-> [c \in 1..k |-> IF c \in Own /\ at(c) \div 2 = i - 1 THEN amt(c) * 420 ELSE 0]]
            row(i) == [c \in 1..k |-> IF c \in Own /\ at(c) \div 2 = i - 1 THEN amt(c) * 420 ELSE 0]
            column(c) == [i \in 1..d |-> F[i][c]]
            v == [c \in 1..k |-> IF c \in Own THEN amt(c) ELSE 0]
            w == [c \in 1..k |-> A!Added(column(c))]
<1>1. d \in Nat /\ k \in Nat /\ DOMAIN x.charges = 1..k
    BY ChargesGiven DEF IsAccount
<1>2. \A c \in 1..k : at(c) \in Int /\ amt(c) \in Int
    BY <1>1 DEF IsAccount
<1>3. Own \in SUBSET (1..k) /\ \A c \in Own : at(c) >= 0 /\ at(c) < d * 2
    BY <1>1 DEF A!Own, A!InWindow, A!DayTicks
<1>4. first \in Int /\ \A c \in Own : first <= at(c)
    <2>. HIDE DEF first
    <2>. QED  BY EarliestFound DEF first
<1>5. spend = [i \in 0..(d - 1) |->
                 [amount |-> IF i < firstIdx THEN None
                             ELSE A!Added([c \in DOMAIN x.charges |->
                                 IF c \in {e \in Own : x.charges[e].at \div A!DayTicks = i} THEN x.charges[c].amount * A!Unit ELSE 0]),
                  estimated |-> FALSE]]
    BY Zenon DEF A!FromCharges
<1>. HIDE DEF spend, d, k, Own, first
<1>6. firstIdx \in Int /\ \A c \in Own : firstIdx <= at(c) \div 2
    BY <1>2, <1>3, <1>4 DEF A!Later, A!DayTicks
<1>. HIDE DEF firstIdx
<1>7. \A i \in 1..d : row(i) \in [1..k -> Int] /\ F[i] = row(i)
    BY <1>2
<1>8. ASSUME NEW i \in 1..d
      PROVE  /\ i - 1 \in DOMAIN spend
             /\ spend[i - 1].amount = IF i - 1 < firstIdx THEN None ELSE A!Added(row(i))
    <2>1. i - 1 \in 0..(d - 1)
        BY <1>1
    <2>2. [c \in DOMAIN x.charges |->
              IF c \in {e \in Own : x.charges[e].at \div A!DayTicks = i - 1} THEN x.charges[c].amount * A!Unit ELSE 0]
          = row(i)
        BY <1>1 DEF A!DayTicks, A!Unit
    <2>. HIDE DEF row
    <2>. QED  BY <1>5, <2>1, <2>2
<1>9. \A i \in 1..d : A!Added(row(i)) \in Int
    <2>. HIDE DEF row
    <2>. QED  BY <1>1, <1>7, AddedSteps
<1>10. \A i \in 0..(d - 1) : i \in A!Known(spend) <=> i >= firstIdx
    <2>. SUFFICES ASSUME NEW i \in 0..(d - 1)  PROVE i \in A!Known(spend) <=> i >= firstIdx
        OBVIOUS
    <2>1. i + 1 \in 1..d /\ (i + 1) - 1 = i
        BY <1>1
    <2>. HIDE DEF row
    <2>2. i \in DOMAIN spend /\ spend[i].amount = (IF i < firstIdx THEN None ELSE A!Added(row(i + 1))) /\ A!Added(row(i + 1)) \in Int
        BY <1>8, <1>9, <2>1
    <2>. QED  BY <1>1, <1>6, <2>2, NoneAssumption DEF A!Known
<1>11. DOMAIN spend = 0..(d - 1)
    BY <1>5
<1>12. Gapless(spend)
    BY <1>1, <1>6, <1>10, <1>11 DEF Gapless
<1>13. A!SumDays(d, spend) = A!Added([i \in 1..d |-> A!Added(F[i])])
    <2>1. ASSUME NEW i \in 1..d
          PROVE  (IF i - 1 \in A!Known(spend) THEN spend[i - 1].amount ELSE 0) = A!Added(F[i])
        <3>1. i - 1 \in 0..(d - 1)
            BY <1>1
        <3>2. CASE i - 1 >= firstIdx
            <4>. HIDE DEF row, F
            <4>. QED  BY <1>1, <1>6, <1>7, <1>8, <1>10, <3>1, <3>2
        <3>3. CASE ~(i - 1 >= firstIdx)
            <4>1. \A c \in Own : at(c) \div 2 # i - 1
                BY <1>1, <1>6, <1>2, <1>3, <3>3
            <4>2. row(i) \in [1..k -> Int] /\ \A c \in 1..k : row(i)[c] = 0
                BY <1>7, <4>1
            <4>. HIDE DEF row, F
            <4>3. A!Added(row(i)) = 0
                BY <1>1, <4>2, AddedNothing
            <4>. QED  BY <1>7, <1>10, <3>1, <3>3, <4>3
        <3>. QED  BY <3>2, <3>3
    <2>. HIDE DEF F
    <2>2. [i \in 1..d |-> IF i - 1 \in A!Known(spend) THEN spend[i - 1].amount ELSE 0] = [i \in 1..d |-> A!Added(F[i])]
        BY <2>1
    <2>. QED  BY <2>2, Zenon DEF A!SumDays
<1>14. F \in [1..d -> [1..k -> Int]]
    BY <1>7
<1>15. A!Added([i \in 1..d |-> A!Added(F[i])]) = A!Added(w)
    <2>. HIDE DEF F
    <2>. QED  BY <1>1, <1>14, AddedEitherWay
<1>16. v \in [1..k -> Int]
    BY <1>2
<1>17. ASSUME NEW c \in 1..k  PROVE w[c] = v[c] * A!Unit
    <2>. DEFINE e == column(c)
    <2>1. e \in [1..d -> Int] /\ \A i \in 1..d : e[i] = IF c \in Own /\ at(c) \div 2 = i - 1 THEN amt(c) * 420 ELSE 0
        BY <1>2, <1>7, SMTT(60)
    <2>. HIDE DEF e
    <2>2. CASE c \in Own
        <3>. DEFINE at2 == at(c) \div 2 + 1
        <3>1. at2 \in 1..d /\ at(c) \div 2 \in Int
            BY <1>1, <1>2, <1>3, <2>2
        <3>2. \A i \in 1..d : i # at2 => e[i] = 0
            BY <2>1, <3>1
        <3>3. e[at2] = amt(c) * 420
            BY <2>1, <2>2, <3>1
        <3>. HIDE DEF at2
        <3>4. A!Added(e) = e[at2]
            BY <1>1, <2>1, <3>1, <3>2, AddedOnce, SMTT(60)
        <3>. QED  BY <2>2, <3>3, <3>4 DEF e, A!Unit
    <2>3. CASE c \notin Own
        <3>1. A!Added(e) = 0
            BY <1>1, <2>1, <2>3, AddedNothing
        <3>. QED  BY <2>3, <3>1 DEF e, A!Unit
    <2>. QED  BY <2>2, <2>3
<1>18. w \in [1..k -> Int]
    <2>1. \A c \in 1..k : w[c] \in Int
        <3>. HIDE DEF w
        <3>. QED  BY <1>16, <1>17 DEF A!Unit
    <2>2. w = [c \in 1..k |-> w[c]]
        OBVIOUS
    <2>. HIDE DEF w
    <2>. QED  BY <2>1, <2>2
<1>. HIDE DEF v, w
<1>19. A!Added(w) = A!Unit * A!Added(v)
    BY <1>1, <1>16, <1>17, <1>18, AddedUnits
<1>20. v = [c \in DOMAIN x.charges |-> IF c \in A!Own(x) THEN x.charges[c].amount ELSE 0]
    BY <1>1 DEF v, Own
<1>. HIDE DEF F
<1>21. A!SumDays(d, spend) = A!Unit * A!Added(v)
    BY <1>13, <1>15, <1>19, Zenon
<1>. QED  BY <1>12, <1>20, <1>21, Zenon DEF d, spend

-----------------------------------------------------------------------------
(* Spend from snapshots.                                                   *)

\* Intervals are pairs of neighbours, and take time.
LEMMA IntervalsGiven ==
    ASSUME NEW points, Ordered(points), NEW n \in A!Intervals(points)
    PROVE  /\ n \in 1..Len(points) /\ n - 1 \in 1..Len(points) /\ n >= 2
           /\ points[n].at \in Int /\ points[n - 1].at \in Int
           /\ points[n - 1].at < points[n].at
           /\ points[1].at <= points[n - 1].at /\ points[n].at <= points[Len(points)].at
           /\ A!Length(points, n) = points[n].at - points[n - 1].at /\ A!Length(points, n) \in Nat \ {0}
           /\ A!Decline(points, n) = points[n - 1].balance - points[n].balance /\ A!Decline(points, n) \in Int
<1>1. Len(points) \in Nat /\ n \in 2..Len(points) /\ points[n].at > points[n - 1].at
    BY DEF A!Intervals, Ordered
<1>2. n \in 1..Len(points) /\ n - 1 \in 1..Len(points) /\ 1 \in 1..Len(points) /\ Len(points) \in 1..Len(points)
      /\ n >= 2 /\ 1 <= n - 1 /\ n <= Len(points)
    BY <1>1
<1>3. /\ points[n].at \in Int /\ points[n - 1].at \in Int
      /\ points[n].balance \in Int /\ points[n - 1].balance \in Int
    BY <1>2 DEF Ordered
<1>4. points[1].at <= points[n - 1].at /\ points[n].at <= points[Len(points)].at
    BY <1>2 DEF Ordered
<1>. QED  BY <1>1, <1>2, <1>3, <1>4, SMTT(60) DEF A!Length, A!Decline

\* A burn is none, or something per at least a day.
LEMMA BurnGiven ==
    ASSUME NEW points, Ordered(points)
    PROVE  LET burn == A!Burn(points)
           IN  \/ burn = A!NoBurn
               \/ burn # A!NoBurn /\ burn.spent \in Nat \ {0} /\ burn.span \in Nat \ {0}
<1>. DEFINE k == Len(points)
            falls == {n \in A!Intervals(points) : A!Decline(points, n) >= 0}
            u == [n \in 1..k |-> IF n \in falls THEN A!Decline(points, n) ELSE 0]
            v == [n \in 1..k |-> IF n \in falls THEN A!Length(points, n) ELSE 0]
            spent == A!Added(u)
            span == A!Added(v)
<1>1. k \in Nat
    BY DEF Ordered
<1>2. \A n \in falls : A!Decline(points, n) \in Int /\ A!Length(points, n) \in Int
    BY IntervalsGiven
<1>. HIDE DEF falls
<1>3. u \in [1..k -> Int] /\ v \in [1..k -> Int]
    BY <1>2
<1>. HIDE DEF u, v, k
<1>4. spent \in Int /\ span \in Int
    BY <1>1, <1>3, AddedSteps
<1>5. A!Burn(points) = IF k < 2 \/ span < A!DayTicks \/ spent <= 0 THEN A!NoBurn ELSE [spent |-> spent, span |-> span]
    BY Zenon DEF A!Burn, u, v, k, falls
<1>. HIDE DEF spent, span
<1>6. CASE k < 2 \/ span < A!DayTicks \/ spent <= 0
    BY <1>5, <1>6
<1>7. CASE ~(k < 2 \/ span < A!DayTicks \/ spent <= 0)
    <2>1. A!Burn(points) = [spent |-> spent, span |-> span]
        BY <1>5, <1>7
    <2>2. spent \in Nat \ {0} /\ span \in Nat \ {0}
        BY <1>4, <1>7 DEF A!DayTicks
    <2>3. A!NoBurn.spent = 0
        BY DEF A!NoBurn
    <2>. QED  BY <2>1, <2>2, <2>3
<1>. QED  BY <1>6, <1>7

\* Amounts are numbers.
LEMMA SharesGiven ==
    ASSUME NEW points, Ordered(points), NEW days \in Nat, NEW i \in Int, NEW n \in A!Intervals(points)
    PROVE  /\ A!Overlap(days, points, n, i) \in Int /\ A!Spent(points, n) \in Int
           /\ A!Share(days, points, n, i) \in Int
<1>1. /\ points[n].at \in Int /\ points[n - 1].at \in Int /\ A!Length(points, n) \in Nat \ {0}
      /\ A!Decline(points, n) \in Int
    BY IntervalsGiven
<1>2. A!Overlap(days, points, n, i) \in Int
    BY <1>1 DEF A!Overlap, A!Earlier, A!Later, A!DayTicks
<1>3. A!Spent(points, n) \in Int
    <2>1. CASE A!Decline(points, n) >= 0
        BY <1>1, <2>1 DEF A!Spent, A!Unit
    <2>2. CASE ~(A!Decline(points, n) >= 0) /\ A!Burn(points) = A!NoBurn
        BY <2>2 DEF A!Spent
    <2>3. CASE ~(A!Decline(points, n) >= 0) /\ A!Burn(points) # A!NoBurn
        <3>. DEFINE a == A!Burn(points).spent * A!Length(points, n) * A!Unit
                    b == A!Burn(points).span
        <3>1. A!Burn(points).spent \in Nat \ {0} /\ b \in Nat \ {0}
            BY <2>3, BurnGiven
        <3>2. a \in Int
            BY <1>1, <3>1 DEF A!Unit
        <3>3. A!Spent(points, n) = a \div b
            BY <2>3 DEF A!Spent
        <3>. HIDE DEF a, b
        <3>. QED  BY <3>1, <3>2, <3>3, DivMod
    <2>. QED  BY <2>1, <2>2, <2>3
<1>4. A!Spent(points, n) * A!Overlap(days, points, n, i) \in Int
    BY <1>2, <1>3
<1>5. A!Share(days, points, n, i) \in Int
    BY <1>1, <1>4, DivMod DEF A!Share
<1>. QED  BY <1>2, <1>3, <1>5

\* The days an interval falls on are covered.
LEMMA HitsAreCovered ==
    ASSUME NEW points, Ordered(points), NEW days \in Nat, NEW i \in 0..(days - 1), NEW n \in A!Intervals(points),
           A!Overlap(days, points, n, i) > 0
    PROVE  /\ A!Covered(days, points, i)
           /\ points[n - 1].at < (i + 1) * A!DayTicks /\ points[n].at > i * A!DayTicks
<1>1. /\ points[n].at \in Int /\ points[n - 1].at \in Int /\ points[n - 1].at < points[n].at
      /\ points[1].at <= points[n - 1].at /\ points[n].at <= points[Len(points)].at
    BY IntervalsGiven
<1>2. points[1].at \in Int /\ points[Len(points)].at \in Int
    <2>1. n \in 1..Len(points) /\ Len(points) \in Nat
        BY IntervalsGiven DEF Ordered
    <2>2. 1 \in 1..Len(points) /\ Len(points) \in 1..Len(points)
        BY <2>1
    <2>. QED  BY <2>2 DEF Ordered
<1>. DEFINE p == points[n - 1].at
            q == points[n].at
            a == points[1].at
            b == points[Len(points)].at
<1>. HIDE DEF p, q, a, b
<1>3. p \in Int /\ q \in Int /\ a \in Int /\ b \in Int /\ p < q /\ a <= p /\ q <= b
    BY <1>1, <1>2 DEF p, q, a, b
<1>4. A!Earlier(A!Earlier(q, days * 2), (i + 1) * 2) - A!Later(A!Later(p, 0), i * 2) > 0
    BY DEF A!Overlap, A!DayTicks, p, q
<1>5. p < (i + 1) * 2 /\ q > i * 2 /\ i * 2 < A!Earlier(days * 2, b) /\ (i + 1) * 2 > A!Later(0, a)
    BY <1>3, <1>4 DEF A!Earlier, A!Later
<1>. QED  BY <1>5 DEF A!Covered, A!CoverStart, A!CoverEnd, A!DayTicks, p, q, a, b

\* What is known of the days from snapshots: the days they cover.
LEMMA SnapshotDays ==
    ASSUME NEW points, Ordered(points), NEW days \in Nat
    PROVE  LET spend == A!FromSnapshots(days, points)
               amounts(i) == [n \in 1..Len(points) |->
                                IF n \in A!Hits(days, points, i) THEN A!Share(days, points, n, i) ELSE 0]
           IN  /\ DOMAIN spend = 0..(days - 1)
               /\ \A i \in 0..(days - 1) :
                    /\ amounts(i) \in [1..Len(points) -> Int]
                    /\ i \in A!Known(spend) <=> A!Covered(days, points, i)
                    /\ A!Covered(days, points, i) => spend[i].amount = A!Added(amounts(i))
                    /\ spend[i].estimated => \E n \in A!Hits(days, points, i) : A!Decline(points, n) < 0
<1>. DEFINE spend == A!FromSnapshots(days, points)
            amounts(i) == [n \in 1..Len(points) |->
                             IF n \in A!Hits(days, points, i) THEN A!Share(days, points, n, i) ELSE 0]
            estimated(i) == \E n \in A!Hits(days, points, i) : A!Decline(points, n) < 0
<1>1. spend = [i \in 0..(days - 1) |-> IF A!Covered(days, points, i)
                                       THEN [amount |-> A!Added(amounts(i)), estimated |-> estimated(i)]
                                       ELSE [amount |-> None, estimated |-> FALSE]]
    BY Zenon DEF A!FromSnapshots
<1>2. ASSUME NEW i \in 0..(days - 1)  PROVE amounts(i) \in [1..Len(points) -> Int] /\ A!Added(amounts(i)) \in Int
    <2>1. \A n \in A!Hits(days, points, i) : n \in A!Intervals(points)
        BY DEF A!Hits
    <2>2. \A n \in A!Hits(days, points, i) : A!Share(days, points, n, i) \in Int
        BY <2>1, SharesGiven
    <2>3. amounts(i) \in [1..Len(points) -> Int]
        BY <2>2
    <2>4. Len(points) \in Nat
        BY DEF Ordered
    <2>. HIDE DEF amounts
    <2>. QED  BY <2>3, <2>4, AddedSteps
<1>. HIDE DEF spend, amounts, estimated
<1>3. DOMAIN spend = 0..(days - 1)
    BY <1>1
<1>4. ASSUME NEW i \in 0..(days - 1)
      PROVE  /\ i \in A!Known(spend) <=> A!Covered(days, points, i)
             /\ A!Covered(days, points, i) => spend[i].amount = A!Added(amounts(i))
             /\ spend[i].estimated => estimated(i)
    <2>1. CASE A!Covered(days, points, i)
        <3>1. spend[i] = [amount |-> A!Added(amounts(i)), estimated |-> estimated(i)]
            BY <1>1, <2>1
        <3>. DEFINE sum == A!Added(amounts(i))
                    mark == estimated(i)
        <3>2. spend[i].amount = A!Added(amounts(i)) /\ (spend[i].estimated <=> estimated(i))
            <4>1. spend[i] = [amount |-> sum, estimated |-> mark]
                BY <3>1
            <4>. HIDE DEF sum, mark
            <4>2. spend[i].amount = sum /\ spend[i].estimated = mark
                BY <4>1
            <4>. QED  BY <4>2 DEF sum, mark
        <3>. QED  BY <1>2, <1>3, <2>1, <3>2, NoneAssumption DEF A!Known
    <2>2. CASE ~A!Covered(days, points, i)
        <3>1. spend[i] = [amount |-> None, estimated |-> FALSE]
            BY <1>1, <2>2
        <3>. QED  BY <1>3, <2>2, <3>1 DEF A!Known
    <2>. QED  BY <2>1, <2>2
<1>5. \A i \in 0..(days - 1) :
                    /\ amounts(i) \in [1..Len(points) -> Int]
                    /\ i \in A!Known(spend) <=> A!Covered(days, points, i)
                    /\ A!Covered(days, points, i) => spend[i].amount = A!Added(amounts(i))
                    /\ spend[i].estimated => estimated(i)
    BY <1>2, <1>4
<1>. QED  BY <1>3, <1>5, Zenon DEF spend, amounts, estimated

\* No gap between the days known, and a day marked estimated has a top-up on it.
LEMMA SnapshotsMark ==
    ASSUME NEW points, Ordered(points), Len(points) >= 2, NEW days \in Nat
    PROVE  LET spend == A!FromSnapshots(days, points)
           IN  /\ Gapless(spend)
               /\ \A i \in DOMAIN spend : spend[i].estimated =>
                     \E n \in {m \in A!Intervals(points) : A!Decline(points, m) < 0} :
                        points[n - 1].at < (i + 1) * A!DayTicks /\ points[n].at > i * A!DayTicks
<1>. DEFINE spend == A!FromSnapshots(days, points)
            from == A!CoverStart(points)
            to == A!CoverEnd(days, points)
<1>1. /\ DOMAIN spend = 0..(days - 1)
      /\ \A i \in 0..(days - 1) :
            /\ i \in A!Known(spend) <=> A!Covered(days, points, i)
            /\ spend[i].estimated => \E n \in A!Hits(days, points, i) : A!Decline(points, n) < 0
    BY SnapshotDays
<1>. HIDE DEF spend
<1>2. from \in Int /\ to \in Int
    <2>1. points[1].at \in Int /\ points[Len(points)].at \in Int
        BY DEF Ordered
    <2>. QED  BY <2>1 DEF A!CoverStart, A!CoverEnd, A!Earlier, A!Later, A!DayTicks
<1>. HIDE DEF from, to
<1>3. \A i \in 0..(days - 1) : A!Covered(days, points, i) <=> i * 2 < to /\ (i + 1) * 2 > from
    BY DEF A!Covered, A!DayTicks, from, to
<1>4. ASSUME NEW i \in 0..(days - 1), NEW j \in 0..(days - 1), NEW k \in 0..(days - 1),
             i < j, j < k, A!Covered(days, points, i), A!Covered(days, points, k)
      PROVE  A!Covered(days, points, j)
    BY <1>2, <1>3, <1>4
<1>5. Gapless(spend)
    BY <1>1, <1>4 DEF Gapless
<1>6. ASSUME NEW i \in 0..(days - 1), spend[i].estimated
      PROVE  \E n \in {m \in A!Intervals(points) : A!Decline(points, m) < 0} :
                points[n - 1].at < (i + 1) * A!DayTicks /\ points[n].at > i * A!DayTicks
    <2>1. PICK n \in A!Hits(days, points, i) : A!Decline(points, n) < 0
        BY <1>1, <1>6
    <2>2. n \in A!Intervals(points) /\ A!Overlap(days, points, n, i) > 0
        BY DEF A!Hits
    <2>3. points[n - 1].at < (i + 1) * A!DayTicks /\ points[n].at > i * A!DayTicks
        BY <2>2, HitsAreCovered
    <2>. QED  BY <2>1, <2>2, <2>3
<1>. QED  BY <1>1, <1>5, <1>6 DEF spend

\* The part of a time span that is over at the end of a day, times what it cost per
\* tick: what a day adds is what the interval covers of it.
Over(p, q, t) == IF t <= p THEN 0 ELSE IF t >= q THEN q - p ELSE t - p

\* An interval inside the window, spread over its days.
LEMMA IntervalSpread ==
    ASSUME NEW days \in Nat, NEW p \in Int, NEW q \in Int, 0 <= p, p < q, q <= days * 2, NEW cost \in Int,
           NEW v \in [1..days -> Int],
           \A i \in 1..days :
              LET o == A!Earlier(A!Earlier(q, days * 2), i * 2) - A!Later(A!Later(p, 0), (i - 1) * 2)
              IN  v[i] = IF o > 0 THEN cost * o ELSE 0
    PROVE  A!Added(v) = cost * (q - p)
<1>. DEFINE c == [i \in 0..days |-> cost * Over(p, q, 2 * i)]
<1>1. \A i \in 0..days : Over(p, q, 2 * i) \in Int
    BY DEF Over
<1>2. c \in [0..days -> Int]
    BY <1>1
<1>3. c[0] = 0
    BY DEF Over
<1>4. c[days] = cost * (q - p)
    <2>1. Over(p, q, 2 * days) = q - p
        BY DEF Over
    <2>. QED  BY <2>1
<1>5. ASSUME NEW i \in 1..days  PROVE v[i] = c[i] - c[i - 1]
    <2>. DEFINE o == A!Earlier(A!Earlier(q, days * 2), i * 2) - A!Later(A!Later(p, 0), (i - 1) * 2)
                g == IF o > 0 THEN o ELSE 0
                a == Over(p, q, 2 * i)
                b == Over(p, q, 2 * (i - 1))
    <2>1. i \in 0..days /\ i - 1 \in 0..days
        OBVIOUS
    <2>2. g = a - b /\ o \in Int /\ a \in Int /\ b \in Int
        BY <2>1 DEF Over, A!Earlier, A!Later
    <2>3. v[i] = IF o > 0 THEN cost * o ELSE 0
        OBVIOUS
    <2>4. c[i] = cost * a /\ c[i - 1] = cost * b
        BY <2>1
    <2>. HIDE DEF o, a, b, c
    <2>5. v[i] = cost * g
        BY <2>3
    <2>6. cost * (a - b) = cost * a - cost * b
        BY <2>2
    <2>. QED  BY <2>2, <2>4, <2>5, <2>6
<1>. HIDE DEF c
<1>6. A!Added(v) = c[days] - c[0]
    BY <1>2, <1>5, AddedTelescopes
<1>. QED  BY <1>3, <1>4, <1>6

\* The cost of a tick, where no share is rounded.
LEMMA ShareExact ==
    ASSUME NEW u \in Int, NEW l \in Nat \ {0}, NEW o \in Int, A!Unit % l = 0
    PROVE  /\ A!Unit \div l \in Int /\ A!Unit = l * (A!Unit \div l)
           /\ (u * A!Unit * o) \div l = (u * (A!Unit \div l)) * o
<1>. DEFINE e == A!Unit \div l
            z == (u * e) * o
<1>1. A!Unit \in Int
    BY DEF A!Unit
<1>2. e \in Int /\ A!Unit = l * e + 0
    BY <1>1, DivMod
<1>. HIDE DEF e
<1>3. l * e \in Int /\ A!Unit = l * e
    BY <1>2
<1>4. z \in Int
    BY <1>2
<1>5. u * A!Unit * o = l * z
    <2>1. u * (l * e) * o = l * ((u * e) * o)
        BY <1>2, SMTT(30)
    <2>. QED  BY <1>3, <2>1
<1>. HIDE DEF z
<1>6. (l * z) \div l = z
    BY <1>4, SMTT(30)
<1>. QED  BY <1>2, <1>3, <1>5, <1>6 DEF e, z

\* Snapshots inside the window that never rise: the days add up to what the balance
\* fell by.
LEMMA SnapshotsConserved ==
    ASSUME NEW points, Ordered(points), Len(points) >= 2, NEW days \in Nat,
           points[1].at >= 0, points[Len(points)].at <= days * A!DayTicks,
           \A n \in A!Intervals(points) : A!Decline(points, n) >= 0 /\ A!Unit % A!Length(points, n) = 0,
           A!Intervals(points) = 2..Len(points)
    PROVE  A!SumDays(days, A!FromSnapshots(days, points)) = A!Unit * (points[1].balance - points[Len(points)].balance)
<1>. DEFINE spend == A!FromSnapshots(days, points)
            k == Len(points)
            Ints == A!Intervals(points)
            o(n, i) == A!Overlap(days, points, n, i)
            cost(n) == A!Decline(points, n) * (A!Unit \div A!Length(points, n))
            part(n, i) == IF n \in Ints /\ o(n, i) > 0 THEN cost(n) * o(n, i) ELSE 0
            F == [i \in 1..days |-> [n \in 1..k |-> part(n, i - 1)]]
            row(i) == [n \in 1..k |-> IF n \in A!Hits(days, points, i) THEN A!Share(days, points, n, i) ELSE 0]
            column(n) == [i \in 1..days |-> F[i][n]]
            w == [n \in 1..k |-> A!Added(column(n))]
<1>1. k \in Nat /\ k >= 2 /\ Ints = 2..k
    BY DEF Ordered
<1>2. \A i \in 1..days : i - 1 \in 0..(days - 1) /\ i - 1 \in Int
    OBVIOUS
<1>3. ASSUME NEW n \in Ints
      PROVE  /\ A!Decline(points, n) \in Int /\ A!Length(points, n) \in Nat \ {0}
             /\ A!Decline(points, n) >= 0 /\ A!Unit % A!Length(points, n) = 0
             /\ cost(n) \in Int
             /\ A!Spent(points, n) = A!Decline(points, n) * A!Unit
             /\ cost(n) * A!Length(points, n) = A!Unit * A!Decline(points, n)
    <2>. DEFINE u == A!Decline(points, n)
                l == A!Length(points, n)
                e == A!Unit \div l
    <2>1. u \in Int /\ l \in Nat \ {0} /\ u >= 0 /\ A!Unit % l = 0
        BY IntervalsGiven
    <2>2. A!Spent(points, n) = u * A!Unit
        BY <2>1 DEF A!Spent
    <2>. HIDE DEF u, l
    <2>3. e \in Int /\ A!Unit = l * e
        BY <2>1, ShareExact
    <2>. HIDE DEF e
    <2>4. u * e \in Int /\ (u * e) * l = (l * e) * u
        BY <2>1, <2>3, SMTT(30)
    <2>. QED  BY <2>1, <2>2, <2>3, <2>4 DEF u, l, e
<1>4. ASSUME NEW n \in Ints, NEW i \in 1..days
      PROVE  o(n, i - 1) \in Int /\ A!Share(days, points, n, i - 1) = cost(n) * o(n, i - 1) /\ part(n, i - 1) \in Int
    <2>. DEFINE u == A!Decline(points, n)
                l == A!Length(points, n)
                z == o(n, i - 1)
    <2>1. z \in Int
        BY <1>2, SharesGiven
    <2>2. A!Share(days, points, n, i - 1) = (u * A!Unit * z) \div l
        BY <1>3 DEF A!Share
    <2>3. u \in Int /\ l \in Nat \ {0} /\ A!Unit % l = 0 /\ cost(n) \in Int
        BY <1>3
    <2>. HIDE DEF u, l, z
    <2>4. A!Share(days, points, n, i - 1) = (u * (A!Unit \div l)) * z
        BY <2>1, <2>2, <2>3, ShareExact
    <2>5. cost(n) * z \in Int
        BY <2>1, <2>3
    <2>. QED  BY <2>1, <2>4, <2>5 DEF u, l, z
<1>5. \A n \in 1..k : \A i \in 1..days : part(n, i - 1) \in Int
    <2>1. \A n \in 1..k : \A i \in 1..days : n \notin Ints => part(n, i - 1) = 0
        OBVIOUS
    <2>. HIDE DEF part, Ints
    <2>. QED  BY <1>4, <2>1
<1>. HIDE DEF cost, part, spend
<1>6. F \in [1..days -> [1..k -> Int]]
    BY <1>5
<1>7. ASSUME NEW i \in 1..days
      PROVE  (IF i - 1 \in A!Known(spend) THEN spend[i - 1].amount ELSE 0) = A!Added(F[i])
    <2>1. /\ i - 1 \in A!Known(spend) <=> A!Covered(days, points, i - 1)
          /\ A!Covered(days, points, i - 1) => spend[i - 1].amount = A!Added(row(i - 1))
        BY <1>2, SnapshotDays, SMTT(60) DEF spend
    <2>2. F[i] = row(i - 1)
        <3>1. ASSUME NEW n \in 1..k  PROVE part(n, i - 1) = row(i - 1)[n]
            <4>1. n \in A!Hits(days, points, i - 1) <=> n \in Ints /\ o(n, i - 1) > 0
                BY DEF A!Hits
            <4>. HIDE DEF Ints
            <4>. QED  BY <1>4, <4>1 DEF part
        <3>2. F[i] = [n \in 1..k |-> part(n, i - 1)]
            OBVIOUS
        <3>. QED  BY <3>1, <3>2
    <2>3. ASSUME ~A!Covered(days, points, i - 1)  PROVE A!Added(F[i]) = 0
        <3>1. \A n \in Ints : ~(o(n, i - 1) > 0)
            BY <1>2, <2>3, HitsAreCovered
        <3>2. F[i] \in [1..k -> Int] /\ \A n \in 1..k : F[i][n] = 0
            BY <1>6, <3>1 DEF part
        <3>. HIDE DEF F
        <3>. QED  BY <1>1, <3>2, AddedNothing
    <2>. HIDE DEF F, row
    <2>. QED  BY <2>1, <2>2, <2>3
<1>8. A!SumDays(days, spend) = A!Added([i \in 1..days |-> A!Added(F[i])])
    <2>. HIDE DEF F
    <2>1. [i \in 1..days |-> IF i - 1 \in A!Known(spend) THEN spend[i - 1].amount ELSE 0] = [i \in 1..days |-> A!Added(F[i])]
        BY <1>7
    <2>. QED  BY <2>1, Zenon DEF A!SumDays
<1>9. A!Added([i \in 1..days |-> A!Added(F[i])]) = A!Added(w)
    <2>. HIDE DEF F
    <2>. QED  BY <1>1, <1>6, AddedEitherWay
<1>. DEFINE bal(n) == points[n].balance
            c == [n \in 0..k |-> 0 - A!Unit * bal(IF n = 0 THEN 1 ELSE n)]
<1>10. \A n \in 1..k : bal(n) \in Int
    BY DEF Ordered
<1>11. ASSUME NEW n \in 1..k  PROVE w[n] = c[n] - c[n - 1] /\ w[n] \in Int
    <2>. DEFINE e == column(n)
    <2>1. e \in [1..days -> Int] /\ \A i \in 1..days : e[i] = part(n, i - 1)
        BY <1>5
    <2>0. w[n] = A!Added(e)
        OBVIOUS
    <2>. HIDE DEF e, w
    <2>2. CASE n = 1
        <3>1. 1 \notin Ints
            BY <1>1
        <3>2. \A i \in 1..days : e[i] = 0
            BY <2>1, <2>2, <3>1 DEF part
        <3>3. A!Added(e) = 0
            BY <2>1, <3>2, AddedNothing
        <3>4. c[1] = c[0] /\ c[1] \in Int
            <4>1. 1 \in 0..k /\ 0 \in 0..k /\ bal(1) \in Int
                BY <1>1, <1>10
            <4>. HIDE DEF bal
            <4>. QED  BY <4>1 DEF A!Unit
        <3>. HIDE DEF c
        <3>5. n - 1 = 0
            BY <2>2
        <3>. QED  BY <2>0, <2>2, <3>3, <3>4, <3>5
    <2>3. CASE n # 1
        <3>. DEFINE p == points[n - 1].at
                    q == points[n].at
        <3>1. n \in Ints
            BY <1>1, <2>3
        <3>2. /\ p \in Int /\ q \in Int /\ p < q /\ points[1].at <= p /\ q <= points[k].at
              /\ A!Length(points, n) = q - p /\ A!Decline(points, n) = bal(n - 1) - bal(n)
            BY <3>1, IntervalsGiven
        <3>3. points[1].at \in Int /\ points[k].at \in Int
            BY <1>1 DEF Ordered
        <3>4. 0 <= p /\ q <= days * 2
            BY <3>2, <3>3, SMTT(60) DEF A!DayTicks
        <3>5. \A i \in 1..days : o(n, i - 1) = A!Earlier(A!Earlier(q, days * 2), i * 2) - A!Later(A!Later(p, 0), (i - 1) * 2)
            <4>1. \A i \in 1..days : (i - 1) + 1 = i
                OBVIOUS
            <4>. QED  BY <4>1 DEF A!Overlap, A!DayTicks
        <3>6. \A i \in 1..days : e[i] = IF o(n, i - 1) > 0 THEN cost(n) * o(n, i - 1) ELSE 0
            BY <2>1, <3>1 DEF part
        <3>7. cost(n) \in Int /\ cost(n) * A!Length(points, n) = A!Unit * A!Decline(points, n)
            BY <1>3, <3>1
        <3>. DEFINE r == cost(n)
        <3>8. ASSUME NEW i \in 1..days
              PROVE  LET z == A!Earlier(A!Earlier(q, days * 2), i * 2) - A!Later(A!Later(p, 0), (i - 1) * 2)
                     IN  e[i] = IF z > 0 THEN r * z ELSE 0
            <4>. HIDE DEF p, q, o
            <4>. QED  BY <3>5, <3>6
        <3>. HIDE DEF p, q, o, Ints, bal, r
        <3>9. A!Added(e) = A!Unit * (bal(n - 1) - bal(n))
            <4>1. A!Added(e) = r * (q - p)
                BY <2>1, <3>2, <3>4, <3>7, <3>8, IntervalSpread, ZenonT(60) DEF r
            <4>. QED  BY <3>2, <3>7, <4>1 DEF r
        <3>10. bal(n - 1) \in Int /\ bal(n) \in Int /\ n - 1 \in 0..k /\ n \in 0..k /\ n - 1 # 0 /\ n # 0
            BY <1>1, <1>10, <2>3
        <3>11. c[n] = 0 - A!Unit * bal(n) /\ c[n - 1] = 0 - A!Unit * bal(n - 1)
            BY <3>10
        <3>. HIDE DEF c
        <3>12. A!Added(e) = c[n] - c[n - 1] /\ A!Added(e) \in Int
            BY <3>9, <3>10, <3>11, SMTT(60) DEF A!Unit
        <3>. QED  BY <2>0, <3>12
    <2>. QED  BY <2>2, <2>3
<1>12. w \in [1..k -> Int]
    <2>1. w = [n \in 1..k |-> w[n]]
        OBVIOUS
    <2>. HIDE DEF w, c
    <2>. QED  BY <1>11, <2>1
<1>13. c \in [0..k -> Int] /\ c[0] = 0 - A!Unit * bal(1) /\ c[k] = 0 - A!Unit * bal(k) /\ bal(1) \in Int /\ bal(k) \in Int
    BY <1>1, <1>10, SMTT(60) DEF A!Unit
<1>. HIDE DEF w, c, F, k, bal
<1>14. A!Added(w) = c[k] - c[0]
    BY <1>1, <1>11, <1>12, <1>13, AddedTelescopes
<1>15. A!Added(w) = A!Unit * (bal(1) - bal(k))
    BY <1>13, <1>14 DEF A!Unit
<1>16. A!SumDays(days, spend) = A!Unit * (bal(1) - bal(k))
    BY <1>8, <1>9, <1>15, Zenon
<1>. QED  BY <1>16 DEF spend, bal, k

-----------------------------------------------------------------------------
(* How long a balance lasts, and every answer about an account.            *)

\* An account whose burn is none, or something per some time.
LEMMA RunwayBurnGiven ==
    ASSUME NEW x, IsAccount(x), A!RunwayBurn(x) # A!NoBurn
    PROVE  A!RunwayBurn(x).spent \in Nat \ {0} /\ A!RunwayBurn(x).span \in Nat \ {0}
<1>1. Ordered(A!Points(x))
    BY PointsOrdered
<1>2. CASE A!Burn(A!Points(x)) # A!NoBurn
    BY <1>1, <1>2, BurnGiven DEF A!RunwayBurn
<1>3. CASE A!Burn(A!Points(x)) = A!NoBurn
    <2>1. x.monthly \in Int
        BY DEF IsAccount
    <2>2. ~(x.monthly <= 0)
        BY <1>3 DEF A!RunwayBurn
    <2>3. A!RunwayBurn(x) = [spent |-> x.monthly * 24, span |-> 730 * A!DayTicks]
        BY <1>3, <2>2 DEF A!RunwayBurn
    <2>. QED  BY <2>1, <2>2, <2>3 DEF A!DayTicks
<1>. QED  BY <1>2, <1>3

\* A quotient is at most d just when the dividend is below d + 1 times the divisor.
LEMMA QuotientBelow ==
    ASSUME NEW v \in Int, NEW b \in Nat \ {0}, NEW d \in Nat
    PROVE  v \div b \in Int /\ (v \div b <= d <=> v < (d + 1) * b)
<1>. DEFINE y == v \div b
            r == v % b
<1>1. y \in Int /\ r \in 0..(b - 1) /\ v = b * y + r
    BY DivMod
<1>. HIDE DEF y, r
<1>2. b * y \in Int /\ b * (d + 1) \in Int /\ b * (d + 1) = (d + 1) * b /\ b * (y + 1) = b * y + b
    BY <1>1
<1>3. y <= d => b * (y + 1) <= b * (d + 1)
    <2>1. d + 1 \in Int /\ y + 1 \in Int
        BY <1>1
    <2>2. b * (d + 1) < b * (y + 1) <=> d + 1 < y + 1
        BY <2>1, Scaled
    <2>. QED  BY <1>1, <1>2, <2>2
<1>4. ~(y <= d) => b * (d + 1) <= b * y
    <2>1. b * y < b * (d + 1) <=> y < d + 1
        BY <1>1, Scaled
    <2>. QED  BY <1>1, <1>2, <2>1
<1>5. y <= d <=> v < (d + 1) * b
    BY <1>1, <1>2, <1>3, <1>4
<1>. QED  BY <1>1, <1>5 DEF y

\* The balance lasts d days just when d + 1 days of burn are more than it.
LEMMA RunwayAnswers ==
    ASSUME NEW x, IsAccount(x)
    PROVE  A!RunwayWarns(x)
<1>. SUFFICES ASSUME A!RunwayBurn(x) # A!NoBurn, None \notin {x.balance, x.currency}, ~x.isPostpaid, ~x.dated,
                     NEW d \in {3, 7}
              PROVE  (x.balance * A!RunwayBurn(x).span < (d + 1) * A!RunwayBurn(x).spent * A!DayTicks)
                     <=> (A!RunwaySeverity(x) \in {"critical"} \cup (IF d = 7 THEN {"warning"} ELSE {}))
    BY DEF A!RunwayWarns
<1>. DEFINE burn == A!RunwayBurn(x)
            s == burn.spent
            t == burn.span
            b == x.balance
            n == A!DaysOfRunway(b, burn)
<1>1. s \in Nat \ {0} /\ t \in Nat \ {0} /\ b \in Int
    BY RunwayBurnGiven DEF IsAccount
<1>2. A!RunwaySeverity(x) = IF n <= 3 THEN "critical" ELSE IF n <= 7 THEN "warning" ELSE "ok"
    BY DEF A!RunwaySeverity
<1>3. n = IF b <= 0 THEN 0 ELSE (b * t) \div (s * 2)
    BY DEF A!DaysOfRunway, A!DayTicks
<1>. HIDE DEF burn, s, t, b, n
<1>4. n \in Int /\ (n <= d <=> b * t < (d + 1) * s * 2)
    <2>1. b * t \in Int /\ s * 2 \in Nat \ {0} /\ (d + 1) * (s * 2) = (d + 1) * s * 2 /\ (d + 1) * s * 2 > 0
        BY <1>1
    <2>2. CASE b <= 0
        <3>1. t * b <= 0 /\ b * t = t * b
            <4>1. 0 - b \in Int /\ 0 - b >= 0
                BY <1>1, <2>2
            <4>2. t * (0 - b) >= 0
                BY <1>1, <4>1, Signs
            <4>3. t * (0 - b) = 0 - t * b /\ t * b \in Int /\ b * t = t * b
                BY <1>1, SMTT(30)
            <4>. QED  BY <4>2, <4>3
        <3>2. b * t < (d + 1) * s * 2
            BY <1>1, <2>1, <3>1, SMTT(60)
        <3>. QED  BY <1>3, <2>2, <3>2
    <2>3. CASE ~(b <= 0)
        <3>. DEFINE v == b * t
                    e == s * 2
        <3>1. n = v \div e
            BY <1>3, <2>3
        <3>2. v \in Int /\ e \in Nat \ {0} /\ d \in Nat
            BY <2>1
        <3>3. (d + 1) * e = (d + 1) * s * 2
            BY <2>1
        <3>. HIDE DEF v, e
        <3>4. v \div e \in Int /\ (v \div e <= d <=> v < (d + 1) * e)
            BY <3>2, QuotientBelow
        <3>. QED  BY <3>1, <3>3, <3>4 DEF v
    <2>. QED  BY <2>2, <2>3
<1>5. (n <= d) <=> (A!RunwaySeverity(x) \in {"critical"} \cup (IF d = 7 THEN {"warning"} ELSE {}))
    <2>1. CASE d = 3
        BY <1>2, <1>4, <2>1
    <2>2. CASE d = 7
        BY <1>2, <1>4, <2>2
    <2>. QED  BY <2>1, <2>2
<1>. QED  BY <1>4, <1>5 DEF b, s, t, burn, A!DayTicks

\* Every account asked about: daily spend is conserved, known without a gap, marked
\* where it is guessed, and in a currency that does not depend on the order.
LEMMA SpendAnswers ==
    ASSUME NEW x, IsAccount(x)
    PROVE  A!SpendConserved(x)
<1>. DEFINE spend == A!AccountSpend(x)
            points == A!Points(x)
            Ints == A!Intervals(points)
            rises == {n \in Ints : A!Decline(points, n) < 0}
<1>1. x.days \in Nat /\ Ordered(points)
    BY PointsOrdered DEF IsAccount
<1>2. A!CurrencyOf(x) = A!CurrencyOf([x EXCEPT !.charges = A!Reverse(@)])
    BY PickStable DEF Reversed
<1>3. ASSUME A!Own(x) # {}
      PROVE  /\ Gapless(spend)
             /\ A!SumDays(x.days, spend) =
                    A!Unit * A!Added([c \in DOMAIN x.charges |-> IF c \in A!Own(x) THEN x.charges[c].amount ELSE 0])
    <2>1. spend = A!FromCharges(x)
        BY <1>3, Zenon DEF A!AccountSpend
    <2>. HIDE DEF spend
    <2>. QED  BY <1>3, <2>1, ChargesConserved
<1>4. ASSUME A!Own(x) = {}
      PROVE  \/ spend = A!Unknown(x.days)
             \/ Len(points) >= 2 /\ spend = A!FromSnapshots(x.days, points)
    <2>1. Len(points) \in Nat
        BY <1>1 DEF Ordered
    <2>. DEFINE p == A!Points(x)
    <2>2. spend = IF x.isPostpaid \/ Len(p) < 2 \/ A!CoverEnd(x.days, p) <= A!CoverStart(p)
                  THEN A!Unknown(x.days) ELSE A!FromSnapshots(x.days, p)
        BY <1>4, Zenon DEF A!AccountSpend
    <2>. HIDE DEF spend, p
    <2>3. Len(p) < 2 \/ Len(p) >= 2
        BY <2>1 DEF p
    <2>4. spend = A!Unknown(x.days) \/ (Len(p) >= 2 /\ spend = A!FromSnapshots(x.days, p))
        BY <2>2, <2>3, Zenon
    <2>. QED  BY <2>4, Zenon DEF p
<1>. HIDE DEF spend, points
<1>5. ASSUME spend = A!Unknown(x.days)
      PROVE  Gapless(spend) /\ A!Known(spend) = {} /\ \A i \in DOMAIN spend : ~spend[i].estimated
    <2>1. DOMAIN spend = 0..(x.days - 1) /\ \A i \in DOMAIN spend : spend[i] = [amount |-> None, estimated |-> FALSE]
        BY <1>5 DEF A!Unknown
    <2>2. A!Known(spend) = {} /\ \A i \in DOMAIN spend : ~spend[i].estimated
        BY <2>1 DEF A!Known
    <2>. QED  BY <2>2 DEF Gapless
<1>6. ASSUME Len(points) >= 2, spend = A!FromSnapshots(x.days, points)
      PROVE  /\ Gapless(spend)
             /\ \A i \in DOMAIN spend : spend[i].estimated => \E n \in rises :
                   points[n - 1].at < (i + 1) * A!DayTicks /\ points[n].at > i * A!DayTicks
    BY <1>1, <1>6, SnapshotsMark
<1>7. Gapless(spend)
    BY <1>3, <1>4, <1>5, <1>6
<1>8. A!Own(x) = {} => \A i \in DOMAIN spend : spend[i].estimated => \E n \in rises :
            points[n - 1].at < (i + 1) * A!DayTicks /\ points[n].at > i * A!DayTicks
    <2>. HIDE DEF rises
    <2>. QED  BY <1>4, <1>5, <1>6
<1>9. ASSUME A!Own(x) = {}, A!Known(spend) # {}, Len(points) >= 2,
             points[1].at >= 0, points[Len(points)].at <= x.days * A!DayTicks,
             rises = {}, Ints = 2..Len(points), \A n \in Ints : A!Unit % A!Length(points, n) = 0
      PROVE  A!SumDays(x.days, spend) = A!Unit * (points[1].balance - points[Len(points)].balance)
    <2>1. spend = A!FromSnapshots(x.days, points)
        BY <1>4, <1>5, <1>9
    <2>2. \A n \in Ints : A!Decline(points, n) \in Int
        BY <1>1, IntervalsGiven
    <2>3. \A n \in Ints : A!Decline(points, n) >= 0 /\ A!Unit % A!Length(points, n) = 0
        BY <1>9, <2>2
    <2>. QED  BY <1>1, <1>9, <2>1, <2>3, SnapshotsConserved
<1>10. \A i, j, k \in DOMAIN spend : i < j /\ j < k /\ {i, k} \subseteq A!Known(spend) => j \in A!Known(spend)
    BY <1>7, Zenon DEF Gapless
<1>. QED  BY <1>2, <1>3, <1>8, <1>9, <1>10, Zenon DEF A!SpendConserved, spend, points

\* For every question asked of an account: see SpendAnswers, RunwayAnswers.
THEOREM SpendTheorem == MoneySpec => []SpendConserved
<1>1. AskedOK => SpendConserved
    BY SpendAnswers, RunwayAnswers DEF AskedOK, SpendConserved, IsQuestion, Nothing
<1>. QED  BY <1>1, AskedTheorem, PTL
====
