------------------------ MODULE Notifications_proofs ------------------------
(***************************************************************************)
(* Proofs about Notifications, for any day length, throttle, windows, keys *)
(* and number of checks running at once: the timeout of a held check comes *)
(* due when the quiet hours end, and an alert is repeated within the       *)
(* throttle only after a race or a lost record.                            *)
(*                                                                         *)
(* The throttle is an action property.  It follows from SendersPassed,     *)
(* which in turn needs the log to keep up with the deliveries (LogKeepsUp) *)
(* and two checks on one key to be marked (TwoAreARace).                   *)
(***************************************************************************)
EXTENDS Notifications, TLAPS

----------------------------------------------------------------------------
(* Quiet hours: what quiet-hours.ts computes is what a walk through the day, *)
(* minute by minute, finds.                                                  *)

\* The remainder the code takes is one subtraction away.
LEMMA ModDay ==
    ASSUME NEW n \in Nat, n < 2 * DayMinutes
    PROVE  n % DayMinutes = IF n < DayMinutes THEN n ELSE n - DayMinutes
<1>1. CASE n < DayMinutes
    BY <1>1, DayAssumption
<1>2. CASE n >= DayMinutes
    <2>. DEFINE r == n - DayMinutes
    <2>1. r \in 0 .. DayMinutes - 1 /\ n = DayMinutes * 1 + r
        BY <1>2, DayAssumption
    <2>. QED  BY <2>1, <1>2, DayAssumption
<1>. QED  BY <1>1, <1>2, DayAssumption

\* Left, without the remainder.
LEMMA LeftIs ==
    ASSUME NEW w \in Window, NEW cur \in Minutes
    PROVE  Left(w, cur) = IF w.end < cur THEN w.end - cur + DayMinutes ELSE w.end - cur
<1>. DEFINE n == w.end - cur + DayMinutes
<1>1. n \in Nat /\ n < 2 * DayMinutes
    BY DayAssumption DEF Window, Minutes
<1>2. n % DayMinutes = IF n < DayMinutes THEN n ELSE n - DayMinutes
    BY <1>1, ModDay
<1>. QED  BY <1>2, DayAssumption DEF Left, Window, Minutes

\* The test quietHoursRemainingMs makes, with its case for windows that wrap past
\* midnight, holds in exactly the minutes the window consists of.
THEOREM InsideIsInWindow ==
    ASSUME NEW w \in Window, NEW cur \in Minutes
    PROVE  Inside(w, cur) <=> InWindow(w, cur)
<1>. w.start \in Minutes /\ w.end \in Minutes /\ w.on \in BOOLEAN
    BY DEF Window
<1>1. ASSUME Inside(w, cur)
      PROVE  InWindow(w, cur)
    <2>1. CASE cur >= w.start
        <3>1. cur - w.start \in 0 .. Length(w) - 1 /\ cur = Later(w.start, cur - w.start)
            BY <1>1, <2>1, DayAssumption DEF Inside, Length, Later, Minutes
        <3>. QED  BY <1>1, <3>1 DEF Inside, InWindow
    <2>2. CASE cur < w.start
        <3>1. /\ cur - w.start + DayMinutes \in 0 .. Length(w) - 1
              /\ cur = Later(w.start, cur - w.start + DayMinutes)
            BY <1>1, <2>2, DayAssumption DEF Inside, Length, Later, Minutes
        <3>. QED  BY <1>1, <3>1 DEF Inside, InWindow
    <2>. QED  BY <2>1, <2>2 DEF Minutes
<1>2. ASSUME InWindow(w, cur)
      PROVE  Inside(w, cur)
    <2>1. PICK n \in 0 .. Length(w) - 1 : cur = Later(w.start, n)
        BY <1>2 DEF InWindow
    <2>2. w.on
        BY <1>2 DEF InWindow
    <2>. QED  BY <2>1, <2>2, DayAssumption DEF Inside, Length, Later, Minutes
<1>. QED  BY <1>1, <1>2

\* The minutes that are left are at least one and less than a day, lead exactly to
\* the end of the window, which is outside it, and are all inside it.
THEOREM LeftClosesWindow ==
    ASSUME NEW w \in Window, NEW cur \in Minutes, Inside(w, cur)
    PROVE  /\ Left(w, cur) \in 1 .. DayMinutes - 1
           /\ Later(cur, Left(w, cur)) = w.end
           /\ ~Inside(w, w.end)
           /\ \A n \in 0 .. Left(w, cur) - 1 : Inside(w, Later(cur, n))
<1>. w.start \in Minutes /\ w.end \in Minutes /\ w.on \in BOOLEAN
    BY DEF Window
<1>1. Left(w, cur) = IF w.end < cur THEN w.end - cur + DayMinutes ELSE w.end - cur
    BY LeftIs
<1>2. Left(w, cur) \in 1 .. DayMinutes - 1
    BY <1>1, DayAssumption DEF Inside, Minutes
<1>3. Later(cur, Left(w, cur)) = w.end
    BY <1>1, DayAssumption DEF Later, Minutes
<1>4. ~Inside(w, w.end)
    BY DEF Inside, Minutes
<1>5. ASSUME NEW n \in 0 .. Left(w, cur) - 1
      PROVE  Inside(w, Later(cur, n))
    BY <1>1, <1>5, DayAssumption DEF Inside, Later, Minutes
<1>. QED  BY <1>2, <1>3, <1>4, <1>5

\* In milliseconds: inside the window the result is positive at every second and
\* millisecond of the minute, so the check is held, and leads to the very start of
\* the end minute, today or tomorrow: the timeout, armed a second later, goes off there.
THEOREM QuietMsLands ==
    ASSUME NEW w \in Window, NEW cur \in Minutes, Inside(w, cur),
           NEW sec \in 0 .. 59, NEW ms \in 0 .. 999
    PROVE  /\ QuietMs(w, cur, sec, ms) > 0
           /\ cur * 60000 + sec * 1000 + ms + QuietMs(w, cur, sec, ms)
                \in {w.end * 60000, (w.end + DayMinutes) * 60000}
<1>. w.end \in Minutes
    BY DEF Window
<1>1. Left(w, cur) \in 1 .. DayMinutes - 1
    BY LeftClosesWindow
<1>2. Left(w, cur) = IF w.end < cur THEN w.end - cur + DayMinutes ELSE w.end - cur
    BY LeftIs
<1>3. QuietMs(w, cur, sec, ms) = Left(w, cur) * 60000 - sec * 1000 - ms
    BY DEF QuietMs
<1>4. cur * 60000 + sec * 1000 + ms + QuietMs(w, cur, sec, ms) = (cur + Left(w, cur)) * 60000
    BY <1>1, <1>3, DayAssumption DEF Minutes
<1>5. cur + Left(w, cur) \in {w.end, w.end + DayMinutes}
    BY <1>2, DayAssumption DEF Minutes
<1>6. QuietMs(w, cur, sec, ms) > 0
    BY <1>1, <1>3, DayAssumption
<1>. QED  BY <1>4, <1>5, <1>6

----------------------------------------------------------------------------
(* The checks. *)

\* The inductive invariant.
IInv == TypeOK /\ TimerClosesWindow /\ LogKeepsUp /\ TwoAreARace /\ SendersPassed

\* Time passes: the timeout comes nearer by what the clock moves on, ages grow
\* alike.
LEMMA TickStep ==
    ASSUME IInv, Tick
    PROVE  IInv'
<1>1. TypeOK'
    BY DayAssumption, TimesAssumption DEF IInv, TypeOK, Ages, LongAgo, Minutes, UnderWay,
        settings, Tick, Older, Later
<1>2. TimerClosesWindow'
    <2>. SUFFICES ASSUME timer' # NoTimer, ~moved'
                  PROVE  /\ ~InWindow(window, Later(now', timer'))
                         /\ \A n \in 0 .. timer' - 1 : InWindow(window, Later(now', n))
        BY DEF TimerClosesWindow, Tick, settings
    <2>1. timer \in 1 .. DayMinutes - 1 /\ timer' = timer - 1 /\ ~moved
        BY DEF IInv, TypeOK, Tick
    <2>2. \A n \in 0 .. timer - 1 : Later(now', n) = Later(now, n + 1)
        BY <2>1, DayAssumption DEF IInv, TypeOK, Tick, Later, Minutes
    <2>3. /\ ~InWindow(window, Later(now, timer))
          /\ \A n \in 0 .. timer - 1 : InWindow(window, Later(now, n))
        BY <2>1, DayAssumption DEF IInv, TimerClosesWindow, NoTimer
    <2>4. Later(now', timer') = Later(now, timer)
        BY <2>1, <2>2
    <2>. QED  BY <2>1, <2>2, <2>3, <2>4
<1>3. LogKeepsUp'
    BY WindowsAssumption DEF IInv, TypeOK, Ages, LongAgo, At, Tick, Older, LogKeepsUp
<1>4. TwoAreARace'
    BY DEF IInv, Tick, Sending, TwoAreARace
<1>5. SendersPassed'
    BY DEF IInv, At, Tick, Older, SendersPassed
<1>. QED  BY <1>1, <1>2, <1>3, <1>4, <1>5 DEF IInv

\* A check starts; it is not past the quiet hours yet.
LEMMA CronStartsStep ==
    ASSUME IInv, NEW c \in Checks, CronStarts(c)
    PROVE  IInv'
<1>1. TypeOK'
    BY ZenonT(60) DEF IInv, TypeOK, CheckState, UnderWay, settings, history, At, CronStarts, Start,
        Goto
<1>2. TimerClosesWindow'
    BY DEF IInv, settings, history, CronStarts, TimerClosesWindow
<1>3. LogKeepsUp'
    BY DEF IInv, history, At, CronStarts, Start, Goto, LogKeepsUp
<1>4. TwoAreARace'
    BY DEF IInv, history, CronStarts, Start, Goto, Sending, TwoAreARace
<1>5. SendersPassed'
    BY DEF IInv, history, At, CronStarts, Start, Goto, SendersPassed
<1>. QED  BY <1>1, <1>2, <1>3, <1>4, <1>5 DEF IInv

\* The timeout is spent, a check starts.
LEMMA TimerFiresStep ==
    ASSUME IInv, NEW c \in Checks, TimerFires(c)
    PROVE  IInv'
<1>1. TypeOK'
    BY DEF IInv, TypeOK, CheckState, UnderWay, settings, history, At, TimerFires, Start,
        Goto
<1>2. TimerClosesWindow'
    BY DEF IInv, TimerFires, TimerClosesWindow
<1>3. LogKeepsUp'
    BY DEF IInv, history, At, TimerFires, Start, Goto, LogKeepsUp
<1>4. TwoAreARace'
    BY DEF IInv, history, TimerFires, Start, Goto, Sending, TwoAreARace
<1>5. SendersPassed'
    BY DEF IInv, history, At, TimerFires, Start, Goto, SendersPassed
<1>. QED  BY <1>1, <1>2, <1>3, <1>4, <1>5 DEF IInv

\* A check starts; it is not past the quiet hours yet.
LEMMA ManualCheckStep ==
    ASSUME IInv, NEW c \in Checks, ManualCheck(c)
    PROVE  IInv'
<1>1. TypeOK'
    BY DEF IInv, TypeOK, CheckState, UnderWay, settings, history, At, ManualCheck, Start,
        Goto
<1>2. TimerClosesWindow'
    BY DEF IInv, settings, history, ManualCheck, TimerClosesWindow
<1>3. LogKeepsUp'
    BY DEF IInv, history, At, ManualCheck, Start, Goto, LogKeepsUp
<1>4. TwoAreARace'
    BY DEF IInv, history, ManualCheck, Start, Goto, Sending, TwoAreARace
<1>5. SendersPassed'
    BY DEF IInv, history, At, ManualCheck, Start, Goto, SendersPassed
<1>. QED  BY <1>1, <1>2, <1>3, <1>4, <1>5 DEF IInv

\* A check ends, or goes on to the settings.
LEMMA ReadEnabledStep ==
    ASSUME IInv, NEW c \in Checks, ReadEnabled(c)
    PROVE  IInv'
<1>1. TypeOK'
    BY SMTT(60) DEF IInv, TypeOK, CheckState, UnderWay, settings, At, ReadEnabled, Goto, End, Idle
<1>2. TimerClosesWindow'
    BY DEF IInv, settings, ReadEnabled, TimerClosesWindow
<1>3. LogKeepsUp'
    BY DEF IInv, TypeOK, At, ReadEnabled, Goto, End, LogKeepsUp
<1>4. TwoAreARace'
    BY DEF IInv, TypeOK, CheckState, ReadEnabled, Goto, End, Idle, Sending, TwoAreARace
<1>5. SendersPassed'
    BY DEF IInv, TypeOK, CheckState, At, ReadEnabled, Goto, End, Idle, SendersPassed
<1>. QED  BY <1>1, <1>2, <1>3, <1>4, <1>5 DEF IInv

\* A held check arms the timeout for the end of the window (LeftClosesWindow).
LEMMA ReadSettingsStep ==
    ASSUME IInv, NEW c \in Checks, ReadSettings(c)
    PROVE  IInv'
<1>1. TypeOK'
    <2>. window \in Window /\ now \in Minutes
        BY WindowsAssumption DEF IInv, TypeOK
    <2>1. MinutesLeft(window, now) # 0 =>
            /\ Inside(window, now)
            /\ timer' = Left(window, now) /\ moved' = FALSE
            /\ check' = [check EXCEPT ![c] = Idle] /\ overtaken' = overtaken \ {c}
        BY DEF ReadSettings, MinutesLeft, End, DeferUntilQuietEnds
    <2>2. MinutesLeft(window, now) = 0 =>
            /\ UNCHANGED <<timer, moved, overtaken>>
            /\ check' = [check EXCEPT ![c].step = "summary"]
        BY DEF ReadSettings, Goto
    <2>3. CASE MinutesLeft(window, now) # 0
        <3>1. Left(window, now) \in 1 .. DayMinutes - 1
            BY <2>1, <2>3, LeftClosesWindow
        <3>2. check' \in [Checks -> CheckState] /\ overtaken' \subseteq UnderWay'
            BY <2>1, <2>3 DEF IInv, TypeOK, CheckState, Idle, UnderWay
        <3>3. timer' \in 0 .. DayMinutes - 1
            <4>1. timer' = Left(window, now)
                BY <2>1, <2>3
            <4>. QED  BY <3>1, <4>1, DayAssumption
        <3>5. moved' \in BOOLEAN
            BY <2>1, <2>3
        <3>4. UNCHANGED <<now, cronDue, window, enabled, active, log, last, raced>>
            BY DEF ReadSettings, settings
        <3>. QED  BY <3>2, <3>3, <3>4, <3>5 DEF IInv, TypeOK
    <2>4. CASE MinutesLeft(window, now) = 0
        <3>1. check' \in [Checks -> CheckState] /\ overtaken' \subseteq UnderWay'
            BY <2>2, <2>4 DEF IInv, TypeOK, CheckState, UnderWay
        <3>. QED  BY <2>2, <2>4, <3>1 DEF IInv, TypeOK, ReadSettings, settings
    <2>. QED  BY <2>3, <2>4
<1>2. TimerClosesWindow'
    <2>. window \in Window /\ now \in Minutes
        BY WindowsAssumption DEF IInv, TypeOK
    <2>1. MinutesLeft(window, now) # 0 =>
            /\ Inside(window, now)
            /\ timer' = Left(window, now) /\ moved' = FALSE
            /\ check' = [check EXCEPT ![c] = Idle] /\ overtaken' = overtaken \ {c}
        BY DEF ReadSettings, MinutesLeft, End, DeferUntilQuietEnds
    <2>2. MinutesLeft(window, now) = 0 =>
            /\ UNCHANGED <<timer, moved, overtaken>>
            /\ check' = [check EXCEPT ![c].step = "summary"]
        BY DEF ReadSettings, Goto
    <2>3. window' = window /\ now' = now
        BY DEF ReadSettings, settings
    <2>4. CASE MinutesLeft(window, now) # 0
        <3>. DEFINE left == Left(window, now)
        <3>1. /\ left \in 1 .. DayMinutes - 1
              /\ Later(now, left) = window.end
              /\ ~Inside(window, window.end)
              /\ \A n \in 0 .. left - 1 : Inside(window, Later(now, n))
            BY <2>1, <2>4, LeftClosesWindow
        <3>2. window.end \in Minutes /\ \A n \in 0 .. left - 1 : Later(now, n) \in Minutes
            BY <3>1, DayAssumption DEF Window, Minutes, Later
        <3>3. ~InWindow(window, Later(now, left))
            BY <3>1, <3>2, InsideIsInWindow
        <3>4. \A n \in 0 .. left - 1 : InWindow(window, Later(now, n))
            BY <3>1, <3>2, InsideIsInWindow
        <3>. QED  BY <2>1, <2>3, <2>4, <3>3, <3>4 DEF TimerClosesWindow
    <2>5. CASE MinutesLeft(window, now) = 0
        BY <2>2, <2>3, <2>5 DEF IInv, TimerClosesWindow
    <2>. QED  BY <2>4, <2>5
<1>3. LogKeepsUp'
    BY DEF IInv, TypeOK, At, ReadSettings, Goto, End, LogKeepsUp
<1>4. TwoAreARace'
    BY DEF IInv, TypeOK, CheckState, ReadSettings, Goto, End, Idle, Sending, TwoAreARace
<1>5. SendersPassed'
    BY DEF IInv, TypeOK, CheckState, At, ReadSettings, Goto, End, Idle, SendersPassed
<1>. QED  BY <1>1, <1>2, <1>3, <1>4, <1>5 DEF IInv

\* The alerts to look at are those of the summary.
LEMMA ReadSummaryStep ==
    ASSUME IInv, NEW c \in Checks, ReadSummary(c)
    PROVE  IInv'
<1>1. TypeOK'
    <2>1. active \cap SummaryKeys \in SUBSET Keys
        BY DEF IInv, TypeOK
    <2>2. check[c] \in CheckState
        BY DEF IInv, TypeOK
    <2>3. [check[c] EXCEPT !.step = "loop", !.todo = active \cap SummaryKeys] \in CheckState
        BY <2>1, <2>2 DEF CheckState
    <2>4. check' \in [Checks -> CheckState]
        BY <2>3 DEF IInv, TypeOK, ReadSummary
    <2>5. overtaken' \subseteq UnderWay'
        BY DEF IInv, TypeOK, CheckState, UnderWay, At, ReadSummary, history
    <2>. QED  BY <2>4, <2>5 DEF IInv, TypeOK, settings, history, ReadSummary
<1>2. TimerClosesWindow'
    BY DEF IInv, settings, history, ReadSummary, TimerClosesWindow
<1>3. LogKeepsUp'
    BY DEF IInv, TypeOK, history, At, ReadSummary, LogKeepsUp
<1>4. TwoAreARace'
    BY DEF IInv, TypeOK, history, ReadSummary, Sending, TwoAreARace
<1>5. SendersPassed'
    BY DEF IInv, TypeOK, history, At, ReadSummary, SendersPassed
<1>. QED  BY <1>1, <1>2, <1>3, <1>4, <1>5 DEF IInv

\* The sync errors are looked at last.
LEMMA ReadErrorsStep ==
    ASSUME IInv, NEW c \in Checks, ReadErrors(c)
    PROVE  IInv'
<1>1. TypeOK'
    <2>1. check[c] \in CheckState /\ active \cap ErrorKeys \subseteq Keys
        BY DEF IInv, TypeOK
    <2>2. [check[c] EXCEPT !.phase = "errors", !.todo = active \cap ErrorKeys] \in CheckState
        BY <2>1 DEF CheckState
    <2>3. check' \in [Checks -> CheckState] /\ UnderWay' = UnderWay
        BY <2>2 DEF IInv, TypeOK, ReadErrors, UnderWay
    <2>. QED  BY <2>3 DEF IInv, TypeOK, ReadErrors, settings, history
<1>2. TimerClosesWindow'
    BY DEF IInv, settings, history, ReadErrors, TimerClosesWindow
<1>3. LogKeepsUp'
    BY DEF IInv, TypeOK, history, At, ReadErrors, LogKeepsUp
<1>4. TwoAreARace'
    BY DEF IInv, TypeOK, history, ReadErrors, Sending, TwoAreARace
<1>5. SendersPassed'
    BY DEF IInv, TypeOK, history, At, ReadErrors, SendersPassed
<1>. QED  BY <1>1, <1>2, <1>3, <1>4, <1>5 DEF IInv

\* A check that goes on to send found the key long unrecorded; if another is ahead
\* of it, the key is marked.
LEMMA ReadLogStep ==
    ASSUME IInv, NEW c \in Checks, NEW k \in Keys, ReadLog(c, k)
    PROVE  IInv'
<1>1. TypeOK'
    BY SMTT(60) DEF IInv, TypeOK, CheckState, UnderWay, settings, At, ReadLog
<1>2. TimerClosesWindow'
    BY DEF IInv, settings, ReadLog, TimerClosesWindow
<1>3. LogKeepsUp'
    BY DEF IInv, TypeOK, At, ReadLog, LogKeepsUp
<1>4. TwoAreARace'
    BY DEF IInv, TypeOK, CheckState, ReadLog, Sending, TwoAreARace
<1>5. SendersPassed'
    BY DEF IInv, TypeOK, CheckState, At, ReadLog, SendersPassed
<1>. QED  BY <1>1, <1>2, <1>3, <1>4, <1>5 DEF IInv

\* Who else is about to send the same key is in a race with this check.
LEMMA SendStep ==
    ASSUME IInv, NEW c \in Checks, Send(c)
    PROVE  IInv'
<1>1. TypeOK'
    <2>0. [check[c] EXCEPT !.step = "loop", !.key = NoKey] \in CheckState
        BY DEF IInv, TypeOK, CheckState
    <2>1. check' \in [Checks -> CheckState] /\ overtaken' \subseteq UnderWay'
        BY <2>0 DEF IInv, TypeOK, CheckState, UnderWay, At, Send, Goto, history
    <2>2. last' \in [Keys -> Ages]
        BY TimesAssumption DEF IInv, TypeOK, Ages, SendersPassed, At, Send
    <2>. QED  BY <2>1, <2>2 DEF IInv, TypeOK, settings, history, Send
<1>2. TimerClosesWindow'
    BY DEF IInv, settings, Send, TimerClosesWindow
<1>3. LogKeepsUp'
    BY DEF IInv, TypeOK, At, Send, Goto, LogKeepsUp
<1>4. TwoAreARace'
    BY DEF IInv, At, Send, Goto, Sending, TwoAreARace
<1>5. SendersPassed'
    <2>. SUFFICES ASSUME NEW b \in Checks, check'[b].step \in {"send", "record"}
                  PROVE  /\ check'[b].key \in Keys
                         /\ check'[b].step = "send" =>
                                last'[check'[b].key] = LongAgo \/ raced'[check'[b].key]
        BY DEF SendersPassed, At
    <2>1. CASE b = c
        BY <2>1 DEF IInv, TypeOK, CheckState, SendersPassed, At, Send, Goto
    <2>2. CASE b # c
        <3>1. check'[b] = check[b]
            BY <2>2 DEF IInv, TypeOK, Send, Goto
        <3>2. check[b].key = check[c].key => raced[check[c].key]
            BY <2>2, <3>1 DEF IInv, TwoAreARace, SendersPassed, Sending, Send, At
        <3>3. check[b].key # check[c].key => last'[check[b].key] = last[check[b].key]
            BY DEF IInv, TypeOK, Send
        <3>. QED  BY <3>1, <3>2, <3>3 DEF IInv, SendersPassed, Send, At
    <2>. QED  BY <2>1, <2>2
<1>. QED  BY <1>1, <1>2, <1>3, <1>4, <1>5 DEF IInv

\* Nothing is delivered, nothing is recorded.
LEMMA SendFailsStep ==
    ASSUME IInv, NEW c \in Checks, SendFails(c)
    PROVE  IInv'
<1>1. TypeOK'
    <2>0. [check[c] EXCEPT !.step = "loop", !.key = NoKey] \in CheckState
        BY DEF IInv, TypeOK, CheckState
    <2>1. check' \in [Checks -> CheckState] /\ overtaken' \subseteq UnderWay'
        BY <2>0 DEF IInv, TypeOK, CheckState, UnderWay, At, SendFails, Back, history
    <2>2. UNCHANGED <<last, log>>
        BY TimesAssumption DEF IInv, TypeOK, Ages, history, SendFails
    <2>. QED  BY <2>1, <2>2 DEF IInv, TypeOK, settings, history, SendFails
<1>2. TimerClosesWindow'
    BY DEF IInv, settings, history, SendFails, TimerClosesWindow
<1>3. LogKeepsUp'
    BY DEF IInv, TypeOK, history, At, SendFails, Back, LogKeepsUp
<1>4. TwoAreARace'
    BY DEF IInv, TypeOK, history, SendFails, Back, Sending, TwoAreARace
<1>5. SendersPassed'
    BY DEF IInv, TypeOK, history, At, SendFails, Back, SendersPassed
<1>. QED  BY <1>1, <1>2, <1>3, <1>4, <1>5 DEF IInv

\* The log catches up with the delivery.
LEMMA RecordStep ==
    ASSUME IInv, NEW c \in Checks, Record(c)
    PROVE  IInv'
<1>1. TypeOK'
    <2>0. [check[c] EXCEPT !.step = "loop", !.key = NoKey] \in CheckState
        BY DEF IInv, TypeOK, CheckState
    <2>1. check' \in [Checks -> CheckState] /\ overtaken' \subseteq UnderWay'
        BY <2>0 DEF IInv, TypeOK, CheckState, UnderWay, At, Record, Back, history
    <2>2. log' \in [Keys -> Ages]
        BY TimesAssumption DEF IInv, TypeOK, Ages, SendersPassed, At, Record
    <2>. QED  BY <2>1, <2>2 DEF IInv, TypeOK, settings, history, Record
<1>2. TimerClosesWindow'
    BY DEF IInv, settings, history, Record, TimerClosesWindow
<1>3. LogKeepsUp'
    BY DEF IInv, TypeOK, Ages, history, At, Record, Back, LogKeepsUp
<1>4. TwoAreARace'
    BY DEF IInv, TypeOK, history, Record, Back, Sending, TwoAreARace
<1>5. SendersPassed'
    BY DEF IInv, TypeOK, history, At, Record, Back, SendersPassed
<1>. QED  BY <1>1, <1>2, <1>3, <1>4, <1>5 DEF IInv

\* A check ends outside the throttle.
LEMMA FinishStep ==
    ASSUME IInv, NEW c \in Checks, Finish(c)
    PROVE  IInv'
<1>1. TypeOK'
    BY DEF IInv, TypeOK, CheckState, UnderWay, settings, Finish, End, Idle
<1>2. TimerClosesWindow'
    BY DEF IInv, settings, Finish, TimerClosesWindow
<1>3. LogKeepsUp'
    BY DEF IInv, At, Finish, End, LogKeepsUp
<1>4. TwoAreARace'
    BY DEF IInv, Finish, End, Idle, Sending, TwoAreARace
<1>5. SendersPassed'
    BY DEF IInv, At, Finish, End, Idle, SendersPassed
<1>. QED  BY <1>1, <1>2, <1>3, <1>4, <1>5 DEF IInv

\* A delivery that is not recorded is marked.
LEMMA QueryFailsStep ==
    ASSUME IInv, NEW c \in Checks, QueryFails(c)
    PROVE  IInv'
<1>1. TypeOK'
    BY DEF IInv, TypeOK, CheckState, UnderWay, settings, QueryFails, End, Idle
<1>2. TimerClosesWindow'
    BY DEF IInv, settings, QueryFails, TimerClosesWindow
<1>3. LogKeepsUp'
    BY DEF IInv, TypeOK, At, QueryFails, End, Unrecorded, LogKeepsUp
<1>4. TwoAreARace'
    BY DEF IInv, TypeOK, QueryFails, End, Idle, Sending, TwoAreARace
<1>5. SendersPassed'
    BY DEF IInv, TypeOK, At, QueryFails, End, Idle, SendersPassed
<1>. QED  BY <1>1, <1>2, <1>3, <1>4, <1>5 DEF IInv

\* Deliveries that are not recorded are marked; the timeout is gone.
LEMMA CrashStep ==
    ASSUME IInv, Crash
    PROVE  IInv'
<1>1. TypeOK'
    BY DEF IInv, TypeOK, CheckState, settings, Crash, Idle
<1>2. TimerClosesWindow'
    BY DEF IInv, Crash, TimerClosesWindow
<1>3. LogKeepsUp'
    BY DEF IInv, Crash, Unrecorded, LogKeepsUp
<1>4. TwoAreARace'
    BY DEF IInv, Crash, Idle, Sending, TwoAreARace
<1>5. SendersPassed'
    BY DEF IInv, Crash, Idle, SendersPassed
<1>. QED  BY <1>1, <1>2, <1>3, <1>4, <1>5 DEF IInv

\* The timeout no longer belongs to the window.
LEMMA SaveQuietHoursStep ==
    ASSUME IInv, NEW w \in Windows, SaveQuietHours(w)
    PROVE  IInv'
<1>1. TypeOK'
    BY DEF IInv, TypeOK, UnderWay, SaveQuietHours
<1>2. TimerClosesWindow'
    BY DEF IInv, SaveQuietHours, TimerClosesWindow
<1>3. LogKeepsUp'
    BY DEF IInv, At, SaveQuietHours, LogKeepsUp
<1>4. TwoAreARace'
    BY DEF IInv, SaveQuietHours, Sending, TwoAreARace
<1>5. SendersPassed'
    BY DEF IInv, At, SaveQuietHours, SendersPassed
<1>. QED  BY <1>1, <1>2, <1>3, <1>4, <1>5 DEF IInv

\* Switching notifications on or off disturbs no check under way.
LEMMA SaveEnabledStep ==
    ASSUME IInv, SaveEnabled
    PROVE  IInv'
<1>1. TypeOK'
    BY DEF IInv, TypeOK, UnderWay, history, SaveEnabled
<1>2. TimerClosesWindow'
    BY DEF IInv, history, SaveEnabled, TimerClosesWindow
<1>3. LogKeepsUp'
    BY DEF IInv, history, At, SaveEnabled, LogKeepsUp
<1>4. TwoAreARace'
    BY DEF IInv, history, SaveEnabled, Sending, TwoAreARace
<1>5. SendersPassed'
    BY DEF IInv, history, At, SaveEnabled, SendersPassed
<1>. QED  BY <1>1, <1>2, <1>3, <1>4, <1>5 DEF IInv

\* The conditions are read, never remembered.
LEMMA AlertChangesStep ==
    ASSUME IInv, NEW k \in Keys, AlertChanges(k)
    PROVE  IInv'
<1>1. TypeOK'
    BY DEF IInv, TypeOK, UnderWay, history, AlertChanges
<1>2. TimerClosesWindow'
    BY DEF IInv, history, AlertChanges, TimerClosesWindow
<1>3. LogKeepsUp'
    BY DEF IInv, history, At, AlertChanges, LogKeepsUp
<1>4. TwoAreARace'
    BY DEF IInv, history, AlertChanges, Sending, TwoAreARace
<1>5. SendersPassed'
    BY DEF IInv, history, At, AlertChanges, SendersPassed
<1>. QED  BY <1>1, <1>2, <1>3, <1>4, <1>5 DEF IInv

\* No timeout is armed, nothing was sent, no check is running.
LEMMA InitIInv == Init => IInv
<1>. SUFFICES ASSUME Init PROVE IInv
    OBVIOUS
<1>1. TypeOK
    <2>1. Idle \in CheckState
        BY DEF Idle, CheckState
    <2>2. 0 \in Minutes /\ LongAgo \in Ages
        BY DayAssumption, TimesAssumption DEF Minutes, Ages, LongAgo
    <2>. QED  BY <2>1, <2>2 DEF Init, TypeOK
<1>2. TimerClosesWindow
    BY DEF Init, TimerClosesWindow
<1>3. LogKeepsUp /\ TwoAreARace /\ SendersPassed
    BY TimesAssumption DEF Init, LogKeepsUp, TwoAreARace, SendersPassed, Sending, Idle, LongAgo
<1>. QED  BY <1>1, <1>2, <1>3 DEF IInv

\* Every step of every check, the clock and the owner preserves the invariant.
LEMMA NextIInv == IInv /\ [Next]_vars => IInv'
<1>. SUFFICES ASSUME IInv, [Next]_vars PROVE IInv'
    OBVIOUS
<1>1. CASE UNCHANGED vars
    BY <1>1 DEF IInv, TypeOK, TimerClosesWindow, LogKeepsUp, TwoAreARace, SendersPassed,
        Sending, At, UnderWay, vars, settings, history
<1>2. CASE Tick
    BY <1>2, TickStep
<1>3. ASSUME NEW c \in Checks, CronStarts(c) \/ TimerFires(c) \/ ManualCheck(c)
      PROVE  IInv'
    BY <1>3, CronStartsStep, TimerFiresStep, ManualCheckStep
<1>4. ASSUME NEW c \in Checks, CheckStep(c)
      PROVE  IInv'
    BY <1>4, ReadEnabledStep, ReadSettingsStep, ReadSummaryStep, ReadErrorsStep, ReadLogStep,
        RecordStep, FinishStep DEF CheckStep
<1>5. ASSUME NEW c \in Checks, Send(c) \/ SendFails(c) \/ QueryFails(c)
      PROVE  IInv'
    BY <1>5, SendStep, SendFailsStep, QueryFailsStep
<1>6. CASE Crash
    BY <1>6, CrashStep
<1>7. ASSUME NEW w \in Windows, SaveQuietHours(w)
      PROVE  IInv'
    BY <1>7, SaveQuietHoursStep
<1>8. CASE SaveEnabled
    BY <1>8, SaveEnabledStep
<1>9. ASSUME NEW k \in Keys, AlertChanges(k)
      PROVE  IInv'
    BY <1>9, AlertChangesStep
<1>. QED  BY <1>1, <1>2, <1>3, <1>4, <1>5, <1>6, <1>7, <1>8, <1>9 DEF Next

\* The invariant holds in every reachable state.
LEMMA IInvHolds == Spec => []IInv
<1>. QED  BY InitIInv, NextIInv, PTL DEF Spec

\* The settings, the checks and the notification log stay within their types, and an
\* armed timeout is never negative or more than a day away.
THEOREM NotificationsTypes == Spec => []TypeOK
<1>1. IInv => TypeOK
    BY DEF IInv
<1>. QED  BY <1>1, IInvHolds, PTL

\* Whatever the window and the length of the day, the timeout armed by a held check
\* comes due exactly when the quiet hours end, unless they were changed meanwhile.
THEOREM TimerTheorem == Spec => []TimerClosesWindow
<1>1. IInv => TimerClosesWindow
    BY DEF IInv
<1>. QED  BY <1>1, IInvHolds, PTL

\* However many checks run at once: an alert is delivered twice within the throttle
\* only after two checks passed the log on its key at once, or a record was lost.
THEOREM ThrottleTheorem == Spec => ThrottleUnlessRaced
<1>1. IInv /\ [Next]_vars =>
        [\A c \in Checks, k \in Keys : Delivers(c, k) /\ last[k] <= Throttle => raced[k]]_vars
    BY TimesAssumption DEF IInv, SendersPassed, Delivers, At, LongAgo
<1>. QED  BY <1>1, IInvHolds, PTL DEF Spec, ThrottleUnlessRaced

\* Why quiet hours are kept: inside them, every check past the quiet-hours test was
\* under way when they began or were changed.
OvertakenIfLate == InWindow(window, now) => UnderWay \subseteq overtaken

\* A check passes the quiet-hours test only outside the window.
LEMMA PassedOutside ==
    ASSUME IInv, MinutesLeft(window, now) = 0
    PROVE  ~InWindow(window, now)
<1>1. window \in Window /\ now \in Minutes
    BY WindowsAssumption DEF IInv, TypeOK
<1>2. ~Inside(window, now)
    <2>. SUFFICES ASSUME Inside(window, now) PROVE FALSE
        OBVIOUS
    <2>1. Left(window, now) \in 1 .. DayMinutes - 1
        BY <1>1, LeftClosesWindow
    <2>2. MinutesLeft(window, now) = Left(window, now)
        BY DEF MinutesLeft
    <2>. QED  BY <2>1, <2>2, DayAssumption
<1>. QED  BY <1>1, <1>2, InsideIsInWindow

\* Whoever is past the test passed it outside the window; from then on the clock and
\* the owner mark him when they bring the quiet hours about, and he stays marked
\* until he ends.
LEMMA QuietStep ==
    ASSUME IInv, OvertakenIfLate, [Next]_vars
    PROVE  OvertakenIfLate'
<1>1. CASE UNCHANGED vars
    BY <1>1 DEF OvertakenIfLate, UnderWay, vars, settings, history
<1>2. CASE Tick
    BY <1>2 DEF OvertakenIfLate, Tick, UnderWay, settings
<1>3. ASSUME NEW c \in Checks, CronStarts(c) \/ TimerFires(c) \/ ManualCheck(c)
      PROVE  OvertakenIfLate'
    <2>1. /\ check' = [check EXCEPT ![c].step = "enabled"]
          /\ UNCHANGED <<now, window, overtaken>>
        BY <1>3 DEF CronStarts, TimerFires, ManualCheck, Start, Goto, settings, history
    <2>2. UnderWay' \subseteq UnderWay
        BY <2>1 DEF UnderWay, IInv, TypeOK
    <2>. QED  BY <2>1, <2>2 DEF OvertakenIfLate
<1>4. ASSUME NEW c \in Checks, CheckStep(c)
      PROVE  OvertakenIfLate'
    <2>1. CASE ReadEnabled(c)
        <3>1. UNCHANGED <<now, window>>
            BY <2>1 DEF ReadEnabled, settings
        <3>2. UnderWay' \subseteq UnderWay /\ c \notin UnderWay'
            BY <2>1 DEF UnderWay, IInv, TypeOK, CheckState, ReadEnabled, Goto, End, Idle
        <3>3. overtaken \ {c} \subseteq overtaken'
            BY <2>1 DEF ReadEnabled, End
        <3>. QED  BY <3>1, <3>2, <3>3 DEF OvertakenIfLate
    <2>2. CASE ReadSettings(c)
        <3>1. UNCHANGED <<window, now>>
            BY <2>2 DEF ReadSettings, settings
        <3>2. CASE MinutesLeft(window, now) = 0
            BY <3>1, <3>2, PassedOutside DEF OvertakenIfLate
        <3>3. CASE MinutesLeft(window, now) # 0
            BY <2>2, <3>1, <3>3 DEF OvertakenIfLate, UnderWay, IInv, TypeOK, ReadSettings, End,
                Idle
        <3>. QED  BY <3>2, <3>3
    <2>3. CASE ReadSummary(c)
        BY <2>3 DEF OvertakenIfLate, UnderWay, IInv, TypeOK, ReadSummary, At, settings, history
    <2>4. CASE ReadErrors(c)
        BY <2>4 DEF OvertakenIfLate, UnderWay, IInv, TypeOK, ReadErrors, At, settings, history
    <2>5. ASSUME NEW k \in Keys, ReadLog(c, k)
          PROVE  OvertakenIfLate'
        BY <2>5 DEF OvertakenIfLate, UnderWay, IInv, TypeOK, ReadLog, At, settings
    <2>6. CASE Record(c)
        BY <2>6 DEF OvertakenIfLate, UnderWay, IInv, TypeOK, Record, Back, At, settings, history
    <2>7. CASE Finish(c)
        BY <2>7 DEF OvertakenIfLate, UnderWay, IInv, TypeOK, Finish, End, Idle, settings
    <2>. QED  BY <1>4, <2>1, <2>2, <2>3, <2>4, <2>5, <2>6, <2>7 DEF CheckStep
<1>5. ASSUME NEW c \in Checks, Send(c) \/ SendFails(c) \/ QueryFails(c)
      PROVE  OvertakenIfLate'
    BY <1>5 DEF OvertakenIfLate, UnderWay, IInv, TypeOK, Send, SendFails, QueryFails, Goto, Back,
        End, Idle, At, settings, history
<1>6. CASE Crash
    BY <1>6 DEF OvertakenIfLate, UnderWay, Crash, Idle
<1>7. ASSUME NEW w \in Windows, SaveQuietHours(w)
      PROVE  OvertakenIfLate'
    BY <1>7 DEF OvertakenIfLate, UnderWay, SaveQuietHours
<1>8. CASE SaveEnabled
    BY <1>8 DEF OvertakenIfLate, UnderWay, SaveEnabled, history
<1>9. ASSUME NEW k \in Keys, AlertChanges(k)
      PROVE  OvertakenIfLate'
    BY <1>9 DEF OvertakenIfLate, UnderWay, AlertChanges, history
<1>. QED  BY <1>1, <1>2, <1>3, <1>4, <1>5, <1>6, <1>7, <1>8, <1>9 DEF Next

\* Whatever the window, the checks running at once and the moments the owner chooses:
\* an alert delivered in quiet hours comes from a check that was past its
\* quiet-hours test before they began or were changed.
THEOREM QuietTheorem == Spec => QuietUnlessOvertaken
<1>1. Init => OvertakenIfLate
    BY DEF Init, OvertakenIfLate, UnderWay, Idle
<1>2. IInv /\ OvertakenIfLate /\ [Next]_vars => OvertakenIfLate'
    BY QuietStep
<1>3. OvertakenIfLate =>
        [\A c \in Checks, k \in Keys :
            Delivers(c, k) /\ InWindow(window, now) => c \in overtaken]_vars
    BY DEF OvertakenIfLate, UnderWay, Delivers, At
<1>. QED  BY <1>1, <1>2, <1>3, IInvHolds, PTL DEF Spec, QuietUnlessOvertaken

=============================================================================
