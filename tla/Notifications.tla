---------------------------- MODULE Notifications ----------------------------
(***************************************************************************)
(* NotificationsService: the hourly check of the alert conditions, the     *)
(* quiet hours that hold it, the timeout that reruns it when they end, and *)
(* the 24-hour throttle kept in notification_log.  Checks are coroutines   *)
(* that lose control at every await: the hourly tick, the timeout and the  *)
(* owner's POST /notifications/check may all be running one.               *)
(*                                                                         *)
(* Time is the minute of the day and turns over; what is remembered about  *)
(* the past is how long ago it was, counted up to one past the throttle.   *)
(***************************************************************************)
EXTENDS QuietHours

CONSTANTS
    Hour,           \* minutes between two ticks of the cron job
    Throttle,       \* THROTTLE_HOURS, in minutes
    Windows,        \* the quiet hours the owner may save
    SummaryKeys,    \* dedup keys of alerts read from analytics.summary()
    ErrorKeys,      \* dedup keys of sync errors, read after those are done
    Checks,         \* checks that may be running at once
    NoKey,
    Env             \* what else may happen: "manual" checks, "send", "db" failures, a "crash"

ASSUME TimesAssumption == Hour \in Nat \ {0} /\ Throttle \in Nat \ {0}
ASSUME WindowsAssumption == Windows # {} /\ Windows \subseteq Window
ASSUME KeysAssumption == NoKey \notin SummaryKeys \cup ErrorKeys

VARIABLES
    now,        \* minute of the day
    cronDue,    \* the hourly tick has come and its check has not started
    timer,      \* minutes to the quiet-hours timeout, or NoTimer
    window, enabled,    \* settings: quiet hours, and telegram.isEnabled()
    active,     \* keys whose alert condition holds
    log,        \* notification_log: minutes since the key was last recorded
    check,      \* the checks
    last,       \* history: minutes since the key was last delivered
    raced,      \* history: two checks were past the throttle at once, or a record was lost
    moved,      \* history: the quiet hours changed since the timeout was armed
    overtaken   \* history: checks under way when quiet hours began or were changed

settings == <<window, enabled, active>>
history == <<last, raced, moved, overtaken>>
vars == <<now, cronDue, timer, settings, log, check, history>>

-----------------------------------------------------------------------------
Keys == SummaryKeys \cup ErrorKeys
NoTimer == DayMinutes + 1
Ages == 0 .. Throttle + 1
LongAgo == Throttle + 1

\* phase: which list todo comes from.
CheckState == [step : {"idle", "enabled", "settings", "summary", "loop", "send", "record"},
               phase : {"alerts", "errors"}, todo : SUBSET Keys, key : Keys \cup {NoKey}]
Idle == [step |-> "idle", phase |-> "alerts", todo |-> {}, key |-> NoKey]

At(c, step) == check[c].step = step
Back(c) == check' = [check EXCEPT ![c].step = "loop", ![c].key = NoKey]
Goto(c, step) == check' = [check EXCEPT ![c].step = step]
End(c) == check' = [check EXCEPT ![c] = Idle] /\ overtaken' = overtaken \ {c}

\* The checks that have settled whether it is quiet.
UnderWay == {c \in Checks : check[c].step \notin {"idle", "enabled", "settings"}}

\* One of the checks cs is about to send k, or has sent it and not recorded it.
Sending(k, cs) == \E c \in cs : check[c].step \in {"send", "record"} /\ check[c].key = k

Init ==
    /\ now = 0
    /\ cronDue = FALSE
    /\ timer = NoTimer
    /\ window \in Windows
    /\ enabled \in BOOLEAN
    /\ active \in SUBSET Keys
    /\ log = [k \in Keys |-> LongAgo]
    /\ check = [c \in Checks |-> Idle]
    /\ last = [k \in Keys |-> LongAgo]
    /\ raced = [k \in Keys |-> FALSE]
    /\ moved = FALSE
    /\ overtaken = {}

-----------------------------------------------------------------------------
(* The clock.  The tick and the timeout are taken in the minute they fall  *)
(* due, and a check reads its settings in the minute it starts; a check    *)
(* may otherwise last as long as its queries and sends do.                 *)

Older(ages) == [k \in Keys |-> IF ages[k] = LongAgo THEN LongAgo ELSE ages[k] + 1]

Tick ==
    /\ ~cronDue
    /\ timer # 0
    /\ \A c \in Checks : check[c].step \notin {"enabled", "settings"}
    /\ now' = Later(now, 1)
    /\ cronDue' = (now' % Hour = 0)
    /\ timer' = IF timer = NoTimer THEN NoTimer ELSE timer - 1
    /\ log' = Older(log)
    /\ last' = Older(last)
    /\ raced' = [k \in Keys |-> raced[k] /\ (last'[k] # LongAgo \/ Sending(k, Checks))]
    /\ overtaken' = IF ~InWindow(window, now) /\ InWindow(window, now')
                    THEN overtaken \cup UnderWay ELSE overtaken
    /\ UNCHANGED <<settings, check, moved>>

Start(c) == At(c, "idle") /\ Goto(c, "enabled")

\* @Cron(EVERY_HOUR)
CronStarts(c) ==
    /\ cronDue
    /\ Start(c)
    /\ cronDue' = FALSE
    /\ UNCHANGED <<now, timer, settings, log, history>>

\* The callback of deferUntilQuietEnds.
TimerFires(c) ==
    /\ timer = 0
    /\ Start(c)
    /\ timer' = NoTimer
    /\ UNCHANGED <<now, cronDue, settings, log, history>>

\* POST /notifications/check
ManualCheck(c) ==
    /\ "manual" \in Env
    /\ Start(c)
    /\ UNCHANGED <<now, cronDue, timer, settings, log, history>>

-----------------------------------------------------------------------------
(* checkAndNotify                                                          *)

ReadEnabled(c) ==
    /\ At(c, "enabled")
    /\ IF enabled THEN Goto(c, "settings") /\ UNCHANGED overtaken ELSE End(c)
    /\ UNCHANGED <<now, cronDue, timer, settings, log, last, raced, moved>>

\* Mutant: the check is held and nothing runs it again.
DeferForgotten(left) == UNCHANGED <<timer, moved>>

\* The one named timeout is replaced.
DeferUntilQuietEnds(left) == timer' = left /\ moved' = FALSE

ReadSettings(c) ==
    /\ At(c, "settings")
    /\ LET left == MinutesLeft(window, now) IN
        IF left # 0
        THEN End(c) /\ DeferUntilQuietEnds(left)
        ELSE Goto(c, "summary") /\ UNCHANGED <<timer, moved, overtaken>>
    /\ UNCHANGED <<now, cronDue, settings, log, last, raced>>

ReadSummary(c) ==
    /\ At(c, "summary")
    /\ check' = [check EXCEPT ![c].step = "loop", ![c].todo = active \cap SummaryKeys]
    /\ UNCHANGED <<now, cronDue, timer, settings, log, history>>

\* syncRuns.listErrorsSince, when the alerts of the summary are done.
ReadErrors(c) ==
    /\ At(c, "loop") /\ check[c].phase = "alerts" /\ check[c].todo = {}
    /\ check' = [check EXCEPT ![c].phase = "errors", ![c].todo = active \cap ErrorKeys]
    /\ UNCHANGED <<now, cronDue, timer, settings, log, history>>

Finish(c) ==
    /\ At(c, "loop") /\ check[c].phase = "errors" /\ check[c].todo = {}
    /\ End(c)
    /\ UNCHANGED <<now, cronDue, timer, settings, log, last, raced, moved>>

-----------------------------------------------------------------------------
(* maybeSend                                                               *)

\* wasSentSince(key, now - THROTTLE_HOURS), the boundary included.
WasSent(k) == log[k] <= Throttle

ReadLog(c, k) ==
    /\ At(c, "loop")
    /\ k \in check[c].todo
    /\ IF WasSent(k)
       THEN /\ check' = [check EXCEPT ![c].todo = @ \ {k}]
            /\ UNCHANGED raced
       ELSE /\ check' = [check EXCEPT ![c].todo = @ \ {k}, ![c].step = "send", ![c].key = k]
            /\ raced' = [raced EXCEPT ![k] = @ \/ Sending(k, Checks \ {c})]
    /\ UNCHANGED <<now, cronDue, timer, settings, log, last, moved, overtaken>>

\* telegram.send returns true, or false after any error.
Send(c) ==
    /\ At(c, "send")
    /\ Goto(c, "record")
    /\ last' = [last EXCEPT ![check[c].key] = 0]
    /\ UNCHANGED <<now, cronDue, timer, settings, log, raced, moved, overtaken>>

SendFails(c) ==
    /\ "send" \in Env
    /\ At(c, "send")
    /\ Back(c)
    /\ UNCHANGED <<now, cronDue, timer, settings, log, history>>

\* Mutant: the delivery is not written down.
RecordSkipped(c) ==
    /\ At(c, "record")
    /\ Back(c)
    /\ UNCHANGED <<now, cronDue, timer, settings, log, history>>

Record(c) ==
    /\ At(c, "record")
    /\ Back(c)
    /\ log' = [log EXCEPT ![check[c].key] = 0]
    /\ UNCHANGED <<now, cronDue, timer, settings, history>>

\* The key whose delivery is not recorded when check c is lost.
Unrecorded(c) == IF At(c, "record") THEN {check[c].key} ELSE {}

\* A query fails: scheduled() catches it, the check is over.
QueryFails(c) ==
    /\ "db" \in Env
    /\ check[c].step \notin {"idle", "send"}
    /\ End(c)
    /\ raced' = [k \in Keys |-> raced[k] \/ k \in Unrecorded(c)]
    /\ UNCHANGED <<now, cronDue, timer, settings, log, last, moved>>

\* The process restarts: checks and the timeout live in its memory.
Crash ==
    /\ "crash" \in Env
    /\ check' = [c \in Checks |-> Idle]
    /\ timer' = NoTimer
    /\ cronDue' = FALSE
    /\ overtaken' = {}
    /\ raced' = [k \in Keys |-> raced[k] \/ \E c \in Checks : k \in Unrecorded(c)]
    /\ UNCHANGED <<now, settings, log, last, moved>>

-----------------------------------------------------------------------------
(* The owner's settings, and the conditions themselves.                    *)

SaveQuietHours(w) ==
    /\ window # w
    /\ window' = w
    /\ moved' = TRUE
    /\ overtaken' = overtaken \cup UnderWay
    /\ UNCHANGED <<now, cronDue, timer, enabled, active, log, check, last, raced>>

SaveEnabled ==
    /\ enabled' = ~enabled
    /\ UNCHANGED <<now, cronDue, timer, window, active, log, check, history>>

AlertChanges(k) ==
    /\ active' = IF k \in active THEN active \ {k} ELSE active \cup {k}
    /\ UNCHANGED <<now, cronDue, timer, window, enabled, log, check, history>>

-----------------------------------------------------------------------------
CheckStep(c) ==
    \/ ReadEnabled(c)
    \/ ReadSettings(c)
    \/ ReadSummary(c)
    \/ ReadErrors(c)
    \/ \E k \in Keys : ReadLog(c, k)
    \/ Record(c)
    \/ Finish(c)

Next ==
    \/ Tick
    \/ \E c \in Checks : \/ CronStarts(c) \/ TimerFires(c) \/ ManualCheck(c)
                         \/ CheckStep(c) \/ Send(c) \/ SendFails(c) \/ QueryFails(c)
    \/ Crash
    \/ \E w \in Windows : SaveQuietHours(w)
    \/ SaveEnabled
    \/ \E k \in Keys : AlertChanges(k)

Spec == Init /\ [][Next]_vars

\* Time passes whatever the checks do, the cron job and the timeout run their
\* callbacks, queries are answered, and Telegram does not refuse for ever.
FairSpec ==
    /\ Spec
    /\ SF_vars(Tick)
    /\ SF_vars(\E c \in Checks : CronStarts(c))
    /\ SF_vars(\E c \in Checks : TimerFires(c))
    /\ \A c \in Checks : /\ WF_vars(CheckStep(c))
                         /\ WF_vars(Send(c) \/ SendFails(c))
                         /\ \A k \in Keys : SF_vars(Send(c) /\ check[c].key = k)

-----------------------------------------------------------------------------
(* Properties.                                                             *)

\* Every variable holds what it may hold; an armed timeout is never late or more
\* than a day away.
TypeOK ==
    /\ now \in Minutes
    /\ cronDue \in BOOLEAN
    /\ timer \in 0 .. DayMinutes - 1 \cup {NoTimer}
    /\ window \in Windows
    /\ enabled \in BOOLEAN
    /\ active \subseteq Keys
    /\ log \in [Keys -> Ages]
    /\ check \in [Checks -> CheckState]
    /\ last \in [Keys -> Ages]
    /\ raced \in [Keys -> BOOLEAN]
    /\ moved \in BOOLEAN
    /\ overtaken \subseteq UnderWay

\* As long as the owner leaves the quiet hours alone, the timeout armed by a held
\* check comes due in the very minute they end: not inside them, not later.
TimerClosesWindow ==
    timer # NoTimer /\ ~moved =>
        /\ ~InWindow(window, Later(now, timer))
        /\ \A n \in 0 .. timer - 1 : InWindow(window, Later(now, n))

\* Check c delivers the alert k.
Delivers(c, k) == At(c, "send") /\ check[c].key = k /\ check'[c].step = "record"

\* No alert is delivered again within 24 hours, unless two checks were past the
\* throttle on its key at once or the record of a delivery was lost.
ThrottleUnlessRaced ==
    [][\A c \in Checks, k \in Keys : Delivers(c, k) /\ last[k] <= Throttle => raced[k]]_vars

\* Why that holds.  The log is never behind the deliveries, but for one not yet
\* written down; two checks on one key are a race; and a check about to send found
\* the last delivery long past.
LogKeepsUp == \A k \in Keys :
    log[k] <= last[k] \/ raced[k] \/ \E c \in Checks : At(c, "record") /\ check[c].key = k
TwoAreARace == \A k \in Keys : \A b, c \in Checks :
    b # c /\ Sending(k, {b}) /\ Sending(k, {c}) => raced[k]
SendersPassed == \A c \in Checks :
    check[c].step \in {"send", "record"} =>
        /\ check[c].key \in Keys
        /\ At(c, "send") => last[check[c].key] = LongAgo \/ raced[check[c].key]

\* What is delivered in quiet hours comes from a check that was already under way
\* when they began or were changed.
QuietUnlessOvertaken ==
    [][\A c \in Checks, k \in Keys : Delivers(c, k) /\ InWindow(window, now) => c \in overtaken]_vars

\* An alert that stays on, with notifications on and the quiet hours left alone, is
\* delivered again and again, even if no hourly tick falls outside the quiet hours.
AlertsRepeat ==
    \A k \in Keys :
        (<>[](enabled /\ k \in active) /\ \E w \in Windows : <>[](window = w)) => []<>(last[k] = 0)
=============================================================================
