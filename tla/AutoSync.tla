------------------------------ MODULE AutoSync ------------------------------
(***************************************************************************)
(* The automatic sync (sync.service.ts, settings.service.ts): the interval *)
(* timer, the cadence the owner stores, the moment of the next sync that   *)
(* the panel shows, and the rounds the timer or the owner starts.  Time is *)
(* counted in hours.                                                       *)
(***************************************************************************)
EXTENDS Naturals, FiniteSets

CONSTANTS
    Accounts,     \* the accounts of providers that are not manual
    Hours,        \* the intervals owners choose
    MaxTimer,     \* the longest interval a timer can hold (2^31 - 1 ms)
    Rounds,       \* rounds of syncs under way at one time
    Saves,        \* requests that save the settings at one time
    None


VARIABLES
    hours,     \* Settings.syncIntervalHours
    interval,  \* SyncService.intervalMs
    due,       \* hours until the timer fires
    shown,     \* hours until nextRunAt
    save,      \* per request: the interval it stored and will arm the timer with
    raced,     \* two saves overlapped and none has been alone since
    round,     \* per round: idle, or the accounts to do, in one go or one by one
    enabled    \* accounts switched on

vars == <<hours, interval, due, shown, save, raced, round, enabled>>

\* setInterval takes an interval it cannot hold for a millisecond.
Period(h) == IF h <= MaxTimer THEN h ELSE 0

Idle == [how |-> "idle", todo |-> {}]

\* onModuleInit reads the stored interval and arms the timer.
Init ==
    /\ hours \in Hours
    /\ interval = hours /\ due = Period(hours) /\ shown = hours
    /\ save = [s \in Saves |-> None]
    /\ raced = FALSE
    /\ round = [r \in Rounds |-> Idle]
    /\ enabled = Accounts

----------------------------------------------------------------------------
(* The interval.                                                           *)

\* SettingsService.update stores the interval ...
Save(s, h) ==
    /\ save[s] = None
    /\ hours' = h
    /\ save' = [save EXCEPT ![s] = h]
    /\ raced' = \E t \in Saves \ {s} : save[t] # None
    /\ UNCHANGED <<interval, due, shown, round, enabled>>

\* ... and arms the timer with what it stored: reschedule, applyInterval.
Reschedule(s) ==
    /\ save[s] # None
    /\ interval' = save[s] /\ due' = Period(save[s]) /\ shown' = save[s]
    /\ save' = [save EXCEPT ![s] = None]
    /\ UNCHANGED <<hours, raced, round, enabled>>

\* A process started anew arms its timer with the stored interval.
Restart ==
    /\ interval' = hours /\ due' = Period(hours) /\ shown' = hours
    /\ save' = [s \in Saves |-> None]
    /\ raced' = FALSE
    /\ round' = [r \in Rounds |-> Idle]
    /\ UNCHANGED <<hours, enabled>>

\* An hour passes; a timer that is due fires first.
Hour ==
    /\ due > 0
    /\ due' = due - 1
    /\ shown' = IF shown > 0 THEN shown - 1 ELSE 0
    /\ UNCHANGED <<hours, interval, save, raced, round, enabled>>

\* Mutant: the panel's moment is set when the timer is armed and not again.
ShownOnce == shown
\* "The next tick is one interval out."
NextRunAt == interval

\* The rounds list the accounts that are switched on (listSyncable).
Starts(r, how, among) == round' = [round EXCEPT ![r] = [how |-> how, todo |-> among \cap enabled]]

\* The timer fires, also while an earlier round is under way.
Tick ==
    /\ due = 0
    /\ due' = Period(interval) /\ shown' = NextRunAt
    /\ \E r \in Rounds : round[r] = Idle /\ Starts(r, "one by one", Accounts)
    /\ UNCHANGED <<hours, interval, save, raced, enabled>>

\* SyncController: every account at once.
SyncAll(r) ==
    /\ round[r] = Idle
    /\ Starts(r, "at once", Accounts)
    /\ UNCHANGED <<hours, interval, due, shown, save, raced, enabled>>

\* The accounts of one provider, refused when none of them is switched on.
SyncProvider(r, accounts) ==
    /\ round[r] = Idle /\ accounts \cap enabled # {}
    /\ Starts(r, "at once", accounts)
    /\ UNCHANGED <<hours, interval, due, shown, save, raced, enabled>>

----------------------------------------------------------------------------
(* The rounds.  syncAccount itself is AccountSync; here it ends well or not, *)
(* refused when the account was switched off since it was listed.          *)

\* A failure is isolated: the round goes on.
SyncAccount(r, a) ==
    /\ a \in round[r].todo
    /\ \E ok \in BOOLEAN :
        /\ ok => a \in enabled
        /\ round' = [round EXCEPT ![r].todo = @ \ {a}]
    /\ UNCHANGED <<hours, interval, due, shown, save, raced, enabled>>

EndRound(r) ==
    /\ round[r] # Idle /\ round[r].todo = {}
    /\ round' = [round EXCEPT ![r] = Idle]
    /\ UNCHANGED <<hours, interval, due, shown, save, raced, enabled>>

Switch(a) ==
    /\ enabled' = IF a \in enabled THEN enabled \ {a} ELSE enabled \cup {a}
    /\ UNCHANGED <<hours, interval, due, shown, save, raced, round>>

Next ==
    \/ Restart \/ Hour \/ Tick
    \/ \E s \in Saves : Reschedule(s) \/ \E h \in Hours : Save(s, h)
    \/ \E r \in Rounds : \/ SyncAll(r) \/ EndRound(r)
                         \/ \E a \in Accounts : SyncAccount(r, a)
                         \/ \E accounts \in SUBSET Accounts : SyncProvider(r, accounts)
    \/ \E a \in Accounts : Switch(a)

Spec == Init /\ [][Next]_vars

----------------------------------------------------------------------------
\* The panel shows when the timer really fires, and the timer runs at the stored
\* cadence, after every restart, save and tick: unless two saves overlapped (the
\* one answered last arms the timer), or the interval is longer than a timer can
\* hold (it then fires every millisecond).
CadenceUnlessRaced ==
    /\ interval <= MaxTimer => shown = due
    /\ ~raced /\ (\A s \in Saves : save[s] = None) => interval = hours
=============================================================================
