# Verification of infra-billing

TLA+ models of the parts of infra-billing whose correctness depends on the
order in which things happen, or on tables and arithmetic that many places must
agree on, with TLC runs on small instances and TLAPS proofs for instances of any
size. The text has six parts: the inventory of the system, the modules and how
they correspond to the code, what is checked, what is proved, what is not
modelled, and the plan.

Paths below are relative to `src/apps/backend/src/`, or to `src/apps/frontend/src/`
where they begin with `pages/`, `api/`, `components/` or `App.tsx`.

---

## 1. The system

infra-billing is a self-hosted panel for one owner: it collects what servers,
domains and other services cost at some twenty hosters. The back end is one
NestJS process over PostgreSQL (through Prisma), the front end a React
application over its HTTP API. The back end is single-threaded, but every
`await` lets another request, timer or cron callback run, and PostgreSQL runs
at READ COMMITTED, so a value read before an `await` may be stale after it.

### 1.1 Components

| Component | State | Operations | Talks to |
|---|---|---|---|
| Account sync (`sync/sync.service.ts`) | `services`, `provider_accounts`, `sync_runs`, balance snapshots, payments; an abort timer per call | `syncAccount`: read account, open a run, fetch the account (retried), store the balance, fetch the services (retried), upsert one by one, switch off the missing, import payments, close the run; or record the error and close the run | connectors, every repository it writes, favicon proxy |
| Auto-sync scheduler (same file) | one interval in the process; the interval setting | `applyInterval`, `syncAllProviders`, `syncAll`, `syncProvider` | settings, account sync |
| Connectors (`connectors/`) | none | `fetchAccount`, `fetchServices`, `fetchPayments`, under an abort signal | the hosters' APIs |
| Services (`services/`) | `services`: values, override flags, `meta` with the provider's last proposal | create by hand, update, remove | account sync, through the table |
| Providers and accounts (`providers/`) | `providers`, `provider_accounts` (label, credentials) | create, remove, add account, relabel, delete unless last, merge | everything that hangs on an account, by cascade |
| Payments (`payments/`) | `payments` | manual payments, `upsertExternal`, linking to services | account sync, services |
| Projects (`projects/`) | `projects`, with a default one | create, delete, move services | services |
| Notifications (`notifications/notifications.service.ts`) | `notification_log`; one named timeout | hourly check, manual check, deferral, throttled send | analytics, sync runs, Telegram |
| Quiet hours (`notifications/quiet-hours.ts`) | none | minutes left of the window | notifications |
| Telegram delivery (`notifications/telegram.service.ts`) | settings | `isEnabled`, `send` | the Bot API |
| Settings (`settings/`) | `settings` | read, save, tell the scheduler | scheduler, notifications |
| Balance snapshots | `balance_snapshots` | append | written by the sync, read by analytics |
| Analytics (`analytics/`, `common/`) | none | overdue, runway, spend, coverage, forecast | reads everything |
| Currency rates (`currency/`) | `exchange_rates`, `exchange_rates_daily` | refresh, archive, backfill, as-of lookup | rate sources |
| Sign-in methods (`auth/`) | `auth_config`, passkeys, challenge slots, cached session secret | switch methods, link and unlink, register and delete keys | HTTP guards, CLI |
| Favicon proxy (`favicons/`) | cache and shared in-flight fetches | get, invalidate | providers, web sites |
| Credentials and encryption (`providers/provider-credentials.service.ts`, `crypto/`) | an encrypted blob per account, laid out by kind | build and merge, hints, flags, reveal, decode | providers, sync, the account form |
| API tokens, MCP server (`api-tokens/`, `mcp/`) | `api_tokens` | create, revoke, guard, calls sent back through the guard | the services above |
| Health, configuration, CLI | none | start-up, one-shot commands on the admin row | sign-in methods |
| Shared schemas (`src/packages/shared`) | none | zod schemas of every request | |
| Front end (`src/apps/frontend`) | a query cache, forms | pages that read queries, mutations that invalidate them | the API |

### 1.2 What is hard

* **Nothing locks an account.** The timer and the "sync now" button may sync one
  account at the same time, while the owner edits the same rows. Each side
  reads a row, awaits, and writes from what it read.
* **Syncs fail in the middle**: a fetch that hangs, an aborted retry, a row or
  the whole account deleted under the sync, a constraint, a crash. The run, the
  account's error flag and the services must still make sense.
* **Read-then-write requests** on providers and accounts: a label checked before
  the insert, accounts counted before the delete, a merge of several statements.
  Some of it is guarded by `SELECT ... FOR UPDATE` or by foreign keys, some by
  nothing.
* **Notifications are at once throttled, deferred and scheduled twice** (the
  hourly cron and the timeout at the end of quiet hours); a check awaits between
  looking at the log, sending and recording, and windows may cross midnight.
* **Sign-in methods, challenges, the session secret, icons, rates and
  credentials** have the same shape: a check on, or a copy of, state read earlier.
* **Twenty-three providers** page, fail, expire sessions and bill in their own
  way, and the sync switches off whatever an accepted list does not contain.
* **The panel** caches every answer and refetches what a mutation's author
  thought of; loads, mutations and navigation overlap.
* **Numbers**: days at midnight, months, windows, conversions between two
  currencies, computed once for a card, once for a chart and once for an alert.

`PROJECT.json` lists the individual hazards with their lines and the properties
aimed at them.

### 1.3 What makes each component correct

* *Account sync*: an undisturbed sync leaves the table equal to the provider's
  list; it switches off only managed services that a fully applied list does not
  contain; the owner's edits and switch-offs survive; every run is settled;
  failures show; every call ends.
* *Providers and accounts*: a provider never loses its last account; an account
  is under a provider of the kind its credentials are for; labels are unique; a
  merge loses nothing.
* *Notifications*: no repeat within the throttle; nothing in quiet hours; a held
  check is run again at the very end of the quiet hours; an alert that stays on
  is repeated.
* *Payments, projects*: a payment and its service belong to the same account; a
  service is in exactly one project; a move or a merge keeps both.
* *Sign-in methods*: at least one usable method remains; a linked account was
  proven with the settings in force; an answer to a challenge is accepted once;
  cookies outlive restarts and not a reset; a token does no more than its scope.
* *Connectors*: a list is complete or the fetch throws; external ids are distinct;
  a price keeps its rate; every fetch ends.
* *Credentials*: a partial edit keeps the rest; what is stored is what the
  connector needs; the five tables by kind agree.
* *Caches* (favicons, rates, session secret, the panel's queries): nothing older
  than the last invalidation is stored after it.
* *Rates*: the archive has no holes a source could have filled; a lookup finds the
  newest rate of its day or before; a rate entered by hand stays.
* *Analytics*: overdue and upcoming partition the dated services; the suggested
  top-ups suffice; card and chart agree; spend is conserved.

---

## 2. The modules

```
QuietHours ── Notifications ── MCNotifications          AccountSync ── MCAccountSync
                   │                                        │
              Notifications_proofs                     AccountSync_proofs

Registry ── MCRegistry        Portfolio <── (refined by) ── Ledger ── MCLedger
    │                                                        │
Registry_proofs                                         Ledger_proofs

SignIn, Sessions, Ceremony, ApiAccess ── Access ── MCAccess
                                           │
                                      Access_proofs

Panel, Credentials, Favicons, AutoSync ── OwnerView ── MCPanel
                                             │
                                       OwnerView_proofs

Spend ── Analytics ── Money, Rates ── MCMoney   ConnectorScripts ── Connectors ── MCConnectors
                          │                                             │
                     Money_proofs                                Connectors_proofs
```

An MC module gives the constants values for the cfg files; no definition is
replaced for model checking. `Access` and `OwnerView` bring components that share
no variable together and name their properties; `MCAccess`, `MCPanel` and
`MCMoney` run several components at once. In the code they run side
by side; since none reads what another writes, every property is about one of
them, and the composition lets one component move while the others stay in
their first state, so that the state space is the sum and not the product.
Operators whose comment begins "Mutant" are plausible bugs of the definition
after them; `PROJECT.json` says which property notices each.

Names ending in `UnlessRaced`, `UnlessOvertaken` or `UnlessExcused` are properties
the code has only outside a race it is exposed to. The race is recorded by a
history variable at the step where it happens, as narrowly as the code allows;
section 3.3 lists them.

### 2.1 AccountSync

`sync/sync.service.ts` (`syncAccount`, `withRetry`, `upsertServices`),
`services/services.service.ts` (`create`, `update`, `remove`), the repositories
they use, for **one account**.

*State.* `account`, `services` and `runs` are the tables; `pc`, `tries`,
`aborted`, `fetched`, `todo`, `cur`, `found`, `snap` are the locals of each call
of `syncAccount`; `req` holds the row an owner's PATCH has read. `stale`, `dirty`
and `raced` are history: nothing in the model depends on them.

*Steps.* One action per `await`: `ReadAccount`, `CreateRun`, `FetchAccount`,
`StoreBalance`, `FetchServices`, `ReadItem`, `CreateItem`/`UpdateItem`,
`DeactivateMissing`, `MarkSynced`, `MarkOk`, and in the catch block
`RecordSyncError`, `MarkError`. `FetchFails` is the retry loop, `Timeout` the
abort timer, `Throw` whatever else may throw inside the try block. The owner has
`ReadForUpdate`/`UpdateService`, `CreateManual`, `RemoveService`,
`DeleteAccount`; `Crash` ends the process. `UpdatedRow` and `PatchedRow` say what
one `UPDATE` does to a row given the row that was *read*: this is where the races
are. `NotIn` has SQL's meaning for an empty list and for NULL.

*Abstractions.*
* A row's editable fields (name, type, cost) are members of `Fields`; currency
  and period travel with the cost. Vendor and marker are one flag of the PATCH
  (`clientMeta`): they matter here only because they make the PATCH write `meta`
  as a whole.
* Balance, snapshot, favicon and payment import have no state here; they are
  steps that may fail (`StoreBalance`, `Throw`). A failing payment import is
  logged and swallowed by the code and so changes nothing.
* An account that is switched off or of the manual kind is rejected like a
  missing one: `ReadAccount` may always reject.
* The list of a connector is a function of external ids, that is, without
  duplicates.
* A primary key is reused only when nothing refers to it, so that it stands for
  a new one. `MaxManual` bounds services entered by hand.
* Moving a manual service to another account, payments and projects are Ledger.

### 2.2 Registry

`providers/providers.service.ts`, `providers/provider-accounts.service.ts`,
`providers/provider-rules.ts` and the transactions `deleteUnlessLast`
(`repositories/provider-accounts`) and `merge` (`repositories/providers`).

*State.* `kind` and `accts` are the tables. `exclusive`, `keyShare`, `noKey` and
`rowLock` are the PostgreSQL row locks the statements take. `edit`, `del`, `mrg`
are requests, with what they read; `touched` is history.

*Steps.* A request reads (`ReadForAdd`, `ReadForRelabel`, `ReadForDelete`,
`ReadForMerge`) and writes later. `deleteUnlessLast` is `LockProvider` (FOR
UPDATE), `CountAccounts`, `DeleteRow`, `CommitDelete`; `merge` is `MergeRelabel`
per account, `MergeMove` (`updateMany`), `MergeTarget`, `MergeSource` (the delete
that cascades), `CommitMerge`. Locks are held to the commit, writes are published
by it; `AbortDelete`/`AbortMerge` roll back anywhere (a missing row, a foreign
key, a deadlock, the transaction timeout, a crash).

*Abstractions.*
* A statement is one step, taken when it gets its locks. Two reads in a row of
  the same request are folded where the second only reads what cannot change
  (kinds are immutable) or is re-checked by a later statement.
* A label is its case-insensitive class. `MergedLabels` allows every labelling
  that the text algorithm of `mergedLabels` may produce: injective, avoiding the
  target's labels, keeping a label that is free.
* Identity fields, `isEnabled`, `isPostpaid` and the content of credentials are
  left out; `kind` of an account is the kind its credentials were built for.

### 2.3 QuietHours and Notifications

`notifications/quiet-hours.ts` and `notifications/notifications.service.ts`.

`QuietHours` has the code's arithmetic (`Inside`, `Left`, `MinutesLeft`,
`QuietMs`) and, apart from it, a reference that walks the window minute by minute
(`Length`, `Later`, `InWindow`).

*State of Notifications.* `now` (minute of the day), `cronDue`, `timer` (the one
named timeout), the settings `window` and `enabled`, `active` (the keys whose
condition holds), `log` (`notification_log`, as age), `check` (the checks under
way). `last`, `raced`, `moved`, `overtaken` are history.

*Steps.* `Tick` is the clock; `CronStarts`, `TimerFires`, `ManualCheck` start a
check; `ReadEnabled`, `ReadSettings` (which defers: `DeferUntilQuietEnds`),
`ReadSummary`, `ReadErrors`, `ReadLog`, `Send`/`SendFails`, `Record`, `Finish` are
`checkAndNotify` and `maybeSend`, one per `await`; `QueryFails` and `Crash` are the
failures; `SaveQuietHours`, `SaveEnabled`, `AlertChanges` the environment. What
may happen beside the schedule is chosen by `Env`.

*Abstractions.* Time has minutes. The tick and the timeout are taken in their
minute and a check reads its settings in the minute it starts; its queries and
sends may last as long as they like. Alert categories are sets of dedup keys, in
the order the code reads them (summary first, then sync errors). Time zones,
daylight saving, message texts and `sendSamples` are left out. At most `Checks`
checks overlap.

### 2.4 Ledger and Portfolio

`payments/`, `projects/`, `services/` as far as links go, `upsertPayments` of the
sync, `merge` and `deleteUnlessLast` as far as they cascade.

*State.* `account` (the provider of each account), `projects`, `service`, `payment`
are the tables with their foreign keys; `req` the requests of two steps, `imp` the
payment imports. `foreign` and `disturbed` are history.

*Steps.* A request reads (`CreateServiceRead`, `MoveServiceRead`,
`CreatePaymentRead`) and writes later, when a foreign key may fail. The two
transactions of two statements are two steps with their row locks:
`MovePayments`/`MoveService` (`moveToAccount`) and `SweepProject`/`RemoveProject`
(`deleteMovingServices`). An import is `SyncBegins`, `SyncAddsService`, `ReadLinks`
(the map of services), `UpsertCharge` per record, `ImportDone` or `ImportFails`.
`MergeProvider` and `DeleteAccount` are one step each: their own steps are
Registry's subject.

*Portfolio* is what the projects promise, without requests in flight: a service is
in one existing project, and a project goes only together with the move of all
its services. `ProjectsAtomic` is `Portfolio!Spec` under the mapping that reads a
service's project from the table: Ledger implements it.

*Abstractions.* Amounts, dates and types of rows are left out; a record of a
provider's ledger names a service by external id or none.

### 2.5 Sign-in: SignIn, Sessions, Ceremony, ApiAccess

*SignIn* (`auth/auth-config.service.ts`, `auth/telegram-oidc.service.ts`,
`auth/webauthn.service.ts` as far as keys come and go, `bin/cli.ts`): the
`auth_config` row, the passkeys table, PATCH, unlink and delete as
read-check-write requests, the Telegram round trip, setup and the three
maintenance commands. The client settings are an app and a secret.

*Sessions* (`auth-config.service.ts:253`): the session secret in the row and in the
process, setup, sign and verify as calls between awaits, restarts, `reset-admin`
behind the process's back.

*Ceremony* (`auth/challenge.store.ts`, `auth/webauthn.service.ts`): one challenge slot
per kind, answers that arrive late, twice or from another tab, overlapping
verifications and the signature counter.

*ApiAccess* (`auth/auth.guard.ts`, `api-tokens/`, `mcp/`): tokens with a scope, the
guard, the catalogue of operations, and MCP calls, which go back through the guard
as requests of their own while tokens are revoked.

*Abstractions.* Signatures, hashes and encryption are perfect; times of expiry are
steps that may happen at any time.

### 2.6 ConnectorScripts and Connectors

`connectors/*/*.connector.ts` and `*.mapper.ts` of all kinds, and the calls of
`syncAccount`. `ConnectorScripts` says what each connector asks, in order: how a
request is paged, what its failure does (fail the method, leave a part out, go on
without a price), what it needs, which rows it makes with which external id and
how billing terms become periods. `Connectors` interprets a script against a
provider: sign-in with its challenges and fallbacks, pages, retries, expired
sessions, lists that move between two pages, page counts that lie, and the abort. `out` is the set of rows the method has made
so far, each with the request and the place in its list it came from and its id.

*Abstractions.* A row is its number; HTTP, number formats, time zones and names are
left out. Requests issued together stand one after the other.

### 2.7 Rates, Analytics, Spend, Money

*Rates* (`currency/`): `exchange_rates` and the daily archive, the start-up refresh
with its retries, the daily job, the panel's buttons, the rate source, rates
entered by hand, days that pass and a process that stops. The as-of lookup is the
code's binary search against the reference "newest at or before". Two history
variables record why a USDT quote may be missing: `lost`, a source failed when it
was asked; `masked`, a start had stored its day's quote and was cut short, by the
end of the process or by midnight, before it looked at the archive.

*Analytics* (`analytics/analytics.service.ts`, `common/overdue.ts`, `money.ts`,
`billing-severity.ts`) and *Spend* (`common/spend.ts`, `runway.ts`) are operators: what
the dashboard, the chart and the alerts compute from a portfolio, a ledger or an
account's snapshots. Loops that add up or go through the charges are recursive
functions, so that they can be proved about. *Money* is the dashboard's one action:
a question is asked (`Ask`), of a portfolio, a ledger or an account as the columns
of the tables allow (`IsPortfolio`, `IsLedger`, `IsAccount`), and the properties speak of
its answer. `None` is no date, no balance and no currency, a value that is no number.
MCMoney asks the questions of a bounded set.

*Abstractions.* Amounts are whole numbers, days have two halves, months four days
(the calendar's month ends, clamping and the guard of 5000 steps are left out).
Spend counts amounts in units of 1/420, and a share of an interval that is no whole
number of them is rounded down; the code rounds each day to a cent. `SpendConserved`
speaks of sums over snapshots only where 420 is a multiple of every interval in half
days, so that no share is rounded (in MCMoney all are).

### 2.8 Panel and Credentials

*Panel* (`App.tsx`, `pages/`, `api/`, `components/CommandPalette.tsx`): every route with
the queries it shows and the mutations it offers, the queries each mutation
invalidates, and TanStack Query's cache as the panel configures it (a query is
fetched when mounted, a request under way is shared, an invalidated query that is
mounted is fetched again, the first load is not cancelled). Queries do not depend
on each other, so one query is watched, and of it the part that comes from one
table; `watched` ranges over all of them. Answers may be lost after the commit,
loads may fail, the owner may leave the page, log out or be logged out.

*Credentials* (`provider-credentials.service.ts`, `provider-accounts.service.ts`,
`pages/providers/ProviderCredentialFields.tsx`, `providerForm.ts`,
`components/SecretInput.tsx`): the blob of one account of any kind, the form that
edits it (prefilled, masked, revealed, hidden again after 45 seconds, sent without
blanks), a second client that patches single fields, creation, and a changed
ENCRYPTION_KEY. A value is known by who entered it. `form.shot` are the fields
that keep a snapshot of what a reveal brought: hiding one forgets the value when
it is still that and the flags still call it stored, and leaves it otherwise.

*Abstractions.* The panel's pages are what they read and write; filters, tables and
dialogs' own state are left out. A mutation that does not write the watched part
is left out too: it can only make the cache newer.

### 2.9 Favicons and AutoSync

*Favicons* (`favicons/favicons.service.ts`): the bounded cache, loads shared by those
who ask meanwhile, and edits whose row is written before the icon is dropped.

*AutoSync* (`sync/sync.service.ts`, `settings/settings.service.ts`): the interval, the
moment the panel shows, saves that store and then re-arm, restarts, and rounds
started by the timer, for all accounts or for a provider's. Time has hours; an
interval longer than `MaxTimer` stands for one beyond 2^31 - 1 ms.

---

## 3. What is checked

### 3.1 Runs

| Run | Shows | Bounds |
|---|---|---|
| `sync_edits` | `RunsSettle`, `FailureShows`, `PinHoldsUnlessRaced`, `FreshUpdateKeepsEdits` | 2 syncs, 1 owner's request, 1 external id, 1 row key, the field cost with values zero and v1, 1 fetch attempt |
| `sync_lists` | `CleanSyncMirrors`, `OnlyFullListDeactivates`, `SyncEnds` | 2 syncs, no request, 2 external ids, 3 row keys, 2 fetch attempts, fairness |
| `registry_requests` | `NeverEmpty`, `CredentialsFitKind`, `CleanMergeKeepsAll` | 2 providers, 3 accounts, 2 kinds, 2 labels, 1 edit, 2 deletes, 1 merge |
| `alerts_throttle` | `TimerClosesWindow`, `ThrottleUnlessRaced`, `QuietUnlessOvertaken` | 2 checks, 1 key, a day of 4 minutes with a tick every 2, throttle 4, every failure |
| `alerts_repeat` | `AlertsRepeat` | 1 check, 1 sync-error key, manual checks and failing sends, fairness |
| `ledger` | `PairsFit`, `LinksFit`, `CleanImportComplete`, `ManualUntouched`, the refinement `ProjectsAtomic` | 2 accounts under 2 providers, 2 projects, 1 service key, 2 payment keys, 2 requests, 1 import |
| `access` | `SessionsHonoured`, `ScopeRespected`, `GuardHoldsUnlessOvertaken`, `LinkProvenUnlessOvertaken`, `NoReplay` | 2 keys, 3 client settings, 2 requests; 2 secrets; 3 challenges, counter to 4; 2 tokens |
| `lockout` | violates `OwnerCanSignIn` | 1 key, 1 request, every PATCH of one field |
| `connectors` | `CompleteOrThrown`, `IdsDistinct`, `RateKept`, `FetchEnds` | all kinds, lists of up to 3 rows, pages of 1, cap of 2 pages, 2 attempts, fairness |
| `timeout_swallowed` | violates `TimeoutFails` | Yandex, Selectel, BILLmanager |
| `money` | `LookupFindsNewest`, `DowntimeIsFilled`, `ManualRateHoldsUnlessOvertaken`, `ListsPartition`, `TopUpsSuffice`, `ChartAgrees`, `SpendConserved` | 3 days, 1 fiat currency and USDT, a holiday; the portfolios, ledgers and accounts of MCMoney |
| `panel` | `UpToDateUnlessExcused`, `StoredCredentialsWork`, `EditKeepsRestUnlessOvertaken`, `IconIsCurrentUnlessOvertaken`, `CadenceUnlessRaced` | every query and page, 1 commit; 21 kinds of provider and manual ones, 2 saves; 2 icons in a cache of 1, 2 edits; 2 accounts, 3 intervals, 2 rounds, 2 saves |

Why the bounds are enough for what each run asks:

* A row race in the sync needs a reader and one other writer; two syncs and a
  request give every pair (sync–sync, sync–owner) and a bystander. Fields do not
  influence one another, so one field shows what each would; cost is the one
  that may be unknown and has a default. Two external ids give every relation
  of a list to the table (both, one, the other, none), and a third row key the
  service entered by hand.
* `deleteUnlessLast` goes wrong, if it does, on the last two accounts with a
  second deletion or a merge; three accounts also let a merge bring a new one.
* The short day keeps the relations that matter: a window across midnight whose
  only open minute is not a tick (only the timeout can deliver), and one within
  the day that ends on a tick. The throttle is longer than the distance of two
  ticks, as 24 h is to 1 h.
* A link goes wrong between a service and a payment in two accounts; a second
  payment lets an imported row meet one entered by hand. The key of a service is
  used again once nothing refers to it.
* The guard of the sign-in methods goes wrong between two requests; two keys let
  one be deleted while the other is the last. Three challenges let an old, a
  replaced and an open one exist together.
* Three rows on pages of one, a cap of two and an endless list of four pages give
  a list within the cap, at it and beyond it, and a row on either side of a shift.
* Three days with a holiday give a first, a missing and a newest day. States that
  differ in the history only by days which are archived again count as one (`VIEW`):
  the archive never shrinks, and the history is read only for days it lacks. The excuse
  `masked` of `DowntimeIsFilled` is needed from the fourth day on (one archived, one
  missing, one whose start was cut short, the next), which with a fiat currency is
  beyond TLC; the theorem has no such bound. The inputs of
  Analytics and Spend lie on either side of each comparison in the code: due
  yesterday, today, in half a day, at the horizon; snapshots before, at the edges
  of and after the window.
* Staleness of a query needs one commit between the server's read and the answer's
  arrival. BILLmanager and Beget are left out of the kinds because their
  branches are those of HostBill and of other kinds with a login and a password
  (`CredentialsTheorem` covers every kind).
  A bigger cache than one icon evicts later, not otherwise.

The proofs of section 4 have none of these bounds.

`CHECK_DEADLOCK FALSE` is set for AccountSync and Registry, whose calls simply
come to an end (and whose transactions may, in the code too, wait on each other
until PostgreSQL aborts one, which the model allows at any time). Everywhere else
deadlock is checked.

The type invariants are proved (section 4) and not part of a run.

### 3.2 Findings

1. `lockout`: the guard that keeps a sign-in method alive counts passkeys without
   asking whether the Relying Party settings they need are stored. Clearing those
   settings and then switching the password off passes it twice, and the owner can
   sign in no more (auth-config.service.ts:189).
2. `timeout_swallowed`: when the sync-wide timer aborts while Yandex folders,
   Selectel regions or BILLmanager item functions are listed one by one, the
   per-part catch takes the abort for an empty part. The sync records success and
   switches the missing services off (yandex.connector.ts:284,
   selectel.connector.ts:250, billmgr.connector.ts:481).

### 3.3 What the conditional properties leave out

Each of these is a behaviour of the code the run would show without the
condition.

| Property | Leaves out |
|---|---|
| `PinHoldsUnlessRaced`, `FreshUpdateKeepsEdits` | the row was written between the sync's read and its update: a service switched off meanwhile is on again and pinned, an edited price is replaced while its flag stays set |
| `CleanMergeKeepsAll` | somebody wrote the two providers since the merge read them: an account added to the source after its accounts were moved goes with it |
| `ThrottleUnlessRaced` | two checks past the log on one key, or a record lost: the alert is sent twice |
| `QuietUnlessOvertaken` | quiet hours that begin, or are changed, while a check is sending |
| `LinksFit` | a payment the owner entered for a service of another account, or while the service was being moved, by one request or by two at once |
| `GuardHoldsUnlessOvertaken` | two requests that each take a different method away |
| `LinkProvenUnlessOvertaken` | client settings saved during the exchange with Telegram |
| `CompleteOrThrown` | lists cut by the cap of pages, lists that move under the reader, inventories read in parts |
| `ManualRateHoldsUnlessOvertaken` | a refresh that read the source before the owner switched to rates by hand |
| `DowntimeIsFilled` | a day a source failed for when asked, and one missing when a start that had stored its day's quote was cut short (see below) |
| `IconIsCurrentUnlessOvertaken` | a load that had read the old links when the icon was dropped: it stores them for a day |
| `CadenceUnlessRaced` | overlapping saves (the one answered last arms the timer), and intervals a timer cannot hold: `syncIntervalHours` has no upper bound, and from 597 hours on `setInterval` fires every millisecond |
| `UpToDateUnlessExcused` | answers lost after the commit, loads that failed, a first load (or one of a page since left) answered before the commit, and the gaps listed below |
| `EditKeepsRestUnlessOvertaken` | a write between the server's read and its own; and, when another client wrote while the form was open, a field it showed, which goes back to what it showed |

The hole no start finds (`masked`): `backfillIfMissing` is documented to top the
archive up "when it ... has a hole" and leaves today out because the refresh
"already stamped it and would mask the hole" (currency.service.ts:71, 74). It
compares the last archived day with yesterday, so a start after days of downtime
that stores today's quote and ends, or passes midnight, before it gets to the
archive leaves a hole that tomorrow's start does not see, although no source
failed. The attempt to prove `DowntimeIsFilled` without this excuse showed it.

Gaps of the panel (`Unannounced`): a rate entered by hand does not refresh the
totals it moves (`api/rates.ts:17`); a sync does not refresh the balance history;
the service and payment counts in the lists of projects and providers; the payments
of a service that was moved or deleted.

Observed while modelling, and kept as they are: an hourly service is projected at
one hour's price per month (analytics.service.ts:706); an amount whose rate is
missing passes through unconverted; a rate of "0" can be entered by hand; Hostkey's
half year becomes a quarter at full price (`RateKept` names the exception); the form
does not ask for the token of a new Timeweb, Hetzner or Netlen account; optional
credentials cannot be cleared; a bare token is reported as stored also when it can
no longer be decrypted, and a partial edit of a blob that cannot be decrypted drops
its optional fields; two requests may give two accounts of a provider one label.

### 3.4 Fairness

* *AccountSync.* Weak fairness of `Timeout` (Node fires a due timer), of `Proceed`
  (the continuation of an answered statement runs, and the database answers) and
  of a failing fetch once the signal is aborted (the connectors pass the signal
  to `fetch`; that three of them do not let the failure through is the finding
  above, and the fetch ends there too). A fetch that is neither answered nor aborted is owed nothing:
  ending without the provider's help is what `SyncEnds` is about.
* *Connectors.* Weak fairness of `Timeout` and, once aborted, of the pending request:
  the same two facts. The provider is owed nothing.
* *Notifications.* Strong fairness of `Tick`, `CronStarts` and `TimerFires`: time
  does not wait for checks, and the cron and the timeout start a check of their
  own, whereas in the model they need a free member of `Checks`, which manual
  checks may keep taking; strong fairness says they get one. Weak fairness of
  the steps of a check. Strong fairness, per key, of `Send`: Telegram does not
  refuse one alert for ever. `AlertsRepeat` excludes crashes and failing queries
  (`Env`): with endless restarts inside the quiet hours the timeout is lost each
  time and nothing is owed.

The other modules state safety only and assume no fairness.

---

## 4. What is proved

TLAPS proves the following for every value of the constants that satisfies the
named assumptions: any number of syncs, requests, accounts, merges, keys, checks,
services, payments, imports, secrets, challenges, tokens, saves, icons and days.
The assumptions are of three sorts:

* a null is not a value, and an absent row is not a row: `ValuesAssumption`,
  `KeysAssumption`, `RowsAssumption` (AccountSync), `NullsAssumption`,
  `RowsAssumption` (Registry), `KeysAssumption` (Notifications), `LedgerAssumption`,
  `RowsAssumption` (Ledger), `UsersAssumption`, `RowAssumption` (SignIn),
  `NullAssumption` (Access, OwnerView), `AbsentAssumption` (OwnerView), and USDT is not a
  currency of the central bank (`RatesAssumption`);
* the actors of one kind are not those of another: `ActorsAssumption`,
  `TxnsAssumption`;
* bounds and times are numbers, attempts and cache sizes positive, a day has a
  minute, settings have their fields, the passkeys are finitely many:
  `AttemptsAssumption`, `DayAssumption`, `TimesAssumption`, `WindowsAssumption`,
  `ClientsAssumption`, `PatchesAssumption`, `KeysAssumption` (SignIn), `HoursAssumption`,
  `EntriesAssumption`, the rest of `RatesAssumption`.

TLC evaluates each of them for the values of the runs.

**AccountSync** (`AccountSync_proofs`).
* `TypeCorrect`: `TypeOK`. Alone it is not inductive: `CreateItem` and `UpdateItem`
  take the item `fetched[s][cur[s]]`, so the item in hand must be in the list.
  The invariant is `TypeOK` with `ListOK`: what is still to do is part of the
  list, and a call about to write has in hand an item that is still to do.
* `PinTheorem`: `PinHoldsUnlessRaced`. The strengthening, `FreshSnap`, says that the row a call
  read is, unless marked stale, the row in the table, so that the flag it goes by
  is the flag the update meets.
* `EditTheorem`: the action property `FreshUpdateKeepsEdits`, from the same fact.
* `RunsTheorem`: `RunsSettle`, which is inductive given the types: a call leaves
  the try and catch blocks only by closing its run or by finding it gone, and a
  run goes only with its account, which never comes back.
* `FailureTheorem`: `FailureShows`. Between the two statements of the catch block the
  error is on the account and the run still open, so `FailInv` speaks of a run
  that is ok or may still turn out so: the flag is down beside a failure only
  because of such a run.
* `DeactivationTheorem`: the action property `OnlyFullListDeactivates`, step by step:
  of a sync's statements only the last one of the list switches anything off.
* `MirrorTheorem`: `CleanSyncMirrors`. `CleanCall` says of an undisturbed call what it
  has achieved so far: each item it is done with is shown by a row, the item in
  hand has exactly the row it found, and after the last statement nothing else
  is on. It needs that a managed row has an external id (`Keyed`) and that the row
  in hand is fresh (`FreshSnap`).

**Registry** (`Registry_proofs`): `RegistryTypes`, `NeverEmptyTheorem`,
`CredentialsTheorem`, all from one inductive invariant
`IInv = TypeOK ∧ NeverEmpty ∧ CredentialsFitKind ∧ Compatible ∧ EditOK ∧ DeleteOK ∧ MergeOK`.
`NeverEmpty` needs the locks: a delete past its count holds its provider
exclusively and knows of another account there (`DeleteOK`); that account can
leave only by another delete (which needs the same lock), by the removal of the
provider (which waits for it) or by a merge out of it, whose rows are locked and
whose commit removes the provider as well (`MergeOK`); a merge's target is kept
alive by the key-share lock of the moved rows (`Compatible` says that excludes an
exclusive one). `CredentialsFitKind` needs that a request to add an account still
names the provider's kind when it inserts (`EditOK`). `CleanMergeTheorem`: the action
property `CleanMergeKeepsAll`, from `CleanMergesKnow` in addition: a merge nobody
touched knows the accounts of both providers as they are, with labels for each
that collide with none of the target's.

**QuietHours** (`Notifications_proofs`): `InsideIsInWindow` (the comparison in the
code is membership in the window walked minute by minute, wrapped or not),
`LeftClosesWindow` (the minutes left lead to the first minute outside) and
`QuietMsLands` (the milliseconds are positive and land in that minute).

**Notifications** (`Notifications_proofs`): `NotificationsTypes`, `TimerTheorem`,
`ThrottleTheorem`, from
`IInv = TypeOK ∧ TimerClosesWindow ∧ LogKeepsUp ∧ TwoAreARace ∧ SendersPassed`.
`TimerClosesWindow` is inductive on its own: arming it is `LeftClosesWindow`, a
tick takes one minute off both sides. The throttle needs the three others: the
log is not behind the deliveries except for one being recorded; two checks on
one key are counted as a race; a check about to send found the last delivery
long past. Together they give the action property. `QuietTheorem`: the action
property `QuietUnlessOvertaken`. A check passes `Inside` once and sends later;
`OvertakenIfLate` says that one past that test stands outside the window still, or
is marked as overtaken by the clock or by a save.

**Ledger** (`Ledger_proofs`): from
`Inv = TypeOK ∧ ProjectsHeld ∧ PairsFit ∧ LinkInv ∧ ServicesUnique ∧ PaymentsUnique ∧ ImportInv`.
* `PairsTheorem`: `PairsFit`, which is inductive given the types (the composite key: a
  merge repoints every row of the accounts it moves, an insert needs the pair).
* `LinksTheorem`: `LinksFit` needs that a payment's service exists (`Referenced`), that
  only services entered by hand move (`OnlyManualMoves`), that the payments a move
  locked are still its service's and newer ones known (`RowsHeld`), that the map an
  import read names services of its account (`MapHolds`), and that an imported
  payment is linked to a synced service (`ChargesFit`).
* `CleanImportTheorem`: `CleanImportComplete`, from the unique keys of both tables and
  `ImportInv`: an undisturbed import's map is what the table says, and what it is
  done with has a row linked as the record says.
* `ManualTheorem`: the action property `ManualUntouched`; `TypeTheorem`: `TypeOK`.
* `PortfolioTheorem`: Ledger implements Portfolio, `Spec ⇒ Portfolio!Spec`: `Init` maps to
  Portfolio's `Init`, and every action to one of its steps or a stutter. A project is
  removed in two statements; `ProjectsHeld` (the services the first one took are
  still in the project and in nobody else's hands) makes the second the whole
  atomic step.

**Access** (`Access_proofs`).
* `SignInTypeTheorem`; `GuardTheorem` and `LinkTheorem`: the action properties
  `GuardHoldsUnlessOvertaken` and `LinkProvenUnlessOvertaken`, from `SignInInv`: what a
  request nobody overtook has checked still holds of the row and the passkeys
  (`ChecksStand`), what it has read of the client settings is still stored
  (`ReadingsStand`), and a reset overtakes everything in flight (`ResetOvertakes`).
* `SessionTheorem`: `SessionsHonoured`, with `CookiesCurrent`: cookies belong to the row
  there is and the cache is empty or agrees with it.
* `ReplayTheorem`: the action property `NoReplay`. An answer is open, under one
  verification or accepted, never two of these (`InOnePlace`); the second half, the
  counter, needs that the authenticator counts up (`CountsUp`), that one verification
  at a time has read the counter there is (`OneAtATime`) and that a login still to be
  accepted beats the best so far or will be refused (`BeatsBest`).
* `ScopeTheorem`: `ScopeRespected`: what is past the guard was let through for the
  scope recorded with it.

**OwnerView** (`OwnerView_proofs`).
* `PanelTheorem`: `UpToDateUnlessExcused`, for every query of every page and every
  mutation. `PanelInv`: what is behind in the cache is excused, to be announced by
  the mutation under way, on its way, or fetched on the next mount
  (`BehindIsCovered`); an answer out of date is excused or about to be overtaken by
  an announcement (`OldAnswerIsCovered`). The tables of the panel are gone through
  page by page and mutation by mutation.
* `CredentialsTheorem` and `EditTheorem`: `StoredCredentialsWork` and the action property
  `EditKeepsRestUnlessOvertaken`, for every kind, any number of saves and
  ENCRYPTION_KEY changes. `CredentialsInv`: blobs stored or read by a save under way
  work (`BlobsWork`), and what the owner did not type the form and its request hold
  as it is stored, unless a write passed them by (`FormMirrors`, `RequestMirrors`).
* `IconTheorem`: `IconIsCurrentUnlessOvertaken`, for a cache of any size; `IconInv` adds
  that a load with other links than the current ones is known to be overtaken,
  and that the cache holds an entry once.
* `CadenceTheorem`: `CadenceUnlessRaced`; `CadenceInv` adds that the one save under way
  holds what is stored.

**Connectors** (`Connectors_proofs`), for any time the provider takes, any stock,
page, cap of pages, number of attempts and shift of a list:
`TypeOK ∧ GotInOrder ∧ PagedOnly ∧ Placed ∧ ServicesRead ∧ IdsDistinct ∧ CompleteOrThrown`.
* `CompleteOrThrownTheorem`: `CompleteOrThrown` speaks of a list handed to the sync. While
  a list that has not moved is being read, what there is of it so far is its
  beginning, without a gap (`GotInOrder`); only lists read in pages have a page
  behind them (`PagedOnly`); so the connector stops asking for pages only when it has
  every row, and every list of services behind the current request has been read
  whole or is excused (`ServicesRead`).
* `IdsDistinctTheorem`: `IdsDistinct`. What is collected comes from requests before the
  current one and carries its request's prefix (`Placed`); that two requests of one
  method share a prefix only where the later one skips ids collected already is a
  fact about the catalogue of scripts, gone through connector by connector.
* `RateKeptTheorem`: `RateKept`, connector by connector.

**Rates** (`Money_proofs`): `RatesTypes`; `DowntimeTheorem`: `DowntimeIsFilled`, for any number
of days, restarts and attempts, from
`RatesInv = TypeOK ∧ CallsFit ∧ DowntimeIsFilled ∧ NothingHidden ∧ TodaySeenTo`. The code judges
the archive by its first and last day; that suffices because no unexcused hole
lies before a stored day that is over (`NothingHidden`) and somebody sees to today's
quote while the process is up (`TodaySeenTo`). That a set of days has a first and a
last one is taken from the well-foundedness of `<`. `ManualRateTheorem`: the action
property `ManualRateHoldsUnlessOvertaken`, from what rows a refresh may hold.
`SearchFindsNewest`: the binary search of `asOf`, among any number of sorted days. That
the recursive function which stands for the loop exists at all is shown first, by
way of a smallest counterexample (`lo` and `hi` draw closer at every turn); then, that
between two turns every day below `lo` is not after the target and every day above
`hi` is. `LookupTheorem`: `LookupFindsNewest`; the days loaded are sorted and none is
missing, which is counting: as many places as days, no place taken twice.

**Money** (`Money_proofs`): what is asked is a portfolio, a ledger or an account
(`AskedTheorem`); the rest is about the operators, for any number of services,
accounts, currencies, payments, charges, snapshots, days and months.
* `PartitionTheorem`: `ListsPartition`. The places of the upcoming services by date are
  1 to their number, each taken once, so the list has them all. A total per key is
  what a loop over the services adds to it; the sum of the totals does not depend
  on the order of the keys.
* `TopUpsTheorem`: `TopUpsSuffice`. Charge by charge, an account's balance in base
  currency and that in its own are one amount (`BalancesAgree`), and balances only
  fall (`BalancesFall`). So an account ends below zero in one exactly if in the other;
  what is missing at the end, converted, is what the charges take beyond the
  balance (`TopUpConverted`), and more on the account at first is as much more after
  every charge (`MoreStays`). The property's premise is needed: with a rate unknown
  the code mixes currencies, a conversion that rounds may leave a unit missing (the
  code's has twenty digits), and a negative cost, which the schema allows
  (`src/packages/shared/src/schemas/common.ts:38`), may lift a balance that was short.
* `ChartTheorem`: `ChartAgrees`. Month by month the chart's past is the total spent; the
  first loop of the projection ends at the first repetition of the billing date in
  next month or later (a closed form), and the repetitions the second one counts are
  one to one the days of the month that lie a number of steps from that date.
* `SpendTheorem`: `SpendConserved` and `RunwayWarns`. Daily spend is a table of days by
  charges, or days by intervals, added up day by day; added up the other way
  (`AddedEitherWay`) each charge is on one day (`ChargesConserved`), and what the days
  take of an interval telescopes to what it cost, as do the intervals to what the
  balance fell by (`SnapshotsConserved`). An interval on a day makes the day covered
  (`HitsAreCovered`), so no share is dropped with the days not known. The filter that
  picks the snapshots keeps their order (`KeptInOrder`). The currency picked is the
  best in a strict order of those heard (`MostCommonIsBest`), and the charges in the
  opposite order are as many of each (`ReversedHears`).

**What the proofs changed in the models.** Four properties held only within the
bounds of their runs: `LinksFit` did not excuse a payment entered while a second
request moved the service; Credentials' hiding and saving needed the form's
snapshots (`shot`) to tell what the form had shown, which more than two saves
bring out; `DowntimeIsFilled` did not excuse the start cut short (section 3.3); and `TopUpsSuffice`
did not ask for exact conversions and costs that are no credits. In
each case the model was corrected from the source and the property then proved.

*Only model-checked*: liveness (`SyncEnds`, `AlertsRepeat`, `FetchEnds`), which is out of
the prover's reach. What recursive functions compute for every input would need
induction over data; the proofs reach it by `Induction`, a fact about sets of numbers
that follows from the well-foundedness of `<`.

---

## 5. Not modelled, and why

* **HTTP and formats of the providers**: signatures, number and date formats, type
  definitions. The connectors' control is modelled, their parsing is not. Netcup's
  device authorization is a token that arrives in the form.
* **Layout, tables, filters, translations, charts** of the front end: no state that
  anything depends on. The settings cards copy the settings into their forms
  whenever these are fetched again, so saving one card discards what was typed in
  another; the forms of these cards are not modelled.
* **Shared schemas**: they bound the inputs of the actions.
* **Cryptography**: perfect, apart from a key that was changed. Rate limits, the
  cache of Telegram's signing keys and password hashing are left out.
* **Health and start-up configuration**: no state.
* **The vendor in a service's `meta`** (sync.service.ts:295) and the fitting of merged
  labels into 64 characters (provider-rules.ts:45): text algorithms; Registry's
  `MergedLabels` allows every labelling the latter may produce.
* **Message texts** of the alerts, `sendSamples`, the MCP catalogue's descriptions.

## 6. Plan

Done: the models of all components listed as modelled or partly modelled; the
theorems of section 4, which state every safety property of the passing runs.

Left:

* **Models**: the vendor's three-way comparison in `meta`; the settings cards' forms.
