------------------------------- MODULE Panel -------------------------------
(***************************************************************************)
(* What the panel shows (apps/frontend/src): pages and dialogs read cached *)
(* queries, mutations write tables on the server and then invalidate the   *)
(* queries their authors thought of.  Queries do not depend on each other, *)
(* so one query is watched, and of it the part that comes from one table.  *)
(* The cache is TanStack Query's, as App.tsx configures it.                *)
(***************************************************************************)
EXTENDS Naturals, FiniteSets

CONSTANTS
    MaxCommits,   \* bound: mutations committed
    None

VARIABLES
    watched,   \* <<query, table>>
    version,   \* how often mutations changed that part on the server
    data,      \* the version in the cache, or None
    fetch,     \* the query's request: idle, sent, or answered with a version
    invalid,   \* marked for refetching when it is next mounted
    page, palette,
    change,    \* None, or the mutation under way
    excuse     \* why the cache may be behind: see UpToDateUnlessExcused

vars == <<watched, version, data, fetch, invalid, page, palette, change, excuse>>

----------------------------------------------------------------------------
(* Pages: what they show of which query, and the mutations they offer.     *)

Of(query, tables) == {query} \X tables
Everything == {"providers", "accounts", "services", "payments", "projects", "rates", "settings"}
Identity   == Of("providers", {"providers", "accounts"})
Prices     == Of("rates", {"rates"}) \cup Of("settings", {"settings"})

LoginPage == [shows |-> Of("setupStatus", {"methods"}) \cup Of("me", {"username"}), offers |-> {"useLogin"}]
DashboardPage ==
    [shows  |-> Of("summary", Everything) \cup Of("forecast", Everything) \cup Identity \cup Of("projects", {"projects"}),
     offers |-> {"useSyncAllProviders"}]
LastSyncCard     == [shows |-> {}, offers |-> {"useSyncAccount"}]
SpendByMonthCard == [shows |-> Of("settings", {"settings"}), offers |-> {}]
ProvidersPage ==
    [shows  |-> Of("providers", {"providers", "accounts", "services", "payments"}) \cup Prices,
     offers |-> {"useSyncAccount", "useSyncAllProviders"}]
ProviderFormModal    == [shows |-> {}, offers |-> {"useCreateProvider"}]
ProviderDetailModal  == [shows |-> Of("account-spend", {"accounts", "payments", "rates"}),
                         offers |-> {"useUpdateProvider", "useDeleteProvider"}]
ProviderAccountModal == [shows |-> {}, offers |-> {"useCreateProviderAccount", "useUpdateProviderAccount"}]
AccountCard          == [shows |-> Of("sync-runs", {"runs"}),
                         offers |-> {"useUpdateProviderAccount", "useDeleteProviderAccount", "useSyncAccount"}]
BalanceHistoryChart  == [shows |-> Of("balance-history", {"snapshots"}), offers |-> {}]
AccountSpend         == [shows |-> Of("account-spend", {"accounts", "payments", "rates"}), offers |-> {}]
MergeProviderDialog  == [shows |-> {}, offers |-> {"useMergeProvider"}]
ProjectsPage ==
    [shows  |-> Of("projects", {"projects", "services"}),
     offers |-> {"useCreateProject", "useUpdateProject", "useDeleteProject", "useMoveAllToProject", "useEmptyProject"}]
ServicesPage ==
    [shows  |-> Of("services", {"services", "payments"}) \cup Identity \cup Of("projects", {"projects"}) \cup Prices,
     offers |-> {"useCreateService", "useUpdateService", "useDeleteService", "useCreatePayment"}]
ServicePaymentsModal == [shows |-> Of("payments", {"payments"}), offers |-> {}]
PaymentsPage ==
    [shows  |-> Of("payments", {"payments"}) \cup Identity \cup Of("services", {"services"}),
     offers |-> {"useCreatePayment", "useDeletePayment"}]
GeneralSettingsCard  == [shows |-> Of("settings", {"settings"}), offers |-> {"useUpdateSettings"}]
TelegramSettingsCard == [shows |-> Of("settings", {"settings"}), offers |-> {"useUpdateSettings"}]
ForecastSettingsCard == [shows |-> Of("settings", {"settings"}) \cup Of("providers", {"providers"}),
                         offers |-> {"useUpdateSettings"}]
RatesCard            == [shows |-> Of("rates", {"rates"}), offers |-> {"useAddRate", "useRefreshRates", "useBackfillRates"}]
AuthSettingsPage ==
    [shows  |-> Of("authConfig", {"username", "methods"}) \cup Of("passkeys", {"passkeys"}),
     offers |-> {"useUpdateAuthConfig", "useRegisterPasskey", "useDeletePasskey", "useTelegramUnlink"}]
TokensPage == [shows |-> Of("tokens", {"tokens"}), offers |-> {"useCreateToken", "useDeleteToken"}]

\* On every page but the login: the sidebar, and the palette that reads two lists
\* also while it is closed.
SidebarParts   == Of("providers", {"accounts"}) \cup Of("summary", {"services", "payments", "rates", "settings"})
                  \cup Of("me", {"username"})
CommandPalette == Identity \cup Of("projects", {"projects", "services"}) \cup Of("services", {"services"})
PaletteMounted == {"providers", "projects"}

\* The routes, and the dialogs that open over a page.
Routes ==
    [login     |-> {LoginPage},
     dashboard |-> {DashboardPage, LastSyncCard, SpendByMonthCard},
     providers |-> {ProvidersPage, ProviderFormModal},
     provider  |-> {ProvidersPage, ProviderDetailModal, ProviderAccountModal, AccountCard, BalanceHistoryChart,
                    AccountSpend, MergeProviderDialog},
     projects  |-> {ProjectsPage},
     services  |-> {ServicesPage},
     service   |-> {ServicesPage, ServicePaymentsModal},
     payments  |-> {PaymentsPage},
     settings  |-> {GeneralSettingsCard, TelegramSettingsCard, ForecastSettingsCard, RatesCard},
     auth      |-> {AuthSettingsPage},
     tokens    |-> {TokensPage}]
Pages == DOMAIN Routes

Shown(p, open) == (UNION {x.shows : x \in Routes[p]})
                  \cup (IF p = "login" THEN {} ELSE SidebarParts \cup (IF open THEN CommandPalette ELSE {}))
Mounted(p, open, q) == (\E s \in Shown(p, open) : s[1] = q) \/ (p # "login" /\ q \in PaletteMounted)
\* What another page, a dialog or the palette mounts that was not there before.
Mounts(p, open, q) == \/ \E x \in Routes[p] \ Routes[page] : \E s \in x.shows : s[1] = q
                      \/ open /\ ~palette /\ q = "services"
Offered(p, open) == (UNION {x.offers : x \in Routes[p]}) \cup (IF open THEN {"useSyncAllProviders"} ELSE {})
Mutations == UNION {Offered(p, TRUE) : p \in Pages}

----------------------------------------------------------------------------
(* Mutations (api/): the tables they write and the queries they invalidate. *)

Analytics == {"summary", "forecast", "account-spend"}

\* providers.ts
AfterAccountEdit   == {"providers"} \cup Analytics
AfterAccountDelete == {"providers", "services", "payments"} \cup Analytics
AfterSync          == {"providers", "services", "payments", "sync-runs"} \cup Analytics
\* projects.ts, services.ts, payments.ts, rates.ts, settings.ts
AfterProjectEdit  == {"projects", "services"} \cup Analytics
AfterServiceEdit  == {"services"} \cup Analytics
AfterPaymentEdit  == {"payments", "services"} \cup Analytics
AfterManualRate   == {"rates"}
AfterRates        == {"rates"} \cup Analytics
AfterSettings     == {"settings"} \cup Analytics
\* authSettings.ts, tokens.ts
AfterAuthConfig   == {"me", "setupStatus"}
AfterPasskeyAdded == {"passkeys", "authConfig"}
AfterPasskeyGone  == {"passkeys"}
AfterUnlink       == {"authConfig", "setupStatus"}
AfterToken        == {"tokens"}

Invalidates(m) ==
    CASE m \in {"useCreateProvider", "useUpdateProvider", "useCreateProviderAccount", "useUpdateProviderAccount"} -> AfterAccountEdit
      [] m \in {"useDeleteProvider", "useMergeProvider", "useDeleteProviderAccount"} -> AfterAccountDelete
      [] m \in {"useSyncAccount", "useSyncAllProviders"} -> AfterSync
      [] m \in {"useCreateProject", "useUpdateProject", "useDeleteProject", "useMoveAllToProject", "useEmptyProject"} -> AfterProjectEdit
      [] m \in {"useCreateService", "useUpdateService", "useDeleteService"} -> AfterServiceEdit
      [] m \in {"useCreatePayment", "useDeletePayment"} -> AfterPaymentEdit
      [] m = "useAddRate" -> AfterManualRate
      [] m \in {"useRefreshRates", "useBackfillRates"} -> AfterRates
      [] m = "useUpdateSettings" -> AfterSettings
      [] m = "useUpdateAuthConfig" -> AfterAuthConfig
      [] m = "useRegisterPasskey" -> AfterPasskeyAdded
      [] m = "useDeletePasskey" -> AfterPasskeyGone
      [] m = "useTelegramUnlink" -> AfterUnlink
      [] m \in {"useCreateToken", "useDeleteToken"} -> AfterToken
      [] OTHER -> {}

\* Of the rows a deletion takes along, those of what is still shown.
Writes(m) ==
    CASE m = "useCreateProvider" -> {"providers", "accounts"}
      [] m = "useUpdateProvider" -> {"providers"}
      [] m \in {"useCreateProviderAccount", "useUpdateProviderAccount"} -> {"accounts"}
      [] m \in {"useDeleteProvider", "useMergeProvider"} -> {"providers", "accounts", "services", "payments"}
      [] m = "useDeleteProviderAccount" -> {"accounts", "services", "payments"}
      [] m \in {"useSyncAccount", "useSyncAllProviders"} ->
            {"providers", "accounts", "services", "payments", "snapshots", "runs"}
      [] m \in {"useCreateProject", "useUpdateProject"} -> {"projects"}
      [] m = "useDeleteProject" -> {"projects", "services"}
      [] m \in {"useMoveAllToProject", "useEmptyProject", "useCreateService"} -> {"services"}
      \* A service that moves to another account takes its payments along; those of a
      \* deleted one lose their link.
      [] m \in {"useUpdateService", "useDeleteService"} -> {"services", "payments"}
      [] m \in {"useCreatePayment", "useDeletePayment"} -> {"payments"}
      [] m \in {"useAddRate", "useRefreshRates", "useBackfillRates"} -> {"rates"}
      [] m = "useUpdateSettings" -> {"settings"}
      [] m = "useUpdateAuthConfig" -> {"username", "methods"}
      [] m = "useTelegramUnlink" -> {"methods"}
      [] m \in {"useRegisterPasskey", "useDeletePasskey"} -> {"passkeys"}
      [] m \in {"useCreateToken", "useDeleteToken"} -> {"tokens"}
      [] OTHER -> {}

\* The syncs invalidate when they are settled, the others when they succeeded.
OnSettled(m) == m \in {"useSyncAccount", "useSyncAllProviders"}

----------------------------------------------------------------------------
(* The cache (TanStack Query).                                             *)

Query == watched[1]
Table == watched[2]
Idle  == [at |-> "idle"]
Sent  == [at |-> "sent"]

\* A mounted query is fetched, unless it is fresh; a request under way is shared.
\* ["me"] stays fresh for a minute, which is for ever here.
OnMount == IF fetch = Idle /\ (Query # "me" \/ data = None \/ invalid) THEN Sent ELSE fetch

\* Mutant: a request under way is not sent again.
Joined == IF fetch = Idle THEN Sent ELSE fetch
\* invalidateQueries, of a query that is mounted: a request under way is dropped and
\* sent again, except the very first one.
Refetched == IF fetch = Idle \/ data # None THEN Sent ELSE fetch

\* What is shown when the app opens.
Init ==
    /\ watched \in UNION {Shown(p, TRUE) : p \in Pages}
    /\ version = 0 /\ data = None /\ invalid = FALSE
    /\ page \in Pages /\ palette = FALSE
    /\ fetch = IF Mounted(page, FALSE, Query) THEN Sent ELSE Idle
    /\ change = None
    /\ excuse = {}

\* Another page or dialog, or the palette: what is mounted anew is fetched.
Show(p, open) ==
    /\ <<p, open>> # <<page, palette>> /\ p # "login" /\ page # "login"
    /\ page' = p /\ palette' = open
    /\ fetch' = IF Mounts(p, open, Query) THEN OnMount ELSE fetch
    /\ UNCHANGED <<watched, version, data, invalid, change, excuse>>

\* useLogin: ["me"] is set from the answer.
Login ==
    /\ page = "login"
    /\ page' = "dashboard" /\ palette' = FALSE
    /\ data' = IF Query = "me" THEN version ELSE data
    /\ fetch' = IF Query # "me" /\ Mounted("dashboard", FALSE, Query) THEN OnMount ELSE fetch
    /\ UNCHANGED <<watched, version, invalid, change, excuse>>

\* useLogout: the cache is cleared, requests under way have nobody to report to.
Logout ==
    /\ page # "login" /\ change = None
    /\ page' = "login" /\ palette' = FALSE
    /\ data' = None /\ invalid' = FALSE /\ excuse' = {}
    /\ fetch' = IF Mounted("login", FALSE, Query) THEN Sent ELSE Idle
    /\ UNCHANGED <<watched, version, change>>

\* A request is answered 401 (client.ts): the panel is loaded anew at the login.
SignedOut ==
    /\ page # "login"
    /\ page' = "login" /\ palette' = FALSE
    /\ data' = None /\ invalid' = FALSE /\ excuse' = {} /\ change' = None
    /\ fetch' = IF Mounted("login", FALSE, Query) THEN Sent ELSE Idle
    /\ UNCHANGED <<watched, version>>

\* The server reads the tables, and the answer arrives; who is signed in belongs in
\* the app (LoginPage).
Answer ==
    /\ fetch.at = "sent"
    /\ fetch' = [at |-> "answered", version |-> version]
    /\ UNCHANGED <<watched, version, data, invalid, page, palette, change, excuse>>
Arrive ==
    /\ fetch.at = "answered"
    /\ data' = fetch.version /\ fetch' = Idle /\ invalid' = FALSE
    /\ excuse' = IF fetch.version = version THEN {} ELSE excuse \ {"failed"}
    /\ page' = IF Query = "me" /\ page = "login" THEN "dashboard" ELSE page
    /\ UNCHANGED <<watched, version, palette, change>>
\* A request that failed twice leaves the old data; RequireAuth sends whom it cannot
\* identify to the login, where ["me"] is mounted again.
FetchFails ==
    /\ fetch # Idle
    /\ LET out == Query = "me" /\ page # "login"
       IN  /\ fetch' = IF out /\ (data = None \/ invalid) THEN Sent ELSE Idle
           /\ page' = IF out THEN "login" ELSE page
           /\ palette' = IF out THEN FALSE ELSE palette
    /\ excuse' = excuse \cup {"failed"}
    /\ UNCHANGED <<watched, version, data, invalid, change>>

----------------------------------------------------------------------------
(* Mutations.                                                              *)

\* Bound: of the mutations, those that write what is watched.  One that only
\* invalidates it makes the cache newer, never older.
Mutate(m) ==
    /\ change = None /\ m \in Offered(page, palette) /\ Table \in Writes(m)
    /\ change' = [of |-> m, committed |-> FALSE, version |-> 0]
    /\ UNCHANGED <<watched, version, data, fetch, invalid, page, palette, excuse>>

\* Known gaps: mutations that write what a query shows and do not invalidate it.
\* A rate entered by hand moves every total; a sync adds to the balance history;
\* the counts in the lists of projects and providers; the payments of a service.
Unannounced(m, q, t) ==
    \/ m = "useAddRate" /\ q \in Analytics /\ t = "rates"
    \/ OnSettled(m) /\ q = "balance-history"
    \/ q = "projects" /\ t = "services"
    \/ q = "providers" /\ t \in {"services", "payments"}
    \/ m \in {"useUpdateService", "useDeleteService"} /\ q = "payments"
    \/ m = "useUpdateAuthConfig" /\ q = "authConfig"

Commit ==
    /\ change # None /\ ~change.committed
    /\ version < MaxCommits
    /\ version' = version + 1
    /\ change' = [change EXCEPT !.committed = TRUE, !.version = version']
    /\ UNCHANGED <<watched, data, fetch, invalid, page, palette, excuse>>

\* The answer runs onSuccess or onSettled, also when the page was left since.
Invalidated ==
    /\ invalid' = TRUE
    /\ fetch' = IF Mounted(page, palette, Query) THEN Refetched ELSE fetch
    /\ excuse' = excuse
         \* a request the server answered before the commit is still under way
         \cup (IF fetch.at = "answered" /\ fetch.version < version /\ (data = None \/ ~Mounted(page, palette, Query))
               THEN {"overtaken"} ELSE {})

Succeed ==
    /\ change # None /\ change.committed
    /\ LET m == change.of
           sets == m = "useUpdateAuthConfig" /\ Query = "authConfig"
       IN  /\ data' = IF sets THEN change.version ELSE data
           /\ IF Query \in Invalidates(m) THEN Invalidated
              ELSE /\ UNCHANGED <<fetch, invalid>>
                   /\ excuse' = IF sets THEN (IF fetch = Idle THEN {} ELSE {"overtaken"})
                                ELSE IF Unannounced(m, Query, Table) THEN excuse \cup {"gap"}
                                ELSE excuse
    /\ change' = None
    /\ UNCHANGED <<watched, version, page, palette>>

\* Refused, or the connection broke before or after the commit.
Fail ==
    /\ change # None
    /\ LET m == change.of
       IN  IF OnSettled(m) /\ Query \in Invalidates(m) THEN Invalidated
           ELSE /\ UNCHANGED <<fetch, invalid>>
                /\ excuse' = IF change.committed THEN excuse \cup {"lost"} ELSE excuse
    /\ change' = None
    /\ UNCHANGED <<watched, version, data, page, palette>>

Next ==
    \/ \E p \in Pages, open \in BOOLEAN : Show(p, open)
    \/ Login \/ Logout \/ SignedOut \/ Answer \/ Arrive \/ FetchFails
    \/ \E m \in Mutations : Mutate(m)
    \/ Commit \/ Succeed \/ Fail

Spec == Init /\ [][Next]_vars

----------------------------------------------------------------------------
\* Once the panel has nothing under way, what it shows includes everything it did
\* itself, wherever it was done: on another page, in a dialog since closed, before
\* or during a load.  Excused are a mutation whose answer was lost (unless it is a
\* sync), a refetch that failed, a load answered before the change that nobody could
\* cancel (the query's first, or one of a page since left), and the known gaps.
UpToDateUnlessExcused ==
    change = None /\ fetch = Idle /\ excuse = {} /\ watched \in Shown(page, palette) => data = version
=============================================================================
