----------------------------- MODULE AccountSync -----------------------------
(***************************************************************************)
(* The synchronisation of ONE provider account: overlapping calls of       *)
(* SyncService.syncAccount, the owner's edits of the same service rows     *)
(* (ServicesService), the owner deleting the account, and                  *)
(* crashes of the server process.  Every `await` of the code is a step     *)
(* boundary; every SQL statement is atomic; nothing locks the account, so  *)
(* a timer tick and the "sync now" button may run at the same time.        *)
(*                                                                         *)
(* A service row keeps, per editable field (name, type, cost), its value,  *)
(* the owner's override flag and the value the provider last proposed      *)
(* (in meta).  Balances, payments and the icon are other modules' state:   *)
(* here their statements are steps that may fail.                          *)
(***************************************************************************)
EXTENDS Naturals, FiniteSets

CONSTANTS
    Syncs,          \* calls of syncAccount for this account
    Requests,       \* owner requests: PATCH /services/:uuid
    ExtIds,         \* external ids the provider may report
    Uuids,          \* primary keys of service rows
    Fields,         \* the overridable fields in play
    Values,         \* values of a field
    Zero,           \* the price 0.00
    NoVal,          \* null or undefined
    NoExt,          \* externalId IS NULL (a service entered by hand)
    NoUuid,         \* "findByExternalId found nothing"
    NoRow,          \* no row has this primary key
    FETCH_ATTEMPTS, \* tries per fetch
    MaxManual       \* bound: services entered by hand at one time

ASSUME FieldsAssumption == Fields \subseteq {"name", "type", "cost"}
ASSUME ValuesAssumption == Zero \in Values /\ NoVal \notin Values
ASSUME KeysAssumption   == NoExt \notin ExtIds /\ NoUuid \notin Uuids
ASSUME ActorsAssumption == Requests \cap Syncs = {} /\ NoVal \notin Syncs
ASSUME AttemptsAssumption == FETCH_ATTEMPTS \in Nat \ {0}
ASSUME BoundAssumption == MaxManual \in Nat

VARIABLES
    account,    \* the provider_accounts row
    services,   \* the services table of this account
    runs,       \* sync_runs: the status of the row each call created
    pc, tries, aborted,     \* control state of each syncAccount call
    fetched, todo,          \* its fetched list, and the items not yet written
    cur, found, snap,       \* the item in hand and the row read for it
    req,                    \* the owner's requests in flight
    stale, dirty, raced     \* history, see below

dbVars   == <<account, services, runs>>
ctlVars  == <<pc, tries, aborted>>
listVars == <<fetched, todo>>
itemVars == <<cur, found, snap>>
history  == <<stale, dirty, raced>>
vars     == <<dbVars, ctlVars, listVars, itemVars, req, history>>

-----------------------------------------------------------------------------
(* The data.                                                               *)

Maybe(S) == S \cup {NoVal}

Row == [externalId : ExtIds \cup {NoExt}, isManaged : BOOLEAN,
        value : [Fields -> Values], overridden : [Fields -> BOOLEAN],
        synced : [Fields -> Maybe(Values)],
        isActive : BOOLEAN, activeOverridden : BOOLEAN]

ASSUME RowsAssumption == NoRow \notin Row

\* One ServiceData of a connector: only the cost may be unknown.
Item == {i \in [Fields -> Maybe(Values)] : \A f \in Fields \ {"cost"} : i[f] # NoVal}

Lists == UNION {[E -> Item] : E \in SUBSET ExtIds}
EmptyList == [e \in {} |-> NoVal]

\* The body of a PATCH: absent fields are NoVal; clientMeta says whether the
\* vendor or marker it carries changes meta.
Dto == [value : [Fields -> Maybe(Values)], isActive : {"absent", "on", "off"}, clientMeta : BOOLEAN]

Live == {u \in Uuids : services[u] # NoRow}
\* A key nobody refers to stands for one never used before.
Fresh == {u \in Uuids \ Live :
            (\A s \in Syncs : found[s] # u) /\ (\A r \in Requests : req[r].uuid # u)}
RowsOf(e) == {u \in Live : services[u].externalId = e}

NewRequest == [state |-> "idle", uuid |-> NoUuid, existing |-> NoRow]
InFlight == [state : {"write"}, uuid : Uuids, existing : Row]

\* Steps inside syncAccount's try block, and inside its catch block.
FetchSteps == {"fetchAccount", "fetchServices"}
TrySteps   == FetchSteps \cup
              {"balance", "item", "write", "markSynced", "markOk"}
CatchSteps == {"recordError", "markError"}
\* The stretch in which the call relies on its list to describe the table.
ListSteps  == {"item", "write", "markSynced", "markOk"}
Ended      == {"done", "rejected", "crashed"}

-----------------------------------------------------------------------------
(* History.  stale[s]: the row s read for its item in hand was written by  *)
(* somebody else since.  dirty[s]: somebody else wrote a service row since *)
(* s fetched its list.  raced: an update computed from a stale row was     *)
(* applied.                                                                *)

Disturb(me, rows) ==
    /\ stale' = [t \in Syncs |-> stale[t] \/ (t # me /\ pc[t] = "write" /\ found[t] \in rows)]
    /\ dirty' = [t \in Syncs |-> dirty[t] \/ (t # me /\ pc[t] \in ListSteps)]

Goto(s, step) == pc' = [pc EXCEPT ![s] = step]

\* The locals of a call that leaves the try block are dead.
Drop(s) ==
    /\ fetched' = [fetched EXCEPT ![s] = EmptyList]
    /\ todo'    = [todo EXCEPT ![s] = {}]
    /\ cur'     = [cur EXCEPT ![s] = NoExt]
    /\ found'   = [found EXCEPT ![s] = NoUuid]
    /\ snap'    = [snap EXCEPT ![s] = NoRow]
    /\ stale'   = [stale EXCEPT ![s] = FALSE]
    /\ dirty'   = [dirty EXCEPT ![s] = FALSE]
    /\ tries'   = [tries EXCEPT ![s] = 1]
    /\ aborted' = [aborted EXCEPT ![s] = FALSE]

\* Mutant of Catch: the error leaves syncAccount without the catch block.
CatchRethrows(s) == Goto(s, "rejected") /\ Drop(s) /\ UNCHANGED raced

\* `throw` inside the try block.
Catch(s) == Goto(s, "recordError") /\ Drop(s) /\ UNCHANGED raced

-----------------------------------------------------------------------------
Init ==
    /\ account = [exists |-> TRUE, lastSyncError |-> FALSE]
    /\ services = [u \in Uuids |-> NoRow]
    /\ runs = [s \in Syncs |-> "none"]
    /\ pc = [s \in Syncs |-> "idle"]
    /\ tries = [s \in Syncs |-> 1]
    /\ aborted = [s \in Syncs |-> FALSE]
    /\ fetched = [s \in Syncs |-> EmptyList]
    /\ todo = [s \in Syncs |-> {}]
    /\ cur = [s \in Syncs |-> NoExt]
    /\ found = [s \in Syncs |-> NoUuid]
    /\ snap = [s \in Syncs |-> NoRow]
    /\ req = [r \in Requests |-> NewRequest]
    /\ stale = [s \in Syncs |-> FALSE]
    /\ dirty = [s \in Syncs |-> FALSE]
    /\ raced = FALSE

-----------------------------------------------------------------------------
(* SyncService.syncAccount                                                 *)

\* findByUuid and the early returns: no run for a missing account, nor for one
\* the owner has switched off or entered by hand (not told apart here).
ReadAccount(s) ==
    /\ pc[s] = "idle"
    /\ \/ account.exists /\ Goto(s, "createRun")
       \/ Goto(s, "rejected")
    /\ UNCHANGED <<dbVars, tries, aborted, listVars, itemVars, req, history>>

\* The insert fails when the account was deleted after it was read.
CreateRun(s) ==
    /\ pc[s] = "createRun"
    /\ IF account.exists
       THEN runs' = [runs EXCEPT ![s] = "running"] /\ Goto(s, "fetchAccount")
       ELSE Goto(s, "rejected") /\ UNCHANGED runs
    /\ UNCHANGED <<account, services, tries, aborted, listVars, itemVars, req, history>>

\* setTimeout(() => controller.abort(), SYNC_TIMEOUT_MS).  Only a fetch looks at
\* the signal, so an abort during a statement shows at the next fetch.
Timeout(s) ==
    /\ pc[s] \in FetchSteps
    /\ ~aborted[s]
    /\ aborted' = [aborted EXCEPT ![s] = TRUE]
    /\ UNCHANGED <<dbVars, pc, tries, listVars, itemVars, req, history>>

\* Mutant of FetchFails: the attempt counter is never advanced.
FetchFailsUncounted(s) ==
    /\ pc[s] \in FetchSteps
    /\ IF tries[s] >= FETCH_ATTEMPTS
       THEN Catch(s) /\ UNCHANGED <<dbVars, req>>
       ELSE UNCHANGED vars

\* withRetry: a failed fetch is tried again unless the tries or the time are
\* spent.  An aborted signal makes every fetch fail.
FetchFails(s) ==
    /\ pc[s] \in FetchSteps
    /\ IF tries[s] >= FETCH_ATTEMPTS \/ aborted[s]
       THEN Catch(s) /\ UNCHANGED <<dbVars, req>>
       ELSE /\ tries' = [tries EXCEPT ![s] = @ + 1]
            /\ UNCHANGED <<dbVars, pc, aborted, listVars, itemVars, req, history>>

\* The provider's answer has a balance, or none (then nothing is stored).
FetchAccount(s) ==
    /\ pc[s] = "fetchAccount"
    /\ ~aborted[s]
    /\ \E step \in {"balance", "fetchServices"} : Goto(s, step)
    /\ tries' = [tries EXCEPT ![s] = 1]
    /\ UNCHANGED <<dbVars, aborted, listVars, itemVars, req, history>>

\* updateBalance and snapshots.record: both fail without the account.
StoreBalance(s) ==
    /\ pc[s] = "balance"
    /\ IF account.exists
       THEN Goto(s, "fetchServices") /\ UNCHANGED <<tries, aborted, listVars, itemVars, history>>
       ELSE Catch(s)
    /\ UNCHANGED <<dbVars, req>>

FetchServices(s) ==
    /\ pc[s] = "fetchServices"
    /\ ~aborted[s]
    /\ \E list \in Lists :
        /\ fetched' = [fetched EXCEPT ![s] = list]
        /\ todo' = [todo EXCEPT ![s] = DOMAIN list]
    /\ Goto(s, "item")
    /\ tries' = [tries EXCEPT ![s] = 1]
    /\ UNCHANGED <<dbVars, aborted, itemVars, req, history>>

\* upsertServices: const existing = await findByExternalId(...)
ReadItem(s) ==
    /\ pc[s] = "item"
    /\ \E e \in todo[s] :
        /\ cur' = [cur EXCEPT ![s] = e]
        /\ \/ /\ RowsOf(e) = {}
              /\ found' = [found EXCEPT ![s] = NoUuid]
              /\ snap' = [snap EXCEPT ![s] = NoRow]
           \/ \E u \in RowsOf(e) :
                /\ found' = [found EXCEPT ![s] = u]
                /\ snap' = [snap EXCEPT ![s] = services[u]]
    /\ stale' = [stale EXCEPT ![s] = FALSE]
    /\ Goto(s, "write")
    /\ UNCHANGED <<dbVars, tries, aborted, listVars, req, dirty, raced>>

\* `if (sd.cost)`: an unknown price does not replace a stored one.  (A Decimal is an
\* object, so a price of zero does.)
Known(v) == v # NoVal

\* The row services.create inserts for an item.
CreatedRow(e, item) ==
    [externalId |-> e, isManaged |-> TRUE,
     value |-> [f \in Fields |-> IF Known(item[f]) THEN item[f] ELSE Zero],
     overridden |-> [f \in Fields |-> FALSE],
     synced |-> item,
     isActive |-> TRUE, activeOverridden |-> FALSE]

\* Mutants of UpdatedRow: one flag is not looked at.
UpdatedRowUnpins(row, existing, item) ==
    [row EXCEPT
        !.value = [f \in Fields |->
            IF ~existing.overridden[f] /\ Known(item[f]) THEN item[f] ELSE row.value[f]],
        !.synced = item,
        !.isActive = TRUE]

UpdatedRowOverwrites(row, existing, item) ==
    [row EXCEPT
        !.value = [f \in Fields |-> IF Known(item[f]) THEN item[f] ELSE row.value[f]],
        !.synced = item,
        !.isActive = IF existing.activeOverridden THEN row.isActive ELSE TRUE]

\* The row after services.update(existing.uuid, data): what to leave alone is
\* decided by the flags of the row that was read.
UpdatedRow(row, existing, item) ==
    [row EXCEPT
        !.value = [f \in Fields |->
            IF ~existing.overridden[f] /\ Known(item[f]) THEN item[f] ELSE row.value[f]],
        !.synced = item,
        !.isActive = IF existing.activeOverridden THEN row.isActive ELSE TRUE]

ItemWritten(s, u, row) ==
    /\ services' = [services EXCEPT ![u] = row]
    /\ todo' = [todo EXCEPT ![s] = @ \ {cur[s]}]
    /\ cur' = [cur EXCEPT ![s] = NoExt]
    /\ found' = [found EXCEPT ![s] = NoUuid]
    /\ snap' = [snap EXCEPT ![s] = NoRow]
    /\ Goto(s, "item")
    /\ Disturb(s, {u})
    /\ UNCHANGED <<account, runs, tries, aborted, fetched, req>>

\* The insert breaks a constraint when the account is gone or when somebody
\* else inserted the same (account, externalId) since the read.
CreateItem(s) ==
    /\ pc[s] = "write"
    /\ found[s] = NoUuid
    /\ IF account.exists /\ RowsOf(cur[s]) = {}
       THEN \E u \in Fresh :
              /\ ItemWritten(s, u, CreatedRow(cur[s], fetched[s][cur[s]]))
              /\ UNCHANGED raced
       ELSE Catch(s) /\ UNCHANGED <<dbVars, req>>

\* The update fails when the row was deleted since the read.
UpdateItem(s) ==
    /\ pc[s] = "write"
    /\ found[s] # NoUuid
    /\ IF found[s] \in Live
       THEN /\ ItemWritten(s, found[s],
                    UpdatedRow(services[found[s]], snap[s], fetched[s][cur[s]]))
            /\ raced' = (raced \/ stale[s])
       ELSE Catch(s) /\ UNCHANGED <<dbVars, req>>

\* Mutant of NotIn: nothing is missing from an empty list.
NotInNonEmpty(e, list) == list # {} /\ e # NoExt /\ e \notin list

\* SQL `external_id NOT IN (list)`: true of every row for an empty list, and
\* never true of a NULL otherwise.
NotIn(e, list) == list = {} \/ (e # NoExt /\ e \notin list)

\* Mutant of Missing: services entered by hand are not spared.
MissingAny(s) == {u \in Live : NotIn(services[u].externalId, DOMAIN fetched[s])}

\* deactivateMissing: one UPDATE over the whole account.
Missing(s) ==
    {u \in Live : services[u].isManaged /\ NotIn(services[u].externalId, DOMAIN fetched[s])}

DeactivateMissing(s) ==
    /\ pc[s] = "item"
    /\ todo[s] = {}
    /\ services' = [u \in Uuids |->
            IF u \in Missing(s) THEN [services[u] EXCEPT !.isActive = FALSE] ELSE services[u]]
    /\ Disturb(s, Missing(s))
    /\ Goto(s, "markSynced")
    /\ UNCHANGED <<account, runs, tries, aborted, listVars, itemVars, req, raced>>

MarkSynced(s) ==
    /\ pc[s] = "markSynced"
    /\ IF account.exists
       THEN /\ account' = [account EXCEPT !.lastSyncError = FALSE]
            /\ Goto(s, "markOk")
            /\ UNCHANGED <<tries, aborted, listVars, itemVars, history>>
       ELSE Catch(s) /\ UNCHANGED account
    /\ UNCHANGED <<services, runs, req>>

MarkOk(s) ==
    /\ pc[s] = "markOk"
    /\ IF runs[s] = "running"
       THEN runs' = [runs EXCEPT ![s] = "ok"] /\ Goto(s, "done") /\ Drop(s) /\ UNCHANGED raced
       ELSE Catch(s) /\ UNCHANGED runs
    /\ UNCHANGED <<account, services, req>>

\* Anything else the try block may throw: no token, an undecryptable token, a
\* malformed answer, a lost database connection.
Throw(s) ==
    /\ pc[s] \in TrySteps
    /\ Catch(s)
    /\ UNCHANGED <<dbVars, req>>

\* Mutant of RecordSyncError: the failure is not stored.
RecordSyncErrorLost(s) ==
    /\ pc[s] = "recordError"
    /\ Goto(s, "markError")
    /\ UNCHANGED <<dbVars, tries, aborted, listVars, itemVars, req, history>>

\* The catch block.  recordSyncError swallows its own failure, markError does not.
RecordSyncError(s) ==
    /\ pc[s] = "recordError"
    /\ account' = IF account.exists THEN [account EXCEPT !.lastSyncError = TRUE] ELSE account
    /\ Goto(s, "markError")
    /\ UNCHANGED <<services, runs, tries, aborted, listVars, itemVars, req, history>>

MarkError(s) ==
    /\ pc[s] = "markError"
    /\ IF runs[s] = "running"
       THEN runs' = [runs EXCEPT ![s] = "error"] /\ Goto(s, "done")
       ELSE Goto(s, "rejected") /\ UNCHANGED runs
    /\ UNCHANGED <<account, services, tries, aborted, listVars, itemVars, req, history>>

-----------------------------------------------------------------------------
(* ServicesService and the account's own operations, as the owner calls    *)
(* them from the panel.  (req: the row was read, the PATCH is not written.) *)

ReadForUpdate(r) ==
    /\ req[r].state = "idle"
    /\ \E u \in Live :
        req' = [req EXCEPT ![r] = [state |-> "write", uuid |-> u, existing |-> services[u]]]
    /\ UNCHANGED <<dbVars, ctlVars, listVars, itemVars, history>>

\* What the provider last proposed for a field, as far as the row can tell.
Baseline(existing, f) ==
    IF existing.synced[f] # NoVal THEN existing.synced[f]
    ELSE IF ~existing.overridden[f] THEN existing.value[f] ELSE NoVal

\* meta.synced* after the PATCH: seeded with the baseline of every field sent.
PatchedMeta(existing, dto) ==
    [f \in Fields |->
        IF dto.value[f] # NoVal /\ Baseline(existing, f) # NoVal
        THEN Baseline(existing, f) ELSE existing.synced[f]]

\* The override flag of a field sent: set when it leaves the baseline, cleared
\* when it is back; without a baseline an edit only ever sets it.
PatchedFlag(row, existing, dto, f) ==
    IF Baseline(existing, f) # NoVal THEN dto.value[f] # Baseline(existing, f)
    ELSE dto.value[f] # existing.value[f] \/ row.overridden[f]

\* The row after the PATCH.  A column is written only when the form's value
\* differs from the row that was READ, and meta is written as a whole.
PatchedRow(row, existing, dto) ==
    [row EXCEPT
        !.value = [f \in Fields |->
            IF dto.value[f] \notin {NoVal, existing.value[f]} THEN dto.value[f] ELSE row.value[f]],
        !.overridden = [f \in Fields |->
            IF dto.value[f] # NoVal THEN PatchedFlag(row, existing, dto, f) ELSE row.overridden[f]],
        !.synced =
            IF dto.clientMeta \/ PatchedMeta(existing, dto) # existing.synced
            THEN PatchedMeta(existing, dto) ELSE row.synced,
        !.isActive = IF dto.isActive = "absent" THEN row.isActive ELSE dto.isActive = "on",
        !.activeOverridden =
            IF dto.isActive = "absent" THEN row.activeOverridden ELSE dto.isActive = "off"]

UpdateService(r, dto) ==
    /\ req[r].state = "write"
    /\ LET q == req[r] IN
        IF q.uuid \in Live
        THEN /\ services' = [services EXCEPT ![q.uuid] = PatchedRow(@, q.existing, dto)]
             /\ Disturb(r, {q.uuid})
        ELSE UNCHANGED <<services, stale, dirty>>
    /\ req' = [req EXCEPT ![r] = NewRequest]
    /\ UNCHANGED <<account, runs, ctlVars, listVars, itemVars, raced>>

\* ServicesService.create: a service entered by hand, never managed.
CreateManual(u, value, active) ==
    /\ account.exists
    /\ u \in Fresh
    /\ Cardinality({w \in Live : ~services[w].isManaged}) < MaxManual
    /\ services' = [services EXCEPT ![u] =
            [externalId |-> NoExt, isManaged |-> FALSE,
             value |-> value, overridden |-> [f \in Fields |-> FALSE],
             synced |-> [f \in Fields |-> NoVal],
             isActive |-> active, activeOverridden |-> FALSE]]
    /\ Disturb(NoVal, {u})
    /\ UNCHANGED <<account, runs, ctlVars, listVars, itemVars, req, raced>>

RemoveService(u) ==
    /\ u \in Live
    /\ services' = [services EXCEPT ![u] = NoRow]
    /\ Disturb(NoVal, {u})
    /\ UNCHANGED <<account, runs, ctlVars, listVars, itemVars, req, raced>>

\* Deleting the account (or its provider) cascades to everything it owns.
DeleteAccount ==
    /\ account.exists
    /\ account' = [exists |-> FALSE, lastSyncError |-> FALSE]
    /\ services' = [u \in Uuids |-> NoRow]
    /\ runs' = [s \in Syncs |-> "none"]
    /\ Disturb(NoVal, Live)
    /\ UNCHANGED <<ctlVars, listVars, itemVars, req, raced>>

\* The process dies and is started again: calls and requests in flight are
\* gone, rows stay, and nothing at start-up looks at the runs left behind.
Crash ==
    /\ \E s \in Syncs : pc[s] \notin Ended \cup {"idle"}
    /\ pc' = [s \in Syncs |-> IF pc[s] \in Ended \cup {"idle"} THEN pc[s] ELSE "crashed"]
    /\ tries' = [s \in Syncs |-> 1]
    /\ aborted' = [s \in Syncs |-> FALSE]
    /\ fetched' = [s \in Syncs |-> EmptyList]
    /\ todo' = [s \in Syncs |-> {}]
    /\ cur' = [s \in Syncs |-> NoExt]
    /\ found' = [s \in Syncs |-> NoUuid]
    /\ snap' = [s \in Syncs |-> NoRow]
    /\ stale' = [s \in Syncs |-> FALSE]
    /\ dirty' = [s \in Syncs |-> FALSE]
    /\ req' = [r \in Requests |-> NewRequest]
    /\ UNCHANGED <<dbVars, raced>>

-----------------------------------------------------------------------------
\* A step the running program takes by itself once the call is under way.
Proceed(s) ==
    \/ CreateRun(s)
    \/ StoreBalance(s)
    \/ ReadItem(s)
    \/ CreateItem(s)
    \/ UpdateItem(s)
    \/ DeactivateMissing(s)
    \/ MarkSynced(s)
    \/ MarkOk(s)
    \/ RecordSyncError(s)
    \/ MarkError(s)

SyncStep(s) ==
    \/ ReadAccount(s)
    \/ FetchAccount(s)
    \/ FetchServices(s)
    \/ FetchFails(s)
    \/ Timeout(s)
    \/ Throw(s)
    \/ Proceed(s)

OwnerStep ==
    \/ \E r \in Requests : ReadForUpdate(r) \/ \E dto \in Dto : UpdateService(r, dto)
    \/ \E u \in Uuids, v \in [Fields -> Values], a \in BOOLEAN : CreateManual(u, v, a)
    \/ \E u \in Uuids : RemoveService(u)
    \/ DeleteAccount

Next ==
    \/ \E s \in Syncs : SyncStep(s)
    \/ OwnerStep
    \/ Crash

Spec == Init /\ [][Next]_vars

\* The timer fires, an aborted fetch rejects, and the event loop runs the
\* continuation of every finished statement.  A fetch that is neither answered
\* nor aborted is owed nothing.
Fairness ==
    \A s \in Syncs :
        /\ WF_vars(Timeout(s))
        /\ WF_vars(Proceed(s))
        /\ WF_vars(aborted[s] /\ FetchFails(s))

FairSpec == Spec /\ Fairness

-----------------------------------------------------------------------------
(* Properties.                                                             *)

\* Every variable holds what its table or local may hold.
TypeOK ==
    /\ account \in [exists : BOOLEAN, lastSyncError : BOOLEAN]
    /\ services \in [Uuids -> Row \cup {NoRow}]
    /\ runs \in [Syncs -> {"none", "running", "ok", "error"}]
    /\ pc \in [Syncs -> {"idle", "createRun"} \cup TrySteps \cup CatchSteps \cup Ended]
    /\ tries \in [Syncs -> 1 .. FETCH_ATTEMPTS]
    /\ aborted \in [Syncs -> BOOLEAN]
    /\ fetched \in [Syncs -> Lists]
    /\ todo \in [Syncs -> SUBSET ExtIds]
    /\ cur \in [Syncs -> ExtIds \cup {NoExt}]
    /\ found \in [Syncs -> Uuids \cup {NoUuid}]
    /\ snap \in [Syncs -> Row \cup {NoRow}]
    /\ req \in [Requests -> InFlight \cup {NewRequest}]
    /\ stale \in [Syncs -> BOOLEAN]
    /\ dirty \in [Syncs -> BOOLEAN]
    /\ raced \in BOOLEAN

\* A run is left in status "running" only by a call still at work or by a
\* crash: however the account is deleted or its steps fail, a call of
\* syncAccount that ends has settled its run or the run is gone with the account.
RunsSettle ==
    \A s \in Syncs :
        /\ runs[s] = "running" => pc[s] \in TrySteps \cup CatchSteps \cup {"crashed"}
        /\ pc[s] = "done" /\ account.exists => runs[s] \in {"ok", "error"}

\* Failures show on the account's card: when every run recorded so far failed,
\* lastSyncError is set, however the calls overlapped.
FailureShows ==
    account.exists /\ (\E s \in Syncs : runs[s] = "error")
                   /\ (\A s \in Syncs : runs[s] \in {"none", "error"})
    => account.lastSyncError

\* A sync switches a service off only when it is a managed one, the whole list
\* was applied before, and the list does not contain it: a sync that fails half
\* way, or an empty list, never switches off a service entered by hand or one
\* the provider did report.
OnlyFullListDeactivates ==
    [][\A s \in Syncs, u \in Uuids :
        (/\ pc'[s] # pc[s]
         /\ services[u] # NoRow /\ services'[u] # NoRow
         /\ services[u].isActive /\ ~services'[u].isActive)
        => /\ services[u].isManaged
           /\ todo[s] = {}
           /\ services[u].externalId \notin DOMAIN fetched[s]]_vars

\* An update computed from a row nobody wrote in between leaves every field the
\* owner edited as it is ("Don't overwrite a manually-edited name / type / price").
FreshUpdateKeepsEdits ==
    [][\A s \in Syncs : \A u \in Uuids :
        (/\ pc[s] = "write" /\ pc'[s] = "item" /\ found[s] = u /\ ~stale[s])
        => \A f \in Fields :
            services[u].overridden[f] => services'[u].value[f] = services[u].value[f]]_vars

\* Unless an update computed from a stale row was applied, a service the owner
\* switched off is off, whatever syncs, edits and crashes came after.
PinHoldsUnlessRaced ==
    ~raced => \A u \in Live : services[u].activeOverridden => ~services[u].isActive

\* The table shows a list: every item has its row, switched on unless the owner
\* switched it off and with the provider's figures where the owner has none,
\* and no other managed service is on.
Mirrors(list) ==
    /\ \A e \in DOMAIN list : \E u \in RowsOf(e) :
        /\ services[u].isActive \/ services[u].activeOverridden
        /\ services[u].synced = list[e]
        /\ \A f \in Fields :
            services[u].overridden[f] \/ ~Known(list[e][f]) \/ services[u].value[f] = list[e][f]
    /\ \A u \in Live :
        services[u].isManaged /\ services[u].isActive => services[u].externalId \in DOMAIN list

\* When a sync that nobody disturbed since its fetch comes to mark the account
\* synced, the services of the account are the provider's list.
CleanSyncMirrors ==
    \A s \in Syncs :
        pc[s] \in {"markSynced", "markOk"} /\ ~dirty[s] => Mirrors(fetched[s])

\* Every call of syncAccount under way comes to an end, even when the provider
\* never answers: the 120 s timer aborts the fetch and withRetry gives up.
SyncEnds == \A s \in Syncs : pc[s] # "idle" ~> pc[s] \in Ended
=============================================================================
