------------------------------- MODULE Ledger -------------------------------
(***************************************************************************)
(* The tables that hang on accounts and projects: services and payments.   *)
(* Services and payments entered by hand, moved, deleted; projects emptied *)
(* and deleted; the payment import of a sync; accounts merged under        *)
(* another provider or deleted.  A request reads in one step and writes in *)
(* another; a transaction of two statements is two steps, whose effect     *)
(* others see at the commit, the rows it updated being locked meanwhile.   *)
(*                                                                         *)
(* Both tables repeat the provider of the account they belong to; a        *)
(* composite foreign key (account, provider), cascading on update and      *)
(* delete, holds the two together.                                         *)
(***************************************************************************)
EXTENDS Naturals, FiniteSets

CONSTANTS
    Accounts, Providers, Projects, Services, Payments,  \* primary keys
    Default,    \* DEFAULT_PROJECT_UUID
    ExtIds,     \* external ids of services
    ChargeIds,  \* external ids of ledger records
    Requests,   \* owner's requests of more than one step
    Work,       \* bound: the operations each of them is used for
    Imports,    \* syncs of an account, seen from the payment import on
    None        \* no row, NULL

ASSUME LedgerAssumption ==
    /\ Default \in Projects
    /\ None \notin Accounts \cup Providers \cup Projects \cup Services \cup ExtIds \cup ChargeIds \cup Imports

VARIABLES
    account,    \* provider_accounts: the provider of each account
    projects,   \* the projects that exist
    service,    \* the services table
    payment,    \* the payments table
    req,        \* requests in flight
    imp,        \* imports in flight
    foreign,    \* history: payments linked across accounts when they were entered
    disturbed   \* history: imports during which somebody else changed their account

tables  == <<account, projects, service, payment>>
history == <<foreign, disturbed>>
vars    == <<tables, req, imp, history>>

-----------------------------------------------------------------------------
(* Rows and requests.                                                      *)

ServiceRow == [account : Accounts, provider : Providers, project : Projects, externalId : ExtIds \cup {None}]
PaymentRow == [account : Accounts, provider : Providers, service : Services \cup {None},
               externalId : ChargeIds \cup {None}]
ASSUME RowsAssumption == None \notin ServiceRow \cup PaymentRow
\* What a connector's fetchPayments returns: records, each naming a service or none.
Ledgers == UNION {[C -> ExtIds \cup {None}] : C \in SUBSET ChargeIds}

Idle == [op |-> "idle"]
Request ==
    {Idle}
    \cup [op : {"pay"}, account : Accounts, provider : Providers, service : Services \cup {None}]
    \cup [op : {"add"}, account : Accounts, provider : Providers, project : Projects]
    \cup [op : {"move", "moving"}, uuid : Services, account : Accounts, provider : Providers,
          rows : SUBSET Payments]
    \cup [op : {"drop"}, project : Projects, rows : SUBSET Services]
Import ==
    {Idle}
    \cup [op : {"sync"}, account : Accounts, provider : Providers]
    \cup [op : {"import"}, account : Accounts, provider : Providers, list : Ledgers,
          links : UNION {[E -> Services] : E \in SUBSET ExtIds}, todo : SUBSET ChargeIds]
    \cup [op : {"ok"}, account : Accounts, list : Ledgers]

ServicesHere == {s \in Services : service[s] # None}
PaymentsHere == {y \in Payments : payment[y] # None}
In(p)        == {s \in ServicesHere : service[s].project = p}
LinkedTo(s)  == {y \in PaymentsHere : payment[y].service = s}

\* Rows updated by a transaction that has not committed: others wait for them.
LockedPayments == UNION {req[r].rows : r \in {q \in Requests : req[q].op = "moving"}}
LockedServices == UNION {req[r].rows : r \in {q \in Requests : req[q].op = "drop"}}
\* A key nobody refers to stands for one never used before.
NewService == {s \in Services \ ServicesHere :
                 /\ \A r \in Requests : req[r].op \in {"move", "moving"} => req[r].uuid # s
                 /\ \A r \in Requests : req[r].op = "pay" => req[r].service # s
                 /\ \A i \in Imports : imp[i].op = "import" => \A e \in DOMAIN imp[i].links : imp[i].links[e] # s}
NewPayment == Payments \ PaymentsHere

\* The composite foreign key of both tables.
OwnerExists(a, p) == account[a] = p
\* Every sync of account a that is at work sees its tables changed by somebody else.
Disturb(A, self) ==
    disturbed' = disturbed \cup {i \in Imports \ {self} : imp[i].op # "idle" /\ imp[i].account \in A}

Init ==
    /\ account \in [Accounts -> Providers]
    /\ projects = {Default}
    /\ service = [s \in Services |-> None]
    /\ payment = [y \in Payments |-> None]
    /\ req = [r \in Requests |-> Idle]
    /\ imp = [i \in Imports |-> Idle]
    /\ foreign = {} /\ disturbed = {}

-----------------------------------------------------------------------------
(* Accounts: what a merge and a deletion do to the rows of an account.     *)

\* Mutant: without ON UPDATE CASCADE.
NotRepointed(table, A, p) == table
\* ON UPDATE CASCADE of the composite key.
Repointed(table, A, p) == [k \in DOMAIN table |->
    IF table[k] = None THEN None
    ELSE IF table[k].account \in A THEN [table[k] EXCEPT !.provider = p] ELSE table[k]]

\* The accounts of provider p go to provider q; their rows follow by cascade.
MergeProvider(p, q) ==
    LET A == {a \in Accounts : account[a] = p} IN
    /\ p # q /\ A # {}
    /\ \A y \in LockedPayments : payment[y].account \notin A
    /\ \A s \in LockedServices : service[s].account \notin A
    /\ account' = [a \in Accounts |-> IF a \in A THEN q ELSE account[a]]
    /\ service' = Repointed(service, A, q)
    /\ payment' = Repointed(payment, A, q)
    /\ Disturb(A, None)
    /\ UNCHANGED <<projects, req, imp, foreign>>

\* Services and payments go with their account; a payment of another account
\* linked to one of the services stays, unlinked.
DeleteAccount(a) ==
    LET gone == {s \in ServicesHere : service[s].account = a} IN
    /\ account[a] # None
    /\ \A y \in LockedPayments : payment[y].account # a /\ payment[y].service \notin gone
    /\ LockedServices \cap gone = {}
    /\ account' = [account EXCEPT ![a] = None]
    /\ service' = [s \in Services |-> IF s \in gone THEN None ELSE service[s]]
    /\ payment' = [y \in Payments |->
                     IF payment[y] = None \/ payment[y].account = a THEN None
                     ELSE IF payment[y].service \in gone THEN [payment[y] EXCEPT !.service = None]
                     ELSE payment[y]]
    /\ foreign' = {y \in foreign : payment'[y] # None /\ payment'[y].service # None}
    /\ Disturb({a}, None)
    /\ UNCHANGED <<projects, req, imp>>

-----------------------------------------------------------------------------
(* Services.                                                               *)

\* resolveAccountOwner: the account is named, or it is the only one of its provider.
Owner(a)      == account[a]
OwnerFound(a) == account[a] # None

CreateServiceRead(r, a, p) ==
    /\ req[r] = Idle /\ "add" \in Work[r] /\ OwnerFound(a) /\ p \in projects
    /\ req' = [req EXCEPT ![r] = [op |-> "add", account |-> a, provider |-> Owner(a), project |-> p]]
    /\ UNCHANGED <<tables, imp, history>>

\* The insert, or an error when a foreign key fails by now.
CreateService(r) ==
    /\ req[r].op = "add"
    /\ req' = [req EXCEPT ![r] = Idle]
    /\ \/ /\ OwnerExists(req[r].account, req[r].provider) /\ req[r].project \in projects
          /\ \E s \in NewService :
               service' = [service EXCEPT ![s] = [account |-> req[r].account, provider |-> req[r].provider,
                                                  project |-> req[r].project, externalId |-> None]]
       \/ /\ ~(OwnerExists(req[r].account, req[r].provider) /\ req[r].project \in projects)
          /\ UNCHANGED service
    /\ UNCHANGED <<account, projects, payment, imp, history>>

SetProject(s, p) ==
    /\ s \in ServicesHere \ LockedServices /\ p \in projects
    /\ service' = [service EXCEPT ![s].project = p]
    /\ UNCHANGED <<account, projects, payment, req, imp, history>>

\* Its payments stay, unlinked.
RemoveService(s) ==
    /\ s \in ServicesHere \ LockedServices /\ LinkedTo(s) \cap LockedPayments = {}
    /\ service' = [service EXCEPT ![s] = None]
    /\ payment' = [y \in Payments |-> IF y \in LinkedTo(s) THEN [payment[y] EXCEPT !.service = None]
                                      ELSE payment[y]]
    /\ foreign' = foreign \ LinkedTo(s)
    /\ Disturb({service[s].account}, None)
    /\ UNCHANGED <<account, projects, req, imp>>

\* A synced service is matched by (accountUuid, externalId) and stays where it is.
Movable(s) == service[s].externalId = None

\* PATCH /services/:uuid with another account.
MoveServiceRead(r, s, a) ==
    /\ req[r] = Idle /\ "move" \in Work[r] /\ s \in ServicesHere /\ OwnerFound(a) /\ service[s].account # a
    /\ Movable(s)
    /\ req' = [req EXCEPT ![r] = [op |-> "move", uuid |-> s, account |-> a, provider |-> Owner(a), rows |-> {}]]
    /\ UNCHANGED <<tables, imp, history>>

\* Mutant: the payments are left where they are.
FollowNone(s) == {}
\* moveToAccount, first statement: the payments linked to the service.
Follow(s) == LinkedTo(s)

MovePayments(r) ==
    /\ req[r].op = "move"
    /\ Follow(req[r].uuid) \cap LockedPayments = {}
    /\ req' = [req EXCEPT ![r] = IF ~OwnerExists(req[r].account, req[r].provider) THEN Idle
                                 ELSE [@ EXCEPT !.op = "moving", !.rows = Follow(req[r].uuid)]]
    /\ UNCHANGED <<tables, imp, history>>

\* Service s is between the two statements of a request other than those of R.
BeingMoved(s, R) == \E r \in Requests \ R : req[r].op = "moving" /\ req[r].uuid = s

\* Second statement and commit: the service row; everything is rolled back when
\* it is gone or the owner no longer fits.
MoveService(r) ==
    LET m == req[r]
        Moved(row) == [row EXCEPT !.account = m.account, !.provider = m.provider] IN
    /\ m.op = "moving" /\ m.uuid \notin LockedServices
    /\ req' = [req EXCEPT ![r] = Idle]
    /\ IF m.uuid \in ServicesHere /\ OwnerExists(m.account, m.provider)
       THEN /\ service' = [service EXCEPT ![m.uuid] = Moved(@)]
            /\ payment' = [y \in Payments |-> IF y \in m.rows THEN Moved(payment[y]) ELSE payment[y]]
            /\ foreign' = IF BeingMoved(m.uuid, {r}) THEN foreign ELSE foreign \ m.rows
       ELSE UNCHANGED <<service, payment, foreign>>
    /\ UNCHANGED <<account, projects, imp, disturbed>>

-----------------------------------------------------------------------------
(* Payments entered by hand.                                               *)

CreatePaymentRead(r, a, s) ==
    /\ req[r] = Idle /\ "pay" \in Work[r] /\ OwnerFound(a) /\ s \in ServicesHere \cup {None}
    /\ req' = [req EXCEPT ![r] = [op |-> "pay", account |-> a, provider |-> Owner(a), service |-> s]]
    /\ UNCHANGED <<tables, imp, history>>

\* Only the existence of the service is checked, not whose it is.
CreatePayment(r) ==
    LET q == req[r]
        fits == OwnerExists(q.account, q.provider) /\ q.service \in ServicesHere \cup {None} IN
    /\ q.op = "pay"
    /\ req' = [req EXCEPT ![r] = Idle]
    /\ \/ /\ fits
          /\ \E y \in NewPayment :
               /\ payment' = [payment EXCEPT ![y] = [account |-> q.account, provider |-> q.provider,
                                                     service |-> q.service, externalId |-> None]]
               /\ foreign' = IF q.service # None /\ (service[q.service].account # q.account \/ BeingMoved(q.service, {}))
                             THEN foreign \cup {y} ELSE foreign
       \/ ~fits /\ UNCHANGED <<payment, foreign>>
    /\ UNCHANGED <<account, projects, service, imp, disturbed>>

RemovePayment(y) ==
    /\ y \in PaymentsHere \ LockedPayments
    /\ payment' = [payment EXCEPT ![y] = None]
    /\ foreign' = foreign \ {y}
    /\ Disturb({payment[y].account}, None)
    /\ UNCHANGED <<account, projects, service, req, imp>>

-----------------------------------------------------------------------------
(* Projects.                                                               *)

CreateProject(p) ==
    /\ p \notin projects /\ projects' = projects \cup {p}
    /\ UNCHANGED <<account, service, payment, req, imp, history>>

Put(S, p) == service' = [s \in Services |-> IF s \in S THEN [service[s] EXCEPT !.project = p] ELSE service[s]]

MoveAllInto(p) ==
    /\ p \in projects /\ LockedServices = {}
    /\ Put(ServicesHere, p)
    /\ UNCHANGED <<account, projects, payment, req, imp, history>>

EmptyProject(p) ==
    /\ p \in projects \ {Default} /\ LockedServices \cap In(p) = {}
    /\ Put(In(p), Default)
    /\ UNCHANGED <<account, projects, payment, req, imp, history>>

\* deleteMovingServices, first statement.
SweepProject(r, p) ==
    /\ req[r] = Idle /\ "drop" \in Work[r] /\ p \in projects \ {Default} /\ In(p) \cap LockedServices = {}
    /\ req' = [req EXCEPT ![r] = [op |-> "drop", project |-> p, rows |-> In(p)]]
    /\ UNCHANGED <<tables, imp, history>>

\* Mutant: ON DELETE without RESTRICT.
NobodyLeftUnchecked(p, S) == TRUE
\* ON DELETE RESTRICT: a service that came in after the first statement.
NobodyLeft(p, S) == In(p) \subseteq S

\* Second statement and commit, or an error and nothing is changed.
RemoveProject(r) ==
    LET d == req[r] IN
    /\ d.op = "drop"
    /\ req' = [req EXCEPT ![r] = Idle]
    /\ IF d.project \in projects /\ NobodyLeft(d.project, d.rows)
       THEN Put(d.rows, Default) /\ projects' = projects \ {d.project}
       ELSE UNCHANGED <<service, projects>>
    /\ UNCHANGED <<account, payment, imp, history>>

-----------------------------------------------------------------------------
(* A sync's payment import.                                                *)

\* The owner (account, provider) is read once, when the sync begins.
SyncBegins(i, a) ==
    /\ imp[i].op \in {"idle", "ok"} /\ account[a] # None
    /\ imp' = [imp EXCEPT ![i] = [op |-> "sync", account |-> a, provider |-> account[a]]]
    /\ disturbed' = disturbed \ {i}
    /\ UNCHANGED <<tables, req, foreign>>

Ends(i) == imp' = [imp EXCEPT ![i] = Idle] /\ disturbed' = disturbed \ {i}

Known(a, e) == {s \in ServicesHere : service[s].account = a /\ service[s].externalId = e}

\* upsertServices inserts a service it does not know, into the default project;
\* the failing insert fails the sync.
SyncAddsService(i, e) ==
    LET o == imp[i] IN
    /\ o.op = "sync" /\ Known(o.account, e) = {}
    /\ \/ /\ OwnerExists(o.account, o.provider)
          /\ \E s \in NewService :
               service' = [service EXCEPT ![s] = [account |-> o.account, provider |-> o.provider,
                                                  project |-> Default, externalId |-> e]]
          /\ UNCHANGED imp /\ Disturb({o.account}, i)
       \/ /\ ~OwnerExists(o.account, o.provider)
          /\ Ends(i) /\ UNCHANGED service
    /\ UNCHANGED <<account, projects, payment, req, foreign>>

\* fetchPayments answered; listExternalIds maps external ids to services of the account.
ReadLinks(i, list) ==
    LET o == imp[i]
        E == {e \in ExtIds : Known(o.account, e) # {}} IN
    /\ o.op = "sync"
    /\ imp' = [imp EXCEPT ![i] = [op |-> "import", account |-> o.account, provider |-> o.provider, list |-> list,
                                  links |-> [e \in E |-> CHOOSE s \in Known(o.account, e) : TRUE],
                                  todo |-> DOMAIN list]]
    /\ UNCHANGED <<tables, req, history>>

\* Mutant: links by external id, whatever the account.
LinkAnywhere(o, c) ==
    LET S == {s \in ServicesHere : service[s].externalId = o.list[c]} IN
    IF o.list[c] = None \/ S = {} THEN None ELSE CHOOSE s \in S : TRUE
\* The service of a record, as the map built before the loop has it.
Link(o, c) == IF o.list[c] \in DOMAIN o.links THEN o.links[o.list[c]] ELSE None

\* Mutants: by externalId alone, so the row of another account is taken; NULL as
\* equal to every id.
RowsOfAnywhere(o, c) == {y \in PaymentsHere : payment[y].externalId = c}
RowsOfNull(o, c) == {y \in PaymentsHere : payment[y].account = o.account /\ payment[y].externalId \in {c, None}}
\* The unique key of imported payments.
RowsOf(o, c) == {y \in PaymentsHere : payment[y].account = o.account /\ payment[y].externalId = c}

\* upsertExternal: the row is updated, or inserted with the owner read at the
\* start; a foreign key that fails ends the import, which the sync survives.
UpsertCharge(i, c) ==
    LET o == imp[i]
        s == Link(o, c)
        linkHere == s \in ServicesHere \cup {None}
        fits == linkHere /\ (RowsOf(o, c) # {} \/ OwnerExists(o.account, o.provider)) IN
    /\ o.op = "import" /\ c \in o.todo /\ RowsOf(o, c) \cap LockedPayments = {}
    /\ \/ /\ fits
          /\ \E y \in (IF RowsOf(o, c) # {} THEN RowsOf(o, c) ELSE NewPayment) :
               payment' = [payment EXCEPT ![y] =
                   IF @ # None THEN [@ EXCEPT !.service = s]
                   ELSE [account |-> o.account, provider |-> o.provider, service |-> s, externalId |-> c]]
          /\ imp' = [imp EXCEPT ![i].todo = @ \ {c}]
          /\ Disturb({o.account}, i)
       \/ /\ ~fits
          /\ Ends(i) /\ UNCHANGED payment
    /\ UNCHANGED <<account, projects, service, req, foreign>>

ImportDone(i) ==
    /\ imp[i].op = "import" /\ imp[i].todo = {}
    /\ imp' = [imp EXCEPT ![i] = [op |-> "ok", account |-> imp[i].account, list |-> imp[i].list]]
    /\ UNCHANGED <<tables, req, history>>

\* fetchPayments failed, or the process ended: what was written stays.
ImportFails(i) ==
    /\ imp[i].op \in {"sync", "import"}
    /\ Ends(i)
    /\ UNCHANGED <<tables, req, foreign>>

-----------------------------------------------------------------------------
Next ==
    \/ \E p, q \in Providers : MergeProvider(p, q)
    \/ \E a \in Accounts : DeleteAccount(a)
    \/ \E r \in Requests, a \in Accounts, p \in Projects : CreateServiceRead(r, a, p)
    \/ \E r \in Requests, s \in Services, a \in Accounts : MoveServiceRead(r, s, a)
    \/ \E r \in Requests, a \in Accounts, s \in Services \cup {None} : CreatePaymentRead(r, a, s)
    \/ \E r \in Requests, p \in Projects : SweepProject(r, p)
    \/ \E r \in Requests : CreateService(r) \/ MovePayments(r) \/ MoveService(r) \/ CreatePayment(r) \/ RemoveProject(r)
    \/ \E s \in Services : RemoveService(s) \/ \E p \in Projects : SetProject(s, p)
    \/ \E y \in Payments : RemovePayment(y)
    \/ \E p \in Projects : CreateProject(p) \/ MoveAllInto(p) \/ EmptyProject(p)
    \/ \E i \in Imports, a \in Accounts : SyncBegins(i, a)
    \/ \E i \in Imports, e \in ExtIds : SyncAddsService(i, e)
    \/ \E i \in Imports, list \in Ledgers : ReadLinks(i, list)
    \/ \E i \in Imports, c \in ChargeIds : UpsertCharge(i, c)
    \/ \E i \in Imports : ImportDone(i) \/ ImportFails(i)

Spec == Init /\ [][Next]_vars

-----------------------------------------------------------------------------
(* Properties.                                                             *)

TypeOK ==
    /\ account \in [Accounts -> Providers \cup {None}]
    /\ projects \subseteq Projects
    /\ service \in [Services -> ServiceRow \cup {None}]
    /\ payment \in [Payments -> PaymentRow \cup {None}]
    /\ req \in [Requests -> Request]
    /\ imp \in [Imports -> Import]
    /\ foreign \subseteq Payments /\ disturbed \subseteq Imports

\* The (account, provider) pair of every row is that of its account, however
\* merges, moves, imports with a stale provider and deletions interleave:
\* totals by provider and totals by account add up to the same.
PairsFit ==
    /\ \A s \in ServicesHere : OwnerExists(service[s].account, service[s].provider)
    /\ \A y \in PaymentsHere : OwnerExists(payment[y].account, payment[y].provider)

\* A service and a payment linked to it are in the same account, unless the
\* payment was entered for a service of another account or while the service
\* was being moved: moveToAccount takes the payments along and the import links
\* "to a service of the same account" (sync.service.ts:357).
\* An imported charge never names a service of another account, raced or not: only
\* services entered by hand move.
LinksFit ==
    \A y \in PaymentsHere : payment[y].service # None =>
        LET fits == payment[y].service \in ServicesHere
                    /\ service[payment[y].service].account = payment[y].account
        IN  fits \/ (y \in foreign /\ payment[y].externalId = None)

\* An import nobody disturbed leaves one row per record it was given, linked as
\* the record says; repeating it, also after an interrupted one, doubles nothing.
CleanImportComplete ==
    \A i \in Imports \ disturbed : imp[i].op = "ok" =>
        \A c \in DOMAIN imp[i].list :
            LET rows  == {y \in PaymentsHere : payment[y].account = imp[i].account /\ payment[y].externalId = c}
                named == IF imp[i].list[c] = None THEN {} ELSE Known(imp[i].account, imp[i].list[c])
            IN  Cardinality(rows) = 1 /\ \A y \in rows : {payment[y].service} \ {None} = named

\* No import changes a payment entered by hand (sync.service.ts:356): such a row
\* changes only by a merge, with its service, or by losing it.
ManualUntouched ==
    [][\A y \in PaymentsHere :
         /\ payment[y].externalId = None /\ payment'[y] # payment[y]
         => \/ payment'[y] = None
            \/ payment'[y].externalId = None /\ payment'[y].service = payment[y].service
               /\ (payment'[y].account # payment[y].account
                     => payment'[y].account = service'[payment[y].service].account)
            \/ payment'[y] = [payment[y] EXCEPT !.service = None] /\ service'[payment[y].service] = None
      ]_vars

\* Projects as Portfolio promises them: removing a project in two statements,
\* with services coming and going between them, looks like one step.
Portfolio == INSTANCE Portfolio WITH place <- [s \in Services |-> IF s \in ServicesHere THEN service[s].project ELSE None]
ProjectsAtomic == Portfolio!Spec
=============================================================================
