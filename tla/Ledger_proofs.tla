--------------------------- MODULE Ledger_proofs ---------------------------
(***************************************************************************)
(* Proofs about Ledger: the properties its run checks on a small instance, *)
(* for every set of accounts, services, payments, requests and imports.    *)
(***************************************************************************)
EXTENDS Ledger, FiniteSetTheorems, TLAPS

-----------------------------------------------------------------------------
(* The inductive invariant, in parts that rest on one another.              *)

\* Services are in projects that exist; a project being removed is not the
\* default one, and the services its first statement took are still its own
\* and nobody else's.
Dropping(r) == req[r].op = "drop"
ProjectsHeld ==
    /\ Default \in projects
    /\ \A s \in ServicesHere : service[s].project \in projects
    /\ \A r \in Requests : Dropping(r) =>
         req[r].project # Default /\ \A s \in req[r].rows : s \in ServicesHere /\ service[s].project = req[r].project
    /\ \A q, r \in Requests : q # r /\ Dropping(q) /\ Dropping(r) => req[q].rows \cap req[r].rows = {}

\* A payment names a service that exists (ON DELETE SET NULL).
Referenced == \A y \in PaymentsHere : payment[y].service \in ServicesHere \cup {None}

\* A service that a request is to move is one entered by hand, as long as it exists.
OnlyManualMoves ==
    \A r \in Requests : req[r].op \in {"move", "moving"} /\ req[r].uuid \in ServicesHere => Movable(req[r].uuid)

\* The payments a move took are still linked to its service; those that came
\* since were entered by hand and are known to.
RowsHeld ==
    \A r \in Requests : req[r].op = "moving" =>
        /\ \A y \in req[r].rows : y \in PaymentsHere /\ payment[y].service = req[r].uuid
        /\ \A y \in PaymentsHere \ req[r].rows :
             payment[y].service = req[r].uuid => y \in foreign /\ payment[y].externalId = None

\* The map an import reads before its loop names, of the services still there,
\* only those of its account with that external id.
MapHolds ==
    \A i \in Imports : imp[i].op = "import" =>
        \A e \in DOMAIN imp[i].links : imp[i].links[e] \in ServicesHere =>
            service[imp[i].links[e]].account = imp[i].account /\ service[imp[i].links[e]].externalId = e

\* An imported payment is linked to a synced service or to none.
ChargesFit ==
    \A y \in PaymentsHere : payment[y].externalId # None /\ payment[y].service # None =>
        service[payment[y].service].externalId # None

LinkInv == Referenced /\ OnlyManualMoves /\ RowsHeld /\ MapHolds /\ ChargesFit /\ LinksFit

\* The unique keys (account, external id) of both tables.
ServicesUnique ==
    \A s, t \in ServicesHere : service[s].account = service[t].account /\ service[s].externalId = service[t].externalId
                                 /\ service[s].externalId # None => s = t
PaymentsUnique ==
    \A x, y \in PaymentsHere : payment[x].account = payment[y].account /\ payment[x].externalId = payment[y].externalId
                                 /\ payment[x].externalId # None => x = y

\* An import that nobody disturbed: its map is what the table says, and every
\* record it has dealt with has a row linked as the record says.
Named(a, e) == IF e = None THEN {} ELSE Known(a, e)
Settled(a, list, c) ==
    \E y \in PaymentsHere : payment[y].account = a /\ payment[y].externalId = c
                            /\ {payment[y].service} \ {None} = Named(a, list[c])
MapExact(a, links) == \A e \in ExtIds : Known(a, e) = IF e \in DOMAIN links THEN {links[e]} ELSE {}
ImportInv ==
    \A i \in Imports \ disturbed :
        /\ imp[i].op = "import" =>
             /\ MapExact(imp[i].account, imp[i].links)
             /\ \A c \in DOMAIN imp[i].list \ imp[i].todo : Settled(imp[i].account, imp[i].list, c)
        /\ imp[i].op = "ok" => \A c \in DOMAIN imp[i].list : Settled(imp[i].account, imp[i].list, c)

Inv == TypeOK /\ ProjectsHeld /\ PairsFit /\ LinkInv /\ ServicesUnique /\ PaymentsUnique /\ ImportInv

-----------------------------------------------------------------------------
(* Types.                                                                  *)

\* What a request holds, by the operation it is at.
LEMMA RequestShape ==
    ASSUME NEW q \in Request
    PROVE  /\ q.op = "pay" => q.account \in Accounts /\ q.provider \in Providers /\ q.service \in Services \cup {None}
           /\ q.op = "add" => q.account \in Accounts /\ q.provider \in Providers /\ q.project \in Projects
           /\ q.op \in {"move", "moving"} => /\ q.uuid \in Services /\ q.account \in Accounts /\ q.provider \in Providers
                                             /\ q.rows \subseteq Payments
                                             /\ q = [op |-> q.op, uuid |-> q.uuid, account |-> q.account,
                                                     provider |-> q.provider, rows |-> q.rows]
           /\ q.op = "drop" => q.project \in Projects /\ q.rows \subseteq Services
BY DEF Request, Idle

\* What an import holds, by how far it is.
LEMMA ImportShape ==
    ASSUME NEW o \in Import
    PROVE  /\ o.op = "sync" => o.account \in Accounts /\ o.provider \in Providers
           /\ o.op = "import" => /\ o.account \in Accounts /\ o.provider \in Providers /\ o.list \in Ledgers
                                 /\ o.links \in UNION {[E -> Services] : E \in SUBSET ExtIds} /\ o.todo \subseteq ChargeIds
                                 /\ o = [op |-> "import", account |-> o.account, provider |-> o.provider, list |-> o.list,
                                         links |-> o.links, todo |-> o.todo]
           /\ o.op = "ok" => o.account \in Accounts /\ o.list \in Ledgers
BY DEF Import, Idle

LEMMA ServiceShape ==
    ASSUME TypeOK, NEW s \in Services, service[s] # None
    PROVE  /\ service[s] \in ServiceRow
           /\ service[s] = [account |-> service[s].account, provider |-> service[s].provider,
                            project |-> service[s].project, externalId |-> service[s].externalId]
           /\ service[s].account \in Accounts /\ service[s].provider \in Providers
           /\ service[s].project \in Projects /\ service[s].externalId \in ExtIds \cup {None}
BY DEF TypeOK, ServiceRow

LEMMA PaymentShape ==
    ASSUME TypeOK, NEW y \in Payments, payment[y] # None
    PROVE  /\ payment[y] \in PaymentRow
           /\ payment[y] = [account |-> payment[y].account, provider |-> payment[y].provider,
                            service |-> payment[y].service, externalId |-> payment[y].externalId]
           /\ payment[y].account \in Accounts /\ payment[y].provider \in Providers
           /\ payment[y].service \in Services \cup {None} /\ payment[y].externalId \in ChargeIds \cup {None}
BY DEF TypeOK, PaymentRow

LEMMA DisturbType ==
    ASSUME disturbed \subseteq Imports, NEW A, NEW self, Disturb(A, self)
    PROVE  disturbed' \subseteq Imports
BY DEF Disturb

LEMMA TypeInit == Init => TypeOK
<1>1. Idle \in Request /\ Idle \in Import
  BY DEF Request, Import
<1> QED BY <1>1, LedgerAssumption DEF Init, TypeOK

\* The rows of a move and of a project's removal are there when it commits.
LEMMA TypeStep == TypeOK /\ ProjectsHeld /\ RowsHeld /\ [Next]_vars => TypeOK'
<1> SUFFICES ASSUME TypeOK, ProjectsHeld, RowsHeld, [Next]_vars PROVE TypeOK'
  OBVIOUS
<1> USE DEF tables, history
<1>idle. Idle \in Request /\ Idle \in Import
  BY DEF Request, Import
<1>1. ASSUME NEW p \in Providers, NEW q \in Providers, MergeProvider(p, q) PROVE TypeOK'
  <2> DEFINE A == {a \in Accounts : account[a] = p}
  <2>1. service' \in [Services -> ServiceRow \cup {None}]
    BY <1>1, ServiceShape DEF MergeProvider, Repointed, TypeOK, ServiceRow
  <2>2. payment' \in [Payments -> PaymentRow \cup {None}]
    BY <1>1, PaymentShape DEF MergeProvider, Repointed, TypeOK, PaymentRow
  <2> QED BY <1>1, <2>1, <2>2, DisturbType DEF MergeProvider, TypeOK
<1>2. ASSUME NEW a \in Accounts, DeleteAccount(a) PROVE TypeOK'
  <2>1. service' \in [Services -> ServiceRow \cup {None}]
    BY <1>2 DEF DeleteAccount, TypeOK
  <2>2. payment' \in [Payments -> PaymentRow \cup {None}]
    BY <1>2, PaymentShape DEF DeleteAccount, TypeOK, PaymentRow
  <2> QED BY <1>2, <2>1, <2>2, DisturbType DEF DeleteAccount, TypeOK
<1>3. ASSUME NEW r \in Requests, NEW a \in Accounts, NEW p \in Projects, CreateServiceRead(r, a, p) PROVE TypeOK'
  BY <1>3 DEF CreateServiceRead, TypeOK, OwnerFound, Owner, Request
<1>4. ASSUME NEW r \in Requests, NEW s \in Services, NEW a \in Accounts, MoveServiceRead(r, s, a) PROVE TypeOK'
  BY <1>4 DEF MoveServiceRead, TypeOK, OwnerFound, Owner, Request
<1>5. ASSUME NEW r \in Requests, NEW a \in Accounts, NEW s \in Services \cup {None}, CreatePaymentRead(r, a, s) PROVE TypeOK'
  BY <1>5 DEF CreatePaymentRead, TypeOK, OwnerFound, Owner, Request
<1>6. ASSUME NEW r \in Requests, NEW p \in Projects, SweepProject(r, p) PROVE TypeOK'
  BY <1>6 DEF SweepProject, TypeOK, In, ServicesHere, Request
<1>7. ASSUME NEW r \in Requests, CreateService(r) PROVE TypeOK'
  <2>1. req[r] \in Request /\ req[r].op = "add"
    BY <1>7 DEF CreateService, TypeOK
  <2>2. service' \in [Services -> ServiceRow \cup {None}]
    BY <1>7, <2>1, RequestShape DEF CreateService, TypeOK, ServiceRow, NewService
  <2> QED BY <1>7, <1>idle, <2>2 DEF CreateService, TypeOK
<1>8. ASSUME NEW r \in Requests, MovePayments(r) PROVE TypeOK'
  <2>1. req[r] \in Request /\ req[r].op = "move"
    BY <1>8 DEF MovePayments, TypeOK
  <2>2. [req[r] EXCEPT !.op = "moving", !.rows = Follow(req[r].uuid)] \in Request
    <3>1. Follow(req[r].uuid) \subseteq Payments
      BY DEF Follow, LinkedTo, PaymentsHere
    <3> DEFINE R == [op : {"move", "moving"}, uuid : Services, account : Accounts, provider : Providers,
                     rows : SUBSET Payments]
    <3>2. req[r] \in R
      BY <2>1, RequestShape DEF Request, Idle
    <3>3. [req[r] EXCEPT !.op = "moving"] \in R
      BY <3>2
    <3>4. [req[r] EXCEPT !.op = "moving", !.rows = Follow(req[r].uuid)] \in R
      BY <3>1, <3>3
    <3> QED BY <3>4 DEF Request
  <2> QED BY <1>8, <1>idle, <2>2 DEF MovePayments, TypeOK
<1>9. ASSUME NEW r \in Requests, MoveService(r) PROVE TypeOK'
  <2>1. req[r] \in Request /\ req[r].op = "moving"
    BY <1>9 DEF MoveService, TypeOK
  <2>2. service' \in [Services -> ServiceRow \cup {None}]
    <3>1. CASE UNCHANGED service
      BY <3>1 DEF TypeOK
    <3>2. CASE /\ req[r].uuid \in ServicesHere
               /\ service' = [service EXCEPT ![req[r].uuid] = [@ EXCEPT !.account = req[r].account, !.provider = req[r].provider]]
      <4>1. [service[req[r].uuid] EXCEPT !.account = req[r].account, !.provider = req[r].provider] \in ServiceRow
        BY <2>1, <3>2, RequestShape, ServiceShape, ZenonT(60) DEF ServicesHere, ServiceRow
      <4> QED BY <3>2, <4>1 DEF TypeOK, ServicesHere
    <3> QED BY <1>9, <3>1, <3>2 DEF MoveService
  <2>3. \A y \in req[r].rows : y \in Payments /\ payment[y] # None
    BY <2>1 DEF RowsHeld, LinkedTo, PaymentsHere
  <2>4. payment' \in [Payments -> PaymentRow \cup {None}]
    <3>1. \A y \in req[r].rows : [payment[y] EXCEPT !.account = req[r].account, !.provider = req[r].provider] \in PaymentRow
      BY <2>1, <2>3, RequestShape, PaymentShape, ZenonT(60) DEF PaymentRow
    <3>2. CASE UNCHANGED payment
      BY <3>2 DEF TypeOK
    <3>3. CASE payment' = [y \in Payments |-> IF y \in req[r].rows
                                              THEN [payment[y] EXCEPT !.account = req[r].account, !.provider = req[r].provider]
                                              ELSE payment[y]]
      BY <3>1, <3>3 DEF TypeOK
    <3> QED BY <1>9, <3>2, <3>3 DEF MoveService
  <2> QED BY <1>9, <1>idle, <2>2, <2>4 DEF MoveService, TypeOK
<1>10. ASSUME NEW r \in Requests, CreatePayment(r) PROVE TypeOK'
  <2>1. req[r] \in Request /\ req[r].op = "pay"
    BY <1>10 DEF CreatePayment, TypeOK
  <2>2. payment' \in [Payments -> PaymentRow \cup {None}]
    BY <1>10, <2>1, RequestShape DEF CreatePayment, TypeOK, PaymentRow, NewPayment
  <2> QED BY <1>10, <1>idle, <2>2 DEF CreatePayment, TypeOK, NewPayment
<1>11. ASSUME NEW r \in Requests, RemoveProject(r) PROVE TypeOK'
  <2>1. req[r] \in Request /\ req[r].op = "drop"
    BY <1>11 DEF RemoveProject, TypeOK
  <2>2. \A s \in req[r].rows : s \in Services /\ service[s] # None
    BY <2>1 DEF ProjectsHeld, Dropping, In, ServicesHere
  <2>3. service' \in [Services -> ServiceRow \cup {None}]
    BY <1>11, <2>2, ServiceShape, LedgerAssumption DEF RemoveProject, Put, TypeOK, ServiceRow
  <2> QED BY <1>11, <1>idle, <2>3 DEF RemoveProject, TypeOK
<1>12. ASSUME NEW s \in Services, RemoveService(s) PROVE TypeOK'
  <2>1. payment' \in [Payments -> PaymentRow \cup {None}]
    BY <1>12, PaymentShape DEF RemoveService, LinkedTo, PaymentsHere, TypeOK, PaymentRow
  <2> QED BY <1>12, <2>1, DisturbType DEF RemoveService, TypeOK
<1>13. ASSUME NEW s \in Services, NEW p \in Projects, SetProject(s, p) PROVE TypeOK'
  BY <1>13, ServiceShape DEF SetProject, TypeOK, ServicesHere, ServiceRow
<1>14. ASSUME NEW y \in Payments, RemovePayment(y) PROVE TypeOK'
  BY <1>14, DisturbType DEF RemovePayment, TypeOK
<1>15. ASSUME NEW p \in Projects, CreateProject(p) PROVE TypeOK'
  BY <1>15 DEF CreateProject, TypeOK
<1>16. ASSUME NEW p \in Projects, MoveAllInto(p) PROVE TypeOK'
  BY <1>16, ServiceShape DEF MoveAllInto, Put, TypeOK, ServicesHere, ServiceRow
<1>17. ASSUME NEW p \in Projects, EmptyProject(p) PROVE TypeOK'
  BY <1>17, ServiceShape, LedgerAssumption DEF EmptyProject, Put, In, TypeOK, ServicesHere, ServiceRow
<1>18. ASSUME NEW i \in Imports, NEW a \in Accounts, SyncBegins(i, a) PROVE TypeOK'
  BY <1>18 DEF SyncBegins, TypeOK, Import
<1>19. ASSUME NEW i \in Imports, NEW e \in ExtIds, SyncAddsService(i, e) PROVE TypeOK'
  <2>1. imp[i] \in Import /\ imp[i].op = "sync"
    BY <1>19 DEF SyncAddsService, TypeOK
  <2>2. service' \in [Services -> ServiceRow \cup {None}]
    BY <1>19, <2>1, ImportShape, LedgerAssumption DEF SyncAddsService, TypeOK, ServiceRow, NewService
  <2> QED BY <1>19, <1>idle, <2>2, DisturbType DEF SyncAddsService, Ends, TypeOK
<1>20. ASSUME NEW i \in Imports, NEW list \in Ledgers, ReadLinks(i, list) PROVE TypeOK'
  <2> DEFINE o == imp[i]
             E == {e \in ExtIds : Known(o.account, e) # {}}
             links == [e \in E |-> CHOOSE s \in Known(o.account, e) : TRUE]
  <2>1. o \in Import /\ o.op = "sync"
    BY <1>20 DEF ReadLinks, TypeOK
  <2>2. links \in [E -> Services] /\ E \in SUBSET ExtIds
    BY DEF Known, ServicesHere
  <2>3. links \in UNION {[F -> Services] : F \in SUBSET ExtIds}
    BY <2>2
  <2>4. DOMAIN list \subseteq ChargeIds
    BY DEF Ledgers
  <2>5. [op |-> "import", account |-> o.account, provider |-> o.provider, list |-> list, links |-> links,
         todo |-> DOMAIN list] \in Import
    BY <2>1, <2>3, <2>4, ImportShape DEF Import
  <2> QED BY <1>20, <2>5 DEF ReadLinks, TypeOK
<1>21. ASSUME NEW i \in Imports, NEW c \in ChargeIds, UpsertCharge(i, c) PROVE TypeOK'
  <2>1. imp[i] \in Import /\ imp[i].op = "import"
    BY <1>21 DEF UpsertCharge, TypeOK
  <2>2. Link(imp[i], c) \in Services \cup {None}
    BY <2>1, ImportShape DEF Link
  <2>3. payment' \in [Payments -> PaymentRow \cup {None}]
    BY <1>21, <2>1, <2>2, ImportShape, PaymentShape DEF UpsertCharge, TypeOK, PaymentRow, RowsOf, NewPayment, PaymentsHere
  <2>4. [imp[i] EXCEPT !.todo = @ \ {c}] \in Import
    BY <2>1, ImportShape DEF Import
  <2> QED BY <1>21, <1>idle, <2>3, <2>4, DisturbType DEF UpsertCharge, Ends, TypeOK
<1>22. ASSUME NEW i \in Imports, ImportDone(i) PROVE TypeOK'
  <2>1. imp[i] \in Import /\ imp[i].op = "import"
    BY <1>22 DEF ImportDone, TypeOK
  <2>2. [op |-> "ok", account |-> imp[i].account, list |-> imp[i].list] \in Import
    BY <2>1, ImportShape DEF Import
  <2> QED BY <1>22, <2>2 DEF ImportDone, TypeOK
<1>23. ASSUME NEW i \in Imports, ImportFails(i) PROVE TypeOK'
  BY <1>23, <1>idle DEF ImportFails, Ends, TypeOK
<1>24. CASE UNCHANGED vars
  BY <1>24 DEF vars, TypeOK
<1> QED BY <1>1, <1>2, <1>3, <1>4, <1>5, <1>6, <1>7, <1>8, <1>9, <1>10, <1>11, <1>12, <1>13, <1>14, <1>15, <1>16,
           <1>17, <1>18, <1>19, <1>20, <1>21, <1>22, <1>23, <1>24 DEF Next

-----------------------------------------------------------------------------
(* What the steps that change rows do to them, field by field.             *)

ServiceIs(row, a, p, j, e) ==
    row \in ServiceRow /\ row # None /\ row.account = a /\ row.provider = p /\ row.project = j /\ row.externalId = e
PaymentIs(row, a, p, s, e) ==
    row \in PaymentRow /\ row # None /\ row.account = a /\ row.provider = p /\ row.service = s /\ row.externalId = e

\* A row as it is, and with some fields overwritten.
LEMMA ServiceSelf ==
    ASSUME NEW row \in ServiceRow PROVE ServiceIs(row, row.account, row.provider, row.project, row.externalId)
BY RowsAssumption DEF ServiceIs

LEMMA ServiceRepointed ==
    ASSUME NEW row \in ServiceRow, NEW p \in Providers
    PROVE  ServiceIs([row EXCEPT !.provider = p], row.account, p, row.project, row.externalId)
BY RowsAssumption DEF ServiceIs, ServiceRow

LEMMA ServiceMoved ==
    ASSUME NEW row \in ServiceRow, NEW a \in Accounts, NEW p \in Providers
    PROVE  ServiceIs([row EXCEPT !.account = a, !.provider = p], a, p, row.project, row.externalId)
BY RowsAssumption DEF ServiceIs, ServiceRow

LEMMA ServicePut ==
    ASSUME NEW row \in ServiceRow, NEW j \in Projects
    PROVE  ServiceIs([row EXCEPT !.project = j], row.account, row.provider, j, row.externalId)
BY RowsAssumption DEF ServiceIs, ServiceRow

LEMMA PaymentSelf ==
    ASSUME NEW row \in PaymentRow PROVE PaymentIs(row, row.account, row.provider, row.service, row.externalId)
BY RowsAssumption DEF PaymentIs

LEMMA PaymentRepointed ==
    ASSUME NEW row \in PaymentRow, NEW p \in Providers
    PROVE  PaymentIs([row EXCEPT !.provider = p], row.account, p, row.service, row.externalId)
BY RowsAssumption DEF PaymentIs, PaymentRow

LEMMA PaymentMoved ==
    ASSUME NEW row \in PaymentRow, NEW a \in Accounts, NEW p \in Providers
    PROVE  PaymentIs([row EXCEPT !.account = a, !.provider = p], a, p, row.service, row.externalId)
BY RowsAssumption DEF PaymentIs, PaymentRow

LEMMA PaymentLinked ==
    ASSUME NEW row \in PaymentRow, NEW s \in Services \cup {None}
    PROVE  PaymentIs([row EXCEPT !.service = s], row.account, row.provider, s, row.externalId)
BY RowsAssumption DEF PaymentIs, PaymentRow

\* A merge changes the provider of rows, and nothing else of them.
LEMMA MergeEffect ==
    ASSUME TypeOK, NEW p \in Providers, NEW q \in Providers, MergeProvider(p, q)
    PROVE  /\ \A s \in ServicesHere :
                ServiceIs(service'[s], service[s].account, IF account[service[s].account] = p THEN q ELSE service[s].provider,
                          service[s].project, service[s].externalId)
           /\ \A y \in PaymentsHere :
                PaymentIs(payment'[y], payment[y].account, IF account[payment[y].account] = p THEN q ELSE payment[y].provider,
                          payment[y].service, payment[y].externalId)
           /\ ServicesHere' = ServicesHere /\ PaymentsHere' = PaymentsHere
<1> DEFINE A == {a \in Accounts : account[a] = p}
<1>1. \A s \in ServicesHere :
        ServiceIs(service'[s], service[s].account, IF account[service[s].account] = p THEN q ELSE service[s].provider,
                  service[s].project, service[s].externalId)
  <2> TAKE s \in ServicesHere
  <2>1. service'[s] = IF service[s].account \in A THEN [service[s] EXCEPT !.provider = q] ELSE service[s]
    BY DEF MergeProvider, Repointed, TypeOK, ServicesHere
  <2>2. service[s] \in ServiceRow /\ service[s].account \in Accounts
    BY ServiceShape DEF ServicesHere
  <2> QED BY <2>1, <2>2, ServiceSelf, ServiceRepointed
<1>2. \A y \in PaymentsHere :
        PaymentIs(payment'[y], payment[y].account, IF account[payment[y].account] = p THEN q ELSE payment[y].provider,
                  payment[y].service, payment[y].externalId)
  <2> TAKE y \in PaymentsHere
  <2>1. payment'[y] = IF payment[y].account \in A THEN [payment[y] EXCEPT !.provider = q] ELSE payment[y]
    BY DEF MergeProvider, Repointed, TypeOK, PaymentsHere
  <2>2. payment[y] \in PaymentRow /\ payment[y].account \in Accounts
    BY PaymentShape DEF PaymentsHere
  <2> QED BY <2>1, <2>2, PaymentSelf, PaymentRepointed
<1>3. ServicesHere' = ServicesHere
  BY <1>1 DEF MergeProvider, Repointed, TypeOK, ServicesHere, ServiceIs
<1>4. PaymentsHere' = PaymentsHere
  BY <1>2 DEF MergeProvider, Repointed, TypeOK, PaymentsHere, PaymentIs
<1> QED BY <1>1, <1>2, <1>3, <1>4

\* A deleted account takes its rows; another account's payment may lose its link.
LEMMA DeleteEffect ==
    ASSUME TypeOK, NEW a \in Accounts, DeleteAccount(a)
    PROVE  /\ ServicesHere' = {s \in ServicesHere : service[s].account # a}
           /\ \A s \in ServicesHere' : service'[s] = service[s]
           /\ PaymentsHere' = {y \in PaymentsHere : payment[y].account # a}
           /\ \A y \in PaymentsHere' :
                PaymentIs(payment'[y], payment[y].account, payment[y].provider,
                          IF payment[y].service \in ServicesHere \ ServicesHere' THEN None ELSE payment[y].service,
                          payment[y].externalId)
           /\ foreign' = {y \in foreign : y \in PaymentsHere' /\ payment'[y].service # None}
<1> DEFINE gone == {s \in ServicesHere : service[s].account = a}
<1>1. /\ ServicesHere' = {s \in ServicesHere : service[s].account # a}
      /\ \A s \in ServicesHere' : service'[s] = service[s]
  BY DEF DeleteAccount, ServicesHere
<1>2. ASSUME NEW y \in PaymentsHere, payment[y].account # a
      PROVE  PaymentIs(payment'[y], payment[y].account, payment[y].provider,
                       IF payment[y].service \in gone THEN None ELSE payment[y].service, payment[y].externalId)
  <2>1. payment'[y] = IF payment[y].service \in gone THEN [payment[y] EXCEPT !.service = None] ELSE payment[y]
    BY <1>2 DEF DeleteAccount, PaymentsHere
  <2>2. payment[y] \in PaymentRow
    BY PaymentShape DEF PaymentsHere
  <2> QED BY <2>1, <2>2, PaymentSelf, PaymentLinked
<1>3. PaymentsHere' = {y \in PaymentsHere : payment[y].account # a}
  BY <1>2 DEF DeleteAccount, PaymentsHere, PaymentIs
<1>4. gone = ServicesHere \ ServicesHere'
  BY <1>1
<1>5. \A y \in PaymentsHere' :
        PaymentIs(payment'[y], payment[y].account, payment[y].provider,
                  IF payment[y].service \in ServicesHere \ ServicesHere' THEN None ELSE payment[y].service,
                  payment[y].externalId)
  BY <1>2, <1>3, <1>4
<1>6. foreign' = {y \in foreign : y \in PaymentsHere' /\ payment'[y].service # None}
  BY DEF DeleteAccount, PaymentsHere, TypeOK
<1> QED BY <1>1, <1>3, <1>5, <1>6

\* A removed service leaves its payments without a link.
LEMMA RemoveEffect ==
    ASSUME TypeOK, NEW s \in Services, RemoveService(s)
    PROVE  /\ s \in ServicesHere /\ ServicesHere' = ServicesHere \ {s}
           /\ \A t \in ServicesHere' : service'[t] = service[t]
           /\ PaymentsHere' = PaymentsHere
           /\ \A y \in PaymentsHere :
                PaymentIs(payment'[y], payment[y].account, payment[y].provider,
                          IF payment[y].service = s THEN None ELSE payment[y].service, payment[y].externalId)
           /\ foreign' = foreign \ LinkedTo(s)
<1>1. s \in ServicesHere /\ foreign' = foreign \ LinkedTo(s)
  BY DEF RemoveService
<1>2. ServicesHere' = ServicesHere \ {s} /\ \A t \in ServicesHere' : service'[t] = service[t]
  BY DEF RemoveService, ServicesHere, TypeOK
<1>3. \A y \in PaymentsHere :
        PaymentIs(payment'[y], payment[y].account, payment[y].provider,
                  IF payment[y].service = s THEN None ELSE payment[y].service, payment[y].externalId)
  <2> TAKE y \in PaymentsHere
  <2>1. payment'[y] = IF payment[y].service = s THEN [payment[y] EXCEPT !.service = None] ELSE payment[y]
    BY DEF RemoveService, LinkedTo, PaymentsHere
  <2>2. payment[y] \in PaymentRow
    BY PaymentShape DEF PaymentsHere
  <2> QED BY <2>1, <2>2, PaymentSelf, PaymentLinked
<1>4. PaymentsHere' = PaymentsHere
  BY <1>3 DEF RemoveService, PaymentsHere, LinkedTo, PaymentIs
<1> QED BY <1>1, <1>2, <1>3, <1>4

\* Services put into a project change in nothing else.
LEMMA PutEffect ==
    ASSUME TypeOK, NEW S \in SUBSET ServicesHere, NEW p \in Projects, Put(S, p)
    PROVE  /\ ServicesHere' = ServicesHere
           /\ \A s \in ServicesHere :
                ServiceIs(service'[s], service[s].account, service[s].provider,
                          IF s \in S THEN p ELSE service[s].project, service[s].externalId)
<1>1. \A s \in ServicesHere :
        ServiceIs(service'[s], service[s].account, service[s].provider,
                  IF s \in S THEN p ELSE service[s].project, service[s].externalId)
  <2> TAKE s \in ServicesHere
  <2>1. service'[s] = IF s \in S THEN [service[s] EXCEPT !.project = p] ELSE service[s]
    BY DEF Put, ServicesHere
  <2>2. service[s] \in ServiceRow
    BY ServiceShape DEF ServicesHere
  <2> QED BY <2>1, <2>2, ServiceSelf, ServicePut
<1>2. ServicesHere' = ServicesHere
  BY <1>1 DEF Put, ServicesHere, ServiceIs
<1> QED BY <1>1, <1>2

\* A move that commits takes the service and its rows to the other account.
Commits(r) == req[r].uuid \in ServicesHere /\ OwnerExists(req[r].account, req[r].provider)
LEMMA MoveEffect ==
    ASSUME TypeOK, RowsHeld, NEW r \in Requests, MoveService(r)
    PROVE  /\ ~Commits(r) => UNCHANGED <<service, payment, foreign>>
           /\ ServicesHere' = ServicesHere /\ PaymentsHere' = PaymentsHere
           /\ \A s \in ServicesHere : IF Commits(r) /\ s = req[r].uuid
                THEN ServiceIs(service'[s], req[r].account, req[r].provider, service[s].project, service[s].externalId)
                ELSE service'[s] = service[s]
           /\ \A y \in PaymentsHere : IF Commits(r) /\ y \in req[r].rows
                THEN PaymentIs(payment'[y], req[r].account, req[r].provider, payment[y].service, payment[y].externalId)
                ELSE payment'[y] = payment[y]
<1>1. req[r] \in Request /\ req[r].op = "moving"
  BY DEF MoveService, TypeOK
<1>6. req[r].account \in Accounts /\ req[r].provider \in Providers
  BY <1>1, RequestShape
<1>2. req[r].rows \subseteq PaymentsHere
  BY <1>1 DEF RowsHeld, LinkedTo
<1>3. ~Commits(r) => UNCHANGED <<service, payment, foreign>>
  BY DEF MoveService, Commits
<1>4. CASE ~Commits(r)
  BY <1>3, <1>4 DEF ServicesHere, PaymentsHere
<1>5. CASE Commits(r)
  <2>1. \A s \in ServicesHere :
          /\ s = req[r].uuid => service'[s] = [service[s] EXCEPT !.account = req[r].account, !.provider = req[r].provider]
          /\ s # req[r].uuid => service'[s] = service[s]
    BY <1>5, ZenonT(60) DEF MoveService, Commits, ServicesHere, TypeOK
  <2>2. \A y \in PaymentsHere :
          /\ y \in req[r].rows => payment'[y] = [payment[y] EXCEPT !.account = req[r].account, !.provider = req[r].provider]
          /\ y \notin req[r].rows => payment'[y] = payment[y]
    BY <1>5 DEF MoveService, Commits, PaymentsHere
  <2>3. \A s \in ServicesHere : s = req[r].uuid =>
          ServiceIs(service'[s], req[r].account, req[r].provider, service[s].project, service[s].externalId)
    <3> TAKE s \in ServicesHere
    <3> HAVE s = req[r].uuid
    <3>1. service[s] \in ServiceRow
      BY ServiceShape DEF ServicesHere
    <3>2. ServiceIs([service[s] EXCEPT !.account = req[r].account, !.provider = req[r].provider],
                    req[r].account, req[r].provider, service[s].project, service[s].externalId)
      BY <1>6, <3>1, ServiceMoved
    <3> QED BY <2>1, <3>2
  <2>4. \A y \in PaymentsHere : y \in req[r].rows =>
          PaymentIs(payment'[y], req[r].account, req[r].provider, payment[y].service, payment[y].externalId)
    <3> TAKE y \in PaymentsHere
    <3> HAVE y \in req[r].rows
    <3>1. payment[y] \in PaymentRow
      BY PaymentShape DEF PaymentsHere
    <3>2. PaymentIs([payment[y] EXCEPT !.account = req[r].account, !.provider = req[r].provider],
                    req[r].account, req[r].provider, payment[y].service, payment[y].externalId)
      BY <1>6, <3>1, PaymentMoved
    <3> QED BY <2>2, <3>2
  <2>5. ServicesHere' = ServicesHere
    BY <1>5, <2>1, <2>3 DEF ServicesHere, ServiceIs, MoveService, Commits, TypeOK
  <2>6. PaymentsHere' = PaymentsHere
    <3>1. payment' = [y \in Payments |-> IF y \in req[r].rows
            THEN [payment[y] EXCEPT !.account = req[r].account, !.provider = req[r].provider] ELSE payment[y]]
      BY <1>5 DEF MoveService, Commits
    <3>2. ASSUME NEW y \in Payments, payment[y] # None  PROVE payment'[y] # None
      <4>1. y \in PaymentsHere
        BY <3>2 DEF PaymentsHere
      <4>2. CASE y \in req[r].rows
        BY <4>1, <4>2, <2>4 DEF PaymentIs
      <4>3. CASE y \notin req[r].rows
        BY <4>1, <4>3, <2>2, <3>2
      <4> QED BY <4>2, <4>3
    <3>3. ASSUME NEW y \in Payments, payment[y] = None  PROVE payment'[y] = None
      <4>1. y \notin req[r].rows
        BY <1>2, <3>3 DEF PaymentsHere
      <4> QED BY <3>1, <3>3, <4>1
    <3> QED BY <3>2, <3>3 DEF PaymentsHere
  <2> QED BY <1>5, <2>1, <2>2, <2>3, <2>4, <2>5, <2>6
<1> QED BY <1>4, <1>5

\* One row of the table is written, created or linked anew; or the import ends.
LEMMA UpsertEffect ==
    ASSUME TypeOK, NEW i \in Imports, NEW c \in ChargeIds, UpsertCharge(i, c)
    PROVE  \/ Ends(i) /\ UNCHANGED payment
           \/ /\ Link(imp[i], c) \in ServicesHere \cup {None}
              /\ imp' = [imp EXCEPT ![i].todo = @ \ {c}] /\ Disturb({imp[i].account}, i)
              /\ \E y \in Payments :
                   /\ \/ y \in RowsOf(imp[i], c) \ LockedPayments
                      \/ y \notin PaymentsHere /\ RowsOf(imp[i], c) = {} /\ OwnerExists(imp[i].account, imp[i].provider)
                   /\ PaymentsHere' = PaymentsHere \cup {y}
                   /\ PaymentIs(payment'[y], imp[i].account, IF y \in PaymentsHere THEN payment[y].provider ELSE imp[i].provider,
                                Link(imp[i], c), c)
                   /\ \A x \in Payments \ {y} : payment'[x] = payment[x]
<1> DEFINE o == imp[i]
           s == Link(o, c)
           fits == s \in ServicesHere \cup {None} /\ (RowsOf(o, c) # {} \/ OwnerExists(o.account, o.provider))
<1>1. o \in Import /\ o.op = "import" /\ RowsOf(o, c) \cap LockedPayments = {}
  BY DEF UpsertCharge, TypeOK
<1>2. s \in Services \cup {None} /\ o.account \in Accounts /\ o.provider \in Providers
  BY <1>1, ImportShape DEF Link
<1>3. CASE ~fits
  BY <1>3 DEF UpsertCharge
<1>4. CASE fits
  <2>1. PICK y \in (IF RowsOf(o, c) # {} THEN RowsOf(o, c) ELSE NewPayment) :
          payment' = [payment EXCEPT ![y] = IF @ # None THEN [@ EXCEPT !.service = s]
                        ELSE [account |-> o.account, provider |-> o.provider, service |-> s, externalId |-> c]]
    BY <1>4 DEF UpsertCharge
  <2>2. imp' = [imp EXCEPT ![i].todo = @ \ {c}] /\ Disturb({o.account}, i)
    BY <1>4 DEF UpsertCharge
  <2>3. /\ y \in Payments
        /\ y \in PaymentsHere <=> RowsOf(o, c) # {}
        /\ y \in PaymentsHere => y \in RowsOf(o, c) /\ payment[y].account = o.account /\ payment[y].externalId = c
    BY <2>1 DEF RowsOf, NewPayment, PaymentsHere
  <2>4. payment'[y] = IF y \in PaymentsHere THEN [payment[y] EXCEPT !.service = s]
                      ELSE [account |-> o.account, provider |-> o.provider, service |-> s, externalId |-> c]
    BY <2>1, <2>3 DEF PaymentsHere, TypeOK
  <2>5. PaymentIs(payment'[y], o.account, IF y \in PaymentsHere THEN payment[y].provider ELSE o.provider, s, c)
    <3>1. CASE y \in PaymentsHere
      <4>1. payment[y] \in PaymentRow
        BY <3>1, PaymentShape DEF PaymentsHere
      <4> QED BY <1>2, <2>3, <2>4, <3>1, <4>1, PaymentLinked
    <3>2. CASE y \notin PaymentsHere
      BY <1>2, <2>4, <3>2, RowsAssumption DEF PaymentIs, PaymentRow
    <3> QED BY <3>1, <3>2
  <2>6. \A x \in Payments \ {y} : payment'[x] = payment[x]
    BY <2>1 DEF TypeOK
  <2>7. PaymentsHere' = PaymentsHere \cup {y}
    BY <2>3, <2>5, <2>6 DEF PaymentsHere, PaymentIs
  <2> QED BY <1>1, <1>4, <2>2, <2>3, <2>5, <2>6, <2>7
<1> QED BY <1>3, <1>4

LEMMA UpsertRow ==
    ASSUME TypeOK, NEW i \in Imports, NEW c \in ChargeIds, UpsertCharge(i, c), payment' # payment
    PROVE  /\ Link(imp[i], c) \in ServicesHere \cup {None}
           /\ imp' = [imp EXCEPT ![i].todo = @ \ {c}] /\ Disturb({imp[i].account}, i)
           /\ \E y \in Payments :
                /\ y \in RowsOf(imp[i], c) \ LockedPayments \/ (y \notin PaymentsHere /\ RowsOf(imp[i], c) = {})
                /\ PaymentsHere' = PaymentsHere \cup {y} /\ \A x \in Payments \ {y} : payment'[x] = payment[x]
                /\ payment'[y].account = imp[i].account /\ payment'[y].service = Link(imp[i], c) /\ payment'[y].externalId = c
<1>1. /\ Link(imp[i], c) \in ServicesHere \cup {None}
      /\ imp' = [imp EXCEPT ![i].todo = @ \ {c}] /\ Disturb({imp[i].account}, i)
      /\ \E y \in Payments :
           /\ y \in RowsOf(imp[i], c) \ LockedPayments \/ (y \notin PaymentsHere /\ RowsOf(imp[i], c) = {})
           /\ PaymentsHere' = PaymentsHere \cup {y} /\ \A x \in Payments \ {y} : payment'[x] = payment[x]
           /\ PaymentIs(payment'[y], imp[i].account, IF y \in PaymentsHere THEN payment[y].provider ELSE imp[i].provider,
                        Link(imp[i], c), c)
  BY UpsertEffect
<1> QED BY <1>1 DEF PaymentIs

\* A service entered by hand is added to the table, or nothing is.
Adds(s, a, p, j, e) ==
    /\ ServicesHere' = ServicesHere \cup {s}
    /\ ServiceIs(service'[s], a, p, j, e)
    /\ \A t \in Services \ {s} : service'[t] = service[t]

LEMMA AddEffect ==
    ASSUME TypeOK, NEW s \in Services \ ServicesHere, NEW a \in Accounts, NEW p \in Providers, NEW j \in Projects,
           NEW e \in ExtIds \cup {None},
           service' = [service EXCEPT ![s] = [account |-> a, provider |-> p, project |-> j, externalId |-> e]]
    PROVE  Adds(s, a, p, j, e)
<1>1. service'[s] = [account |-> a, provider |-> p, project |-> j, externalId |-> e]
  BY DEF TypeOK
<1>2. ServiceIs(service'[s], a, p, j, e)
  BY <1>1, RowsAssumption DEF ServiceIs, ServiceRow
<1>3. \A t \in Services \ {s} : service'[t] = service[t]
  BY DEF TypeOK
<1> QED BY <1>2, <1>3 DEF Adds, ServicesHere, ServiceIs

LEMMA CreateEffect ==
    ASSUME TypeOK, NEW r \in Requests, CreateService(r)
    PROVE  \/ UNCHANGED service
           \/ /\ OwnerExists(req[r].account, req[r].provider) /\ req[r].project \in projects
              /\ \E s \in NewService : Adds(s, req[r].account, req[r].provider, req[r].project, None)
<1>1. req[r].account \in Accounts /\ req[r].provider \in Providers /\ req[r].project \in Projects
  BY RequestShape DEF CreateService, TypeOK
<1> QED BY <1>1, AddEffect DEF CreateService, NewService

LEMMA SyncAddsEffect ==
    ASSUME TypeOK, NEW i \in Imports, NEW e \in ExtIds, SyncAddsService(i, e)
    PROVE  \/ UNCHANGED service /\ Ends(i)
           \/ /\ OwnerExists(imp[i].account, imp[i].provider) /\ Known(imp[i].account, e) = {}
              /\ UNCHANGED imp /\ Disturb({imp[i].account}, i)
              /\ \E s \in NewService : Adds(s, imp[i].account, imp[i].provider, Default, e)
<1>1. imp[i].account \in Accounts /\ imp[i].provider \in Providers
  BY ImportShape DEF SyncAddsService, TypeOK
<1> QED BY <1>1, AddEffect, LedgerAssumption DEF SyncAddsService, NewService

\* A payment entered by hand is added to the table, or nothing is.
LEMMA PayEffect ==
    ASSUME TypeOK, NEW r \in Requests, CreatePayment(r)
    PROVE  \/ UNCHANGED <<payment, foreign>>
           \/ /\ OwnerExists(req[r].account, req[r].provider) /\ req[r].service \in ServicesHere \cup {None}
              /\ \E y \in NewPayment :
                   /\ PaymentsHere' = PaymentsHere \cup {y}
                   /\ PaymentIs(payment'[y], req[r].account, req[r].provider, req[r].service, None)
                   /\ \A x \in Payments \ {y} : payment'[x] = payment[x]
                   /\ foreign' = IF req[r].service # None /\ (service[req[r].service].account # req[r].account
                                                              \/ BeingMoved(req[r].service, {}))
                                 THEN foreign \cup {y} ELSE foreign
<1> DEFINE q == req[r]
           fits == OwnerExists(q.account, q.provider) /\ q.service \in ServicesHere \cup {None}
<1>1. q.account \in Accounts /\ q.provider \in Providers /\ q.service \in Services \cup {None}
  BY RequestShape DEF CreatePayment, TypeOK
<1>2. CASE ~fits
  BY <1>2 DEF CreatePayment
<1>3. CASE fits
  <2>1. PICK y \in NewPayment :
          /\ payment' = [payment EXCEPT ![y] = [account |-> q.account, provider |-> q.provider,
                                                service |-> q.service, externalId |-> None]]
          /\ foreign' = IF q.service # None /\ (service[q.service].account # q.account \/ BeingMoved(q.service, {}))
                        THEN foreign \cup {y} ELSE foreign
    BY <1>3 DEF CreatePayment
  <2>2. y \in Payments /\ y \notin PaymentsHere
    BY DEF NewPayment
  <2>3. payment'[y] = [account |-> q.account, provider |-> q.provider, service |-> q.service, externalId |-> None]
    BY <2>1, <2>2 DEF TypeOK
  <2>4. PaymentIs(payment'[y], q.account, q.provider, q.service, None)
    BY <1>1, <2>3, RowsAssumption DEF PaymentIs, PaymentRow
  <2>5. \A x \in Payments \ {y} : payment'[x] = payment[x]
    BY <2>1 DEF TypeOK
  <2>6. PaymentsHere' = PaymentsHere \cup {y}
    BY <2>2, <2>4, <2>5 DEF PaymentsHere, PaymentIs
  <2> QED BY <1>3, <2>1, <2>4, <2>5, <2>6
<1> QED BY <1>2, <1>3

LEMMA RemovePaymentEffect ==
    ASSUME TypeOK, NEW y \in Payments, RemovePayment(y)
    PROVE  /\ y \in PaymentsHere \ LockedPayments /\ PaymentsHere' = PaymentsHere \ {y} /\ foreign' = foreign \ {y}
           /\ \A x \in PaymentsHere' : payment'[x] = payment[x]
BY DEF RemovePayment, PaymentsHere, TypeOK

\* The first statement of a move locks what is linked to the service.
LEMMA LockEffect ==
    ASSUME TypeOK, NEW r \in Requests, MovePayments(r)
    PROVE  /\ UNCHANGED <<tables, imp, history>> /\ \A q \in Requests \ {r} : req'[q] = req[q]
           /\ \/ req'[r] = Idle
              \/ /\ req'[r].op = "moving" /\ req'[r].uuid = req[r].uuid /\ req'[r].account = req[r].account
                 /\ req'[r].provider = req[r].provider /\ req'[r].rows = LinkedTo(req[r].uuid)
<1> DEFINE R == [op : {"move", "moving"}, uuid : Services, account : Accounts, provider : Providers,
                 rows : SUBSET Payments]
           m == [req[r] EXCEPT !.op = "moving"]
           n == [m EXCEPT !.rows = Follow(req[r].uuid)]
<1>1. req[r] \in R
  BY RequestShape DEF MovePayments, TypeOK, Request, Idle
<1>2. /\ m \in R /\ m.op = "moving" /\ m.uuid = req[r].uuid /\ m.account = req[r].account
      /\ m.provider = req[r].provider
  BY <1>1
<1>3. /\ n.op = m.op /\ n.uuid = m.uuid /\ n.account = m.account /\ n.provider = m.provider
      /\ n.rows = Follow(req[r].uuid)
  BY <1>2
<1>4. req' = [req EXCEPT ![r] = IF ~OwnerExists(req[r].account, req[r].provider) THEN Idle ELSE n]
  BY DEF MovePayments
<1>5. req'[r] = Idle \/ req'[r] = n
  BY <1>4 DEF TypeOK
<1>6. \A q \in Requests \ {r} : req'[q] = req[q]
  BY <1>4 DEF TypeOK
<1>7. UNCHANGED <<tables, imp, history>>
  BY DEF MovePayments
<1> QED BY <1>2, <1>3, <1>5, <1>6, <1>7 DEF Follow

LEMMA SetProjectEffect ==
    ASSUME TypeOK, NEW s \in Services, NEW p \in Projects, SetProject(s, p)
    PROVE  Put({s}, p) /\ {s} \in SUBSET ServicesHere
BY DEF SetProject, Put, TypeOK

-----------------------------------------------------------------------------
(* The pairs (account, provider).                                          *)

LEMMA PairsStep == TypeOK /\ ProjectsHeld /\ RowsHeld /\ PairsFit /\ [Next]_vars => PairsFit'
<1> SUFFICES ASSUME TypeOK, ProjectsHeld, RowsHeld, PairsFit, [Next]_vars PROVE PairsFit'
  OBVIOUS
<1> USE DEF tables, history, OwnerExists
\* Steps that change none of the tables it speaks of.
<1>same. ASSUME UNCHANGED <<account, service, payment>> PROVE PairsFit'
  BY <1>same DEF PairsFit, ServicesHere, PaymentsHere
\* Steps that put services into another project.
<1>put. ASSUME NEW S \in SUBSET ServicesHere, NEW p \in Projects, Put(S, p), UNCHANGED <<account, payment>> PROVE PairsFit'
  <2>1. PaymentsHere' = PaymentsHere
    BY <1>put DEF PaymentsHere
  <2>2. /\ ServicesHere' = ServicesHere
        /\ \A s \in ServicesHere : service'[s].account = service[s].account /\ service'[s].provider = service[s].provider
    BY <1>put, PutEffect DEF ServiceIs
  <2> QED BY <1>put, <2>1, <2>2 DEF PairsFit
<1>1. ASSUME NEW p \in Providers, NEW q \in Providers, MergeProvider(p, q) PROVE PairsFit'
  <2>1. \A a \in Accounts : account'[a] = IF account[a] = p THEN q ELSE account[a]
    BY <1>1 DEF MergeProvider
  <2>2. (\A s \in ServicesHere : service[s].account \in Accounts) /\ (\A y \in PaymentsHere : payment[y].account \in Accounts)
    BY ServiceShape, PaymentShape DEF ServicesHere, PaymentsHere
  <2> QED BY <1>1, <2>1, <2>2, MergeEffect DEF PairsFit, ServiceIs, PaymentIs
<1>2. ASSUME NEW a \in Accounts, DeleteAccount(a) PROVE PairsFit'
  <2>1. \A b \in Accounts \ {a} : account'[b] = account[b]
    BY <1>2 DEF DeleteAccount, TypeOK
  <2>2. (\A s \in ServicesHere : service[s].account \in Accounts) /\ (\A y \in PaymentsHere : payment[y].account \in Accounts)
    BY ServiceShape, PaymentShape DEF ServicesHere, PaymentsHere
  <2> QED BY <1>2, <2>1, <2>2, DeleteEffect DEF PairsFit, PaymentIs
<1>3. ASSUME NEW r \in Requests, CreateService(r) PROVE PairsFit'
  <2>1. UNCHANGED <<account, payment>> /\ PaymentsHere' = PaymentsHere
    BY <1>3 DEF CreateService, PaymentsHere
  <2>2. CASE UNCHANGED service
    BY <1>same, <2>1, <2>2
  <2> QED BY <1>3, <2>1, <2>2, CreateEffect DEF PairsFit, Adds, ServiceIs, ServicesHere
<1>4. ASSUME NEW r \in Requests, MoveService(r) PROVE PairsFit'
  <2>1. UNCHANGED account
    BY <1>4 DEF MoveService
  <2> QED BY <1>4, <2>1, MoveEffect DEF PairsFit, Commits, ServiceIs, PaymentIs
<1>5. ASSUME NEW r \in Requests, CreatePayment(r) PROVE PairsFit'
  <2>1. UNCHANGED <<account, service>> /\ ServicesHere' = ServicesHere
    BY <1>5 DEF CreatePayment, ServicesHere
  <2>2. CASE UNCHANGED payment
    BY <1>same, <2>1, <2>2
  <2> QED BY <1>5, <2>1, <2>2, PayEffect DEF PairsFit, PaymentIs, PaymentsHere
<1>6. ASSUME NEW r \in Requests, RemoveProject(r) PROVE PairsFit'
  <2>1. req[r] \in Request /\ Dropping(r) /\ UNCHANGED <<account, payment>>
    BY <1>6 DEF RemoveProject, TypeOK, Dropping
  <2>2. req[r].rows \in SUBSET ServicesHere
    BY <2>1 DEF ProjectsHeld, In
  <2> QED BY <1>6, <1>same, <1>put, <2>1, <2>2, LedgerAssumption DEF RemoveProject
<1>7. ASSUME NEW s \in Services, RemoveService(s) PROVE PairsFit'
  <2>1. UNCHANGED account
    BY <1>7 DEF RemoveService
  <2> QED BY <1>7, <2>1, RemoveEffect DEF PairsFit, PaymentIs
<1>8. ASSUME NEW s \in Services, NEW p \in Projects, SetProject(s, p) PROVE PairsFit'
  BY <1>8, <1>put, SetProjectEffect DEF SetProject
<1>9. ASSUME NEW y \in Payments, RemovePayment(y) PROVE PairsFit'
  <2>1. UNCHANGED <<account, service>> /\ ServicesHere' = ServicesHere
    BY <1>9 DEF RemovePayment, ServicesHere
  <2> QED BY <1>9, <2>1, RemovePaymentEffect DEF PairsFit
<1>10. ASSUME NEW p \in Projects, MoveAllInto(p) \/ EmptyProject(p) PROVE PairsFit'
  BY <1>10, <1>put, LedgerAssumption DEF MoveAllInto, EmptyProject, In
<1>11. ASSUME NEW i \in Imports, NEW e \in ExtIds, SyncAddsService(i, e) PROVE PairsFit'
  <2>1. UNCHANGED <<account, payment>> /\ PaymentsHere' = PaymentsHere
    BY <1>11 DEF SyncAddsService, PaymentsHere
  <2>2. CASE UNCHANGED service
    BY <1>same, <2>1, <2>2
  <2>3. ASSUME NEW s \in NewService, Adds(s, imp[i].account, imp[i].provider, Default, e),
               OwnerExists(imp[i].account, imp[i].provider)
        PROVE  PairsFit'
    BY <2>1, <2>3 DEF PairsFit, Adds, ServiceIs, ServicesHere
  <2> QED BY <1>11, <2>2, <2>3, SyncAddsEffect
<1>12. ASSUME NEW i \in Imports, NEW c \in ChargeIds, UpsertCharge(i, c) PROVE PairsFit'
  <2>1. UNCHANGED <<account, service>> /\ ServicesHere' = ServicesHere
    BY <1>12 DEF UpsertCharge, ServicesHere
  <2>2. CASE UNCHANGED payment
    BY <1>same, <2>1, <2>2
  <2>3. ASSUME NEW y \in Payments, PaymentsHere' = PaymentsHere \cup {y},
               \/ y \in RowsOf(imp[i], c)
               \/ y \notin PaymentsHere /\ OwnerExists(imp[i].account, imp[i].provider),
               PaymentIs(payment'[y], imp[i].account, IF y \in PaymentsHere THEN payment[y].provider ELSE imp[i].provider,
                         Link(imp[i], c), c),
               \A x \in Payments \ {y} : payment'[x] = payment[x]
        PROVE  PairsFit'
    BY <2>1, <2>3 DEF PairsFit, PaymentIs, PaymentsHere, RowsOf
  <2> QED BY <1>12, <2>2, <2>3, UpsertEffect
<1>13. CASE UNCHANGED vars
  BY <1>13, <1>same DEF vars
<1> QED
  BY <1>same, <1>1, <1>2, <1>3, <1>4, <1>5, <1>6, <1>7, <1>8, <1>9, <1>10, <1>11, <1>12, <1>13
  DEF Next, CreateServiceRead, MoveServiceRead, CreatePaymentRead, SweepProject, MovePayments, CreateProject,
      SyncBegins, ReadLinks, ImportDone, ImportFails

-----------------------------------------------------------------------------
(* Projects.                                                               *)

LEMMA ProjectsStep == TypeOK /\ RowsHeld /\ ProjectsHeld /\ [Next]_vars => ProjectsHeld'
<1> SUFFICES ASSUME TypeOK, RowsHeld, ProjectsHeld, [Next]_vars PROVE ProjectsHeld'
  OBVIOUS
<1> USE DEF tables, history, Dropping
\* Steps that keep the services and their projects, and start no removal.
<1>same. ASSUME projects \subseteq projects', ServicesHere' \subseteq ServicesHere,
                \A s \in ServicesHere' : service'[s].project = service[s].project,
                \A r \in Requests : req'[r].op = "drop" => req'[r] = req[r] /\ req[r].rows \subseteq ServicesHere'
         PROVE  ProjectsHeld'
  <2>1. \A r \in Requests : req'[r].op = "drop" => req'[r].project # Default
          /\ \A s \in req'[r].rows : s \in ServicesHere' /\ service'[s].project = req'[r].project
    BY <1>same DEF ProjectsHeld, In
  <2>2. \A s \in ServicesHere' : service'[s].project \in projects'
    BY <1>same DEF ProjectsHeld
  <2>3. \A q, r \in Requests : q # r /\ req'[q].op = "drop" /\ req'[r].op = "drop" => req'[q].rows \cap req'[r].rows = {}
    BY <1>same DEF ProjectsHeld
  <2>4. Default \in projects'
    BY <1>same DEF ProjectsHeld
  <2> QED BY <2>1, <2>2, <2>3, <2>4 DEF ProjectsHeld
<1>rows. \A r \in Requests : req[r].op = "drop" => req[r].rows \subseteq ServicesHere /\ req[r].rows \subseteq LockedServices
  BY DEF ProjectsHeld, In, LockedServices
\* A step that leaves services and projects alone and drops no lock.
<1>table. ASSUME UNCHANGED <<projects, service>>, \A r \in Requests : req'[r].op = "drop" => req'[r] = req[r]
          PROVE  ProjectsHeld'
  <2>1. ServicesHere' = ServicesHere
    BY <1>table DEF ServicesHere
  <2> QED BY <1>same, <1>table, <1>rows, <2>1
\* A step that adds a service to a project that exists.
<1>add. ASSUME NEW s \in NewService, NEW a, NEW p, NEW j \in projects, NEW e, Adds(s, a, p, j, e), UNCHANGED projects,
               \A r \in Requests : req'[r].op = "drop" => req'[r] = req[r]
        PROVE  ProjectsHeld'
  <2>1. s \notin ServicesHere /\ s \in Services
    BY DEF NewService
  <2>2. \A t \in ServicesHere : service'[t] = service[t] /\ t \in ServicesHere'
    BY <1>add, <2>1 DEF Adds, ServicesHere
  <2>3. \A t \in ServicesHere' : service'[t].project \in projects'
    BY <1>add, <2>2 DEF Adds, ServiceIs, ProjectsHeld
  <2>4. \A r \in Requests : req'[r].op = "drop" => req'[r].project # Default
          /\ \A t \in req'[r].rows : t \in ServicesHere' /\ service'[t].project = req'[r].project
    BY <1>add, <2>2 DEF ProjectsHeld, In
  <2>5. \A q, r \in Requests : q # r /\ req'[q].op = "drop" /\ req'[r].op = "drop" => req'[q].rows \cap req'[r].rows = {}
    BY <1>add DEF ProjectsHeld
  <2>6. Default \in projects'
    BY <1>add DEF ProjectsHeld
  <2> QED BY <2>3, <2>4, <2>5, <2>6 DEF ProjectsHeld
\* A step that puts services nobody has locked into a project that exists.
<1>put. ASSUME NEW S \in SUBSET ServicesHere, NEW p \in projects, Put(S, p), UNCHANGED <<projects, req>>,
               S \cap LockedServices = {}
        PROVE  ProjectsHeld'
  <2>1. p \in Projects
    BY DEF TypeOK
  <2>2. /\ ServicesHere' = ServicesHere
        /\ \A s \in ServicesHere : service'[s].project = IF s \in S THEN p ELSE service[s].project
    BY <1>put, <2>1, PutEffect DEF ServiceIs
  <2>3. \A t \in ServicesHere' : service'[t].project \in projects'
    BY <1>put, <2>2 DEF ProjectsHeld
  <2>4. \A r \in Requests : req[r].op = "drop" => req[r].project # Default
          /\ \A s \in req[r].rows : s \in ServicesHere' /\ service'[s].project = req[r].project
    BY <1>put, <1>rows, <2>2 DEF ProjectsHeld, In
  <2> QED BY <1>put, <2>3, <2>4 DEF ProjectsHeld
<1>1. ASSUME NEW p \in Providers, NEW q \in Providers, MergeProvider(p, q) PROVE ProjectsHeld'
  <2>1. ServicesHere' = ServicesHere /\ \A s \in ServicesHere : service'[s].project = service[s].project
    BY <1>1, MergeEffect DEF ServiceIs
  <2> QED BY <1>1, <1>same, <1>rows, <2>1 DEF MergeProvider
<1>2. ASSUME NEW a \in Accounts, DeleteAccount(a) PROVE ProjectsHeld'
  <2>1. /\ ServicesHere' = {s \in ServicesHere : service[s].account # a}
        /\ \A s \in ServicesHere' : service'[s] = service[s]
    BY <1>2, DeleteEffect
  <2>2. LockedServices \cap ServicesHere \subseteq ServicesHere' /\ UNCHANGED <<projects, req>>
    BY <1>2, <2>1 DEF DeleteAccount
  <2> QED BY <1>same, <1>rows, <2>1, <2>2
<1>3. ASSUME NEW r \in Requests, CreateService(r) PROVE ProjectsHeld'
  <2>1. UNCHANGED projects /\ \A q \in Requests : req'[q].op = "drop" => req'[q] = req[q]
    BY <1>3 DEF CreateService, TypeOK, Idle
  <2> QED BY <1>3, <1>table, <1>add, <2>1, CreateEffect
<1>4. ASSUME NEW r \in Requests, MoveService(r) PROVE ProjectsHeld'
  <2>1. UNCHANGED projects /\ \A q \in Requests : req'[q].op = "drop" => req'[q] = req[q]
    BY <1>4 DEF MoveService, TypeOK, Idle
  <2>2. ServicesHere' = ServicesHere /\ \A s \in ServicesHere : service'[s].project = service[s].project
    BY <1>4, MoveEffect DEF ServiceIs
  <2> QED BY <1>same, <1>rows, <2>1, <2>2
<1>5. ASSUME NEW s \in Services, RemoveService(s) PROVE ProjectsHeld'
  <2>1. s \notin LockedServices /\ UNCHANGED <<projects, req>>
    BY <1>5 DEF RemoveService
  <2> QED BY <1>5, <1>same, <1>rows, <2>1, RemoveEffect
<1>6. ASSUME NEW s \in Services, NEW p \in Projects, SetProject(s, p) PROVE ProjectsHeld'
  <2>1. s \notin LockedServices /\ p \in projects /\ UNCHANGED <<projects, req>>
    BY <1>6 DEF SetProject
  <2> QED BY <1>6, <1>put, <2>1, SetProjectEffect
<1>7. ASSUME NEW p \in Projects, MoveAllInto(p) PROVE ProjectsHeld'
  BY <1>7, <1>put DEF MoveAllInto
<1>8. ASSUME NEW p \in Projects, EmptyProject(p) PROVE ProjectsHeld'
  BY <1>8, <1>put DEF EmptyProject, In, ProjectsHeld
<1>9. ASSUME NEW p \in Projects, CreateProject(p) PROVE ProjectsHeld'
  <2>1. projects \subseteq projects' /\ ServicesHere' = ServicesHere /\ UNCHANGED <<service, req>>
    BY <1>9 DEF CreateProject, ServicesHere
  <2> QED BY <1>same, <1>rows, <2>1
<1>10. ASSUME NEW r \in Requests, NEW p \in Projects, SweepProject(r, p) PROVE ProjectsHeld'
  <2>1. /\ UNCHANGED <<projects, service>> /\ ServicesHere' = ServicesHere /\ p \in projects \ {Default}
        /\ In(p) \cap LockedServices = {}
        /\ \A q \in Requests : req'[q] = IF q = r THEN [op |-> "drop", project |-> p, rows |-> In(p)] ELSE req[q]
    BY <1>10 DEF SweepProject, ServicesHere, TypeOK
  <2>2. \A q \in Requests : req'[q].op = "drop" => req'[q].project # Default
          /\ \A s \in req'[q].rows : s \in ServicesHere' /\ service'[s].project = req'[q].project
    <3>1. req'[r].project = p /\ req'[r].rows = In(p)
      BY <2>1
    <3>2. \A q \in Requests \ {r} : req'[q] = req[q]
      BY <2>1
    <3> QED BY <2>1, <3>1, <3>2 DEF ProjectsHeld, In
  <2>3. \A q, t \in Requests : q # t /\ req'[q].op = "drop" /\ req'[t].op = "drop" => req'[q].rows \cap req'[t].rows = {}
    BY <1>rows, <2>1 DEF ProjectsHeld
  <2>4. Default \in projects' /\ \A s \in ServicesHere' : service'[s].project \in projects'
    BY <2>1 DEF ProjectsHeld
  <2> QED BY <2>2, <2>3, <2>4 DEF ProjectsHeld
<1>11. ASSUME NEW r \in Requests, RemoveProject(r) PROVE ProjectsHeld'
  <2> DEFINE d == req[r]
  <2>1. d.op = "drop" /\ \A q \in Requests : req'[q] = IF q = r THEN Idle ELSE req[q]
    BY <1>11 DEF RemoveProject, TypeOK
  <2>2. \A q \in Requests : req'[q].op = "drop" => req'[q] = req[q] /\ q # r
    BY <2>1 DEF Idle
  <2>3. CASE UNCHANGED <<service, projects>>
    BY <1>table, <2>2, <2>3
  <2>4. CASE Put(d.rows, Default) /\ projects' = projects \ {d.project} /\ NobodyLeft(d.project, d.rows)
    <3>1. d.rows \in SUBSET ServicesHere /\ d.rows = In(d.project) /\ d.project # Default
      BY <2>1, <2>4 DEF ProjectsHeld, In, NobodyLeft
    <3>2. /\ ServicesHere' = ServicesHere
          /\ \A s \in ServicesHere : service'[s].project = IF s \in d.rows THEN Default ELSE service[s].project
      BY <2>4, <3>1, PutEffect, LedgerAssumption DEF ServiceIs
    <3>3. Default \in projects' /\ \A s \in ServicesHere' : service'[s].project \in projects'
      BY <2>4, <3>1, <3>2 DEF ProjectsHeld, In
    <3>4. \A q \in Requests : req'[q].op = "drop" => req'[q].project # Default
          /\ \A s \in req'[q].rows : s \in ServicesHere' /\ service'[s].project = req'[q].project
      <4> TAKE q \in Requests
      <4> HAVE req'[q].op = "drop"
      <4>1. req'[q] = req[q] /\ q # r /\ req[q].project # Default
             /\ \A s \in req[q].rows : s \in ServicesHere /\ service[s].project = req[q].project
        BY <2>2 DEF ProjectsHeld
      <4>2. req[q].rows \cap d.rows = {}
        BY <2>1, <4>1 DEF ProjectsHeld
      <4> QED BY <3>2, <4>1, <4>2 DEF In
    <3>5. \A q, t \in Requests : q # t /\ req'[q].op = "drop" /\ req'[t].op = "drop" => req'[q].rows \cap req'[t].rows = {}
      BY <2>2 DEF ProjectsHeld
    <3> QED BY <3>3, <3>4, <3>5 DEF ProjectsHeld
  <2> QED BY <1>11, <2>3, <2>4 DEF RemoveProject
<1>12. ASSUME NEW i \in Imports, NEW e \in ExtIds, SyncAddsService(i, e) PROVE ProjectsHeld'
  <2>1. UNCHANGED <<projects, req>>
    BY <1>12 DEF SyncAddsService
  <2>2. Default \in projects
    BY DEF ProjectsHeld
  <2> QED BY <1>12, <1>table, <1>add, <2>1, <2>2, SyncAddsEffect
<1>13. ASSUME NEW r \in Requests, CreatePayment(r) \/ MovePayments(r) PROVE ProjectsHeld'
  <2>1. UNCHANGED <<projects, service>> /\ \A q \in Requests : req'[q].op = "drop" => req'[q] = req[q]
    <3>1. CASE CreatePayment(r)
      BY <3>1 DEF CreatePayment, TypeOK, Idle
    <3>2. CASE MovePayments(r)
      <4>1. UNCHANGED <<projects, service>> /\ req'[r].op # "drop"
        BY <3>2, LockEffect DEF Idle
      <4>2. \A q \in Requests \ {r} : req'[q] = req[q]
        BY <3>2, LockEffect
      <4> QED BY <4>1, <4>2
    <3> QED BY <1>13, <3>1, <3>2
  <2> QED BY <1>table, <2>1
<1>14. ASSUME NEW r \in Requests, NEW a \in Accounts, NEW p \in Projects, CreateServiceRead(r, a, p) PROVE ProjectsHeld'
  BY <1>14, <1>table DEF CreateServiceRead, TypeOK
<1>15. ASSUME NEW r \in Requests, NEW s \in Services, NEW a \in Accounts, MoveServiceRead(r, s, a) PROVE ProjectsHeld'
  BY <1>15, <1>table DEF MoveServiceRead, TypeOK
<1>16. ASSUME NEW r \in Requests, NEW a \in Accounts, NEW s \in Services \cup {None}, CreatePaymentRead(r, a, s) PROVE ProjectsHeld'
  BY <1>16, <1>table DEF CreatePaymentRead, TypeOK
<1>17. CASE UNCHANGED <<projects, service, req>>
  BY <1>17, <1>table
<1> QED
  BY <1>1, <1>2, <1>3, <1>4, <1>5, <1>6, <1>7, <1>8, <1>9, <1>10, <1>11, <1>12, <1>13, <1>14, <1>15, <1>16, <1>17
  DEF Next, vars, RemovePayment, SyncBegins, ReadLinks, UpsertCharge, ImportDone, ImportFails

-----------------------------------------------------------------------------
(* Payments and the services they name.                                    *)

\* Steps after which no row has another account, external id or link, and no
\* request or import has more to hold than before.
SameLinks ==
    /\ ServicesHere' = ServicesHere /\ PaymentsHere' = PaymentsHere /\ UNCHANGED foreign
    /\ \A s \in ServicesHere : service'[s].account = service[s].account /\ service'[s].externalId = service[s].externalId
    /\ \A y \in PaymentsHere : /\ payment'[y].account = payment[y].account /\ payment'[y].service = payment[y].service
                               /\ payment'[y].externalId = payment[y].externalId
    /\ \A r \in Requests : req'[r].op \in {"move", "moving"} => req'[r] = req[r]
    /\ \A i \in Imports : imp'[i].op = "import" =>
         imp[i].op = "import" /\ imp'[i].account = imp[i].account /\ imp'[i].links = imp[i].links

LEMMA SameLinksStep == TypeOK /\ LinkInv /\ SameLinks => LinkInv'
<1> SUFFICES ASSUME TypeOK, LinkInv, SameLinks PROVE LinkInv'
  OBVIOUS
<1>1. Referenced'
  BY DEF LinkInv, SameLinks, Referenced
<1>2. OnlyManualMoves'
  BY DEF LinkInv, SameLinks, OnlyManualMoves, Movable
<1>3. RowsHeld'
  BY DEF LinkInv, SameLinks, RowsHeld
<1>4. MapHolds'
  BY DEF LinkInv, SameLinks, MapHolds
<1>5. ChargesFit'
  BY DEF LinkInv, SameLinks, ChargesFit, Referenced
<1>6. LinksFit'
  BY DEF LinkInv, SameLinks, LinksFit
<1> QED BY <1>1, <1>2, <1>3, <1>4, <1>5, <1>6 DEF LinkInv

LEMMA LinksDelete == TypeOK /\ LinkInv /\ (\E a \in Accounts : DeleteAccount(a)) => LinkInv'
<1> SUFFICES ASSUME TypeOK, LinkInv, NEW a \in Accounts, DeleteAccount(a) PROVE LinkInv'
  OBVIOUS
<1>1. /\ ServicesHere' = {s \in ServicesHere : service[s].account # a}
      /\ \A s \in ServicesHere' : service'[s] = service[s]
      /\ PaymentsHere' = {y \in PaymentsHere : payment[y].account # a}
      /\ \A y \in PaymentsHere' :
           /\ payment'[y].account = payment[y].account /\ payment'[y].externalId = payment[y].externalId
           /\ payment'[y].service = IF payment[y].service \in ServicesHere \ ServicesHere' THEN None ELSE payment[y].service
      /\ foreign' = {y \in foreign : y \in PaymentsHere' /\ payment'[y].service # None}
  BY DeleteEffect DEF PaymentIs
<1>2. UNCHANGED <<req, imp>>
  BY DEF DeleteAccount
<1>3. None \notin Services
  BY LedgerAssumption
<1>4. \A r \in Requests : req[r].op = "moving" => \A y \in req[r].rows :
        y \in PaymentsHere' /\ payment[y].service \notin ServicesHere \ ServicesHere'
  BY <1>1 DEF DeleteAccount, LockedPayments, LinkInv, RowsHeld
<1>5. \A r \in Requests : req[r].op = "moving" => req[r].uuid # None
  BY <1>3, RequestShape DEF TypeOK
<1>6. Referenced'
  BY <1>1 DEF LinkInv, Referenced
<1>7. OnlyManualMoves'
  BY <1>1, <1>2 DEF LinkInv, OnlyManualMoves, Movable
<1>8. RowsHeld'
  BY <1>1, <1>2, <1>4, <1>5 DEF LinkInv, RowsHeld
<1>9. MapHolds'
  BY <1>1, <1>2 DEF LinkInv, MapHolds
<1>10. ChargesFit'
  BY <1>1 DEF LinkInv, ChargesFit, Referenced
<1>11. LinksFit'
  BY <1>1 DEF LinkInv, LinksFit, Referenced
<1> QED BY <1>6, <1>7, <1>8, <1>9, <1>10, <1>11 DEF LinkInv

LEMMA LinksRemoveService == TypeOK /\ LinkInv /\ (\E s \in Services : RemoveService(s)) => LinkInv'
<1> SUFFICES ASSUME TypeOK, LinkInv, NEW s \in Services, RemoveService(s) PROVE LinkInv'
  OBVIOUS
<1>1. /\ ServicesHere' = ServicesHere \ {s} /\ PaymentsHere' = PaymentsHere
      /\ \A t \in ServicesHere' : service'[t] = service[t]
      /\ \A y \in PaymentsHere :
           /\ payment'[y].account = payment[y].account /\ payment'[y].externalId = payment[y].externalId
           /\ payment'[y].service = IF payment[y].service = s THEN None ELSE payment[y].service
      /\ foreign' = foreign \ {y \in PaymentsHere : payment[y].service = s}
  BY RemoveEffect DEF PaymentIs, LinkedTo
<1>2. UNCHANGED <<req, imp>>
  BY DEF RemoveService
<1>3. None \notin Services
  BY LedgerAssumption
<1>4. \A r \in Requests : req[r].op = "moving" => \A y \in req[r].rows : payment[y].service # s
  BY DEF RemoveService, LockedPayments, LinkInv, RowsHeld, LinkedTo
<1>5. \A r \in Requests : req[r].op = "moving" => req[r].uuid # None
  BY <1>3, RequestShape DEF TypeOK
<1>6. Referenced'
  BY <1>1 DEF LinkInv, Referenced
<1>7. OnlyManualMoves'
  BY <1>1, <1>2 DEF LinkInv, OnlyManualMoves, Movable
<1>8. RowsHeld'
  BY <1>1, <1>2, <1>4, <1>5 DEF LinkInv, RowsHeld
<1>9. MapHolds'
  BY <1>1, <1>2 DEF LinkInv, MapHolds
<1>10. ChargesFit'
  BY <1>1 DEF LinkInv, ChargesFit, Referenced
<1>11. LinksFit'
  BY <1>1 DEF LinkInv, LinksFit, Referenced
<1> QED BY <1>6, <1>7, <1>8, <1>9, <1>10, <1>11 DEF LinkInv

\* A new service has a key that no payment, request or import knows.
LEMMA LinksAdd ==
    ASSUME TypeOK, LinkInv, NEW s \in NewService, NEW a, NEW p, NEW j, NEW e, Adds(s, a, p, j, e),
           UNCHANGED <<payment, imp, foreign>>,
           \A r \in Requests : req'[r].op \in {"move", "moving"} => req'[r] = req[r]
    PROVE  LinkInv'
<1>1. /\ s \in Services \ ServicesHere /\ ServicesHere' = ServicesHere \cup {s} /\ PaymentsHere' = PaymentsHere
      /\ \A t \in ServicesHere : service'[t] = service[t]
  BY DEF NewService, Adds, ServicesHere, PaymentsHere
<1>2. \A r \in Requests : req[r].op \in {"move", "moving"} => req[r].uuid # s
  BY DEF NewService
<1>3. \A i \in Imports : imp[i].op = "import" => \A x \in DOMAIN imp[i].links : imp[i].links[x] # s
  BY DEF NewService
<1>6. Referenced'
  BY <1>1 DEF LinkInv, Referenced
<1>7. OnlyManualMoves'
  BY <1>1, <1>2 DEF LinkInv, OnlyManualMoves, Movable
<1>8. RowsHeld'
  BY <1>1 DEF LinkInv, RowsHeld
<1>9. MapHolds'
  BY <1>1, <1>3 DEF LinkInv, MapHolds
<1>10. ChargesFit'
  BY <1>1 DEF LinkInv, ChargesFit, Referenced
<1>11. LinksFit'
  BY <1>1 DEF LinkInv, LinksFit, Referenced
<1> QED BY <1>6, <1>7, <1>8, <1>9, <1>10, <1>11 DEF LinkInv

LEMMA LinksLock == TypeOK /\ LinkInv /\ (\E r \in Requests : MovePayments(r)) => LinkInv'
<1> SUFFICES ASSUME TypeOK, LinkInv, NEW r \in Requests, MovePayments(r) PROVE LinkInv'
  OBVIOUS
<1>1. /\ UNCHANGED <<service, payment, imp, foreign>> /\ \A q \in Requests \ {r} : req'[q] = req[q]
      /\ \/ req'[r] = Idle
         \/ /\ req'[r].op = "moving" /\ req'[r].uuid = req[r].uuid
            /\ req'[r].rows = {y \in PaymentsHere : payment[y].service = req[r].uuid}
  BY LockEffect DEF tables, history, LinkedTo
<1>2. ServicesHere' = ServicesHere /\ PaymentsHere' = PaymentsHere /\ req[r].op = "move"
  BY <1>1 DEF ServicesHere, PaymentsHere, MovePayments
<1>6. Referenced'
  BY <1>1, <1>2 DEF LinkInv, Referenced
<1>7. OnlyManualMoves'
  BY <1>1, <1>2 DEF LinkInv, OnlyManualMoves, Movable, Idle
<1>8. RowsHeld'
  <2> SUFFICES ASSUME NEW q \in Requests, req'[q].op = "moving"
               PROVE  /\ \A y \in req'[q].rows : y \in PaymentsHere /\ payment[y].service = req'[q].uuid
                      /\ \A y \in PaymentsHere \ req'[q].rows :
                           payment[y].service = req'[q].uuid => y \in foreign /\ payment[y].externalId = None
    BY <1>1, <1>2 DEF RowsHeld
  <2>1. CASE q = r
    BY <1>1, <2>1 DEF Idle
  <2>2. CASE q # r
    BY <1>1, <2>2 DEF LinkInv, RowsHeld
  <2> QED BY <2>1, <2>2
<1>9. MapHolds'
  BY <1>1, <1>2 DEF LinkInv, MapHolds
<1>10. ChargesFit'
  BY <1>1, <1>2 DEF LinkInv, ChargesFit
<1>11. LinksFit'
  BY <1>1, <1>2 DEF LinkInv, LinksFit
<1> QED BY <1>6, <1>7, <1>8, <1>9, <1>10, <1>11 DEF LinkInv

\* The service goes with the payments it had when the move began; those that
\* came since stay, and stay known as foreign.
LEMMA LinksMove == TypeOK /\ LinkInv /\ (\E r \in Requests : MoveService(r)) => LinkInv'
<1> SUFFICES ASSUME TypeOK, LinkInv, NEW r \in Requests, MoveService(r) PROVE LinkInv'
  OBVIOUS
<1>1. req[r].op = "moving" /\ req[r].uuid \in Services /\ req[r].account \in Accounts
  BY RequestShape DEF MoveService, TypeOK
<1>2. UNCHANGED imp /\ \A q \in Requests : req'[q].op \in {"move", "moving"} => req'[q] = req[q] /\ q # r
  BY DEF MoveService, TypeOK, Idle
<1>3. CASE ~Commits(r)
  <2>1. UNCHANGED <<service, payment, foreign>>
    BY <1>3, MoveEffect DEF LinkInv
  <2>2. SameLinks
    BY <1>2, <2>1 DEF SameLinks, ServicesHere, PaymentsHere
  <2> QED BY <2>2, SameLinksStep
<1>4. CASE Commits(r)
  <2>1. /\ ServicesHere' = ServicesHere /\ PaymentsHere' = PaymentsHere
        /\ \A s \in ServicesHere : /\ service'[s].externalId = service[s].externalId
                                   /\ service'[s].account = IF s = req[r].uuid THEN req[r].account ELSE service[s].account
        /\ \A y \in PaymentsHere : /\ payment'[y].service = payment[y].service
                                   /\ payment'[y].externalId = payment[y].externalId
                                   /\ payment'[y].account = IF y \in req[r].rows THEN req[r].account ELSE payment[y].account
    <3>1. RowsHeld
      BY DEF LinkInv
    <3>2. ServicesHere' = ServicesHere /\ PaymentsHere' = PaymentsHere
      BY <3>1, MoveEffect
    <3>3. \A s \in ServicesHere : /\ service'[s].externalId = service[s].externalId
                                  /\ service'[s].account = IF s = req[r].uuid THEN req[r].account ELSE service[s].account
      BY <1>4, <3>1, MoveEffect DEF ServiceIs
    <3>4. \A y \in PaymentsHere : /\ payment'[y].service = payment[y].service
                                  /\ payment'[y].externalId = payment[y].externalId
                                  /\ payment'[y].account = IF y \in req[r].rows THEN req[r].account ELSE payment[y].account
      BY <1>4, <3>1, MoveEffect DEF PaymentIs
    <3> QED BY <3>2, <3>3, <3>4
  <2>2. foreign' = IF BeingMoved(req[r].uuid, {r}) THEN foreign ELSE foreign \ req[r].rows
    BY <1>4 DEF MoveService, Commits
  <2>3. /\ \A y \in req[r].rows : y \in PaymentsHere /\ payment[y].service = req[r].uuid
        /\ \A y \in PaymentsHere \ req[r].rows :
             payment[y].service = req[r].uuid => y \in foreign /\ payment[y].externalId = None
    BY <1>1 DEF LinkInv, RowsHeld
  <2>4. req[r].uuid \in ServicesHere /\ service[req[r].uuid].externalId = None
    BY <1>1, <1>4 DEF Commits, LinkInv, OnlyManualMoves, Movable
  <2>5. \A q \in Requests : req'[q].op = "moving" /\ req'[q].uuid = req[r].uuid => foreign' = foreign
    BY <1>2, <2>2 DEF BeingMoved
  <2>6. Referenced'
    BY <2>1 DEF LinkInv, Referenced
  <2>7. OnlyManualMoves'
    BY <1>2, <2>1 DEF LinkInv, OnlyManualMoves, Movable
  <2>8. RowsHeld'
    <3> SUFFICES ASSUME NEW q \in Requests, req'[q].op = "moving"
                 PROVE  /\ \A y \in req'[q].rows : y \in PaymentsHere' /\ payment'[y].service = req'[q].uuid
                        /\ \A y \in PaymentsHere' \ req'[q].rows :
                             payment'[y].service = req'[q].uuid => y \in foreign' /\ payment'[y].externalId = None
      BY DEF RowsHeld
    <3>1. /\ req'[q] = req[q]
          /\ \A y \in req[q].rows : y \in PaymentsHere /\ payment[y].service = req[q].uuid
          /\ \A y \in PaymentsHere \ req[q].rows :
               payment[y].service = req[q].uuid => y \in foreign /\ payment[y].externalId = None
      BY <1>2 DEF LinkInv, RowsHeld
    <3>2. \A y \in PaymentsHere : payment[y].service = req[q].uuid /\ y \in foreign => y \in foreign'
      BY <2>2, <2>3, <2>5, <3>1
    <3> QED BY <2>1, <3>1, <3>2
  <2>9. MapHolds'
    <3>1. \A i \in Imports : imp[i].op = "import" =>
            \A e \in DOMAIN imp[i].links : imp[i].links[e] \in ServicesHere =>
              /\ service[imp[i].links[e]].account = imp[i].account /\ service[imp[i].links[e]].externalId = e
              /\ e # None
      BY ImportShape, LedgerAssumption DEF LinkInv, MapHolds, TypeOK
    <3> QED BY <1>2, <2>1, <2>4, <3>1 DEF MapHolds
  <2>10. ChargesFit'
    BY <2>1 DEF LinkInv, ChargesFit, Referenced
  <2>11. LinksFit'
    <3> SUFFICES ASSUME NEW y \in PaymentsHere, payment[y].service # None
                 PROVE  \/ payment[y].service \in ServicesHere /\ service'[payment[y].service].account = payment'[y].account
                        \/ y \in foreign' /\ payment[y].externalId = None
      BY <2>1 DEF LinksFit
    <3>1. payment[y].service \in ServicesHere
      BY DEF LinkInv, Referenced
    <3>2. CASE y \in req[r].rows
      BY <2>1, <2>3, <3>1, <3>2
    <3>3. CASE y \notin req[r].rows /\ payment[y].service = req[r].uuid
      BY <2>2, <2>3, <3>3
    <3>4. CASE y \notin req[r].rows /\ payment[y].service # req[r].uuid
      <4>1. \/ service[payment[y].service].account = payment[y].account
            \/ y \in foreign /\ payment[y].externalId = None
        BY DEF LinkInv, LinksFit
      <4> QED BY <2>1, <2>2, <3>1, <3>4, <4>1
    <3> QED BY <3>2, <3>3, <3>4
  <2> QED BY <2>6, <2>7, <2>8, <2>9, <2>10, <2>11 DEF LinkInv
<1> QED BY <1>3, <1>4

LEMMA LinksRead == TypeOK /\ LinkInv /\ (\E r \in Requests, s \in Services, a \in Accounts : MoveServiceRead(r, s, a)) => LinkInv'
<1> SUFFICES ASSUME TypeOK, LinkInv, NEW r \in Requests, NEW s \in Services, NEW a \in Accounts, MoveServiceRead(r, s, a)
             PROVE  LinkInv'
  OBVIOUS
<1>1. /\ UNCHANGED <<service, payment, imp, foreign>> /\ Movable(s)
      /\ req'[r].op = "move" /\ req'[r].uuid = s /\ \A q \in Requests \ {r} : req'[q] = req[q]
  BY DEF MoveServiceRead, tables, history, TypeOK
<1>2. ServicesHere' = ServicesHere /\ PaymentsHere' = PaymentsHere
  BY <1>1 DEF ServicesHere, PaymentsHere
<1>6. Referenced'
  BY <1>1, <1>2 DEF LinkInv, Referenced
<1>7. OnlyManualMoves'
  BY <1>1, <1>2 DEF LinkInv, OnlyManualMoves, Movable
<1>8. RowsHeld'
  BY <1>1, <1>2 DEF LinkInv, RowsHeld
<1>9. MapHolds'
  BY <1>1, <1>2 DEF LinkInv, MapHolds
<1>10. ChargesFit'
  BY <1>1, <1>2 DEF LinkInv, ChargesFit
<1>11. LinksFit'
  BY <1>1, <1>2 DEF LinkInv, LinksFit
<1> QED BY <1>6, <1>7, <1>8, <1>9, <1>10, <1>11 DEF LinkInv

LEMMA LinksPay == TypeOK /\ LinkInv /\ (\E r \in Requests : CreatePayment(r)) => LinkInv'
<1> SUFFICES ASSUME TypeOK, LinkInv, NEW r \in Requests, CreatePayment(r) PROVE LinkInv'
  OBVIOUS
<1>1. UNCHANGED <<service, imp>> /\ \A q \in Requests : req'[q].op \in {"move", "moving"} => req'[q] = req[q]
  BY DEF CreatePayment, TypeOK, Idle
<1>2. ServicesHere' = ServicesHere
  BY <1>1 DEF ServicesHere
<1>3. CASE UNCHANGED <<payment, foreign>>
  BY <1>1, <1>2, <1>3, SameLinksStep DEF SameLinks, PaymentsHere
<1>4. ASSUME NEW y \in NewPayment, req[r].service \in ServicesHere \cup {None}, PaymentsHere' = PaymentsHere \cup {y},
             PaymentIs(payment'[y], req[r].account, req[r].provider, req[r].service, None),
             \A x \in Payments \ {y} : payment'[x] = payment[x],
             foreign' = IF req[r].service # None /\ (service[req[r].service].account # req[r].account
                                                     \/ BeingMoved(req[r].service, {}))
                        THEN foreign \cup {y} ELSE foreign
      PROVE  LinkInv'
  <2>1. /\ y \in Payments \ PaymentsHere /\ \A x \in PaymentsHere : payment'[x] = payment[x]
        /\ payment'[y].account = req[r].account /\ payment'[y].service = req[r].service /\ payment'[y].externalId = None
    BY <1>4 DEF NewPayment, PaymentsHere, PaymentIs
  <2>2. foreign \subseteq foreign'
    BY <1>4
  <2>6. Referenced'
    BY <1>2, <1>4, <2>1 DEF LinkInv, Referenced
  <2>7. OnlyManualMoves'
    BY <1>1, <1>2 DEF LinkInv, OnlyManualMoves, Movable
  <2>8. RowsHeld'
    <3> SUFFICES ASSUME NEW q \in Requests, req'[q].op = "moving"
                 PROVE  /\ \A x \in req'[q].rows : x \in PaymentsHere' /\ payment'[x].service = req'[q].uuid
                        /\ \A x \in PaymentsHere' \ req'[q].rows :
                             payment'[x].service = req'[q].uuid => x \in foreign' /\ payment'[x].externalId = None
      BY DEF RowsHeld
    <3>1. /\ req'[q] = req[q] /\ req[q].op = "moving" /\ req[q].uuid # None
          /\ \A x \in req[q].rows : x \in PaymentsHere /\ payment[x].service = req[q].uuid
          /\ \A x \in PaymentsHere \ req[q].rows :
               payment[x].service = req[q].uuid => x \in foreign /\ payment[x].externalId = None
      BY <1>1, RequestShape, LedgerAssumption DEF LinkInv, RowsHeld, TypeOK
    <3>2. req[r].service = req[q].uuid => y \in foreign'
      BY <1>4, <3>1 DEF BeingMoved
    <3> QED BY <1>4, <2>1, <2>2, <3>1, <3>2
  <2>9. MapHolds'
    BY <1>1, <1>2 DEF LinkInv, MapHolds
  <2>10. ChargesFit'
    BY <1>1, <1>4, <2>1 DEF LinkInv, ChargesFit
  <2>11. LinksFit'
    BY <1>1, <1>2, <1>4, <2>1, <2>2 DEF LinkInv, LinksFit
  <2> QED BY <2>6, <2>7, <2>8, <2>9, <2>10, <2>11 DEF LinkInv
<1> QED BY <1>3, <1>4, PayEffect

LEMMA LinksRemovePayment == TypeOK /\ LinkInv /\ (\E y \in Payments : RemovePayment(y)) => LinkInv'
<1> SUFFICES ASSUME TypeOK, LinkInv, NEW y \in Payments, RemovePayment(y) PROVE LinkInv'
  OBVIOUS
<1>1. /\ y \notin LockedPayments /\ PaymentsHere' = PaymentsHere \ {y} /\ foreign' = foreign \ {y}
      /\ \A x \in PaymentsHere' : payment'[x] = payment[x]
  BY RemovePaymentEffect
<1>2. UNCHANGED <<service, req, imp>> /\ ServicesHere' = ServicesHere
  BY DEF RemovePayment, ServicesHere
<1>6. Referenced'
  BY <1>1, <1>2 DEF LinkInv, Referenced
<1>7. OnlyManualMoves'
  BY <1>2 DEF LinkInv, OnlyManualMoves, Movable
<1>8. RowsHeld'
  BY <1>1, <1>2 DEF LinkInv, RowsHeld, LockedPayments
<1>9. MapHolds'
  BY <1>2 DEF LinkInv, MapHolds
<1>10. ChargesFit'
  BY <1>1, <1>2 DEF LinkInv, ChargesFit
<1>11. LinksFit'
  BY <1>1, <1>2 DEF LinkInv, LinksFit
<1> QED BY <1>6, <1>7, <1>8, <1>9, <1>10, <1>11 DEF LinkInv

\* The map is read from the table in one statement.
LEMMA LinksReadLinks == TypeOK /\ LinkInv /\ (\E i \in Imports, list \in Ledgers : ReadLinks(i, list)) => LinkInv'
<1> SUFFICES ASSUME TypeOK, LinkInv, NEW i \in Imports, NEW list \in Ledgers, ReadLinks(i, list) PROVE LinkInv'
  OBVIOUS
<1> DEFINE E == {e \in ExtIds : Known(imp[i].account, e) # {}}
           links == [e \in E |-> CHOOSE s \in Known(imp[i].account, e) : TRUE]
<1>1. /\ UNCHANGED <<service, payment, req, foreign>>
      /\ imp'[i].op = "import" /\ imp'[i].account = imp[i].account /\ imp'[i].links = links
      /\ \A k \in Imports \ {i} : imp'[k] = imp[k]
  BY DEF ReadLinks, tables, history, TypeOK
<1>2. ServicesHere' = ServicesHere /\ PaymentsHere' = PaymentsHere
  BY <1>1 DEF ServicesHere, PaymentsHere
<1>3. \A e \in E : links[e] \in Known(imp[i].account, e)
  OBVIOUS
<1>4. DOMAIN links = E
  OBVIOUS
<1> HIDE DEF links
<1>6. Referenced'
  BY <1>1, <1>2 DEF LinkInv, Referenced
<1>7. OnlyManualMoves'
  BY <1>1, <1>2 DEF LinkInv, OnlyManualMoves, Movable
<1>8. RowsHeld'
  BY <1>1, <1>2 DEF LinkInv, RowsHeld
<1>9. MapHolds'
  <2> SUFFICES ASSUME NEW k \in Imports, imp'[k].op = "import", NEW e \in DOMAIN imp'[k].links,
                      imp'[k].links[e] \in ServicesHere
               PROVE  service[imp'[k].links[e]].account = imp'[k].account /\ service[imp'[k].links[e]].externalId = e
    BY <1>1, <1>2 DEF MapHolds
  <2>1. CASE k = i
    BY <1>1, <1>3, <1>4, <2>1 DEF Known
  <2>2. CASE k # i
    BY <1>1, <2>2 DEF LinkInv, MapHolds
  <2> QED BY <2>1, <2>2
<1>10. ChargesFit'
  BY <1>1, <1>2 DEF LinkInv, ChargesFit
<1>11. LinksFit'
  BY <1>1, <1>2 DEF LinkInv, LinksFit
<1> QED BY <1>6, <1>7, <1>8, <1>9, <1>10, <1>11 DEF LinkInv

\* What an import links is a synced service of its account, which nobody moves.
LEMMA LinksUpsert == TypeOK /\ LinkInv /\ (\E i \in Imports, c \in ChargeIds : UpsertCharge(i, c)) => LinkInv'
<1> SUFFICES ASSUME TypeOK, LinkInv, NEW i \in Imports, NEW c \in ChargeIds, UpsertCharge(i, c) PROVE LinkInv'
  OBVIOUS
<1> DEFINE o == imp[i]
<1>1. UNCHANGED <<service, req, foreign>> /\ ServicesHere' = ServicesHere /\ o.op = "import" /\ o \in Import
  BY DEF UpsertCharge, ServicesHere, TypeOK
<1>2. \A k \in Imports : imp'[k].op = "import" =>
         imp[k].op = "import" /\ imp'[k].account = imp[k].account /\ imp'[k].links = imp[k].links
  <2>1. CASE Ends(i)
    BY <2>1 DEF Ends, Idle, TypeOK
  <2>2. CASE imp' = [imp EXCEPT ![i].todo = @ \ {c}]
    <3>1. imp' = [imp EXCEPT ![i] = [o EXCEPT !.todo = o.todo \ {c}]]
      BY <2>2
    <3>2. o = [op |-> "import", account |-> o.account, provider |-> o.provider, list |-> o.list,
               links |-> o.links, todo |-> o.todo]
      BY <1>1, ImportShape
    <3>3. LET n == [o EXCEPT !.todo = o.todo \ {c}] IN n.op = "import" /\ n.account = o.account /\ n.links = o.links
      BY <3>2
    <3> QED BY <1>1, <3>1, <3>3 DEF TypeOK
  <2> QED BY <2>1, <2>2 DEF UpsertCharge
<1>3. CASE UNCHANGED payment
  BY <1>1, <1>2, <1>3, SameLinksStep DEF SameLinks, PaymentsHere
<1>4. ASSUME NEW y \in Payments, Link(o, c) \in ServicesHere \cup {None},
             y \in RowsOf(o, c) \ LockedPayments \/ y \notin PaymentsHere,
             PaymentsHere' = PaymentsHere \cup {y}, \A x \in Payments \ {y} : payment'[x] = payment[x],
             payment'[y].account = o.account, payment'[y].service = Link(o, c), payment'[y].externalId = c
      PROVE  LinkInv'
  <2> DEFINE s == Link(o, c)
  <2>1. s = None \/ /\ s \in ServicesHere /\ service[s].account = o.account
                    /\ service[s].externalId # None
    <3>1. s # None => \E e \in DOMAIN o.links : s = o.links[e]
      BY DEF Link
    <3>2. \A e \in DOMAIN o.links : e # None
      BY <1>1, ImportShape, LedgerAssumption
    <3> QED BY <1>1, <1>4, <3>1, <3>2 DEF LinkInv, MapHolds
  <2>2. c # None
    BY LedgerAssumption
  <2>3. \A q \in Requests : req[q].op = "moving" => /\ req[q].uuid # s /\ y \notin req[q].rows
    <3> TAKE q \in Requests
    <3> HAVE req[q].op = "moving"
    <3>1. req[q].uuid # None
      BY RequestShape, LedgerAssumption DEF TypeOK
    <3>2. req[q].uuid \in ServicesHere => service[req[q].uuid].externalId = None
      BY DEF LinkInv, OnlyManualMoves, Movable
    <3>3. y \notin req[q].rows
      BY <1>4 DEF LockedPayments, LinkInv, RowsHeld
    <3> QED BY <2>1, <3>1, <3>2, <3>3
  <2> HIDE DEF s
  <2>4. \A x \in PaymentsHere \ {y} : payment'[x] = payment[x]
    BY <1>4 DEF PaymentsHere
  <2>5. payment'[y].service = s
    BY <1>4 DEF s
  <2>6. Referenced'
    BY <1>1, <1>4, <2>1, <2>4, <2>5 DEF LinkInv, Referenced
  <2>7. OnlyManualMoves'
    BY <1>1 DEF LinkInv, OnlyManualMoves, Movable
  <2>8. RowsHeld'
    BY <1>1, <1>4, <2>3, <2>4, <2>5 DEF LinkInv, RowsHeld
  <2>9. MapHolds'
    BY <1>1, <1>2 DEF LinkInv, MapHolds
  <2>10. ChargesFit'
    BY <1>1, <1>4, <2>1, <2>4, <2>5 DEF LinkInv, ChargesFit
  <2>11. LinksFit'
    BY <1>1, <1>4, <2>1, <2>4, <2>5 DEF LinkInv, LinksFit
  <2> QED BY <2>6, <2>7, <2>8, <2>9, <2>10, <2>11 DEF LinkInv
<1>5. CASE payment' # payment
  BY <1>4, <1>5, UpsertRow, ZenonT(60)
<1> QED BY <1>3, <1>5

\* The steps that leave the links alone.
LEMMA QuietSteps ==
    ASSUME TypeOK, ProjectsHeld, [Next]_vars
    PROVE  \/ SameLinks
           \/ \E a \in Accounts : DeleteAccount(a)
           \/ \E r \in Requests : CreateService(r) \/ MovePayments(r) \/ MoveService(r) \/ CreatePayment(r)
           \/ \E r \in Requests, s \in Services, a \in Accounts : MoveServiceRead(r, s, a)
           \/ \E s \in Services : RemoveService(s)
           \/ \E y \in Payments : RemovePayment(y)
           \/ \E i \in Imports, e \in ExtIds : SyncAddsService(i, e)
           \/ \E i \in Imports, list \in Ledgers : ReadLinks(i, list)
           \/ \E i \in Imports, c \in ChargeIds : UpsertCharge(i, c)
<1> USE DEF tables, history
\* No table is touched.
<1>same. ASSUME UNCHANGED <<service, payment, foreign>>,
                \A r \in Requests : req'[r].op \in {"move", "moving"} => req'[r] = req[r],
                \A i \in Imports : imp'[i].op = "import" => imp'[i] = imp[i]
         PROVE  SameLinks
  BY <1>same DEF SameLinks, ServicesHere, PaymentsHere
<1>put. ASSUME NEW S \in SUBSET ServicesHere, NEW p \in Projects, Put(S, p), UNCHANGED <<payment, imp, foreign>>,
               \A r \in Requests : req'[r].op \in {"move", "moving"} => req'[r] = req[r]
        PROVE  SameLinks
  <2>1. /\ ServicesHere' = ServicesHere
        /\ \A s \in ServicesHere : service'[s].account = service[s].account /\ service'[s].externalId = service[s].externalId
    BY <1>put, PutEffect DEF ServiceIs
  <2> QED BY <1>put, <2>1 DEF SameLinks, PaymentsHere
<1>1. ASSUME NEW p \in Providers, NEW q \in Providers, MergeProvider(p, q) PROVE SameLinks
  <2>1. UNCHANGED <<req, imp, foreign>>
    BY <1>1 DEF MergeProvider
  <2>2. /\ ServicesHere' = ServicesHere /\ PaymentsHere' = PaymentsHere
        /\ \A s \in ServicesHere : service'[s].account = service[s].account /\ service'[s].externalId = service[s].externalId
        /\ \A y \in PaymentsHere : /\ payment'[y].account = payment[y].account /\ payment'[y].service = payment[y].service
                                   /\ payment'[y].externalId = payment[y].externalId
    BY <1>1, MergeEffect DEF ServiceIs, PaymentIs
  <2> QED BY <2>1, <2>2 DEF SameLinks
<1>2. ASSUME NEW r \in Requests, NEW a \in Accounts, NEW p \in Projects, CreateServiceRead(r, a, p) PROVE SameLinks
  BY <1>2, <1>same DEF CreateServiceRead, TypeOK
<1>3. ASSUME NEW r \in Requests, NEW a \in Accounts, NEW s \in Services \cup {None}, CreatePaymentRead(r, a, s) PROVE SameLinks
  BY <1>3, <1>same DEF CreatePaymentRead, TypeOK
<1>4. ASSUME NEW r \in Requests, NEW p \in Projects, SweepProject(r, p) PROVE SameLinks
  BY <1>4, <1>same DEF SweepProject, TypeOK
<1>5. ASSUME NEW r \in Requests, RemoveProject(r) PROVE SameLinks
  <2>1. req[r].op = "drop" /\ UNCHANGED <<payment, imp, foreign>>
        /\ \A q \in Requests : req'[q].op \in {"move", "moving"} => req'[q] = req[q]
    BY <1>5 DEF RemoveProject, TypeOK, Idle
  <2>2. req[r].rows \in SUBSET ServicesHere
    BY <2>1 DEF ProjectsHeld, Dropping
  <2>3. UNCHANGED service \/ Put(req[r].rows, Default)
    BY <1>5 DEF RemoveProject
  <2> QED BY <1>same, <1>put, <2>1, <2>2, <2>3, LedgerAssumption
<1>6. ASSUME NEW s \in Services, NEW p \in Projects, SetProject(s, p) PROVE SameLinks
  <2>1. UNCHANGED <<payment, req, imp, foreign>>
    BY <1>6 DEF SetProject
  <2> QED BY <1>6, <1>put, <2>1, SetProjectEffect
<1>7. ASSUME NEW p \in Projects, CreateProject(p) PROVE SameLinks
  BY <1>7, <1>same DEF CreateProject
<1>8. ASSUME NEW p \in Projects, MoveAllInto(p) PROVE SameLinks
  BY <1>8, <1>put DEF MoveAllInto
<1>9. ASSUME NEW p \in Projects, EmptyProject(p) PROVE SameLinks
  BY <1>9, <1>put, LedgerAssumption DEF EmptyProject, In
<1>10. ASSUME NEW i \in Imports, NEW a \in Accounts, SyncBegins(i, a) PROVE SameLinks
  BY <1>10, <1>same DEF SyncBegins, TypeOK
<1>11. ASSUME NEW i \in Imports, ImportDone(i) PROVE SameLinks
  BY <1>11, <1>same DEF ImportDone, TypeOK
<1>12. ASSUME NEW i \in Imports, ImportFails(i) PROVE SameLinks
  BY <1>12, <1>same DEF ImportFails, Ends, Idle, TypeOK
<1>13. CASE UNCHANGED vars
  BY <1>13, <1>same DEF vars
<1> QED BY <1>1, <1>2, <1>3, <1>4, <1>5, <1>6, <1>7, <1>8, <1>9, <1>10, <1>11, <1>12, <1>13 DEF Next

LEMMA LinksStep == TypeOK /\ ProjectsHeld /\ LinkInv /\ [Next]_vars => LinkInv'
<1> SUFFICES ASSUME TypeOK, ProjectsHeld, LinkInv, [Next]_vars PROVE LinkInv'
  OBVIOUS
<1>1. ASSUME NEW r \in Requests, CreateService(r) PROVE LinkInv'
  <2>1. /\ UNCHANGED <<payment, imp, foreign>>
        /\ \A q \in Requests : req'[q].op \in {"move", "moving"} => req'[q] = req[q]
    BY <1>1 DEF CreateService, history, TypeOK, Idle
  <2>2. CASE UNCHANGED service
    BY <2>1, <2>2, SameLinksStep DEF SameLinks, ServicesHere, PaymentsHere
  <2>3. ASSUME NEW s \in NewService, Adds(s, req[r].account, req[r].provider, req[r].project, None) PROVE LinkInv'
    BY <2>1, <2>3, LinksAdd
  <2> QED BY <1>1, <2>2, <2>3, CreateEffect
<1>2. ASSUME NEW i \in Imports, NEW e \in ExtIds, SyncAddsService(i, e) PROVE LinkInv'
  <2>1. UNCHANGED <<payment, req, foreign>>
    BY <1>2 DEF SyncAddsService
  <2>2. CASE UNCHANGED service /\ Ends(i)
    <3>1. \A k \in Imports : imp'[k].op = "import" => imp'[k] = imp[k]
      BY <2>2 DEF Ends, TypeOK, Idle
    <3> QED BY <2>1, <2>2, <3>1, SameLinksStep DEF SameLinks, ServicesHere, PaymentsHere
  <2>3. ASSUME UNCHANGED imp, NEW s \in NewService, Adds(s, imp[i].account, imp[i].provider, Default, e) PROVE LinkInv'
    BY <2>1, <2>3, LinksAdd
  <2> QED BY <1>2, <2>2, <2>3, SyncAddsEffect
<1> QED BY <1>1, <1>2, QuietSteps, SameLinksStep, LinksDelete, LinksRemoveService, LinksLock, LinksMove, LinksRead,
           LinksPay, LinksRemovePayment, LinksReadLinks, LinksUpsert

-----------------------------------------------------------------------------
(* The unique keys.                                                        *)

LEMMA UniqueStep ==
    TypeOK /\ ProjectsHeld /\ LinkInv /\ ServicesUnique /\ PaymentsUnique /\ [Next]_vars => ServicesUnique' /\ PaymentsUnique'
<1> SUFFICES ASSUME TypeOK, ProjectsHeld, LinkInv, ServicesUnique, PaymentsUnique, [Next]_vars
             PROVE  ServicesUnique' /\ PaymentsUnique'
  OBVIOUS
<1>services. ASSUME UNCHANGED service PROVE ServicesUnique'
  BY <1>services DEF ServicesUnique, ServicesHere
<1>payments. ASSUME UNCHANGED payment PROVE PaymentsUnique'
  BY <1>payments DEF PaymentsUnique, PaymentsHere
\* Rows that stay keep their key.
<1>fewerServices. ASSUME ServicesHere' \subseteq ServicesHere,
                         \A s \in ServicesHere' : /\ service'[s].account = service[s].account
                                                  /\ service'[s].externalId = service[s].externalId
                  PROVE  ServicesUnique'
  BY <1>fewerServices DEF ServicesUnique
<1>fewerPayments. ASSUME PaymentsHere' \subseteq PaymentsHere,
                         \A y \in PaymentsHere' : /\ payment'[y].account = payment[y].account
                                                  /\ payment'[y].externalId = payment[y].externalId
                  PROVE  PaymentsUnique'
  BY <1>fewerPayments DEF PaymentsUnique
<1>1. CASE SameLinks
  BY <1>1, <1>fewerServices, <1>fewerPayments DEF SameLinks
<1>2. ASSUME NEW a \in Accounts, DeleteAccount(a) PROVE ServicesUnique' /\ PaymentsUnique'
  <2>1. /\ ServicesHere' \subseteq ServicesHere /\ \A s \in ServicesHere' : service'[s] = service[s]
        /\ PaymentsHere' \subseteq PaymentsHere
        /\ \A y \in PaymentsHere' : payment'[y].account = payment[y].account /\ payment'[y].externalId = payment[y].externalId
    BY <1>2, DeleteEffect DEF PaymentIs
  <2> QED BY <1>fewerServices, <1>fewerPayments, <2>1
<1>3. ASSUME NEW s \in Services, RemoveService(s) PROVE ServicesUnique' /\ PaymentsUnique'
  <2>1. /\ ServicesHere' \subseteq ServicesHere /\ \A t \in ServicesHere' : service'[t] = service[t]
        /\ PaymentsHere' = PaymentsHere
        /\ \A y \in PaymentsHere : payment'[y].account = payment[y].account /\ payment'[y].externalId = payment[y].externalId
    BY <1>3, RemoveEffect DEF PaymentIs
  <2> QED BY <1>fewerServices, <1>fewerPayments, <2>1
<1>4. ASSUME NEW y \in Payments, RemovePayment(y) PROVE ServicesUnique' /\ PaymentsUnique'
  <2>1. UNCHANGED service
    BY <1>4 DEF RemovePayment
  <2>2. PaymentsHere' \subseteq PaymentsHere /\ \A x \in PaymentsHere' : payment'[x] = payment[x]
    BY <1>4, RemovePaymentEffect
  <2> QED BY <1>services, <1>fewerPayments, <2>1, <2>2
\* A service entered by hand has no external id; the sync adds one its account has not.
<1>5. ASSUME NEW r \in Requests, CreateService(r) PROVE ServicesUnique' /\ PaymentsUnique'
  <2>1. UNCHANGED payment
    BY <1>5 DEF CreateService
  <2>2. ASSUME NEW s \in NewService, Adds(s, req[r].account, req[r].provider, req[r].project, None) PROVE ServicesUnique'
    BY <2>2 DEF ServicesUnique, Adds, ServiceIs, NewService, ServicesHere
  <2> QED BY <1>5, <1>services, <1>payments, <2>1, <2>2, CreateEffect
<1>6. ASSUME NEW i \in Imports, NEW e \in ExtIds, SyncAddsService(i, e) PROVE ServicesUnique' /\ PaymentsUnique'
  <2>1. UNCHANGED payment
    BY <1>6 DEF SyncAddsService
  <2>2. ASSUME NEW s \in NewService, Adds(s, imp[i].account, imp[i].provider, Default, e), Known(imp[i].account, e) = {}
        PROVE  ServicesUnique'
    BY <2>2 DEF ServicesUnique, Adds, ServiceIs, NewService, ServicesHere, Known
  <2> QED BY <1>6, <1>services, <1>payments, <2>1, <2>2, SyncAddsEffect
\* Only rows entered by hand are moved.
<1>7. ASSUME NEW r \in Requests, MoveService(r) PROVE ServicesUnique' /\ PaymentsUnique'
  <2>1. CASE ~Commits(r)
    <3>1. UNCHANGED <<service, payment>>
      BY <1>7, <2>1, MoveEffect DEF LinkInv
    <3> QED BY <1>services, <1>payments, <3>1
  <2>2. CASE Commits(r)
    <3>1. req[r].op = "moving" /\ RowsHeld /\ ChargesFit /\ OnlyManualMoves
      BY <1>7 DEF MoveService, LinkInv
    <3>2. req[r].uuid \in ServicesHere /\ service[req[r].uuid].externalId = None
      BY <2>2, <3>1 DEF Commits, OnlyManualMoves, Movable
    <3>3. \A y \in req[r].rows : y \in PaymentsHere /\ payment[y].externalId = None
      <4>1. req[r].uuid # None
        BY <1>7, RequestShape, LedgerAssumption DEF MoveService, TypeOK
      <4> QED BY <3>1, <3>2, <4>1 DEF RowsHeld, ChargesFit
    <3>4. /\ ServicesHere' = ServicesHere
          /\ \A s \in ServicesHere : /\ service'[s].externalId = service[s].externalId
                                     /\ s # req[r].uuid => service'[s].account = service[s].account
      BY <1>7, <2>2, <3>1, MoveEffect DEF ServiceIs
    <3>5. /\ PaymentsHere' = PaymentsHere
          /\ \A y \in PaymentsHere : /\ payment'[y].externalId = payment[y].externalId
                                     /\ y \notin req[r].rows => payment'[y].account = payment[y].account
      BY <1>7, <2>2, <3>1, MoveEffect DEF PaymentIs
    <3>6. ServicesUnique'
      BY <3>2, <3>4 DEF ServicesUnique
    <3>7. PaymentsUnique'
      BY <3>3, <3>5 DEF PaymentsUnique
    <3> QED BY <3>6, <3>7
  <2> QED BY <2>1, <2>2
<1>8. ASSUME NEW r \in Requests, CreatePayment(r) PROVE ServicesUnique' /\ PaymentsUnique'
  <2>1. UNCHANGED service
    BY <1>8 DEF CreatePayment
  <2>2. ASSUME NEW y \in NewPayment, PaymentsHere' = PaymentsHere \cup {y},
               PaymentIs(payment'[y], req[r].account, req[r].provider, req[r].service, None),
               \A x \in Payments \ {y} : payment'[x] = payment[x]
        PROVE  PaymentsUnique'
    BY <2>2 DEF PaymentsUnique, PaymentIs, NewPayment, PaymentsHere
  <2> QED BY <1>8, <1>services, <1>payments, <2>1, <2>2, PayEffect
<1>9. ASSUME NEW i \in Imports, NEW c \in ChargeIds, UpsertCharge(i, c) PROVE ServicesUnique' /\ PaymentsUnique'
  <2>1. UNCHANGED service
    BY <1>9 DEF UpsertCharge
  <2>2. ASSUME NEW y \in Payments, y \in RowsOf(imp[i], c) \/ RowsOf(imp[i], c) = {}, PaymentsHere' = PaymentsHere \cup {y},
               payment'[y].account = imp[i].account, payment'[y].externalId = c,
               \A x \in Payments \ {y} : payment'[x] = payment[x]
        PROVE  PaymentsUnique'
    BY <2>2 DEF PaymentsUnique, RowsOf, PaymentsHere
  <2>3. \/ UNCHANGED payment
        \/ \E y \in Payments :
             /\ y \in RowsOf(imp[i], c) \/ RowsOf(imp[i], c) = {}
             /\ PaymentsHere' = PaymentsHere \cup {y} /\ payment'[y].account = imp[i].account /\ payment'[y].externalId = c
             /\ \A x \in Payments \ {y} : payment'[x] = payment[x]
    BY <1>9, UpsertRow, ZenonT(60)
  <2> QED BY <1>services, <1>payments, <2>1, <2>2, <2>3
<1>10. ASSUME UNCHANGED <<service, payment>> PROVE ServicesUnique' /\ PaymentsUnique'
  BY <1>10, <1>services, <1>payments
<1> QED BY <1>1, <1>2, <1>3, <1>4, <1>5, <1>6, <1>7, <1>8, <1>9, <1>10, QuietSteps
        DEF MovePayments, MoveServiceRead, ReadLinks, tables

-----------------------------------------------------------------------------
(* A clean import.                                                         *)

\* The synced services and the imported payments of account a stay as they are.
AccountKept(a) ==
    /\ \A e \in ExtIds : Known(a, e)' = Known(a, e)
    /\ \A y \in PaymentsHere : payment[y].account = a /\ payment[y].externalId # None =>
         /\ y \in PaymentsHere' /\ payment'[y].account = a
         /\ payment'[y].externalId = payment[y].externalId /\ payment'[y].service = payment[y].service

LEMMA KeptSettled ==
    ASSUME NEW a, NEW list \in Ledgers, NEW c \in DOMAIN list, AccountKept(a), Settled(a, list, c)
    PROVE  Settled(a, list, c)'
<1>1. c # None /\ list[c] \in ExtIds \cup {None}
  BY LedgerAssumption DEF Ledgers
<1>2. Named(a, list[c])' = Named(a, list[c])
  BY <1>1 DEF Named, AccountKept
<1>3. PICK y \in PaymentsHere : /\ payment[y].account = a /\ payment[y].externalId = c
                                /\ {payment[y].service} \ {None} = Named(a, list[c])
  BY DEF Settled
<1>4. /\ y \in PaymentsHere' /\ payment'[y].account = a /\ payment'[y].externalId = c
      /\ {payment'[y].service} \ {None} = Named(a, list[c])'
  BY <1>1, <1>2, <1>3 DEF AccountKept
<1> QED BY <1>4 DEF Settled

LEMMA KeptExact == ASSUME NEW a, NEW links, AccountKept(a), MapExact(a, links) PROVE MapExact(a, links)'
BY DEF MapExact, AccountKept

\* Somebody who changes what a clean import relies on disturbs it.
LEMMA OthersKeep ==
    ASSUME TypeOK, ProjectsHeld, LinkInv, [Next]_vars, NEW i \in Imports, i \notin disturbed', imp[i].op \in {"import", "ok"},
           imp'[i].op \in {"import", "ok"}, NEW a \in Accounts, a = imp[i].account
    PROVE  AccountKept(a) \/ \E c \in ChargeIds : UpsertCharge(i, c)
<1> USE DEF tables
<1>0. None \notin ExtIds /\ i # None
  BY LedgerAssumption
<1>d. ASSUME NEW A, NEW k, Disturb(A, k), k # i PROVE a \notin A
  BY <1>d DEF Disturb
<1>services. ASSUME UNCHANGED service PROVE \A e \in ExtIds : Known(a, e)' = Known(a, e)
  BY <1>services DEF Known, ServicesHere
<1>payments. ASSUME UNCHANGED payment
             PROVE  \A y \in PaymentsHere : payment[y].account = a /\ payment[y].externalId # None =>
                      /\ y \in PaymentsHere' /\ payment'[y].account = a
                      /\ payment'[y].externalId = payment[y].externalId /\ payment'[y].service = payment[y].service
  BY <1>payments DEF PaymentsHere
<1>1. CASE SameLinks
  BY <1>1 DEF SameLinks, AccountKept, Known
<1>2. ASSUME NEW b \in Accounts, DeleteAccount(b) PROVE AccountKept(a)
  <2>1. a # b
    BY <1>0, <1>2, <1>d DEF DeleteAccount
  <2>2. /\ ServicesHere' = {s \in ServicesHere : service[s].account # b}
        /\ \A s \in ServicesHere' : service'[s] = service[s]
        /\ PaymentsHere' = {y \in PaymentsHere : payment[y].account # b}
        /\ \A y \in PaymentsHere' :
             /\ payment'[y].account = payment[y].account /\ payment'[y].externalId = payment[y].externalId
             /\ payment'[y].service = IF payment[y].service \in ServicesHere \ ServicesHere' THEN None ELSE payment[y].service
    BY <1>2, DeleteEffect DEF PaymentIs
  <2>3. \A e \in ExtIds : Known(a, e)' = Known(a, e)
    BY <2>1, <2>2 DEF Known
  <2>4. \A y \in PaymentsHere : payment[y].account = a /\ payment[y].externalId # None =>
          payment[y].service \notin ServicesHere \ ServicesHere'
    BY <2>1, <2>2, LedgerAssumption DEF LinkInv, LinksFit, ServicesHere
  <2> QED BY <2>1, <2>2, <2>3, <2>4 DEF AccountKept
<1>3. ASSUME NEW s \in Services, RemoveService(s) PROVE AccountKept(a)
  <2>1. a # service[s].account
    BY <1>0, <1>3, <1>d DEF RemoveService
  <2>2. /\ s \in ServicesHere /\ ServicesHere' = ServicesHere \ {s} /\ PaymentsHere' = PaymentsHere
        /\ \A t \in ServicesHere' : service'[t] = service[t]
        /\ \A y \in PaymentsHere :
             /\ payment'[y].account = payment[y].account /\ payment'[y].externalId = payment[y].externalId
             /\ payment'[y].service = IF payment[y].service = s THEN None ELSE payment[y].service
    BY <1>3, RemoveEffect DEF PaymentIs
  <2>3. \A e \in ExtIds : Known(a, e)' = Known(a, e)
    BY <2>1, <2>2 DEF Known
  <2>4. \A y \in PaymentsHere : payment[y].account = a /\ payment[y].externalId # None => payment[y].service # s
    BY <2>1, <2>2, LedgerAssumption DEF LinkInv, LinksFit, ServicesHere
  <2> QED BY <2>2, <2>3, <2>4 DEF AccountKept
<1>4. ASSUME NEW y \in Payments, RemovePayment(y) PROVE AccountKept(a)
  <2>1. a # payment[y].account /\ UNCHANGED service
    BY <1>0, <1>4, <1>d DEF RemovePayment
  <2>2. PaymentsHere' = PaymentsHere \ {y} /\ \A x \in PaymentsHere' : payment'[x] = payment[x]
    BY <1>4, RemovePaymentEffect
  <2> QED BY <1>services, <2>1, <2>2 DEF AccountKept
<1>5. ASSUME NEW r \in Requests, CreateService(r) PROVE AccountKept(a)
  <2>1. UNCHANGED payment
    BY <1>5 DEF CreateService
  <2>2. ASSUME NEW s \in NewService, Adds(s, req[r].account, req[r].provider, req[r].project, None)
        PROVE  \A e \in ExtIds : Known(a, e)' = Known(a, e)
    BY <1>0, <2>2 DEF Adds, ServiceIs, NewService, ServicesHere, Known
  <2> QED BY <1>5, <1>services, <1>payments, <2>1, <2>2, CreateEffect DEF AccountKept
<1>6. ASSUME NEW k \in Imports, NEW e \in ExtIds, SyncAddsService(k, e) PROVE AccountKept(a)
  <2>1. UNCHANGED payment /\ k # i
    BY <1>6 DEF SyncAddsService
  <2>2. ASSUME NEW s \in NewService, Adds(s, imp[k].account, imp[k].provider, Default, e), a # imp[k].account
        PROVE  \A x \in ExtIds : Known(a, x)' = Known(a, x)
    BY <2>2 DEF Adds, ServiceIs, NewService, ServicesHere, Known
  <2>3. Disturb({imp[k].account}, k) => a # imp[k].account
    BY <1>d, <2>1
  <2> QED BY <1>6, <1>services, <1>payments, <2>1, <2>2, <2>3, SyncAddsEffect DEF AccountKept
<1>7. ASSUME NEW r \in Requests, MoveService(r) PROVE AccountKept(a)
  <2>1. CASE ~Commits(r)
    <3>1. UNCHANGED <<service, payment>>
      BY <1>7, <2>1, MoveEffect DEF LinkInv
    <3> QED BY <1>services, <1>payments, <3>1 DEF AccountKept
  <2>2. CASE Commits(r)
    <3>1. req[r].op = "moving" /\ RowsHeld /\ ChargesFit /\ OnlyManualMoves
      BY <1>7 DEF MoveService, LinkInv
    <3>2. req[r].uuid \in ServicesHere /\ service[req[r].uuid].externalId = None
      BY <2>2, <3>1 DEF Commits, OnlyManualMoves, Movable
    <3>3. \A y \in req[r].rows : y \in PaymentsHere /\ payment[y].externalId = None
      <4>1. req[r].uuid # None
        BY <1>7, RequestShape, LedgerAssumption DEF MoveService, TypeOK
      <4> QED BY <3>1, <3>2, <4>1 DEF RowsHeld, ChargesFit
    <3>4. /\ ServicesHere' = ServicesHere
          /\ \A s \in ServicesHere : /\ service'[s].externalId = service[s].externalId
                                     /\ s # req[r].uuid => service'[s].account = service[s].account
      BY <1>7, <2>2, <3>1, MoveEffect DEF ServiceIs
    <3>5. PaymentsHere' = PaymentsHere /\ \A y \in PaymentsHere : y \notin req[r].rows => payment'[y] = payment[y]
      BY <1>7, <2>2, <3>1, MoveEffect
    <3>6. \A e \in ExtIds : Known(a, e)' = Known(a, e)
      BY <1>0, <3>2, <3>4 DEF Known
    <3> QED BY <3>3, <3>5, <3>6 DEF AccountKept
  <2> QED BY <2>1, <2>2
<1>8. ASSUME NEW r \in Requests, CreatePayment(r) PROVE AccountKept(a)
  <2>1. UNCHANGED service
    BY <1>8 DEF CreatePayment
  <2>2. UNCHANGED payment \/ \E y \in NewPayment : PaymentsHere' = PaymentsHere \cup {y}
                                                   /\ \A x \in Payments \ {y} : payment'[x] = payment[x]
    BY <1>8, PayEffect
  <2>3. \A y \in PaymentsHere : y \in PaymentsHere' /\ payment'[y] = payment[y]
    BY <2>2 DEF NewPayment, PaymentsHere
  <2> QED BY <1>services, <2>1, <2>3 DEF AccountKept
<1>9. ASSUME NEW k \in Imports \ {i}, NEW c \in ChargeIds, UpsertCharge(k, c) PROVE AccountKept(a)
  <2>1. UNCHANGED service
    BY <1>9 DEF UpsertCharge
  <2>2. CASE UNCHANGED payment
    BY <1>services, <1>payments, <2>1, <2>2 DEF AccountKept
  <2>3. CASE payment' # payment
    <3>1. Disturb({imp[k].account}, k)
      BY <1>9, <2>3, UpsertRow
    <3>2. a # imp[k].account
      BY <1>d, <3>1
    <3>3. PICK y \in Payments :
            /\ y \in RowsOf(imp[k], c) \ LockedPayments \/ (y \notin PaymentsHere /\ RowsOf(imp[k], c) = {})
            /\ PaymentsHere' = PaymentsHere \cup {y} /\ \A x \in Payments \ {y} : payment'[x] = payment[x]
            /\ payment'[y].account = imp[k].account /\ payment'[y].service = Link(imp[k], c) /\ payment'[y].externalId = c
      BY <1>9, <2>3, UpsertRow, ZenonT(60)
    <3>4. \A x \in PaymentsHere : payment[x].account = a => x # y
      BY <3>2, <3>3 DEF RowsOf
    <3>5. \A x \in PaymentsHere : payment[x].account = a => x \in PaymentsHere' /\ payment'[x] = payment[x]
      BY <3>3, <3>4 DEF PaymentsHere
    <3> QED BY <1>services, <2>1, <3>5 DEF AccountKept
  <2> QED BY <2>2, <2>3
<1>10. CASE UNCHANGED <<service, payment>>
  BY <1>10, <1>services, <1>payments DEF AccountKept
<1> QED BY <1>1, <1>2, <1>3, <1>4, <1>5, <1>6, <1>7, <1>8, <1>9, <1>10, QuietSteps
        DEF MovePayments, MoveServiceRead, ReadLinks

\* How an import gets to where it is, and that it was undisturbed before.
LEMMA ImportMoves ==
    ASSUME TypeOK, [Next]_vars, NEW i \in Imports, imp'[i].op \in {"import", "ok"}, i \notin disturbed'
    PROVE  /\ i \notin disturbed
           /\ \/ imp'[i] = imp[i]
              \/ \E list \in Ledgers : ReadLinks(i, list)
              \/ \E c \in ChargeIds : UpsertCharge(i, c)
              \/ ImportDone(i)
<1> USE DEF tables, history
<1>same. ASSUME UNCHANGED imp, disturbed \subseteq disturbed' PROVE imp'[i] = imp[i] /\ i \notin disturbed
  BY <1>same
<1>d. ASSUME NEW A, NEW k, Disturb(A, k) PROVE disturbed \subseteq disturbed'
  BY <1>d DEF Disturb
<1>e. ASSUME NEW k \in Imports, Ends(k) PROVE imp'[i] = imp[i] /\ i \notin disturbed
  BY <1>e DEF Ends, Idle, TypeOK
<1>1. CASE UNCHANGED <<imp, disturbed>>
  BY <1>1, <1>same
<1>2. ASSUME NEW p \in Providers, NEW q \in Providers, MergeProvider(p, q) PROVE imp'[i] = imp[i] /\ i \notin disturbed
  BY <1>2, <1>same, <1>d DEF MergeProvider
<1>3. ASSUME NEW a \in Accounts, DeleteAccount(a) PROVE imp'[i] = imp[i] /\ i \notin disturbed
  BY <1>3, <1>same, <1>d DEF DeleteAccount
<1>4. ASSUME NEW s \in Services, RemoveService(s) PROVE imp'[i] = imp[i] /\ i \notin disturbed
  BY <1>4, <1>same, <1>d DEF RemoveService
<1>5. ASSUME NEW y \in Payments, RemovePayment(y) PROVE imp'[i] = imp[i] /\ i \notin disturbed
  BY <1>5, <1>same, <1>d DEF RemovePayment
<1>6. ASSUME NEW k \in Imports, NEW a \in Accounts, SyncBegins(k, a) PROVE imp'[i] = imp[i] /\ i \notin disturbed
  BY <1>6 DEF SyncBegins, TypeOK
<1>7. ASSUME NEW k \in Imports, NEW e \in ExtIds, SyncAddsService(k, e) PROVE imp'[i] = imp[i] /\ i \notin disturbed
  BY <1>7, <1>same, <1>d, <1>e DEF SyncAddsService
<1>8. ASSUME NEW k \in Imports, NEW list \in Ledgers, ReadLinks(k, list)
      PROVE  i \notin disturbed /\ (imp'[i] = imp[i] \/ k = i)
  BY <1>8 DEF ReadLinks, TypeOK
<1>9. ASSUME NEW k \in Imports, NEW c \in ChargeIds, UpsertCharge(k, c)
      PROVE  i \notin disturbed /\ (imp'[i] = imp[i] \/ k = i)
  <2>1. CASE Ends(k)
    BY <1>e, <2>1
  <2>2. CASE imp' = [imp EXCEPT ![k].todo = @ \ {c}] /\ Disturb({imp[k].account}, k)
    BY <1>d, <2>2 DEF TypeOK
  <2> QED BY <1>9, <2>1, <2>2 DEF UpsertCharge
<1>10. ASSUME NEW k \in Imports, ImportDone(k) PROVE i \notin disturbed /\ (imp'[i] = imp[i] \/ k = i)
  BY <1>10 DEF ImportDone, TypeOK
<1>11. ASSUME NEW k \in Imports, ImportFails(k) PROVE imp'[i] = imp[i] /\ i \notin disturbed
  BY <1>11, <1>e, ZenonT(60) DEF ImportFails
<1>12. \/ UNCHANGED <<imp, disturbed>>
       \/ \E p, q \in Providers : MergeProvider(p, q)
       \/ \E a \in Accounts : DeleteAccount(a)
       \/ \E s \in Services : RemoveService(s)
       \/ \E y \in Payments : RemovePayment(y)
       \/ \E k \in Imports, a \in Accounts : SyncBegins(k, a)
       \/ \E k \in Imports, e \in ExtIds : SyncAddsService(k, e)
       \/ \E k \in Imports, list \in Ledgers : ReadLinks(k, list)
       \/ \E k \in Imports, c \in ChargeIds : UpsertCharge(k, c)
       \/ \E k \in Imports : ImportDone(k) \/ ImportFails(k)
  BY DEF Next, vars, CreateServiceRead, MoveServiceRead, CreatePaymentRead, SweepProject, CreateService, MovePayments,
         MoveService, CreatePayment, RemoveProject, SetProject, CreateProject, MoveAllInto, EmptyProject
<1> QED BY <1>1, <1>2, <1>3, <1>4, <1>5, <1>6, <1>7, <1>8, <1>9, <1>10, <1>11, <1>12

\* The map just read is exact: the key of synced services is unique.
LEMMA ReadExact ==
    ASSUME TypeOK, ServicesUnique, NEW i \in Imports, NEW list \in Ledgers, ReadLinks(i, list), NEW a, a = imp[i].account
    PROVE  /\ imp'[i].op = "import" /\ imp'[i].account = a /\ MapExact(a, imp'[i].links)
           /\ imp'[i].list = list /\ imp'[i].todo = DOMAIN list
           /\ UNCHANGED tables
<1> DEFINE E == {e \in ExtIds : Known(a, e) # {}}
           links == [e \in E |-> CHOOSE s \in Known(a, e) : TRUE]
<1>1. /\ imp'[i].op = "import" /\ imp'[i].account = a /\ imp'[i].links = links
      /\ imp'[i].list = list /\ imp'[i].todo = DOMAIN list /\ UNCHANGED tables
  BY DEF ReadLinks, TypeOK
<1>2. DOMAIN links = E /\ \A e \in E : links[e] \in Known(a, e)
  OBVIOUS
<1> HIDE DEF links
<1>3. \A e \in ExtIds : \A s, t \in Known(a, e) : s = t
  BY LedgerAssumption DEF Known, ServicesUnique
<1>4. MapExact(a, links)
  <2> SUFFICES ASSUME NEW e \in ExtIds PROVE Known(a, e) = IF e \in DOMAIN links THEN {links[e]} ELSE {}
    BY DEF MapExact
  <2>1. CASE e \in E
    <3>1. links[e] \in Known(a, e) /\ \A s \in Known(a, e) : s = links[e]
      BY <1>2, <1>3, <2>1
    <3> QED BY <1>2, <2>1, <3>1
  <2>2. CASE e \notin E
    BY <1>2, <2>2
  <2> QED BY <2>1, <2>2
<1> QED BY <1>1, <1>4

\* One record written: its row is linked as the exact map says, others stay.
LEMMA UpsertSettles ==
    ASSUME TypeOK, PaymentsUnique, NEW i \in Imports, NEW c \in ChargeIds, UpsertCharge(i, c), imp'[i].op = "import",
           NEW a \in Accounts, NEW list \in Ledgers, NEW links, NEW todo, imp[i].account = a, imp[i].list = list,
           imp[i].links = links, imp[i].todo = todo, MapExact(a, links), DOMAIN links \subseteq ExtIds,
           \A d \in DOMAIN list \ todo : Settled(a, list, d)
    PROVE  /\ imp'[i].account = a /\ imp'[i].list = list /\ imp'[i].links = links /\ imp'[i].todo = todo \ {c}
           /\ MapExact(a, links)'
           /\ \A d \in DOMAIN list \ (todo \ {c}) : Settled(a, list, d)'
<1> DEFINE o == imp[i]
<1>1. o \in Import /\ o.op = "import" /\ UNCHANGED service /\ c \in todo
  BY DEF UpsertCharge, TypeOK
<1>2. ~Ends(i)
  BY DEF Ends, Idle, TypeOK
<1>3. imp' = [imp EXCEPT ![i].todo = @ \ {c}]
  BY <1>2 DEF UpsertCharge
<1>4. imp'[i].account = a /\ imp'[i].list = list /\ imp'[i].links = links /\ imp'[i].todo = todo \ {c}
  <2>1. o = [op |-> "import", account |-> o.account, provider |-> o.provider, list |-> o.list,
             links |-> o.links, todo |-> o.todo]
    BY <1>1, ImportShape
  <2>2. LET n == [o EXCEPT !.todo = o.todo \ {c}] IN
        n.account = o.account /\ n.list = o.list /\ n.links = o.links /\ n.todo = o.todo \ {c}
    BY <2>1
  <2> QED BY <1>3, <2>2 DEF TypeOK
<1>5. \A e \in ExtIds : Known(a, e)' = Known(a, e)
  BY <1>1 DEF Known, ServicesHere
<1>6. MapExact(a, links)'
  BY <1>5 DEF MapExact
<1>7. \A e \in ExtIds \cup {None} : Named(a, e)' = Named(a, e)
  BY <1>5 DEF Named
<1>8. \A d \in DOMAIN list : d \in ChargeIds /\ list[d] \in ExtIds \cup {None}
  BY DEF Ledgers
<1>9. PICK y \in Payments :
        /\ y \in PaymentsHere'
        /\ payment'[y].account = a /\ payment'[y].service = Link(o, c) /\ payment'[y].externalId = c
        /\ \A x \in PaymentsHere : x \in PaymentsHere'
        /\ \A x \in PaymentsHere : payment[x].externalId # c => payment'[x] = payment[x]
  <2>1. CASE payment' # payment
    <3>1. PICK y \in Payments :
            /\ y \in RowsOf(o, c) \ LockedPayments \/ (y \notin PaymentsHere /\ RowsOf(o, c) = {})
            /\ PaymentsHere' = PaymentsHere \cup {y} /\ \A x \in Payments \ {y} : payment'[x] = payment[x]
            /\ payment'[y].account = o.account /\ payment'[y].service = Link(o, c) /\ payment'[y].externalId = c
      BY <2>1, UpsertRow
    <3> QED BY <3>1 DEF RowsOf, PaymentsHere
  <2>2. CASE payment' = payment
    <3>1. PICK y \in (IF RowsOf(o, c) # {} THEN RowsOf(o, c) ELSE NewPayment) :
            payment' = [payment EXCEPT ![y] = IF @ # None THEN [@ EXCEPT !.service = Link(o, c)]
                          ELSE [account |-> o.account, provider |-> o.provider, service |-> Link(o, c), externalId |-> c]]
      BY <1>2 DEF UpsertCharge
    <3>2. y \in PaymentsHere /\ y \in RowsOf(o, c)
      <4>1. ASSUME y \notin RowsOf(o, c) PROVE FALSE
        <5>1. y \in Payments /\ payment[y] = None /\ payment'[y] = [account |-> o.account, provider |-> o.provider,
                                                                   service |-> Link(o, c), externalId |-> c]
          BY <3>1, <4>1 DEF NewPayment, PaymentsHere, TypeOK
        <5>2. o.account \in Accounts /\ o.provider \in Providers /\ Link(o, c) \in Services \cup {None}
          BY <1>1, ImportShape DEF Link
        <5>3. payment'[y] \in PaymentRow
          BY <5>1, <5>2 DEF PaymentRow
        <5> QED BY <2>2, <5>1, <5>3, RowsAssumption
      <4> QED BY <4>1 DEF RowsOf
    <3>3. payment[y] \in PaymentRow /\ payment'[y] = [payment[y] EXCEPT !.service = Link(o, c)]
      BY <3>1, <3>2, PaymentShape DEF PaymentsHere, TypeOK
    <3>4. Link(o, c) \in Services \cup {None}
      BY <1>1, ImportShape DEF Link
    <3>5. payment'[y].service = Link(o, c)
      BY <3>3, <3>4, PaymentLinked DEF PaymentIs
    <3> QED BY <2>2, <3>2, <3>5 DEF RowsOf, PaymentsHere
  <2> QED BY <2>1, <2>2
<1>10. ASSUME c \in DOMAIN list PROVE {Link(o, c)} \ {None} = Named(a, list[c])
  <2>1. \A e \in DOMAIN links : links[e] # None
    BY <1>1, ImportShape, LedgerAssumption
  <2>2. CASE list[c] \in DOMAIN links
    BY <1>8, <2>1, <2>2, LedgerAssumption DEF Link, Named, MapExact
  <2>3. CASE list[c] \notin DOMAIN links
    BY <1>8, <1>10, <2>3 DEF Link, Named, MapExact
  <2> QED BY <2>2, <2>3
<1>11. ASSUME NEW d \in DOMAIN list \ (todo \ {c}) PROVE Settled(a, list, d)'
  <2>1. Named(a, list[d])' = Named(a, list[d])
    BY <1>7, <1>8
  <2>2. CASE d = c
    BY <1>9, <1>10, <2>1, <2>2 DEF Settled
  <2>3. CASE d # c
    <3>1. PICK x \in PaymentsHere : /\ payment[x].account = a /\ payment[x].externalId = d
                                    /\ {payment[x].service} \ {None} = Named(a, list[d])
      BY <2>3 DEF Settled
    <3>2. x \in PaymentsHere' /\ payment'[x] = payment[x]
      BY <1>9, <2>3, <3>1
    <3> QED BY <2>1, <3>1, <3>2 DEF Settled
  <2> QED BY <2>2, <2>3
<1> QED BY <1>4, <1>6, <1>11

LEMMA ImportStep ==
    TypeOK /\ ProjectsHeld /\ LinkInv /\ ServicesUnique /\ PaymentsUnique /\ ImportInv /\ [Next]_vars => ImportInv'
<1> SUFFICES ASSUME TypeOK, ProjectsHeld, LinkInv, ServicesUnique, PaymentsUnique, ImportInv, [Next]_vars,
                    NEW i \in Imports, i \notin disturbed'
             PROVE  (/\ imp[i].op = "import" =>
                          /\ MapExact(imp[i].account, imp[i].links)
                          /\ \A c \in DOMAIN imp[i].list \ imp[i].todo : Settled(imp[i].account, imp[i].list, c)
                     /\ imp[i].op = "ok" => \A c \in DOMAIN imp[i].list : Settled(imp[i].account, imp[i].list, c))'
  BY DEF ImportInv
<1>1. CASE imp'[i].op \notin {"import", "ok"}
  BY <1>1
<1>2. CASE imp'[i].op \in {"import", "ok"}
  <2>1. i \notin disturbed
    BY <1>2, ImportMoves
  <2>2. PICK a, list, links, todo : a = imp[i].account /\ list = imp[i].list /\ links = imp[i].links /\ todo = imp[i].todo
    OBVIOUS
  <2>3. imp[i] \in Import
    BY DEF TypeOK
  \* What it is, it was before.
  <2>4. CASE imp'[i] = imp[i] /\ ~\E c \in ChargeIds : UpsertCharge(i, c)
    <3>1. a \in Accounts /\ list \in Ledgers
      BY <1>2, <2>2, <2>3, <2>4, ImportShape
    <3>2. AccountKept(a)
      BY <1>2, <2>2, <2>4, <3>1, OthersKeep
    <3>3. imp'[i].account = a /\ imp'[i].list = list /\ imp'[i].links = links /\ imp'[i].todo = todo
      BY <2>2, <2>4
    <3>4. CASE imp'[i].op = "import"
      <4>1. MapExact(a, links) /\ \A c \in DOMAIN list \ todo : Settled(a, list, c)
        BY <2>1, <2>2, <2>4, <3>4 DEF ImportInv
      <4>2. MapExact(a, links)'
        BY <3>2, <4>1, KeptExact
      <4>3. \A c \in DOMAIN list \ todo : Settled(a, list, c)'
        BY <3>1, <3>2, <4>1, KeptSettled
      <4> QED BY <3>3, <3>4, <4>2, <4>3
    <3>5. CASE imp'[i].op = "ok"
      <4>1. \A c \in DOMAIN list : Settled(a, list, c)
        BY <2>1, <2>2, <2>4, <3>5 DEF ImportInv
      <4>2. \A c \in DOMAIN list : Settled(a, list, c)'
        BY <3>1, <3>2, <4>1, KeptSettled
      <4> QED BY <3>3, <3>5, <4>2
    <3> QED BY <1>2, <3>4, <3>5
  \* The map has just been read; no record is done.
  <2>5. ASSUME NEW new \in Ledgers, ReadLinks(i, new)
        PROVE  (/\ imp[i].op = "import" =>
                     /\ MapExact(imp[i].account, imp[i].links)
                     /\ \A c \in DOMAIN imp[i].list \ imp[i].todo : Settled(imp[i].account, imp[i].list, c)
                /\ imp[i].op = "ok" => \A c \in DOMAIN imp[i].list : Settled(imp[i].account, imp[i].list, c))'
    <3>1. /\ imp'[i].op = "import" /\ imp'[i].account = a /\ MapExact(a, imp'[i].links)
          /\ imp'[i].list = new /\ imp'[i].todo = DOMAIN new /\ UNCHANGED service
      BY <2>2, <2>5, ReadExact DEF tables
    <3>2. PICK read : read = imp'[i].links
      OBVIOUS
    <3>3. MapExact(a, read)'
      BY <3>1, <3>2 DEF MapExact, Known, ServicesHere
    <3> QED BY <3>1, <3>2, <3>3
  <2>6. ASSUME NEW c \in ChargeIds, UpsertCharge(i, c)
        PROVE  (/\ imp[i].op = "import" =>
                     /\ MapExact(imp[i].account, imp[i].links)
                     /\ \A d \in DOMAIN imp[i].list \ imp[i].todo : Settled(imp[i].account, imp[i].list, d)
                /\ imp[i].op = "ok" => \A d \in DOMAIN imp[i].list : Settled(imp[i].account, imp[i].list, d))'
    <3>1. imp[i].op = "import"
      BY <2>6 DEF UpsertCharge
    <3>2. a \in Accounts /\ list \in Ledgers /\ DOMAIN links \subseteq ExtIds
      BY <2>2, <2>3, <3>1, ImportShape
    <3>3. MapExact(a, links) /\ \A d \in DOMAIN list \ todo : Settled(a, list, d)
      BY <2>1, <2>2, <3>1 DEF ImportInv
    <3>4. imp'[i].op = "import"
      <4>1. CASE Ends(i)
        BY <1>2, <4>1 DEF Ends, Idle, TypeOK
      <4>2. CASE imp' = [imp EXCEPT ![i].todo = @ \ {c}]
        <5>1. imp'[i] = [imp[i] EXCEPT !.todo = imp[i].todo \ {c}]
          BY <4>2 DEF TypeOK
        <5>2. imp[i] = [op |-> "import", account |-> imp[i].account, provider |-> imp[i].provider, list |-> imp[i].list,
                        links |-> imp[i].links, todo |-> imp[i].todo]
          BY <2>3, <3>1, ImportShape
        <5> QED BY <5>1, <5>2
      <4> QED BY <2>6, <4>1, <4>2 DEF UpsertCharge
    <3>5. /\ imp'[i].account = a /\ imp'[i].list = list /\ imp'[i].links = links /\ imp'[i].todo = todo \ {c}
          /\ MapExact(a, links)'
          /\ \A d \in DOMAIN list \ (todo \ {c}) : Settled(a, list, d)'
      BY <2>2, <2>6, <3>2, <3>3, <3>4, UpsertSettles
    <3> QED BY <3>4, <3>5
  \* No record is left to do.
  <2>7. CASE ImportDone(i)
    <3>1. /\ imp[i].op = "import" /\ todo = {} /\ UNCHANGED <<service, payment>>
          /\ imp'[i].op = "ok" /\ imp'[i].account = a /\ imp'[i].list = list
      BY <2>2, <2>7 DEF ImportDone, tables, TypeOK
    <3>2. \A c \in DOMAIN list : Settled(a, list, c)
      BY <2>1, <2>2, <3>1 DEF ImportInv
    <3>3. \A c \in DOMAIN list : Settled(a, list, c)'
      BY <3>1, <3>2 DEF Settled, Named, Known, PaymentsHere, ServicesHere
    <3> QED BY <3>1, <3>3
  <2> QED BY <1>2, <2>4, <2>5, <2>6, <2>7, ImportMoves
<1> QED BY <1>1, <1>2

-----------------------------------------------------------------------------
(* The theorems.                                                           *)

LEMMA InvInit == Init => Inv
<1> SUFFICES ASSUME Init PROVE Inv
  OBVIOUS
<1>1. ServicesHere = {} /\ PaymentsHere = {}
  BY DEF Init, ServicesHere, PaymentsHere
<1>2. (\A r \in Requests : req[r].op = "idle") /\ (\A i \in Imports : imp[i].op = "idle") /\ Default \in projects
  BY DEF Init, Idle
<1>3. ProjectsHeld
  BY <1>1, <1>2 DEF ProjectsHeld, Dropping
<1>4. LinkInv
  BY <1>1, <1>2 DEF LinkInv, Referenced, OnlyManualMoves, RowsHeld, MapHolds, ChargesFit, LinksFit
<1>5. PairsFit /\ ServicesUnique /\ PaymentsUnique
  BY <1>1 DEF PairsFit, ServicesUnique, PaymentsUnique
<1>6. ImportInv
  BY <1>2 DEF ImportInv
<1> QED BY <1>3, <1>4, <1>5, <1>6, TypeInit DEF Inv

LEMMA InvStep == Inv /\ [Next]_vars => Inv'
BY TypeStep, ProjectsStep, PairsStep, LinksStep, UniqueStep, ImportStep DEF Inv, LinkInv

\* The inductive invariant holds in every reachable state.
LEMMA InvHolds == Spec => []Inv
BY InvInit, InvStep, PTL DEF Spec

\* Types: every row, request and import keeps its shape; the rows of a move or
\* of a project's removal are still there when it commits.
THEOREM TypeTheorem == Spec => []TypeOK
<1>1. Inv => TypeOK
  BY DEF Inv
<1> QED BY <1>1, InvHolds, PTL

\* The (account, provider) pair of every service and payment is that of its
\* account, whatever merges, moves, deletions and imports interleave.
THEOREM PairsTheorem == Spec => []PairsFit
<1>1. Inv => PairsFit
  BY DEF Inv
<1> QED BY <1>1, InvHolds, PTL

\* A payment and the service it names are in the same account, unless it was
\* entered by hand for a service of another account or of one being moved; an
\* imported payment never is.
THEOREM LinksTheorem == Spec => []LinksFit
<1>1. Inv => LinksFit
  BY DEF Inv, LinkInv
<1> QED BY <1>1, InvHolds, PTL

\* An import nobody disturbed leaves exactly one row per record, linked as the
\* record says.
THEOREM CleanImportTheorem == Spec => []CleanImportComplete
<1>1. Inv => CleanImportComplete
  <2> SUFFICES ASSUME Inv, NEW i \in Imports \ disturbed, imp[i].op = "ok", NEW c \in DOMAIN imp[i].list
               PROVE  LET rows  == {y \in PaymentsHere : payment[y].account = imp[i].account /\ payment[y].externalId = c}
                          named == IF imp[i].list[c] = None THEN {} ELSE Known(imp[i].account, imp[i].list[c])
                      IN  Cardinality(rows) = 1 /\ \A y \in rows : {payment[y].service} \ {None} = named
    BY DEF CleanImportComplete
  <2> DEFINE rows == {y \in PaymentsHere : payment[y].account = imp[i].account /\ payment[y].externalId = c}
  <2>1. c # None
    <3>1. imp[i].list \in Ledgers
      BY ImportShape DEF Inv, TypeOK
    <3> QED BY <3>1, LedgerAssumption DEF Ledgers
  <2>2. Settled(imp[i].account, imp[i].list, c)
    BY DEF Inv, ImportInv
  <2>3. PICK y \in PaymentsHere : /\ payment[y].account = imp[i].account /\ payment[y].externalId = c
                                  /\ {payment[y].service} \ {None} = Named(imp[i].account, imp[i].list[c])
    BY <2>2 DEF Settled
  <2>4. \A x \in rows : x = y
    BY <2>1, <2>3 DEF Inv, PaymentsUnique
  <2>5. rows = {y}
    BY <2>3, <2>4
  <2>6. Cardinality(rows) = 1
    BY <2>5, FS_Singleton
  <2> QED BY <2>3, <2>5, <2>6 DEF Named
<1> QED BY <1>1, InvHolds, PTL

\* No import changes a payment entered by hand: it goes, keeps its link (and
\* follows the service it names to another account), or loses a service that goes.
THEOREM ManualTheorem == Spec => ManualUntouched
<1> DEFINE P(y) ==
             /\ payment[y].externalId = None /\ payment'[y] # payment[y]
             => \/ payment'[y] = None
                \/ payment'[y].externalId = None /\ payment'[y].service = payment[y].service
                   /\ (payment'[y].account # payment[y].account
                         => payment'[y].account = service'[payment[y].service].account)
                \/ payment'[y] = [payment[y] EXCEPT !.service = None] /\ service'[payment[y].service] = None
<1>1. Inv /\ [Next]_vars => \A y \in PaymentsHere : P(y)
  <2> SUFFICES ASSUME Inv, [Next]_vars, NEW y \in PaymentsHere PROVE P(y)
    OBVIOUS
  <2> USE DEF tables
  <2>0. TypeOK /\ ProjectsHeld /\ LinkInv /\ RowsHeld
    BY DEF Inv, LinkInv
  <2>1. CASE SameLinks
    BY <2>1 DEF SameLinks
  <2>2. ASSUME NEW a \in Accounts, DeleteAccount(a) PROVE P(y)
    <3> DEFINE gone == {s \in ServicesHere : service[s].account = a}
    <3>1. payment'[y] = IF payment[y].account = a THEN None
                        ELSE IF payment[y].service \in gone THEN [payment[y] EXCEPT !.service = None] ELSE payment[y]
      BY <2>2 DEF DeleteAccount, PaymentsHere
    <3>2. \A s \in gone : service'[s] = None
      BY <2>2 DEF DeleteAccount, ServicesHere
    <3> QED BY <3>1, <3>2
  <2>3. ASSUME NEW s \in Services, RemoveService(s) PROVE P(y)
    <3>1. payment'[y] = IF payment[y].service = s THEN [payment[y] EXCEPT !.service = None] ELSE payment[y]
      BY <2>3 DEF RemoveService, LinkedTo, PaymentsHere
    <3>2. service'[s] = None
      BY <2>0, <2>3 DEF RemoveService, TypeOK
    <3> QED BY <3>1, <3>2
  <2>4. ASSUME NEW x \in Payments, RemovePayment(x) PROVE P(y)
    BY <2>0, <2>4 DEF RemovePayment, PaymentsHere, TypeOK
  <2>5. ASSUME NEW r \in Requests, MoveService(r) PROVE P(y)
    <3>1. req[r].op = "moving"
      BY <2>5 DEF MoveService
    <3>2. CASE Commits(r) /\ y \in req[r].rows
      <4>1. PaymentIs(payment'[y], req[r].account, req[r].provider, payment[y].service, payment[y].externalId)
        BY <2>0, <2>5, <3>2, MoveEffect
      <4>2. payment[y].service = req[r].uuid /\ req[r].uuid \in ServicesHere
        BY <2>0, <3>1, <3>2 DEF RowsHeld, Commits
      <4>3. ServiceIs(service'[req[r].uuid], req[r].account, req[r].provider, service[req[r].uuid].project,
                      service[req[r].uuid].externalId)
        BY <2>0, <2>5, <3>2, <4>2, MoveEffect
      <4> QED BY <4>1, <4>2, <4>3 DEF PaymentIs, ServiceIs
    <3>3. CASE ~(Commits(r) /\ y \in req[r].rows)
      BY <2>0, <2>5, <3>3, MoveEffect
    <3> QED BY <3>2, <3>3
  <2>6. ASSUME NEW r \in Requests, CreatePayment(r) PROVE P(y)
    <3>1. UNCHANGED payment \/ \E x \in NewPayment : \A z \in Payments \ {x} : payment'[z] = payment[z]
      BY <2>0, <2>6, PayEffect
    <3> QED BY <3>1 DEF NewPayment, PaymentsHere
  <2>7. ASSUME NEW i \in Imports, NEW c \in ChargeIds, UpsertCharge(i, c) PROVE P(y)
    <3>1. \/ UNCHANGED payment
          \/ \E x \in Payments : /\ x \in RowsOf(imp[i], c) \/ x \notin PaymentsHere
                                 /\ \A z \in Payments \ {x} : payment'[z] = payment[z]
      BY <2>0, <2>7, UpsertRow
    <3> QED BY <3>1, LedgerAssumption DEF RowsOf, PaymentsHere
  <2>8. CASE UNCHANGED payment
    BY <2>8
  <2> QED BY <2>0, <2>1, <2>2, <2>3, <2>4, <2>5, <2>6, <2>7, <2>8, QuietSteps
          DEF CreateService, MovePayments, MoveServiceRead, SyncAddsService, ReadLinks
<1> QED BY <1>1, InvHolds, PTL DEF Spec, ManualUntouched

-----------------------------------------------------------------------------
(* Projects as Portfolio promises them.                                    *)

Place == [s \in Services |-> IF s \in ServicesHere THEN service[s].project ELSE None]

\* The projects and the place of every service are those of Portfolio: removing
\* a project in two statements, with services coming and going between them,
\* is one step there.
THEOREM PortfolioTheorem == Spec => ProjectsAtomic
<1>1. Init => Portfolio!Init
  BY DEF Init, Portfolio!Init, ServicesHere
<1>2. Inv /\ [Next]_vars => [Portfolio!Next]_(Portfolio!vars)
  <2> SUFFICES ASSUME Inv, [Next]_vars PROVE Portfolio!Next \/ UNCHANGED <<projects, Place>>
    BY DEF Portfolio!vars, Place
  <2>0. TypeOK /\ ProjectsHeld /\ RowsHeld /\ LinkInv
    BY DEF Inv, LinkInv
  <2>same. ASSUME UNCHANGED projects, ServicesHere' = ServicesHere,
                  \A s \in ServicesHere : service'[s].project = service[s].project
           PROVE  UNCHANGED <<projects, Place>>
    BY <2>same DEF Place
  <2>service. ASSUME UNCHANGED <<projects, service>> PROVE UNCHANGED <<projects, Place>>
    BY <2>service DEF Place, ServicesHere
  <2>add. ASSUME NEW s \in NewService, NEW a, NEW p, NEW j \in projects, NEW e, Adds(s, a, p, j, e), UNCHANGED projects
          PROVE  Portfolio!Next
    <3>1. s \in Services \ ServicesHere /\ j \in Projects
      BY <2>0 DEF NewService, TypeOK
    <3>2. /\ Place[s] = None
          /\ \A t \in Services : Place'[t] = IF t = s THEN j ELSE Place[t]
      BY <2>add, <3>1 DEF Place, Adds, ServiceIs, ServicesHere
    <3>3. Place' = [Place EXCEPT ![s] = j]
      BY <3>2 DEF Place
    <3>4. Portfolio!AddService(s, j)
      BY <2>add, <3>2, <3>3 DEF Portfolio!AddService, Place
    <3> QED BY <3>1, <3>4 DEF Portfolio!Next
  <2>drop. ASSUME NEW S \in SUBSET ServicesHere, ServicesHere' = ServicesHere \ S,
                  \A s \in ServicesHere' : service'[s] = service[s], UNCHANGED projects
           PROVE  Portfolio!Next
    <3>1. Place' = [s \in Services |-> IF s \in S THEN None ELSE Place[s]]
      BY <2>drop DEF Place
    <3>2. Portfolio!DropServices(S) /\ S \in SUBSET Services
      BY <2>drop, <3>1 DEF Portfolio!DropServices, Place, ServicesHere
    <3> QED BY <3>2 DEF Portfolio!Next
  <2>put. ASSUME NEW S \in SUBSET ServicesHere, NEW p \in Projects, Put(S, p)
          PROVE  /\ S \in SUBSET Services
                 /\ Place' = [s \in Services |-> IF s \in S THEN p ELSE Place[s]]
                 /\ \A s \in S : Place[s] # None
    <3>1. /\ ServicesHere' = ServicesHere /\ S \in SUBSET Services
          /\ \A s \in ServicesHere : service'[s].project = IF s \in S THEN p ELSE service[s].project
      BY <2>0, <2>put, PutEffect DEF ServiceIs, ServicesHere
    <3>2. \A s \in S : Place[s] # None
      <4> TAKE s \in S
      <4>1. s \in Services /\ s \in ServicesHere /\ service[s] # None
        BY DEF ServicesHere
      <4>2. Place[s] = service[s].project
        BY <4>1 DEF Place
      <4>3. service[s].project \in Projects
        BY <2>0, <4>1, ServiceShape
      <4> QED BY <4>2, <4>3, LedgerAssumption
    <3>3. Place' = [s \in Services |-> IF s \in S THEN p ELSE Place[s]]
      BY <3>1 DEF Place
    <3> QED BY <3>1, <3>2, <3>3
  <2>move. ASSUME NEW S \in SUBSET ServicesHere, NEW p \in projects, Put(S, p), UNCHANGED projects
           PROVE  Portfolio!Next
    <3>1. p \in Projects
      BY <2>0 DEF TypeOK
    <3>2. Portfolio!MoveServices(S, p) /\ S \in SUBSET Services
      BY <2>move, <2>put, <3>1 DEF Portfolio!MoveServices, Place
    <3> QED BY <3>1, <3>2 DEF Portfolio!Next
  <2>1. ASSUME NEW p \in Providers, NEW q \in Providers, MergeProvider(p, q) PROVE UNCHANGED <<projects, Place>>
    <3>1. UNCHANGED projects
      BY <2>1 DEF MergeProvider
    <3>2. ServicesHere' = ServicesHere /\ \A s \in ServicesHere : service'[s].project = service[s].project
      BY <2>0, <2>1, MergeEffect DEF ServiceIs
    <3> QED BY <2>same, <3>1, <3>2
  <2>2. ASSUME NEW a \in Accounts, DeleteAccount(a) PROVE Portfolio!Next
    <3>1. UNCHANGED projects
      BY <2>2 DEF DeleteAccount
    <3>2. /\ ServicesHere' = ServicesHere \ {s \in ServicesHere : service[s].account = a}
          /\ \A s \in ServicesHere' : service'[s] = service[s]
      BY <2>0, <2>2, DeleteEffect
    <3> QED BY <2>drop, <3>1, <3>2
  <2>3. ASSUME NEW r \in Requests, CreateService(r) PROVE Portfolio!Next \/ UNCHANGED <<projects, Place>>
    <3>1. UNCHANGED projects
      BY <2>3 DEF CreateService
    <3> QED BY <2>0, <2>3, <2>service, <2>add, <3>1, CreateEffect
  <2>4. ASSUME NEW r \in Requests, MoveService(r) PROVE UNCHANGED <<projects, Place>>
    <3>1. UNCHANGED projects
      BY <2>4 DEF MoveService
    <3>2. ServicesHere' = ServicesHere /\ \A s \in ServicesHere : service'[s].project = service[s].project
      BY <2>0, <2>4, MoveEffect DEF ServiceIs
    <3> QED BY <2>same, <3>1, <3>2
  <2>5. ASSUME NEW r \in Requests, RemoveProject(r) PROVE Portfolio!Next \/ UNCHANGED <<projects, Place>>
    <3> DEFINE d == req[r]
    <3>1. d.op = "drop" /\ d \in Request
      BY <2>0, <2>5 DEF RemoveProject, TypeOK
    <3>2. CASE UNCHANGED <<service, projects>>
      BY <2>service, <3>2
    <3>3. CASE /\ d.project \in projects /\ NobodyLeft(d.project, d.rows)
               /\ Put(d.rows, Default) /\ projects' = projects \ {d.project}
      <4>1. d.rows \in SUBSET ServicesHere /\ d.rows = In(d.project) /\ d.project # Default /\ d.project \in Projects
        BY <2>0, <3>1, <3>3, RequestShape DEF ProjectsHeld, Dropping, In, NobodyLeft
      <4>2. Place' = [s \in Services |-> IF s \in d.rows THEN Default ELSE Place[s]]
        BY <2>put, <3>3, <4>1, LedgerAssumption
      <4>3. d.rows = {s \in Services : Place[s] = d.project}
        BY <4>1, LedgerAssumption DEF In, Place, ServicesHere
      <4>4. PICK p \in Projects : p = d.project
        BY <4>1
      <4>5. Portfolio!RemoveProject(p)
        BY <3>3, <4>1, <4>2, <4>3, <4>4 DEF Portfolio!RemoveProject, Portfolio!In, Place
      <4> QED BY <4>5 DEF Portfolio!Next
    <3> QED BY <2>5, <3>2, <3>3 DEF RemoveProject
  <2>6. ASSUME NEW s \in Services, RemoveService(s) PROVE Portfolio!Next
    <3>1. UNCHANGED projects
      BY <2>6 DEF RemoveService
    <3>2. {s} \in SUBSET ServicesHere /\ ServicesHere' = ServicesHere \ {s} /\ \A t \in ServicesHere' : service'[t] = service[t]
      BY <2>0, <2>6, RemoveEffect
    <3> QED BY <2>drop, <3>1, <3>2
  <2>7. ASSUME NEW s \in Services, NEW p \in Projects, SetProject(s, p) PROVE Portfolio!Next
    <3>1. UNCHANGED projects /\ p \in projects
      BY <2>7 DEF SetProject
    <3> QED BY <2>0, <2>7, <2>move, <3>1, SetProjectEffect
  <2>8. ASSUME NEW p \in Projects, CreateProject(p) PROVE Portfolio!Next
    <3>1. p \notin projects /\ projects' = projects \cup {p} /\ UNCHANGED service
      BY <2>8 DEF CreateProject
    <3>2. Place' = Place
      BY <3>1 DEF Place, ServicesHere
    <3>3. Portfolio!CreateProject(p)
      BY <3>1, <3>2 DEF Portfolio!CreateProject, Place
    <3> QED BY <3>3 DEF Portfolio!Next
  <2>9. ASSUME NEW p \in Projects, MoveAllInto(p) PROVE Portfolio!Next
    BY <2>9, <2>move DEF MoveAllInto
  <2>10. ASSUME NEW p \in Projects, EmptyProject(p) PROVE Portfolio!Next
    <3>1. Default \in projects /\ In(p) \in SUBSET ServicesHere
      BY <2>0 DEF ProjectsHeld, In
    <3> QED BY <2>10, <2>move, <3>1 DEF EmptyProject
  <2>11. ASSUME NEW i \in Imports, NEW e \in ExtIds, SyncAddsService(i, e) PROVE Portfolio!Next \/ UNCHANGED <<projects, Place>>
    <3>1. UNCHANGED projects /\ Default \in projects
      BY <2>0, <2>11 DEF SyncAddsService, ProjectsHeld
    <3> QED BY <2>0, <2>11, <2>service, <2>add, <3>1, SyncAddsEffect
  <2>12. CASE UNCHANGED <<projects, service>>
    BY <2>12, <2>service
  <2> QED
    BY <2>1, <2>2, <2>3, <2>4, <2>5, <2>6, <2>7, <2>8, <2>9, <2>10, <2>11, <2>12
    DEF Next, vars, tables, CreateServiceRead, MoveServiceRead, CreatePaymentRead, SweepProject, MovePayments, CreatePayment,
        RemovePayment, SyncBegins, ReadLinks, UpsertCharge, ImportDone, ImportFails
<1> QED BY <1>1, <1>2, InvHolds, PTL DEF Spec, ProjectsAtomic, Portfolio!Spec
=============================================================================
