------------------------- MODULE AccountSync_proofs -------------------------
(* Proofs about AccountSync, for every number of calls, requests, items,   *)
(* rows and values.                                                        *)
EXTENDS AccountSync, TLAPS

\* The item in hand is one of the list, which is what makes its figures known.
ListOK ==
    \A s \in Syncs :
        /\ todo[s] \subseteq DOMAIN fetched[s]
        /\ pc[s] = "write" => cur[s] \in todo[s]

TypeInv == TypeOK /\ ListOK

USE FieldsAssumption, ValuesAssumption, KeysAssumption, AttemptsAssumption

\* A list's items, and the list a call starts from.
LEMMA ListsLemma ==
    /\ EmptyList \in Lists
    /\ DOMAIN EmptyList = {}
    /\ \A list \in Lists : DOMAIN list \subseteq ExtIds /\ \A e \in DOMAIN list : list[e] \in Item
BY SMTT(60) DEF Lists, EmptyList

\* What the three row builders return is a row.
LEMMA CreatedRowType ==
    ASSUME NEW e \in ExtIds, NEW item \in Item
    PROVE  CreatedRow(e, item) \in Row
BY DEF CreatedRow, Row, Item, Maybe, Known

LEMMA UpdatedRowType ==
    ASSUME NEW row \in Row, NEW existing, NEW item \in Item
    PROVE  UpdatedRow(row, existing, item) \in Row
BY DEF UpdatedRow, Row, Item, Maybe, Known

LEMMA PatchedRowType ==
    ASSUME NEW row \in Row, NEW existing \in Row, NEW dto \in Dto
    PROVE  PatchedRow(row, existing, dto) \in Row
<1> DEFINE value == [f \in Fields |->
            IF dto.value[f] \notin {NoVal, existing.value[f]} THEN dto.value[f] ELSE row.value[f]]
           flags == [f \in Fields |->
            IF dto.value[f] # NoVal THEN PatchedFlag(row, existing, dto, f) ELSE row.overridden[f]]
           meta == IF dto.clientMeta \/ PatchedMeta(existing, dto) # existing.synced
                   THEN PatchedMeta(existing, dto) ELSE row.synced
           on == IF dto.isActive = "absent" THEN row.isActive ELSE dto.isActive = "on"
           pin == IF dto.isActive = "absent" THEN row.activeOverridden ELSE dto.isActive = "off"
<1>1. value \in [Fields -> Values]
  BY DEF Row, Dto, Maybe
<1>2. flags \in [Fields -> BOOLEAN]
  BY DEF Row, PatchedFlag
<1>3. meta \in [Fields -> Maybe(Values)]
  BY DEF Row, Dto, PatchedMeta, Baseline, Maybe
<1>4. on \in BOOLEAN /\ pin \in BOOLEAN
  BY Zenon DEF Row
<1> HIDE DEF value, flags, meta, on, pin
<1>5. [row EXCEPT !.value = value, !.overridden = flags, !.synced = meta,
                  !.isActive = on, !.activeOverridden = pin] \in Row
  BY <1>1, <1>2, <1>3, <1>4 DEF Row
<1> QED
  BY <1>5 DEF PatchedRow, value, flags, meta, on, pin

\* The history variables keep their types whoever writes rows.
LEMMA DisturbType ==
    ASSUME stale \in [Syncs -> BOOLEAN], dirty \in [Syncs -> BOOLEAN],
           NEW me, NEW rows, Disturb(me, rows)
    PROVE  stale' \in [Syncs -> BOOLEAN] /\ dirty' \in [Syncs -> BOOLEAN]
BY Zenon DEF Disturb

\* Leaving the try block keeps the control state and the locals well typed.
LEMMA CatchType ==
    ASSUME TypeInv, NEW s \in Syncs, Catch(s), UNCHANGED <<dbVars, req>>
    PROVE  TypeInv'
<1>1. fetched' \in [Syncs -> Lists]
  BY ListsLemma DEF TypeInv, TypeOK, Catch, Drop
<1>2. pc' \in [Syncs -> {"idle", "createRun"} \cup TrySteps \cup CatchSteps \cup Ended]
  BY DEF TypeInv, TypeOK, Catch, Goto, CatchSteps
<1>3. TypeOK'
  BY <1>1, <1>2 DEF TypeInv, TypeOK, Catch, Drop, dbVars
<1>4. ListOK'
  BY ListsLemma DEF TypeInv, TypeOK, ListOK, Catch, Drop, Goto
<1> QED
  BY <1>3, <1>4 DEF TypeInv

LEMMA TypeInit == Init => TypeInv
<1> SUFFICES ASSUME Init PROVE TypeInv
  OBVIOUS
<1>1. TypeOK
  <2>1. fetched \in [Syncs -> Lists]
    BY ListsLemma DEF Init
  <2>2. pc \in [Syncs -> {"idle", "createRun"} \cup TrySteps \cup CatchSteps \cup Ended]
    BY DEF Init
  <2>3. account \in [exists : BOOLEAN, lastSyncError : BOOLEAN]
    BY DEF Init
  <2>4. req \in [Requests -> InFlight \cup {NewRequest}]
    BY DEF Init
  <2>5. tries \in [Syncs -> 1 .. FETCH_ATTEMPTS]
    BY DEF Init
  <2> QED
    BY <2>1, <2>2, <2>3, <2>4, <2>5, Zenon DEF Init, TypeOK
<1>2. ListOK
  BY ListsLemma DEF Init, ListOK
<1> QED
  BY <1>1, <1>2 DEF TypeInv

\* Writing an item's row keeps everything well typed.
LEMMA ItemWrittenType ==
    ASSUME TypeInv, NEW s \in Syncs, NEW u \in Uuids, NEW row \in Row,
           ItemWritten(s, u, row), raced' \in BOOLEAN
    PROVE  TypeInv'
<1> USE DEF TypeInv, TypeOK, ListOK
<1>1. stale' \in [Syncs -> BOOLEAN] /\ dirty' \in [Syncs -> BOOLEAN]
  BY DisturbType DEF ItemWritten
<1>2. TypeOK'
  BY <1>1 DEF ItemWritten, Goto, TrySteps
<1>3. ListOK'
  BY DEF ItemWritten, Goto
<1> QED
  BY <1>2, <1>3

LEMMA TypeSync ==
    ASSUME TypeInv, NEW s \in Syncs, SyncStep(s)
    PROVE  TypeInv'
<1> USE DEF TypeInv, TypeOK, ListOK, Goto
<1>1. CASE ReadAccount(s)
  BY <1>1 DEF ReadAccount, dbVars, listVars, itemVars, history, Ended
<1>2. CASE CreateRun(s)
  BY <1>2 DEF CreateRun, dbVars, listVars, itemVars, history, Ended, TrySteps, FetchSteps
<1>3. CASE Timeout(s)
  BY <1>3 DEF Timeout, dbVars, listVars, itemVars, history
<1>4. CASE FetchFails(s)
  <2>1. CASE Catch(s) /\ UNCHANGED <<dbVars, req>>
    BY <2>1, CatchType
  <2>2. CASE /\ tries[s] < FETCH_ATTEMPTS
             /\ tries' = [tries EXCEPT ![s] = @ + 1]
             /\ UNCHANGED <<dbVars, pc, aborted, listVars, itemVars, req, history>>
    BY <2>2 DEF dbVars, listVars, itemVars, history
  <2> QED
    BY <1>4, <2>1, <2>2 DEF FetchFails
<1>5. CASE FetchAccount(s)
  BY <1>5 DEF FetchAccount, dbVars, listVars, itemVars, history, TrySteps, FetchSteps
<1>6. CASE StoreBalance(s)
  <2>1. CASE account.exists
    BY <1>6, <2>1 DEF StoreBalance, dbVars, listVars, itemVars, history, TrySteps, FetchSteps
  <2> QED
    BY <1>6, <2>1, CatchType DEF StoreBalance
<1>7. CASE FetchServices(s)
  BY <1>7, ListsLemma DEF FetchServices, dbVars, itemVars, history, TrySteps
<1>8. CASE ReadItem(s)
  <2>1. PICK e \in todo[s] :
            /\ cur' = [cur EXCEPT ![s] = e]
            /\ \/ found' = [found EXCEPT ![s] = NoUuid] /\ snap' = [snap EXCEPT ![s] = NoRow]
               \/ \E u \in RowsOf(e) :
                    found' = [found EXCEPT ![s] = u] /\ snap' = [snap EXCEPT ![s] = services[u]]
    BY <1>8 DEF ReadItem
  <2>2. e \in ExtIds
    OBVIOUS
  <2>3. found' \in [Syncs -> Uuids \cup {NoUuid}] /\ snap' \in [Syncs -> Row \cup {NoRow}]
    BY <2>1 DEF RowsOf, Live
  <2>4. pc' = [pc EXCEPT ![s] = "write"] /\ stale' = [stale EXCEPT ![s] = FALSE]
        /\ UNCHANGED <<dbVars, tries, aborted, listVars, req, dirty, raced>>
    BY <1>8 DEF ReadItem
  <2>5. TypeOK'
    BY <2>1, <2>2, <2>3, <2>4 DEF dbVars, listVars, TrySteps
  <2>6. ListOK'
    BY <2>1, <2>4 DEF listVars
  <2> QED
    BY <2>5, <2>6
<1>9. CASE Throw(s)
  BY <1>9, CatchType DEF Throw
<1>10. CASE CreateItem(s)
  <2>1. CASE account.exists /\ RowsOf(cur[s]) = {}
    <3>1. PICK u \in Fresh : ItemWritten(s, u, CreatedRow(cur[s], fetched[s][cur[s]])) /\ UNCHANGED raced
      BY <1>10, <2>1 DEF CreateItem
    <3>2. cur[s] \in ExtIds /\ fetched[s][cur[s]] \in Item
      BY <1>10, ListsLemma DEF CreateItem
    <3>3. u \in Uuids
      BY DEF Fresh
    <3> HIDE DEF TypeInv
    <3> QED
      BY <3>1, <3>2, <3>3, CreatedRowType, ItemWrittenType DEF TypeInv, TypeOK
  <2> QED
    BY <1>10, <2>1, CatchType DEF CreateItem
<1>11. CASE UpdateItem(s)
  <2>1. CASE found[s] \in Live
    <3> DEFINE row == UpdatedRow(services[found[s]], snap[s], fetched[s][cur[s]])
    <3>1. fetched[s][cur[s]] \in Item
      BY <1>11, ListsLemma DEF UpdateItem
    <3>2. found[s] \in Uuids /\ services[found[s]] \in Row
      BY <2>1 DEF Live
    <3>3. row \in Row
      BY <3>1, <3>2, UpdatedRowType
    <3>4. ItemWritten(s, found[s], row) /\ raced' = (raced \/ stale[s])
      BY <1>11, <2>1 DEF UpdateItem
    <3>5. raced' \in BOOLEAN
      BY <3>4
    <3> HIDE DEF row, TypeInv
    <3> QED
      BY <3>2, <3>3, <3>4, <3>5, ItemWrittenType
  <2> QED
    BY <1>11, <2>1, CatchType DEF UpdateItem
<1>12. CASE DeactivateMissing(s)
  <2>1. stale' \in [Syncs -> BOOLEAN] /\ dirty' \in [Syncs -> BOOLEAN]
    BY <1>12, DisturbType DEF DeactivateMissing
  <2>2. services' \in [Uuids -> Row \cup {NoRow}]
    <3>1. \A u \in Missing(s) : services[u] \in Row
      BY DEF Missing, Live
    <3>2. ASSUME NEW row \in Row PROVE [row EXCEPT !.isActive = FALSE] \in Row
      BY DEF Row
    <3> QED
      BY <1>12, <3>1, <3>2 DEF DeactivateMissing
  <2> QED
    BY <1>12, <2>1, <2>2 DEF DeactivateMissing, listVars, itemVars, TrySteps
<1>13. CASE MarkSynced(s)
  <2>1. CASE account.exists
    <3>1. /\ account' \in [exists : BOOLEAN, lastSyncError : BOOLEAN]
          /\ pc' = [pc EXCEPT ![s] = "markOk"]
          /\ UNCHANGED <<services, runs, tries, aborted, listVars, itemVars, req, history>>
      BY <1>13, <2>1, ZenonT(60) DEF MarkSynced
    <3> QED
      BY <3>1 DEF listVars, itemVars, history, TrySteps
  <2>2. CASE ~account.exists
    BY <1>13, <2>2, CatchType DEF MarkSynced, dbVars
  <2> QED
    BY <2>1, <2>2
<1>14. CASE MarkOk(s)
  <2>1. CASE runs[s] = "running"
    <3> USE ListsLemma
    <3>1. Drop(s) /\ pc' = [pc EXCEPT ![s] = "done"] /\ runs' = [runs EXCEPT ![s] = "ok"]
          /\ UNCHANGED <<account, services, req, raced>>
      BY <1>14, <2>1 DEF MarkOk
    <3>2. TypeOK'
      BY <3>1 DEF Drop, Ended
    <3>3. ListOK'
      BY <3>1 DEF Drop
    <3> QED
      BY <3>2, <3>3
  <2>2. CASE runs[s] # "running"
    BY <1>14, <2>2, CatchType DEF MarkOk, dbVars
  <2> QED
    BY <2>1, <2>2
<1>15. CASE RecordSyncError(s)
  BY <1>15 DEF RecordSyncError, listVars, itemVars, history, CatchSteps
<1>16. CASE MarkError(s)
  BY <1>16 DEF MarkError, listVars, itemVars, history, Ended
<1> QED
  BY <1>1, <1>2, <1>3, <1>4, <1>5, <1>6, <1>7, <1>8, <1>9, <1>10, <1>11, <1>12, <1>13, <1>14,
     <1>15, <1>16 DEF SyncStep, Proceed

\* The owner's steps and a crash.
LEMMA TypeOwner ==
    ASSUME TypeInv, OwnerStep
    PROVE  TypeInv'
<1> USE DEF TypeInv, TypeOK, ListOK
<1>1. ASSUME NEW r \in Requests, ReadForUpdate(r) PROVE TypeInv'
  <2>1. PICK u \in Live :
            req' = [req EXCEPT ![r] = [state |-> "write", uuid |-> u, existing |-> services[u]]]
    BY <1>1 DEF ReadForUpdate
  <2>2. [state |-> "write", uuid |-> u, existing |-> services[u]] \in InFlight
    BY DEF Live, InFlight
  <2> QED
    BY <1>1, <2>1, <2>2 DEF ReadForUpdate, dbVars, ctlVars, listVars, itemVars, history
<1>2. ASSUME NEW r \in Requests, NEW dto \in Dto, UpdateService(r, dto) PROVE TypeInv'
  <2>1. req[r] \in InFlight
    BY <1>2 DEF UpdateService, NewRequest
  <2>2. services' \in [Uuids -> Row \cup {NoRow}]
    <3>1. CASE req[r].uuid \in Live
      <4>1. services[req[r].uuid] \in Row /\ req[r].existing \in Row
        BY <2>1, <3>1 DEF InFlight, Live
      <4>2. PatchedRow(services[req[r].uuid], req[r].existing, dto) \in Row
        BY <4>1, PatchedRowType
      <4> QED
        BY <1>2, <3>1, <4>2 DEF UpdateService
    <3> QED
      BY <1>2, <3>1 DEF UpdateService
  <2>3. stale' \in [Syncs -> BOOLEAN] /\ dirty' \in [Syncs -> BOOLEAN]
    BY <1>2, DisturbType DEF UpdateService
  <2> QED
    BY <1>2, <2>2, <2>3 DEF UpdateService, ctlVars, listVars, itemVars
<1>3. ASSUME NEW u \in Uuids, NEW v \in [Fields -> Values], NEW a \in BOOLEAN, CreateManual(u, v, a)
      PROVE TypeInv'
  <2>1. stale' \in [Syncs -> BOOLEAN] /\ dirty' \in [Syncs -> BOOLEAN]
    BY <1>3, DisturbType DEF CreateManual
  <2>2. services' \in [Uuids -> Row \cup {NoRow}]
    BY <1>3 DEF CreateManual, Row, Maybe
  <2> QED
    BY <1>3, <2>1, <2>2 DEF CreateManual, ctlVars, listVars, itemVars
<1>4. ASSUME NEW u \in Uuids, RemoveService(u) PROVE TypeInv'
  <2>1. stale' \in [Syncs -> BOOLEAN] /\ dirty' \in [Syncs -> BOOLEAN]
    BY <1>4, DisturbType DEF RemoveService
  <2> QED
    BY <1>4, <2>1 DEF RemoveService, ctlVars, listVars, itemVars
<1>5. CASE DeleteAccount
  <2>1. stale' \in [Syncs -> BOOLEAN] /\ dirty' \in [Syncs -> BOOLEAN]
    BY <1>5, DisturbType DEF DeleteAccount
  <2> QED
    BY <1>5, <2>1 DEF DeleteAccount, ctlVars, listVars, itemVars
<1> QED
  BY <1>1, <1>2, <1>3, <1>4, <1>5 DEF OwnerStep

LEMMA TypeCrash ==
    ASSUME TypeInv, Crash
    PROVE  TypeInv'
<1> USE DEF TypeInv, TypeOK, ListOK
<1>1. fetched' \in [Syncs -> Lists]
  BY ListsLemma DEF Crash
<1>2. pc' \in [Syncs -> {"idle", "createRun"} \cup TrySteps \cup CatchSteps \cup Ended]
  BY DEF Crash, Ended
<1>3. TypeOK'
  BY <1>1, <1>2 DEF Crash, dbVars
<1>4. ListOK'
  BY ListsLemma DEF Crash, Ended
<1> QED
  BY <1>3, <1>4

LEMMA TypeStep == TypeInv /\ [Next]_vars => TypeInv'
<1> SUFFICES ASSUME TypeInv, [Next]_vars PROVE TypeInv'
  OBVIOUS
<1>1. CASE UNCHANGED vars
  BY <1>1 DEF vars, dbVars, ctlVars, listVars, itemVars, history, TypeInv, TypeOK, ListOK
<1>2. CASE Next
  BY <1>2, TypeSync, TypeOwner, TypeCrash DEF Next
<1> QED
  BY <1>1, <1>2

\* Type correctness of the account synchronisation: every statement of every
\* interleaving leaves rows, runs and locals well formed, so the item a call is
\* about to write always belongs to its fetched list.
THEOREM TypeCorrect == Spec => []TypeOK
<1>1. Spec => []TypeInv
  BY TypeInit, TypeStep, PTL DEF Spec
<1>2. TypeInv => TypeOK
  BY DEF TypeInv
<1> QED
  BY <1>1, <1>2, PTL

-----------------------------------------------------------------------------
(* What a fresh row guarantees.                                            *)

\* The row a call holds for its item is the stored row, unless it is stale.
FreshSnap ==
    \A s \in Syncs :
        pc[s] = "write" /\ found[s] \in Uuids /\ ~stale[s] => services[found[s]] = snap[s]

\* A row that respects the owner's switch.
Pinned(row) == row.activeOverridden => ~row.isActive

LEMMA CreatedPinned ==
    ASSUME NEW e, NEW item PROVE Pinned(CreatedRow(e, item))
BY DEF Pinned, CreatedRow

LEMMA UpdatedPinned ==
    ASSUME NEW row \in Row, NEW item, Pinned(row)
    PROVE  Pinned(UpdatedRow(row, row, item))
BY DEF Pinned, UpdatedRow, Row

LEMMA PatchedPinned ==
    ASSUME NEW row \in Row, NEW existing, NEW dto \in Dto, Pinned(row)
    PROVE  Pinned(PatchedRow(row, existing, dto))
<1>1. PatchedRow(row, existing, dto).isActive
        = (IF dto.isActive = "absent" THEN row.isActive ELSE dto.isActive = "on")
  BY DEF PatchedRow, Row
<1>2. PatchedRow(row, existing, dto).activeOverridden
        = (IF dto.isActive = "absent" THEN row.activeOverridden ELSE dto.isActive = "off")
  BY DEF PatchedRow, Row
<1>3. CASE dto.isActive = "absent"
  BY <1>1, <1>2, <1>3 DEF Pinned
<1>4. CASE dto.isActive = "on"
  BY <1>1, <1>2, <1>4 DEF Pinned
<1>5. CASE dto.isActive = "off"
  BY <1>1, <1>2, <1>5 DEF Pinned
<1> QED
  BY <1>3, <1>4, <1>5 DEF Dto

\* Whoever writes the rows in U while others wait to write theirs.
LEMMA FreshDisturb ==
    ASSUME TypeInv, FreshSnap, NEW me, NEW U, Disturb(me, U),
           \A t \in Syncs : pc'[t] = "write" => t # me /\ pc[t] = "write",
           \A t \in Syncs : t # me => found'[t] = found[t] /\ snap'[t] = snap[t],
           \A u \in Uuids : u \notin U => services'[u] = services[u]
    PROVE  FreshSnap'
<1> SUFFICES ASSUME NEW t \in Syncs, pc'[t] = "write", found'[t] \in Uuids, ~stale'[t]
             PROVE  services'[found'[t]] = snap'[t]
  BY DEF FreshSnap
<1>1. t # me /\ pc[t] = "write" /\ found'[t] = found[t] /\ snap'[t] = snap[t]
  OBVIOUS
<1>2. ~stale[t] /\ found[t] \notin U
  BY <1>1 DEF Disturb
<1> QED
  BY <1>1, <1>2 DEF FreshSnap

\* Steps that write no service row.
LEMMA FreshSame ==
    ASSUME FreshSnap, services' = services,
           \A t \in Syncs : pc'[t] = "write" =>
                /\ pc[t] = "write" /\ found'[t] = found[t]
                /\ snap'[t] = snap[t] /\ stale'[t] = stale[t]
    PROVE  FreshSnap'
BY DEF FreshSnap

PinInv == TypeInv /\ FreshSnap /\ PinHoldsUnlessRaced

LEMMA PinInit == Init => PinInv
BY TypeInit DEF Init, PinInv, FreshSnap, PinHoldsUnlessRaced, Live

\* Steps that write no service row leave the pins as they are.
LEMMA PinSame ==
    ASSUME PinHoldsUnlessRaced, services' = services, raced' = raced
    PROVE  PinHoldsUnlessRaced'
BY DEF PinHoldsUnlessRaced, Live

LEMMA PinCatch ==
    ASSUME PinInv, NEW s \in Syncs, Catch(s), UNCHANGED services
    PROVE  FreshSnap' /\ PinHoldsUnlessRaced'
<1>1. FreshSnap'
  BY FreshSame DEF PinInv, TypeInv, TypeOK, Catch, Drop, Goto
<1>2. PinHoldsUnlessRaced'
  BY PinSame DEF PinInv, Catch
<1> QED
  BY <1>1, <1>2

LEMMA PinItem ==
    ASSUME PinInv, NEW s \in Syncs, NEW u \in Uuids, NEW row, ItemWritten(s, u, row),
           raced' = raced, ~raced => Pinned(row)
    PROVE  FreshSnap' /\ PinHoldsUnlessRaced'
<1> USE DEF PinInv, TypeInv, TypeOK
<1>1. FreshSnap'
  <2>1. \A t \in Syncs : pc'[t] = "write" => t # s /\ pc[t] = "write"
    BY DEF ItemWritten, Goto
  <2>2. \A t \in Syncs : t # s => found'[t] = found[t] /\ snap'[t] = snap[t]
    BY DEF ItemWritten
  <2>3. \A w \in Uuids : w \notin {u} => services'[w] = services[w]
    BY DEF ItemWritten
  <2>4. Disturb(s, {u})
    BY DEF ItemWritten
  <2> QED
    BY <2>1, <2>2, <2>3, <2>4, FreshDisturb
<1>2. PinHoldsUnlessRaced'
  BY DEF ItemWritten, PinHoldsUnlessRaced, Live, Pinned
<1> QED
  BY <1>1, <1>2

LEMMA PinSync ==
    ASSUME PinInv, NEW s \in Syncs, SyncStep(s)
    PROVE  FreshSnap' /\ PinHoldsUnlessRaced'
<1> USE DEF PinInv, TypeInv, TypeOK, Goto
<1>1. CASE ReadAccount(s)
  <2>1. FreshSnap'
    BY <1>1, FreshSame DEF ReadAccount, dbVars, listVars, itemVars, history
  <2>2. PinHoldsUnlessRaced'
    BY <1>1, PinSame DEF ReadAccount, dbVars, listVars, itemVars, history
  <2> QED
    BY <2>1, <2>2
<1>2. CASE CreateRun(s)
  <2>1. FreshSnap'
    BY <1>2, FreshSame DEF CreateRun, dbVars, listVars, itemVars, history
  <2>2. PinHoldsUnlessRaced'
    BY <1>2, PinSame DEF CreateRun, dbVars, listVars, itemVars, history
  <2> QED
    BY <2>1, <2>2
<1>3. CASE Timeout(s)
  <2>1. FreshSnap'
    BY <1>3, FreshSame DEF Timeout, dbVars, listVars, itemVars, history
  <2>2. PinHoldsUnlessRaced'
    BY <1>3, PinSame DEF Timeout, dbVars, listVars, itemVars, history
  <2> QED
    BY <2>1, <2>2
<1>4. CASE FetchFails(s)
  <2>1. CASE Catch(s) /\ UNCHANGED <<dbVars, req>>
    BY <2>1, PinCatch DEF dbVars
  <2>2. CASE UNCHANGED <<dbVars, pc, aborted, listVars, itemVars, req, history>>
    <3>1. FreshSnap'
      BY <2>2, FreshSame DEF dbVars, itemVars, history
    <3>2. PinHoldsUnlessRaced'
      BY <2>2, PinSame DEF dbVars, history
    <3> QED
      BY <3>1, <3>2
  <2> QED
    BY <1>4, <2>1, <2>2 DEF FetchFails
<1>5. CASE FetchAccount(s)
  <2>1. FreshSnap'
    BY <1>5, FreshSame DEF FetchAccount, dbVars, listVars, itemVars, history
  <2>2. PinHoldsUnlessRaced'
    BY <1>5, PinSame DEF FetchAccount, dbVars, listVars, itemVars, history
  <2> QED
    BY <2>1, <2>2
<1>6. CASE StoreBalance(s)
  <2>1. CASE account.exists
    <3>1. FreshSnap'
      BY <1>6, <2>1, FreshSame DEF StoreBalance, dbVars, itemVars, history
    <3>2. PinHoldsUnlessRaced'
      BY <1>6, <2>1, PinSame DEF StoreBalance, dbVars, history
    <3> QED
      BY <3>1, <3>2
  <2> QED
    BY <1>6, <2>1, PinCatch DEF StoreBalance, dbVars
<1>7. CASE FetchServices(s)
  <2>1. FreshSnap'
    BY <1>7, FreshSame DEF FetchServices, dbVars, listVars, itemVars, history
  <2>2. PinHoldsUnlessRaced'
    BY <1>7, PinSame DEF FetchServices, dbVars, listVars, itemVars, history
  <2> QED
    BY <2>1, <2>2
<1>8. CASE ReadItem(s)
  <2>1. ASSUME NEW t \in Syncs, pc'[t] = "write", found'[t] \in Uuids, ~stale'[t]
        PROVE  services'[found'[t]] = snap'[t]
    <3>1. CASE t = s
      BY <1>8, <2>1, <3>1 DEF ReadItem, dbVars
    <3>2. CASE t # s
      BY <1>8, <2>1, <3>2 DEF ReadItem, dbVars, FreshSnap
    <3> QED
      BY <3>1, <3>2
  <2>2. PinHoldsUnlessRaced'
    BY <1>8, PinSame DEF ReadItem, dbVars
  <2> QED
    BY <2>1, <2>2 DEF FreshSnap
<1>9. CASE Throw(s)
  BY <1>9, PinCatch DEF Throw, dbVars
<1>10. CASE CreateItem(s)
  <2>1. CASE account.exists /\ RowsOf(cur[s]) = {}
    BY <1>10, <2>1, PinItem, CreatedPinned DEF CreateItem, Fresh
  <2> QED
    BY <1>10, <2>1, PinCatch DEF CreateItem, dbVars
<1>11. CASE UpdateItem(s)
  <2>1. CASE found[s] \in Live
    <3> DEFINE row == UpdatedRow(services[found[s]], snap[s], fetched[s][cur[s]])
    <3>1. ItemWritten(s, found[s], row) /\ raced' = (raced \/ stale[s]) /\ pc[s] = "write"
      BY <1>11, <2>1 DEF UpdateItem
    <3>2. found[s] \in Uuids /\ services[found[s]] \in Row
      BY <2>1 DEF Live
    <3>3. CASE stale[s]
      <4>1. raced'
        BY <3>1, <3>3
      <4>2. \A t \in Syncs : pc'[t] = "write" => t # s /\ pc[t] = "write"
        BY <3>1 DEF ItemWritten
      <4>3. \A t \in Syncs : t # s => found'[t] = found[t] /\ snap'[t] = snap[t]
        BY <3>1 DEF ItemWritten
      <4>4. \A w \in Uuids : w \notin {found[s]} => services'[w] = services[w]
        BY <3>1 DEF ItemWritten
      <4>5. Disturb(s, {found[s]})
        BY <3>1 DEF ItemWritten
      <4>6. FreshSnap'
        BY <4>2, <4>3, <4>4, <4>5, FreshDisturb
      <4> QED
        BY <4>1, <4>6 DEF PinHoldsUnlessRaced
    <3>4. CASE ~stale[s]
      <4>1. snap[s] = services[found[s]]
        BY <3>1, <3>2, <3>4 DEF FreshSnap
      <4>2. raced' = raced
        BY <3>1, <3>4
      <4>3. ~raced => Pinned(services[found[s]])
        BY <2>1 DEF PinHoldsUnlessRaced, Pinned
      <4>4. ~raced => Pinned(row)
        BY <3>2, <4>1, <4>3, UpdatedPinned
      <4> HIDE DEF row
      <4> QED
        BY <3>1, <3>2, <4>2, <4>4, PinItem
    <3> QED
      BY <3>3, <3>4
  <2> QED
    BY <1>11, <2>1, PinCatch DEF UpdateItem, dbVars
<1>12. CASE DeactivateMissing(s)
  <2>1. FreshSnap'
    <3>1. \A t \in Syncs : pc'[t] = "write" => t # s /\ pc[t] = "write"
      BY <1>12 DEF DeactivateMissing
    <3>2. \A u \in Uuids : u \notin Missing(s) => services'[u] = services[u]
      BY <1>12 DEF DeactivateMissing
    <3>3. Disturb(s, Missing(s)) /\ UNCHANGED <<found, snap>>
      BY <1>12 DEF DeactivateMissing, itemVars
    <3> QED
      BY <3>1, <3>2, <3>3, FreshDisturb
  <2>2. PinHoldsUnlessRaced'
    <3>1. raced' = raced
      BY <1>12 DEF DeactivateMissing
    <3>2. ASSUME NEW u \in Uuids, services'[u] # NoRow, Pinned(services[u]) \/ services[u] = NoRow
          PROVE  Pinned(services'[u])
      <4>1. CASE u \in Missing(s)
        <5>1. services[u] \in Row
          BY <4>1 DEF Missing, Live
        <5>2. services'[u] = [services[u] EXCEPT !.isActive = FALSE]
          BY <1>12, <4>1 DEF DeactivateMissing
        <5> QED
          BY <5>1, <5>2 DEF Pinned, Row
      <4>2. CASE u \notin Missing(s)
        BY <1>12, <3>2, <4>2 DEF DeactivateMissing
      <4> QED
        BY <4>1, <4>2
    <3> QED
      BY <3>1, <3>2 DEF PinHoldsUnlessRaced, Live, Pinned
  <2> QED
    BY <2>1, <2>2
<1>13. CASE MarkSynced(s)
  <2>1. CASE account.exists
    <3>1. FreshSnap'
      BY <1>13, <2>1, FreshSame DEF MarkSynced, itemVars, history
    <3>2. PinHoldsUnlessRaced'
      BY <1>13, <2>1, PinSame DEF MarkSynced, history
    <3> QED
      BY <3>1, <3>2
  <2> QED
    BY <1>13, <2>1, PinCatch DEF MarkSynced
<1>14. CASE MarkOk(s)
  <2>1. CASE runs[s] = "running"
    <3>1. Drop(s) /\ pc' = [pc EXCEPT ![s] = "done"] /\ UNCHANGED <<services, raced>>
      BY <1>14, <2>1 DEF MarkOk
    <3>2. FreshSnap'
      BY <3>1, FreshSame DEF Drop
    <3>3. PinHoldsUnlessRaced'
      BY <3>1, PinSame
    <3> QED
      BY <3>2, <3>3
  <2> QED
    BY <1>14, <2>1, PinCatch DEF MarkOk
<1>15. CASE RecordSyncError(s)
  <2>1. FreshSnap'
    BY <1>15, FreshSame DEF RecordSyncError, dbVars, listVars, itemVars, history
  <2>2. PinHoldsUnlessRaced'
    BY <1>15, PinSame DEF RecordSyncError, dbVars, listVars, itemVars, history
  <2> QED
    BY <2>1, <2>2
<1>16. CASE MarkError(s)
  <2>1. FreshSnap'
    BY <1>16, FreshSame DEF MarkError, dbVars, listVars, itemVars, history
  <2>2. PinHoldsUnlessRaced'
    BY <1>16, PinSame DEF MarkError, dbVars, listVars, itemVars, history
  <2> QED
    BY <2>1, <2>2
<1> QED
  BY <1>1, <1>2, <1>3, <1>4, <1>5, <1>6, <1>7, <1>8, <1>9, <1>10, <1>11, <1>12, <1>13, <1>14,
     <1>15, <1>16 DEF SyncStep, Proceed

LEMMA PinOwner ==
    ASSUME PinInv, OwnerStep
    PROVE  FreshSnap' /\ PinHoldsUnlessRaced'
<1> USE ActorsAssumption DEF PinInv, TypeInv, TypeOK
<1>1. ASSUME NEW r \in Requests, ReadForUpdate(r) PROVE FreshSnap' /\ PinHoldsUnlessRaced'
  <2>1. UNCHANGED <<dbVars, ctlVars, itemVars, history>>
    BY <1>1 DEF ReadForUpdate
  <2>2. FreshSnap'
    BY <2>1, FreshSame DEF dbVars, ctlVars, itemVars, history
  <2>3. PinHoldsUnlessRaced'
    BY <2>1, PinSame DEF dbVars, history
  <2> QED
    BY <2>2, <2>3
<1>2. ASSUME NEW r \in Requests, NEW dto \in Dto, UpdateService(r, dto)
      PROVE FreshSnap' /\ PinHoldsUnlessRaced'
  <2>1. UNCHANGED <<ctlVars, itemVars, raced>>
    BY <1>2 DEF UpdateService
  <2>2. CASE req[r].uuid \in Live
    <3> DEFINE u == req[r].uuid
               row == PatchedRow(services[u], req[r].existing, dto)
    <3>1. services' = [services EXCEPT ![u] = row] /\ Disturb(r, {u})
      BY <1>2, <2>2 DEF UpdateService
    <3>2. u \in Uuids /\ services[u] \in Row
      BY <2>2 DEF Live
    <3>3. FreshSnap'
      <4> HIDE DEF u, row
      <4>1. \A w \in Uuids : w \notin {u} => services'[w] = services[w]
        BY <3>1
      <4> QED
        BY <2>1, <3>1, <4>1, FreshDisturb DEF ctlVars, itemVars
    <3>4. ~raced => Pinned(row)
      <4>1. ~raced => Pinned(services[u])
        BY <2>2 DEF PinHoldsUnlessRaced, Pinned
      <4> QED
        BY <3>2, <4>1, PatchedPinned
    <3>5. PinHoldsUnlessRaced'
      <4> HIDE DEF row, u
      <4> QED
        BY <2>1, <3>1, <3>2, <3>4 DEF PinHoldsUnlessRaced, Live, Pinned
    <3> QED
      BY <3>3, <3>5
  <2>3. CASE req[r].uuid \notin Live
    <3>1. UNCHANGED <<services, stale>>
      BY <1>2, <2>3 DEF UpdateService
    <3>2. FreshSnap'
      BY <2>1, <3>1, FreshSame DEF ctlVars, itemVars
    <3>3. PinHoldsUnlessRaced'
      BY <2>1, <3>1, PinSame
    <3> QED
      BY <3>2, <3>3
  <2> QED
    BY <2>2, <2>3
<1>3. ASSUME NEW u \in Uuids, NEW v \in [Fields -> Values], NEW a \in BOOLEAN, CreateManual(u, v, a)
      PROVE FreshSnap' /\ PinHoldsUnlessRaced'
  <2>1. UNCHANGED <<ctlVars, itemVars, raced>> /\ Disturb(NoVal, {u})
    BY <1>3 DEF CreateManual
  <2>2. \A w \in Uuids : w \notin {u} => services'[w] = services[w]
    BY <1>3 DEF CreateManual
  <2>3. Pinned(services'[u])
    BY <1>3 DEF CreateManual, Pinned
  <2>4. FreshSnap'
    BY <2>1, <2>2, FreshDisturb DEF ctlVars, itemVars
  <2>5. PinHoldsUnlessRaced'
    BY <2>1, <2>2, <2>3 DEF PinHoldsUnlessRaced, Live, Pinned
  <2> QED
    BY <2>4, <2>5
<1>4. ASSUME NEW u \in Uuids, RemoveService(u) PROVE FreshSnap' /\ PinHoldsUnlessRaced'
  <2>1. UNCHANGED <<ctlVars, itemVars, raced>> /\ Disturb(NoVal, {u})
    BY <1>4 DEF RemoveService
  <2>2. services' = [services EXCEPT ![u] = NoRow]
    BY <1>4 DEF RemoveService
  <2>3. FreshSnap'
    BY <2>1, <2>2, FreshDisturb DEF ctlVars, itemVars
  <2>4. PinHoldsUnlessRaced'
    BY <2>1, <2>2 DEF PinHoldsUnlessRaced, Live
  <2> QED
    BY <2>3, <2>4
<1>5. CASE DeleteAccount
  <2>1. UNCHANGED <<ctlVars, itemVars, raced>> /\ Disturb(NoVal, Live)
    BY <1>5 DEF DeleteAccount
  <2>2. services' = [u \in Uuids |-> NoRow]
    BY <1>5 DEF DeleteAccount
  <2>3. FreshSnap'
    <3>1. \A u \in Uuids : u \notin Live => services'[u] = services[u]
      BY <2>2 DEF Live
    <3> QED
      BY <2>1, <3>1, FreshDisturb DEF ctlVars, itemVars
  <2>4. PinHoldsUnlessRaced'
    BY <2>2 DEF PinHoldsUnlessRaced, Live
  <2> QED
    BY <2>3, <2>4
<1> QED
  BY <1>1, <1>2, <1>3, <1>4, <1>5 DEF OwnerStep

LEMMA PinStep == PinInv /\ [Next]_vars => PinInv'
<1> SUFFICES ASSUME PinInv, [Next]_vars PROVE PinInv'
  OBVIOUS
<1>1. TypeInv'
  BY TypeStep DEF PinInv
<1>2. CASE UNCHANGED vars
  BY <1>1, <1>2 DEF PinInv, FreshSnap, PinHoldsUnlessRaced, Live,
                    vars, dbVars, ctlVars, itemVars, history
<1>3. CASE \E s \in Syncs : SyncStep(s)
  BY <1>1, <1>3, PinSync DEF PinInv
<1>4. CASE OwnerStep
  BY <1>1, <1>4, PinOwner DEF PinInv
<1>5. CASE Crash
  <2>1. FreshSnap'
    BY <1>5 DEF Crash, FreshSnap, Ended
  <2>2. PinHoldsUnlessRaced'
    BY <1>5, PinSame DEF Crash, dbVars, PinInv
  <2> QED
    BY <1>1, <2>1, <2>2 DEF PinInv
<1> QED
  BY <1>2, <1>3, <1>4, <1>5 DEF Next

LEMMA PinInvariant == Spec => []PinInv
BY PinInit, PinStep, PTL DEF Spec

\* The owner's switch holds against every sync, edit, deletion and crash, as long
\* as no update was computed from a row that had changed since it was read
\* (Service.activeOverridden: "sync must not switch it back on").
THEOREM PinTheorem == Spec => []PinHoldsUnlessRaced
<1>1. PinInv => PinHoldsUnlessRaced
  BY DEF PinInv
<1> QED
  BY <1>1, PinInvariant, PTL

-----------------------------------------------------------------------------
(* Edits.                                                                  *)

\* Only the update of its item takes a call from a row it found back to the loop.
LEMMA OnlyUpdateWrites ==
    ASSUME TypeInv, Next, NEW s \in Syncs, pc[s] = "write", pc'[s] = "item", found[s] \in Uuids
    PROVE  UpdateItem(s) /\ found[s] \in Live
<1> USE DEF TypeInv, TypeOK
<1>1. \A t \in Syncs : SyncStep(t) => t = s
  <2> SUFFICES ASSUME NEW t \in Syncs, SyncStep(t), t # s PROVE FALSE
    OBVIOUS
  <2>1. \A step : Goto(t, step) => pc'[s] = pc[s]
    BY DEF Goto
  <2> QED
    BY <2>1 DEF SyncStep, Proceed, Catch, ReadAccount, CreateRun, Timeout, FetchFails, FetchAccount,
        StoreBalance, FetchServices, ReadItem, Throw, CreateItem, UpdateItem, ItemWritten,
        DeactivateMissing, MarkSynced, MarkOk, RecordSyncError, MarkError
<1>2. ~OwnerStep
  <2>1. OwnerStep => pc' = pc
    BY DEF OwnerStep, ReadForUpdate, UpdateService, CreateManual, RemoveService, DeleteAccount, ctlVars
  <2> QED
    BY <2>1
<1>3. ~Crash
  BY DEF Crash, Ended
<1>4. SyncStep(s)
  BY <1>1, <1>2, <1>3 DEF Next
<1>5. ~Catch(s)
  BY DEF Catch, Goto
<1>6. UpdateItem(s)
  BY <1>4, <1>5, KeysAssumption
     DEF SyncStep, Proceed, ReadAccount, CreateRun, Timeout, FetchFails, FetchAccount,
        StoreBalance, FetchServices, ReadItem, Throw, CreateItem, FetchSteps,
        DeactivateMissing, MarkSynced, MarkOk, RecordSyncError, MarkError
<1> QED
  BY <1>5, <1>6 DEF UpdateItem

\* An update computed from a row nobody wrote in between never changes a field
\* the owner edited (upsertServices: "Don't overwrite a manually-edited name",
\* "type", "price").
THEOREM EditTheorem == Spec => FreshUpdateKeepsEdits
<1> DEFINE Keeps ==
        \A s \in Syncs : \A u \in Uuids :
            (/\ pc[s] = "write" /\ pc'[s] = "item" /\ found[s] = u /\ ~stale[s])
            => \A f \in Fields :
                services[u].overridden[f] => services'[u].value[f] = services[u].value[f]
<1>1. ASSUME PinInv, Next PROVE Keeps
  <2> SUFFICES ASSUME NEW s \in Syncs, NEW u \in Uuids, NEW f \in Fields,
                      pc[s] = "write", pc'[s] = "item", found[s] = u, ~stale[s],
                      services[u].overridden[f]
               PROVE  services'[u].value[f] = services[u].value[f]
    BY DEF Keeps
  <2>1. UpdateItem(s) /\ u \in Live
    BY <1>1, OnlyUpdateWrites DEF PinInv
  <2>2. services[u] = snap[s] /\ services[u] \in Row
    BY <1>1, <2>1 DEF PinInv, FreshSnap, TypeInv, TypeOK, Live
  <2>3. services'[u] = UpdatedRow(services[u], snap[s], fetched[s][cur[s]])
    BY <1>1, <2>1 DEF PinInv, TypeInv, TypeOK, UpdateItem, ItemWritten
  <2> QED
    BY <2>2, <2>3 DEF UpdatedRow, Row
<1>2. PinInv /\ [Next]_vars => [Keeps]_vars
  BY <1>1
<1> QED
  BY <1>2, PinInvariant, PTL DEF Spec, FreshUpdateKeepsEdits

-----------------------------------------------------------------------------
(* Runs.                                                                   *)

\* No call of syncAccount ends with its run still "running": however its steps
\* fail and whenever the account is deleted, only a crash leaves such a run.
THEOREM RunsTheorem == Spec => []RunsSettle
<1> USE DEF RunsSettle, TypeInv, TypeOK, Goto, TrySteps, FetchSteps, CatchSteps, Ended
<1>1. Init => RunsSettle
  BY DEF Init
<1>2. ASSUME TypeInv, RunsSettle, NEW s \in Syncs, SyncStep(s) PROVE RunsSettle'
  <2> HIDE DEF RunsSettle
  \* A step from one place of the try or catch block to another.
  <2> DEFINE Moves == \E step \in TrySteps \cup CatchSteps : Goto(s, step)
  <2>17. ASSUME pc[s] \in TrySteps \cup CatchSteps, Moves,
                runs' = runs, account'.exists = account.exists
         PROVE  RunsSettle'
    BY <1>2, <2>17 DEF RunsSettle
  <2>18. Catch(s) => Moves
    BY DEF Catch
  <2>19. Goto(s, "item") => Moves
    OBVIOUS
  <2>1. CASE ReadAccount(s)
    BY <1>2, <2>1 DEF ReadAccount, dbVars, RunsSettle
  <2>2. CASE CreateRun(s)
    BY <1>2, <2>2 DEF CreateRun, RunsSettle
  <2>3. CASE Timeout(s)
    BY <1>2, <2>3 DEF Timeout, dbVars, RunsSettle
  <2>4. CASE FetchFails(s)
    <3>1. UNCHANGED <<account, runs>> /\ pc[s] \in FetchSteps
      BY <2>4 DEF FetchFails, dbVars
    <3>2. CASE Catch(s)
      BY <2>17, <2>18, <3>1, <3>2
    <3>3. CASE pc' = pc
      BY <1>2, <3>1, <3>3 DEF RunsSettle
    <3> QED
      BY <2>4, <3>2, <3>3 DEF FetchFails
  <2>5. CASE FetchAccount(s)
    <3>1. runs' = runs /\ account'.exists = account.exists /\ pc[s] \in TrySteps \cup CatchSteps
      BY <1>2, <2>5 DEF FetchAccount, ItemWritten, dbVars
    <3>2. Moves
      BY <2>5, <2>18, <2>19 DEF FetchAccount, ItemWritten
    <3> QED
      BY <2>17, <3>1, <3>2
  <2>6. CASE StoreBalance(s)
    <3>1. runs' = runs /\ account'.exists = account.exists /\ pc[s] \in TrySteps \cup CatchSteps
      BY <1>2, <2>6 DEF StoreBalance, ItemWritten, dbVars
    <3>2. Moves
      BY <2>6, <2>18, <2>19 DEF StoreBalance, ItemWritten
    <3> QED
      BY <2>17, <3>1, <3>2
  <2>7. CASE FetchServices(s)
    <3>1. runs' = runs /\ account'.exists = account.exists /\ pc[s] \in TrySteps \cup CatchSteps
      BY <1>2, <2>7 DEF FetchServices, ItemWritten, dbVars
    <3>2. Moves
      BY <2>7, <2>18, <2>19 DEF FetchServices, ItemWritten
    <3> QED
      BY <2>17, <3>1, <3>2
  <2>8. CASE ReadItem(s)
    <3>1. runs' = runs /\ account'.exists = account.exists /\ pc[s] \in TrySteps \cup CatchSteps
      BY <1>2, <2>8 DEF ReadItem, ItemWritten, dbVars
    <3>2. Moves
      BY <2>8, <2>18, <2>19 DEF ReadItem, ItemWritten
    <3> QED
      BY <2>17, <3>1, <3>2
  <2>9. CASE Throw(s)
    <3>1. runs' = runs /\ account'.exists = account.exists /\ pc[s] \in TrySteps \cup CatchSteps
      BY <1>2, <2>9 DEF Throw, ItemWritten, dbVars
    <3>2. Moves
      BY <2>9, <2>18, <2>19 DEF Throw, ItemWritten
    <3> QED
      BY <2>17, <3>1, <3>2
  <2>10. CASE CreateItem(s)
    <3>1. runs' = runs /\ account'.exists = account.exists /\ pc[s] \in TrySteps \cup CatchSteps
      BY <1>2, <2>10 DEF CreateItem, ItemWritten, dbVars
    <3>2. Moves
      BY <2>10, <2>18, <2>19 DEF CreateItem, ItemWritten
    <3> QED
      BY <2>17, <3>1, <3>2
  <2>11. CASE UpdateItem(s)
    <3>1. runs' = runs /\ account'.exists = account.exists /\ pc[s] \in TrySteps \cup CatchSteps
      BY <1>2, <2>11 DEF UpdateItem, ItemWritten, dbVars
    <3>2. Moves
      BY <2>11, <2>18, <2>19 DEF UpdateItem, ItemWritten
    <3> QED
      BY <2>17, <3>1, <3>2
  <2>12. CASE DeactivateMissing(s)
    <3>1. runs' = runs /\ account'.exists = account.exists /\ pc[s] \in TrySteps \cup CatchSteps
      BY <1>2, <2>12 DEF DeactivateMissing, ItemWritten, dbVars
    <3>2. Moves
      BY <2>12, <2>18, <2>19 DEF DeactivateMissing, ItemWritten
    <3> QED
      BY <2>17, <3>1, <3>2
  <2>13. CASE MarkSynced(s)
    <3>1. runs' = runs /\ account'.exists = account.exists /\ pc[s] \in TrySteps \cup CatchSteps
      BY <1>2, <2>13 DEF MarkSynced, ItemWritten, dbVars
    <3>2. Moves
      BY <2>13, <2>18, <2>19 DEF MarkSynced, ItemWritten
    <3> QED
      BY <2>17, <3>1, <3>2
  <2>14. CASE MarkOk(s)
    <3>1. CASE runs[s] = "running"
      <4>1. runs' = [runs EXCEPT ![s] = "ok"] /\ Goto(s, "done") /\ UNCHANGED account
        BY <2>14, <3>1 DEF MarkOk
      <4> QED
        BY <1>2, <4>1 DEF RunsSettle
    <3>2. CASE runs[s] # "running"
      BY <2>14, <2>17, <2>18, <3>2 DEF MarkOk
    <3> QED
      BY <3>1, <3>2
  <2>15. CASE RecordSyncError(s)
    <3>1. runs' = runs /\ account'.exists = account.exists /\ pc[s] \in TrySteps \cup CatchSteps
      BY <1>2, <2>15 DEF RecordSyncError, ItemWritten, dbVars
    <3>2. Moves
      BY <2>15, <2>18, <2>19 DEF RecordSyncError, ItemWritten
    <3> QED
      BY <2>17, <3>1, <3>2
  <2>16. CASE MarkError(s)
    <3>1. CASE runs[s] = "running"
      <4>1. runs' = [runs EXCEPT ![s] = "error"] /\ Goto(s, "done") /\ UNCHANGED account
        BY <2>16, <3>1 DEF MarkError
      <4> QED
        BY <1>2, <4>1 DEF RunsSettle
    <3>2. CASE runs[s] # "running"
      <4>1. runs' = runs /\ Goto(s, "rejected") /\ UNCHANGED account
        BY <2>16, <3>2 DEF MarkError
      <4> QED
        BY <1>2, <3>2, <4>1 DEF RunsSettle
    <3> QED
      BY <3>1, <3>2
  <2> QED
    BY <1>2, <2>1, <2>2, <2>3, <2>4, <2>5, <2>6, <2>7, <2>8, <2>9, <2>10,
       <2>11, <2>12, <2>13, <2>14, <2>15, <2>16 DEF SyncStep, Proceed
<1>3. ASSUME TypeInv, RunsSettle, OwnerStep PROVE RunsSettle'
  <2>1. CASE DeleteAccount
    BY <1>3, <2>1 DEF DeleteAccount, ctlVars
  <2>2. CASE UNCHANGED <<account, runs, ctlVars>>
    BY <1>3, <2>2 DEF ctlVars
  <2> QED
    BY <1>3, <2>1, <2>2 DEF OwnerStep, ReadForUpdate, UpdateService, CreateManual, RemoveService, dbVars
<1>4. ASSUME TypeInv, RunsSettle, Crash PROVE RunsSettle'
  BY <1>4 DEF Crash, dbVars
<1>5. ASSUME RunsSettle, UNCHANGED vars PROVE RunsSettle'
  BY <1>5 DEF vars, dbVars, ctlVars
<1>6. TypeInv /\ RunsSettle /\ [Next]_vars => RunsSettle'
  BY <1>2, <1>3, <1>4, <1>5 DEF Next
<1>7. Spec => []TypeInv
  BY TypeInit, TypeStep, PTL DEF Spec
<1> QED
  BY <1>1, <1>6, <1>7, PTL DEF Spec

-----------------------------------------------------------------------------
(* Failures.                                                               *)

\* A step between two places of the try block, or out of it by an error.
Inner(s) ==
    /\ UNCHANGED <<account, runs>>
    /\ pc[s] \in TrySteps
    /\ pc' = pc \/ \E step \in TrySteps \cup {"recordError"} : Goto(s, step)

\* What a step of a call does to its run and to the account.
LEMMA SyncShape ==
    ASSUME TypeInv, NEW s \in Syncs, SyncStep(s)
    PROVE  \/ ReadAccount(s) \/ CreateRun(s) \/ RecordSyncError(s) \/ MarkError(s)
           \/ MarkSynced(s) /\ account.exists
           \/ MarkOk(s) /\ runs[s] = "running"
           \/ Inner(s)
<1> USE DEF Inner, TrySteps, FetchSteps, dbVars
<1>1. Catch(s) => \E step \in TrySteps \cup {"recordError"} : Goto(s, step)
  BY DEF Catch
<1>2. \A u, row : ItemWritten(s, u, row) => UNCHANGED <<account, runs>> /\ Goto(s, "item")
  BY DEF ItemWritten
<1>3. CASE Timeout(s) \/ FetchFails(s) \/ FetchAccount(s) \/ FetchServices(s) \/ ReadItem(s)
           \/ Throw(s) \/ StoreBalance(s) \/ DeactivateMissing(s)
  BY <1>1, <1>3 DEF Timeout, FetchFails, FetchAccount, FetchServices, ReadItem, Throw, StoreBalance,
                    DeactivateMissing
<1>4. CASE CreateItem(s) \/ UpdateItem(s)
  BY <1>1, <1>2, <1>4 DEF CreateItem, UpdateItem
<1>5. CASE MarkSynced(s)
  BY <1>1, <1>5 DEF MarkSynced
<1>6. CASE MarkOk(s)
  BY <1>1, <1>6 DEF MarkOk
<1> QED
  BY <1>3, <1>4, <1>5, <1>6 DEF SyncStep, Proceed

\* A run that is ok, or may still turn out so.
Unsettled(t) == runs[t] = "ok" \/ (runs[t] = "running" /\ pc[t] # "markError")

\* While the account exists a call at work has its run, and the error flag is
\* down beside a failure only because of a run that did not fail.
FailInv ==
    account.exists =>
        /\ \A s \in Syncs : pc[s] \in TrySteps \cup CatchSteps => runs[s] = "running"
        /\ ~account.lastSyncError /\ (\E s \in Syncs : runs[s] = "error" \/ pc[s] = "markError")
           => \E t \in Syncs : Unsettled(t)

LEMMA FailSync ==
    ASSUME TypeInv, FailInv, NEW s \in Syncs, SyncStep(s)
    PROVE  FailInv'
<1> USE DEF TypeInv, TypeOK, FailInv, Unsettled, Goto, TrySteps, FetchSteps, CatchSteps, dbVars
<1>1. CASE ReadAccount(s)
  BY <1>1 DEF ReadAccount
<1>2. CASE CreateRun(s)
  BY <1>2 DEF CreateRun
<1>3. CASE RecordSyncError(s)
  BY <1>3 DEF RecordSyncError
<1>4. CASE MarkError(s)
  BY <1>4 DEF MarkError
<1>5. CASE MarkSynced(s) /\ account.exists
  BY <1>5 DEF MarkSynced
<1>6. CASE MarkOk(s) /\ runs[s] = "running"
  BY <1>6 DEF MarkOk
<1>7. CASE Inner(s)
  BY <1>7 DEF Inner
<1> QED
  BY <1>1, <1>2, <1>3, <1>4, <1>5, <1>6, <1>7, SyncShape

\* Failures show: when every run recorded so far failed, the account carries the
\* error, however syncs overlap (recordSyncError before markError, and
\* updateAfterSync, which clears it, before markOk).
THEOREM FailureTheorem == Spec => []FailureShows
<1>1. Init => FailInv
  BY DEF Init, FailInv, TrySteps, FetchSteps, CatchSteps
<1>2. ASSUME TypeInv, FailInv, OwnerStep PROVE FailInv'
  <2>1. CASE DeleteAccount
    BY <2>1 DEF DeleteAccount, FailInv
  <2>2. CASE UNCHANGED <<account, runs, pc>>
    BY <1>2, <2>2 DEF FailInv, Unsettled
  <2> QED
    BY <1>2, <2>1, <2>2 DEF OwnerStep, ReadForUpdate, UpdateService, CreateManual, RemoveService, dbVars, ctlVars
<1>3. ASSUME TypeInv, FailInv, Crash PROVE FailInv'
  BY <1>3 DEF Crash, FailInv, Unsettled, TypeInv, TypeOK, dbVars, Ended, TrySteps, FetchSteps, CatchSteps
<1>4. ASSUME FailInv, UNCHANGED vars PROVE FailInv'
  BY <1>4 DEF FailInv, Unsettled, vars, dbVars, ctlVars
<1>5. TypeInv /\ FailInv /\ [Next]_vars => FailInv'
  BY <1>2, <1>3, <1>4, FailSync DEF Next
<1>6. FailInv => FailureShows
  BY DEF FailInv, FailureShows, Unsettled
<1>7. Spec => []TypeInv
  BY TypeInit, TypeStep, PTL DEF Spec
<1> QED
  BY <1>1, <1>5, <1>6, <1>7, PTL DEF Spec

-----------------------------------------------------------------------------
(* Lists.                                                                  *)

\* The three statements of a call that write service rows.
LEMMA RowsWritten ==
    ASSUME NEW s \in Syncs, SyncStep(s)
    PROVE  \/ services' = services
           \/ CreateItem(s) /\ account.exists /\ RowsOf(cur[s]) = {}
           \/ UpdateItem(s) /\ found[s] \in Live
           \/ DeactivateMissing(s)
BY DEF SyncStep, Proceed, dbVars, ReadAccount, CreateRun, Timeout, FetchFails, FetchAccount, StoreBalance,
       FetchServices, ReadItem, Throw, CreateItem, UpdateItem, MarkSynced, MarkOk, RecordSyncError, MarkError

\* A step of one call leaves the others where they are, with their locals, and
\* when it writes service rows they know.
LEMMA OthersStay ==
    ASSUME TypeInv, NEW s \in Syncs, SyncStep(s), NEW t \in Syncs, t # s
    PROVE  /\ pc'[t] = pc[t] /\ fetched'[t] = fetched[t] /\ todo'[t] = todo[t]
           /\ cur'[t] = cur[t] /\ found'[t] = found[t]
           /\ \/ services' = services /\ stale'[t] = stale[t] /\ dirty'[t] = dirty[t]
              \/ pc[t] \in ListSteps => dirty'[t]
<1> USE DEF TypeInv, TypeOK, Goto, dbVars, listVars, itemVars, history
<1> DEFINE Stays == /\ pc'[t] = pc[t] /\ fetched'[t] = fetched[t] /\ todo'[t] = todo[t]
                    /\ cur'[t] = cur[t] /\ found'[t] = found[t]
           Quiet == services' = services /\ stale'[t] = stale[t] /\ dirty'[t] = dirty[t]
<1>1. Drop(s) /\ (\E step : Goto(s, step)) => Stays /\ stale'[t] = stale[t] /\ dirty'[t] = dirty[t]
  BY DEF Drop
<1>2. Catch(s) => Stays /\ stale'[t] = stale[t] /\ dirty'[t] = dirty[t]
  BY <1>1 DEF Catch
<1>3. \A rows : Disturb(s, rows) => (pc[t] \in ListSteps => dirty'[t])
  BY DEF Disturb
<1>4. \A u, row : ItemWritten(s, u, row) => Stays /\ (pc[t] \in ListSteps => dirty'[t])
  BY <1>3 DEF ItemWritten
<1>5. CASE ReadAccount(s) \/ CreateRun(s) \/ Timeout(s) \/ FetchAccount(s) \/ FetchServices(s)
  BY <1>5 DEF ReadAccount, CreateRun, Timeout, FetchAccount, FetchServices
<1>6. CASE FetchFails(s) \/ StoreBalance(s) \/ Throw(s)
  BY <1>2, <1>6 DEF FetchFails, StoreBalance, Throw
<1>7. CASE ReadItem(s)
  BY <1>7 DEF ReadItem
<1>8. CASE CreateItem(s) \/ UpdateItem(s)
  BY <1>2, <1>4, <1>8 DEF CreateItem, UpdateItem
<1>9. CASE DeactivateMissing(s)
  BY <1>3, <1>9 DEF DeactivateMissing
<1>10. CASE MarkSynced(s) \/ MarkOk(s)
  BY <1>1, <1>2, <1>10 DEF MarkSynced, MarkOk
<1>11. CASE RecordSyncError(s) \/ MarkError(s)
  BY <1>11 DEF RecordSyncError, MarkError
<1> QED
  BY <1>5, <1>6, <1>7, <1>8, <1>9, <1>10, <1>11 DEF SyncStep, Proceed

\* The owner's requests: a call keeps its place, and knows when rows were written.
LEMMA OwnerDisturbs ==
    ASSUME TypeInv, OwnerStep, NEW t \in Syncs
    PROVE  /\ UNCHANGED <<pc, fetched, todo, cur, found>>
           /\ \/ services' = services /\ stale'[t] = stale[t] /\ dirty'[t] = dirty[t]
              \/ pc[t] \in ListSteps => dirty'[t]
<1> USE ActorsAssumption DEF TypeInv, TypeOK, dbVars, ctlVars, listVars, itemVars, history
<1>1. \A me, rows : Disturb(me, rows) /\ me \notin Syncs => (pc[t] \in ListSteps => dirty'[t])
  BY DEF Disturb
<1>2. ASSUME NEW r \in Requests, ReadForUpdate(r) PROVE UNCHANGED <<pc, fetched, todo, cur, found, services, stale, dirty>>
  BY <1>2 DEF ReadForUpdate
<1>3. ASSUME NEW r \in Requests, NEW dto \in Dto, UpdateService(r, dto)
      PROVE  /\ UNCHANGED <<pc, fetched, todo, cur, found>>
             /\ UNCHANGED <<services, stale, dirty>> \/ (pc[t] \in ListSteps => dirty'[t])
  BY <1>1, <1>3 DEF UpdateService
<1>4. ASSUME NEW u \in Uuids, NEW v \in [Fields -> Values], NEW a \in BOOLEAN, CreateManual(u, v, a)
      PROVE  UNCHANGED <<pc, fetched, todo, cur, found>> /\ (pc[t] \in ListSteps => dirty'[t])
  BY <1>1, <1>4 DEF CreateManual
<1>5. ASSUME NEW u \in Uuids, RemoveService(u)
      PROVE  UNCHANGED <<pc, fetched, todo, cur, found>> /\ (pc[t] \in ListSteps => dirty'[t])
  BY <1>1, <1>5 DEF RemoveService
<1>6. CASE DeleteAccount
  BY <1>1, <1>6 DEF DeleteAccount
<1> QED
  BY <1>2, <1>3, <1>4, <1>5, <1>6 DEF OwnerStep

\* The update of an item never switches a service off.
LEMMA UpdatedStaysOn ==
    ASSUME NEW row \in Row, NEW existing, NEW item, row.isActive
    PROVE  UpdatedRow(row, existing, item).isActive
<1>1. CASE existing.activeOverridden
  BY <1>1 DEF UpdatedRow, Row
<1>2. CASE ~existing.activeOverridden
  BY <1>2 DEF UpdatedRow, Row
<1> QED
  BY <1>1, <1>2

\* A sync switches a service off only when it is managed, the whole list has been
\* applied and does not contain it (deactivateMissing runs after the loop over
\* the items, with their external ids).
THEOREM DeactivationTheorem == Spec => OnlyFullListDeactivates
<1> DEFINE Off(s, u) == /\ pc'[s] # pc[s]
                        /\ services[u] # NoRow /\ services'[u] # NoRow
                        /\ services[u].isActive /\ ~services'[u].isActive
           Allowed(s, u) == /\ services[u].isManaged
                            /\ todo[s] = {}
                            /\ services[u].externalId \notin DOMAIN fetched[s]
<1>1. ASSUME TypeInv, Next, NEW s \in Syncs, NEW u \in Uuids, Off(s, u)
      PROVE  Allowed(s, u)
  <2> USE DEF TypeInv, TypeOK
  <2>1. ~OwnerStep
    BY <1>1, OwnerDisturbs
  <2>2. ~Crash
    BY <1>1 DEF Crash, dbVars
  <2>3. SyncStep(s)
    BY <1>1, <2>1, <2>2, OthersStay DEF Next
  <2>4. services[u] \in Row
    BY <1>1
  <2>5. CASE CreateItem(s) /\ account.exists /\ RowsOf(cur[s]) = {}
    BY <1>1, <2>5, ZenonT(60) DEF CreateItem, ItemWritten, Fresh, Live
  <2>6. CASE UpdateItem(s) /\ found[s] \in Live
    <3>1. services' = [services EXCEPT ![found[s]] =
                          UpdatedRow(services[found[s]], snap[s], fetched[s][cur[s]])]
      BY <2>6 DEF UpdateItem, ItemWritten
    <3>2. u = found[s]
      BY <1>1, <3>1
    <3>3. services'[u] = UpdatedRow(services[u], snap[s], fetched[s][cur[s]])
      BY <1>1, <3>1, <3>2
    <3>4. UpdatedRow(services[u], snap[s], fetched[s][cur[s]]).isActive
      BY <1>1, <2>4, UpdatedStaysOn, Zenon
    <3> QED
      BY <1>1, <3>3, <3>4, Zenon
  <2>7. CASE DeactivateMissing(s)
    <3>1. u \in Missing(s) /\ todo[s] = {}
      BY <1>1, <2>7 DEF DeactivateMissing
    <3> QED
      BY <3>1 DEF Missing, NotIn
  <2> QED
    BY <1>1, <2>3, <2>5, <2>6, <2>7, RowsWritten
<1>2. TypeInv /\ [Next]_vars => [\A s \in Syncs, u \in Uuids : Off(s, u) => Allowed(s, u)]_vars
  BY <1>1
<1>3. Spec => []TypeInv
  BY TypeInit, TypeStep, PTL DEF Spec
<1> QED
  BY <1>2, <1>3, PTL DEF Spec, OnlyFullListDeactivates

-----------------------------------------------------------------------------
(* A clean sync.                                                           *)

\* A row that shows an item, and a table that has one.
Good(row, item) ==
    /\ row.isActive \/ row.activeOverridden
    /\ row.synced = item
    /\ \A f \in Fields : row.overridden[f] \/ ~Known(item[f]) \/ row.value[f] = item[f]
Shows(e, item) == \E u \in RowsOf(e) : Good(services[u], item)

\* No managed service is on but those of E.
OnlyOn(E) == \A u \in Live : services[u].isManaged /\ services[u].isActive => services[u].externalId \in E

\* A managed service has an external id, which is what NOT IN goes by.
Keyed == \A u \in Live : services[u].isManaged => services[u].externalId # NoExt

\* What call s, undisturbed since its fetch, may rely on: the row it read for its
\* item is the one there is, every item it is through with is shown, and after
\* deactivateMissing nothing else is on.
CleanCall(s) ==
    ~dirty[s] =>
        /\ pc[s] = "write" =>
            /\ ~stale[s]
            /\ found[s] = NoUuid => RowsOf(cur[s]) = {}
            /\ found[s] # NoUuid => found[s] \in RowsOf(cur[s])
        /\ pc[s] \in ListSteps => \A e \in DOMAIN fetched[s] \ todo[s] : Shows(e, fetched[s][e])
        /\ pc[s] \in {"markSynced", "markOk"} => todo[s] = {} /\ OnlyOn(DOMAIN fetched[s])

CleanInv == PinInv /\ Keyed /\ \A s \in Syncs : CleanCall(s)

LEMMA CreatedGood ==
    ASSUME NEW e, NEW item
    PROVE  Good(CreatedRow(e, item), item) /\ CreatedRow(e, item).externalId = e
BY DEF Good, CreatedRow, Known

LEMMA UpdatedGood ==
    ASSUME NEW row \in Row, NEW item
    PROVE  /\ Good(UpdatedRow(row, row, item), item)
           /\ UpdatedRow(row, row, item).externalId = row.externalId
<1> DEFINE new == UpdatedRow(row, row, item)
<1>1. new.externalId = row.externalId /\ new.synced = item /\ new.overridden = row.overridden
      /\ new.activeOverridden = row.activeOverridden
  BY DEF UpdatedRow, Row
<1>2. \A f \in Fields : ~row.overridden[f] /\ Known(item[f]) => new.value[f] = item[f]
  BY DEF UpdatedRow, Row
<1>3. ~row.activeOverridden => new.isActive
  BY DEF UpdatedRow, Row
<1> QED
  BY <1>1, <1>2, <1>3 DEF Good

\* What an update of an item leaves alone, whatever row it was computed from.
LEMMA UpdatedKey ==
    ASSUME NEW row \in Row, NEW existing, NEW item
    PROVE  /\ UpdatedRow(row, existing, item).externalId = row.externalId
           /\ UpdatedRow(row, existing, item).isManaged = row.isManaged
BY DEF UpdatedRow, Row

LEMMA PatchedKey ==
    ASSUME NEW row \in Row, NEW existing, NEW dto
    PROVE  /\ PatchedRow(row, existing, dto).externalId = row.externalId
           /\ PatchedRow(row, existing, dto).isManaged = row.isManaged
BY DEF PatchedRow, Row

\* A call nobody disturbs keeps what it relies on.
LEMMA CleanStays ==
    ASSUME NEW t \in Syncs, CleanCall(t),
           pc'[t] = pc[t], fetched'[t] = fetched[t], todo'[t] = todo[t],
           cur'[t] = cur[t], found'[t] = found[t],
           \/ services' = services /\ stale'[t] = stale[t] /\ dirty'[t] = dirty[t]
           \/ pc[t] \in ListSteps => dirty'[t]
    PROVE  CleanCall(t)'
<1>1. CASE services' = services /\ stale'[t] = stale[t] /\ dirty'[t] = dirty[t]
  BY <1>1 DEF CleanCall, Shows, OnlyOn, RowsOf, Live
<1>2. CASE pc[t] \in ListSteps => dirty'[t]
  BY <1>2 DEF CleanCall, ListSteps
<1> QED
  BY <1>1, <1>2

\* Writing the row u of the item in hand: u is new or the row of that item.
LEMMA CleanWritten ==
    ASSUME CleanInv, NEW s \in Syncs, NEW u \in Uuids, NEW row, row # NoRow, pc[s] = "write",
           ItemWritten(s, u, row),
           ~dirty[s] => Good(row, fetched[s][cur[s]]) /\ row.externalId = cur[s]
                        /\ (u \notin Live \/ u \in RowsOf(cur[s]))
    PROVE  CleanCall(s)'
<1> USE DEF CleanInv, PinInv, TypeInv, TypeOK, ListOK
<1>1. /\ services' = [services EXCEPT ![u] = row] /\ fetched' = fetched
      /\ todo'[s] = todo[s] \ {cur[s]} /\ pc'[s] = "item" /\ dirty'[s] = dirty[s]
  BY DEF ItemWritten, Goto, Disturb
<1> SUFFICES ASSUME ~dirty[s], NEW e \in DOMAIN fetched[s] \ (todo[s] \ {cur[s]})
             PROVE  Shows(e, fetched[s][e])'
  BY <1>1 DEF CleanCall
<1>2. CASE e = cur[s]
  <2>1. u \in RowsOf(e)' /\ services'[u] = row
    BY <1>1, <1>2 DEF RowsOf, Live
  <2> QED
    BY <1>1, <1>2, <2>1 DEF Shows, Good
<1>3. CASE e # cur[s]
  <2>1. PICK w \in RowsOf(e) : Good(services[w], fetched[s][e])
    BY <1>3 DEF CleanCall, Shows, ListSteps
  <2>2. w # u
    BY <1>3 DEF RowsOf
  <2>3. services'[w] = services[w] /\ w \in RowsOf(e)'
    BY <1>1, <2>2 DEF RowsOf, Live
  <2> QED
    BY <1>1, <2>1, <2>3 DEF Shows, Good
<1> QED
  BY <1>2, <1>3

\* The steps of the call itself.
LEMMA CleanSelf ==
    ASSUME CleanInv, NEW s \in Syncs, SyncStep(s)
    PROVE  CleanCall(s)'
<1> USE DEF CleanInv, PinInv, TypeInv, TypeOK, ListOK, Goto, ListSteps, dbVars, listVars, itemVars, history
<1>1. ASSUME pc'[s] \notin ListSteps PROVE CleanCall(s)'
  BY <1>1 DEF CleanCall
<1>2. CASE Catch(s)
  BY <1>1, <1>2 DEF Catch
<1>3. CASE ReadAccount(s) \/ CreateRun(s) \/ FetchAccount(s) \/ RecordSyncError(s) \/ MarkError(s)
  BY <1>1, <1>3 DEF ReadAccount, CreateRun, FetchAccount, RecordSyncError, MarkError
<1>4. CASE Timeout(s)
  BY <1>1, <1>4 DEF Timeout, FetchSteps
<1>5. CASE FetchFails(s) \/ StoreBalance(s) \/ Throw(s)
  BY <1>1, <1>2, <1>5 DEF FetchFails, StoreBalance, Throw, FetchSteps
<1>6. CASE FetchServices(s)
  <2>1. pc'[s] = "item" /\ todo'[s] = DOMAIN fetched'[s]
    BY <1>6 DEF FetchServices
  <2> QED
    BY <2>1 DEF CleanCall
<1>7. CASE ReadItem(s)
  <2>1. /\ pc'[s] = "write" /\ ~stale'[s] /\ UNCHANGED <<services, fetched, todo, dirty>>
        /\ \/ RowsOf(cur'[s]) = {} /\ found'[s] = NoUuid
           \/ found'[s] \in RowsOf(cur'[s])
    BY <1>7 DEF ReadItem
  <2>2. pc[s] \in ListSteps
    BY <1>7 DEF ReadItem
  <2>3. \A e : RowsOf(e)' = RowsOf(e)
    BY <2>1 DEF RowsOf, Live
  <2>4. found'[s] \in RowsOf(cur'[s]) => found'[s] # NoUuid
    BY DEF RowsOf, Live
  <2> QED
    BY <2>1, <2>2, <2>3, <2>4 DEF CleanCall, Shows
<1>8. CASE CreateItem(s) /\ account.exists /\ RowsOf(cur[s]) = {}
  <2>1. PICK u \in Fresh : ItemWritten(s, u, CreatedRow(cur[s], fetched[s][cur[s]]))
    BY <1>8 DEF CreateItem
  <2>2. CreatedRow(cur[s], fetched[s][cur[s]]) # NoRow
    BY <1>8, ListsLemma, CreatedRowType, RowsAssumption DEF CreateItem
  <2>3. u \in Uuids /\ u \notin Live /\ pc[s] = "write"
    BY <1>8 DEF CreateItem, Fresh
  <2> HIDE DEF CleanInv
  <2> QED
    BY <2>1, <2>2, <2>3, CreatedGood, CleanWritten
<1>9. CASE UpdateItem(s) /\ found[s] \in Live
  <2> DEFINE u == found[s]
             item == fetched[s][cur[s]]
             row == UpdatedRow(services[u], snap[s], item)
  <2>1. ItemWritten(s, u, row) /\ pc[s] = "write" /\ u # NoUuid /\ u \in Uuids /\ services[u] \in Row
    BY <1>9 DEF UpdateItem, Live
  <2>2. row # NoRow
    BY <2>1, ListsLemma, UpdatedRowType, RowsAssumption
  <2>3. ASSUME ~dirty[s] PROVE Good(row, item) /\ row.externalId = cur[s] /\ u \in RowsOf(cur[s])
    <3>1. ~stale[s] /\ u \in RowsOf(cur[s])
      BY <2>1, <2>3 DEF CleanCall
    <3>2. snap[s] = services[u]
      BY <2>1, <3>1 DEF FreshSnap
    <3>3. services[u].externalId = cur[s]
      BY <3>1 DEF RowsOf
    <3> QED
      BY <2>1, <3>1, <3>2, <3>3, UpdatedGood
  <2> HIDE DEF u, row, CleanInv
  <2> QED
    BY <2>1, <2>2, <2>3, CleanWritten DEF item
<1>10. CASE DeactivateMissing(s)
  <2> DEFINE E == DOMAIN fetched[s]
  <2>1. /\ services' = [u \in Uuids |-> IF u \in Missing(s) THEN [services[u] EXCEPT !.isActive = FALSE]
                                        ELSE services[u]]
        /\ UNCHANGED <<fetched, todo>> /\ todo[s] = {} /\ pc[s] = "item" /\ pc'[s] = "markSynced"
        /\ dirty'[s] = dirty[s]
    BY <1>10 DEF DeactivateMissing, Disturb
  <2>2. \A u \in Live : u \notin Missing(s) => services'[u] = services[u]
    BY <2>1 DEF Live
  <2>3. \A u \in Missing(s) : services'[u].isActive = FALSE /\ services[u] \in Row
    <3>1. ASSUME NEW row \in Row PROVE [row EXCEPT !.isActive = FALSE].isActive = FALSE
      BY DEF Row
    <3> QED
      BY <2>1, <3>1 DEF Missing, Live
  <2>4. ASSUME ~dirty[s], NEW e \in E PROVE Shows(e, fetched[s][e])'
    <3>1. PICK u \in RowsOf(e) : Good(services[u], fetched[s][e])
      BY <2>1, <2>4 DEF CleanCall, Shows
    <3>2. u \notin Missing(s) /\ u \in Live /\ services[u].externalId = e
      BY KeysAssumption, ListsLemma DEF Missing, NotIn, RowsOf
    <3>3. services'[u] = services[u] /\ u \in RowsOf(e)'
      BY <2>2, <3>2 DEF RowsOf, Live
    <3>4. Good(services'[u], fetched'[s][e])
      BY <2>1, <3>1, <3>3
    <3> QED
      BY <3>3, <3>4 DEF Shows
  <2>5. OnlyOn(E)'
    <3> SUFFICES ASSUME NEW u \in Uuids, services'[u] # NoRow, services'[u].isManaged, services'[u].isActive
                 PROVE  services'[u].externalId \in E
      BY <2>1 DEF OnlyOn, Live
    <3>1. u \notin Missing(s)
      BY <2>3
    <3>2. services'[u] = services[u] /\ u \in Live
      BY <2>1, <3>1 DEF Live
    <3>3. services[u].externalId # NoExt
      BY <3>2 DEF Keyed
    <3> QED
      BY <3>1, <3>2, <3>3 DEF Missing, NotIn
  <2> QED
    BY <2>1, <2>4, <2>5 DEF CleanCall
<1>11. CASE MarkSynced(s) /\ account.exists
  <2>1. UNCHANGED <<services, fetched, todo, dirty>> /\ pc[s] = "markSynced" /\ pc'[s] = "markOk"
    BY <1>11 DEF MarkSynced
  <2> QED
    BY <2>1 DEF CleanCall, Shows, OnlyOn, RowsOf, Live
<1>12. CASE MarkOk(s) /\ runs[s] = "running"
  BY <1>1, <1>12 DEF MarkOk
<1> QED
  BY <1>2, <1>3, <1>4, <1>5, <1>6, <1>7, <1>8, <1>9, <1>10, <1>11, <1>12
     DEF SyncStep, Proceed, CreateItem, UpdateItem, MarkSynced, MarkOk

\* Every write keeps managed services keyed.
LEMMA KeyedStep ==
    ASSUME CleanInv, Next
    PROVE  Keyed'
<1> USE DEF CleanInv, PinInv, TypeInv, TypeOK, ListOK, dbVars
<1>1. ASSUME NEW u \in Uuids, NEW row, services' = [services EXCEPT ![u] = row],
             row = NoRow \/ (row.isManaged => row.externalId # NoExt)
      PROVE  Keyed'
  BY <1>1 DEF Keyed, Live
<1>2. CASE services' = services
  BY <1>2 DEF Keyed, Live
<1>3. ASSUME NEW s \in Syncs, SyncStep(s) PROVE Keyed'
  <2>1. CASE CreateItem(s) /\ account.exists /\ RowsOf(cur[s]) = {}
    <3>1. PICK u \in Fresh : ItemWritten(s, u, CreatedRow(cur[s], fetched[s][cur[s]]))
      BY <2>1 DEF CreateItem
    <3>2. cur[s] # NoExt
      BY <2>1 DEF CreateItem
    <3> QED
      BY <1>1, <3>1, <3>2, CreatedGood DEF ItemWritten, Fresh
  <2>2. CASE UpdateItem(s) /\ found[s] \in Live
    BY <1>1, <2>2, UpdatedKey DEF UpdateItem, ItemWritten, Keyed, Live
  <2>3. CASE DeactivateMissing(s)
    <3>1. ASSUME NEW row \in Row
          PROVE  /\ [row EXCEPT !.isActive = FALSE].externalId = row.externalId
                 /\ [row EXCEPT !.isActive = FALSE].isManaged = row.isManaged
      BY DEF Row
    <3> QED
      BY <2>3, <3>1 DEF DeactivateMissing, Keyed, Live, Missing
  <2> QED
    BY <1>2, <1>3, <2>1, <2>2, <2>3, RowsWritten
<1>4. ASSUME NEW r \in Requests, NEW dto \in Dto, UpdateService(r, dto) PROVE Keyed'
  BY <1>1, <1>2, <1>4, PatchedKey DEF UpdateService, Keyed, Live
<1>5. ASSUME NEW u \in Uuids, NEW v \in [Fields -> Values], NEW a \in BOOLEAN, CreateManual(u, v, a) PROVE Keyed'
  BY <1>1, <1>5 DEF CreateManual
<1>6. ASSUME NEW u \in Uuids, RemoveService(u) PROVE Keyed'
  BY <1>1, <1>6 DEF RemoveService
<1>7. CASE DeleteAccount
  BY <1>7 DEF DeleteAccount, Keyed, Live
<1> QED
  BY <1>2, <1>3, <1>4, <1>5, <1>6, <1>7 DEF Next, OwnerStep, ReadForUpdate, Crash

LEMMA CleanStep == CleanInv /\ [Next]_vars => CleanInv'
<1> SUFFICES ASSUME CleanInv, [Next]_vars PROVE CleanInv'
  OBVIOUS
<1>1. PinInv'
  BY PinStep DEF CleanInv
<1>2. CASE UNCHANGED vars
  BY <1>1, <1>2, CleanStays DEF CleanInv, Keyed, Live, vars, dbVars, ctlVars, listVars, itemVars, history
<1>3. ASSUME NEW s \in Syncs, SyncStep(s), NEW t \in Syncs PROVE CleanCall(t)'
  <2>1. CASE t = s
    BY <1>3, <2>1, CleanSelf
  <2>2. CASE t # s
    BY <1>3, <2>2, OthersStay, CleanStays DEF CleanInv, PinInv
  <2> QED
    BY <2>1, <2>2
<1>4. ASSUME OwnerStep, NEW t \in Syncs PROVE CleanCall(t)'
  BY <1>4, OwnerDisturbs, CleanStays DEF CleanInv, PinInv
<1>5. ASSUME Crash, NEW t \in Syncs PROVE CleanCall(t)'
  BY <1>5 DEF Crash, CleanCall, ListSteps, Ended, CleanInv, PinInv, TypeInv, TypeOK
<1> QED
  BY <1>1, <1>2, <1>3, <1>4, <1>5, KeyedStep DEF CleanInv, Next

\* When a sync that nobody disturbed since its fetch comes to mark the account
\* synced, the account's services are the provider's list: every item has its row
\* with the provider's figures, and no other managed service is on.
THEOREM MirrorTheorem == Spec => []CleanSyncMirrors
<1>1. Init => CleanInv
  BY PinInit DEF CleanInv, Init, Keyed, Live, CleanCall, ListSteps
<1>2. CleanInv => CleanSyncMirrors
  <2> SUFFICES ASSUME CleanInv, NEW s \in Syncs, pc[s] \in {"markSynced", "markOk"}, ~dirty[s]
               PROVE  Mirrors(fetched[s])
    BY DEF CleanSyncMirrors
  <2>1. CleanCall(s) /\ todo[s] = {}
    BY DEF CleanInv, CleanCall
  <2>2. \A e \in DOMAIN fetched[s] : Shows(e, fetched[s][e])
    BY <2>1 DEF CleanCall, ListSteps
  <2>3. OnlyOn(DOMAIN fetched[s])
    BY <2>1 DEF CleanCall
  <2> QED
    BY <2>2, <2>3 DEF Mirrors, Shows, Good, OnlyOn
<1> QED
  BY <1>1, <1>2, CleanStep, PTL DEF Spec
=============================================================================
