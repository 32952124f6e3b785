------------------------------- MODULE SignIn -------------------------------
(***************************************************************************)
(* The sign-in methods of the one admin: password, passkeys, Telegram.     *)
(* Settings requests read the admin row, count the passkeys, check that a  *)
(* method remains and then write; two of them may overlap, and nothing     *)
(* locks the row.  A Telegram round-trip (link or login) reads the client  *)
(* settings, talks to Telegram and then writes.  The maintenance command   *)
(* line works on the same tables from another process.                     *)
(*                                                                         *)
(* The client settings of Telegram are a record: app stands for client id  *)
(* and origin, secret for the write-only client secret.                    *)
(***************************************************************************)
EXTENDS Naturals, FiniteSets

CONSTANTS
    Keys,       \* passkeys
    Clients,    \* Telegram client settings the owner may save: records with an app and a secret
    Users,      \* Telegram accounts
    Requests,   \* requests in flight
    Patches,    \* bound: the PATCH bodies in play, a subset of Dto
    None,       \* NULL, no row
    Absent      \* client settings a body does not name

VARIABLES
    row,        \* the auth_config row
    keys,       \* the passkeys table
    req,        \* requests in flight
    flow,       \* the flow cookie of the owner's browser
    cli,        \* the command line is between the two deletes of reset-admin
    provenWith, \* history: the client settings the current link was made with
    late        \* history: requests whose reading somebody else has made stale

vars == <<row, keys, req, flow, cli, provenWith, late>>

-----------------------------------------------------------------------------
Row == [passwordEnabled : BOOLEAN, passkeyEnabled : BOOLEAN,
        rp : BOOLEAN,                       \* Relying Party id and origin are set
        telegramEnabled : BOOLEAN, client : Clients \cup {None}, telegramUserId : Users \cup {None}]

\* PATCH /auth/config: "keep" where a field is absent.
Flag == {"keep", "on", "off"}
Dto == [passwordEnabled : Flag, passkeyEnabled : Flag, rp : Flag, telegramEnabled : Flag,
        client : Clients \cup {None, Absent}]

Patched(flag, old) == IF flag = "keep" THEN old ELSE flag = "on"

TelegramReady(r)  == r.client # None /\ r.telegramUserId # None
TelegramUsable(r) == r.telegramEnabled /\ TelegramReady(r)

\* Mutant: passkeys count as long as there are any, switched on or not.
SignInPossibleAnyKey(r, n) == r.passwordEnabled \/ n > 0 \/ TelegramUsable(r)
\* assertSignInPossible, for the row and the number of passkeys as they would be.
SignInPossible(r, n) == r.passwordEnabled \/ (r.passkeyEnabled /\ n > 0) \/ TelegramUsable(r)

Apps == {c.app : c \in Clients}

\* Client settings are their app and their secret; NULL is no Telegram account
\* and no row.
ASSUME ClientsAssumption == \A c \in Clients : c = [app |-> c.app, secret |-> c.secret]
ASSUME UsersAssumption   == None \notin Users
ASSUME RowAssumption     == None \notin Row
ASSUME PatchesAssumption == Patches \subseteq Dto
\* The table of passkeys is finite.
ASSUME KeysAssumption    == IsFiniteSet(Keys)

Idle == [op |-> "idle"]
Request ==
    {Idle}
    \cup [op : {"patch"}, dto : Dto, changed : BOOLEAN, checked : BOOLEAN]
    \cup [op : {"unlink"}, checked : BOOLEAN]
    \cup [op : {"delete"}, key : Keys, checked : BOOLEAN]
    \cup [op : {"exchange"}, client : [app : Apps, secret : {c.secret : c \in Clients}]]

\* What setup stores.
FirstRow == [passwordEnabled |-> TRUE, passkeyEnabled |-> FALSE, rp |-> FALSE,
             telegramEnabled |-> FALSE, client |-> None, telegramUserId |-> None]

Init ==
    /\ row = None /\ keys = {}
    /\ req = [r \in Requests |-> Idle]
    /\ flow = None /\ cli = "idle"
    /\ provenWith = None /\ late = {}

Ends(r)      == req' = [req EXCEPT ![r] = Idle] /\ late' = late \ {r}
\* Request r has changed what the others in flight have read.
Overtakes(r) == late' = (late \cup {q \in Requests : req[q].op # "idle"}) \ {r}

\* Mutant: the key to delete still counts.
CountAfterAll(q) == Cardinality(keys)
\* The passkeys there would be: a deletion is "evaluated as if this passkey were
\* already gone".
CountAfter(q) == IF q.op = "delete" /\ keys # {} THEN Cardinality(keys) - 1 ELSE Cardinality(keys)

\* Request q has read the row and would make it r: it is refused or through at
\* once, or the count of the passkeys decides.
Asked(q, r) ==
    IF SignInPossible(r, 0) THEN [q EXCEPT !.checked = TRUE] ELSE IF SignInPossible(r, 1) THEN q ELSE Idle
KeysCounted(r) ==
    /\ req[r].op \in {"patch", "unlink", "delete"} /\ ~req[r].checked
    /\ IF CountAfter(req[r]) > 0 THEN req' = [req EXCEPT ![r].checked = TRUE] /\ UNCHANGED late ELSE Ends(r)
    /\ UNCHANGED <<row, keys, flow, cli, provenWith>>

Begins(r, q) ==
    /\ req[r] = Idle /\ row # None
    /\ req' = [req EXCEPT ![r] = q] /\ late' = late \ {r}
    /\ UNCHANGED <<row, keys, flow, cli, provenWith>>
\* Request r is checked and writes; its update fails without a row.
Writes(r, op, newRow) ==
    /\ req[r].op = op /\ req[r].checked
    /\ req' = [req EXCEPT ![r] = Idle]
    /\ IF row = None THEN late' = late \ {r} /\ UNCHANGED <<row, provenWith>>
       ELSE /\ row' = newRow /\ Overtakes(r)
            /\ provenWith' = IF newRow.telegramUserId = None THEN None ELSE provenWith
    /\ UNCHANGED <<keys, flow, cli>>

-----------------------------------------------------------------------------
(* First run.  A second setup in flight fails on the primary key.          *)

Setup ==
    /\ row = None /\ row' = FirstRow
    /\ UNCHANGED <<keys, req, flow, cli, provenWith, late>>

-----------------------------------------------------------------------------
(* PATCH /auth/config.                                                     *)

\* New client settings, a retyped secret included, drop the link.
CredsChanged(d, r) == d.client # Absent /\ ~(d.client = None /\ r.client = None)

\* Mutant: new client settings keep the link.
MergedKeepsLink(d, changed, old) ==
    [passwordEnabled |-> Patched(d.passwordEnabled, old.passwordEnabled),
     passkeyEnabled  |-> Patched(d.passkeyEnabled, old.passkeyEnabled),
     rp              |-> Patched(d.rp, old.rp),
     telegramEnabled |-> Patched(d.telegramEnabled, old.telegramEnabled),
     client          |-> IF d.client = Absent THEN old.client ELSE d.client,
     telegramUserId  |-> old.telegramUserId]
\* What the update makes of a row: only what the body names, or what follows from it, is written.
Merged(d, changed, old) ==
    [passwordEnabled |-> Patched(d.passwordEnabled, old.passwordEnabled),
     passkeyEnabled  |-> Patched(d.passkeyEnabled, old.passkeyEnabled),
     rp              |-> Patched(d.rp, old.rp),
     telegramEnabled |-> ~changed /\ Patched(d.telegramEnabled, old.telegramEnabled),
     client          |-> IF d.client = Absent THEN old.client ELSE d.client,
     telegramUserId  |-> IF changed THEN None ELSE old.telegramUserId]

PatchRead(r, d) ==
    LET changed == CredsChanged(d, row) IN
    /\ row # None
    /\ ~changed /\ d.telegramEnabled = "on" => TelegramReady(row)
    /\ Begins(r, Asked([op |-> "patch", dto |-> d, changed |-> changed, checked |-> FALSE], Merged(d, changed, row)))
PatchWrite(r) == req[r].op = "patch" /\ Writes(r, "patch", Merged(req[r].dto, req[r].changed, row))

-----------------------------------------------------------------------------
(* Telegram link and login.                                                *)

Unlinked(r) == [r EXCEPT !.telegramEnabled = FALSE, !.telegramUserId = None]

UnlinkRead(r)  == row # None /\ Begins(r, Asked([op |-> "unlink", checked |-> FALSE], Unlinked(row)))
UnlinkWrite(r) == req[r].op = "unlink" /\ Writes(r, "unlink", Unlinked(row))

\* start: the browser gets the flow cookie; a login needs a usable method.
TelegramStart(mode) ==
    /\ row # None /\ row.client # None
    /\ mode = "login" => TelegramUsable(row)
    /\ flow' = [mode |-> mode, app |-> row.client.app]
    /\ UNCHANGED <<row, keys, req, cli, provenWith, late>>

\* Mutant: the settings are not compared with those of the start.
SettingsUnchangedSkipped(f) == row.client # None
\* "a link must prove the values that are stored now": client id and redirect
\* address as at the start; the secret is the one stored now.
SettingsUnchanged(f) == row.client # None /\ f.app = row.client.app

\* handleCallback up to the exchange; the cookie is used up, whatever follows.
\* The exchange of a login writes nothing: it is over with this step.
CallbackRead(r) ==
    /\ req[r] = Idle /\ flow # None
    /\ flow' = None
    /\ IF flow.mode = "link" /\ row # None /\ SettingsUnchanged(flow)
       THEN req' = [req EXCEPT ![r] = [op |-> "exchange", client |-> [app |-> flow.app, secret |-> row.client.secret]]]
       ELSE UNCHANGED req
    /\ late' = late \ {r}
    /\ UNCHANGED <<row, keys, cli, provenWith>>

\* Telegram vouches for user u, whose account is linked.
LinkTelegram(r, u) ==
    /\ req[r].op = "exchange"
    /\ req' = [req EXCEPT ![r] = Idle] /\ late' = late \ {r}
    /\ IF row = None THEN UNCHANGED <<row, provenWith>>
       ELSE /\ row' = [row EXCEPT !.telegramUserId = u, !.telegramEnabled = TRUE]
            /\ provenWith' = req[r].client
    /\ UNCHANGED <<keys, flow, cli>>

\* A failed exchange changes nothing.
CallbackEnds(r) ==
    /\ req[r].op = "exchange" /\ Ends(r)
    /\ UNCHANGED <<row, keys, flow, cli, provenWith>>

-----------------------------------------------------------------------------
(* Passkeys.                                                               *)

\* verifyRegistration: the ceremony itself is module Ceremony's.
RegisterKey(k) ==
    /\ row # None /\ row.rp /\ k \notin keys
    /\ keys' = keys \cup {k}
    /\ UNCHANGED <<row, req, flow, cli, provenWith, late>>

DeleteKeyRead(r, k) ==
    /\ row # None /\ k \in keys
    /\ Begins(r, Asked([op |-> "delete", key |-> k, checked |-> FALSE], row))

DeleteKey(r) ==
    /\ req[r].op = "delete" /\ req[r].checked
    /\ req' = [req EXCEPT ![r] = Idle]
    /\ keys' = keys \ {req[r].key} /\ Overtakes(r)
    /\ UNCHANGED <<row, flow, cli, provenWith>>

-----------------------------------------------------------------------------
(* The command line.                                                       *)

EnablePassword ==
    /\ row # None /\ ~row.passwordEnabled
    /\ row' = [row EXCEPT !.passwordEnabled = TRUE]
    /\ UNCHANGED <<keys, req, flow, cli, provenWith, late>>

ResetPasskeys ==
    /\ cli = "idle" /\ row # None /\ cli' = "resetting" /\ keys' = {}
    /\ UNCHANGED <<row, req, flow, provenWith, late>>

ResetAdmin ==
    /\ cli = "resetting" /\ cli' = "idle" /\ row' = None /\ provenWith' = None
    /\ late' = {r \in Requests : req[r].op # "idle"}
    /\ UNCHANGED <<keys, req, flow>>

-----------------------------------------------------------------------------
Next ==
    \/ Setup \/ EnablePassword \/ ResetPasskeys \/ ResetAdmin
    \/ \E r \in Requests, d \in Patches : PatchRead(r, d)
    \/ \E r \in Requests : KeysCounted(r) \/ PatchWrite(r) \/ UnlinkRead(r) \/ UnlinkWrite(r)
    \/ \E mode \in {"login", "link"} : TelegramStart(mode)
    \/ \E r \in Requests : CallbackRead(r) \/ CallbackEnds(r) \/ \E u \in Users : LinkTelegram(r, u)
    \/ \E k \in Keys : RegisterKey(k) \/ \E r \in Requests : DeleteKeyRead(r, k)
    \/ \E r \in Requests : DeleteKey(r)

Spec == Init /\ [][Next]_vars

-----------------------------------------------------------------------------
TypeOK ==
    /\ row \in Row \cup {None} /\ keys \subseteq Keys
    /\ req \in [Requests -> Request]
    /\ flow \in [mode : {"login", "link"}, app : Apps] \cup {None}
    /\ cli \in {"idle", "resetting"}
    /\ provenWith \in [app : Apps, secret : {c.secret : c \in Clients}] \cup {None} /\ late \subseteq Requests

\* A request that somebody overtook writes now.
OvertakenWrite == \E r \in late : req[r] # Idle /\ req'[r] = Idle

\* The step that takes the last working sign-in method away is a request that
\* was overtaken between its check and its write, or reset-admin: the guard of
\* patchConfig, unlinkTelegram and delete holds for everybody else.
GuardHoldsUnlessOvertaken ==
    [][/\ row # None /\ SignInPossible(row, Cardinality(keys))
       /\ row' # None /\ ~SignInPossible(row', Cardinality(keys'))
       => OvertakenWrite \/ cli' = "resetting"]_vars

\* A linked Telegram account was linked with the client settings stored now
\* ("re-linking proves they work end to end"), unless they were saved during
\* the exchange with Telegram.
LinkIsProven == row # None => (row.telegramUserId # None => provenWith = row.client)
LinkProvenUnlessOvertaken == [][LinkIsProven => (LinkIsProven' \/ OvertakenWrite)]_vars

\* "Invariant: at least one usable method stays on" (auth-config.prisma:8), and
\* "Lockout guard: never leave the owner unable to sign in" (auth-config.service.ts:153),
\* for the methods that let the owner in: passkeys need their Relying Party settings too.
WayIn(r, ks) == r.passwordEnabled \/ (r.passkeyEnabled /\ r.rp /\ ks # {}) \/ TelegramUsable(r)
OwnerCanSignIn ==
    [][/\ row # None /\ WayIn(row, keys) /\ row' # None /\ ~WayIn(row', keys')
       => OvertakenWrite \/ cli' = "resetting"]_vars
=============================================================================
