---------------------------- MODULE Credentials ----------------------------
(***************************************************************************)
(* The credentials of one account (provider-credentials.service.ts and the *)
(* panel's account form): an encrypted blob whose layout depends on the    *)
(* provider's kind, edited by a form that prefills what is not secret,     *)
(* masks what is until the owner reveals it, and sends what is not blank;  *)
(* and, at the same time, by another client that sends single fields.  A   *)
(* value is known by who entered it: it was there, panel, api; "bad" one   *)
(* is a foreign host, or a key that does not parse.                        *)
(***************************************************************************)
EXTENDS Naturals, FiniteSets

CONSTANTS
    Kinds,       \* the kinds of provider checked
    MaxWrites,   \* bound: requests that save the account
    MaxTyped,    \* bound: fields typed into one form of an existing account
    Absent,      \* there is no account yet
    None

VARIABLES
    kind,        \* the provider's kind
    blob,        \* Absent, None, or the account's credentials
    form,        \* None, or the panel's open form
    request,     \* per client: None, or the save under way
    overtaken,   \* clients whose open edit another write passed by; "key": a new key did
    writes

vars == <<kind, blob, form, request, overtaken, writes>>

Blank   == ""
Clients == {"panel", "api"}

----------------------------------------------------------------------------
(* The form's fields (ProviderCredentialFields).                           *)

SelectelForm   == {"accountId", "username", "password", "projectName"}
CloudflareForm == {"accountId", "token"}
BillingForm    == {"baseUrl", "username", "password", "totpSecret"}
FourVpsForm    == {"token", "panelId"}
BranchForm     == {"token", "baseUrl"}
OpenRouterForm == {"token", "useCatalogNames"}
BegetForm      == {"username", "password", "totpSecret", "apiPassword"}
DoubleForm     == {"username", "password", "totpSecret"}
KeyPairForm    == {"token", "secretKey"}

\* The kinds that ask for a token alone.
TokenKinds   == {"netcup", "netlen", "vultr", "linode"}
KeyKinds     == {"hostkey", "netangels", "stormwall", "hostup"}
ConsoleKinds == {"hetzner", "timeweb"}
BareKinds    == TokenKinds \cup KeyKinds \cup ConsoleKinds

Asks(k) ==
    CASE k = "selectel"   -> SelectelForm
      [] k = "cloudflare" -> CloudflareForm
      [] k \in {"hostbill", "billmgr"} -> BillingForm
      [] k = "4vps"       -> FourVpsForm
      [] k \in {"aeza", "vdsina"} -> BranchForm
      [] k = "openrouter" -> OpenRouterForm
      [] k = "beget"      -> BegetForm
      [] k = "doubleservers" -> DoubleForm
      [] k \in {"porkbun", "spaceship"} -> KeyPairForm
      [] k = "manual"     -> {}
      [] OTHER            -> {"token"}

Secrets == {"token", "password", "totpSecret", "apiPassword", "secretKey"}

\* validateAccountCredentials: what a new account must have.
Demands(k) ==
    CASE k \in {"hostbill", "billmgr"} -> {"baseUrl", "username", "password"}
      [] k = "selectel" -> {"accountId", "username", "password"}
      [] k \in {"beget", "doubleservers"} -> {"username", "password"}
      [] k \in {"porkbun", "spaceship"} -> {"token", "secretKey"}
      [] k = "cloudflare" -> {"accountId", "token"}
      [] k \in {"timeweb", "hetzner", "netlen", "manual"} -> {}
      [] OTHER -> {"token"}
Validates(k, value, isNew) ==
    /\ isNew => \A f \in Demands(k) : value[f] # Blank
    /\ k = "hostkey" => value["token"] # "bad"

----------------------------------------------------------------------------
(* The blob (ProviderCredentialsService).                                  *)

\* What the connector of a kind reads (ConnectorFactory.create, *.types.ts) and
\* what it can do without.
Needs(k) ==
    CASE k \in {"hostbill", "billmgr"} -> {"baseUrl", "username", "password"}
      [] k = "selectel" -> {"accountId", "username", "password"}
      [] k \in {"beget", "doubleservers"} -> {"username", "password"}
      [] k = "porkbun"   -> {"apiKey", "secretApiKey"}
      [] k = "spaceship" -> {"apiKey", "apiSecret"}
      [] k = "cloudflare" -> {"accountId", "apiToken"}
      [] k = "yandex"    -> {"keyId", "serviceAccountId", "privateKey"}
      [] k = "manual"    -> {}
      [] OTHER           -> {"token"}
Spare(k) ==
    CASE k \in {"hostbill", "billmgr", "doubleservers"} -> {"totpSecret"}
      [] k = "selectel" -> {"projectName"}
      [] k = "beget"    -> {"totpSecret", "apiPassword"}
      [] k = "4vps"     -> {"panelId"}
      [] k \in {"vdsina", "aeza"} -> {"baseUrl"}
      [] k = "openrouter" -> {"useCatalogNames"}
      [] OTHER          -> {}
Keys(k) == Needs(k) \cup Spare(k)

\* decodeCredentials and its siblings: nothing when there is no blob or its key is
\* another; aeza and openrouter also take the bare key of older versions.
Decode(k, b) ==
    IF b = None \/ b = Absent \/ ~b.readable THEN [x \in Keys(k) |-> Blank]
    ELSE IF k = "openrouter" /\ b.has["useCatalogNames"] = Blank THEN [b.has EXCEPT !["useCatalogNames"] = "yes"]
    ELSE b.has

\* buildCredentials: under which keys a field is stored.
StoredAs(k, f) ==
    CASE k = "cloudflare" /\ f = "token" -> {"apiToken"}
      [] k \in {"porkbun", "spaceship"} /\ f = "token" -> {"apiKey"}
      [] k = "porkbun"   /\ f = "secretKey" -> {"secretApiKey"}
      [] k = "spaceship" /\ f = "secretKey" -> {"apiSecret"}
      [] k = "yandex"    /\ f = "token" -> {"keyId", "serviceAccountId", "privateKey"}
      [] OTHER -> {f}

\* "Merged onto existingEnc so a partial edit keeps the rest."
Merged(k, dto, existing) ==
    [x \in Keys(k) |-> IF \E f \in DOMAIN dto : x \in StoredAs(k, f)
                       THEN dto[CHOOSE f \in DOMAIN dto : x \in StoredAs(k, f)]
                       ELSE Decode(k, existing)[x]]

\* Mutant: half of the credentials will do.
Anything(k, has) == \E x \in Keys(k) : has[x] # Blank
\* The refusals: a required part is missing, the branch is not one of the
\* vendor's, the authorized key does not parse.
Accepts(k, has) ==
    /\ \A x \in Needs(k) : has[x] # Blank
    /\ k \in {"vdsina", "aeza"} => has["baseUrl"] # "bad"
    /\ k = "yandex" => has["privateKey"] # "bad"

\* The blob as written; openrouter's switch is on unless it is switched off.
Encrypted(k, has) ==
    [bare |-> k \in BareKinds, readable |-> TRUE,
     has |-> IF k = "openrouter" /\ has["useCatalogNames"] = Blank
             THEN [has EXCEPT !["useCatalogNames"] = "yes"] ELSE has]

\* Nothing supplied leaves the blob alone.
Built(k, dto, existing) ==
    IF k = "manual" \/ DOMAIN dto = {} THEN [ok |-> TRUE, blob |-> existing]
    ELSE IF Accepts(k, Merged(k, dto, existing)) THEN [ok |-> TRUE, blob |-> Encrypted(k, Merged(k, dto, existing))]
    ELSE [ok |-> FALSE, blob |-> existing]

\* nonSecretHints: the form's prefilled fields.
Hints(k) ==
    CASE k = "selectel" -> {"accountId", "username", "projectName"}
      [] k = "4vps" -> {"panelId"}
      [] k \in {"vdsina", "aeza"} -> {"baseUrl"}
      [] k = "openrouter" -> {"useCatalogNames"}
      [] k \in {"beget", "doubleservers"} -> {"username"}
      [] k = "cloudflare" -> {"accountId"}
      [] k \in {"hostbill", "billmgr"} -> {"baseUrl", "username"}
      [] OTHER -> {}

\* secretPresence: by kind, the flags and the keys each stands for; a token stored
\* bare is taken to be there when the blob is.
Flags(k) ==
    CASE k \in {"openrouter", "aeza", "4vps", "vdsina"} -> [token |-> {"token"}]
      [] k = "cloudflare" -> [token |-> {"apiToken"}]
      [] k = "porkbun"    -> [token |-> {"apiKey"}, secretKey |-> {"secretApiKey"}]
      [] k = "spaceship"  -> [token |-> {"apiKey"}, secretKey |-> {"apiSecret"}]
      [] k = "yandex"     -> [token |-> {"keyId", "serviceAccountId", "privateKey"}]
      [] k = "selectel"   -> [password |-> {"password"}]
      [] k \in {"billmgr", "hostbill", "doubleservers"} -> [password |-> {"password"}, totpSecret |-> {"totpSecret"}]
      [] k = "beget"      -> [password |-> {"password"}, totpSecret |-> {"totpSecret"}, apiPassword |-> {"apiPassword"}]
      [] OTHER            -> [token |-> {}]
SecretPresence(k, b) ==
    IF k = "manual" \/ b = None \/ b = Absent THEN {}
    ELSE {f \in DOMAIN Flags(k) : \A x \in Flags(k)[f] : Decode(k, b)[x] # Blank}

\* reveal: by kind, the secrets and the keys each is read from.
Reveals(k) ==
    CASE k = "cloudflare" -> [token |-> {"apiToken"}]
      [] k = "porkbun"    -> [token |-> {"apiKey"}, secretKey |-> {"secretApiKey"}]
      [] k = "spaceship"  -> [token |-> {"apiKey"}, secretKey |-> {"apiSecret"}]
      [] k = "yandex"     -> [token |-> {"keyId", "serviceAccountId", "privateKey"}]
      [] k = "selectel"   -> [password |-> {"password"}]
      [] k \in {"billmgr", "hostbill", "doubleservers"} -> [password |-> {"password"}, totpSecret |-> {"totpSecret"}]
      [] k = "beget"      -> [password |-> {"password"}, totpSecret |-> {"totpSecret"}, apiPassword |-> {"apiPassword"}]
      [] OTHER            -> [token |-> {"token"}]
Revealed(k, b) ==
    IF k = "manual" \/ b = None \/ b = Absent THEN [f \in {} |-> Blank]
    ELSE LET there == {f \in DOMAIN Reveals(k) : \A x \in Reveals(k)[f] : Decode(k, b)[x] # Blank}
         IN  [f \in there |-> Decode(k, b)[CHOOSE x \in Reveals(k)[f] : TRUE]]

----------------------------------------------------------------------------
(* States the program can be in: no account yet, one without credentials,  *)
(* one with or without the optional ones, one of an older version.         *)

Old(x) == IF x = "useCatalogNames" THEN "yes" ELSE "old"
Stored(k, there, bare) ==
    [bare |-> bare, readable |-> TRUE, has |-> [x \in Keys(k) |-> IF x \in there THEN Old(x) ELSE Blank]]

Init ==
    /\ kind \in Kinds
    /\ blob \in {Absent, None}
        \cup (IF kind = "manual" THEN {}
              ELSE {Stored(kind, Needs(kind) \cup s, kind \in BareKinds) : s \in SUBSET Spare(kind)}
                   \cup (IF kind \in {"aeza", "openrouter"} THEN {Stored(kind, Needs(kind), TRUE)} ELSE {}))
    /\ form = None
    /\ request = [c \in Clients |-> None]
    /\ overtaken = {}
    /\ writes = 0

----------------------------------------------------------------------------
(* The form (ProviderAccountModal, ProviderFormModal, SecretInput).        *)

Prefilled(k, b) ==
    [f \in Asks(k) |-> IF f = "useCatalogNames" /\ Decode(k, b)[f] = Blank THEN "yes"
                       ELSE IF f \in Hints(k) THEN Decode(k, b)[f] ELSE Blank]

\* Mounted anew with each opening; for an account that is not there yet, empty.
OpenForm ==
    /\ form = None /\ request["panel"] = None /\ writes < MaxWrites
    /\ form' = [new |-> blob = Absent, value |-> Prefilled(kind, blob), stored |-> SecretPresence(kind, blob),
                seen |-> {}, told |-> None, shot |-> {}, typed |-> {}]
    /\ overtaken' = overtaken \ {"panel", "key"}
    /\ UNCHANGED <<kind, blob, request, writes>>

CloseForm ==
    /\ form # None
    /\ form' = None
    /\ UNCHANGED <<kind, blob, request, overtaken, writes>>

\* A list of providers fetched meanwhile brings the flags up to date.
FlagsRefetched ==
    /\ form # None
    /\ form' = [form EXCEPT !.stored = SecretPresence(kind, blob)]
    /\ UNCHANGED <<kind, blob, request, overtaken, writes>>

\* A stored secret that is blank and not made visible is masked and read-only.
Masked(f) == f \in Secrets /\ f \in form.stored /\ f \notin form.seen /\ form.value[f] = Blank

\* What the owner types; a switch is flipped.
Typable(k, f) ==
    IF f = "useCatalogNames" THEN {"yes", "no"}
    ELSE {Blank, "panel"} \cup (IF <<k, f>> \in {<<"vdsina", "baseUrl">>, <<"aeza", "baseUrl">>, <<"yandex", "token">>, <<"hostkey", "token">>} THEN {"bad"} ELSE {})

TypeInto(f, v) ==
    /\ form # None /\ form.value[f] # v
    /\ form.new \/ Cardinality(form.typed \cup {f}) <= MaxTyped
    \* netcup's authorization hands over a token whether it is masked or not.
    /\ ~Masked(f) \/ (kind = "netcup" /\ v = "panel")
    /\ form' = [form EXCEPT !.value[f] = v, !.typed = @ \cup {f}]
    /\ UNCHANGED <<kind, blob, request, overtaken, writes>>

Told(told, f) == IF f \in DOMAIN told THEN told[f] ELSE Blank
\* The eye: the first reveal asks the server for all secrets, later ones take them
\* from that answer.  The field keeps a snapshot of what it revealed; a reveal that
\* fails shows an empty field.
Reveal(f, ok) ==
    /\ form # None /\ Masked(f)
    /\ LET told == IF form.told = None THEN Revealed(kind, blob) ELSE form.told
       IN  form' = IF form.told = None /\ ~ok THEN [form EXCEPT !.seen = @ \cup {f}]
                   ELSE [form EXCEPT !.told = told, !.seen = @ \cup {f}, !.shot = @ \cup {f},
                                     !.value[f] = Told(told, f)]
    /\ UNCHANGED <<kind, blob, request, overtaken, writes>>

\* The eye of a field that is not masked makes its text visible.
Look(f) ==
    /\ form # None /\ f \in Secrets /\ f \notin form.seen /\ ~Masked(f)
    /\ form' = [form EXCEPT !.seen = @ \cup {f}]
    /\ UNCHANGED <<kind, blob, request, overtaken, writes>>

\* Hiding, by the eye or after 45 seconds, forgets a secret revealed and unchanged,
\* if the flags still say that it is stored.
Forgets(f) == f \in form.stored \cap form.shot /\ form.value[f] = Told(form.told, f)
\* Mutant: what was revealed stays in the form.
Uncovered(f) == form.value[f]
Covered(f)   == IF Forgets(f) THEN Blank ELSE form.value[f]
Hide(f) ==
    /\ form # None /\ f \in form.seen
    /\ form' = [form EXCEPT !.seen = @ \ {f}, !.value[f] = Covered(f), !.shot = IF Forgets(f) THEN @ \ {f} ELSE @]
    /\ UNCHANGED <<kind, blob, request, overtaken, writes>>

\* buildCredentials of the form: blank fields are left out.
Sent(value) == [f \in {g \in DOMAIN value : value[g] # Blank} |-> value[f]]

\* The fields that hold what the form showed the owner: prefilled, or revealed and
\* not forgotten since.
Shown == Hints(kind) \cup form.shot

Submit ==
    /\ form # None /\ writes < MaxWrites /\ request["panel"] = None
    /\ Validates(kind, form.value, form.new)
    /\ request' = [request EXCEPT !["panel"] = [dto |-> Sent(form.value), new |-> form.new, read |-> FALSE, existing |-> None,
                                                typed |-> form.typed, shown |-> Shown]]
    /\ form' = None
    /\ writes' = writes + 1
    /\ UNCHANGED <<kind, blob, overtaken>>

----------------------------------------------------------------------------
(* The server.                                                             *)

\* Another client saves one field of the account.
Patch(f, v) ==
    /\ request["api"] = None /\ blob # Absent /\ writes < MaxWrites
    /\ request' = [request EXCEPT !["api"] = [dto |-> [g \in {f} |-> v], new |-> FALSE, read |-> FALSE, existing |-> None,
                                              typed |-> {f}, shown |-> {}]]
    /\ overtaken' = overtaken \ {"api"}
    /\ writes' = writes + 1
    /\ UNCHANGED <<kind, blob, form>>

Others(c) == {d \in Clients \ {c} : (d = "panel" /\ form # None) \/ request[d] # None}

\* ProvidersService.create and .addAccount: nothing to merge with; refused credentials
\* leave no account behind.
Create ==
    /\ request["panel"] # None /\ request["panel"].new
    /\ LET built == Built(kind, request["panel"].dto, None)
       IN  blob' = IF built.ok THEN built.blob ELSE blob
    /\ request' = [request EXCEPT !["panel"] = None]
    /\ UNCHANGED <<kind, form, overtaken, writes>>

\* ProviderAccountsService.update reads the account ...
FindAccount(c) ==
    /\ request[c] # None /\ ~request[c].new /\ ~request[c].read
    /\ request' = [request EXCEPT ![c].read = TRUE, ![c].existing = blob]
    /\ UNCHANGED <<kind, blob, form, overtaken, writes>>

\* ... and writes what it built, or is refused.
Update(c) ==
    /\ request[c] # None /\ request[c].read
    /\ LET built == Built(kind, request[c].dto, request[c].existing)
           wrote == kind # "manual" /\ DOMAIN request[c].dto # {} /\ built.ok
       IN  /\ blob' = IF wrote THEN built.blob ELSE blob
           /\ overtaken' = IF wrote THEN overtaken \cup Others(c) ELSE overtaken
    /\ request' = [request EXCEPT ![c] = None]
    /\ UNCHANGED <<kind, form, writes>>

\* The process is started with another ENCRYPTION_KEY: the blob cannot be read any
\* more, and the requests under way are lost.
Rotate ==
    /\ blob \notin {Absent, None} /\ blob.readable
    /\ blob' = [blob EXCEPT !.readable = FALSE]
    /\ request' = [c \in Clients |-> None]
    /\ overtaken' = overtaken \cup {"key"}
    /\ UNCHANGED <<kind, form, writes>>

Fields == Asks(kind)
Next ==
    \/ OpenForm \/ CloseForm \/ FlagsRefetched \/ Submit \/ Create \/ Rotate
    \/ \E f \in Fields : Look(f) \/ Hide(f) \/ (\E ok \in BOOLEAN : Reveal(f, ok))
                         \/ (\E v \in Typable(kind, f) : TypeInto(f, v))
                         \/ (\E v \in {"api", "bad", "no"} :
                                /\ v = "bad" => "bad" \in Typable(kind, f)
                                /\ (v = "no") = (f = "useCatalogNames")
                                /\ Patch(f, v))
    \/ \E c \in Clients : FindAccount(c) \/ Update(c)

Spec == Init /\ [][Next]_vars

----------------------------------------------------------------------------
\* A save changes the credentials its author entered and keeps the rest, as
\* buildCredentials promises of a partial edit: prefilled fields travel back as they
\* were, masked secrets are not touched and revealed ones not changed.  A field the
\* form showed may go back to what it showed when another client wrote meanwhile; what
\* it did not show is lost only to a write between the server's read and its write.
EditKeepsRestUnlessOvertaken ==
    [][\A c \in Clients :
        /\ request[c] # None /\ request[c].read /\ request'[c] = None
        /\ blob \notin {Absent, None} /\ blob.readable /\ blob'.readable
        /\ request[c].existing = blob /\ "key" \notin overtaken
        => \A f \in Asks(kind) \ request[c].typed : \A x \in StoredAs(kind, f) :
            ~(c \in overtaken /\ f \in request[c].shown) => Decode(kind, blob')[x] = Decode(kind, blob)[x]]_vars

\* Stored credentials that can be read are all that the kind's connector needs, for one
\* of the vendor's own hosts; and the form's flags name the secrets a reveal returns:
\* the five tables by kind (form, blob, hints, flags, reveal) agree.
StoredCredentialsWork ==
    blob \notin {Absent, None} /\ blob.readable =>
        /\ \A x \in Needs(kind) : Decode(kind, blob)[x] # Blank
        /\ kind \in {"vdsina", "aeza"} => blob.has["baseUrl"] # "bad"
        /\ SecretPresence(kind, blob) = DOMAIN Revealed(kind, blob)
        /\ SecretPresence(kind, blob) \subseteq Asks(kind)
        /\ Hints(kind) \cup (Asks(kind) \cap Secrets) = Asks(kind)
=============================================================================
