----------------------------- MODULE ApiAccess -----------------------------
(***************************************************************************)
(* API tokens, the guard in front of every route, and the MCP endpoint,    *)
(* whose calls go back through the guard as requests of their own, with    *)
(* the same token.  Tokens are created and revoked meanwhile.              *)
(***************************************************************************)
EXTENDS Naturals

CONSTANTS Tokens, Requests, None

VARIABLES
    token,      \* api_tokens: the scope of each token, None for one that does not exist
    request     \* requests past the guard: the operation, the token, the scope found

vars == <<token, request>>

Scopes == {"read", "full"}

\* The catalogue.
ReadOps == {"analytics.summary", "analytics.forecast", "providers.list", "providers.get", "accounts.syncRuns",
            "accounts.balanceHistory", "accounts.spend", "projects.list", "projects.stats", "services.list",
            "payments.list", "rates.list", "settings.get"}
WriteOps == {"providers.create", "providers.update", "providers.addAccount", "providers.sync", "providers.syncAll",
             "accounts.update", "accounts.sync", "projects.create", "projects.update", "projects.moveAll",
             "projects.empty", "services.create", "services.update", "payments.create", "rates.set",
             "rates.refresh", "rates.backfill", "notifications.check", "notifications.test"}
DestructiveOps == {"services.delete", "payments.delete", "projects.delete"}
Operations == ReadOps \cup WriteOps \cup DestructiveOps
Patching   == {"providers.update", "accounts.update", "projects.update", "services.update"}

Access(op) == IF op \in ReadOps THEN "read" ELSE IF op \in WriteOps THEN "write" ELSE "destructive"
Method(op) == IF op \in ReadOps THEN "GET" ELSE IF op \in DestructiveOps THEN "DELETE"
              ELSE IF op \in Patching THEN "PATCH" ELSE "POST"

\* Routes outside the catalogue: the MCP endpoint itself, token management and
\* security settings (session only, with a GET among them).
Mcp         == [method |-> "POST", sessionOnly |-> FALSE, allowReadOnly |-> TRUE]
Reveal      == [method |-> "GET", sessionOnly |-> TRUE, allowReadOnly |-> FALSE]
RouteOf(op) == IF op = "mcp" THEN Mcp ELSE IF op = "accounts.reveal" THEN Reveal
               ELSE [method |-> Method(op), sessionOnly |-> FALSE, allowReadOnly |-> FALSE]

\* Mutant: tokens of any scope may use every method.
GuardAllowsAny(scope, route) == scope # None /\ ~route.sessionOnly
\* canActivate, for a request with a bearer token of that scope (None: unknown).
GuardAllows(scope, route) ==
    /\ scope # None /\ ~route.sessionOnly
    /\ scope = "read" => route.method \in {"GET", "HEAD"} \/ route.allowReadOnly

\* McpCatalog.allows.
Allows(op, scope) == scope = "full" \/ Access(op) = "read"

Idle == [op |-> "idle"]
Init ==
    /\ token = [t \in Tokens |-> None]
    /\ request = [r \in Requests |-> Idle]

CreateToken(t, scope) ==
    /\ token[t] = None /\ \A r \in Requests : request[r] # Idle => request[r].token # t
    /\ token' = [token EXCEPT ![t] = scope]
    /\ UNCHANGED request

RemoveToken(t) ==
    /\ token[t] # None /\ token' = [token EXCEPT ![t] = None]
    /\ UNCHANGED request

\* A request with token t arrives and passes the guard.
Guarded(r, t, op) ==
    /\ request[r] = Idle /\ GuardAllows(token[t], RouteOf(op))
    /\ request' = [request EXCEPT ![r] = [op |-> op, token |-> t, scope |-> token[t]]]
    /\ UNCHANGED token

\* The handler of an operation runs; an MCP request may only list or describe.
Handle(r) ==
    /\ request[r] # Idle
    /\ request' = [request EXCEPT ![r] = Idle]
    /\ UNCHANGED token

\* call_operation: refused by the catalogue, or sent through the guard again as
\* request q, which looks the token up once more.
CallOperation(r, q, op) ==
    /\ request[r].op = "mcp" /\ request[q] = Idle /\ r # q
    /\ LET asked == request[r] IN
       request' = [request EXCEPT ![r] = Idle,
                     ![q] = IF Allows(op, asked.scope) /\ GuardAllows(token[asked.token], RouteOf(op))
                            THEN [op |-> op, token |-> asked.token, scope |-> token[asked.token]] ELSE Idle]
    /\ UNCHANGED token

Next ==
    \/ \E t \in Tokens : RemoveToken(t) \/ \E scope \in Scopes : CreateToken(t, scope)
    \/ \E r \in Requests, t \in Tokens, op \in Operations \cup {"mcp", "accounts.reveal"} : Guarded(r, t, op)
    \/ \E r \in Requests : Handle(r)
    \/ \E r, q \in Requests, op \in Operations : CallOperation(r, q, op)

Spec == Init /\ [][Next]_vars

\* No handler runs beyond its token: a read-only token changes nothing, called
\* directly or through MCP (whose POST it may use), no token reaches a session-only
\* route, and what the catalogue lists to a token is what the guard lets it do.
ScopeRespected ==
    /\ \A r \in Requests : request[r] # Idle /\ request[r].op # "mcp" =>
           /\ request[r].op \in Operations
           /\ request[r].scope = "read" => Access(request[r].op) = "read"
    /\ \A r \in Requests : request[r].op = "mcp" =>
           \A op \in Operations : Allows(op, request[r].scope) <=> GuardAllows(request[r].scope, RouteOf(op))
=============================================================================
