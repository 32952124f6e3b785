----------------------------- MODULE Connectors -----------------------------
(***************************************************************************)
(* One sync's conversation with a provider: fetchAccount, fetchServices    *)
(* and fetchPayments of the account's connector, each retried once, while  *)
(* requests fail, sessions expire, lists shift between two pages, page     *)
(* counts lie and the sync-wide timer aborts.                              *)
(***************************************************************************)
EXTENDS Integers, Sequences, FiniteSets, SequencesExt, ConnectorScripts

CONSTANTS Kinds,            \* the connectors looked at
          MaxRows,          \* rows of a provider's list
          PageSize,         \* rows of a page
          MAX_PAGES,        \* the connectors' safety cap (50 in the code)
          PageLimit,        \* model bound on the pages of an uncapped list
          FETCH_ATTEMPTS    \* 2 in the code

ASSUME ConnectorsAssumption ==
    /\ Kinds \subseteq DOMAIN Catalogue
    /\ MaxRows \in Nat /\ PageSize \in Nat \ {0}
    /\ MAX_PAGES \in Nat \ {0} /\ PageLimit > MAX_PAGES /\ FETCH_ATTEMPTS \in Nat \ {0}

VARIABLES
    kind,       \* the connector
    stock,      \* what the provider holds: rows, ended, whether S3 is paid for, whether pages never end
    totp,       \* whether a TOTP secret is stored
    phase,      \* "account", "services", "payments", then "synced" or "failed"
    attempt,    \* withRetry's attempt
    step,       \* index of the request in the method's script
    page, got,  \* pages read of the current list and its rows so far
    shift,      \* how far the current list has moved under the reader
    out,        \* what the method has collected: the request, the place in its rows, the external id
    skipped,    \* requests that failed, or were not made, without failing the method
    recorded,   \* storage regions whose failure was put aside
    excused,    \* lists cut by the cap or read while they moved
    session,    \* "none", "challenged", "gated", "live", "basic", "expired"
    renewed,    \* the current request has been repeated after a 401
    aborted,    \* controller.signal.aborted
    missing,    \* lists the accepted fetchServices left rows of behind
    hushed      \* lists of fetchServices passed over after the abort

world  == <<kind, stock, totp>>
cursor == <<step, page, got, shift, out, skipped, recorded, excused, renewed>>
vars   == <<world, phase, attempt, cursor, session, aborted, missing, hushed>>

Methods  == {"account", "services", "payments"}
Auth     == Catalogue[kind].auth
Script   == Catalogue[kind][phase]
Running  == phase \in Methods /\ step <= Len(Script)
Current  == Script[step]
Lists(k) == {i \in 1..Len(Catalogue[k].services) : Catalogue[k].services[i].makes # Nothing}

Blank == /\ step' = 1 /\ page' = 0 /\ got' = <<>> /\ shift' = 0 /\ out' = {}
         /\ skipped' = {} /\ recorded' = {} /\ excused' = {} /\ renewed' = FALSE

Stocks == [rows : 0..MaxRows, ended : {{}, {1}}, paid : BOOLEAN, endless : BOOLEAN]

Init ==
    /\ kind \in Kinds
    /\ stock \in {s \in Stocks : /\ s.ended \subseteq 1..s.rows
                                 /\ s.endless => s.rows > 0
                                 /\ s.paid => kind = "selectel"}
    /\ totp \in (IF Catalogue[kind].auth \in {"totp", "jwt", "session"} THEN BOOLEAN ELSE {FALSE})
    /\ phase = "account" /\ attempt = 1
    /\ step = 1 /\ page = 0 /\ got = <<>> /\ shift = 0 /\ out = {}
    /\ skipped = {} /\ recorded = {} /\ excused = {} /\ renewed = FALSE
    /\ session = "none" /\ aborted = FALSE /\ missing = {} /\ hushed = {}

----------------------------------------------------------------------------
(* The sync around the connector. *)

Following == [account |-> "services", services |-> "payments", payments |-> "synced"]

\* withRetry, and what the sync does with a method that failed for good: a
\* payment import is skipped, the others fail the sync.
ThrowAgain ==
    attempt' = attempt /\ Blank /\ UNCHANGED <<phase, missing>>
Throw ==
    IF attempt < FETCH_ATTEMPTS /\ ~aborted
    THEN attempt' = attempt + 1 /\ Blank /\ UNCHANGED <<phase, missing>>
    ELSE /\ attempt' = 1 /\ Blank
         /\ phase' = IF phase = "payments" THEN "synced" ELSE "failed"
         /\ UNCHANGED missing

\* setTimeout(() => controller.abort(), SYNC_TIMEOUT_MS)
Timeout ==
    /\ phase \in Methods /\ ~aborted
    /\ aborted' = TRUE
    /\ UNCHANGED <<world, phase, attempt, cursor, session, missing, hushed>>

----------------------------------------------------------------------------
(* Signing in. *)

SignedIn == Auth = "key" \/ session \in {"live", "basic", "expired"}
Stay     == UNCHANGED <<world, phase, attempt, cursor, aborted, missing, hushed>>
Refused  == session' = "none" /\ Throw /\ UNCHANGED <<world, aborted, hushed>>

\* Some logins answer with a second-factor challenge, some are closed to API
\* clients while another way in stays open.
Challenges == {"totp", "jwt", "session"}
Gates      == {"jwt", "session"}

\* authToken, authenticate, ensureToken, authHeaders, ensureAuth
Login ==
    /\ Running /\ ~SignedIn /\ session = "none"
    /\ \/ ~aborted /\ session' = "live" /\ Stay
       \/ ~aborted /\ Auth \in Challenges /\ session' = "challenged" /\ Stay
       \/ ~aborted /\ Auth \in Gates /\ session' = "gated" /\ Stay
       \/ Refused

\* solveMfa, confirmTotp: only with a stored secret.
Confirm ==
    /\ session = "challenged"
    /\ \/ ~aborted /\ totp /\ session' = "live" /\ Stay
       \/ Refused

\* basicFallback, authinfoFallback: a probe decides.
Fallback ==
    /\ session = "gated"
    /\ \/ ~aborted /\ session' = "basic" /\ Stay
       \/ Refused

\* The provider forgets the session.
Expire ==
    /\ session = "live" /\ phase \in Methods
    /\ session' = "expired" /\ Stay

\* get: a 401 drops the token and the request is made once more (NetAngels);
\* iamToken mints a new one whenever a list is begun (Yandex).
Renew ==
    /\ Running /\ session = "expired"
    /\ \/ Auth = "renewable" /\ ~renewed /\ renewed' = TRUE
       \/ Auth = "minted" /\ page = 0 /\ UNCHANGED renewed
    /\ session' = "none"
    /\ UNCHANGED <<world, phase, attempt, step, page, got, shift, out, skipped, recorded, excused, aborted, missing, hushed>>

----------------------------------------------------------------------------
(* Requests. *)

\* The request is not made when it depends on one that gave nothing.
Made(r) == /\ r.needs \cap skipped = {}
           /\ "rows" \in r.needs => out # {} \/ recorded # {}

Ready == Running /\ SignedIn /\ Made(Current)

Total       == stock.rows + shift
RowAt(p)    == p - shift
PageRows(r) == IF r.paging \in {"single", "once"} THEN [i \in 1..Total |-> RowAt(i)]
               ELSE LET from == page * PageSize
                    IN  [i \in 1..(IF Total > from THEN IF Total - from < PageSize THEN Total - from ELSE PageSize
                                   ELSE 0) |-> RowAt(from + i)]

\* Whether another page is asked for, as the answer seems to the connector.
\* A provider whose pages never end reports a next page for ever.
More(r, batch, all) ==
    CASE r.paging \in {"single", "once"} -> FALSE
      [] r.paging = "short"        -> stock.endless \/ Len(batch) = PageSize
      [] r.paging = "offset"       -> batch # <<>> /\ (stock.endless \/ Len(all) < Total)
      [] r.paging = "shortOrTotal" -> Len(batch) = PageSize /\ (stock.endless \/ Len(all) < Total)
      [] r.paging = "strict"       -> Len(all) # Total
      [] r.paging = "dedupe"       -> batch # <<>> /\ (stock.endless \/ Len(all) < Total)
      [] OTHER                     -> stock.endless \/ Len(all) < Total

\* The strict reader rejects repeats, short lists and lists past the cap.
Inconsistent(r, batch, all) ==
    /\ r.paging = "strict"
    /\ \/ ~IsInjective(all)
       \/ More(r, batch, all) /\ (batch = <<>> \/ Len(all) > Total \/ page + 1 >= MAX_PAGES)

Day(n) == n \div 2
Id(r, n) == IF r.makes.ns = Uuid THEN <<r.name, n>>
            ELSE <<r.makes.ns, IF r.makes.byDay THEN Day(n) ELSE n>>

Known     == {x.id : x \in out}
Folded(r) == r.paging \in {"once", "dedupe"} \/ r.makes.byDay

\* mapped rows, by their places in the list; a fold keeps one entry per
\* external id, its place is of no account.
Entries(r, rows) ==
    LET live == {k \in DOMAIN rows : ~(r.makes.drops /\ rows[k] \in stock.ended)}
    IN  IF Folded(r) THEN {[from |-> step, at |-> 0, id |-> d] : d \in {Id(r, rows[k]) : k \in live} \ Known}
        ELSE {[from |-> step, at |-> k, id |-> Id(r, rows[k])] : k \in live}

NextStep(r, rows, noted) ==
    /\ step' = step + 1 /\ page' = 0 /\ got' = <<>> /\ shift' = 0 /\ renewed' = FALSE
    /\ out' = IF r.makes = Nothing THEN out ELSE out \cup Entries(r, rows)
    /\ excused' = excused \cup noted
    /\ UNCHANGED <<world, phase, attempt, aborted, missing, session>>

\* A page arrives.  A list without a cap goes on as long as the provider
\* says so; past PageLimit the model repeats its last page.
Answer ==
    /\ Ready /\ ~aborted /\ session # "expired"
    /\ LET r     == Current
           batch == PageRows(r)
           all   == got \o batch
           cap   == r.capped /\ page + 1 >= MAX_PAGES
           torn  == IF shift # 0 \/ (cap /\ More(r, batch, all)) THEN {step} ELSE {}
       IN  \/ /\ Inconsistent(r, batch, all)
              /\ Throw /\ UNCHANGED <<world, session, aborted, hushed>>
           \/ /\ ~Inconsistent(r, batch, all)
              /\ More(r, batch, all) /\ ~cap
              /\ IF page + 1 < PageLimit THEN page' = page + 1 /\ got' = all ELSE UNCHANGED <<page, got>>
              /\ renewed' = FALSE
              /\ UNCHANGED <<world, phase, attempt, step, shift, out, skipped, recorded, excused, session, aborted, missing, hushed>>
           \/ /\ ~Inconsistent(r, batch, all)
              /\ ~More(r, batch, all) \/ cap
              /\ NextStep(r, all, torn) /\ UNCHANGED <<skipped, recorded, hushed>>

\* What a failed request does to its method; pages read before are lost.
Fails(r, denied) ==
    CASE r.fails = "skip"                              -> "skip"
      [] r.fails = "skipUnlessAborted"                 -> IF aborted THEN "throw" ELSE "skip"
      [] r.fails \in {"denied", "recorded"} /\ denied  -> "skip"
      [] r.fails = "recorded" /\ ~denied               -> "record"
      [] OTHER                                         -> "throw"

Hush == hushed' = IF aborted /\ phase = "services" THEN hushed \cup {step} ELSE hushed

\* A request fails: an HTTP error, a refused permission (403/404), a rejected
\* session, a response that does not parse, or the abort.
Fail ==
    /\ Ready
    /\ \E denied \in BOOLEAN :
        /\ aborted \/ session = "expired" => ~denied
        /\ LET how == Fails(Current, denied)
           IN  \/ how = "throw" /\ Throw /\ UNCHANGED <<world, session, aborted, hushed>>
               \/ /\ how \in {"skip", "record"}
                  /\ skipped' = IF how = "skip" THEN skipped \cup {Current.name} ELSE skipped
                  /\ recorded' = IF how = "record" THEN recorded \cup {Current.name} ELSE recorded
                  /\ Hush /\ NextStep(Current, <<>>, {})

\* A request that is not made leaves what it would have listed unread.
PassOver ==
    /\ Running /\ SignedIn /\ ~Made(Current)
    /\ skipped' = skipped \cup {Current.name} /\ UNCHANGED recorded
    /\ Hush /\ NextStep(Current, <<>>, {})

\* The provider adds a row before, or removes one of, those already read.
Move ==
    /\ Running /\ page > 0 /\ shift = 0
    /\ Current.paging \notin {"single", "once"}
    /\ shift' \in {1} \cup (IF stock.rows > 0 THEN {-1} ELSE {})
    /\ UNCHANGED <<world, phase, attempt, step, page, got, out, skipped, recorded, excused, renewed, session, aborted, missing, hushed>>

\* The storage regions that failed are weighed against what is paid for.
Blocked == recorded # {} /\ ("consumption" \in skipped \/ stock.paid)

\* The rows of request i that a complete answer contains.
Owed(i) == LET r == Catalogue[kind].services[i]
           IN  {Id(r, n) : n \in 1..stock.rows \ (IF r.makes.drops THEN stock.ended ELSE {})}
Left    == {i \in Lists(kind) : ~(Owed(i) \subseteq Known)}

\* The method returns.
Return ==
    /\ phase \in Methods /\ step > Len(Script)
    /\ IF phase = "services" /\ Blocked THEN Throw
       ELSE /\ phase' = Following[phase]
            /\ attempt' = 1 /\ Blank
            /\ missing' = IF phase = "services" THEN Left \ excused ELSE missing
    /\ UNCHANGED <<world, session, aborted, hushed>>

Done == phase \in {"synced", "failed"} /\ UNCHANGED vars

Next == \/ Timeout \/ Login \/ Confirm \/ Fallback \/ Expire \/ Renew
        \/ Answer \/ Fail \/ PassOver \/ Move \/ Return \/ Done

\* An abort rejects whatever is pending; before it, nothing obliges a
\* provider to answer.
Pending == Login \/ Confirm \/ Fallback \/ Renew \/ Fail \/ PassOver \/ Return

Spec == Init /\ [][Next]_vars /\ WF_vars(Timeout) /\ WF_vars(aborted /\ Pending)

----------------------------------------------------------------------------
(* Properties. *)

\* Inventories the code reads in parts (item funcs, regions, folders) or with
\* optional sections, where it means to go on without one.
InParts == {"billmgr", "selectel", "yandex", "hostup"}

\* The sync switches off every service an accepted fetchServices does not
\* contain.  Whatever fails, expires or is refused on the way, a list that is
\* accepted contains every row the provider holds, unless the cap cut it, it
\* moved under the reader, or the inventory is one the code reads in parts.
CompleteOrThrown == missing # {} => kind \in InParts

\* External ids are what the sync matches rows by: two ledgers, two products
\* or a row read twice must not share one within what a method collects,
\* unless the list moved and its reader does not look for repeats.
IdsDistinct ==
    \A x, y \in out : x # y /\ x.id = y.id => x.from = y.from /\ x.from \in excused

\* A price keeps its rate: the period a term is read as, with the price
\* multiplied on the way, costs the same per hour as the term itself.  The one
\* exception is Hostkey, which bills half a year as a quarter at full price.
RateKept ==
    phase = "services" =>
        \A x \in out :
            LET terms == Script[x.from].makes.terms
            IN  \A t \in DOMAIN terms :
                    \/ terms[t].num * TermHours[t] = terms[t].den * PeriodHours[terms[t].period]
                    \/ kind = "hostkey" /\ t = "halfyear"

\* A provider that never answers, or whose pages never end, does not keep the
\* sync from ending.
FetchEnds == <>(phase \in {"synced", "failed"})

\* A timed-out sync fails ("The sync-wide timeout must still fail the sync"):
\* it does not pass for a provider that holds less than it does.
TimeoutFails == missing \cap hushed = {}
=============================================================================
