---------------------------- MODULE Access_proofs ---------------------------
(***************************************************************************)
(* Proofs about the four parts of Access: the lockout guard and the        *)
(* Telegram link of SignIn, the cookies of Sessions, the ceremonies of     *)
(* Ceremony and the token scopes of ApiAccess.                             *)
(***************************************************************************)
EXTENDS Access, FiniteSetTheorems, TLAPS

-----------------------------------------------------------------------------
(* SignIn.                                                                 *)

\* The row request q would leave behind if it wrote now.
Would(q) == IF q.op = "patch" THEN Merged(q.dto, q.changed, row) ELSE IF q.op = "unlink" THEN Unlinked(row) ELSE row
Guarded == {"patch", "unlink", "delete"}

\* What request q has checked holds of the row and the passkeys there are.
Stands(q) == SignInPossible(Would(q), IF q.checked THEN CountAfter(q) ELSE 1)

\* While no reset is under way, what a request nobody has overtaken has checked
\* still holds of the row and the passkeys there are now.
ChecksStand ==
    cli = "idle" /\ row # None =>
        \A r \in Requests \ late : req[r].op \in Guarded => Stands(req[r])

\* What a request nobody has overtaken has read of the client settings is still
\* stored.
ReadingsStand ==
    row # None =>
        \A r \in Requests \ late :
            /\ req[r].op = "patch" => req[r].changed = CredsChanged(req[r].dto, row)
            /\ req[r].op = "exchange" => req[r].client = row.client

\* Everything in flight across a reset of the admin row has been overtaken by it.
ResetOvertakes == row = None => \A r \in Requests \ late : req[r] = Idle

SignInInv == TypeOK /\ ChecksStand /\ ReadingsStand /\ ResetOvertakes

-----------------------------------------------------------------------------
(* Sessions.                                                               *)

SessionType ==
    /\ stored \in Secrets \cup {None} /\ cached \in Secrets \cup {None}
    /\ sessionCall \in [Requests -> {S!Idle} \cup [op : {"setup", "sign", "verify"}, secret : Secrets]]
    /\ cookies \subseteq Secrets /\ mixed \in BOOLEAN

\* Unless a call held a secret across a reset: cookies belong to the row there
\* is, and once there is one the cache is not behind.
CookiesCurrent ==
    ~mixed => /\ \A s \in cookies : s = stored
              /\ cookies # {} => cached \in {None, stored}

SessionInv == SessionType /\ CookiesCurrent

-----------------------------------------------------------------------------
(* Ceremony.                                                               *)

CeremonyType ==
    /\ store \in [C!Kinds -> Challenges \cup {None}]
    /\ answers \subseteq [kind : C!Kinds, challenge : Challenges, counter : Nat]
    /\ signs \in Nat /\ counter \in Nat /\ best \in Nat
    /\ registered \in BOOLEAN /\ raced \in BOOLEAN
    /\ call \in [Requests -> {C!Idle} \cup [op : {"verified"}, answer : answers, counter : Nat]]
    /\ accepted \subseteq answers

Open(a)    == store[a.kind] = a.challenge
Active(c)  == call[c] # C!Idle
Older(a, b) == a.counter < b.counter \/ b.counter = 0

\* A challenge is drawn once, and an open one has been answered.
DrawnOnce ==
    /\ \A a, b \in answers : a.challenge = b.challenge => a = b
    /\ \A k \in C!Kinds : store[k] # None => \E a \in answers : a.kind = k /\ a.challenge = store[k]

\* An answer is open, under verification or accepted: one of the three, and
\* under one verification.
InOnePlace ==
    /\ \A a \in accepted : ~Open(a)
    /\ \A c \in Requests : Active(c) => call[c].answer \notin accepted /\ ~Open(call[c].answer)
    /\ \A c, d \in Requests : Active(c) /\ Active(d) /\ call[c].answer = call[d].answer => c = d

\* The authenticator counts up from every answer it has signed, or not at all;
\* of its kind the open answer is the newest.
CountsUp ==
    /\ \A a \in answers : IF signs = 0 THEN a.counter = 0 ELSE a.counter \in 1..(signs - 1)
    /\ \A a, b \in answers : Open(b) /\ a.kind = b.kind /\ a # b => Older(a, b)

\* What is recorded comes from answers accepted.
RecordsAccepted ==
    /\ counter = 0 \/ \E a \in accepted : a.counter = counter
    /\ best = 0 \/ \E a \in accepted : a.counter = best

\* As long as verifications have not overlapped: there is one at a time, it has
\* read the counter there is and its answer is newer than those of its kind
\* accepted before ...
OneAtATime ==
    ~raced => /\ \A c, d \in Requests : Active(c) /\ Active(d) => c = d
              /\ \A c \in Requests : Active(c) =>
                     /\ call[c].counter = counter
                     /\ \A a \in accepted : a.kind = call[c].answer.kind => Older(a, call[c].answer)

\* ... and a login that can still be accepted beats every counter accepted so
\* far, or it will be refused.
Pending(a) == Open(a) \/ \E c \in Requests : Active(c) /\ call[c].answer = a
BeatsBest ==
    ~raced => \A a \in answers : a.kind = "login" /\ Pending(a) =>
                  a.counter = 0 \/ a.counter > best \/ a.counter <= counter

CeremonyInv == CeremonyType /\ DrawnOnce /\ InOnePlace /\ CountsUp /\ RecordsAccepted /\ OneAtATime /\ BeatsBest

-----------------------------------------------------------------------------
(* ApiAccess.                                                              *)

\* Every request past the guard was let through for the scope recorded with it.
AccessInv ==
    /\ token \in [Tokens -> A!Scopes \cup {None}]
    /\ request \in [Requests -> {A!Idle} \cup [op : A!Operations \cup {"mcp"}, token : Tokens, scope : A!Scopes]]
    /\ \A r \in Requests : request[r] # A!Idle => A!GuardAllows(request[r].scope, A!RouteOf(request[r].op))

-----------------------------------------------------------------------------
(* Sessions: proofs.                                                       *)

LEMMA SessionStep == SessionInv /\ [S!Next]_(S!vars) => SessionInv'
<1> SUFFICES ASSUME SessionInv, [S!Next]_(S!vars) PROVE SessionInv'
  OBVIOUS
<1> USE NullAssumption DEF S!Idle
<1>1. ASSUME NEW c \in Requests, S!SetupCreates(c) PROVE SessionInv'
  <2>1. PICK s \in S!Unused : stored' = s /\ sessionCall' = [sessionCall EXCEPT ![c] = [op |-> "setup", secret |-> s]]
    BY <1>1 DEF S!SetupCreates
  <2>2. s \in Secrets
    BY DEF S!Unused
  <2>3. ~mixed => cookies = {}
    BY <1>1 DEF SessionInv, SessionType, CookiesCurrent, S!SetupCreates
  <2> QED
    BY <1>1, <2>1, <2>2, <2>3 DEF SessionInv, SessionType, CookiesCurrent, S!SetupCreates
<1>2. ASSUME NEW c \in Requests, S!SetupCaches(c) PROVE SessionInv'
  <2>1. sessionCall[c].secret \in Secrets
    BY <1>2 DEF SessionInv, SessionType, S!SetupCaches
  <2>2. PICK s \in Secrets : s = sessionCall[c].secret
    BY <2>1
  <2>3. /\ stored' = stored /\ cached' = s /\ cookies' = cookies \cup {s}
        /\ sessionCall' = [sessionCall EXCEPT ![c] = S!Idle]
    BY <1>2, <2>2 DEF S!SetupCaches
  <2>4. mixed' \in BOOLEAN /\ (~mixed' => ~mixed /\ s = stored)
    BY <1>2, <2>2, Zenon DEF S!SetupCaches
  <2> QED
    BY <2>2, <2>3, <2>4 DEF SessionInv, SessionType, CookiesCurrent
<1>3. ASSUME NEW c \in Requests, S!CacheSecret(c) PROVE SessionInv'
  <2>1. sessionCall[c].secret \in Secrets
    BY <1>3 DEF SessionInv, SessionType, S!CacheSecret
  <2>2. PICK s \in Secrets : s = sessionCall[c].secret
    BY <2>1
  <2>3. /\ stored' = stored /\ cached' = s /\ cookies' \in {cookies, cookies \cup {s}}
        /\ sessionCall' = [sessionCall EXCEPT ![c] = S!Idle]
    BY <1>3, <2>2 DEF S!CacheSecret
  <2>4. mixed' \in BOOLEAN /\ (~mixed' => ~mixed /\ s = stored)
    BY <1>3, <2>2, Zenon DEF S!CacheSecret
  <2> QED
    BY <2>2, <2>3, <2>4 DEF SessionInv, SessionType, CookiesCurrent
<1>4. ASSUME NEW c \in Requests, NEW op \in {"sign", "verify"}, S!ReadSecret(c, op) PROVE SessionInv'
  BY <1>4 DEF SessionInv, SessionType, CookiesCurrent, S!ReadSecret
<1>5. ASSUME S!SignCached PROVE SessionInv'
  BY <1>5 DEF SessionInv, SessionType, CookiesCurrent, S!SignCached
<1>6. ASSUME S!Restart PROVE SessionInv'
  BY <1>6 DEF SessionInv, SessionType, CookiesCurrent, S!Restart
<1>7. ASSUME S!ResetAdmin PROVE SessionInv'
  BY <1>7 DEF SessionInv, SessionType, CookiesCurrent, S!ResetAdmin
<1>8. ASSUME UNCHANGED S!vars PROVE SessionInv'
  BY <1>8 DEF SessionInv, SessionType, CookiesCurrent, S!vars
<1> QED
  BY <1>1, <1>2, <1>3, <1>4, <1>5, <1>6, <1>7, <1>8 DEF S!Next

\* Every cookie handed out since the admin account was set up is accepted, also
\* after a restart: the sign-in handlers and the guard of every request ask
\* getSessionSecret for the same secret.
THEOREM SessionTheorem == S!Spec => []SessionsHonoured
<1>1. S!Init => SessionInv
  BY DEF S!Init, S!Idle, SessionInv, SessionType, CookiesCurrent
<1>2. SessionInv => SessionsHonoured
  BY DEF SessionsHonoured, S!SessionsHonoured, S!Effective, SessionInv, SessionType, CookiesCurrent
<1> QED
  BY <1>1, <1>2, SessionStep, PTL DEF S!Spec

-----------------------------------------------------------------------------
(* ApiAccess: proofs.                                                      *)

\* What the guard lets a token do with an operation of the catalogue is what
\* the catalogue lists to it.
LEMMA GuardIsCatalogue ==
    ASSUME NEW op \in A!Operations, NEW scope \in A!Scopes
    PROVE  /\ A!Allows(op, scope) <=> A!GuardAllows(scope, A!RouteOf(op))
           /\ A!GuardAllows(scope, A!RouteOf(op)) /\ scope = "read" => A!Access(op) = "read"
<1>1. op # "mcp" /\ op # "accounts.reveal"
  BY DEF A!Operations, A!ReadOps, A!WriteOps, A!DestructiveOps
<1>2. A!RouteOf(op) = [method |-> A!Method(op), sessionOnly |-> FALSE, allowReadOnly |-> FALSE]
  BY <1>1 DEF A!RouteOf
<1>3. A!Method(op) \in {"GET", "HEAD"} <=> op \in A!ReadOps
  BY DEF A!Method
<1>4. A!Access(op) = "read" <=> op \in A!ReadOps
  BY DEF A!Access
<1> QED
  BY <1>2, <1>3, <1>4, NullAssumption DEF A!Allows, A!GuardAllows, A!Scopes

LEMMA AccessStep == AccessInv /\ [A!Next]_(A!vars) => AccessInv'
<1> SUFFICES ASSUME AccessInv, [A!Next]_(A!vars) PROVE AccessInv'
  OBVIOUS
<1> DEFINE Past == [op : A!Operations \cup {"mcp"}, token : Tokens, scope : A!Scopes]
           Let(q) == q \in Past /\ A!GuardAllows(q.scope, A!RouteOf(q.op))
           Held(t, q) == /\ t \in [Tokens -> A!Scopes \cup {None}]
                         /\ q \in [Requests -> {A!Idle} \cup Past]
                         /\ \A r \in Requests : q[r] = A!Idle \/ Let(q[r])
<1>0. Held(token, request)
  BY DEF AccessInv
<1>i. Held(token', request') => AccessInv'
  BY DEF AccessInv
<1>g. ASSUME NEW op \in A!Operations \cup {"mcp", "accounts.reveal"}, NEW t \in Tokens,
             A!GuardAllows(token[t], A!RouteOf(op))
      PROVE  Let([op |-> op, token |-> t, scope |-> token[t]])
  <2>1. op # "accounts.reveal"
    BY <1>g DEF A!GuardAllows, A!RouteOf, A!Reveal
  <2>2. token[t] \in A!Scopes
    BY <1>0, <1>g DEF A!GuardAllows
  <2>3. [op |-> op, token |-> t, scope |-> token[t]] \in Past
    BY <2>1, <2>2
  <2> QED
    BY <1>g, <2>3
<1> HIDE DEF Past, Let
<1>1. ASSUME NEW t \in Tokens, A!RemoveToken(t) \/ \E scope \in A!Scopes : A!CreateToken(t, scope)
      PROVE  AccessInv'
  BY <1>0, <1>1, <1>i DEF A!RemoveToken, A!CreateToken
<1>2. ASSUME NEW r \in Requests, NEW t \in Tokens, NEW op \in A!Operations \cup {"mcp", "accounts.reveal"},
             A!Guarded(r, t, op)
      PROVE  AccessInv'
  <2> DEFINE q == [op |-> op, token |-> t, scope |-> token[t]]
  <2>1. Let(q) /\ q \in Past
    BY <1>g, <1>2 DEF A!Guarded, Let
  <2>2. request' = [request EXCEPT ![r] = q] /\ token' = token
    BY <1>2 DEF A!Guarded
  <2> HIDE DEF q
  <2> QED
    BY <1>0, <1>i, <2>1, <2>2
<1>3. ASSUME NEW r \in Requests, A!Handle(r) PROVE AccessInv'
  BY <1>0, <1>3, <1>i DEF A!Handle
<1>4. ASSUME NEW r \in Requests, NEW q \in Requests, NEW op \in A!Operations, A!CallOperation(r, q, op)
      PROVE  AccessInv'
  <2>1. request[r] # A!Idle
    BY <1>4 DEF A!CallOperation, A!Idle
  <2>2. PICK t \in Tokens : t = request[r].token
    BY <1>0, <2>1 DEF Past
  <2> DEFINE x == [op |-> op, token |-> t, scope |-> token[t]]
  <2>3. PICK y : /\ request' = [request EXCEPT ![r] = A!Idle, ![q] = y]
                 /\ y = A!Idle \/ (y = x /\ A!GuardAllows(token[t], A!RouteOf(op)))
    BY <1>4, <2>2 DEF A!CallOperation
  <2>4. y = A!Idle \/ (Let(y) /\ y \in Past)
    BY <1>g, <2>3 DEF Let
  <2> QED
    BY <1>0, <1>4, <1>i, <2>3, <2>4 DEF A!CallOperation
<1>5. ASSUME UNCHANGED A!vars PROVE AccessInv'
  BY <1>0, <1>5, <1>i DEF A!vars
<1> QED
  BY <1>1, <1>2, <1>3, <1>4, <1>5 DEF A!Next

\* No handler runs beyond the scope of its token, called directly or through
\* the MCP endpoint, and what the catalogue lists is what the guard allows: the
\* guard in front of every route, asked again by every call of call_operation.
THEOREM ScopeTheorem == A!Spec => []ScopeRespected
<1>1. A!Init => AccessInv
  BY DEF A!Init, AccessInv
<1>2. AccessInv => ScopeRespected
  <2> SUFFICES ASSUME AccessInv PROVE A!ScopeRespected
    BY DEF ScopeRespected
  <2>1. ASSUME NEW r \in Requests, request[r] # A!Idle
        PROVE  /\ request[r].op \in A!Operations \cup {"mcp"} /\ request[r].scope \in A!Scopes
               /\ A!GuardAllows(request[r].scope, A!RouteOf(request[r].op))
    BY <2>1 DEF AccessInv
  <2>2. \A r \in Requests : request[r].op = "mcp" => request[r] # A!Idle
    BY DEF A!Idle
  <2> QED
    BY <2>1, <2>2, GuardIsCatalogue DEF A!ScopeRespected
<1> QED
  BY <1>1, <1>2, AccessStep, PTL DEF A!Spec

-----------------------------------------------------------------------------
(* Ceremony: proofs.                                                       *)

LEMMA OptionsStep ==
    ASSUME CeremonyInv, NEW kind \in C!Kinds, NEW c \in Challenges, C!Options(kind, c)
    PROVE  CeremonyInv'
<1>0. PICK n : n = [kind |-> kind, challenge |-> c, counter |-> signs]
  OBVIOUS
<1>1. /\ store' = [store EXCEPT ![kind] = c] /\ answers' = answers \cup {n}
      /\ signs' = (IF signs = 0 THEN 0 ELSE signs + 1)
      /\ registered' = registered /\ counter' = counter /\ call' = call
      /\ accepted' = accepted /\ best' = best /\ raced' = raced
  BY <1>0 DEF C!Options
<1>2. /\ \A a \in answers : a.challenge # c
      /\ \A k \in C!Kinds : store[k] # c
  BY DEF C!Options, C!Drawn
<1>3. /\ n \in [kind : C!Kinds, challenge : Challenges, counter : Nat]
      /\ n.kind = kind /\ n.challenge = c /\ n.counter = signs /\ c # None
  BY <1>0, NullAssumption DEF CeremonyInv, CeremonyType
<1>t. CeremonyType
  BY DEF CeremonyInv
<1>4. /\ Open(n)' /\ \A a \in answers : Open(a)' => Open(a) /\ a.kind # kind
  BY <1>1, <1>2, <1>3, <1>t DEF CeremonyType, Open
<1>5. \A d \in Requests : Active(d) => call[d].answer \in answers
  BY <1>t DEF CeremonyType, Active
<1>6. CeremonyType'
  BY <1>1, <1>3, <1>t DEF CeremonyType
<1>7. DrawnOnce'
  <2>1. \A a, b \in answers' : a.challenge = b.challenge => a = b
    BY <1>1, <1>2, <1>3 DEF CeremonyInv, DrawnOnce
  <2>2. ASSUME NEW k \in C!Kinds, store'[k] # None PROVE \E a \in answers' : a.kind = k /\ a.challenge = store'[k]
    <3>1. CASE k = kind
      BY <1>1, <1>3, <1>t, <3>1 DEF CeremonyType
    <3>2. CASE k # kind
      BY <1>1, <1>t, <2>2, <3>2 DEF CeremonyInv, DrawnOnce, CeremonyType
    <3> QED
      BY <3>1, <3>2
  <2> QED
    BY <2>1, <2>2 DEF DrawnOnce
<1>8. InOnePlace'
  <2>1. \A a \in accepted' : ~Open(a)'
    BY <1>1, <1>4, <1>t DEF CeremonyInv, InOnePlace, CeremonyType
  <2>2. \A d \in Requests : Active(d)' <=> Active(d)
    BY <1>1 DEF Active
  <2>3. ASSUME NEW d \in Requests, Active(d) PROVE call[d].answer \notin accepted /\ ~(store'[call[d].answer.kind] = call[d].answer.challenge)
    <3>1. PICK a \in answers : a = call[d].answer
      BY <1>5, <2>3
    <3>2. a \notin accepted /\ ~Open(a)
      BY <2>3, <3>1 DEF CeremonyInv, InOnePlace
    <3> QED
      BY <1>4, <3>1, <3>2 DEF Open
  <2> QED
    BY <1>1, <2>1, <2>2, <2>3 DEF InOnePlace, Open, Active, CeremonyInv
<1>9. CountsUp'
  <2>1. ASSUME NEW a \in answers' PROVE IF signs' = 0 THEN a.counter = 0 ELSE a.counter \in 1..(signs' - 1)
    BY <1>1, <1>3, <1>t DEF CeremonyInv, CountsUp, CeremonyType
  <2>2. ASSUME NEW a \in answers', NEW b \in answers', Open(b)', a.kind = b.kind, a # b PROVE Older(a, b)
    <3>1. CASE b = n
      <4>1. a \in answers
        BY <1>1, <2>2, <3>1
      <4> QED
        BY <1>3, <1>t, <3>1, <4>1 DEF CeremonyInv, CountsUp, CeremonyType, Older
    <3>2. CASE b # n
      <4>1. b \in answers /\ Open(b) /\ b.kind # kind
        BY <1>1, <1>4, <2>2, <3>2
      <4>2. a \in answers
        BY <1>1, <1>3, <2>2, <4>1
      <4> QED
        BY <2>2, <4>1, <4>2 DEF CeremonyInv, CountsUp
    <3> QED
      BY <3>1, <3>2
  <2> QED
    BY <2>1, <2>2 DEF CountsUp, Older
<1>10. RecordsAccepted'
  BY <1>1 DEF CeremonyInv, RecordsAccepted
<1>11. OneAtATime'
  BY <1>1 DEF CeremonyInv, OneAtATime, Active, Older
<1>12. BeatsBest'
  <2> SUFFICES ASSUME ~raced', NEW a \in answers', a.kind = "login", Pending(a)'
               PROVE  a.counter = 0 \/ a.counter > best' \/ a.counter <= counter'
    BY DEF BeatsBest
  <2>1. CASE a = n
    <3>1. signs = 0 \/ signs > best
      BY <1>t DEF CeremonyInv, CountsUp, RecordsAccepted, CeremonyType
    <3> QED
      BY <1>1, <1>3, <2>1, <3>1
  <2>2. CASE a # n
    <3>1. a \in answers
      BY <1>1, <2>2
    <3>2. Pending(a)
      BY <1>1, <1>4, <3>1 DEF Pending, Active
    <3> QED
      BY <1>1, <3>1, <3>2 DEF CeremonyInv, BeatsBest
  <2> QED
    BY <2>1, <2>2
<1> QED
  BY <1>6, <1>7, <1>8, <1>9, <1>10, <1>11, <1>12 DEF CeremonyInv

\* The store loses the challenge of one kind, nothing else of it changes.
LEMMA TakenStep ==
    ASSUME CeremonyInv, NEW kind \in C!Kinds, store' = [store EXCEPT ![kind] = None],
           answers' = answers, accepted' = accepted, signs' = signs
    PROVE  /\ \A a \in answers : Open(a)' <=> Open(a) /\ a.kind # kind
           /\ DrawnOnce' /\ CountsUp'
           /\ store' \in [C!Kinds -> Challenges \cup {None}]
           /\ \A a \in accepted : ~Open(a)'
<1>1. \A a \in answers : Open(a)' <=> Open(a) /\ a.kind # kind
  BY NullAssumption DEF CeremonyInv, CeremonyType, Open
<1>2. DrawnOnce'
  BY DEF CeremonyInv, CeremonyType, DrawnOnce
<1>3. CountsUp'
  <2>1. \A a, b \in answers : Open(b)' /\ a.kind = b.kind /\ a # b => Older(a, b)
    BY <1>1 DEF CeremonyInv, CountsUp
  <2> QED
    BY <2>1 DEF CeremonyInv, CountsUp, Older
<1>4. store' \in [C!Kinds -> Challenges \cup {None}]
  BY DEF CeremonyInv, CeremonyType
<1>5. \A a \in accepted : ~Open(a)'
  BY <1>1 DEF CeremonyInv, CeremonyType, InOnePlace
<1> QED
  BY <1>1, <1>2, <1>3, <1>4, <1>5

\* A challenge is taken or expires, and no verification begins.
LEMMA ExpireStep ==
    ASSUME CeremonyInv, NEW kind \in C!Kinds, store' = [store EXCEPT ![kind] = None],
           UNCHANGED <<answers, signs, registered, counter, call, accepted, best, raced>>
    PROVE  CeremonyInv'
<1>1. /\ answers' = answers /\ signs' = signs /\ registered' = registered /\ counter' = counter
      /\ call' = call /\ accepted' = accepted /\ best' = best /\ raced' = raced
  OBVIOUS
<1>2. /\ \A a \in answers : Open(a)' => Open(a)
      /\ DrawnOnce' /\ CountsUp' /\ store' \in [C!Kinds -> Challenges \cup {None}]
      /\ \A a \in accepted : ~Open(a)'
  BY <1>1, TakenStep
<1>3. CeremonyType'
  BY <1>1, <1>2 DEF CeremonyInv, CeremonyType
<1>4. \A d \in Requests : Active(d) => call[d].answer \in answers
  BY DEF CeremonyInv, CeremonyType, Active
<1>5. \A d \in Requests : Active(d) => call[d].answer \notin accepted /\ ~(store'[call[d].answer.kind] = call[d].answer.challenge)
  BY <1>2, <1>4 DEF CeremonyInv, InOnePlace, Open
<1>6. InOnePlace'
  BY <1>1, <1>2, <1>5 DEF CeremonyInv, InOnePlace, Open, Active
<1>7. RecordsAccepted' /\ OneAtATime'
  BY <1>1 DEF CeremonyInv, RecordsAccepted, OneAtATime, Active, Older
<1>8. \A a \in answers : Pending(a)' => Pending(a)
  BY <1>1, <1>2 DEF Pending, Active
<1>9. BeatsBest'
  BY <1>1, <1>8 DEF CeremonyInv, BeatsBest
<1> QED
  BY <1>2, <1>3, <1>6, <1>7, <1>9 DEF CeremonyInv

\* The challenge fits: it is taken and a verification begins.
LEMMA VerifyStep ==
    ASSUME CeremonyInv, NEW c \in Requests, NEW a \in answers, call[c] = C!Idle, Open(a),
           store' = [store EXCEPT ![a.kind] = None],
           call' = [call EXCEPT ![c] = [op |-> "verified", answer |-> a, counter |-> counter]],
           raced' = (raced \/ (call' # call /\ \E d \in Requests : call[d] # C!Idle)),
           UNCHANGED <<answers, signs, registered, counter, accepted, best>>
    PROVE  CeremonyInv'
<1>0. PICK v : v = [op |-> "verified", answer |-> a, counter |-> counter]
  OBVIOUS
<1>1. /\ answers' = answers /\ signs' = signs /\ registered' = registered /\ counter' = counter
      /\ accepted' = accepted /\ best' = best
      /\ call' = [call EXCEPT ![c] = v] /\ v # C!Idle /\ v.answer = a /\ v.counter = counter
  BY <1>0 DEF C!Idle
<1>t. /\ CeremonyType /\ call \in [Requests -> {C!Idle} \cup [op : {"verified"}, answer : answers, counter : Nat]]
      /\ a.kind \in C!Kinds
  BY DEF CeremonyInv, CeremonyType
<1>2. /\ \A b \in answers : Open(b)' <=> Open(b) /\ b.kind # a.kind
      /\ DrawnOnce' /\ CountsUp' /\ store' \in [C!Kinds -> Challenges \cup {None}]
      /\ \A b \in accepted : ~Open(b)'
  BY <1>1, <1>t, TakenStep
<1>3. call' # call
  BY <1>1, <1>t
<1>r. /\ raced' \in BOOLEAN
      /\ ~raced' => ~raced /\ \A d \in Requests : ~Active(d)
  BY <1>3, Zenon DEF Active
<1>4. CeremonyType'
  <2>1. v \in [op : {"verified"}, answer : answers, counter : Nat]
    BY <1>0, <1>t DEF CeremonyType
  <2> QED
    BY <1>1, <1>2, <1>r, <1>t, <2>1 DEF CeremonyType
<1>5. \A d \in Requests : Active(d)' <=> Active(d) \/ d = c
  BY <1>1, <1>t DEF Active
<1>6. /\ \A d \in Requests : Active(d)' /\ d # c => Active(d) /\ call'[d] = call[d]
      /\ call'[c] = v
  BY <1>1, <1>t DEF Active
<1>7. ~Active(c) /\ a \notin accepted /\ ~Open(a)'
  BY <1>2 DEF Active, CeremonyInv, InOnePlace
<1>8. \A d \in Requests : Active(d) => call[d].answer \in answers /\ call[d].answer # a
  BY <1>t DEF CeremonyInv, InOnePlace, Active
<1>9. InOnePlace'
  <2>1. ASSUME NEW d \in Requests, Active(d)'
        PROVE  call'[d].answer \notin accepted /\ ~(store'[call'[d].answer.kind] = call'[d].answer.challenge)
    <3>1. CASE d = c
      BY <1>1, <1>6, <1>7, <3>1 DEF Open
    <3>2. CASE d # c
      <4>1. PICK b \in answers : b = call[d].answer
        BY <1>6, <1>8, <2>1, <3>2
      <4>2. b \notin accepted /\ ~Open(b)
        BY <1>6, <2>1, <3>2, <4>1 DEF CeremonyInv, InOnePlace
      <4> QED
        BY <1>2, <1>6, <2>1, <3>2, <4>1, <4>2 DEF Open
    <3> QED
      BY <3>1, <3>2
  <2>2. ASSUME NEW d \in Requests, NEW e \in Requests, Active(d)', Active(e)', call'[d].answer = call'[e].answer
        PROVE  d = e
    BY <1>1, <1>6, <1>8, <2>2 DEF CeremonyInv, InOnePlace
  <2> QED
    BY <1>1, <1>2, <2>1, <2>2 DEF InOnePlace, Open, Active
<1>10. RecordsAccepted'
  BY <1>1 DEF CeremonyInv, RecordsAccepted
<1>11. OneAtATime'
  <2> SUFFICES ASSUME ~raced' PROVE
        /\ \A d, e \in Requests : Active(d)' /\ Active(e)' => d = e
        /\ \A d \in Requests : Active(d)' =>
              /\ call'[d].counter = counter'
              /\ \A b \in accepted' : b.kind = call'[d].answer.kind => Older(b, call'[d].answer)
    BY DEF OneAtATime, Active, Older
  <2>1. \A d \in Requests : Active(d)' => d = c
    BY <1>5, <1>r
  <2>2. \A b \in accepted : b.kind = a.kind => Older(b, a)
    BY <1>7, <1>t DEF CeremonyInv, CountsUp, CeremonyType
  <2> QED
    BY <1>1, <1>6, <2>1, <2>2
<1>12. BeatsBest'
  <2> SUFFICES ASSUME ~raced', NEW b \in answers, b.kind = "login", Pending(b)'
               PROVE  b.counter = 0 \/ b.counter > best \/ b.counter <= counter
    BY <1>1 DEF BeatsBest
  <2>1. Pending(b)
    BY <1>1, <1>2, <1>6 DEF Pending
  <2> QED
    BY <1>r, <2>1 DEF CeremonyInv, BeatsBest
<1> QED
  BY <1>2, <1>4, <1>9, <1>10, <1>11, <1>12 DEF CeremonyInv

\* A verification ends; its answer is accepted or refused.
LEMMA AcceptStep ==
    ASSUME CeremonyInv, NEW c \in Requests, C!Accept(c)
    PROVE  CeremonyInv'
<1>t. /\ CeremonyType /\ call \in [Requests -> {C!Idle} \cup [op : {"verified"}, answer : answers, counter : Nat]]
  BY DEF CeremonyInv, CeremonyType
<1>0. /\ Active(c) /\ call' = [call EXCEPT ![c] = C!Idle]
      /\ store' = store /\ answers' = answers /\ signs' = signs /\ raced' = raced
  BY DEF C!Accept, C!Idle, Active
<1>1. PICK a \in answers : a = call[c].answer
  BY <1>0, <1>t DEF Active
<1>2. \/ /\ a.kind = "register" \/ C!CounterOk(a.counter, call[c].counter)
         /\ registered' = TRUE /\ counter' = a.counter /\ accepted' = accepted \cup {a}
         /\ best' = IF a.counter > best THEN a.counter ELSE best
      \/ UNCHANGED <<registered, counter, accepted, best>>
  BY <1>1 DEF C!Accept
<1>3. /\ \A d \in Requests : Active(d)' <=> Active(d) /\ d # c
      /\ \A d \in Requests : d # c => call'[d] = call[d]
  BY <1>0, <1>t DEF Active
<1>4. \A b \in answers : Open(b)' <=> Open(b)
  BY <1>0 DEF Open
<1>5. a \notin accepted /\ ~Open(a)
  BY <1>0, <1>1 DEF CeremonyInv, InOnePlace
<1>6. accepted' \subseteq accepted \cup {a} /\ accepted \subseteq accepted'
  BY <1>2
<1>7. CeremonyType'
  BY <1>0, <1>2, <1>t DEF CeremonyType
<1>8. DrawnOnce' /\ CountsUp'
  BY <1>0 DEF CeremonyInv, DrawnOnce, CountsUp, Open, Older
<1>9. InOnePlace'
  <2>1. \A b \in accepted' : ~Open(b)'
    BY <1>4, <1>5, <1>6, <1>t DEF CeremonyInv, InOnePlace, CeremonyType
  <2>2. ASSUME NEW d \in Requests, Active(d)'
        PROVE  call'[d].answer \notin accepted' /\ ~(store'[call'[d].answer.kind] = call'[d].answer.challenge)
    <3>1. Active(d) /\ d # c /\ call'[d] = call[d]
      BY <1>3, <2>2
    <3>2. call[d].answer # a
      BY <1>0, <1>1, <3>1 DEF CeremonyInv, InOnePlace
    <3> QED
      BY <1>0, <1>6, <3>1, <3>2 DEF CeremonyInv, InOnePlace, Open
  <2>3. ASSUME NEW d \in Requests, NEW e \in Requests, Active(d)', Active(e)', call'[d].answer = call'[e].answer
        PROVE  d = e
    BY <1>3, <2>3 DEF CeremonyInv, InOnePlace
  <2> QED
    BY <2>1, <2>2, <2>3 DEF InOnePlace, Open, Active
<1>10. RecordsAccepted'
  BY <1>2, <1>t DEF CeremonyInv, RecordsAccepted, CeremonyType
<1>11. OneAtATime'
  <2>1. ASSUME ~raced PROVE \A d \in Requests : ~Active(d)'
    BY <1>0, <1>3, <2>1 DEF CeremonyInv, OneAtATime
  <2> QED
    BY <1>0, <2>1 DEF OneAtATime, Active
<1>12. BeatsBest'
  <2> SUFFICES ASSUME ~raced', NEW b \in answers, b.kind = "login", Pending(b)'
               PROVE  b.counter = 0 \/ b.counter > best' \/ b.counter <= counter'
    BY <1>0 DEF BeatsBest
  <2>0. /\ b \in [kind : C!Kinds, challenge : Challenges, counter : Nat] /\ b.counter \in Nat /\ b.kind \in C!Kinds
        /\ a.counter \in Nat /\ a.kind \in C!Kinds /\ counter \in Nat /\ best \in Nat /\ call[c].counter \in Nat
    BY <1>0, <1>t DEF CeremonyType, Active
  <2>1. ~raced /\ Open(b) /\ b # a /\ Pending(b)
    <3>1. \A d \in Requests : ~Active(d)'
      BY <1>0, <1>3 DEF CeremonyInv, OneAtATime
    <3> QED
      BY <1>0, <1>4, <1>5, <3>1 DEF Pending
  <2>2. b.counter = 0 \/ b.counter > best \/ b.counter <= counter
    BY <2>1 DEF CeremonyInv, BeatsBest
  <2>3. CASE UNCHANGED <<registered, counter, accepted, best>>
    BY <2>2, <2>3
  <2>4. CASE b.counter = 0
    BY <2>4
  <2>5. ASSUME b.counter # 0, a.kind = "login", C!CounterOk(a.counter, call[c].counter), counter' = a.counter,
               best' = IF a.counter > best THEN a.counter ELSE best
        PROVE  b.counter > best'
    <3>1. a.counter < b.counter
      BY <2>1, <2>5 DEF CeremonyInv, CountsUp, Older
    <3>2. a.counter # 0
      BY <1>t, <2>0, <2>5 DEF CeremonyInv, CountsUp, CeremonyType
    <3>3. call[c].counter = counter
      BY <1>0, <2>1 DEF CeremonyInv, OneAtATime
    <3>4. a.counter > counter
      BY <2>0, <2>5, <3>2, <3>3 DEF C!CounterOk
    <3>5. Pending(a)
      BY <1>0, <1>1 DEF Pending
    <3>6. a.counter > best
      BY <2>0, <2>1, <2>5, <3>2, <3>4, <3>5 DEF CeremonyInv, BeatsBest
    <3> QED
      BY <2>0, <2>5, <3>1, <3>6
  <2>6. ASSUME b.counter # 0, a.kind = "register", counter' = a.counter,
               best' = IF a.counter > best THEN a.counter ELSE best
        PROVE  b.counter > best' \/ b.counter <= counter'
    <3>1. CASE b.counter > best
      BY <2>0, <2>6, <3>1
    <3>2. CASE b.counter <= counter
      <4>1. PICK x \in accepted : x.counter = counter
        BY <2>0, <2>6, <3>2 DEF CeremonyInv, RecordsAccepted
      <4>2. x \in answers /\ x # b /\ x.kind \in C!Kinds /\ x.counter \in Nat
        BY <1>t, <2>1 DEF CeremonyInv, CeremonyType, InOnePlace
      <4>3. x.kind # "login"
        BY <2>0, <2>1, <2>6, <3>2, <4>1, <4>2 DEF CeremonyInv, CountsUp, Older
      <4>4. x.kind = a.kind
        BY <2>6, <4>2, <4>3 DEF C!Kinds
      <4>5. Older(x, a)
        BY <1>0, <1>1, <2>1, <4>4 DEF CeremonyInv, OneAtATime
      <4>6. a.counter # 0
        BY <1>t, <2>0, <2>6 DEF CeremonyInv, CountsUp, CeremonyType
      <4> QED
        BY <2>0, <2>6, <3>2, <4>1, <4>2, <4>5, <4>6 DEF Older
    <3> QED
      BY <2>2, <2>6, <3>1, <3>2
  <2> QED
    BY <1>2, <2>0, <2>3, <2>4, <2>5, <2>6 DEF C!Kinds
<1> QED
  BY <1>7, <1>8, <1>9, <1>10, <1>11, <1>12 DEF CeremonyInv

LEMMA CeremonyStep == CeremonyInv /\ [C!Next]_(C!vars) => CeremonyInv'
<1> SUFFICES ASSUME CeremonyInv, [C!Next]_(C!vars) PROVE CeremonyInv'
  OBVIOUS
<1>1. ASSUME NEW kind \in C!Kinds, NEW c \in Challenges, C!Options(kind, c) PROVE CeremonyInv'
  BY <1>1, OptionsStep
<1>2. ASSUME NEW c \in Requests, NEW a \in answers, C!Verify(c, a) PROVE CeremonyInv'
  <2>0. a.kind \in C!Kinds
    BY DEF CeremonyInv, CeremonyType
  <2>1. CASE UNCHANGED call
    <3>1. raced' = raced
      BY <1>2, <2>1, Zenon DEF C!Verify, CeremonyInv, CeremonyType
    <3>2. /\ store' = [store EXCEPT ![a.kind] = None]
          /\ UNCHANGED <<answers, signs, registered, counter, call, accepted, best, raced>>
      BY <1>2, <2>1, <3>1 DEF C!Verify, C!Take
    <3> QED
      BY <2>0, <3>2, ExpireStep
  <2>2. CASE ~UNCHANGED call
    <3>1. /\ call[c] = C!Idle /\ Open(a) /\ store' = [store EXCEPT ![a.kind] = None]
          /\ call' = [call EXCEPT ![c] = [op |-> "verified", answer |-> a, counter |-> counter]]
          /\ raced' = (raced \/ (call' # call /\ \E d \in Requests : call[d] # C!Idle))
          /\ UNCHANGED <<answers, signs, registered, counter, accepted, best>>
      BY <1>2, <2>2 DEF C!Verify, C!Take, Open
    <3> QED
      BY <3>1, VerifyStep
  <2> QED
    BY <2>1, <2>2
<1>3. ASSUME NEW c \in Requests, C!Accept(c) PROVE CeremonyInv'
  BY <1>3, AcceptStep
<1>4. ASSUME NEW kind \in C!Kinds, C!Expire(kind) PROVE CeremonyInv'
  <2>1. /\ store' = [store EXCEPT ![kind] = None]
        /\ UNCHANGED <<answers, signs, registered, counter, call, accepted, best, raced>>
    BY <1>4 DEF C!Expire
  <2> QED
    BY <2>1, ExpireStep
<1>5. ASSUME UNCHANGED C!vars PROVE CeremonyInv'
  BY <1>5 DEF C!vars, CeremonyInv, CeremonyType, DrawnOnce, InOnePlace, CountsUp, RecordsAccepted, OneAtATime,
     BeatsBest, Open, Active, Older, Pending
<1> QED
  BY <1>1, <1>2, <1>3, <1>4, <1>5 DEF C!Next

\* An answer of the authenticator is accepted once at most, in whatever order
\* and however often answers arrive, and a login whose counter does not exceed
\* every counter accepted before is refused unless verifications overlapped:
\* take() of the challenge store and the counter check of verifyLogin.
THEOREM ReplayTheorem == C!Spec => NoReplay
<1> DEFINE Told ==
       \A a \in answers : \A c \in Requests :
         /\ call[c] # C!Idle /\ call[c].answer = a /\ call'[c] = C!Idle /\ counter' # counter
         => /\ a \notin accepted
            /\ raced \/ a.kind = "register" \/ a.counter = 0 \/ a.counter > best
<1>1. C!Init => CeremonyInv
  <2> SUFFICES ASSUME C!Init PROVE CeremonyInv
    OBVIOUS
  <2>1. CeremonyType
    <3>1. signs \in Nat /\ counter \in Nat /\ best \in Nat
      BY DEF C!Init
    <3>2. registered \in BOOLEAN /\ raced \in BOOLEAN
      BY Zenon DEF C!Init
    <3>3. store \in [C!Kinds -> Challenges \cup {None}]
      BY DEF C!Init
    <3>4. call \in [Requests -> {C!Idle} \cup [op : {"verified"}, answer : answers, counter : Nat]]
      BY DEF C!Init
    <3> QED
      BY <3>1, <3>2, <3>3, <3>4, Zenon DEF C!Init, CeremonyType
  <2>2. \A c \in Requests : ~Active(c)
    BY DEF C!Init, Active
  <2>3. \A k \in C!Kinds : store[k] = None
    BY DEF C!Init
  <2>4. answers = {} /\ accepted = {} /\ counter = 0 /\ best = 0
    BY DEF C!Init
  <2> QED
    BY <2>1, <2>2, <2>3, <2>4 DEF CeremonyInv, DrawnOnce, InOnePlace, CountsUp, RecordsAccepted, OneAtATime, BeatsBest
<1>2. CeremonyInv /\ [C!Next]_(C!vars) => [Told]_(C!vars)
  <2> SUFFICES ASSUME CeremonyInv, C!Next, NEW a \in answers, NEW c \in Requests,
                      Active(c), call[c].answer = a, call'[c] = C!Idle, counter' # counter
               PROVE  /\ a \notin accepted
                      /\ raced \/ a.kind = "register" \/ a.counter = 0 \/ a.counter > best
    BY DEF Active
  <2>1. PICK d \in Requests : C!Accept(d)
    BY DEF C!Next, C!Options, C!Verify, C!Expire
  <2>2. d = c
    BY <2>1 DEF C!Accept, CeremonyInv, CeremonyType, Active
  <2>3. a \notin accepted
    BY DEF CeremonyInv, InOnePlace
  <2>4. a.kind = "register" \/ C!CounterOk(a.counter, call[c].counter)
    BY <2>1, <2>2 DEF C!Accept
  <2>5. a.kind = "register" \/ (a.kind = "login" /\ Pending(a))
    BY DEF CeremonyInv, CeremonyType, C!Kinds, Pending
  <2>6. ~raced => call[c].counter = counter
    BY DEF CeremonyInv, OneAtATime
  <2>7. a.counter \in Nat /\ counter \in Nat
    BY DEF CeremonyInv, CeremonyType
  <2>8. ~raced /\ a.kind # "register" => a.counter = 0 \/ a.counter > best
    BY <2>4, <2>5, <2>6, <2>7 DEF CeremonyInv, BeatsBest, C!CounterOk
  <2> QED
    BY <2>3, <2>8
<1>3. CeremonyInv /\ [C!Next]_(C!vars) => CeremonyInv'
  BY CeremonyStep
<1> QED
  BY <1>1, <1>2, <1>3, PTL DEF C!Spec, NoReplay, C!NoReplay

-----------------------------------------------------------------------------
(* SignIn: proofs.                                                         *)

LEMMA FlagType == ASSUME NEW flag \in Flag, NEW old \in BOOLEAN PROVE Patched(flag, old) \in BOOLEAN
BY DEF Patched, Flag

LEMMA MergedType ==
    ASSUME NEW d \in Dto, NEW changed \in BOOLEAN, NEW old \in Row
    PROVE  Merged(d, changed, old) \in Row
<1>1. /\ old.passwordEnabled \in BOOLEAN /\ old.passkeyEnabled \in BOOLEAN /\ old.rp \in BOOLEAN
      /\ old.telegramEnabled \in BOOLEAN /\ old.client \in Clients \cup {None} /\ old.telegramUserId \in Users \cup {None}
  BY DEF Row
<1>2. /\ d.passwordEnabled \in Flag /\ d.passkeyEnabled \in Flag /\ d.rp \in Flag
      /\ d.telegramEnabled \in Flag /\ d.client \in Clients \cup {None, Absent}
  BY DEF Dto
<1>3. /\ Patched(d.passwordEnabled, old.passwordEnabled) \in BOOLEAN
      /\ Patched(d.passkeyEnabled, old.passkeyEnabled) \in BOOLEAN
      /\ Patched(d.rp, old.rp) \in BOOLEAN
  BY <1>1, <1>2, FlagType
<1>4. (~changed /\ Patched(d.telegramEnabled, old.telegramEnabled)) \in BOOLEAN
  OBVIOUS
<1>5. /\ (IF d.client = Absent THEN old.client ELSE d.client) \in Clients \cup {None}
      /\ (IF changed THEN None ELSE old.telegramUserId) \in Users \cup {None}
  BY <1>1, <1>2
<1> QED
  BY <1>3, <1>4, <1>5, Zenon DEF Merged, Row

\* A method more, or a passkey more, never takes the way in away.
LEMMA PossibleMonotone ==
    ASSUME NEW r \in Row, NEW m \in Nat, NEW n \in Nat, m <= n, SignInPossible(r, m)
    PROVE  SignInPossible(r, n)
BY DEF SignInPossible

LEMMA KeysFinite ==
    ASSUME TypeOK
    PROVE  /\ IsFiniteSet(keys) /\ Cardinality(keys) \in Nat
           /\ \A k : Cardinality(keys \ {k}) \in Nat /\ Cardinality(keys \ {k}) >= Cardinality(keys) - 1
           /\ Cardinality(keys) = 0 <=> keys = {}
           /\ \A q : CountAfter(q) \in Nat /\ CountAfter(q) <= Cardinality(keys)
<1>1. IsFiniteSet(keys)
  BY KeysAssumption, FS_Subset DEF TypeOK
<1>2. Cardinality(keys) \in Nat /\ (Cardinality(keys) = 0 <=> keys = {})
  BY <1>1, FS_CardinalityType, FS_EmptySet
<1>3. ASSUME NEW k PROVE Cardinality(keys \ {k}) \in Nat /\ Cardinality(keys \ {k}) >= Cardinality(keys) - 1
  <2>1. /\ IsFiniteSet(keys \ {k})
        /\ Cardinality(keys \ {k}) = IF k \in keys THEN Cardinality(keys) - 1 ELSE Cardinality(keys)
    BY <1>1, FS_RemoveElement, Zenon
  <2>2. Cardinality(keys \ {k}) \in Nat
    BY <2>1, FS_CardinalityType, Zenon
  <2> QED
    BY <1>2, <2>1, <2>2
<1>4. ASSUME NEW q PROVE CountAfter(q) \in Nat /\ CountAfter(q) <= Cardinality(keys)
  BY <1>2 DEF CountAfter
<1> QED
  BY <1>1, <1>2, <1>3, <1>4

PatchReq    == [op : {"patch"}, dto : Dto, changed : BOOLEAN, checked : BOOLEAN]
UnlinkReq   == [op : {"unlink"}, checked : BOOLEAN]
DeleteReq   == [op : {"delete"}, key : Keys, checked : BOOLEAN]
ExchangeReq == [op : {"exchange"}, client : [app : Apps, secret : {c.secret : c \in Clients}]]

LEMMA RequestKinds ==
    ASSUME NEW q \in Request
    PROVE  /\ q.op = "patch" => q \in PatchReq
           /\ q.op = "unlink" => q \in UnlinkReq
           /\ q.op = "delete" => q \in DeleteReq
           /\ q.op = "exchange" => q \in ExchangeReq
           /\ q.op = "idle" <=> q = Idle
           /\ q.op \in Guarded \cup {"exchange", "idle"}
BY DEF Request, Idle, PatchReq, UnlinkReq, DeleteReq, ExchangeReq, Guarded

LEMMA WouldType ==
    ASSUME row \in Row, NEW q \in Request
    PROVE  Would(q) \in Row
<1>1. CASE q.op = "patch"
  BY <1>1, MergedType, RequestKinds DEF Would, PatchReq
<1>2. CASE q.op # "patch"
  BY <1>2 DEF Would, Unlinked, Row
<1> QED
  BY <1>1, <1>2

\* The row changes for the better, or not at all: the password is switched on,
\* or a Telegram account is linked.
BetterRow ==
    \/ row' = row
    \/ row \in Row /\ row' = [row EXCEPT !.passwordEnabled = TRUE]
    \/ row \in Row /\ \E u \in Users : row' = [row EXCEPT !.telegramUserId = u, !.telegramEnabled = TRUE]

\* ... and so does the row a request would leave behind.
LEMMA WouldMonotone ==
    ASSUME row \in Row, row' \in Row, BetterRow, NEW q \in Request, NEW n \in Nat, SignInPossible(Would(q), n)
    PROVE  SignInPossible(Would(q)', n)
<1>1. CASE row' = row
  BY <1>1 DEF Would
<1>2. CASE row' = [row EXCEPT !.passwordEnabled = TRUE]
  <2>1. CASE q.op = "patch"
    BY <1>2, <2>1 DEF Would, SignInPossible, TelegramUsable, TelegramReady, Merged, Patched, Row
  <2>2. CASE q.op # "patch"
    BY <1>2, <2>2 DEF Would, SignInPossible, TelegramUsable, TelegramReady, Unlinked, Row
  <2> QED
    BY <2>1, <2>2
<1>3. ASSUME NEW u \in Users, row' = [row EXCEPT !.telegramUserId = u, !.telegramEnabled = TRUE]
      PROVE  SignInPossible(Would(q)', n)
  <2>0. u # None
    BY UsersAssumption
  <2>1. CASE q.op = "patch"
    BY <1>3, <2>0, <2>1 DEF Would, SignInPossible, TelegramUsable, TelegramReady, Merged, Patched, Row
  <2>2. CASE q.op # "patch"
    BY <1>3, <2>0, <2>2 DEF Would, SignInPossible, TelegramUsable, TelegramReady, Unlinked, Row
  <2> QED
    BY <2>1, <2>2
<1> QED
  BY <1>1, <1>2, <1>3 DEF BetterRow

LEMMA CountMonotone ==
    ASSUME TypeOK, TypeOK', keys \subseteq keys', NEW q
    PROVE  CountAfter(q) <= CountAfter(q)'
<1>1. IsFiniteSet(keys') /\ IsFiniteSet(keys)
  BY KeysAssumption, FS_Subset DEF TypeOK
<1>2. Cardinality(keys) <= Cardinality(keys')
  BY <1>1, FS_Subset, Zenon
<1>3. Cardinality(keys) \in Nat /\ Cardinality(keys') \in Nat /\ (keys = {} => Cardinality(keys) = 0)
  BY <1>1, FS_CardinalityType, FS_EmptySet, Zenon
<1>4. keys = {} => Cardinality(keys) = 0
  BY <1>3
<1>5. keys' # {} => Cardinality(keys') # 0
  BY <1>1, FS_EmptySet, Zenon
<1>6. keys # {} => keys' # {}
  OBVIOUS
<1> QED
  BY <1>2, <1>3, <1>4, <1>5, <1>6 DEF CountAfter

LEMMA StandsMonotone ==
    ASSUME TypeOK, TypeOK', row # None, row' # None, BetterRow, keys \subseteq keys',
           NEW q \in Request, q.op \in Guarded, Stands(q)
    PROVE  Stands(q)'
<1>1. row \in Row /\ row' \in Row
  BY DEF TypeOK
<1>2. CountAfter(q) \in Nat /\ CountAfter(q)' \in Nat
  <2>1. CountAfter(q) \in Nat
    BY KeysFinite
  <2>2. IsFiniteSet(keys') /\ Cardinality(keys') \in Nat /\ (keys' # {} => Cardinality(keys') # 0)
    BY KeysAssumption, FS_Subset, FS_CardinalityType, FS_EmptySet DEF TypeOK
  <2> QED
    BY <2>1, <2>2 DEF CountAfter
<1>3. CountAfter(q) <= CountAfter(q)'
  BY CountMonotone
<1>4. PICK m \in Nat, n \in Nat : /\ m = IF q.checked THEN CountAfter(q) ELSE 1
                                  /\ n = IF q.checked THEN CountAfter(q)' ELSE 1
  BY <1>2
<1>5. m <= n
  BY <1>2, <1>3, <1>4
<1>6. SignInPossible(Would(q)', m)
  BY <1>1, <1>4, WouldMonotone DEF Stands
<1>7. PICK w \in Row : w = Would(q)'
  <2>1. CASE q.op = "patch"
    BY <1>1, <2>1, MergedType, RequestKinds DEF Would, PatchReq
  <2>2. CASE q.op # "patch"
    BY <1>1, <2>2 DEF Would, Unlinked, Row
  <2> QED
    BY <2>1, <2>2
<1>8. SignInPossible(w, n)
  BY <1>5, <1>6, <1>7, PossibleMonotone
<1> QED
  BY <1>4, <1>7, <1>8 DEF Stands

\* What a request that has just read must satisfy.
Fresh(q) ==
    /\ row # None
    /\ cli = "idle" /\ q.op \in Guarded => Stands(q)
    /\ q.op = "patch" => q.changed = CredsChanged(q.dto, row)
    /\ q.op = "exchange" => q.client = row.client

\* A step after which every request in flight has been overtaken.
LEMMA AllOvertaken ==
    ASSUME TypeOK', \A r \in Requests \ late' : req'[r] = Idle
    PROVE  SignInInv'
<1>1. \A r \in Requests \ late' : req'[r].op = "idle"
  BY DEF Idle
<1> QED
  BY <1>1 DEF SignInInv, ChecksStand, ReadingsStand, ResetOvertakes, Guarded

\* A step that takes nothing away: whoever was not overtaken still is not.
LEMMA NothingLost ==
    ASSUME SignInInv, TypeOK', BetterRow, cli' = "idle" => cli = "idle" /\ keys \subseteq keys',
           \A r \in Requests \ late', q \in Request :
               q = req'[r] => q = Idle \/ (r \notin late /\ q = req[r]) \/ Fresh(q)'
    PROVE  SignInInv'
<1>0. \A r \in Requests : req'[r] \in Request
  BY DEF TypeOK
<1>r. row = row' \/ (row \in Row /\ row' \in Row /\ row'.client = row.client)
  <2>1. ASSUME row \in Row, row' = [row EXCEPT !.passwordEnabled = TRUE]
        PROVE  row' \in Row /\ row'.client = row.client
    BY <2>1 DEF Row
  <2>2. ASSUME row \in Row, NEW u \in Users, row' = [row EXCEPT !.telegramUserId = u, !.telegramEnabled = TRUE]
        PROVE  row' \in Row /\ row'.client = row.client
    BY <2>2 DEF Row
  <2> QED
    BY <2>1, <2>2 DEF BetterRow
<1>1. row' # None => row # None /\ row \in Row /\ row' \in Row /\ row'.client = row.client
  <2>1. row \in Row \cup {None}
    BY DEF SignInInv, TypeOK
  <2> QED
    BY <1>r, <2>1, RowAssumption
<1>2. row' = None => row = None
  BY <1>r, RowAssumption
<1>3. ASSUME NEW r \in Requests \ late', NEW q \in Request, q = req'[r], row' # None PROVE q = Idle \/ Fresh(q)'
  <2> SUFFICES ASSUME r \notin late, q = req[r] PROVE Fresh(q)'
    BY <1>3
  <2>1. q = req[r]
    OBVIOUS
  <2>2. cli' = "idle" /\ q.op \in Guarded => Stands(q)'
    <3> SUFFICES ASSUME cli' = "idle", q.op \in Guarded PROVE Stands(q)'
      OBVIOUS
    <3>1. Stands(q)
      BY <1>1, <1>3, <2>1 DEF SignInInv, ChecksStand
    <3> QED
      BY <1>1, <1>3, <3>1, StandsMonotone DEF SignInInv
  <2>3. q.op = "patch" => q.changed = CredsChanged(q.dto, row)'
    BY <1>1, <1>3, <2>1 DEF SignInInv, ReadingsStand, CredsChanged
  <2>4. q.op = "exchange" => q.client = row'.client
    BY <1>1, <1>3, <2>1 DEF SignInInv, ReadingsStand
  <2>5. Fresh(q)'
    BY <1>3, <2>2, <2>3, <2>4 DEF Fresh
  <2> QED
    BY <2>5
<1>4. ChecksStand'
  <2>1. ASSUME cli' = "idle", row' # None, NEW r \in Requests \ late', req'[r].op \in Guarded PROVE Stands(req[r])'
    <3>1. PICK q \in Request : q = req'[r]
      BY <1>0
    <3>2. q # Idle
      BY <2>1, <3>1 DEF Idle, Guarded
    <3>3. Stands(q)'
      BY <1>3, <2>1, <3>1, <3>2 DEF Fresh
    <3> QED
      BY <3>1, <3>3 DEF Stands, Would, CountAfter
  <2> QED
    BY <2>1 DEF ChecksStand
<1>5. ReadingsStand'
  <2>1. ASSUME row' # None, NEW r \in Requests \ late', NEW q \in Request, q = req'[r]
        PROVE  /\ q.op = "patch" => q.changed = CredsChanged(q.dto, row)'
               /\ q.op = "exchange" => q.client = row'.client
    BY <1>3, <2>1 DEF Fresh, Idle
  <2> QED
    BY <1>0, <2>1 DEF ReadingsStand, CredsChanged
<1>6. ResetOvertakes'
  BY <1>0, <1>2 DEF SignInInv, ResetOvertakes, Fresh
<1> QED
  BY <1>4, <1>5, <1>6 DEF SignInInv

\* The outcome of Asked for a request that would make the row r.
LEMMA AskedIs ==
    ASSUME NEW q \in PatchReq \cup UnlinkReq \cup DeleteReq, q.checked = FALSE, NEW r \in Row, NEW w, w = Asked(q, r)
    PROVE  /\ w \in Request
           /\ w = Idle \/ (/\ w.op = q.op /\ (q.op = "patch" => w.dto = q.dto /\ w.changed = q.changed)
                           /\ SignInPossible(r, IF w.checked THEN 0 ELSE 1))
<1>1. CASE SignInPossible(r, 0)
  <2>1. w = [q EXCEPT !.checked = TRUE]
    BY <1>1 DEF Asked
  <2>2. /\ w \in PatchReq \cup UnlinkReq \cup DeleteReq /\ w.op = q.op /\ w.checked = TRUE
        /\ q.op = "patch" => w.dto = q.dto /\ w.changed = q.changed
    BY <2>1 DEF PatchReq, UnlinkReq, DeleteReq
  <2> QED
    BY <1>1, <2>2 DEF Request, PatchReq, UnlinkReq, DeleteReq
<1>2. CASE ~SignInPossible(r, 0) /\ SignInPossible(r, 1)
  <2>1. w = q
    BY <1>2 DEF Asked
  <2>2. SignInPossible(r, IF w.checked THEN 0 ELSE 1)
    BY <1>2, <2>1
  <2> QED
    BY <2>1, <2>2 DEF Request, PatchReq, UnlinkReq, DeleteReq
<1>3. CASE ~SignInPossible(r, 0) /\ ~SignInPossible(r, 1)
  BY <1>3 DEF Asked, Request
<1> QED
  BY <1>1, <1>2, <1>3

\* A request reads the row and begins.
LEMMA BeginsStep ==
    ASSUME SignInInv, NEW r \in Requests, NEW q \in PatchReq \cup UnlinkReq \cup DeleteReq, q.checked = FALSE,
           row # None, q.op = "patch" => q.changed = CredsChanged(q.dto, row),
           NEW w, w = Asked(q, Would(q)), Begins(r, w)
    PROVE  SignInInv'
<1>1. TypeOK /\ row \in Row
  BY DEF SignInInv, TypeOK
<1>2. q \in Request
  BY DEF Request, PatchReq, UnlinkReq, DeleteReq
<1>3. PICK x \in Row : x = Would(q)
  BY <1>1, <1>2, WouldType
<1>4. /\ w \in Request
      /\ w = Idle \/ (/\ w.op = q.op /\ (q.op = "patch" => w.dto = q.dto /\ w.changed = q.changed)
                      /\ SignInPossible(x, IF w.checked THEN 0 ELSE 1))
  BY <1>3, AskedIs
<1>5. /\ req' = [req EXCEPT ![r] = w] /\ late' = late \ {r}
      /\ row' = row /\ keys' = keys /\ flow' = flow /\ cli' = cli /\ provenWith' = provenWith
  BY DEF Begins
<1>6. TypeOK'
  BY <1>1, <1>4, <1>5 DEF TypeOK
<1>7. w = Idle \/ Fresh(w)
  <2> SUFFICES ASSUME w # Idle PROVE Fresh(w)
    OBVIOUS
  <2>1. Would(w) = x
    BY <1>3, <1>4 DEF Would
  <2>2. CountAfter(w) \in Nat
    BY <1>1, KeysFinite
  <2>3. PICK m \in Nat, n \in Nat : m = (IF w.checked THEN 0 ELSE 1) /\ n = (IF w.checked THEN CountAfter(w) ELSE 1)
    BY <2>2
  <2>4. SignInPossible(x, m) /\ m <= n
    BY <1>4, <2>2, <2>3
  <2>5. SignInPossible(x, n)
    BY <2>4, PossibleMonotone
  <2>6. Stands(w)
    BY <2>1, <2>3, <2>5 DEF Stands
  <2>7. w.op \in Guarded
    BY <1>4 DEF Guarded, PatchReq, UnlinkReq, DeleteReq
  <2> QED
    BY <1>4, <2>6, <2>7 DEF Fresh, Guarded
<1>8. w = Idle \/ Fresh(w)'
  BY <1>5, <1>7 DEF Fresh, Stands, Would, CountAfter, CredsChanged
<1>9. \A p \in Requests \ late', v \in Request : v = req'[p] => v = Idle \/ (p \notin late /\ v = req[p]) \/ Fresh(v)'
  BY <1>1, <1>5, <1>8 DEF TypeOK
<1> QED
  BY <1>5, <1>6, <1>9, NothingLost DEF BetterRow

LEMMA PatchReadStep == ASSUME SignInInv, NEW r \in Requests, NEW d \in Patches, PatchRead(r, d) PROVE SignInInv'
<1>1. PICK changed \in BOOLEAN : changed = CredsChanged(d, row)
  BY DEF CredsChanged
<1>2. PICK q : q = [op |-> "patch", dto |-> d, changed |-> changed, checked |-> FALSE]
  OBVIOUS
<1>3. q \in PatchReq /\ q.checked = FALSE /\ q.dto = d /\ q.changed = changed
  BY <1>2, PatchesAssumption DEF PatchReq
<1>4. Would(q) = Merged(d, changed, row)
  BY <1>2 DEF Would
<1>5. PICK w : w = Asked(q, Would(q))
  OBVIOUS
<1>6. row # None /\ Begins(r, w)
  BY <1>1, <1>2, <1>4, <1>5 DEF PatchRead
<1> QED
  BY <1>1, <1>3, <1>5, <1>6, BeginsStep

LEMMA UnlinkReadStep == ASSUME SignInInv, NEW r \in Requests, UnlinkRead(r) PROVE SignInInv'
<1>1. PICK q : q = [op |-> "unlink", checked |-> FALSE]
  OBVIOUS
<1>2. q \in UnlinkReq /\ q.checked = FALSE /\ q.op # "patch"
  BY <1>1 DEF UnlinkReq
<1>3. Would(q) = Unlinked(row)
  BY <1>1 DEF Would
<1>4. PICK w : w = Asked(q, Would(q))
  OBVIOUS
<1>5. row # None /\ Begins(r, w)
  BY <1>1, <1>3, <1>4 DEF UnlinkRead
<1> QED
  BY <1>2, <1>4, <1>5, BeginsStep

LEMMA DeleteKeyReadStep == ASSUME SignInInv, NEW r \in Requests, NEW k \in Keys, DeleteKeyRead(r, k) PROVE SignInInv'
<1>1. PICK q : q = [op |-> "delete", key |-> k, checked |-> FALSE]
  OBVIOUS
<1>2. q \in DeleteReq /\ q.checked = FALSE /\ q.op # "patch"
  BY <1>1 DEF DeleteReq
<1>3. Would(q) = row
  BY <1>1 DEF Would
<1>4. PICK w : w = Asked(q, Would(q))
  OBVIOUS
<1>5. row # None /\ Begins(r, w)
  BY <1>1, <1>3, <1>4 DEF DeleteKeyRead
<1> QED
  BY <1>2, <1>4, <1>5, BeginsStep

LEMMA KeysCountedStep == ASSUME SignInInv, NEW r \in Requests, KeysCounted(r) PROVE SignInInv'
<1>0. PICK q \in Request : q = req[r]
  BY DEF SignInInv, TypeOK
<1>1. /\ row' = row /\ keys' = keys /\ flow' = flow /\ cli' = cli /\ provenWith' = provenWith
      /\ q.op \in Guarded /\ ~q.checked
  BY <1>0 DEF KeysCounted, Guarded
<1>t. TypeOK
  BY DEF SignInInv
<1>2. CASE CountAfter(q) > 0
  <2>1. PICK w : w = [q EXCEPT !.checked = TRUE]
    OBVIOUS
  <2>2. late' = late /\ req' = [req EXCEPT ![r] = w]
    BY <1>0, <1>2, <2>1 DEF KeysCounted
  <2>3. /\ w \in Request /\ w.op = q.op /\ w.checked = TRUE
        /\ q.op = "patch" => w.dto = q.dto /\ w.changed = q.changed
    <3>1. q \in PatchReq \cup UnlinkReq \cup DeleteReq
      BY <1>1, RequestKinds DEF Guarded
    <3>2. /\ w \in PatchReq \cup UnlinkReq \cup DeleteReq /\ w.op = q.op /\ w.checked = TRUE
          /\ q.op = "patch" => w.dto = q.dto /\ w.changed = q.changed
      BY <2>1, <3>1 DEF PatchReq, UnlinkReq, DeleteReq
    <3> QED
      BY <3>2 DEF Request, PatchReq, UnlinkReq, DeleteReq
  <2>4. TypeOK'
    BY <1>1, <1>t, <2>2, <2>3 DEF TypeOK
  <2>5. ASSUME r \notin late PROVE Fresh(w)
    <3>1. row # None /\ row \in Row
      BY <1>0, <1>1, <1>t, <2>5 DEF SignInInv, ResetOvertakes, Idle, Guarded, TypeOK
    <3>2. cli = "idle" => Stands(q)
      BY <1>0, <1>1, <2>5, <3>1 DEF SignInInv, ChecksStand
    <3>3. PICK x \in Row : x = Would(q)
      BY <3>1, WouldType
    <3>4. PICK n \in Nat : n = CountAfter(q)
      BY <1>t, KeysFinite
    <3>5. Would(w) = x /\ CountAfter(w) = n
      BY <2>3, <3>3, <3>4 DEF Would, CountAfter
    <3>6. cli = "idle" => SignInPossible(x, 1)
      BY <1>1, <3>2, <3>3 DEF Stands
    <3>7. cli = "idle" => SignInPossible(x, n)
      <4>1. 1 \in Nat /\ 1 <= n
        BY <1>2, <3>4
      <4> QED
        BY <3>6, <4>1, PossibleMonotone
    <3>8. cli = "idle" => Stands(w)
      BY <2>3, <3>5, <3>7 DEF Stands
    <3>9. w.op = "patch" => w.changed = CredsChanged(w.dto, row)
      BY <1>0, <2>3, <2>5, <3>1 DEF SignInInv, ReadingsStand
    <3> QED
      BY <1>1, <2>3, <3>1, <3>8, <3>9 DEF Fresh, Guarded
  <2>6. r \notin late => Fresh(w)'
    BY <1>1, <2>5 DEF Fresh, Stands, Would, CountAfter, CredsChanged
  <2>7. \A p \in Requests \ late', v \in Request : v = req'[p] => v = Idle \/ (p \notin late /\ v = req[p]) \/ Fresh(v)'
    BY <1>t, <2>2, <2>6 DEF TypeOK
  <2> QED
    BY <1>1, <2>4, <2>7, NothingLost DEF BetterRow
<1>3. CASE ~(CountAfter(q) > 0)
  <2>1. late' = late \ {r} /\ req' = [req EXCEPT ![r] = Idle]
    BY <1>0, <1>3 DEF KeysCounted, Ends
  <2>2. TypeOK'
    BY <1>1, <1>t, <2>1 DEF TypeOK, Request
  <2>3. \A p \in Requests \ late', v \in Request : v = req'[p] => v = Idle \/ (p \notin late /\ v = req[p]) \/ Fresh(v)'
    BY <1>t, <2>1 DEF TypeOK
  <2> QED
    BY <1>1, <2>2, <2>3, NothingLost DEF BetterRow
<1> QED
  BY <1>2, <1>3

\* The frame of an action that begins no request: those not overtaken are Idle
\* or as they were.
LEMMA NothingBegins ==
    ASSUME SignInInv, TypeOK', BetterRow, cli' = "idle" => cli = "idle" /\ keys \subseteq keys',
           \A r \in Requests \ late' : req'[r] = Idle \/ (r \notin late /\ req'[r] = req[r])
    PROVE  SignInInv'
BY NothingLost

\* A checked request writes the row.
LEMMA WritesStep ==
    ASSUME SignInInv, NEW r \in Requests, NEW op, NEW newRow, Writes(r, op, newRow),
           row # None => newRow \in Row
    PROVE  SignInInv'
<1>t. TypeOK
  BY DEF SignInInv
<1>1. /\ req' = [req EXCEPT ![r] = Idle] /\ keys' = keys /\ flow' = flow /\ cli' = cli
  BY DEF Writes
<1>2. CASE row = None
  <2>1. row' = row /\ late' = late \ {r} /\ provenWith' = provenWith
    BY <1>2 DEF Writes
  <2>2. TypeOK'
    BY <1>1, <1>t, <2>1 DEF TypeOK, Request
  <2>3. \A p \in Requests \ late' : req'[p] = Idle \/ (p \notin late /\ req'[p] = req[p])
    BY <1>1, <1>t, <2>1 DEF TypeOK
  <2> QED
    BY <1>1, <2>1, <2>2, <2>3, NothingBegins DEF BetterRow
<1>3. CASE row # None
  <2>1. /\ row' = newRow /\ late' = (late \cup {q \in Requests : req[q].op # "idle"}) \ {r}
        /\ provenWith' = IF newRow.telegramUserId = None THEN None ELSE provenWith
    BY <1>3 DEF Writes, Overtakes
  <2>2. TypeOK'
    BY <1>1, <1>3, <1>t, <2>1 DEF TypeOK, Request
  <2>3. \A p \in Requests \ late' : req'[p] = Idle
    BY <1>1, <1>t, <2>1, RequestKinds DEF TypeOK
  <2> QED
    BY <2>2, <2>3, AllOvertaken
<1> QED
  BY <1>2, <1>3

LEMMA PatchWriteStep == ASSUME SignInInv, NEW r \in Requests, PatchWrite(r) PROVE SignInInv'
<1>1. PICK q \in Request : q = req[r]
  BY DEF SignInInv, TypeOK
<1>2. PICK newRow : newRow = Merged(q.dto, q.changed, row)
  OBVIOUS
<1>3. q.op = "patch" /\ Writes(r, "patch", newRow)
  BY <1>1, <1>2 DEF PatchWrite
<1>4. row # None => newRow \in Row
  BY <1>2, <1>3, RequestKinds, MergedType DEF PatchReq, SignInInv, TypeOK
<1> QED
  BY <1>3, <1>4, WritesStep

LEMMA UnlinkWriteStep == ASSUME SignInInv, NEW r \in Requests, UnlinkWrite(r) PROVE SignInInv'
<1>1. PICK newRow : newRow = Unlinked(row)
  OBVIOUS
<1>2. Writes(r, "unlink", newRow)
  BY <1>1 DEF UnlinkWrite
<1>3. row # None => newRow \in Row
  BY <1>1 DEF Unlinked, Row, SignInInv, TypeOK
<1> QED
  BY <1>2, <1>3, WritesStep

LEMMA DeleteKeyStep == ASSUME SignInInv, NEW r \in Requests, DeleteKey(r) PROVE SignInInv'
<1>1. /\ req' = [req EXCEPT ![r] = Idle] /\ keys' \subseteq keys
      /\ late' = (late \cup {q \in Requests : req[q].op # "idle"}) \ {r}
      /\ row' = row /\ flow' = flow /\ cli' = cli /\ provenWith' = provenWith
  BY DEF DeleteKey, Overtakes
<1>t. TypeOK
  BY DEF SignInInv
<1>2. TypeOK'
  BY <1>1, <1>t DEF TypeOK, Request
<1>3. \A p \in Requests \ late' : req'[p] = Idle
  BY <1>1, <1>t, RequestKinds DEF TypeOK
<1> QED
  BY <1>2, <1>3, AllOvertaken

LEMMA TelegramStartStep == ASSUME SignInInv, NEW mode \in {"login", "link"}, TelegramStart(mode) PROVE SignInInv'
<1>t. TypeOK
  BY DEF SignInInv
<1>1. /\ flow' = [mode |-> mode, app |-> row.client.app] /\ row # None /\ row.client # None
      /\ row' = row /\ keys' = keys /\ req' = req /\ cli' = cli /\ provenWith' = provenWith /\ late' = late
  BY DEF TelegramStart
<1>2. row.client.app \in Apps
  BY <1>t, <1>1 DEF TypeOK, Row, Apps
<1>3. TypeOK'
  BY <1>t, <1>1, <1>2 DEF TypeOK
<1> QED
  BY <1>1, <1>3, NothingBegins DEF BetterRow

\* The way back from Telegram.
LEMMA CallbackStep ==
    ASSUME SignInInv, NEW r \in Requests,
           CallbackRead(r) \/ CallbackEnds(r) \/ \E u \in Users : LinkTelegram(r, u)
    PROVE  SignInInv'
<1>t. TypeOK
  BY DEF SignInInv
<1>2. ASSUME CallbackRead(r) PROVE SignInInv'
  <2>1. /\ flow' = None /\ late' = late \ {r} /\ row' = row /\ keys' = keys /\ cli' = cli /\ provenWith' = provenWith
        /\ req[r] = Idle /\ flow # None
    BY <1>2 DEF CallbackRead
  <2>2. CASE UNCHANGED req
    <3>1. TypeOK'
      BY <1>t, <2>1, <2>2 DEF TypeOK
    <3> QED
      BY <2>1, <2>2, <3>1, NothingBegins DEF BetterRow
  <2>3. CASE ~UNCHANGED req
    <3>1. PICK w : /\ w = [op |-> "exchange", client |-> [app |-> flow.app, secret |-> row.client.secret]]
                   /\ req' = [req EXCEPT ![r] = w]
      BY <1>2, <2>3 DEF CallbackRead
    <3>2. row # None /\ row.client # None /\ flow.app = row.client.app
      BY <1>2, <2>3 DEF CallbackRead, SettingsUnchanged
    <3>3. row.client \in Clients
      BY <1>t, <3>2 DEF TypeOK, Row
    <3>4. PICK c \in Clients : c = row.client
      BY <3>3
    <3>5. w.op = "exchange" /\ w.client = c
      BY <3>1, <3>2, <3>4, ClientsAssumption
    <3>6. w \in Request
      BY <3>1, <3>2, <3>4 DEF Request, Apps
    <3>7. TypeOK'
      BY <1>t, <2>1, <3>1, <3>6 DEF TypeOK
    <3>8. Fresh(w)'
      BY <2>1, <3>2, <3>4, <3>5 DEF Fresh, Guarded
    <3>9. \A p \in Requests \ late', v \in Request : v = req'[p] => v = Idle \/ (p \notin late /\ v = req[p]) \/ Fresh(v)'
      BY <1>t, <2>1, <3>1, <3>8 DEF TypeOK
    <3> QED
      BY <2>1, <3>7, <3>9, NothingLost DEF BetterRow
  <2> QED
    BY <2>2, <2>3
<1>3. ASSUME CallbackEnds(r) PROVE SignInInv'
  <2>1. /\ req' = [req EXCEPT ![r] = Idle] /\ late' = late \ {r}
        /\ row' = row /\ keys' = keys /\ flow' = flow /\ cli' = cli /\ provenWith' = provenWith
    BY <1>3 DEF CallbackEnds, Ends
  <2>2. TypeOK'
    BY <1>t, <2>1 DEF TypeOK, Request
  <2>3. \A p \in Requests \ late' : req'[p] = Idle \/ (p \notin late /\ req'[p] = req[p])
    BY <1>t, <2>1 DEF TypeOK
  <2> QED
    BY <2>1, <2>2, <2>3, NothingBegins DEF BetterRow
<1>4. ASSUME NEW u \in Users, LinkTelegram(r, u) PROVE SignInInv'
  <2>1. /\ req' = [req EXCEPT ![r] = Idle] /\ late' = late \ {r} /\ keys' = keys /\ flow' = flow /\ cli' = cli
        /\ req[r].op = "exchange"
    BY <1>4 DEF LinkTelegram
  <2>2. \A p \in Requests \ late' : req'[p] = Idle \/ (p \notin late /\ req'[p] = req[p])
    BY <1>t, <2>1 DEF TypeOK
  <2>3. req[r].client \in [app : Apps, secret : {c.secret : c \in Clients}]
    BY <1>t, <2>1, RequestKinds DEF TypeOK, ExchangeReq
  <2>4. CASE row = None
    <3>1. row' = row /\ provenWith' = provenWith
      BY <1>4, <2>4 DEF LinkTelegram
    <3>2. TypeOK'
      BY <1>t, <2>1, <3>1 DEF TypeOK, Request
    <3> QED
      BY <2>1, <2>2, <3>1, <3>2, NothingBegins DEF BetterRow
  <2>5. CASE row # None
    <3>1. /\ row' = [row EXCEPT !.telegramUserId = u, !.telegramEnabled = TRUE] /\ provenWith' = req[r].client
      BY <1>4, <2>5 DEF LinkTelegram
    <3>2. row \in Row
      BY <1>t, <2>5 DEF TypeOK
    <3>3. row' \in Row
      BY <3>1, <3>2 DEF Row
    <3>4. TypeOK'
      BY <1>t, <2>1, <2>3, <3>1, <3>3 DEF TypeOK, Request
    <3>5. BetterRow
      BY <3>1, <3>2 DEF BetterRow
    <3> QED
      BY <2>1, <2>2, <3>4, <3>5, NothingBegins
  <2> QED
    BY <2>4, <2>5
<1> QED
  BY <1>2, <1>3, <1>4

LEMMA SignInStep == SignInInv /\ [Next]_vars => SignInInv'
<1> SUFFICES ASSUME SignInInv, [Next]_vars PROVE SignInInv'
  OBVIOUS
<1>t. TypeOK
  BY DEF SignInInv
<1>1. ASSUME Setup PROVE SignInInv'
  <2>1. /\ row' = FirstRow /\ req' = req /\ late' = late /\ keys' = keys /\ flow' = flow /\ cli' = cli
        /\ provenWith' = provenWith /\ row = None
    BY <1>1 DEF Setup
  <2>2. FirstRow \in Row
    BY DEF FirstRow, Row
  <2>3. TypeOK'
    BY <1>t, <2>1, <2>2 DEF TypeOK
  <2>4. \A p \in Requests \ late' : req'[p] = Idle
    BY <2>1 DEF SignInInv, ResetOvertakes
  <2> QED
    BY <2>3, <2>4, AllOvertaken
<1>2. ASSUME EnablePassword PROVE SignInInv'
  <2>1. /\ row' = [row EXCEPT !.passwordEnabled = TRUE] /\ req' = req /\ late' = late /\ keys' = keys
        /\ flow' = flow /\ cli' = cli /\ provenWith' = provenWith /\ row # None
    BY <1>2 DEF EnablePassword
  <2>2. row \in Row
    BY <1>t, <2>1 DEF TypeOK
  <2>3. row' \in Row
    BY <2>1, <2>2 DEF Row
  <2>4. TypeOK'
    BY <1>t, <2>1, <2>3 DEF TypeOK
  <2>5. BetterRow
    BY <2>1, <2>2 DEF BetterRow
  <2> QED
    BY <2>1, <2>4, <2>5, NothingBegins
<1>3. ASSUME ResetPasskeys PROVE SignInInv'
  <2>1. /\ keys' = {} /\ cli' = "resetting" /\ row' = row /\ req' = req /\ late' = late
        /\ flow' = flow /\ provenWith' = provenWith
    BY <1>3 DEF ResetPasskeys
  <2>2. TypeOK'
    BY <1>t, <2>1 DEF TypeOK
  <2> QED
    BY <2>1, <2>2, NothingBegins DEF BetterRow
<1>4. ASSUME ResetAdmin PROVE SignInInv'
  <2>1. /\ row' = None /\ cli' = "idle" /\ provenWith' = None /\ late' = {r \in Requests : req[r].op # "idle"}
        /\ keys' = keys /\ req' = req /\ flow' = flow
    BY <1>4 DEF ResetAdmin
  <2>2. TypeOK'
    BY <1>t, <2>1 DEF TypeOK
  <2>3. \A p \in Requests \ late' : req'[p] = Idle
    BY <1>t, <2>1, RequestKinds DEF TypeOK
  <2> QED
    BY <2>2, <2>3, AllOvertaken
<1>5. ASSUME NEW k \in Keys, RegisterKey(k) PROVE SignInInv'
  <2>1. /\ keys' = keys \cup {k} /\ row' = row /\ req' = req /\ late' = late /\ flow' = flow /\ cli' = cli
        /\ provenWith' = provenWith
    BY <1>5 DEF RegisterKey
  <2>2. TypeOK'
    BY <1>t, <2>1 DEF TypeOK
  <2> QED
    BY <2>1, <2>2, NothingBegins DEF BetterRow
<1>6. ASSUME UNCHANGED vars PROVE SignInInv'
  <2>1. /\ row' = row /\ keys' = keys /\ req' = req /\ late' = late /\ flow' = flow /\ cli' = cli
        /\ provenWith' = provenWith
    BY <1>6 DEF vars
  <2>2. TypeOK'
    BY <1>t, <2>1 DEF TypeOK
  <2> QED
    BY <2>1, <2>2, NothingBegins DEF BetterRow
<1> QED
  BY <1>1, <1>2, <1>3, <1>4, <1>5, <1>6, PatchReadStep, KeysCountedStep, PatchWriteStep, UnlinkReadStep,
     UnlinkWriteStep, TelegramStartStep, CallbackStep, DeleteKeyReadStep, DeleteKeyStep DEF Next

LEMMA SignInInit == Init => SignInInv
<1> SUFFICES ASSUME Init PROVE SignInInv
  OBVIOUS
<1>1. TypeOK
  BY DEF Init, TypeOK, Request
<1> QED
  BY <1>1 DEF Init, SignInInv, ChecksStand, ReadingsStand, ResetOvertakes

\* The rows, requests and cookies of the sign-in methods have their types.
THEOREM SignInTypeTheorem == Spec => []TypeOK
<1>1. SignInInv => TypeOK
  BY DEF SignInInv
<1> QED
  BY <1>1, SignInInit, SignInStep, PTL DEF Spec

\* A request nobody has overtaken writes what it has checked.
LEMMA WriteIsPossible ==
    ASSUME SignInInv, cli = "idle", row # None, NEW r \in Requests \ late, NEW q \in Request, q = req[r],
           q.op \in {"patch", "unlink"}, q.checked
    PROVE  SignInPossible(Would(q), Cardinality(keys))
<1>1. Stands(q)
  BY DEF SignInInv, ChecksStand, Guarded
<1>2. CountAfter(q) = Cardinality(keys)
  BY DEF CountAfter
<1> QED
  BY <1>1, <1>2 DEF Stands

\* The lockout guard of patchConfig, unlinkTelegram and the deletion of a
\* passkey: only a request that was overtaken between its check and its write,
\* or reset-admin, takes the last working sign-in method away.
THEOREM GuardTheorem == Spec => GuardHoldsUnlessOvertaken
<1> DEFINE Kept ==
       (/\ row # None /\ SignInPossible(row, Cardinality(keys))
        /\ row' # None /\ ~SignInPossible(row', Cardinality(keys'))
        => OvertakenWrite \/ cli' = "resetting")
<1>1. SignInInv /\ [Next]_vars => [Kept]_vars
  <2> SUFFICES ASSUME SignInInv, Next, row # None, SignInPossible(row, Cardinality(keys)), row' # None,
                      ~OvertakenWrite, cli' # "resetting"
               PROVE  SignInPossible(row', Cardinality(keys'))
    OBVIOUS
  <2>t. TypeOK /\ TypeOK' /\ row \in Row /\ row' \in Row
    BY SignInStep DEF SignInInv, TypeOK
  <2>n. Cardinality(keys) \in Nat
    BY <2>t, KeysFinite
  <2>a. ASSUME keys' = keys, BetterRow PROVE SignInPossible(row', Cardinality(keys'))
    <3>1. Would(Idle) = row /\ Would(Idle)' = row' /\ Idle \in Request
      BY DEF Would, Idle, Request
    <3> QED
      BY <2>a, <2>n, <2>t, <3>1, WouldMonotone
  <2>1. ASSUME NEW r \in Requests, PatchWrite(r) \/ UnlinkWrite(r) PROVE SignInPossible(row', Cardinality(keys'))
    <3>1. PICK q \in Request : q = req[r]
      BY <2>t DEF TypeOK
    <3>2. /\ q.op \in {"patch", "unlink"} /\ q.checked /\ cli' = cli /\ keys' = keys
          /\ req'[r] = Idle /\ row' = Would(q)
      BY <2>1, <2>t, <3>1 DEF PatchWrite, UnlinkWrite, Writes, Would, TypeOK
    <3>3. r \notin late /\ cli = "idle"
      BY <2>t, <3>1, <3>2 DEF OvertakenWrite, Idle, TypeOK
    <3> QED
      BY <3>1, <3>2, <3>3, WriteIsPossible
  <2>2. ASSUME NEW r \in Requests, DeleteKey(r) PROVE SignInPossible(row', Cardinality(keys'))
    <3>1. PICK q \in Request : q = req[r]
      BY <2>t DEF TypeOK
    <3>2. /\ q.op = "delete" /\ q.checked /\ cli' = cli /\ keys' = keys \ {q.key} /\ row' = row /\ req'[r] = Idle
      BY <2>2, <2>t, <3>1 DEF DeleteKey, TypeOK
    <3>3. r \notin late /\ cli = "idle"
      BY <2>t, <3>1, <3>2 DEF OvertakenWrite, Idle, TypeOK
    <3>4. Stands(q)
      BY <3>1, <3>2, <3>3 DEF SignInInv, ChecksStand, Guarded
    <3>5. PICK m \in Nat : m = CountAfter(q)
      BY <2>t, KeysFinite
    <3>6. SignInPossible(row, m)
      BY <3>2, <3>4, <3>5 DEF Stands, Would
    <3>7. PICK n \in Nat : n = Cardinality(keys \ {q.key}) /\ n >= Cardinality(keys) - 1
      BY <2>t, KeysFinite
    <3>8. m <= n
      BY <2>n, <2>t, <3>2, <3>5, <3>7, KeysFinite DEF CountAfter
    <3> QED
      BY <2>t, <3>2, <3>6, <3>7, <3>8, PossibleMonotone
  <2>3. ASSUME NEW k \in Keys, RegisterKey(k) PROVE SignInPossible(row', Cardinality(keys'))
    <3>1. keys \subseteq keys' /\ row' = row /\ IsFiniteSet(keys')
      BY <2>3, <2>t, KeysAssumption, FS_Subset DEF RegisterKey, TypeOK
    <3>2. Cardinality(keys) <= Cardinality(keys') /\ Cardinality(keys') \in Nat
      BY <3>1, FS_Subset, FS_CardinalityType, Zenon
    <3> QED
      BY <2>n, <2>t, <3>1, <3>2, PossibleMonotone
  <2>4. ASSUME EnablePassword PROVE SignInPossible(row', Cardinality(keys'))
    BY <2>4, <2>a, <2>t DEF EnablePassword, BetterRow
  <2>5. ASSUME NEW r \in Requests, NEW u \in Users, LinkTelegram(r, u) PROVE SignInPossible(row', Cardinality(keys'))
    BY <2>5, <2>a, <2>t DEF LinkTelegram, BetterRow
  <2>6. CASE keys' = keys /\ row' = row
    BY <2>6
  <2>7. \/ keys' = keys /\ row' = row
        \/ EnablePassword
        \/ \E r \in Requests : PatchWrite(r) \/ UnlinkWrite(r) \/ DeleteKey(r)
        \/ \E r \in Requests, u \in Users : LinkTelegram(r, u)
        \/ \E k \in Keys : RegisterKey(k)
    BY DEF Next, Setup, ResetPasskeys, ResetAdmin, PatchRead, KeysCounted, UnlinkRead, TelegramStart, CallbackRead,
       CallbackEnds, DeleteKeyRead, Begins
  <2> QED
    BY <2>1, <2>2, <2>3, <2>4, <2>5, <2>6, <2>7
<1> QED
  BY <1>1, SignInInit, SignInStep, PTL DEF Spec, GuardHoldsUnlessOvertaken

\* A linked Telegram account stays proven by the client settings stored now,
\* unless a request that was overtaken writes: new settings drop the link, and
\* the callback compares the settings with those of the start.
THEOREM LinkTheorem == Spec => LinkProvenUnlessOvertaken
<1> DEFINE Kept == LinkIsProven => (LinkIsProven' \/ OvertakenWrite)
<1>1. SignInInv /\ [Next]_vars => [Kept]_vars
  <2> SUFFICES ASSUME SignInInv, Next, LinkIsProven, ~OvertakenWrite PROVE LinkIsProven'
    OBVIOUS
  <2>t. TypeOK /\ TypeOK'
    BY SignInStep DEF SignInInv
  <2>1. ASSUME NEW r \in Requests, PatchWrite(r), row # None PROVE LinkIsProven'
    <3>1. PICK q \in Request : q = req[r]
      BY <2>t DEF TypeOK
    <3>2. PICK w : w = Merged(q.dto, q.changed, row)
      OBVIOUS
    <3>3. /\ q.op = "patch" /\ row' = w /\ req'[r] = Idle
          /\ provenWith' = IF w.telegramUserId = None THEN None ELSE provenWith
      BY <2>1, <2>t, <3>1, <3>2 DEF PatchWrite, Writes, TypeOK
    <3>4. r \notin late
      BY <2>t, <3>1, <3>3 DEF OvertakenWrite, Idle, TypeOK
    <3>5. q.changed = CredsChanged(q.dto, row)
      BY <2>1, <3>1, <3>3, <3>4 DEF SignInInv, ReadingsStand
    <3>6. w.telegramUserId # None => ~q.changed /\ w.telegramUserId = row.telegramUserId
      BY <3>2 DEF Merged
    <3>7. ~q.changed => w.client = row.client
      BY <3>2, <3>5 DEF Merged, CredsChanged
    <3> QED
      BY <2>1, <3>3, <3>6, <3>7 DEF LinkIsProven
  <2>2. ASSUME NEW r \in Requests, UnlinkWrite(r), row # None PROVE LinkIsProven'
    <3>1. row \in Row /\ row' = Unlinked(row)
      BY <2>2, <2>t DEF UnlinkWrite, Writes, TypeOK
    <3>2. row'.telegramUserId = None
      BY <3>1 DEF Unlinked, Row
    <3> QED
      BY <3>2 DEF LinkIsProven
  <2>3. ASSUME NEW r \in Requests, NEW u \in Users, LinkTelegram(r, u), row # None PROVE LinkIsProven'
    <3>1. PICK q \in Request : q = req[r]
      BY <2>t DEF TypeOK
    <3>2. /\ row \in Row /\ row' = [row EXCEPT !.telegramUserId = u, !.telegramEnabled = TRUE]
          /\ provenWith' = q.client /\ q.op = "exchange" /\ req'[r] = Idle
      BY <2>3, <2>t, <3>1 DEF LinkTelegram, TypeOK
    <3>3. r \notin late
      BY <2>t, <3>1, <3>2 DEF OvertakenWrite, Idle, TypeOK
    <3>4. q.client = row.client
      BY <2>3, <3>1, <3>2, <3>3 DEF SignInInv, ReadingsStand
    <3>5. row'.client = row.client
      BY <3>2 DEF Row
    <3> QED
      BY <3>2, <3>4, <3>5 DEF LinkIsProven
  <2>4. ASSUME EnablePassword PROVE LinkIsProven'
    <3>1. row \in Row /\ row # None /\ row' = [row EXCEPT !.passwordEnabled = TRUE] /\ provenWith' = provenWith
      BY <2>4, <2>t DEF EnablePassword, TypeOK
    <3>2. row'.client = row.client /\ row'.telegramUserId = row.telegramUserId
      BY <3>1 DEF Row
    <3> QED
      BY <3>1, <3>2 DEF LinkIsProven
  <2>5. ASSUME Setup PROVE LinkIsProven'
    BY <2>5 DEF Setup, FirstRow, LinkIsProven
  <2>6. CASE row' = None
    BY <2>6 DEF LinkIsProven
  <2>7. CASE row' = row /\ provenWith' = provenWith
    BY <2>7 DEF LinkIsProven
  <2>8. \/ row' = row /\ provenWith' = provenWith
        \/ row' = None
        \/ EnablePassword \/ Setup
        \/ row # None /\ \E r \in Requests : PatchWrite(r) \/ UnlinkWrite(r)
        \/ row # None /\ \E r \in Requests, u \in Users : LinkTelegram(r, u)
    <3>1. ASSUME NEW r \in Requests, row = None, PatchWrite(r) \/ UnlinkWrite(r) PROVE row' = None
      BY <3>1 DEF PatchWrite, UnlinkWrite, Writes
    <3>2. ASSUME NEW r \in Requests, NEW u \in Users, row = None, LinkTelegram(r, u) PROVE row' = None
      BY <3>2 DEF LinkTelegram
    <3>3. \/ row' = row /\ provenWith' = provenWith
          \/ row' = None
          \/ EnablePassword \/ Setup
          \/ \E r \in Requests : PatchWrite(r) \/ UnlinkWrite(r)
          \/ \E r \in Requests, u \in Users : LinkTelegram(r, u)
      BY DEF Next, ResetPasskeys, ResetAdmin, PatchRead, KeysCounted, UnlinkRead, TelegramStart, CallbackRead,
         CallbackEnds, DeleteKeyRead, DeleteKey, RegisterKey, Begins
    <3> QED
      BY <3>1, <3>2, <3>3
  <2> QED
    BY <2>1, <2>2, <2>3, <2>4, <2>5, <2>6, <2>7, <2>8
<1> QED
  BY <1>1, SignInInit, SignInStep, PTL DEF Spec, LinkProvenUnlessOvertaken
=============================================================================
