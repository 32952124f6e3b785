------------------------------ MODULE Sessions ------------------------------
(***************************************************************************)
(* The secret that signs session cookies: stored (encrypted) on the admin  *)
(* row, cached in the process after the first read.  Every request with a  *)
(* cookie, and every sign-in, asks for it.  The process restarts; the      *)
(* command line deletes the row behind its back, and setup makes a new     *)
(* one.                                                                    *)
(***************************************************************************)
EXTENDS Naturals

CONSTANTS Secrets, Calls, None

VARIABLES
    stored,     \* sessionSecretEnc of the admin row, None without a row
    cached,     \* cachedSecret
    call,       \* calls of setup, sign and verify between two awaits
    cookies,    \* secrets of the cookies handed out since the last setup
    mixed       \* history: a call held a secret across a reset of the admin row

vars == <<stored, cached, call, cookies, mixed>>

Idle == [op |-> "idle"]

Init ==
    /\ stored = None /\ cached = None /\ cookies = {} /\ mixed = FALSE
    /\ call = [c \in Calls |-> Idle]

Unused == Secrets \ ({stored, cached} \cup cookies \cup {call[c].secret : c \in {d \in Calls : call[d] # Idle}})

\* setup: no admin row yet; the insert fails if another setup was faster.
SetupCreates(c) ==
    /\ call[c] = Idle /\ stored = None
    /\ \E s \in Unused : stored' = s /\ call' = [call EXCEPT ![c] = [op |-> "setup", secret |-> s]]
    /\ UNCHANGED <<cached, cookies, mixed>>

\* The cache takes the new secret, and the new admin's cookie is signed with it.
SetupCaches(c) ==
    /\ call[c].op = "setup"
    /\ cached' = call[c].secret
    /\ cookies' = cookies \cup {call[c].secret}
    /\ call' = [call EXCEPT ![c] = Idle]
    /\ mixed' = (mixed \/ call[c].secret # stored)
    /\ UNCHANGED stored

\* A sign-in that succeeded gets its cookie at once when the secret is cached.
SignCached ==
    /\ cached # None /\ stored # None
    /\ cookies' = cookies \cup {cached}
    /\ mixed' = (mixed \/ cached # stored)
    /\ UNCHANGED <<stored, cached, call>>

\* getSessionSecret without a cache: the row is read ...
ReadSecret(c, op) ==
    /\ call[c] = Idle /\ cached = None /\ stored # None
    /\ call' = [call EXCEPT ![c] = [op |-> op, secret |-> stored]]
    /\ UNCHANGED <<stored, cached, cookies, mixed>>

\* ... and cached after the await; sign goes on to hand out a cookie.
\* Mutant: the cookie is signed with a secret of its own.
CacheSecretLost(c) ==
    /\ call[c].op \in {"sign", "verify"}
    /\ cached' = (IF call[c].op = "verify" THEN call[c].secret ELSE cached)
    /\ cookies' = IF call[c].op = "sign" THEN cookies \cup Unused ELSE cookies
    /\ call' = [call EXCEPT ![c] = Idle]
    /\ mixed' = (mixed \/ call[c].secret # stored)
    /\ UNCHANGED stored
CacheSecret(c) ==
    /\ call[c].op \in {"sign", "verify"}
    /\ cached' = call[c].secret
    /\ cookies' = IF call[c].op = "sign" THEN cookies \cup {call[c].secret} ELSE cookies
    /\ call' = [call EXCEPT ![c] = Idle]
    /\ mixed' = (mixed \/ call[c].secret # stored)
    /\ UNCHANGED stored

\* The process restarts: the cache and every call are gone.
Restart ==
    /\ cached' = None /\ call' = [c \in Calls |-> Idle]
    /\ UNCHANGED <<stored, cookies, mixed>>

\* reset-admin deletes the row; cookies of the old admin are promised nothing.
ResetAdmin ==
    /\ stored # None /\ stored' = None /\ cookies' = {}
    /\ UNCHANGED <<cached, call, mixed>>

Next ==
    \/ \E c \in Calls : SetupCreates(c) \/ SetupCaches(c) \/ CacheSecret(c)
    \/ \E c \in Calls, op \in {"sign", "verify"} : ReadSecret(c, op)
    \/ SignCached \/ Restart \/ ResetAdmin

Spec == Init /\ [][Next]_vars

\* The secret verify checks a cookie against.
Effective == IF cached # None THEN cached ELSE stored

\* Every cookie handed out since the admin account was set up is accepted, also
\* after a restart ("Survives restarts"), and none from before: unless a call
\* held a secret while the command line replaced the admin row.
SessionsHonoured ==
    stored # None /\ ~mixed => \A s \in cookies : s = Effective /\ s = stored
=============================================================================
