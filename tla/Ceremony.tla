------------------------------ MODULE Ceremony ------------------------------
(***************************************************************************)
(* WebAuthn ceremonies over the challenge store, one slot per kind: the    *)
(* panel asks for options, the authenticator answers, the panel sends the  *)
(* answer, possibly late, twice, or from another tab.  One passkey with a  *)
(* signature counter; verifications overlap.                               *)
(***************************************************************************)
EXTENDS Naturals

CONSTANTS
    Challenges, \* random values, each drawn once
    Calls,      \* verifications in flight
    MaxCounter, \* bound of the authenticator's counter
    None

Kinds == {"register", "login"}

VARIABLES
    store,      \* ChallengeStore: the open challenge of each kind
    answers,    \* answers the authenticator has signed
    signs,      \* its counter
    registered, \* the passkey is in the table
    counter,    \* the counter recorded for it
    call,       \* verifications past take()
    accepted,   \* history: answers accepted, in kind and challenge
    best,       \* history: highest counter accepted so far
    raced       \* history: verifications overlapped

vars == <<store, answers, signs, registered, counter, call, accepted, best, raced>>

Answer == [kind : Kinds, challenge : Challenges, counter : 0..MaxCounter]
Idle   == [op |-> "idle"]

Init ==
    /\ store = [k \in Kinds |-> None] /\ answers = {} /\ signs \in {0, 1}
    /\ registered = FALSE /\ counter = 0
    /\ call = [c \in Calls |-> Idle]
    /\ accepted = {} /\ best = 0 /\ raced = FALSE

Drawn == {a.challenge : a \in answers} \cup {store[k] : k \in Kinds}

\* registerOptions, loginOptions: a new challenge replaces the open one.  The
\* authenticator answers; one that counts (signs # 0) counts up.
Options(kind, c) ==
    /\ c \notin Drawn
    /\ kind = "login" => registered
    /\ store' = [store EXCEPT ![kind] = c]
    /\ answers' = answers \cup {[kind |-> kind, challenge |-> c, counter |-> signs]}
    /\ signs' = IF signs = 0 THEN 0 ELSE signs + 1
    /\ signs' <= MaxCounter
    /\ UNCHANGED <<registered, counter, call, accepted, best, raced>>

\* Mutant: the challenge stays in the store.
TakeKeeps(kind) == UNCHANGED store
\* take: the challenge is removed whether it fits or not.
Take(kind) == store' = [store EXCEPT ![kind] = None]

\* verifyRegistration, verifyLogin: the challenge is taken and compared with the
\* one that was signed; a login goes on to read the passkey.
Verify(c, a) ==
    /\ call[c] = Idle /\ a \in answers
    /\ Take(a.kind)
    /\ IF store[a.kind] = a.challenge /\ (a.kind = "login" => registered)
       THEN call' = [call EXCEPT ![c] = [op |-> "verified", answer |-> a, counter |-> counter]]
       ELSE UNCHANGED call
    /\ raced' = (raced \/ (call' # call /\ \E d \in Calls : call[d] # Idle))
    /\ UNCHANGED <<answers, signs, registered, counter, accepted, best>>

\* Mutant: without the regression check.
CounterOkAlways(n, old) == TRUE
\* "only reject when a real (non-zero) counter went backwards".
CounterOk(n, old) == n = 0 \/ n > old

Accept(c) ==
    LET a == call[c].answer IN
    /\ call[c].op = "verified"
    /\ call' = [call EXCEPT ![c] = Idle]
    /\ IF a.kind = "register" \/ CounterOk(a.counter, call[c].counter)
       THEN /\ registered' = TRUE /\ counter' = a.counter
            /\ accepted' = accepted \cup {a}
            /\ best' = IF a.counter > best THEN a.counter ELSE best
       ELSE UNCHANGED <<registered, counter, accepted, best>>
    /\ UNCHANGED <<store, answers, signs, raced>>

\* A challenge outlives its minute, or the process restarts.
Expire(kind) ==
    /\ store[kind] # None /\ store' = [store EXCEPT ![kind] = None]
    /\ UNCHANGED <<answers, signs, registered, counter, call, accepted, best, raced>>

Next ==
    \/ \E kind \in Kinds, c \in Challenges : Options(kind, c)
    \/ \E c \in Calls, a \in answers : Verify(c, a)
    \/ \E c \in Calls : Accept(c)
    \/ \E kind \in Kinds : Expire(kind)

Spec == Init /\ [][Next]_vars

\* An answer is accepted once at most, in whatever order and however often the
\* answers of several tabs arrive, and a login whose counter does not exceed
\* every counter accepted before is refused unless verifications overlapped.
NoReplay ==
    [][\A a \in answers : \A c \in Calls :
         /\ call[c] # Idle /\ call[c].answer = a /\ call'[c] = Idle /\ counter' # counter
         => /\ a \notin accepted
            /\ raced \/ a.kind = "register" \/ a.counter = 0 \/ a.counter > best]_vars
=============================================================================
