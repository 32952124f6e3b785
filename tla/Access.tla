------------------------------- MODULE Access -------------------------------
(***************************************************************************)
(* Who gets in: the sign-in methods (SignIn), the secret behind the session*)
(* cookies (Sessions), the passkey ceremonies (Ceremony) and the tokens of *)
(* the API (ApiAccess), side by side over the same requests.  They share no*)
(* variable.                                                               *)
(***************************************************************************)
EXTENDS SignIn

CONSTANTS Secrets, Challenges, MaxCounter, Tokens

VARIABLES stored, cached, sessionCall, cookies, mixed,
          store, answers, signs, registered, counter, call, accepted, best, raced,
          token, request

\* NULL is no secret, no challenge and no scope.
ASSUME NullAssumption == None \notin Secrets \cup Challenges \cup {"read", "full"}

S == INSTANCE Sessions WITH Calls <- Requests, call <- sessionCall
C == INSTANCE Ceremony WITH Calls <- Requests
A == INSTANCE ApiAccess

sVars == <<stored, cached, sessionCall, cookies, mixed>>
cVars == <<store, answers, signs, registered, counter, call, accepted, best, raced>>
aVars == <<token, request>>

\* The properties of the instances, under their own names.  Sessions: a cookie
\* handed out since the admin account was set up is accepted.
SessionsHonoured == S!SessionsHonoured
\* Ceremony: an answer of the authenticator is accepted once, in its turn.
NoReplay == C!NoReplay
\* ApiAccess: no handler runs beyond the scope of its token.
ScopeRespected == A!ScopeRespected
=============================================================================
