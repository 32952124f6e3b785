------------------------------ MODULE MCAccess ------------------------------
(***************************************************************************)
(* Access for TLC.  To keep the state space the sum of its parts and not   *)
(* their product, one part moves at a time and the others stay in their    *)
(* first state.                                                            *)
(***************************************************************************)
EXTENDS Access, TLC

allVars == <<vars, sVars, cVars, aVars>>

MCInit == Init /\ S!Init /\ C!Init /\ A!Init
MCNext ==
    \/ S!Init /\ C!Init /\ A!Init /\ Next /\ UNCHANGED <<sVars, cVars, aVars>>
    \/ Init /\ C!Init /\ A!Init /\ S!Next /\ UNCHANGED <<vars, cVars, aVars>>
    \/ Init /\ S!Init /\ A!Init /\ C!Next /\ UNCHANGED <<vars, sVars, aVars>>
    \/ Init /\ S!Init /\ C!Init /\ A!Next /\ UNCHANGED <<vars, sVars, cVars>>
MCClients == {[app |-> "a", secret |-> "x"], [app |-> "a", secret |-> "y"], [app |-> "b", secret |-> "x"]}
MCSpec == MCInit /\ [][MCNext]_allVars

KeepAll  == [passwordEnabled |-> "keep", passkeyEnabled |-> "keep", rp |-> "keep",
             telegramEnabled |-> "keep", client |-> Absent]
OneFlag  == {[KeepAll EXCEPT ![f] = v] : f \in DOMAIN KeepAll \ {"client"}, v \in {"on", "off"}}
Settings == {[KeepAll EXCEPT !.client = c] : c \in Clients \cup {None}}
AllPatches == OneFlag \cup Settings
\* Bound: of the switches, those that take something away and those that no
\* other action sets.
MethodPatches == {[KeepAll EXCEPT !.client = c] : c \in Clients}
    \cup {[KeepAll EXCEPT !.passwordEnabled = "off"], [KeepAll EXCEPT !.passkeyEnabled = "on"],
          [KeepAll EXCEPT !.passkeyEnabled = "off"], [KeepAll EXCEPT !.rp = "on"]}

Symmetry == Permutations(Keys) \cup Permutations(Requests)
=============================================================================
