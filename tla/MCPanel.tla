------------------------------ MODULE MCPanel ------------------------------
(***************************************************************************)
(* OwnerView for TLC.  To keep the state space the sum of its parts and    *)
(* not their product, `moves` says which of them moves, the others stand   *)
(* still.                                                                  *)
(***************************************************************************)
EXTENDS OwnerView

VARIABLE moves

allVars == <<moves, vars, cVars, fVars, aVars>>

\* What stands still does so in one of its first states.
MCInit ==
    /\ moves \in {"panel", "credentials", "favicons", "autosync"}
    /\ Init /\ (moves # "panel" => watched = <<"me", "username">> /\ page = "login")
    /\ C!Init /\ (moves # "credentials" => kind = "manual" /\ blob = Absent)
    /\ A!Init /\ (moves # "autosync" => hours = 1)
    /\ F!Init
MCNext ==
    /\ moves' = moves
    /\ \/ moves = "panel" /\ Next /\ UNCHANGED <<cVars, fVars, aVars>>
       \/ moves = "credentials" /\ (C!Next \/ (writes = MaxWrites /\ UNCHANGED cVars)) /\ UNCHANGED <<vars, fVars, aVars>>
       \/ moves = "favicons" /\ F!Next /\ UNCHANGED <<vars, cVars, aVars>>
       \/ moves = "autosync" /\ A!Next /\ UNCHANGED <<vars, cVars, fVars>>
MCSpec == MCInit /\ [][MCNext]_allVars
=============================================================================
