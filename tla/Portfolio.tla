------------------------------ MODULE Portfolio ------------------------------
(***************************************************************************)
(* What the projects promise, without transactions or requests in flight:  *)
(* every service is in exactly one existing project, a project goes away   *)
(* only together with the move of ALL its services to the default project, *)
(* and no operation on projects ever loses a service.                      *)
(***************************************************************************)
EXTENDS Naturals

CONSTANTS
    Services,   \* primary keys of services
    Projects,   \* primary keys of projects
    Default,    \* DEFAULT_PROJECT_UUID
    None        \* no row, NULL

VARIABLES
    projects,   \* the projects that exist
    place       \* the project of each service, None for one that does not exist

vars == <<projects, place>>

In(p) == {s \in Services : place[s] = p}

Init == projects = {Default} /\ place = [s \in Services |-> None]

CreateProject(p) == p \notin projects /\ projects' = projects \cup {p} /\ UNCHANGED place

AddService(s, p) ==
    /\ place[s] = None /\ p \in projects
    /\ place' = [place EXCEPT ![s] = p] /\ UNCHANGED projects

\* One service is deleted, or those of an account that goes.
DropServices(S) ==
    /\ place' = [s \in Services |-> IF s \in S THEN None ELSE place[s]]
    /\ UNCHANGED projects

\* One service, those of a project or all of them are put into project p.
MoveServices(S, p) ==
    /\ p \in projects /\ \A s \in S : place[s] # None
    /\ place' = [s \in Services |-> IF s \in S THEN p ELSE place[s]]
    /\ UNCHANGED projects

RemoveProject(p) ==
    /\ p \in projects \ {Default}
    /\ projects' = projects \ {p}
    /\ place' = [s \in Services |-> IF s \in In(p) THEN Default ELSE place[s]]

Next ==
    \/ \E p \in Projects : CreateProject(p) \/ RemoveProject(p)
    \/ \E s \in Services, p \in Projects : AddService(s, p)
    \/ \E S \in SUBSET Services : DropServices(S) \/ \E p \in Projects : MoveServices(S, p)

Spec == Init /\ [][Next]_vars
=============================================================================
