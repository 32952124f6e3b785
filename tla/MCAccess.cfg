SPECIFICATION MCSpec
CONSTANTS
    Keys = {k1, k2}
    Clients <- MCClients
    Users = {u1}
    Requests = {r1, r2}
    Patches <- MethodPatches
    None = None
    Absent = Absent
    Secrets = {s1, s2}
    Challenges = {h1, h2, h3}
    MaxCounter = 4
    Tokens = {t1, t2}
SYMMETRY Symmetry
INVARIANTS SessionsHonoured ScopeRespected
PROPERTIES GuardHoldsUnlessOvertaken LinkProvenUnlessOvertaken NoReplay
