SPECIFICATION MCSpec
CONSTANTS
    Keys = {k1}
    Clients <- MCClients
    Users = {u1}
    Requests = {r1}
    Patches <- AllPatches
    None = None
    Absent = Absent
    Secrets = {s1}
    Challenges = {h1}
    MaxCounter = 2
    Tokens = {t1}
PROPERTY OwnerCanSignIn
