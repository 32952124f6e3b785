SPECIFICATION MCSpec
CONSTANTS
    None = None
    Absent = Absent
    MaxCommits = 1
    Kinds = {"selectel", "cloudflare", "hostbill", "4vps", "aeza", "vdsina", "openrouter", "doubleservers",
             "porkbun", "spaceship", "yandex", "netcup", "netlen", "vultr", "linode", "hostkey", "netangels",
             "stormwall", "hostup", "hetzner", "timeweb", "manual"}
    MaxWrites = 2
    MaxTyped = 1
    Entities = {e1, e2}
    MaxEdits = 2
    MAX_ENTRIES = 1
    Accounts = {a1, a2}
    Hours = {1, 2, 4}
    MaxTimer = 3
    Rounds = {q1, q2}
    Saves = {s1, s2}
INVARIANTS UpToDateUnlessExcused StoredCredentialsWork IconIsCurrentUnlessOvertaken CadenceUnlessRaced
 
