SPECIFICATION Spec
CONSTANTS
    Providers = {p1, p2}
    Accounts = {a1, a2, a3}
    Kinds = {k1, k2}
    NoKind = NoKind
    Labels = {l1, l2}
    Main = Main
    NoAcct = NoAcct
    NoProv = NoProv
    NoTxn = NoTxn
    Edits = {e1}
    Deletes = {d1, d2}
    Merges = {m1}
SYMMETRY Symmetry
INVARIANTS NeverEmpty CredentialsFitKind
PROPERTIES CleanMergeKeepsAll
CHECK_DEADLOCK FALSE
