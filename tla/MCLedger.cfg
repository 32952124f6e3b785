SPECIFICATION Spec
CONSTANTS
    Accounts = {a1, a2}
    Providers = {p1, p2}
    Projects = {Default, j1}
    Services = {s1}
    Payments = {y1, y2}
    Default = Default
    ExtIds = {e1}
    ChargeIds = {c1}
    Requests = {r1, r2}
    Work <- OneOfEach
    r1 = r1
    r2 = r2
    Imports = {i1}
    None = None
INVARIANTS PairsFit LinksFit CleanImportComplete
PROPERTIES ManualUntouched ProjectsAtomic
SYMMETRY Symmetry
