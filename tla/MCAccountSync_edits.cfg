SPECIFICATION Spec
CONSTANTS
    Syncs = {s1, s2}
    Requests = {r1}
    ExtIds = {x}
    Uuids = {u1}
    Fields = {"cost"}
    Values = {zero, v1}
    Zero = zero
    NoVal = NoVal
    NoExt = NoExt
    NoUuid = NoUuid
    NoRow = NoRow
    FETCH_ATTEMPTS = 1
    MaxManual = 1
SYMMETRY Symmetry
INVARIANTS   PinHoldsUnlessRaced
PROPERTIES FreshUpdateKeepsEdits
CHECK_DEADLOCK FALSE
