SPECIFICATION Spec
CONSTANTS
    Objs = {o1, o2}
    None = None
    MaxUSN = 4
    MaxRequests = 3
SYMMETRY Symmetry
INVARIANTS
    TypeOK
    SettledHistoryOfSelected
    VersionNumbersStable
    DetailsBelongToRow
