SPECIFICATION Spec
CONSTANTS
    Objs = {o1, o2, o3}
    Attrs = {a1}
    Values = {v1}
    Undecodable = {}
    Unstamped = {}
    InitialSchema = {a1}
    Malformed = {o3}
    MaxUSN = 3
    MaxFaults = 1
    MaxCrashes = 1
    Unstorable = {}
    UsnAttr = uSNChanged
    Absent = Absent
    NilSlice = NilSlice
    NoRow = NoRow
    Null = Null
SYMMETRY Symmetry
INVARIANTS
    TypeOK
    LatestVersionIsCurrent
    BatchAccepted
    NoFaultNoLoss
PROPERTIES
    AuditLogImplemented
    DomainHighestNeverFalls
