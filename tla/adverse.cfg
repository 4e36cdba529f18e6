SPECIFICATION Spec
CONSTANTS
    Objs = {o1, o2}
    Attrs = {a1}
    Values = {v1, bad}
    Undecodable = {bad}
    Unstamped = {a1}
    InitialSchema = {}
    Malformed = {}
    MaxUSN = 2
    MaxFaults = 1
    MaxCrashes = 1
    Unstorable = {}
    UsnAttr = uSNChanged
    Absent = Absent
    NilSlice = NilSlice
    NoRow = NoRow
    Null = Null
SYMMETRY Symmetry
INVARIANTS
    PointerIsNewest
    DomainUSNRecorded
PROPERTIES
    AuditLogImplemented
    PassDescends
