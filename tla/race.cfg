SPECIFICATION Spec
CONSTANTS
    Objs = {o1, o2}
    Attrs = {a1}
    Values = {v1}
    Undecodable = {}
    Unstamped = {}
    InitialSchema = {a1}
    Malformed = {}
    MaxUSN = 2
    MaxFaults = 0
    MaxCrashes = 0
    Unstorable = {}
    UsnAttr = uSNChanged
    Absent = Absent
    NilSlice = NilSlice
    NoRow = NoRow
    Null = Null
INVARIANT NoSkippedChange
