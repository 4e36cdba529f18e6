SPECIFICATION Spec
CONSTANTS
    Objs = {o1, o2}
    Attrs = {a1}
    Values = {v1, bad}
    Undecodable = {bad}
    Unstamped = {}
    InitialSchema = {a1}
    Malformed = {}
    MaxUSN = 2
    MaxFaults = 0
    MaxCrashes = 1
    Unstorable = {}
    UsnAttr = uSNChanged
    Absent = Absent
    NilSlice = NilSlice
    NoRow = NoRow
    Null = Null
INVARIANT BatchAccepted
