SPECIFICATION Spec
CONSTANTS
    s1 = s1 s2 = s2 s3 = s3 b1 = b1 b2 = b2 b3 = b3 b4 = b4 b5 = b5 none = none
    w1 = w1 w2 = w2 m1 = m1 m2 = m2 u1 = u1 u2 = u2
    Texts = {s1, s2, s3, none}
    Blobs = {b1, b2, b3, b4, b5}
    WellFormed <- MCWellFormed
    SidOf <- MCSidOf
    Empty = Empty
    NotApplicable = NotApplicable
    NilSlice = NilSlice
    MinInt <- MCMinInt
    MaxInt = 127
    EpochOffset = 37
    Ticks = 4
    Descriptors <- MCDescriptors
    NoDescriptor = NoDescriptor
    Attributes <- MCAttributes
    Lists <- MCLists
    Parse <- MCParse
    Garbage = Garbage
    Null = Null
    Absent = Absent
    NoneText = none
INVARIANTS
    ChangeRecorded
    RecordMeansChange
    ScreenMatchesDirectory
    AnnotationsPair
