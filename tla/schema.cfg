SPECIFICATION FairSpec
CONSTANTS
    Guids = {g1, g2, g3}
    Names = {n1, n2}
    NoName = NoName
    NoGuid = NoGuid
    Unmapped = {g3}
    MaxFaults = 1
    MaxCrashes = 1
INVARIANTS
    TypeOK
    RegistryStored
    RefusedOnlyIfReused
PROPERTY ResetRepairs
