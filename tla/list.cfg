SPECIFICATION FairSpec
CONSTANTS
    Objs = {o1, o2}
    Named = {o1}
    Types = {t1, t2}
    All = All
    None = None
    o1 = o1 o2 = o2 t1 = t1 t2 = t2
    Stored <- MCStored
    Limit = 1
    MaxCommits = 1
    MaxEdits = 2
INVARIANTS
    SettledListMatchesControls
    TotalCoversPage
    PagesCoverMatches
PROPERTY LoadingEnds
