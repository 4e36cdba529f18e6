SPECIFICATION Spec
CONSTANTS
    Objs = {o1, o2}
    None = None
    MaxUSN = 2
    MaxRequests = 2
SYMMETRY Symmetry
INVARIANT HistoryOfSelected
