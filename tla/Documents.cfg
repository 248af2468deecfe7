SPECIFICATION Spec
CONSTANTS
    Names = {n1, n2}
    Tracks = {t1, t2}
    Wrong = Wrong
    Absent = Absent
    None = None
    MaxItems = 2
INVARIANT
    SavedLoadsBack
CHECK_DEADLOCK FALSE
