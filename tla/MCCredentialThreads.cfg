SPECIFICATION Spec
CONSTANTS
    s1 = s1
    s2 = s2
    s3 = s3
    p1 = p1
    p2 = p2
    Saves = {s1, s2, s3}
    Loads = {l1, l2}
    Processes = {p1, p2}
    ProcessOf <- TwoAndOne
    Overlap = TRUE
INVARIANT FileWhole
CHECK_DEADLOCK FALSE
