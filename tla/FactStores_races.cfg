SPECIFICATION Spec
CONSTANTS
    a1 = a1
    a2 = a2
    b1 = b1
    A = A
    B = B
    Thread = {t1, t2}
    Text = {a1, a2, b1}
    Subject = {A, B}
    Topic <- AboutText
    Capacity = 2
    Threshold = 1
    MaxFacts = 3
    Faults = {"overlap", "reset"}
SYMMETRY Symmetry
INVARIANTS HashesExact FabricHasAll
CHECK_DEADLOCK FALSE
