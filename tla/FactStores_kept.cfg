SPECIFICATION Spec
CONSTANTS
    a1 = a1
    a2 = a2
    b1 = b1
    A = A
    B = B
    Thread = {t1, t2}
    Text = {a1, a2, b1}
    Subject = {A, B}
    Topic <- AboutText
    Capacity = 4
    Threshold = 1
    MaxFacts = 4
    Faults = {"crash", "io"}
SYMMETRY Symmetry
PROPERTIES ImplementsKnowledge
CHECK_DEADLOCK FALSE
