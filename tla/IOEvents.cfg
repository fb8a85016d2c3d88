SPECIFICATION Spec
CONSTANTS
    t1 = t1
    t2 = t2
    root = root
    a = a
    b = b
    c1 = c1
    c2 = c2
    c3 = c3
    none = none
    Pool = {t1}
    Root = root
    UseCaller = TRUE
    Fds = {a, b}
    EventsOf <- BothAndOne
    ConditionsOf <- BothAndHup
    Refused = {b}
    Tasks = {c1, c2, c3}
    None = none
SYMMETRY Symmetry
INVARIANTS IInv PendingAgrees ContextAgrees NotForgotten OneHome OnlyStaleTriggers StopDrains
