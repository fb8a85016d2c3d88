SPECIFICATION Spec
CONSTANTS
    t1 = t1
    t2 = t2
    root = root
    a = a
    b = b
    c1 = c1
    c2 = c2
    c3 = c3
    none = none
    Pool = {t1, t2}
    Root = root
    UseCaller = FALSE
    Fds = {a}
    EventsOf <- ReadOnly
    ConditionsOf <- InOnly
    Refused = {}
    Tasks = {c1, c2}
    None = none
SYMMETRY Symmetry
INVARIANTS TickleWakes
