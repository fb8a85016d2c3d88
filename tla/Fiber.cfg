SPECIFICATION Spec
CONSTANTS
    t1 = t1
    main = main
    root = root
    f1 = f1
    f2 = f2
    f3 = f3
    f4 = f4
    none = none
    Threads = {t1, main}
    Caller = main
    Root = root
    Fibers = {f1, f2, f3, f4}
    None = none
SYMMETRY Symmetry
CHECK_DEADLOCK FALSE
INVARIANTS TypeOK GetThisIsRight WayBack LivesWhileUsed
