SPECIFICATION Spec
CONSTANTS
    t1 = t1
    t2 = t2
    root = root
    c1 = c1
    c2 = c2
    c3 = c3
    f1 = f1
    f2 = f2
    f3 = f3
    none = none
    any = any
    Pool = {}
    Root = root
    UseCaller = TRUE
    Callbacks = {c1, c2, c3}
    Fibers = {f1, f2, f3}
    AnyThread = any
    None = none
    MaxYields = 2
    MaxDups = 1
    MaxStarts = 2
    Pins = "any"
    PromptWake = TRUE
SYMMETRY Symmetry
INVARIANTS SoloInv AtMostOnce NoAssertFailure StopDrains
