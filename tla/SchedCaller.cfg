SPECIFICATION FairSpec
CONSTANTS
    t1 = t1
    t2 = t2
    root = root
    c1 = c1
    c2 = c2
    c3 = c3
    f1 = f1
    f2 = f2
    f3 = f3
    none = none
    any = any
    Pool = {t1}
    Root = root
    UseCaller = TRUE
    Callbacks = {c1, c2}
    Fibers = {f1, f2}
    AnyThread = any
    None = none
    MaxYields = 1
    MaxDups = 0
    MaxStarts = 1
    Pins = "none"
    PromptWake = FALSE
PROPERTIES EveryTaskStarts StopReturns
