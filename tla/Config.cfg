SPECIFICATION FairSpec
CONSTANTS
    t1 = t1
    t2 = t2
    n1 = n1
    n2 = n2
    bad_name = bad_name
    int = int
    str = str
    list = list
    v1 = v1
    v2 = v2
    x = x
    y = y
    bad = bad
    l1 = l1
    l2 = l2
    l3 = l3
    l4 = l4
    none = none
    Threads = {t1, t2}
    Setters = {t1}
    Names = {n1, n2, bad_name}
    ValidNames = {n1, n2}
    Types = {int, list}
    TypesOf <- SomeShared
    Vars = {v1, v2}
    Values = {x, y}
    Default = x
    Bad = bad
    Roots <- Documents
    Listeners = {l1, l2}
    Throwing = {l2}
    None = none
    MaxCalls = 7
INVARIANTS IInv OneVariable KeysHold ListenersInStep
PROPERTIES RoundIsStable EveryCallEnds
