SPECIFICATION Spec
CONSTANTS
    t1 = t1
    t2 = t2
    n1 = n1
    n2 = n2
    bad_name = bad_name
    int = int
    str = str
    list = list
    v1 = v1
    v2 = v2
    x = x
    y = y
    bad = bad
    l1 = l1
    l2 = l2
    l3 = l3
    l4 = l4
    none = none
    Threads = {t1, t2}
    Setters = {}
    Names = {n1, n2}
    ValidNames = {n1, n2}
    Types = {int}
    TypesOf <- SameType
    Vars = {v1, v2}
    Values = {x}
    Default = x
    Bad = bad
    Roots = {}
    Listeners = {l1, l2, l3, l4}
    Throwing = {}
    None = none
    MaxCalls = 6
PROPERTY KeysUnique
