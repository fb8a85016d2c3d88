SPECIFICATION Spec
CONSTANTS
    t1 = t1
    root = root
    first = first
    second = second
    out = out
    file = file
    none = none
    Threads = {t1}
    Names = {root, first, second}
    Root = root
    ByHand = {second}
    Documents <- SomeDocuments
    Dests = {out, file}
    Stdout = out
    Patterns <- SomePatterns
    Known = {"m", "d"}
    Unknown = {"q"}
    Other = {"."}
    Formats <- SomeFormats
    MaxItems = 3
    MaxText = 5
    Default <- PlainPattern
    MaxLevel = 2
    MaxAppenders = 1
    None = none
INVARIANT UnchangedAreLeftAlone
