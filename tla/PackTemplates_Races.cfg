CONSTANTS
    chat = chat  a1 = a1  a2 = a2  a3 = a3  l1 = l1  l2 = l2
    Empty = Empty
    Keys = {chat}
    Admins = {a1, a2, a3}
    Loaders = {l1, l2}
SPECIFICATION Spec
CHECK_DEADLOCK FALSE
INVARIANTS TypeOK ActiveIsNewest VersionsContiguous NoneActiveOnlyIfBroken AnsweredIsStored StaleOnlyIfOvertaken
SYMMETRY Alike
