CONSTANTS
    Callers = {g1}
    Paths = {p1, p2}
    NoPath = NoPath
    DefaultPath = p1
    Builds = {current, noFree}
    Null = Null
    NoFile = NoFile
    current = current
    oldAbi = oldAbi
    noFree = noFree
    noExecute = noExecute
    noVersion = noVersion
    Exports <- MCExports
    Abi <- MCAbi
    MaxReplacements = 0
    DlerrorSticky = TRUE
SPECIFICATION Spec
INVARIANT ClientsGetTheirPath
