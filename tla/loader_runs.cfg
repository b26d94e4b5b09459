CONSTANTS
    Callers = {g1, g2}
    Paths = {p1, p2}
    NoPath = NoPath
    DefaultPath = p1
    Builds = {current, oldAbi, noFree, noExecute, noVersion}
    Null = Null
    NoFile = NoFile
    current = current
    oldAbi = oldAbi
    noFree = noFree
    noExecute = noExecute
    noVersion = noVersion
    Exports <- MCExports
    Abi <- MCAbi
    MaxReplacements = 1
    DlerrorSticky = FALSE
SPECIFICATION Spec
INVARIANTS IInv ClientAbi PathsAgree BuffersGoHome
PROPERTIES PointersStable ImplementsLibraryBinding NewReturns
