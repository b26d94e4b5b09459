CONSTANTS
    Callers = {c1, c2}
    Addresses = {a1, a2, a3}
    Images = {leaf}
    Stdins = {s0}
    Journals = {empty, total}
    EmptyJournal = empty
    BadBinary = BadBinary
    BadHex = BadHex
    Garbage = Garbage
    Nothing = Nothing
    Free = Free
    leaf = leaf
    parent = parent
    s0 = s0
    s1 = s1
    empty = empty
    total = total
    Runs <- MCRuns
    Foreign <- MCForeign
    JsonLen <- MCJsonLen
    FaultKinds = {"panic", "unsound"}
    Linked = {"execute", "prove", "verify", "free_buffer"}
    long = 5
    longest = 9
    IntMod = 8
    foreign = FALSE
    MaxAssumptions = 0
SPECIFICATION Spec
INVARIANTS TypeOK IInv OwnDecision
SYMMETRY MCSymmetry
CHECK_DEADLOCK FALSE
