CONSTANTS
    Callers = {c1, c2}
    Addresses = {a1, a2}
    Images = {leaf}
    Stdins = {s0}
    Journals = {empty}
    EmptyJournal = empty
    BadBinary = BadBinary
    BadHex = BadHex
    Garbage = Garbage
    Nothing = Nothing
    Free = Free
    leaf = leaf
    parent = parent
    s0 = s0
    s1 = s1
    empty = empty
    total = total
    Runs <- MCRuns
    Foreign <- MCForeign
    JsonLen <- MCJsonLen
    FaultKinds = {"panic"}
    Linked = {"compute_image_id", "execute", "prove", "verify", "free_buffer"}
    long = 2
    longest = 3
    IntMod = 8
    foreign = TRUE
    MaxAssumptions = 0
SPECIFICATION Spec
INVARIANTS BuffersOwned BuffersReturned
PROPERTIES ImplementsHostOracle CallReturns
