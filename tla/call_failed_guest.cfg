CONSTANTS
    Callers = {c1}
    Addresses = {a1}
    Images = {leaf}
    Stdins = {s0, s1}
    Journals = {empty, total}
    EmptyJournal = empty
    BadBinary = BadBinary
    BadHex = BadHex
    Garbage = Garbage
    Nothing = Nothing
    Free = Free
    leaf = leaf
    parent = parent
    s0 = s0
    s1 = s1
    empty = empty
    total = total
    Runs <- MCRuns
    Foreign <- MCForeign
    JsonLen <- MCJsonLen
    FaultKinds = {}
    Linked = {"compute_image_id", "execute", "prove", "verify", "free_buffer"}
    long = 2
    longest = 3
    IntMod = 8
    foreign = FALSE
    MaxAssumptions = 0
SPECIFICATION Spec
INVARIANT FailuresHaveReceipts
