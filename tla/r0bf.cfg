CONSTANTS
    Radix = 4
    a = a
    c = c
    UserOut = UserOut
    KernelOut = KernelOut
    Paths = {a, c, UserOut, KernelOut}
    None = None
    Headers <- MCHeaders
    InitialDisk <- MCInitialDisk
    InitialPacked <- MCInitialPacked
    Cuts = {0, 1, 4, 5, 12, 31}
    MaxCommands = 3
SPECIFICATION Spec
INVARIANTS IInv RoundTrip PackedFaithfully
PROPERTIES OnlyElfsOverwrite
CHECK_DEADLOCK FALSE
