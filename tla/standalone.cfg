CONSTANTS
    R = 200
    Nothing = Nothing
    Bad = Bad
    Commands <- MCCommands
    Inputs <- MCInputs
    OtherJournals <- MCOtherJournals
SPECIFICATION Spec
INVARIANTS GuestInv PolicyExact ProductExact PolicyRunExact PathAsWritten
CHECK_DEADLOCK FALSE
