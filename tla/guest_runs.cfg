CONSTANTS
    Radix = 16
    BlockWords = 4
    DigestWords = 2
    ThisImage <- MCThisImage
    MessageLen = 35
    Message <- MCMessage
    CommitLens <- MCAllLens
    Claims <- MCClaims
    MaxVerifies = 2
    ExitCodes = {0, 1}
SPECIFICATION ComposedSpec
INVARIANTS TypeOK StreamInv IInv AssumptionsMirror JournalDigestIsSha256 AssumptionsMatch ReceiptSaysWhatRan
PROPERTIES ImplementsGuestOutput UpdateReturns
