--------------------------- MODULE GuestInterface ---------------------------
(***************************************************************************)
(* What a guest may ask of package zkvm, and the shape of what it halts    *)
(* with: shared by the promise (GuestOutput) and the code (GuestRuntime).  *)
(***************************************************************************)
EXTENDS Sha256, SequencesExt

CONSTANTS
    Message,      \* the bytes the guest commits, in order, if it runs on
    CommitLens,   \* the lengths one call may commit
    Claims,       \* receipt claim digests the guest may assert
    MaxVerifies,  \* bound on the assertions of one run
    ExitCodes     \* arguments of Halt

ASSUME GuestAssumption ==
    /\ Message \in Seq(Byte)
    /\ CommitLens \subseteq Nat
    /\ MaxVerifies \in Nat

\* The next n bytes of the guest's message, after the done it committed.
NextBytes(done, n) == SubSeq(Message, Len(done) + 1, Len(done) + n)

CanCommit(done, n) == n <= Len(Message) - Len(done)

\* taggedStruct("risc0.Output", [journal digest, assumptions digest]); the
\* tagged list is the sequence of its cons cells, head first.
Output(exitCode, journalDigest, assumptionsList) ==
    [exit |-> exitCode, journal |-> journalDigest,
     assumptions |-> assumptionsList]

=============================================================================
