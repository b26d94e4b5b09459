---------------------------- MODULE GuestOutput -----------------------------
(***************************************************************************)
(* What package zkvm promises a guest, with no running hash: the guest     *)
(* commits a journal, asserts child receipts, and halts once.  The output  *)
(* it halts with binds the SHA-256 of exactly the committed bytes and the  *)
(* list of exactly the asserted claims, newest at the head.                *)
(***************************************************************************)
EXTENDS GuestInterface

VARIABLES
    journal,      \* the public journal
    verified,     \* the claims asserted, oldest first
    output        \* << >> while the guest runs, then its one output

abstractVars == << journal, verified, output >>

AbstractInit ==
    /\ journal = << >>
    /\ verified = << >>
    /\ output = << >>

AbstractCommit ==
    /\ output = << >>
    /\ \E n \in CommitLens :
        /\ CanCommit(journal, n)
        /\ journal' = journal \o NextBytes(journal, n)
    /\ UNCHANGED << verified, output >>

AbstractVerify ==
    /\ output = << >>
    /\ Len(verified) < MaxVerifies
    /\ \E claim \in Claims : verified' = Append(verified, claim)
    /\ UNCHANGED << journal, output >>

AbstractHalt ==
    /\ output = << >>
    /\ \E exitCode \in ExitCodes :
        output' = << Output(exitCode, FipsSha256(journal),
                            Reverse(verified)) >>
    /\ UNCHANGED << journal, verified >>

AbstractNext == AbstractCommit \/ AbstractVerify \/ AbstractHalt

AbstractSpec == AbstractInit /\ [][AbstractNext]_abstractVars

=============================================================================
