----------------------------- MODULE Composition -----------------------------
(***************************************************************************)
(* How receipts compose: what Verify asserts of a child, what the running  *)
(* assumptions digest binds, and what Halt hands out, as digests laid over *)
(* the steps of GuestRuntime.                                              *)
(***************************************************************************)
EXTENDS GuestRuntime, TaggedStructs

CONSTANT ThisImage  \* the image ID the host computes for this guest

ASSUME CompositionAssumption ==
    /\ ThisImage \in Image
    /\ Claims \subseteq [image : Image, journal : Seq(Byte)]

VARIABLES
    assumptionsDigestWords,
    asserted,     \* claim digests passed to sys_verify_integrity
    outputDigest  \* the digest passed to sys_halt, once it was

digestVars == << assumptionsDigestWords, asserted, outputDigest >>

-----------------------------------------------------------------------------
(* The steps.                                                              *)

ComposedInit ==
    /\ Init
    /\ assumptionsDigestWords = zeroDigest
    /\ asserted = << >> /\ outputDigest = << >>

CommitComposed ==
    /\ Commit \/ CommitValue
    /\ assumptionsDigestWords' =
           InitProperHasher(zeroDigest, assumptionsDigestWords)
    /\ UNCHANGED << asserted, outputDigest >>

VerifyComposed ==
    LET claimDigest == VerifyClaim(Last(registered'))
    IN  /\ Verify
        /\ asserted' = Append(asserted, claimDigest)
        /\ assumptionsDigestWords' =
               WithAssumption(
                   claimDigest, zeroDigest,
                   InitProperHasher(zeroDigest, assumptionsDigestWords))
        /\ UNCHANGED outputDigest

HaltComposed ==
    /\ Halt
    /\ assumptionsDigestWords' =
           InitProperHasher(zeroDigest, assumptionsDigestWords)
    /\ outputDigest' =
           << OutputDigest(halts'[1].journal, assumptionsDigestWords') >>
    /\ UNCHANGED asserted

UpdateComposed == Update /\ UNCHANGED digestVars

HaltedComposed == Halted /\ UNCHANGED digestVars

composedVars == << vars, digestVars >>

ComposedNext ==
    \/ CommitComposed \/ VerifyComposed \/ HaltComposed
    \/ UpdateComposed \/ HaltedComposed

ComposedSpec ==
    ComposedInit /\ [][ComposedNext]_composedVars
        /\ WF_composedVars(UpdateComposed)

-----------------------------------------------------------------------------
(* Properties.                                                             *)

\* The guest and the host see one list of assumptions: the running digest is
\* that of the claims that went through sys_verify_integrity, and Halt binds
\* it.  verify.go calls the alternative an opaque "assumptions mismatch".
AssumptionsMatch ==
    /\ assumptionsDigestWords = ListDigest(Reverse(asserted))
    /\ \A k \in DOMAIN outputDigest :
           outputDigest[k] =
               OutputDigest(FipsSha256(fd3), ListDigest(Reverse(asserted)))

\* A receipt of this run discharges another guest's assertion just if the
\* assertion names this image and exactly this journal, the run halted with
\* 0, and it asserted nothing itself.  The assertion hashes the journal in
\* one go, the run in pieces.
ReceiptSaysWhatRan ==
    \A k \in DOMAIN outputDigest :
        \A claim \in Claims \cup {[image |-> ThisImage, journal |-> fd3]} :
            RunClaim(ThisImage, halts[k].exit, outputDigest[k])
                    = VerifyClaim(claim)
                <=> /\ claim = [image |-> ThisImage, journal |-> fd3]
                    /\ halts[k].exit = 0
                    /\ registered = << >>

=============================================================================
