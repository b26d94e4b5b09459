--------------------------- MODULE TaggedStructs ----------------------------
(***************************************************************************)
(* The tagged structs of sha256_proper.go and the claim of verify.go, as   *)
(* the digests by which receipts compose.                                  *)
(*                                                                         *)
(* A digest is DigestWords words (8 in the code; TLC takes 2).  A word of  *)
(* a SHA-256 digest is its place in it and what was hashed; another word   *)
(* is its value.  So digests are equal just if they hash the same thing.   *)
(* Of a tag only its name is kept: a journal that spells a tag, or the     *)
(* input of a tagged struct, is told apart here as it is not by SHA-256.   *)
(***************************************************************************)
EXTENDS Sha256, SequencesExt

CONSTANT DigestWords

ASSUME DigestAssumption == DigestWords \in Nat \ {0}

Image == [1..(WORD_SIZE * DigestWords) -> Byte]

-----------------------------------------------------------------------------
(* Digests.                                                                *)

\* What SHA-256 is run on: bytes, a tag, or the words and the 16-bit count
\* of a tagged struct.
OfBytes(state) ==
    [bytes |-> << state >>, tag |-> "", words |-> << >>, count |-> 0]
OfTag(tag) == [bytes |-> << >>, tag |-> tag, words |-> << >>, count |-> 0]
OfStruct(words, count) ==
    [bytes |-> << >>, tag |-> "", words |-> words, count |-> count]

\* A word hashes nothing or one thing.
DataWord(value) == [hashed |-> << >>, value |-> value]

Sha(hashed) ==
    [k \in 1..DigestWords |-> [hashed |-> << hashed >>, value |-> k]]

zeroDigest == [k \in 1..DigestWords |-> DataWord(0)]

digestBytesToWords(digest) ==
    [k \in 1..DigestWords |->
        DataWord(GetLE(SubSeq(digest, WORD_SIZE * (k - 1) + 1,
                                      WORD_SIZE * k)))]

\* The words of all digests, in order.
Flat(digests) ==
    [k \in 1..(DigestWords * Len(digests)) |->
        digests[(k - 1) \div DigestWords + 1][((k - 1) % DigestWords) + 1]]

\* uint16 arithmetic is modulo CountMod.
CountMod == 65536

taggedStructWithData(tag, digests, data) ==
    Sha(OfStruct(Sha(OfTag(tag)) \o Flat(digests)
                     \o [k \in 1..Len(data) |-> DataWord(data[k])],
                 Len(digests) % CountMod))

taggedStruct(tag, digests) == taggedStructWithData(tag, digests, << >>)

taggedListCons(tag, head, tail) == taggedStruct(tag, << head, tail >>)

\* addAssumptionDigest's new assumptionsDigestWords.  (mutant: the claim
\* goes into the list without its control root)
WithAssumption_Bare(claimDigest, controlRoot, list) ==
    taggedListCons("risc0.Assumptions", claimDigest, list)

WithAssumption(claimDigest, controlRoot, list) ==
    taggedListCons("risc0.Assumptions",
                   taggedStruct("risc0.Assumption",
                                << claimDigest, controlRoot >>),
                   list)

-----------------------------------------------------------------------------
(* Verify's digest chain.                                                  *)

postStateDigest ==
    taggedStructWithData("risc0.SystemState", << zeroDigest >>, << 0 >>)

\* risc0.Output, of the bytes hashed and a list.
OutputDigest(state, list) ==
    taggedStruct("risc0.Output", << Sha(OfBytes(state)), list >>)

\* (mutant: the image's place taken for the input's)
VerifyClaim_Swapped(claim) ==
    taggedStructWithData(
        "risc0.ReceiptClaim",
        << digestBytesToWords(claim.image), zeroDigest, postStateDigest,
           OutputDigest(shaBuffer(sha256InitStateBE, claim.journal),
                        zeroDigest) >>,
        << 0, 0 >>)

\* The claim that the image committed the journal, and asserted nothing.
VerifyClaim(claim) ==
    taggedStructWithData(
        "risc0.ReceiptClaim",
        << zeroDigest, digestBytesToWords(claim.image), postStateDigest,
           OutputDigest(shaBuffer(sha256InitStateBE, claim.journal),
                        zeroDigest) >>,
        << 0, 0 >>)

-----------------------------------------------------------------------------
(* The host's side: risc0 computes these from a run.                       *)

\* The claim of a receipt, Halted(exitCode).
RunClaim(image, exitCode, output) ==
    taggedStructWithData(
        "risc0.ReceiptClaim",
        << zeroDigest, digestBytesToWords(image), postStateDigest, output >>,
        << 0, exitCode >>)

\* The assumptions it is left to resolve, of claim digests newest first.
ListDigest(claims) ==
    FoldRight(LAMBDA claim, list :
                  taggedStruct("risc0.Assumptions",
                      << taggedStruct("risc0.Assumption",
                                      << claim, zeroDigest >>), list >>),
              claims, zeroDigest)

=============================================================================
