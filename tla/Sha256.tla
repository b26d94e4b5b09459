------------------------------- MODULE Sha256 -------------------------------
(***************************************************************************)
(* The guest's SHA-256 path of zkvm/sha256_proper.go, beside FIPS 180-4.   *)
(*                                                                         *)
(* The compression function is external (sys_sha_compress, sys_sha_buffer) *)
(* and is kept as a free constructor: a hash state is the initial value it *)
(* started from and the bytes it has absorbed so far.  Two states are      *)
(* equal exactly when SHA-256 would be run on the same padded bytes, so a  *)
(* wrong start value, a lost or repeated block, a stale byte or a wrong    *)
(* trailer all show.                                                       *)
(*                                                                         *)
(* A block has BlockWords words (16 in the code; 4 makes exhaustive runs   *)
(* cheap).                                                                 *)
(***************************************************************************)
EXTENDS Words

CONSTANT BlockWords  \* SHA256_BLOCK_WORDS

\* alignUp masks with ^(al - 1), which rounds only when al is a power of two.
ASSUME Sha256Assumption == Radix \in {4, 16, 256} /\ BlockWords \in {4, 16}

SHA256_BLOCK_SIZE == WORD_SIZE * BlockWords

\* The byte 0x80.
endMarker == Radix \div 2

Zeros(n) == [i \in 1..n |-> 0]

-----------------------------------------------------------------------------
(* Hash states.                                                            *)

HashState == [iv : {"zero", "sha256InitStateBE"}, data : Seq(Byte)]

\* A Go [8]uint32 nobody has written: not the SHA-256 start value.
zeroState == [iv |-> "zero", data |-> << >>]

sha256InitStateBE == [iv |-> "sha256InitStateBE", data |-> << >>]

\* sys_sha_compress and sys_sha_buffer, one block or several.
Compress(state, blocks) == [state EXCEPT !.data = @ \o blocks]

-----------------------------------------------------------------------------
(* What the standard says: the message, the bit 1, the least number of 0   *)
(* bits, and the length in bits as a 64-bit big-endian number, high word   *)
(* first.                                                                  *)

FipsZeros(n) ==
    LET used == (n + 1 + 2 * WORD_SIZE) % SHA256_BLOCK_SIZE
    IN  (SHA256_BLOCK_SIZE - used) % SHA256_BLOCK_SIZE

FipsPadding(n) ==
    << endMarker >> \o Zeros(FipsZeros(n))
        \o PutBE((n * 8) \div WordMod) \o PutBE((n * 8) % WordMod)

FipsSha256(message) ==
    Compress(sha256InitStateBE, message \o FipsPadding(Len(message)))

-----------------------------------------------------------------------------
(* What the code does.                                                     *)

\* (addr + al - 1) & ^(al - 1): clears the low bits.
alignUp(addr, al) == LET x == addr + al - 1 IN x - (x % al)

\* (mutant: one length word, the other word being always zero)
computePaddedLength_OneWord(dataLen) ==
    LET nWords == alignUp(dataLen + 1, WORD_SIZE) \div WORD_SIZE
    IN  alignUp(nWords + 1, BlockWords) * WORD_SIZE

computePaddedLength(dataLen) ==
    LET nWords == alignUp(dataLen + 1, WORD_SIZE) \div WORD_SIZE
    IN  alignUp(nWords + 2, BlockWords) * WORD_SIZE

\* uint32(totalLen * 8), its bytes swapped by PutUint32 (BE), Uint32 (LE).
bitsTrailer(totalLen) == GetLE(PutBE((totalLen * 8) % WordMod))

\* padBuf as bytes: what remains, 0x80, zeros, and in the last word the
\* trailer, which this little-endian machine stores least byte first.
padBuf(remaining, totalLen) ==
    LET padLen  == computePaddedLength(Len(remaining))
        trailer == PutLE(bitsTrailer(totalLen))
    IN  [i \in 1..padLen |->
            CASE i > padLen - WORD_SIZE -> trailer[i - (padLen - WORD_SIZE)]
              [] i <= padLen - WORD_SIZE /\ i = Len(remaining) + 1 -> endMarker
              [] i <= padLen - WORD_SIZE /\ i <= Len(remaining) -> remaining[i]
              [] OTHER -> 0]

shaBuffer(initialState, bytes) ==
    Compress(initialState, padBuf(bytes, Len(bytes)))

=============================================================================
