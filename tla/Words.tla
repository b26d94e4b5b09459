------------------------------- MODULE Words --------------------------------
(***************************************************************************)
(* encoding/binary on one 32-bit word, as the guest's hasher and the R0BF  *)
(* tools use it.  A byte has Radix values: 256 in the code; TLC takes 4 or *)
(* 16, so that a 32-bit word fits its integers.                            *)
(***************************************************************************)
EXTENDS Naturals, Sequences

CONSTANT Radix  \* the number of values of a byte

ASSUME WordsAssumption == Radix \in {4, 16, 256}

WORD_SIZE == 4

Byte == 0..(Radix - 1)

\* uint32 arithmetic is modulo WordMod.
WordMod == Radix * Radix * Radix * Radix

PutBE(x) == << (x \div (Radix * Radix * Radix)) % Radix,
               (x \div (Radix * Radix)) % Radix,
               (x \div Radix) % Radix,
               x % Radix >>

PutLE(x) == << x % Radix,
               (x \div Radix) % Radix,
               (x \div (Radix * Radix)) % Radix,
               (x \div (Radix * Radix * Radix)) % Radix >>

GetLE(b) == b[1] + Radix * b[2] + Radix * Radix * b[3]
                 + Radix * Radix * Radix * b[4]

=============================================================================
