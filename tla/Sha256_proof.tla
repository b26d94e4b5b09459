---------------------------- MODULE Sha256_proof ----------------------------
(***************************************************************************)
(* Proofs about the padding of Sha256, for messages of every length.       *)
(***************************************************************************)
EXTENDS Sha256, SequenceTheorems, TLAPS

-----------------------------------------------------------------------------
(* Numbers.                                                                *)

\* The block is 16 or 64 bytes and a byte is a natural.
LEMMA Sizes ==
    /\ SHA256_BLOCK_SIZE \in {16, 64}
    /\ SHA256_BLOCK_SIZE = 4 * BlockWords
    /\ SHA256_BLOCK_SIZE \in Nat /\ SHA256_BLOCK_SIZE > 0
    /\ 0 \in Byte /\ endMarker \in Byte
    /\ WORD_SIZE = 4
  BY Sha256Assumption DEF SHA256_BLOCK_SIZE, WORD_SIZE, Byte, endMarker

\* Quotient and remainder by the sizes of this module.
LEMMA Quotient ==
  ASSUME NEW x \in Nat
  PROVE  /\ x \div 4 \in Nat /\ x % 4 \in 0..3 /\ x % 4 = x - 4 * (x \div 4)
         /\ x \div 16 \in Nat /\ x % 16 \in 0..15
         /\ x % 16 = x - 16 * (x \div 16)
         /\ x \div 64 \in Nat /\ x % 64 \in 0..63
         /\ x % 64 = x - 64 * (x \div 64)
  <1>1. x \div 4 \in Nat /\ x % 4 \in 0..3 /\ x % 4 = x - 4 * (x \div 4)
    OBVIOUS
  <1>2. x \div 16 \in Nat /\ x % 16 \in 0..15 /\ x % 16 = x - 16 * (x \div 16)
    OBVIOUS
  <1>3. x \div 64 \in Nat /\ x % 64 \in 0..63 /\ x % 64 = x - 64 * (x \div 64)
    OBVIOUS
  <1>4. QED
    BY <1>1, <1>2, <1>3

\* Rounding up to a multiple of a word or of a block's words.
LEMMA AlignUp ==
  ASSUME NEW n \in Nat
  PROVE  /\ \E k \in Nat : alignUp(n, 4) = 4 * k /\ n <= 4 * k
                                              /\ 4 * k < n + 4
         /\ \E k \in Nat : alignUp(n, 16) = 16 * k /\ n <= 16 * k
                                               /\ 16 * k < n + 16
  <1>1. \E k \in Nat : alignUp(n, 4) = 4 * k /\ n <= 4 * k
                                            /\ 4 * k < n + 4
    <2> DEFINE x == n + 3
               k == x \div 4
    <2>1. x \in Nat
      OBVIOUS
    <2>2. k \in Nat /\ x % 4 \in 0..3 /\ x % 4 = x - 4 * k
      BY <2>1, Quotient
    <2>3. alignUp(n, 4) = x - (x % 4)
      BY DEF alignUp
    <2> HIDE DEF k
    <2>4. alignUp(n, 4) = 4 * k /\ n <= 4 * k /\ 4 * k < n + 4
      BY <2>2, <2>3
    <2>5. QED
      BY <2>2, <2>4
  <1>2. \E k \in Nat : alignUp(n, 16) = 16 * k /\ n <= 16 * k
                                            /\ 16 * k < n + 16
    <2> DEFINE x == n + 15
               k == x \div 16
    <2>1. x \in Nat
      OBVIOUS
    <2>2. k \in Nat /\ x % 16 \in 0..15 /\ x % 16 = x - 16 * k
      BY <2>1, Quotient
    <2>3. alignUp(n, 16) = x - (x % 16)
      BY DEF alignUp
    <2> HIDE DEF k
    <2>4. alignUp(n, 16) = 16 * k /\ n <= 16 * k /\ 16 * k < n + 16
      BY <2>2, <2>3
    <2>5. QED
      BY <2>2, <2>4
  <1>3. QED
    BY <1>1, <1>2

\* How far a length is from the next multiple of a block.
LEMMA UpToBlock ==
  ASSUME NEW x \in Nat, NEW k \in Nat
  PROVE  /\ x <= 16 * k /\ 16 * k < x + 16
              => (16 - (x % 16)) % 16 = 16 * k - x
         /\ x <= 64 * k /\ 64 * k < x + 64
              => (64 - (x % 64)) % 64 = 64 * k - x
  <1>1. ASSUME x <= 16 * k, 16 * k < x + 16
        PROVE  (16 - (x % 16)) % 16 = 16 * k - x
    <2> DEFINE q == x \div 16
               r == x % 16
    <2>1. q \in Nat /\ r \in 0..15 /\ r = x - 16 * q
      BY Quotient
    <2> HIDE DEF q, r
    <2>2. r = 0 => (16 - r) % 16 = 0 /\ 16 * k - x = 0
      BY <1>1, <2>1
    <2>3. r # 0 => (16 - r) % 16 = 16 - r /\ 16 * k - x = 16 - r
      BY <1>1, <2>1
    <2>4. (16 - r) % 16 = 16 * k - x
      BY <2>1, <2>2, <2>3
    <2>5. QED
      BY <2>4 DEF r
  <1>2. ASSUME x <= 64 * k, 64 * k < x + 64
        PROVE  (64 - (x % 64)) % 64 = 64 * k - x
    <2> DEFINE q == x \div 64
               r == x % 64
    <2>1. q \in Nat /\ r \in 0..63 /\ r = x - 64 * q
      BY Quotient
    <2> HIDE DEF q, r
    <2>2. r = 0 => (64 - r) % 64 = 0 /\ 64 * k - x = 0
      BY <1>2, <2>1
    <2>3. r # 0 => (64 - r) % 64 = 64 - r /\ 64 * k - x = 64 - r
      BY <1>2, <2>1
    <2>4. (64 - r) % 64 = 64 * k - x
      BY <2>1, <2>2, <2>3
    <2>5. QED
      BY <2>4 DEF r
  <1>3. QED
    BY <1>1, <1>2

\* computePaddedLength is the message, the marker, the standard's zeros and
\* an 8-byte length, at every message length.
THEOREM PaddedLength ==
  ASSUME NEW n \in Nat
  PROVE  /\ computePaddedLength(n) = n + 1 + FipsZeros(n) + 8
         /\ FipsZeros(n) \in Nat
  <1>1. PICK q \in Nat : alignUp(n + 1, 4) = 4 * q /\ n + 1 <= 4 * q
                                             /\ 4 * q < n + 1 + 4
    <2>1. n + 1 \in Nat
      OBVIOUS
    <2>2. QED
      BY <2>1, AlignUp
  <1>2. alignUp(n + 1, WORD_SIZE) \div WORD_SIZE = q
    BY <1>1, Sizes
  <1>3. q + 2 \in Nat
    OBVIOUS
  <1>4. CASE BlockWords = 4
    <2>1. PICK k \in Nat : alignUp(q + 2, 4) = 4 * k /\ q + 2 <= 4 * k
                                                 /\ 4 * k < q + 2 + 4
      BY <1>3, AlignUp
    <2>2. computePaddedLength(n) = 16 * k
      BY <1>2, <1>4, <2>1, Sizes DEF computePaddedLength
    <2>3. FipsZeros(n) = (16 - ((n + 9) % 16)) % 16
      BY <1>4, Sizes DEF FipsZeros
    <2>4. n + 9 <= 16 * k /\ 16 * k < n + 9 + 16
      BY <1>1, <2>1
    <2>5. (16 - ((n + 9) % 16)) % 16 = 16 * k - (n + 9)
      BY <2>4, UpToBlock
    <2>6. QED
      BY <2>2, <2>3, <2>4, <2>5
  <1>5. CASE BlockWords = 16
    <2>1. PICK k \in Nat : alignUp(q + 2, 16) = 16 * k /\ q + 2 <= 16 * k
                                                 /\ 16 * k < q + 2 + 16
      BY <1>3, AlignUp
    <2>2. computePaddedLength(n) = 64 * k
      BY <1>2, <1>5, <2>1, Sizes DEF computePaddedLength
    <2>3. FipsZeros(n) = (64 - ((n + 9) % 64)) % 64
      BY <1>5, Sizes DEF FipsZeros
    <2>4. n + 9 <= 64 * k /\ 64 * k < n + 9 + 64
      BY <1>1, <2>1
    <2>5. (64 - ((n + 9) % 64)) % 64 = 64 * k - (n + 9)
      BY <2>4, UpToBlock
    <2>6. QED
      BY <2>2, <2>3, <2>4, <2>5
  <1>6. QED
    BY <1>4, <1>5, Sha256Assumption

\* The zeros the standard asks for depend only on what the message leaves
\* over its last whole block.
LEMMA ZerosOfRemainder ==
  ASSUME NEW whole \in Nat, NEW rest \in Nat, whole % SHA256_BLOCK_SIZE = 0
  PROVE  FipsZeros(whole + rest) = FipsZeros(rest)
  <1>1. CASE SHA256_BLOCK_SIZE = 16
    BY <1>1, Sizes DEF FipsZeros
  <1>2. CASE SHA256_BLOCK_SIZE = 64
    BY <1>2, Sizes DEF FipsZeros
  <1>3. QED
    BY <1>1, <1>2, Sizes

-----------------------------------------------------------------------------
(* Words and bytes.                                                        *)

\* Reading four bytes as a word and storing the word gives the bytes back.
LEMMA StoreOfLoad ==
  ASSUME NEW a \in Byte, NEW b \in Byte, NEW c \in Byte, NEW d \in Byte
  PROVE  PutLE(GetLE(<< a, b, c, d >>)) = << a, b, c, d >>
  <1>1. CASE Radix = 4
    <2> DEFINE w == a + 4 * b + 16 * c + 64 * d
    <2>1. a \in 0..3 /\ b \in 0..3 /\ c \in 0..3 /\ d \in 0..3
      BY <1>1 DEF Byte
    <2>2. w % 4 = a /\ (w \div 4) % 4 = b
      <3>1. w \div 4 = b + 4 * c + 16 * d /\ w % 4 = a
        BY <2>1
      <3>2. (b + 4 * c + 16 * d) % 4 = b
        BY <2>1
      <3>3. QED
        BY <3>1, <3>2
    <2>3. (w \div 16) % 4 = c /\ (w \div 64) % 4 = d
      <3>1. w \div 16 = c + 4 * d /\ w \div 64 = d
        BY <2>1
      <3>2. (c + 4 * d) % 4 = c /\ d % 4 = d
        BY <2>1
      <3>3. QED
        BY <3>1, <3>2
    <2>4. GetLE(<< a, b, c, d >>) = w
      BY <1>1, <2>1 DEF GetLE
    <2> HIDE DEF w
    <2>5. PutLE(w) = << w % 4, (w \div 4) % 4, (w \div 16) % 4,
                        (w \div 64) % 4 >>
      BY <1>1 DEF PutLE
    <2>6. QED
      BY <2>2, <2>3, <2>4, <2>5
  <1>2. CASE Radix = 16
    <2> DEFINE w == a + 16 * b + 256 * c + 4096 * d
    <2>1. a \in 0..15 /\ b \in 0..15 /\ c \in 0..15 /\ d \in 0..15
      BY <1>2 DEF Byte
    <2>2. w % 16 = a /\ (w \div 16) % 16 = b
      <3>1. w \div 16 = b + 16 * c + 256 * d /\ w % 16 = a
        BY <2>1
      <3>2. (b + 16 * c + 256 * d) % 16 = b
        BY <2>1
      <3>3. QED
        BY <3>1, <3>2
    <2>3. (w \div 256) % 16 = c /\ (w \div 4096) % 16 = d
      <3>1. w \div 256 = c + 16 * d /\ w \div 4096 = d
        BY <2>1
      <3>2. (c + 16 * d) % 16 = c /\ d % 16 = d
        BY <2>1
      <3>3. QED
        BY <3>1, <3>2
    <2>4. GetLE(<< a, b, c, d >>) = w
      BY <1>2, <2>1 DEF GetLE
    <2> HIDE DEF w
    <2>5. PutLE(w) = << w % 16, (w \div 16) % 16, (w \div 256) % 16,
                        (w \div 4096) % 16 >>
      BY <1>2 DEF PutLE
    <2>6. QED
      BY <2>2, <2>3, <2>4, <2>5
  <1>3. CASE Radix = 256
    <2> DEFINE w == a + 256 * b + 65536 * c + 16777216 * d
    <2>1. a \in 0..255 /\ b \in 0..255 /\ c \in 0..255 /\ d \in 0..255
      BY <1>3 DEF Byte
    <2>2. w % 256 = a /\ (w \div 256) % 256 = b
      <3>1. w \div 256 = b + 256 * c + 65536 * d /\ w % 256 = a
        BY <2>1
      <3>2. (b + 256 * c + 65536 * d) % 256 = b
        BY <2>1
      <3>3. QED
        BY <3>1, <3>2
    <2>3. (w \div 65536) % 256 = c /\ (w \div 16777216) % 256 = d
      <3>1. w \div 65536 = c + 256 * d /\ w \div 16777216 = d
        BY <2>1
      <3>2. (c + 256 * d) % 256 = c /\ d % 256 = d
        BY <2>1
      <3>3. QED
        BY <3>1, <3>2
    <2>4. GetLE(<< a, b, c, d >>) = w
      BY <1>3, <2>1 DEF GetLE
    <2> HIDE DEF w
    <2>5. PutLE(w) = << w % 256, (w \div 256) % 256, (w \div 65536) % 256,
                        (w \div 16777216) % 256 >>
      BY <1>3 DEF PutLE
    <2>6. QED
      BY <2>2, <2>3, <2>4, <2>5
  <1>4. QED
    BY <1>1, <1>2, <1>3, Sha256Assumption

\* The four bytes of a word are bytes.
LEMMA BytesOfWord ==
  ASSUME NEW x \in Nat
  PROVE  /\ PutBE(x) \in Seq(Byte) /\ Len(PutBE(x)) = 4
         /\ PutLE(GetLE(PutBE(x))) = PutBE(x)
         /\ PutBE(x) = << PutBE(x)[1], PutBE(x)[2], PutBE(x)[3], PutBE(x)[4] >>
  <1> DEFINE R == Radix
             a == (x \div (R * R * R)) % R
             b == (x \div (R * R)) % R
             c == (x \div R) % R
             d == x % R
  <1>1. PutBE(x) = << a, b, c, d >>
    BY DEF PutBE
  <1>2. a \in Byte /\ b \in Byte /\ c \in Byte /\ d \in Byte
    <2>1. CASE Radix = 4
      BY <2>1 DEF Byte
    <2>2. CASE Radix = 16
      BY <2>2 DEF Byte
    <2>3. CASE Radix = 256
      BY <2>3 DEF Byte
    <2>4. QED
      BY <2>1, <2>2, <2>3, Sha256Assumption
  <1> HIDE DEF a, b, c, d
  <1>3. << a, b, c, d >> \in Seq(Byte) /\ Len(<< a, b, c, d >>) = 4
    BY <1>2
  <1>4. PutLE(GetLE(<< a, b, c, d >>)) = << a, b, c, d >>
    BY <1>2, StoreOfLoad
  <1>5. QED
    BY <1>1, <1>3, <1>4

\* The word zero is four zero bytes.
LEMMA BytesOfZero == \A i \in 1..4 : PutBE(0)[i] = 0
  <1>1. CASE Radix = 4
    BY <1>1 DEF PutBE
  <1>2. CASE Radix = 16
    BY <1>2 DEF PutBE
  <1>3. CASE Radix = 256
    BY <1>3 DEF PutBE
  <1>4. QED
    BY <1>1, <1>2, <1>3, Sha256Assumption

-----------------------------------------------------------------------------
(* The padding.                                                            *)

\* A count of bits below the word's modulus is its own low word, under a
\* high word of zero.
LEMMA ShortCount ==
  ASSUME NEW n \in Nat, n * 8 < WordMod
  PROVE  (n * 8) \div WordMod = 0 /\ (n * 8) % WordMod = n * 8
  <1>1. WordMod \in {256, 65536, 4294967296}
    BY Sha256Assumption DEF WordMod
  <1> DEFINE m == n * 8
  <1>2. m \in Nat /\ m < WordMod
    OBVIOUS
  <1> HIDE DEF m
  <1>3. m \div WordMod = 0 /\ m % WordMod = m
    BY <1>1, <1>2
  <1>4. QED
    BY <1>3 DEF m

\* The standard's padding of a message whose bit count fits one word, byte
\* by byte.
LEMMA FipsPaddingBytes ==
  ASSUME NEW n \in Nat, n * 8 < WordMod
  PROVE  /\ FipsPadding(n) \in Seq(Byte)
         /\ Len(FipsPadding(n)) = FipsZeros(n) + 9
         /\ \A j \in 1..(FipsZeros(n) + 9) : FipsPadding(n)[j]
                = IF j > FipsZeros(n) + 5
                  THEN PutBE(n * 8)[j - (FipsZeros(n) + 5)]
                  ELSE IF j = 1 THEN endMarker ELSE 0
  <1> DEFINE z == FipsZeros(n)
             mark == << endMarker >>
             zeros == Zeros(z)
             high == PutBE(0)
             low == PutBE(n * 8)
  <1>1. z \in Nat
    BY PaddedLength
  <1>2. FipsPadding(n) = ((mark \o zeros) \o high) \o low
    BY ShortCount DEF FipsPadding
  <1>3. mark \in Seq(Byte) /\ Len(mark) = 1 /\ mark[1] = endMarker
    BY Sizes
  <1>4. zeros \in Seq(Byte) /\ Len(zeros) = z /\ \A i \in 1..z : zeros[i] = 0
    BY <1>1, Sizes DEF Zeros
  <1>5. high \in Seq(Byte) /\ Len(high) = 4 /\ \A i \in 1..4 : high[i] = 0
    BY BytesOfWord, BytesOfZero
  <1>6. low \in Seq(Byte) /\ Len(low) = 4
    BY BytesOfWord
  <1> HIDE DEF z, mark, zeros, high, low
  <1>7. mark \o zeros \in Seq(Byte) /\ Len(mark \o zeros) = 1 + z
        /\ \A i \in 1..(1 + z) : (mark \o zeros)[i]
                = IF i <= 1 THEN mark[i] ELSE zeros[i - 1]
    <2>1. mark \in Seq(Byte) /\ zeros \in Seq(Byte)
      BY <1>3, <1>4
    <2>2. mark \o zeros \in Seq(Byte)
          /\ Len(mark \o zeros) = Len(mark) + Len(zeros)
          /\ \A i \in 1..(Len(mark) + Len(zeros)) : (mark \o zeros)[i]
                = IF i <= Len(mark) THEN mark[i] ELSE zeros[i - Len(mark)]
      BY <2>1, ConcatProperties
    <2>3. QED
      BY <1>3, <1>4, <2>2
  <1>8. (mark \o zeros) \o high \in Seq(Byte)
        /\ Len((mark \o zeros) \o high) = 1 + z + 4
        /\ \A i \in 1..(1 + z + 4) : ((mark \o zeros) \o high)[i]
                = IF i <= 1 + z THEN (mark \o zeros)[i] ELSE high[i - (1 + z)]
    <2>1. (mark \o zeros) \in Seq(Byte) /\ high \in Seq(Byte)
      BY <1>5, <1>7
    <2>2. (mark \o zeros) \o high \in Seq(Byte)
          /\ Len((mark \o zeros) \o high) = Len((mark \o zeros)) + Len(high)
          /\ \A i \in 1..(Len(mark \o zeros) + Len(high)) :
               ((mark \o zeros) \o high)[i]
                = IF i <= Len(mark \o zeros)
                  THEN (mark \o zeros)[i]
                  ELSE high[i - Len(mark \o zeros)]
      BY <2>1, ConcatProperties
    <2>3. QED
      BY <1>5, <1>7, <2>2
  <1>9. ((mark \o zeros) \o high) \o low \in Seq(Byte)
        /\ Len(((mark \o zeros) \o high) \o low) = 1 + z + 4 + 4
        /\ \A i \in 1..(1 + z + 4 + 4) : (((mark \o zeros) \o high) \o low)[i]
                = IF i <= 1 + z + 4 THEN ((mark \o zeros) \o high)[i]
                  ELSE low[i - (1 + z + 4)]
    <2>1. ((mark \o zeros) \o high) \in Seq(Byte) /\ low \in Seq(Byte)
      BY <1>6, <1>8
    <2>2. ((mark \o zeros) \o high) \o low \in Seq(Byte)
          /\ Len(((mark \o zeros) \o high) \o low)
                = Len((mark \o zeros) \o high) + Len(low)
          /\ \A i \in 1..(Len((mark \o zeros) \o high) + Len(low)) :
               (((mark \o zeros) \o high) \o low)[i]
                = IF i <= Len((mark \o zeros) \o high)
                  THEN ((mark \o zeros) \o high)[i]
                  ELSE low[i - Len((mark \o zeros) \o high)]
      BY <2>1, ConcatProperties
    <2>3. QED
      BY <1>6, <1>8, <2>2
  <1>10. \A j \in 1..(z + 9) : FipsPadding(n)[j]
            = IF j > z + 5 THEN low[j - (z + 5)]
              ELSE IF j = 1 THEN endMarker ELSE 0
    <2>1. SUFFICES ASSUME NEW j \in 1..(z + 9)
                   PROVE  FipsPadding(n)[j]
                            = IF j > z + 5 THEN low[j - (z + 5)]
                              ELSE IF j = 1 THEN endMarker ELSE 0
      OBVIOUS
    <2>2. CASE j > z + 5
      <3>1. j - (1 + z + 4) = j - (z + 5) /\ ~(j <= 1 + z + 4)
            /\ j \in 1..(1 + z + 4 + 4)
        BY <1>1, <2>2
      <3>2. QED
        BY <1>2, <1>9, <2>2, <3>1
    <2>3. CASE j > z + 1 /\ j <= z + 5
      <3>1. FipsPadding(n)[j] = high[j - (1 + z)]
        BY <1>1, <1>2, <1>8, <1>9, <2>3
      <3>2. j - (1 + z) \in 1..4
        BY <1>1, <2>3
      <3>3. j # 1
        BY <1>1, <2>3
      <3>4. QED
        BY <1>1, <1>5, <2>3, <3>1, <3>2, <3>3
    <2>4. CASE j <= z + 1
      <3>1. FipsPadding(n)[j] = (mark \o zeros)[j]
        <4>1. j \in 1..(1 + z + 4) /\ j \in 1..(1 + z + 4 + 4)
              /\ j <= 1 + z /\ j <= 1 + z + 4
          BY <1>1, <2>4
        <4>2. QED
          BY <1>2, <1>8, <1>9, <4>1
      <3>2. CASE j = 1
        BY <1>1, <1>3, <1>7, <2>4, <3>1, <3>2
      <3>3. CASE j # 1
        <4>1. j - 1 \in 1..z
          BY <1>1, <2>4, <3>3
        <4>2. QED
          BY <1>1, <1>4, <1>7, <2>4, <3>1, <3>3, <4>1
      <3>4. QED
        BY <3>2, <3>3
    <2>5. QED
      BY <1>1, <2>2, <2>3, <2>4
  <1>11. 1 + z + 4 + 4 = z + 9
    BY <1>1
  <1>12. QED
    BY <1>2, <1>9, <1>10, <1>11 DEF z, low

\* The padded buffer is made of bytes, whatever the running length.
LEMMA PadBufBytes ==
  ASSUME NEW remaining \in Seq(Byte), NEW totalLen \in Nat
  PROVE  padBuf(remaining, totalLen) \in Seq(Byte)
  <1> DEFINE padLen == computePaddedLength(Len(remaining))
             word == (totalLen * 8) % WordMod
             trailer == PutLE(bitsTrailer(totalLen))
             buf == padBuf(remaining, totalLen)
  <1>1. Len(remaining) \in Nat
        /\ \A i \in 1..Len(remaining) : remaining[i] \in Byte
    BY ElementOfSeq, LenProperties
  <1>2. padLen \in Nat /\ padLen >= 9
    <2>1. computePaddedLength(Len(remaining))
            = Len(remaining) + 1 + FipsZeros(Len(remaining)) + 8
          /\ FipsZeros(Len(remaining)) \in Nat
      BY <1>1, PaddedLength
    <2>2. QED
      BY <1>1, <2>1
  <1>3. \A i \in 1..4 : trailer[i] \in Byte
    <2>1. WordMod \in Nat \ {0}
      BY Sha256Assumption DEF WordMod
    <2>2. word \in Nat
      <3> DEFINE bits == totalLen * 8
      <3>1. bits \in Nat
        OBVIOUS
      <3> HIDE DEF bits
      <3>2. QED
        BY <2>1, <3>1 DEF bits
    <2> HIDE DEF word
    <2>3. PutLE(GetLE(PutBE(word))) \in Seq(Byte)
          /\ Len(PutLE(GetLE(PutBE(word)))) = 4
      BY <2>2, BytesOfWord
    <2>4. QED
      BY <2>3, ElementOfSeq DEF bitsTrailer, word
  <1> HIDE DEF padLen, trailer
  <1>4. buf = [i \in 1..padLen |->
                CASE i > padLen - 4 -> trailer[i - (padLen - 4)]
                  [] i <= padLen - 4 /\ i = Len(remaining) + 1 -> endMarker
                  [] i <= padLen - 4 /\ i <= Len(remaining) -> remaining[i]
                  [] OTHER -> 0]
    BY Sizes DEF padBuf, padLen, trailer
  <1> HIDE DEF buf
  <1>5. \A i \in 1..padLen : buf[i] \in Byte
    <2>1. SUFFICES ASSUME NEW i \in 1..padLen PROVE buf[i] \in Byte
      OBVIOUS
    <2>2. CASE i > padLen - 4
      <3>1. i - (padLen - 4) \in 1..4
        BY <1>2, <2>2
      <3>2. buf[i] = trailer[i - (padLen - 4)]
        BY <1>2, <1>4, <2>2
      <3>3. QED
        BY <1>3, <3>1, <3>2
    <2>3. CASE i <= padLen - 4 /\ i = Len(remaining) + 1
      <3>1. buf[i] = endMarker
        BY <1>1, <1>2, <1>4, <2>3
      <3>2. QED
        BY <3>1, Sizes
    <2>4. CASE i <= padLen - 4 /\ i <= Len(remaining)
      <3>1. buf[i] = remaining[i]
        BY <1>1, <1>2, <1>4, <2>4
      <3>2. QED
        BY <1>1, <2>4, <3>1
    <2>5. CASE i <= padLen - 4 /\ i > Len(remaining) + 1
      <3>1. buf[i] = 0
        BY <1>1, <1>2, <1>4, <2>5
      <3>2. QED
        BY <3>1, Sizes
    <2>6. QED
      BY <1>1, <1>2, <2>2, <2>3, <2>4, <2>5
  <1>6. QED
    BY <1>2, <1>4, <1>5 DEF buf

\* What the code appends to the bytes left in its buffer is what the standard
\* appends to the whole message, as long as the bit count fits 32 bits.
THEOREM PadBufIsFips ==
  ASSUME NEW remaining \in Seq(Byte), NEW whole \in Nat,
         whole % SHA256_BLOCK_SIZE = 0,
         (whole + Len(remaining)) * 8 < WordMod
  PROVE  padBuf(remaining, whole + Len(remaining))
            = remaining \o FipsPadding(whole + Len(remaining))
  <1> DEFINE r == Len(remaining)
             n == whole + r
             z == FipsZeros(n)
             padLen == computePaddedLength(r)
             trailer == PutLE(bitsTrailer(n))
             low == PutBE(n * 8)
             pad == FipsPadding(n)
             buf == padBuf(remaining, n)
  <1>1. r \in Nat /\ n \in Nat
    BY LenProperties
  <1>2. z \in Nat /\ padLen = r + z + 9
    <2>1. FipsZeros(n) = FipsZeros(r)
      BY <1>1, ZerosOfRemainder
    <2>2. computePaddedLength(r) = r + 1 + FipsZeros(r) + 8
          /\ FipsZeros(r) \in Nat
      BY <1>1, PaddedLength
    <2>3. QED
      BY <1>1, <2>1, <2>2
  <1>3. trailer = low
    <2>1. n * 8 \in Nat
      BY <1>1
    <2>2. (n * 8) % WordMod = n * 8
      BY <1>1, ShortCount
    <2>3. QED
      BY <2>1, <2>2, BytesOfWord DEF bitsTrailer
  <1>4. /\ pad \in Seq(Byte) /\ Len(pad) = z + 9
        /\ \A j \in 1..(z + 9) : pad[j]
              = IF j > z + 5 THEN low[j - (z + 5)]
                ELSE IF j = 1 THEN endMarker ELSE 0
    BY <1>1, FipsPaddingBytes
  <1>5. buf \in Seq(Byte)
    BY <1>1, PadBufBytes
  <1> HIDE DEF padLen, trailer
  <1>6. buf = [i \in 1..padLen |->
                CASE i > padLen - 4 -> trailer[i - (padLen - 4)]
                  [] i <= padLen - 4 /\ i = r + 1 -> endMarker
                  [] i <= padLen - 4 /\ i <= r -> remaining[i]
                  [] OTHER -> 0]
    BY Sizes DEF padBuf, padLen, trailer
  <1> HIDE DEF buf, low, pad, z, n, r
  <1>7. remaining \o pad \in Seq(Byte)
        /\ Len(remaining \o pad) = r + z + 9
        /\ \A i \in 1..(r + z + 9) : (remaining \o pad)[i]
              = IF i <= r THEN remaining[i] ELSE pad[i - r]
    <2>1. remaining \o pad \in Seq(Byte)
          /\ Len(remaining \o pad) = Len(remaining) + Len(pad)
          /\ \A i \in 1..(Len(remaining) + Len(pad)) : (remaining \o pad)[i]
                = IF i <= Len(remaining) THEN remaining[i]
                  ELSE pad[i - Len(remaining)]
      BY <1>4, ConcatProperties
    <2>2. Len(remaining) = r /\ Len(pad) = z + 9 /\ r + (z + 9) = r + z + 9
      BY <1>1, <1>2, <1>4 DEF r
    <2>3. QED
      BY <2>1, <2>2
  <1>8. Len(buf) = r + z + 9
    BY <1>1, <1>2, <1>6
  <1>9. \A i \in 1..(r + z + 9) : buf[i] = (remaining \o pad)[i]
    <2>1. SUFFICES ASSUME NEW i \in 1..(r + z + 9)
                   PROVE  buf[i] = (remaining \o pad)[i]
      OBVIOUS
    <2>2. CASE i <= r
      <3>1. buf[i] = remaining[i]
        BY <1>1, <1>2, <1>6, <2>2
      <3>2. QED
        BY <1>7, <2>2, <3>1
    <2>3. CASE i = r + 1
      <3>1. buf[i] = endMarker
        BY <1>1, <1>2, <1>6, <2>3
      <3>2. (remaining \o pad)[i] = pad[1]
        BY <1>1, <1>7, <2>3
      <3>3. pad[1] = endMarker
        BY <1>2, <1>4
      <3>4. QED
        BY <3>1, <3>2, <3>3
    <2>4. CASE i > r + 1 /\ i <= r + z + 5
      <3>1. buf[i] = 0
        BY <1>1, <1>2, <1>6, <2>4
      <3>2. i - r \in 1..(z + 9) /\ i - r <= z + 5 /\ i - r # 1
        BY <1>1, <1>2, <2>4
      <3>3. (remaining \o pad)[i] = pad[i - r]
        BY <1>1, <1>7, <2>4
      <3>4. pad[i - r] = 0
        BY <1>1, <1>2, <1>4, <3>2
      <3>5. QED
        BY <3>1, <3>3, <3>4
    <2>5. CASE i > r + z + 5
      <3>1. buf[i] = trailer[i - (r + z + 5)]
        <4>1. i \in 1..padLen /\ i > padLen - 4
              /\ i - (padLen - 4) = i - (r + z + 5)
          BY <1>1, <1>2, <2>5
        <4>2. buf[i] = trailer[i - (padLen - 4)]
          BY <1>1, <1>2, <1>6, <4>1
        <4>3. QED
          BY <4>1, <4>2
      <3>2. i - r \in 1..(z + 9) /\ i - r > z + 5
            /\ (i - r) - (z + 5) = i - (r + z + 5)
        BY <1>1, <1>2, <2>5
      <3>3. (remaining \o pad)[i] = pad[i - r]
        BY <1>1, <1>2, <1>7, <2>5
      <3>4. pad[i - r] = low[(i - r) - (z + 5)]
        BY <1>4, <3>2
      <3>5. QED
        BY <1>3, <3>1, <3>2, <3>3, <3>4
    <2>6. i <= r \/ i = r + 1 \/ (i > r + 1 /\ i <= r + z + 5)
            \/ i > r + z + 5
      BY <1>1, <1>2
    <2>7. QED
      BY <2>2, <2>3, <2>4, <2>5, <2>6
  <1>10. buf = remaining \o pad
    BY <1>5, <1>7, <1>8, <1>9, SeqEqual
  <1>11. QED
    BY <1>10 DEF buf, pad, n, r

\* The one-shot path, shaBuffer under SumSHA256 and every tagged struct,
\* computes the standard's SHA-256 of any input whose bit count fits 32 bits.
THEOREM OneShot ==
  ASSUME NEW bytes \in Seq(Byte), Len(bytes) * 8 < WordMod
  PROVE  shaBuffer(sha256InitStateBE, bytes) = FipsSha256(bytes)
  <1>1. Len(bytes) \in Nat /\ 0 + Len(bytes) = Len(bytes)
    BY LenProperties
  <1>2. 0 % SHA256_BLOCK_SIZE = 0
    BY Sizes
  <1>3. padBuf(bytes, 0 + Len(bytes)) = bytes \o FipsPadding(0 + Len(bytes))
    BY <1>1, <1>2, PadBufIsFips
  <1>4. padBuf(bytes, Len(bytes)) = bytes \o FipsPadding(Len(bytes))
    BY <1>1, <1>3
  <1>5. QED
    BY <1>4 DEF shaBuffer, FipsSha256

=============================================================================
