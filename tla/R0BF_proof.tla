----------------------------- MODULE R0BF_proof -----------------------------
(***************************************************************************)
(* Proofs about R0BF: extract_r0bf is the inverse of convert_to_r0bf, for  *)
(* files of every length and however the tools are run.                    *)
(***************************************************************************)
EXTENDS R0BF, SequenceTheorems, TLAPS

-----------------------------------------------------------------------------
(* Bytes.                                                                  *)

\* A 32-bit length is read as it was written.
LEMMA WordRoundTrip ==
  ASSUME NEW x \in Nat
  PROVE  /\ PutLE(x) \in Seq(Nat) /\ Len(PutLE(x)) = 4
         /\ x < WordMod => GetLE(PutLE(x)) = x
  <1>1. ASSUME NEW R \in {4, 16, 256}
        PROVE  /\ x % R \in Nat /\ (x \div R) % R \in Nat
               /\ (x \div (R * R)) % R \in Nat
               /\ (x \div (R * R * R)) % R \in Nat
               /\ x < R * R * R * R =>
                    (x % R) + R * ((x \div R) % R)
                      + R * R * ((x \div (R * R)) % R)
                      + R * R * R * ((x \div (R * R * R)) % R) = x
    <2>1. CASE R = 4
      BY <2>1
    <2>2. CASE R = 16
      BY <2>2
    <2>3. CASE R = 256
      BY <2>3
    <2>4. QED
      BY <1>1, <2>1, <2>2, <2>3
  <1>2. Radix \in {4, 16, 256}
    BY WordsAssumption DEF WordsAssumption
  <1>3. QED
    BY <1>1, <1>2 DEF PutLE, GetLE, WordMod

\* What is in two sequences put together, and where.
LEMMA Joined ==
  ASSUME NEW s \in Seq(Nat), NEW t \in Seq(Nat)
  PROVE  /\ s \o t \in Seq(Nat)
         /\ Len(s \o t) = Len(s) + Len(t)
         /\ \A i \in 1..Len(s) : (s \o t)[i] = s[i]
         /\ \A i \in 1..Len(t) : (s \o t)[Len(s) + i] = t[i]
  <1>1. /\ s \o t \in Seq(Nat)
        /\ Len(s \o t) = Len(s) + Len(t)
        /\ \A i \in 1..Len(s) + Len(t) :
               (s \o t)[i] = IF i <= Len(s) THEN s[i] ELSE t[i - Len(s)]
    BY ConcatProperties
  <1>2. Len(s) \in Nat /\ Len(t) \in Nat
    OBVIOUS
  <1>3. ASSUME NEW i \in 1..Len(s)
        PROVE  (s \o t)[i] = s[i]
    <2>1. i \in 1..Len(s) + Len(t) /\ i <= Len(s)
      BY <1>2
    <2>2. QED
      BY <1>1, <2>1
  <1>4. ASSUME NEW i \in 1..Len(t)
        PROVE  (s \o t)[Len(s) + i] = t[i]
    <2>1. /\ Len(s) + i \in 1..Len(s) + Len(t) /\ ~(Len(s) + i <= Len(s))
          /\ (Len(s) + i) - Len(s) = i
      BY <1>2
    <2>2. QED
      BY <1>1, <2>1
  <1>5. QED
    BY <1>1, <1>3, <1>4

\* What is in the preamble, and where.
LEMMA PreambleBytes ==
  ASSUME NEW h \in Seq(Nat), NEW u \in Seq(Nat)
  PROVE  LET p == Preamble(h, u)
         IN  /\ p \in Seq(Nat)
             /\ Len(p) = 16 + Len(h)
             /\ \A i \in 1..4 : /\ p[i] = r0bfMagic[i]
                                /\ p[8 + i] = PutLE(Len(h))[i]
                                /\ p[12 + Len(h) + i] = PutLE(Len(u))[i]
  <1> DEFINE m == r0bfMagic
             v == PutLE(1)
             n == PutLE(Len(h))
             l == PutLE(Len(u))
             a1 == m \o v
             a2 == a1 \o n
             a3 == a2 \o h
             a4 == a3 \o l
  <1>1. m \in Seq(Nat) /\ Len(m) = 4
    BY DEF r0bfMagic
  <1>2. /\ v \in Seq(Nat) /\ n \in Seq(Nat) /\ l \in Seq(Nat)
        /\ Len(v) = 4 /\ Len(n) = 4 /\ Len(l) = 4
        /\ Len(h) \in Nat /\ Len(u) \in Nat
    <2>1. Len(h) \in Nat /\ Len(u) \in Nat /\ 1 \in Nat
      OBVIOUS
    <2>2. QED
      BY <2>1, WordRoundTrip, Zenon
  <1>3. Preamble(h, u) = a4
    BY DEF Preamble
  <1> HIDE DEF m, v, n, l
  <1>4. /\ a1 \in Seq(Nat) /\ Len(a1) = 8
        /\ \A i \in 1..4 : a1[i] = m[i]
    <2>1. /\ a1 \in Seq(Nat) /\ Len(a1) = Len(m) + Len(v)
          /\ \A i \in 1..Len(m) : a1[i] = m[i]
      BY <1>1, <1>2, Joined
    <2> HIDE DEF a1
    <2>2. QED
      BY <2>1, <1>1, <1>2
  <1> HIDE DEF a1
  <1>5. /\ a2 \in Seq(Nat) /\ Len(a2) = 12
        /\ \A i \in 1..4 : a2[i] = m[i] /\ a2[8 + i] = n[i]
    <2>1. /\ a2 \in Seq(Nat) /\ Len(a2) = Len(a1) + Len(n)
          /\ \A i \in 1..Len(a1) : a2[i] = a1[i]
          /\ \A i \in 1..Len(n) : a2[Len(a1) + i] = n[i]
      <3>1. a1 \in Seq(Nat) /\ n \in Seq(Nat)
        BY <1>2, <1>4
      <3>2. QED
        BY ONLY <3>1, Joined
    <2> HIDE DEF a2
    <2>2. \A i \in 1..4 : i \in 1..8
      OBVIOUS
    <2>3. QED
      BY <1>2, <1>4, <2>1, <2>2
  <1> HIDE DEF a2
  <1>6. /\ a3 \in Seq(Nat) /\ Len(a3) = 12 + Len(h)
        /\ \A i \in 1..12 : a3[i] = a2[i]
    <2>1. /\ a3 \in Seq(Nat) /\ Len(a3) = Len(a2) + Len(h)
          /\ \A i \in 1..Len(a2) : a3[i] = a2[i]
      BY <1>2, <1>5, Joined
    <2> HIDE DEF a3
    <2>2. QED
      BY <1>5, <2>1
  <1> HIDE DEF a3
  <1>7. /\ a4 \in Seq(Nat) /\ Len(a4) = 16 + Len(h)
        /\ \A i \in 1..12 + Len(h) : a4[i] = a3[i]
        /\ \A i \in 1..4 : a4[12 + Len(h) + i] = l[i]
    <2>1. /\ a4 \in Seq(Nat) /\ Len(a4) = Len(a3) + Len(l)
          /\ \A i \in 1..Len(a3) : a4[i] = a3[i]
          /\ \A i \in 1..Len(l) : a4[Len(a3) + i] = l[i]
      BY <1>2, <1>6, Joined
    <2> HIDE DEF a4
    <2>2. (12 + Len(h)) + 4 = 16 + Len(h)
      BY <1>2
    <2>3. QED
      BY <1>2, <1>6, <2>1, <2>2
  <1> HIDE DEF a4
  <1>8. ASSUME NEW i \in 1..4
        PROVE  a4[i] = m[i] /\ a4[8 + i] = n[i]
    <2>1. /\ i \in 1..12 /\ 8 + i \in 1..12
          /\ i \in 1..12 + Len(h) /\ 8 + i \in 1..12 + Len(h)
      BY <1>2
    <2>2. QED
      BY <1>5, <1>6, <1>7, <2>1
  <1>9. QED
    BY <1>3, <1>7, <1>8 DEF m, n, l

\* What is in a container, and where.
LEMMA ContainerBytes ==
  ASSUME NEW h \in Seq(Nat), NEW u \in Seq(Nat), NEW k \in Seq(Nat)
  PROVE  LET c == Container(h, u, k)
             s == 16 + Len(h)
         IN  /\ c \in Seq(Nat)
             /\ Len(c) = s + Len(u) + Len(k)
             /\ \A i \in 1..4 : /\ c[i] = r0bfMagic[i]
                                /\ c[8 + i] = PutLE(Len(h))[i]
                                /\ c[12 + Len(h) + i] = PutLE(Len(u))[i]
             /\ \A i \in 1..Len(u) : c[s + i] = u[i]
             /\ \A i \in 1..Len(k) : c[s + Len(u) + i] = k[i]
  <1> DEFINE p == Preamble(h, u)
             s == 16 + Len(h)
             b == p \o u
             c == b \o k
  <1>1. /\ p \in Seq(Nat) /\ Len(p) = s
        /\ \A i \in 1..4 : /\ p[i] = r0bfMagic[i]
                           /\ p[8 + i] = PutLE(Len(h))[i]
                           /\ p[12 + Len(h) + i] = PutLE(Len(u))[i]
    BY PreambleBytes
  <1>2. Container(h, u, k) = c
    BY DEF Container
  <1>3. Len(h) \in Nat /\ Len(u) \in Nat /\ Len(k) \in Nat /\ s \in Nat
    OBVIOUS
  <1> HIDE DEF p
  <1>4. /\ b \in Seq(Nat) /\ Len(b) = s + Len(u)
        /\ \A i \in 1..s : b[i] = p[i]
        /\ \A i \in 1..Len(u) : b[s + i] = u[i]
    <2>1. /\ b \in Seq(Nat) /\ Len(b) = Len(p) + Len(u)
          /\ \A i \in 1..Len(p) : b[i] = p[i]
          /\ \A i \in 1..Len(u) : b[Len(p) + i] = u[i]
      BY <1>1, Joined
    <2> HIDE DEF b, s
    <2>2. QED
      BY <1>1, <2>1
  <1> HIDE DEF b
  <1>5. /\ c \in Seq(Nat) /\ Len(c) = s + Len(u) + Len(k)
        /\ \A i \in 1..s + Len(u) : c[i] = b[i]
        /\ \A i \in 1..Len(k) : c[s + Len(u) + i] = k[i]
    <2>1. /\ c \in Seq(Nat) /\ Len(c) = Len(b) + Len(k)
          /\ \A i \in 1..Len(b) : c[i] = b[i]
          /\ \A i \in 1..Len(k) : c[Len(b) + i] = k[i]
      BY <1>4, Joined
    <2> HIDE DEF c, s
    <2>2. QED
      BY <1>4, <2>1
  <1> HIDE DEF c
  <1>6. ASSUME NEW i \in 1..s
        PROVE  c[i] = p[i]
    <2>1. i \in 1..s + Len(u)
      BY <1>3
    <2>2. QED
      BY <1>4, <1>5, <2>1
  <1>7. ASSUME NEW i \in 1..4
        PROVE  /\ c[i] = r0bfMagic[i]
               /\ c[8 + i] = PutLE(Len(h))[i]
               /\ c[12 + Len(h) + i] = PutLE(Len(u))[i]
    <2>1. i \in 1..s /\ 8 + i \in 1..s /\ 12 + Len(h) + i \in 1..s
      BY <1>3
    <2>2. QED
      BY <1>1, <1>6, <2>1
  <1>8. ASSUME NEW i \in 1..Len(u)
        PROVE  c[s + i] = u[i]
    <2>1. s + i \in 1..s + Len(u)
      BY <1>3
    <2>2. QED
      BY <1>4, <1>5, <2>1
  <1>9. QED
    BY <1>2, <1>5, <1>7, <1>8

-----------------------------------------------------------------------------
(* The extractor.                                                          *)

\* A start of a file.
LEMMA Prefix ==
  ASSUME NEW c \in Seq(Nat), NEW d \in Prefixes(c)
  PROVE  /\ d \in Seq(Nat)
         /\ Len(d) \in 0..Len(c)
         /\ \A i \in 1..Len(d) : d[i] = c[i]
         /\ d = SubSeq(c, 1, Len(d))
  <1>1. PICK n \in 0..Len(c) : d = SubSeq(c, 1, n)
    BY DEF Prefixes
  <1>2. \A i \in 1..n : c[i] \in Nat
    OBVIOUS
  <1>3. /\ SubSeq(c, 1, n) \in Seq(Nat)
        /\ Len(SubSeq(c, 1, n)) = IF 1 <= n THEN n - 1 + 1 ELSE 0
        /\ \A i \in 1..n - 1 + 1 : SubSeq(c, 1, n)[i] = c[1 + i - 1]
    <2>1. 1 \in Int /\ n \in Int
      OBVIOUS
    <2>2. QED
      BY <1>2, <2>1, SubSeqProperties
  <1>4. Len(d) = n
    BY <1>1, <1>3
  <1>5. QED
    BY <1>1, <1>3, <1>4

\* A length word within the file is what its bytes say; past the end it is
\* still a natural.
LEMMA LengthWord ==
  ASSUME NEW d \in Seq(Nat), NEW o \in Nat
  PROVE  /\ Uint32(d, o) \in Nat
         /\ \A x \in Nat :
                x < WordMod /\ o + 4 <= Len(d)
                /\ (\A i \in 1..4 : d[o + i] = PutLE(x)[i])
                => Uint32(d, o) = x
  <1> DEFINE b == [i \in 1..WORD_SIZE |-> Backing(d, o + i)]
  <1>1. /\ b[1] = Backing(d, o + 1) /\ b[2] = Backing(d, o + 2)
        /\ b[3] = Backing(d, o + 3) /\ b[4] = Backing(d, o + 4)
    BY DEF WORD_SIZE
  <1>2. \A i \in 1..4 : Backing(d, o + i) \in Nat
    BY DEF Backing
  <1>3. Uint32(d, o) = GetLE(b)
    BY DEF Uint32
  <1> HIDE DEF b
  <1>4. b[1] \in Nat /\ b[2] \in Nat /\ b[3] \in Nat /\ b[4] \in Nat
    BY <1>1, <1>2
  <1>5. Uint32(d, o) \in Nat
    <2>1. Radix \in Nat
      BY WordsAssumption DEF WordsAssumption
    <2>2. \A p, q \in Nat : p * q \in Nat /\ p + q \in Nat
      OBVIOUS
    <2>3. Radix * Radix \in Nat /\ Radix * Radix * Radix \in Nat
      BY <2>1, <2>2
    <2>4. /\ Radix * b[2] \in Nat /\ Radix * Radix * b[3] \in Nat
          /\ Radix * Radix * Radix * b[4] \in Nat
      BY <1>4, <2>1, <2>2, <2>3
    <2>5. GetLE(b) \in Nat
      BY <1>4, <2>2, <2>4 DEF GetLE
    <2>6. QED
      BY <1>3, <2>5
  <1>6. ASSUME NEW x \in Nat, x < WordMod, o + 4 <= Len(d),
               \A i \in 1..4 : d[o + i] = PutLE(x)[i]
        PROVE  Uint32(d, o) = x
    <2>1. \A i \in 1..4 : Backing(d, o + i) = PutLE(x)[i]
      <3>1. o + 4 <= Len(d) /\ Len(d) \in Nat
        BY <1>6
      <3>2. ASSUME NEW i \in 1..4
            PROVE  Backing(d, o + i) = d[o + i]
        <4>1. o + i <= Len(d)
          BY <3>1
        <4>2. QED
          BY <4>1 DEF Backing
      <3>3. QED
        BY <1>6, <3>2
    <2>2. GetLE(b) = GetLE(PutLE(x))
      BY <1>1, <2>1 DEF GetLE
    <2>3. QED
      BY <1>3, <1>6, <2>2, WordRoundTrip
  <1>7. QED
    BY <1>5, <1>6

\* The extractor finds the two ELFs in a container, and in as much of one as
\* it accepts.
LEMMA Extracts ==
  ASSUME NEW h \in Seq(Nat), NEW u \in Seq(Nat), NEW k \in Seq(Nat),
         Len(h) < WordMod, Len(u) < WordMod,
         NEW d \in Prefixes(Container(h, u, k)), CanExtract(d)
  PROVE  /\ UserElf(d) = u
         /\ KernelElf(d) \in Prefixes(k)
         /\ d = Container(h, u, k) => KernelElf(d) = k
  <1> DEFINE c == Container(h, u, k)
             s == 16 + Len(h)
             e == s + Len(u)
  <1>1. /\ c \in Seq(Nat)
        /\ Len(c) = e + Len(k)
        /\ \A i \in 1..4 : /\ c[i] = r0bfMagic[i]
                           /\ c[8 + i] = PutLE(Len(h))[i]
                           /\ c[12 + Len(h) + i] = PutLE(Len(u))[i]
        /\ \A i \in 1..Len(u) : c[s + i] = u[i]
        /\ \A i \in 1..Len(k) : c[e + i] = k[i]
    BY Zenon, ContainerBytes
  <1>2. Len(h) \in Nat /\ Len(u) \in Nat /\ Len(k) \in Nat
    OBVIOUS
  <1> HIDE DEF c
  <1>3. /\ d \in Seq(Nat) /\ Len(d) \in Nat /\ Len(d) <= Len(c)
        /\ \A i \in 1..Len(d) : d[i] = c[i]
        /\ d = SubSeq(c, 1, Len(d))
    <2>1. d \in Prefixes(c)
      BY DEF c
    <2>2. /\ d \in Seq(Nat) /\ Len(d) \in 0..Len(c)
          /\ \A i \in 1..Len(d) : d[i] = c[i]
          /\ d = SubSeq(c, 1, Len(d))
      BY <1>1, <2>1, Prefix
    <2>3. QED
      BY <2>2
  <1>4. UserEnd(d) <= Len(d)
    BY DEF CanExtract
  <1>5. Uint32(d, 8) \in Nat
    BY <1>3, LengthWord
  <1>6. UserStart(d) = 12 + Uint32(d, 8) + 4
    BY DEF UserStart, WORD_SIZE
  <1>7. /\ UserStart(d) - 4 \in Nat
        /\ Uint32(d, UserStart(d) - 4) \in Nat
        /\ UserEnd(d) = UserStart(d) + Uint32(d, UserStart(d) - 4)
    <2>1. UserStart(d) - 4 \in Nat
      BY <1>5, <1>6
    <2>2. QED
      BY <1>3, <2>1, LengthWord DEF UserEnd, WORD_SIZE
  <1>8. UserStart(d) = s
    <2>1. 8 + 4 <= Len(d)
      BY <1>3, <1>4, <1>5, <1>6, <1>7
    <2>2. \A i \in 1..4 : d[8 + i] = PutLE(Len(h))[i]
      <3>1. \A i \in 1..4 : 8 + i \in 1..Len(d)
        BY <1>3, <2>1
      <3>2. QED
        BY <1>1, <1>3, <3>1
    <2>3. Uint32(d, 8) = Len(h)
      BY <1>2, <1>3, <2>1, <2>2, LengthWord
    <2>4. QED
      BY <1>2, <1>6, <2>3
  <1>9. UserEnd(d) = e
    <2>1. s - 4 = 12 + Len(h) /\ 12 + Len(h) \in Nat
      BY <1>2
    <2>2. (12 + Len(h)) + 4 <= Len(d)
      BY <1>2, <1>3, <1>4, <1>7, <1>8
    <2>3. \A i \in 1..4 : d[12 + Len(h) + i] = PutLE(Len(u))[i]
      <3>1. \A i \in 1..4 : 12 + Len(h) + i \in 1..Len(d)
        BY <1>2, <1>3, <2>2
      <3>2. QED
        BY <1>1, <1>3, <3>1
    <2>4. Uint32(d, 12 + Len(h)) = Len(u)
      BY <1>2, <1>3, <2>1, <2>2, <2>3, LengthWord
    <2>5. QED
      BY <1>7, <1>8, <2>1, <2>4
  <1>10. UserElf(d) = u
    <2>1. UserElf(d) = [i \in 1..Len(u) |-> Backing(d, s + i)]
      <3>1. UserEnd(d) - UserStart(d) = Len(u)
        BY <1>2, <1>8, <1>9
      <3>2. QED
        BY <1>8, <3>1 DEF UserElf
    <2>2. ASSUME NEW i \in 1..Len(u)
          PROVE  Backing(d, s + i) = u[i]
      <3>1. s + i \in 1..Len(d)
        BY <1>2, <1>3, <1>4, <1>9
      <3>2. QED
        BY <1>1, <1>3, <3>1 DEF Backing
    <2>3. u = [i \in 1..Len(u) |-> u[i]]
      OBVIOUS
    <2>4. QED
      BY <2>1, <2>2, <2>3
  <1>11. KernelElf(d) = SubSeq(k, 1, Len(d) - e)
    <2> DEFINE n == Len(d) - e
               x == SubSeq(d, e + 1, Len(d))
               y == SubSeq(k, 1, n)
    <2>1. KernelElf(d) = x
      BY <1>9 DEF KernelElf
    <2>2. n \in 0..Len(k) /\ e \in Nat
      BY <1>1, <1>2, <1>3, <1>4, <1>9
    <2>3. /\ x \in Seq(Nat) /\ Len(x) = n
          /\ \A i \in 1..n : x[i] = d[e + i]
      <3>1. e + 1 \in Int /\ Len(d) \in Int
        BY <1>3, <2>2
      <3>2. \A i \in (e + 1)..Len(d) : d[i] \in Nat
        BY <1>3, <2>2
      <3>3. /\ x \in Seq(Nat)
            /\ Len(x) = IF e + 1 <= Len(d) THEN Len(d) - (e + 1) + 1 ELSE 0
            /\ \A i \in 1..Len(d) - (e + 1) + 1 : x[i] = d[e + 1 + i - 1]
        BY <3>1, <3>2, SubSeqProperties
      <3> HIDE DEF x
      <3>4. /\ Len(d) - (e + 1) + 1 = n
            /\ \A i \in 1..n : e + 1 + i - 1 = e + i
        BY <1>3, <2>2
      <3>5. Len(x) = n
        <4>1. Len(d) \in Nat /\ e \in Nat /\ Len(d) - e \in Nat
          BY <1>3, <2>2
        <4> HIDE DEF e
        <4>2. QED
          BY <3>3, <4>1
      <3> HIDE DEF n
      <3>6. ASSUME NEW i \in 1..n
            PROVE  x[i] = d[e + i]
        BY <3>3, <3>4
      <3>7. QED
        BY <3>3, <3>5, <3>6
    <2>4. /\ y \in Seq(Nat) /\ Len(y) = n
          /\ \A i \in 1..n : y[i] = k[i]
      <3>1. y \in Prefixes(k)
        BY <2>2 DEF Prefixes
      <3>2. 1 \in Int /\ n \in Int /\ \A i \in 1..n : k[i] \in Nat
        BY <2>2
      <3>3. /\ y \in Seq(Nat)
            /\ Len(y) = IF 1 <= n THEN n - 1 + 1 ELSE 0
            /\ \A i \in 1..n - 1 + 1 : y[i] = k[1 + i - 1]
        BY <3>2, SubSeqProperties
      <3> HIDE DEF y
      <3>4. QED
        BY <2>2, <3>3
    <2>5. ASSUME NEW i \in 1..n
          PROVE  x[i] = y[i]
      <3>1. e + i \in 1..Len(d) /\ i \in 1..Len(k)
        BY <1>3, <2>2
      <3>2. QED
        BY <1>1, <1>3, <2>3, <2>4, <3>1
    <2> HIDE DEF x, y, n
    <2>6. x = y
      BY <2>3, <2>4, <2>5, SeqEqual
    <2>7. QED
      BY <2>1, <2>6 DEF y, n
  <1>12. KernelElf(d) \in Prefixes(k)
    <2>1. Len(d) - e \in 0..Len(k)
      BY <1>1, <1>2, <1>3, <1>4, <1>9
    <2>2. QED
      BY <1>11, <2>1 DEF Prefixes
  <1>13. ASSUME d = c
         PROVE  KernelElf(d) = k
    <2>1. Len(d) - e = Len(k)
      BY <1>1, <1>2, <1>13
    <2>2. QED
      BY <1>11, <2>1, SubSeqFull
  <1>14. QED
    BY <1>10, <1>12, <1>13 DEF c

-----------------------------------------------------------------------------
(* Prefixes.                                                               *)

\* A sequence starts with nothing, and with itself.
LEMMA Ends ==
  ASSUME NEW s \in Seq(Nat)
  PROVE  << >> \in Prefixes(s) /\ s \in Prefixes(s)
  <1>1. SubSeq(s, 1, 0) = << >>
    <2>1. 1 \in Int /\ 0 \in Int /\ 0 < 1
      OBVIOUS
    <2>2. QED
      BY <2>1, SubSeqEmpty
  <1>2. SubSeq(s, 1, Len(s)) = s
    BY SubSeqFull
  <1>3. 0 \in 0..Len(s) /\ Len(s) \in 0..Len(s)
    OBVIOUS
  <1>4. QED
    BY <1>1, <1>2, <1>3 DEF Prefixes

\* Sequences that agree on a start.
LEMMA SameStart ==
  ASSUME NEW s \in Seq(Nat), NEW t \in Seq(Nat), Len(s) <= Len(t),
         \A i \in 1..Len(s) : s[i] = t[i]
  PROVE  s \in Prefixes(t)
  <1> DEFINE n == Len(s)
             x == SubSeq(t, 1, n)
  <1>1. n \in 0..Len(t)
    OBVIOUS
  <1>2. 1 \in Int /\ n \in Int /\ \A i \in 1..n : t[i] \in Nat
    BY <1>1
  <1>3. /\ x \in Seq(Nat)
        /\ Len(x) = IF 1 <= n THEN n - 1 + 1 ELSE 0
        /\ \A i \in 1..n - 1 + 1 : x[i] = t[1 + i - 1]
    BY <1>2, SubSeqProperties
  <1> HIDE DEF x
  <1>4. Len(x) = n /\ \A i \in 1..n : x[i] = s[i]
    BY <1>1, <1>3
  <1>5. x = s
    BY <1>3, <1>4, SeqEqual
  <1>6. QED
    BY <1>1, <1>5 DEF Prefixes, x

\* A start of a start.
LEMMA Transitive ==
  ASSUME NEW t \in Seq(Nat), NEW s \in Prefixes(t), NEW r \in Prefixes(s)
  PROVE  r \in Prefixes(t)
  <1>1. /\ s \in Seq(Nat) /\ Len(s) \in 0..Len(t)
        /\ \A i \in 1..Len(s) : s[i] = t[i]
    BY Prefix
  <1>2. /\ r \in Seq(Nat) /\ Len(r) \in 0..Len(s)
        /\ \A i \in 1..Len(r) : r[i] = s[i]
    BY <1>1, Prefix
  <1>3. Len(r) <= Len(t) /\ \A i \in 1..Len(r) : r[i] = t[i]
    BY <1>1, <1>2
  <1>4. QED
    BY <1>2, <1>3, SameStart

\* A start of the second part, after the first.
LEMMA JoinedPrefix ==
  ASSUME NEW s \in Seq(Nat), NEW t \in Seq(Nat), NEW r \in Prefixes(t)
  PROVE  s \o r \in Prefixes(s \o t)
  <1>1. /\ r \in Seq(Nat) /\ Len(r) \in 0..Len(t)
        /\ \A i \in 1..Len(r) : r[i] = t[i]
    BY Prefix
  <1> DEFINE x == s \o r
             y == s \o t
  <1>2. /\ x \in Seq(Nat) /\ Len(x) = Len(s) + Len(r)
        /\ \A i \in 1..Len(s) : x[i] = s[i]
        /\ \A i \in 1..Len(r) : x[Len(s) + i] = r[i]
    BY <1>1, Joined
  <1>3. /\ y \in Seq(Nat) /\ Len(y) = Len(s) + Len(t)
        /\ \A i \in 1..Len(s) : y[i] = s[i]
        /\ \A i \in 1..Len(t) : y[Len(s) + i] = t[i]
    BY Joined
  <1> HIDE DEF x, y
  <1>4. Len(s) \in Nat /\ Len(r) \in Nat /\ Len(t) \in Nat
        /\ Len(r) <= Len(t)
    BY <1>1
  <1>5. ASSUME NEW i \in 1..Len(x)
        PROVE  x[i] = y[i]
    <2>1. CASE i <= Len(s)
      BY <1>2, <1>3, <1>4, <2>1
    <2>2. CASE ~(i <= Len(s))
      <3>1. /\ i - Len(s) \in 1..Len(r) /\ i - Len(s) \in 1..Len(t)
            /\ Len(s) + (i - Len(s)) = i
        BY <1>2, <1>4, <2>2
      <3>2. x[i] = r[i - Len(s)] /\ y[i] = t[i - Len(s)]
        BY <1>2, <1>3, <3>1
      <3>3. QED
        BY <1>1, <3>1, <3>2
    <2>3. QED
      BY <2>1, <2>2
  <1>6. Len(x) <= Len(y)
    BY <1>2, <1>3, <1>4
  <1>7. QED
    BY <1>2, <1>3, <1>5, <1>6, SameStart DEF x, y

\* What a container starts with, as the packer writes it.
LEMMA Started ==
  ASSUME NEW h \in Seq(Nat), NEW u \in Seq(Nat), NEW k \in Seq(Nat)
  PROVE  LET c == Container(h, u, k)
             p == Preamble(h, u)
         IN  /\ p \in Seq(Nat) /\ p \o u \in Seq(Nat) /\ c \in Seq(Nat)
             /\ \A r \in Prefixes(p) : r \in Prefixes(c)
             /\ \A r \in Prefixes(u) : p \o r \in Prefixes(c)
             /\ \A r \in Prefixes(k) : p \o u \o r \in Prefixes(c)
  <1> DEFINE c == Container(h, u, k)
             p == Preamble(h, u)
  <1>1. p \in Seq(Nat)
    BY PreambleBytes
  <1>2. c = p \o u \o k
    BY DEF Container
  <1> HIDE DEF c, p
  <1>3. p \o u \in Seq(Nat)
    BY <1>1, Joined
  <1>4. p \o u \o k \in Seq(Nat)
    BY <1>3, Joined
  <1>5. \A r \in Prefixes(k) : p \o u \o r \in Prefixes(c)
    BY <1>2, <1>3, JoinedPrefix
  <1>6. p \o u \in Prefixes(c)
    <2>1. << >> \in Prefixes(k)
      BY Ends
    <2>2. p \o u \o << >> = p \o u
      BY <1>3, ConcatEmptySeq
    <2>3. QED
      BY <1>5, <2>1, <2>2
  <1>7. \A r \in Prefixes(u) : p \o r \in Prefixes(c)
    <2>1. ASSUME NEW r \in Prefixes(u)
          PROVE  p \o r \in Prefixes(p \o u)
      BY <1>1, JoinedPrefix
    <2>2. QED
      BY <1>2, <1>4, <1>6, <2>1, Transitive
  <1>8. p \in Prefixes(c)
    <2>1. << >> \in Prefixes(u)
      BY Ends
    <2>2. p \o << >> = p
      BY <1>1, ConcatEmptySeq
    <2>3. QED
      BY <1>7, <2>1, <2>2
  <1>9. \A r \in Prefixes(p) : r \in Prefixes(c)
    BY <1>2, <1>4, <1>8, Transitive
  <1>10. QED
    BY <1>1, <1>2, <1>3, <1>4, <1>5, <1>7, <1>9 DEF c, p

\* What the extractor takes out of any file it accepts is bytes.
LEMMA ExtractTypes ==
  ASSUME NEW d \in Seq(Nat), CanExtract(d)
  PROVE  UserElf(d) \in Seq(Nat) /\ KernelElf(d) \in Seq(Nat)
  <1>1. Uint32(d, 8) \in Nat /\ UserStart(d) = 12 + Uint32(d, 8) + 4
    BY LengthWord DEF UserStart, WORD_SIZE
  <1>2. /\ UserStart(d) \in Nat /\ UserStart(d) - 4 \in Nat
        /\ UserStart(d) - WORD_SIZE = UserStart(d) - 4
    BY <1>1 DEF WORD_SIZE
  <1>3. Uint32(d, UserStart(d) - 4) \in Nat
    BY <1>2, LengthWord
  <1>4. UserEnd(d) - UserStart(d) \in Nat /\ UserEnd(d) \in Nat
    BY <1>2, <1>3 DEF UserEnd
  <1>5. UserElf(d) \in Seq(Nat)
    <2>1. \A i \in 1..(UserEnd(d) - UserStart(d)) :
              Backing(d, UserStart(d) + i) \in Nat
      BY <1>2, <1>4 DEF Backing
    <2>2. QED
      BY <1>4, <2>1 DEF UserElf
  <1>6. KernelElf(d) \in Seq(Nat)
    <2>1. UserEnd(d) + 1 \in Int /\ Len(d) \in Int
          /\ \A i \in UserEnd(d) + 1..Len(d) : d[i] \in Nat
      BY <1>4
    <2>2. QED
      BY <2>1, SubSeqProperties DEF KernelElf
  <1>7. QED
    BY <1>5, <1>6

-----------------------------------------------------------------------------
(* The invariant.                                                          *)

\* The headers there are can be extracted.
LEMMA HeaderTypes ==
  ASSUME NEW h \in Headers \cup {abiHeader}
  PROVE  h \in Seq(Nat) /\ Len(h) < WordMod
  <1>1. CASE h \in Headers
    BY <1>1, R0BFAssumption DEF R0BFAssumption
  <1>2. abiHeader \in Seq(Nat) /\ Len(abiHeader) = 16
    <2> DEFINE v == PutLE(1)
               n == PutLE(8)
               t == << 0, 0, 5, 49, 46, 48, 46, 48 >>
    <2>1. /\ v \in Seq(Nat) /\ Len(v) = 4 /\ n \in Seq(Nat) /\ Len(n) = 4
      <3>1. 1 \in Nat /\ 8 \in Nat
        OBVIOUS
      <3>2. QED
        BY <3>1, WordRoundTrip
    <2>2. t \in Seq(Nat) /\ Len(t) = 8
      OBVIOUS
    <2>3. abiHeader = v \o n \o t
      BY DEF abiHeader
    <2> HIDE DEF v, n, t
    <2>4. v \o n \in Seq(Nat) /\ Len(v \o n) = Len(v) + Len(n)
      BY <2>1, Joined
    <2>5. /\ v \o n \o t \in Seq(Nat)
          /\ Len(v \o n \o t) = Len(v \o n) + Len(t)
      BY <2>2, <2>4, Joined
    <2>6. QED
      BY <2>1, <2>2, <2>3, <2>4, <2>5
  <1>3. 16 < WordMod
    <2>1. \A R \in {4, 16, 256} : 16 < R * R * R * R
      OBVIOUS
    <2>2. QED
      BY <2>1, WordsAssumption DEF WordsAssumption, WordMod
  <1>4. QED
    BY <1>1, <1>2, <1>3

\* What a path holds is bytes.
LEMMA ElfType ==
  ASSUME TypeOK, NEW p \in Paths
  PROVE  /\ Elf(p) \in Seq(Nat)
         /\ disk[p] # None => disk[p] \in Seq(Nat) /\ Elf(p) = disk[p]
  <1>1. disk[p] \in Seq(Nat) \cup {None} /\ << >> \in Seq(Nat)
    <2>1. disk \in [Paths -> Seq(Nat) \cup {None}]
      BY DEF TypeOK
    <2>2. << >> \in Seq(Nat)
      OBVIOUS
    <2>3. QED
      BY <2>1, <2>2
  <1>2. QED
    BY <1>1 DEF Elf

\* An access to one file leaves the others as they were.
LEMMA HoldsOne ==
  ASSUME \A p \in Paths : HoldsPacked(p), NEW q \in Paths,
         \A p \in Paths : p # q => disk'[p] = disk[p] /\ packed'[p] = packed[p],
         \/ packed'[q] = None
         \/ \E h \in Headers \cup {abiHeader} :
               LET whole == Container(h, packed'[q].user, packed'[q].kernel)
               IN  /\ disk'[q] \in Prefixes(whole)
                   /\ packed'[q].whole => disk'[q] = whole
  PROVE  \A p \in Paths : HoldsPacked(p)'
  BY DEF HoldsPacked

\* The invariant holds of the files there are.
LEMMA InitInv == Init => IInv
  <1> SUFFICES ASSUME Init PROVE IInv
    OBVIOUS
  <1>1. TypeOK
    <2>1. << >> \in Seq(Nat) /\ << >> \in Seq(Paths) /\ 0 \in Nat
      OBVIOUS
    <2>2. /\ disk \in [Paths -> Seq(Nat) \cup {None}]
          /\ packed \in [Paths -> Contents \cup {None}]
      BY R0BFAssumption DEF Init, R0BFAssumption
    <2>3. QED
      BY <2>1, <2>2
      DEF Init, TypeOK, Step, Converting, Reading, Writing, Saving
  <1>2. ASSUME NEW p \in Paths
        PROVE  HoldsPacked(p)
    <2>1. CASE packed[p] = None
      BY <2>1 DEF HoldsPacked
    <2>2. CASE packed[p] # None
      <3>1. PICK h \in Headers :
              disk[p] = Container(h, packed[p].user, packed[p].kernel)
        BY <2>2, R0BFAssumption DEF Init, R0BFAssumption
      <3>2. h \in Seq(Nat) /\ packed[p].user \in Seq(Nat)
            /\ packed[p].kernel \in Seq(Nat)
        BY <1>1, <2>2, HeaderTypes DEF TypeOK, Contents
      <3>3. Container(h, packed[p].user, packed[p].kernel) \in Seq(Nat)
        BY <3>2, ContainerBytes
      <3>4. disk[p] \in Prefixes(disk[p])
        BY <3>1, <3>3, Ends
      <3>5. QED
        BY <3>1, <3>4 DEF HoldsPacked
    <2>3. QED
      BY <2>1, <2>2
  <1>3. ConvertInv /\ ExtractInv /\ PackedFaithfully
    BY DEF Init, ConvertInv, ExtractInv, PackedFaithfully, Converting,
           Reading, Writing, Saving
  <1>4. QED
    BY <1>1, <1>2, <1>3 DEF IInv

\* The state has its type, whatever step is taken.
LEMMA TypeStep == IInv /\ [Next]_vars => TypeOK'
  <1> SUFFICES ASSUME IInv, [Next]_vars PROVE TypeOK'
    OBVIOUS
  <1> USE DEF Step, Converting, Reading, Writing, Saving, Start, Exit,
              locals
  <1>1. TypeOK
    BY DEF IInv
  <1>2. ASSUME NEW n \in 1..3, Len(args) = 3
        PROVE  args[n] \in Paths
    <2>1. args \in Seq(Paths)
      BY <1>1 DEF TypeOK
    <2>2. QED
      BY <1>2, <2>1
  <1>3. CASE StartConvert
    <2>1. PICK u, k, output \in Paths :
            /\ args' = << u, k, output >>
            /\ given' = [user |-> Elf(u), kernel |-> Elf(k), whole |-> TRUE]
      BY <1>3 DEF StartConvert
    <2>2. args' \in Seq(Paths) /\ Len(args') = 3
      BY <2>1
    <2>3. Elf(u) \in Seq(Nat) /\ Elf(k) \in Seq(Nat)
      BY <1>1, ElfType
    <2>4. given' \in Contents
      BY <2>1, <2>3 DEF Contents
    <2>5. given' # None
      BY <2>4, R0BFAssumption DEF R0BFAssumption
    <2>6. /\ step' = "read user" /\ tool' = "convert" /\ ok' = FALSE
          /\ commands' = commands + 1
          /\ disk' = disk /\ user' = user /\ kernel' = kernel
          /\ packed' = packed
      BY <1>3 DEF StartConvert
    <2>7. /\ disk' \in [Paths -> Seq(Nat) \cup {None}]
          /\ user' \in Seq(Nat) /\ kernel' \in Seq(Nat)
          /\ packed' \in [Paths -> Contents \cup {None}]
          /\ commands' \in Nat
      <3>1. /\ disk \in [Paths -> Seq(Nat) \cup {None}]
            /\ user \in Seq(Nat) /\ kernel \in Seq(Nat)
            /\ packed \in [Paths -> Contents \cup {None}]
            /\ commands \in Nat
        BY <1>1 DEF TypeOK
      <3>2. commands' \in Nat
        <4>1. commands' = commands + 1 /\ commands \in Nat
          BY Zenon, <2>6, <3>1
        <4>2. QED
          BY <4>1
      <3>3. QED
        BY Zenon, <2>6, <3>1, <3>2
    <2>8. QED
      BY <2>2, <2>4, <2>5, <2>6, <2>7 DEF TypeOK
  <1>4. CASE ReadUser
    <2>1. Len(args) = 3 /\ disk[args[1]] # None
      BY <1>1, <1>4 DEF TypeOK, ReadUser, IsElf
    <2>2. disk[args[1]] \in Seq(Nat)
      BY <1>1, <1>2, <2>1, ElfType
    <2>3. QED
      BY <1>1, <1>4, <2>2 DEF TypeOK, ReadUser
  <1>5. CASE ReadKernel
    <2>1. Len(args) = 3 /\ disk[args[2]] # None
      BY <1>1, <1>5 DEF TypeOK, ReadKernel, IsElf
    <2>2. disk[args[2]] \in Seq(Nat)
      BY <1>1, <1>2, <2>1, ElfType
    <2>3. QED
      BY <1>1, <1>5, <2>2 DEF TypeOK, ReadKernel
  <1>6. CASE NotAnElf
    BY <1>1, <1>6 DEF TypeOK, NotAnElf, Fail
  <1>7. CASE Create
    <2>1. [user |-> user, kernel |-> kernel, whole |-> FALSE] \in Contents
      BY <1>1 DEF TypeOK, Contents
    <2>2. << >> \in Seq(Nat)
      OBVIOUS
    <2>3. /\ disk' \in [Paths -> Seq(Nat) \cup {None}]
          /\ packed' \in [Paths -> Contents \cup {None}]
      BY <1>1, <1>7, <2>1, <2>2 DEF TypeOK, Create
    <2>4. QED
      BY <1>1, <1>7, <2>3 DEF TypeOK, Create
  <1>8. ASSUME step \in Writing
        PROVE  disk[args[3]] \in Seq(Nat) /\ args[3] \in Paths
               /\ packed[args[3]] \in Contents
    <2>1. Preamble(abiHeader, user) \in Seq(Nat)
      BY <1>1, HeaderTypes, PreambleBytes DEF TypeOK
    <2>2. Preamble(abiHeader, user) \o user \in Seq(Nat)
      BY <1>1, <2>1, Joined DEF TypeOK
    <2>3. disk[args[3]] \in Seq(Nat)
      <3>1. << >> \in Seq(Nat)
        OBVIOUS
      <3>2. QED
        BY <1>8, <2>1, <2>2, <3>1 DEF IInv, ConvertInv
    <2>4. args[3] \in Paths
      <3>1. Len(args) = 3
        BY <1>1, <1>8 DEF TypeOK
      <3>2. QED
        BY <1>2, <3>1
    <2>5. packed[args[3]] \in Contents
      <3>1. packed[args[3]] = Begun(given)
        BY <1>8 DEF IInv, ConvertInv
      <3>2. given \in Contents
        BY <1>1, <1>8 DEF TypeOK
      <3>3. QED
        BY <3>1, <3>2 DEF Contents, Begun
    <2>6. QED
      BY <2>3, <2>4, <2>5
  <1>9. ASSUME step \in Writing, NEW b \in Seq(Nat),
               disk' = [disk EXCEPT ![args[3]] = @ \o b]
        PROVE  disk' \in [Paths -> Seq(Nat) \cup {None}]
    <2>1. disk[args[3]] \o b \in Seq(Nat)
      BY <1>8, <1>9, Joined
    <2>2. QED
      BY <1>1, <1>9, <2>1 DEF TypeOK
  <1>10. CASE WriteHeader
    <2>1. Preamble(abiHeader, user) \in Seq(Nat)
      BY <1>1, HeaderTypes, PreambleBytes DEF TypeOK
    <2>2. disk' \in [Paths -> Seq(Nat) \cup {None}]
      BY <1>9, <1>10, <2>1 DEF WriteHeader
    <2>3. QED
      BY <1>1, <1>10, <2>2 DEF TypeOK, WriteHeader
  <1>11. CASE WriteUser
    <2>1. disk' \in [Paths -> Seq(Nat) \cup {None}]
      BY <1>1, <1>9, <1>11 DEF TypeOK, WriteUser
    <2>2. QED
      BY <1>1, <1>11, <2>1 DEF TypeOK, WriteUser
  <1>12. CASE WriteKernel
    <2>1. disk' \in [Paths -> Seq(Nat) \cup {None}]
      BY <1>1, <1>9, <1>12 DEF TypeOK, WriteKernel
    <2>2. packed' \in [Paths -> Contents \cup {None}]
      <3>1. [packed[args[3]] EXCEPT !.whole = TRUE] \in Contents
        BY <1>8, <1>12 DEF WriteKernel, Contents
      <3>2. packed' = [packed EXCEPT ![args[3]] =
                          [packed[args[3]] EXCEPT !.whole = TRUE]]
        BY <1>12 DEF WriteKernel
      <3>3. QED
        BY <1>1, <3>1, <3>2 DEF TypeOK
    <2>3. QED
      BY <1>1, <1>12, <2>1, <2>2 DEF TypeOK, WriteKernel
  <1>13. CASE TornWrite
    <2> DEFINE bytes == CASE step = "write header" -> Preamble(abiHeader, user)
                          [] step = "write user"   -> user
                          [] OTHER                 -> kernel
    <2>1. bytes \in Seq(Nat)
      BY <1>1, HeaderTypes, PreambleBytes DEF TypeOK
    <2> HIDE DEF bytes
    <2>2. PICK part \in Torn(bytes) :
            disk' = [disk EXCEPT ![args[3]] = @ \o part]
      BY <1>13 DEF TornWrite, bytes
    <2>3. part \in Seq(Nat)
      BY <2>1, Prefix DEF Torn, Prefixes
    <2>4. disk' \in [Paths -> Seq(Nat) \cup {None}]
      BY <1>9, <1>13, <2>2, <2>3 DEF TornWrite
    <2>5. QED
      BY <1>1, <1>13, <2>4 DEF TypeOK, TornWrite
  <1>14. CASE StartExtract
    <2>1. PICK input \in Paths :
            args' = << input >> /\ given' = packed[input]
      BY <1>14 DEF StartExtract
    <2>2. args' \in Seq(Paths) /\ Len(args') = 1
      BY <2>1
    <2>3. given' \in Contents \cup {None}
      BY <1>1, <2>1 DEF TypeOK
    <2>4. /\ step' = "read container" /\ tool' = "extract" /\ ok' = FALSE
          /\ commands' = commands + 1
          /\ disk' = disk /\ user' = user /\ kernel' = kernel
          /\ packed' = packed
      BY <1>14 DEF StartExtract
    <2>5. /\ disk' \in [Paths -> Seq(Nat) \cup {None}]
          /\ user' \in Seq(Nat) /\ kernel' \in Seq(Nat)
          /\ packed' \in [Paths -> Contents \cup {None}]
          /\ commands' \in Nat
      <3>1. /\ disk \in [Paths -> Seq(Nat) \cup {None}]
            /\ user \in Seq(Nat) /\ kernel \in Seq(Nat)
            /\ packed \in [Paths -> Contents \cup {None}]
            /\ commands \in Nat
        BY <1>1 DEF TypeOK
      <3>2. commands' \in Nat
        <4>1. commands' = commands + 1 /\ commands \in Nat
          BY Zenon, <2>4, <3>1
        <4>2. QED
          BY <4>1
      <3>3. QED
        BY Zenon, <2>4, <3>1, <3>2
    <2>6. QED
      BY <2>2, <2>3, <2>4, <2>5 DEF TypeOK
  <1>15. CASE ReadContainer
    <2>1. disk[args[1]] \in Seq(Nat)
      <3>1. Len(args) = 1 /\ args \in Seq(Paths) /\ disk[args[1]] # None
        BY <1>1, <1>15 DEF TypeOK, ReadContainer, CanExtract
      <3>2. args[1] \in Paths
        BY <3>1
      <3>3. QED
        BY <1>1, <3>1, <3>2, ElfType
    <2>2. user' \in Seq(Nat) /\ kernel' \in Seq(Nat)
      BY <1>15, <2>1, ExtractTypes DEF ReadContainer
    <2>3. QED
      BY <1>1, <1>15, <2>2 DEF TypeOK, ReadContainer
  <1>16. CASE NotAContainer
    BY <1>1, <1>16 DEF TypeOK, NotAContainer, Fail
  <1>17. CASE SaveUser
    BY <1>1, <1>17 DEF TypeOK, SaveUser
  <1>18. CASE SaveKernel
    BY <1>1, <1>18 DEF TypeOK, SaveKernel
  <1>19. CASE TornSave
    <2> DEFINE path  == IF step = "save user" THEN UserOut ELSE KernelOut
               bytes == IF step = "save user" THEN user ELSE kernel
    <2>1. PICK part \in Torn(bytes) : disk' = [disk EXCEPT ![path] = part]
      BY <1>19 DEF TornSave
    <2>2. bytes \in Seq(Nat)
      BY <1>1 DEF TypeOK
    <2> HIDE DEF bytes
    <2>3. part \in Seq(Nat)
      BY <2>1, <2>2, Prefix DEF Torn, Prefixes
    <2>4. disk' \in [Paths -> Seq(Nat) \cup {None}]
      BY <1>1, <2>1, <2>3 DEF TypeOK
    <2>5. packed' \in [Paths -> Contents \cup {None}]
      BY <1>1, <1>19 DEF TypeOK, TornSave
    <2>6. QED
      BY <1>1, <1>19, <2>4, <2>5 DEF TypeOK, TornSave
  <1>20. CASE Killed
    BY <1>1, <1>20 DEF TypeOK, Killed, Fail
  <1>21. CASE UNCHANGED vars
    BY <1>1, <1>21 DEF TypeOK, vars
  <1>22. QED
    BY <1>3, <1>4, <1>5, <1>6, <1>7, <1>10, <1>11, <1>12, <1>13, <1>14,
       <1>15, <1>16, <1>17, <1>18, <1>19, <1>20, <1>21 DEF Next

\* What the packer is about to write, and where.
LEMMA WritingFacts ==
  ASSUME IInv, step \in Writing \cup {"create"}
  PROVE  /\ args[3] \in Paths /\ tool = "convert"
         /\ user \in Seq(Nat) /\ kernel \in Seq(Nat)
         /\ user = given.user /\ kernel = given.kernel
         /\ IsElf(user) /\ IsElf(kernel) /\ given.whole
         /\ given \in Contents
         /\ step \in Writing =>
                packed[args[3]] = Begun(given)
  <1>1. TypeOK /\ ConvertInv
    BY DEF IInv
  <1>2. step \in Converting /\ step # "read user" /\ step \notin Reading
    BY DEF Converting, Reading, Writing
  <1>3. /\ tool = "convert" /\ Len(args) = 3 /\ args \in Seq(Paths)
        /\ user \in Seq(Nat) /\ kernel \in Seq(Nat)
        /\ given # None /\ given \in Contents \cup {None}
    BY <1>1, <1>2 DEF TypeOK
  <1>4. args[3] \in Paths
    <2>1. Len(args) = 3 /\ args \in Seq(Paths)
      BY <1>3
    <2>2. QED
      BY <2>1
  <1>5. QED
    BY <1>1, <1>2, <1>3, <1>4 DEF ConvertInv

\* Every container stays a prefix of what it was made of.
LEMMA HoldsStep == IInv /\ [Next]_vars => \A p \in Paths : HoldsPacked(p)'
  <1> SUFFICES ASSUME IInv, [Next]_vars
               PROVE  \A p \in Paths : HoldsPacked(p)'
    OBVIOUS
  <1>1. TypeOK /\ \A p \in Paths : HoldsPacked(p)
    BY DEF IInv
  <1>2. ASSUME UNCHANGED << disk, packed >>
        PROVE  \A p \in Paths : HoldsPacked(p)'
    BY <1>1, <1>2 DEF HoldsPacked
  <1>3. ASSUME StartConvert \/ ReadUser \/ ReadKernel \/ NotAnElf
               \/ StartExtract \/ ReadContainer \/ NotAContainer \/ Killed
               \/ UNCHANGED vars
        PROVE  \A p \in Paths : HoldsPacked(p)'
    <2>1. UNCHANGED << disk, packed >>
      BY <1>3 DEF StartConvert, ReadUser, ReadKernel, NotAnElf, StartExtract,
                  ReadContainer, NotAContainer, Killed, Fail, vars
    <2>2. QED
      BY <1>2, <2>1
  <1> DEFINE q == args[3]
             P == Preamble(abiHeader, user)
             c == Container(abiHeader, user, kernel)
  <1>4. ASSUME step \in Writing \cup {"create"}
        PROVE  /\ P \in Seq(Nat) /\ P \o user \in Seq(Nat)
               /\ c \in Seq(Nat)
               /\ \A r \in Prefixes(P) : r \in Prefixes(c)
               /\ \A r \in Prefixes(user) : P \o r \in Prefixes(c)
               /\ \A r \in Prefixes(kernel) : P \o user \o r \in Prefixes(c)
    BY <1>4, WritingFacts, HeaderTypes, Started
  <1>5. abiHeader \in Headers \cup {abiHeader}
    OBVIOUS
  <1> HIDE DEF P, c
  <1>6. ASSUME step \in Writing \cup {"create"},
               \A p \in Paths : p # q =>
                   disk'[p] = disk[p] /\ packed'[p] = packed[p],
               packed'[q].user = user, packed'[q].kernel = kernel,
               disk'[q] \in Prefixes(c), packed'[q].whole => disk'[q] = c
        PROVE  \A p \in Paths : HoldsPacked(p)'
    <2>1. q \in Paths
      BY <1>6, WritingFacts
    <2>2. LET whole == Container(abiHeader, packed'[q].user,
                                 packed'[q].kernel)
          IN  /\ disk'[q] \in Prefixes(whole)
              /\ packed'[q].whole => disk'[q] = whole
      BY <1>6 DEF c
    <2>3. QED
      BY <1>1, <1>5, <1>6, <2>1, <2>2, HoldsOne
  <1>7. CASE Create
    <2>1. step = "create" /\ q \in Paths
      BY <1>7, WritingFacts DEF Create
    <2>2. /\ disk'[q] = << >>
          /\ packed'[q] = [user |-> user, kernel |-> kernel, whole |-> FALSE]
          /\ \A p \in Paths : p # q =>
                 disk'[p] = disk[p] /\ packed'[p] = packed[p]
      BY <1>1, <1>7, <2>1 DEF Create, TypeOK
    <2>3. << >> \in Prefixes(c)
      BY <1>4, <2>1, Ends
    <2>4. QED
      BY <1>6, <2>1, <2>2, <2>3
  <1>8. ASSUME step \in Writing, packed' = packed, NEW b,
               disk' = [disk EXCEPT ![args[3]] = @ \o b],
               disk[q] \o b \in Prefixes(c)
        PROVE  \A p \in Paths : HoldsPacked(p)'
    <2>1. q \in Paths /\ packed[q] = Begun(given)
          /\ given \in Contents /\ user = given.user /\ kernel = given.kernel
      BY <1>8, WritingFacts
    <2>2. packed'[q].user = user /\ packed'[q].kernel = kernel
          /\ packed'[q].whole = FALSE
      BY <1>8, <2>1 DEF Contents, Begun
    <2>3. disk'[q] = disk[q] \o b
      BY <1>1, <1>8, <2>1 DEF TypeOK
    <2>4. \A p \in Paths : p # q =>
              disk'[p] = disk[p] /\ packed'[p] = packed[p]
      BY <1>1, <1>8 DEF TypeOK
    <2>5. QED
      BY <1>6, <1>8, <2>2, <2>3, <2>4
  <1>9. CASE step \in Writing
    <2>1. step = "write header" => disk[q] = << >>
      BY <1>9 DEF IInv, ConvertInv
    <2>2. step = "write user" => disk[q] = P
      BY <1>9 DEF IInv, ConvertInv, P
    <2>3. step = "write kernel" => disk[q] = P \o user
      BY <1>9 DEF IInv, ConvertInv, P
    <2>4. /\ P \in Prefixes(P) /\ user \in Prefixes(user)
          /\ kernel \in Prefixes(kernel)
      BY <1>4, <1>9, WritingFacts, Ends
    <2>5. \A r \in Seq(Nat) : << >> \o r = r
      BY ConcatEmptySeq
    <2>6. CASE WriteHeader
      <3>1. step = "write header" /\ packed' = packed
            /\ disk' = [disk EXCEPT ![args[3]] = @ \o P]
        BY <2>6 DEF WriteHeader, P
      <3>2. disk[q] \o P \in Prefixes(c)
        BY <1>4, <1>9, <2>1, <2>4, <2>5, <3>1
      <3>3. QED
        BY <1>8, <1>9, <3>1, <3>2
    <2>7. CASE WriteUser
      <3>1. step = "write user" /\ packed' = packed
            /\ disk' = [disk EXCEPT ![args[3]] = @ \o user]
        BY <2>7 DEF WriteUser
      <3>2. disk[q] \o user \in Prefixes(c)
        BY <1>4, <1>9, <2>2, <2>4, <3>1
      <3>3. QED
        BY <1>8, <1>9, <3>1, <3>2
    <2>8. CASE WriteKernel
      <3>1. step = "write kernel"
            /\ disk' = [disk EXCEPT ![args[3]] = @ \o kernel]
            /\ packed' = [packed EXCEPT ![args[3]].whole = TRUE]
        BY <2>8 DEF WriteKernel
      <3>2. q \in Paths /\ packed[q] = Begun(given)
            /\ given \in Contents /\ user = given.user
            /\ kernel = given.kernel
        BY <1>9, WritingFacts
      <3>3. disk[q] \o kernel = c
        BY <2>3, <3>1 DEF Container, c, P
      <3>4. /\ disk'[q] = c
            /\ packed'[q] = [packed[q] EXCEPT !.whole = TRUE]
            /\ \A p \in Paths : p # q =>
                   disk'[p] = disk[p] /\ packed'[p] = packed[p]
        BY <1>1, <3>1, <3>2, <3>3 DEF TypeOK
      <3>5. packed'[q].user = user /\ packed'[q].kernel = kernel
        BY <3>2, <3>4 DEF Contents, Begun
      <3>6. disk'[q] \in Prefixes(c)
        BY <1>4, <1>9, <3>4, Ends
      <3>7. QED
        BY <1>6, <1>9, <3>4, <3>5, <3>6
    <2>9. CASE TornWrite
      <3> DEFINE bytes ==
                   CASE step = "write header" -> Preamble(abiHeader, user)
                     [] step = "write user"   -> user
                     [] OTHER                 -> kernel
      <3>1. PICK part \in Torn(bytes) :
              disk' = [disk EXCEPT ![args[3]] = @ \o part]
        BY <2>9 DEF TornWrite
      <3>2. packed' = packed
        BY <2>9 DEF TornWrite
      <3>3. part \in Prefixes(bytes)
        BY <3>1 DEF Torn, Prefixes
      <3>4. disk[q] \o part \in Prefixes(c)
        <4>1. CASE step = "write header"
          <5>1. bytes = P
            BY <4>1 DEF P
          <5>2. part \in Prefixes(P) /\ part \in Prefixes(c)
            BY <1>4, <1>9, <3>3, <5>1
          <5>3. part \in Seq(Nat)
            BY <1>4, <1>9, <5>2, Prefix
          <5>4. QED
            BY <2>1, <2>5, <4>1, <5>2, <5>3
        <4>2. CASE step = "write user"
          <5>1. bytes = user
            BY <4>2
          <5>2. QED
            BY <1>4, <1>9, <2>2, <3>3, <4>2, <5>1
        <4>3. CASE step = "write kernel"
          <5>1. bytes = kernel
            BY <4>3
          <5>2. QED
            BY <1>4, <1>9, <2>3, <3>3, <4>3, <5>1
        <4>4. QED
          BY <1>9, <4>1, <4>2, <4>3 DEF Writing
      <3>5. QED
        BY <1>8, <1>9, <3>1, <3>2, <3>4
    <2>10. QED
      BY <1>3, <1>9, <2>6, <2>7, <2>8, <2>9
      DEF Next, Writing, Create, SaveUser, SaveKernel, TornSave
  <1>10. CASE SaveUser
    <2>1. /\ UserOut \in Paths /\ packed'[UserOut] = None
          /\ \A p \in Paths : p # UserOut =>
                 disk'[p] = disk[p] /\ packed'[p] = packed[p]
      BY <1>1, <1>10, R0BFAssumption DEF SaveUser, TypeOK, R0BFAssumption
    <2>2. QED
      BY <1>1, <2>1, HoldsOne
  <1>11. CASE SaveKernel
    <2>1. /\ KernelOut \in Paths /\ packed'[KernelOut] = None
          /\ \A p \in Paths : p # KernelOut =>
                 disk'[p] = disk[p] /\ packed'[p] = packed[p]
      BY <1>1, <1>11, R0BFAssumption DEF SaveKernel, TypeOK, R0BFAssumption
    <2>2. QED
      BY <1>1, <2>1, HoldsOne
  <1>12. CASE TornSave
    <2> DEFINE o == IF step = "save user" THEN UserOut ELSE KernelOut
    <2>1. o \in Paths
      BY R0BFAssumption DEF R0BFAssumption
    <2>2. packed' = [packed EXCEPT ![o] = None]
          /\ \E part : disk' = [disk EXCEPT ![o] = part]
      BY <1>12 DEF TornSave
    <2> HIDE DEF o
    <2>3. /\ packed'[o] = None
          /\ \A p \in Paths : p # o =>
                 disk'[p] = disk[p] /\ packed'[p] = packed[p]
      BY <1>1, <2>1, <2>2 DEF TypeOK
    <2>4. QED
      BY <1>1, <2>1, <2>3, HoldsOne
  <1>13. QED
    BY <1>3, <1>7, <1>9, <1>10, <1>11, <1>12
    DEF Next, Writing, WriteHeader, WriteUser, WriteKernel, TornWrite

\* The packer holds what it was given, and has written it up to here.
LEMMA ConvertStep == IInv /\ [Next]_vars => ConvertInv'
  <1> SUFFICES ASSUME IInv, [Next]_vars PROVE ConvertInv'
    OBVIOUS
  <1> USE DEF Converting, Reading, Writing, Start, Exit, locals
  <1>1. TypeOK /\ ConvertInv
    BY DEF IInv
  <1>2. CASE StartConvert
    <2>1. PICK u, k, output \in Paths :
            /\ args' = << u, k, output >>
            /\ given' = [user |-> Elf(u), kernel |-> Elf(k), whole |-> TRUE]
      BY <1>2 DEF StartConvert
    <2>2. disk' = disk /\ step' = "read user"
      BY <1>2 DEF StartConvert
    <2>3. args'[1] = u /\ args'[2] = k
      BY <2>1
    <2>4. /\ given'.whole
          /\ given'.user = Elf(args[1])'
          /\ given'.kernel = Elf(args[2])'
      BY <2>1, <2>2, <2>3 DEF Elf
    <2>5. QED
      BY <2>2, <2>4 DEF ConvertInv
  <1>3. CASE ReadUser
    <2>1. user' = given.user /\ IsElf(user')
      BY <1>1, <1>3 DEF ReadUser, ConvertInv, IsElf, Elf
    <2>2. QED
      BY <1>1, <1>3, <2>1 DEF ReadUser, ConvertInv, Elf, IsElf
  <1>4. CASE ReadKernel
    <2>1. kernel' = given.kernel /\ IsElf(kernel')
      BY <1>1, <1>4 DEF ReadKernel, ConvertInv, IsElf, Elf
    <2>2. QED
      BY <1>1, <1>4, <2>1 DEF ReadKernel, ConvertInv, IsElf
  <1>5. CASE Create
    <2>1. /\ args[3] \in Paths /\ user = given.user /\ kernel = given.kernel
          /\ given \in Contents /\ given.whole
      BY <1>5, WritingFacts DEF Create
    <2>2. /\ packed'[args[3]] = Begun(given)
          /\ disk'[args[3]] = << >>
      BY <1>1, <1>5, <2>1 DEF Create, TypeOK, Begun
    <2>3. QED
      BY <1>1, <1>5, <2>2 DEF Create, ConvertInv, IsElf, Begun
  <1>6. CASE WriteHeader
    <2>1. args[3] \in Paths /\ user \in Seq(Nat)
      BY <1>6, WritingFacts DEF WriteHeader
    <2>2. Preamble(abiHeader, user) \in Seq(Nat)
      BY <2>1, HeaderTypes, PreambleBytes
    <2>3. << >> \o Preamble(abiHeader, user) = Preamble(abiHeader, user)
      BY <2>2, ConcatEmptySeq
    <2>4. disk'[args[3]] = Preamble(abiHeader, user)
      BY <1>1, <1>6, <2>1, <2>3 DEF WriteHeader, ConvertInv, TypeOK
    <2>5. QED
      BY <1>1, <1>6, <2>4 DEF WriteHeader, ConvertInv, IsElf
  <1>7. CASE WriteUser
    <2>1. args[3] \in Paths
      BY <1>7, WritingFacts DEF WriteUser
    <2>2. disk'[args[3]] = Preamble(abiHeader, user) \o user
      BY <1>1, <1>7, <2>1 DEF WriteUser, ConvertInv, TypeOK
    <2>3. QED
      BY <1>1, <1>7, <2>2 DEF WriteUser, ConvertInv, IsElf
  <1>8. ASSUME step' \notin Converting
        PROVE  ConvertInv'
    BY <1>8 DEF ConvertInv
  <1>9. CASE UNCHANGED vars
    BY <1>1, <1>9 DEF ConvertInv, vars, IsElf, Elf
  <1>10. QED
    BY <1>2, <1>3, <1>4, <1>5, <1>6, <1>7, <1>8, <1>9
    DEF Next, NotAnElf, WriteKernel, TornWrite, StartExtract, ReadContainer,
        NotAContainer, SaveUser, SaveKernel, TornSave, Killed, Fail

\* The extractor holds what was packed, and saves it.
LEMMA ExtractStep == IInv /\ [Next]_vars => ExtractInv'
  <1> SUFFICES ASSUME IInv, [Next]_vars PROVE ExtractInv'
    OBVIOUS
  <1> USE DEF Saving, Start, Exit, locals
  <1>1. TypeOK /\ ExtractInv /\ \A p \in Paths : HoldsPacked(p)
    BY DEF IInv
  <1>2. CASE StartExtract
    <2>1. PICK input \in Paths :
            args' = << input >> /\ given' = packed[input]
      BY <1>2 DEF StartExtract
    <2>2. packed' = packed /\ step' = "read container" /\ ok' = FALSE
      BY <1>2 DEF StartExtract
    <2>3. given' = packed'[args'[1]]
      BY <2>1, <2>2
    <2>4. QED
      BY <2>2, <2>3 DEF ExtractInv
  <1>3. CASE ReadContainer
    <2> DEFINE d == disk[args[1]]
               u == given.user
               k == given.kernel
    <2>1. args[1] \in Paths
      <3>1. Len(args) = 1 /\ args \in Seq(Paths)
        BY <1>1, <1>3 DEF TypeOK, ReadContainer
      <3>2. QED
        BY <3>1
    <2>2. given = packed[args[1]] /\ CanExtract(d)
          /\ user' = UserElf(d) /\ kernel' = KernelElf(d)
          /\ given' = given
      BY <1>1, <1>3 DEF ReadContainer, ExtractInv
    <2>3. ASSUME given # None, Len(u) < WordMod
          PROVE  /\ user' = u /\ kernel' \in Prefixes(k)
                 /\ given.whole => kernel' = k
      <3>1. u \in Seq(Nat) /\ k \in Seq(Nat)
        BY <1>1, <2>3 DEF TypeOK, Contents
      <3>2. PICK h \in Headers \cup {abiHeader} :
              /\ d \in Prefixes(Container(h, u, k))
              /\ given.whole => d = Container(h, u, k)
        BY <1>1, <2>1, <2>2, <2>3 DEF HoldsPacked
      <3>3. h \in Seq(Nat) /\ Len(h) < WordMod
        BY HeaderTypes
      <3>4. /\ UserElf(d) = u
            /\ KernelElf(d) \in Prefixes(k)
            /\ d = Container(h, u, k) => KernelElf(d) = k
        BY <2>2, <2>3, <3>1, <3>2, <3>3, Extracts
      <3>5. QED
        BY <2>2, <3>2, <3>4
    <2>4. Taken'
      BY <2>2, <2>3 DEF Taken
    <2>5. QED
      BY <1>1, <1>3, <2>4 DEF ReadContainer, ExtractInv, TypeOK
  <1>4. CASE SaveUser
    <2>1. disk'[UserOut] = user
      BY <1>1, <1>4, R0BFAssumption DEF SaveUser, TypeOK, R0BFAssumption
    <2>2. QED
      BY <1>1, <1>4, <2>1 DEF SaveUser, ExtractInv, Taken, TypeOK
  <1>5. CASE SaveKernel
    <2>1. disk'[UserOut] = disk[UserOut] /\ disk'[KernelOut] = kernel
      BY <1>1, <1>5, R0BFAssumption DEF SaveKernel, TypeOK, R0BFAssumption
    <2>2. QED
      BY <1>1, <1>5, <2>1 DEF SaveKernel, ExtractInv, Taken
  <1>6. ASSUME step' \notin Saving \cup {"read container"},
               ~(tool' = "extract" /\ ok')
        PROVE  ExtractInv'
    BY <1>6 DEF ExtractInv
  <1>7. CASE TornSave \/ NotAContainer \/ Killed \/ TornWrite \/ NotAnElf
    BY <1>6, <1>7
    DEF TornSave, NotAContainer, Killed, Fail, TornWrite, NotAnElf
  <1>8. CASE StartConvert
    BY <1>6, <1>8 DEF StartConvert
  <1>9. CASE ReadUser \/ ReadKernel \/ Create \/ WriteHeader \/ WriteUser
             \/ WriteKernel
    <2>1. tool' = "convert"
      BY <1>1, <1>9
      DEF TypeOK, ReadUser, ReadKernel, Create, WriteHeader, WriteUser,
          WriteKernel, Converting, Reading, Writing
    <2>2. step' \notin Saving \cup {"read container"}
      BY <1>9 DEF ReadUser, ReadKernel, Create, WriteHeader, WriteUser,
                  WriteKernel
    <2>3. QED
      BY <1>6, <2>1, <2>2
  <1>10. CASE UNCHANGED vars
    BY <1>1, <1>10 DEF ExtractInv, Taken, vars
  <1>11. QED
    BY <1>2, <1>3, <1>4, <1>5, <1>7, <1>8, <1>9, <1>10 DEF Next

\* Only the last write makes the packer succeed.
LEMMA FaithfulStep == IInv /\ [Next]_vars => PackedFaithfully'
  <1> SUFFICES ASSUME IInv, [Next]_vars PROVE PackedFaithfully'
    OBVIOUS
  <1> USE DEF Start, Exit, locals
  <1>1. TypeOK /\ ConvertInv /\ PackedFaithfully
    BY DEF IInv
  <1>2. CASE WriteKernel
    <2>1. /\ args[3] \in Paths /\ user = given.user /\ kernel = given.kernel
      BY <1>2, WritingFacts DEF WriteKernel, Writing
    <2>2. disk[args[3]] = Preamble(abiHeader, user) \o user
      BY <1>1, <1>2 DEF WriteKernel, ConvertInv, Writing
    <2>3. disk'[args[3]] = disk[args[3]] \o kernel
      BY <1>1, <1>2, <2>1 DEF WriteKernel, TypeOK
    <2>4. disk'[args[3]] = Container(abiHeader, given.user, given.kernel)
      BY <2>1, <2>2, <2>3 DEF Container
    <2>5. QED
      BY <1>2, <2>4 DEF WriteKernel, PackedFaithfully
  <1>3. ASSUME ~(tool' = "convert" /\ ok')
        PROVE  PackedFaithfully'
    BY <1>3 DEF PackedFaithfully
  <1>4. CASE StartConvert \/ NotAnElf \/ TornWrite \/ StartExtract
             \/ NotAContainer \/ TornSave \/ Killed
    <2>1. ok' = FALSE
      BY <1>4 DEF StartConvert, NotAnElf, TornWrite, StartExtract,
                  NotAContainer, TornSave, Killed, Fail
    <2>2. QED
      BY <1>3, <2>1
  <1>5. CASE ReadUser \/ ReadKernel \/ Create \/ WriteHeader \/ WriteUser
             \/ ReadContainer \/ SaveUser
    <2>1. step # "exited" /\ ok' = ok
      BY <1>5 DEF ReadUser, ReadKernel, Create, WriteHeader, WriteUser,
                  ReadContainer, SaveUser
    <2>2. ~ok
      BY <1>1, <2>1 DEF TypeOK
    <2>3. QED
      BY <1>3, <2>1, <2>2
  <1>6. CASE SaveKernel
    <2>1. tool' = "extract"
      BY <1>1, <1>6 DEF SaveKernel, TypeOK, Saving
    <2>2. QED
      BY <1>3, <2>1
  <1>7. CASE UNCHANGED vars
    BY <1>1, <1>7 DEF PackedFaithfully, vars
  <1>8. QED
    BY <1>2, <1>4, <1>5, <1>6, <1>7 DEF Next

-----------------------------------------------------------------------------
(* Theorems.                                                               *)

\* The invariant holds in every state: any number of files of any length
\* and content, and any number of commands.
THEOREM Invariance == Spec => []IInv
  <1>1. Init => IInv
    BY InitInv
  <1>2. IInv /\ [Next]_vars => IInv'
    BY TypeStep, HoldsStep, ConvertStep, ExtractStep, FaithfulStep DEF IInv
  <1>3. QED
    BY <1>1, <1>2, PTL DEF Spec

\* extract_r0bf gives back what convert_to_r0bf packed.
THEOREM ExtractsWhatWasPacked == Spec => []RoundTrip
  <1>1. IInv => RoundTrip
    BY DEF IInv, ExtractInv, Taken, RoundTrip
  <1>2. QED
    BY <1>1, Invariance, PTL

\* convert_to_r0bf packs the files it was given, output path included.
THEOREM Faithful == Spec => []PackedFaithfully
  <1>1. IInv => PackedFaithfully
    BY DEF IInv
  <1>2. QED
    BY <1>1, Invariance, PTL

\* convert_to_r0bf overwrites nothing before it holds two ELF files.
THEOREM OverwritesForElfs == Spec => OnlyElfsOverwrite
  <1>1. ASSUME IInv, [Next]_vars, tool = "convert", disk' # disk
        PROVE  IsElf(given.user) /\ IsElf(given.kernel)
    <2>1. step \in Writing \cup {"create"}
      <3>1. step \notin Saving
        BY <1>1 DEF IInv, TypeOK
      <3>2. QED
        BY <1>1, <3>1
        DEF Next, StartConvert, ReadUser, ReadKernel, NotAnElf, Create,
            WriteHeader, WriteUser, WriteKernel, TornWrite, StartExtract,
            ReadContainer, NotAContainer, SaveUser, SaveKernel, TornSave,
            Killed, Fail, Writing, Saving, vars
    <2>2. QED
      BY <1>1, <2>1, WritingFacts
  <1>2. QED
    BY <1>1, Invariance, PTL DEF Spec, OnlyElfsOverwrite

=============================================================================
