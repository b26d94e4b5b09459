-------------------------- MODULE Composition_proof --------------------------
(***************************************************************************)
(* Proofs about TaggedStructs and Composition: a tagged struct binds its   *)
(* tag, its digests and its data, and a receipt discharges exactly the     *)
(* assertion of what ran, for every size of a digest.                      *)
(***************************************************************************)
EXTENDS Composition, GuestRuntime_proof, Induction

\* A digest as the code has it: a word at each place.
IsDigest(d) == d = [k \in 1..DigestWords |-> d[k]]

-----------------------------------------------------------------------------
(* Places.                                                                 *)

LEMMA Multiples ==
  ASSUME NEW n \in Nat, NEW p \in Nat, NEW q \in Nat, p <= q
  PROVE  n * p \in Nat /\ n * q \in Nat /\ n * p <= n * q
  OBVIOUS

LEMMA Division ==
  ASSUME NEW n \in Nat \ {0}, NEW x \in Nat
  PROVE  x \div n \in Nat /\ x % n \in 0..(n - 1)
         /\ x = n * (x \div n) + (x % n)
  OBVIOUS

LEMMA Place ==
  ASSUME NEW n \in Nat \ {0}, NEW q \in Nat, NEW r \in 0..(n - 1)
  PROVE  (n * q + r) \div n = q /\ (n * q + r) % n = r
  <1> DEFINE x == n * q + r
             d == x \div n
             m == x % n
  <1>1. n * q \in Nat /\ x \in Nat
    BY Multiples
  <1> HIDE DEF x
  <1>2. d \in Nat /\ m \in 0..(n - 1) /\ x = n * d + m
    BY <1>1
  <1> HIDE DEF d, m
  <1>3. ~(d < q)
    <2>1. d < q => n * (d + 1) <= n * q
      BY <1>2, Multiples
    <2>2. n * (d + 1) = n * d + n /\ n * d \in Nat
      BY <1>2, Multiples
    <2>3. QED
      BY <1>1, <1>2, <2>1, <2>2 DEF x
  <1>4. ~(q < d)
    <2>1. q < d => n * (q + 1) <= n * d
      BY <1>2, Multiples
    <2>2. n * (q + 1) = n * q + n /\ n * d \in Nat
      BY <1>2, Multiples
    <2>3. QED
      BY <1>1, <1>2, <2>1, <2>2 DEF x
  <1>5. d = q
    BY <1>2, <1>3, <1>4
  <1>6. QED
    BY <1>1, <1>2, <1>5 DEF x, d, m

\* Where the words of a digest are in the sequence of all words.
LEMMA FlatAt ==
  ASSUME NEW D, NEW digests \in Seq(D),
         NEW i \in 1..Len(digests), NEW k \in 1..DigestWords
  PROVE  /\ DigestWords * (i - 1) + k \in 1..(DigestWords * Len(digests))
         /\ Flat(digests)[DigestWords * (i - 1) + k] = digests[i][k]
  <1> DEFINE n == DigestWords
             l == Len(digests)
             at == n * (i - 1) + k
  <1>1. n \in Nat \ {0} /\ l \in Nat
    BY DigestAssumption, LenProperties DEF DigestAssumption
  <1>2. i - 1 \in Nat /\ k - 1 \in 0..(n - 1)
    BY <1>1
  <1>3. n * (i - 1) \in Nat /\ n * i \in Nat /\ n * l \in Nat
        /\ n * i <= n * l
    BY <1>1, <1>2, Multiples
  <1>4. n * i = n * (i - 1) + n
    BY <1>1
  <1>5. at \in 1..(n * l) /\ at - 1 = n * (i - 1) + (k - 1)
    BY <1>1, <1>2, <1>3, <1>4
  <1>6. (at - 1) \div n = i - 1 /\ (at - 1) % n = k - 1
    <2>1. (n * (i - 1) + (k - 1)) \div n = i - 1
          /\ (n * (i - 1) + (k - 1)) % n = k - 1
      BY <1>1, <1>2, Place
    <2>2. QED
      BY <1>5, <2>1
  <1> HIDE DEF at
  <1>7. Flat(digests)[at] = digests[((at - 1) \div n) + 1][((at - 1) % n) + 1]
    BY <1>5 DEF Flat
  <1>8. QED
    BY <1>1, <1>5, <1>6, <1>7 DEF at

\* The words of as many digests as these determine them.
LEMMA FlatBinds ==
  ASSUME NEW D, \A d \in D : IsDigest(d),
         NEW a \in Seq(D), NEW b \in Seq(D), Len(a) = Len(b),
         \A j \in 1..(DigestWords * Len(a)) : Flat(a)[j] = Flat(b)[j]
  PROVE  a = b
  <1>1. ASSUME NEW i \in 1..Len(a)
        PROVE  a[i] = b[i]
    <2>1. a[i] \in D /\ b[i] \in D
      BY <1>1, ElementOfSeq
    <2>2. ASSUME NEW k \in 1..DigestWords
          PROVE  a[i][k] = b[i][k]
      BY <1>1, <2>2, FlatAt
    <2>3. a[i] = [k \in 1..DigestWords |-> a[i][k]]
          /\ b[i] = [k \in 1..DigestWords |-> b[i][k]]
      BY <2>1 DEF IsDigest
    <2>4. QED
      BY <2>2, <2>3
  <1>2. QED
    BY <1>1, SeqEqual

-----------------------------------------------------------------------------
(* Tagged structs.                                                         *)

\* What three sequences put together hold, and where.
LEMMA Three ==
  ASSUME NEW S, NEW a \in Seq(S), NEW b \in Seq(S), NEW c \in Seq(S)
  PROVE  /\ a \o b \o c \in Seq(S)
         /\ Len(a \o b \o c) = Len(a) + Len(b) + Len(c)
         /\ \A j \in 1..Len(a) : (a \o b \o c)[j] = a[j]
         /\ \A j \in 1..Len(b) : (a \o b \o c)[Len(a) + j] = b[j]
         /\ \A j \in 1..Len(c) : (a \o b \o c)[Len(a) + Len(b) + j] = c[j]
  <1> DEFINE ab == a \o b
  <1>1. /\ ab \in Seq(S) /\ Len(ab) = Len(a) + Len(b)
        /\ \A j \in 1..(Len(a) + Len(b)) :
               ab[j] = IF j <= Len(a) THEN a[j] ELSE b[j - Len(a)]
    BY ConcatProperties
  <1>2. Len(a) \in Nat /\ Len(b) \in Nat /\ Len(c) \in Nat
    BY LenProperties
  <1> HIDE DEF ab
  <1>3. /\ ab \o c \in Seq(S) /\ Len(ab \o c) = Len(ab) + Len(c)
        /\ \A j \in 1..(Len(ab) + Len(c)) :
               (ab \o c)[j] = IF j <= Len(ab) THEN ab[j] ELSE c[j - Len(ab)]
    <2>1. ab \in Seq(S)
      BY <1>1
    <2>2. QED
      BY <2>1, ConcatProperties
  <1>4. ASSUME NEW j \in 1..Len(a)
        PROVE  (ab \o c)[j] = a[j]
    BY <1>1, <1>2, <1>3
  <1>5. ASSUME NEW j \in 1..Len(b)
        PROVE  (ab \o c)[Len(a) + j] = b[j]
    <2>1. Len(a) + j \in 1..(Len(ab) + Len(c)) /\ Len(a) + j <= Len(ab)
          /\ Len(a) + j \in 1..(Len(a) + Len(b)) /\ ~(Len(a) + j <= Len(a))
          /\ (Len(a) + j) - Len(a) = j
      BY <1>1, <1>2
    <2>2. QED
      BY <1>1, <1>3, <2>1
  <1>6. ASSUME NEW j \in 1..Len(c)
        PROVE  (ab \o c)[Len(a) + Len(b) + j] = c[j]
    <2>1. Len(ab) + j \in 1..(Len(ab) + Len(c)) /\ ~(Len(ab) + j <= Len(ab))
          /\ (Len(ab) + j) - Len(ab) = j
          /\ Len(ab) + j = Len(a) + Len(b) + j
      BY <1>1, <1>2
    <2>2. QED
      BY <1>3, <2>1
  <1>7. QED
    BY <1>1, <1>3, <1>4, <1>5, <1>6 DEF ab

\* A SHA-256 digest stands for one thing.
LEMMA ShaBinds ==
  ASSUME NEW g, NEW h
  PROVE  /\ IsDigest(Sha(g)) /\ Sha(g)[1].hashed = << g >>
         /\ Sha(g) = Sha(h) => g = h
  <1>1. 1 \in 1..DigestWords
    BY DigestAssumption DEF DigestAssumption
  <1>2. Sha(g)[1].hashed = << g >> /\ Sha(h)[1].hashed = << h >>
    BY <1>1 DEF Sha
  <1>3. << g >> = << h >> => g = h
    OBVIOUS
  <1>4. IsDigest(Sha(g))
    BY DEF IsDigest, Sha
  <1>5. QED
    BY <1>2, <1>3, <1>4

DataWords(values) == [k \in 1..Len(values) |-> DataWord(values[k])]

\* The pieces of a tagged struct's input are sequences.
LEMMA Pieces ==
  ASSUME NEW D, NEW digests \in Seq(D), NEW values \in Seq(Nat), NEW tag,
         NEW S,
         \A d \in D : \A k \in 1..DigestWords : d[k] \in S,
         \A v \in Nat : DataWord(v) \in S,
         \A k \in 1..DigestWords : Sha(OfTag(tag))[k] \in S
  PROVE  /\ Sha(OfTag(tag)) \in Seq(S)
         /\ Len(Sha(OfTag(tag))) = DigestWords
         /\ Flat(digests) \in Seq(S)
         /\ Len(Flat(digests)) = DigestWords * Len(digests)
         /\ DataWords(values) \in Seq(S) /\ Len(DataWords(values)) = Len(values)
  <1> DEFINE n == DigestWords
             l == Len(digests)
  <1>1. n \in Nat \ {0} /\ l \in Nat /\ n * l \in Nat /\ Len(values) \in Nat
    BY DigestAssumption, LenProperties, Multiples DEF DigestAssumption
  <1>2. ASSUME NEW j \in 1..(n * l)
        PROVE  Flat(digests)[j] \in S
    <2> DEFINE q == (j - 1) \div n
               r == (j - 1) % n
    <2>1. q \in Nat /\ r \in 0..(n - 1) /\ j - 1 = n * q + r
      <3>1. j - 1 \in Nat
        BY <1>1
      <3>2. QED
        BY <1>1, <3>1, Division
    <2> HIDE DEF q, r
    <2>2. q < l
      <3>1. l <= q => n * l <= n * q
        BY <1>1, <2>1, Multiples
      <3>2. n * q \in Nat
        BY <1>1, <2>1, Multiples
      <3>3. j - 1 < n * l /\ n * q <= j - 1
        BY <1>1, <2>1, <3>2
      <3>4. ~(n * l <= n * q)
        BY <1>1, <3>2, <3>3
      <3>5. QED
        BY <1>1, <2>1, <3>1, <3>4
    <2>3. q + 1 \in 1..l /\ r + 1 \in 1..n
      BY <1>1, <2>1, <2>2
    <2>4. digests[q + 1] \in D
      BY <2>3, ElementOfSeq
    <2>5. digests[q + 1][r + 1] \in S
      BY <2>3, <2>4
    <2>6. QED
      BY <2>5 DEF Flat, q, r
  <1>3. Flat(digests) = [j \in 1..(n * l) |-> Flat(digests)[j]]
    BY DEF Flat
  <1>4. Flat(digests) \in Seq(S) /\ Len(Flat(digests)) = n * l
    <2> DEFINE f == Flat(digests)
               m == n * l
    <2>1. f = [j \in 1..m |-> f[j]] /\ m \in Nat /\ \A j \in 1..m : f[j] \in S
      BY <1>1, <1>2, <1>3
    <2> HIDE DEF f, m
    <2>2. f \in [1..m -> S]
      BY <2>1
    <2>3. f \in Seq(S) /\ Len(f) = m
      BY <2>1, <2>2
    <2>4. QED
      BY <2>3 DEF f, m
  <1>5. Sha(OfTag(tag)) = [k \in 1..n |-> Sha(OfTag(tag))[k]]
    BY DEF Sha
  <1>6. Sha(OfTag(tag)) \in Seq(S) /\ Len(Sha(OfTag(tag))) = n
    BY <1>1, <1>5
  <1>7. \A k \in 1..Len(values) : DataWord(values[k]) \in S
    BY ElementOfSeq
  <1>8. DataWords(values) \in Seq(S) /\ Len(DataWords(values)) = Len(values)
    BY <1>1, <1>7 DEF DataWords
  <1>9. QED
    BY <1>4, <1>6, <1>8

IsJoin(w, a, b, c) == w = a \o b \o c

LEMMA JoinOfThree ==
  ASSUME NEW S, NEW a \in Seq(S), NEW b \in Seq(S), NEW c \in Seq(S),
         NEW w, IsJoin(w, a, b, c)
  PROVE  /\ Len(w) = Len(a) + Len(b) + Len(c)
         /\ \A j \in 1..Len(a) : w[j] = a[j]
         /\ \A j \in 1..Len(b) : w[Len(a) + j] = b[j]
         /\ \A j \in 1..Len(c) : w[Len(a) + Len(b) + j] = c[j]
  BY Three DEF IsJoin

\* Equal joins of three sequences, the first two of which have one length,
\* are equal in each.
LEMMA SplitThree ==
  ASSUME NEW S, NEW w, NEW a1 \in Seq(S), NEW b1 \in Seq(S), NEW c1 \in Seq(S),
         NEW a2 \in Seq(S), NEW b2 \in Seq(S), NEW c2 \in Seq(S),
         Len(a1) = Len(a2), Len(b1) = Len(b2),
         IsJoin(w, a1, b1, c1), IsJoin(w, a2, b2, c2)
  PROVE  a1 = a2 /\ b1 = b2 /\ c1 = c2
  <1>1. /\ Len(w) = Len(a1) + Len(b1) + Len(c1)
        /\ \A j \in 1..Len(a1) : w[j] = a1[j]
        /\ \A j \in 1..Len(b1) : w[Len(a1) + j] = b1[j]
        /\ \A j \in 1..Len(c1) : w[Len(a1) + Len(b1) + j] = c1[j]
    <2>1. IsJoin(w, a1, b1, c1)
      OBVIOUS
    <2>2. QED
      BY ONLY <2>1, JoinOfThree, a1 \in Seq(S), b1 \in Seq(S), c1 \in Seq(S)
  <1>3. /\ Len(w) = Len(a2) + Len(b2) + Len(c2)
        /\ \A j \in 1..Len(a2) : w[j] = a2[j]
        /\ \A j \in 1..Len(b2) : w[Len(a2) + j] = b2[j]
        /\ \A j \in 1..Len(c2) : w[Len(a2) + Len(b2) + j] = c2[j]
    BY JoinOfThree
  <1>4. /\ Len(a1) \in Nat /\ Len(b1) \in Nat /\ Len(c1) \in Nat
        /\ Len(c2) \in Nat
    BY LenProperties
  <1>5. Len(c1) = Len(c2)
    BY <1>1, <1>3, <1>4
  <1>6. a1 = a2
    <2>1. \A j \in 1..Len(a1) : a1[j] = a2[j]
      BY <1>1, <1>3
    <2>2. QED
      BY <2>1, SeqEqual
  <1>7. b1 = b2
    <2>1. \A j \in 1..Len(b1) : b1[j] = b2[j]
      BY <1>1, <1>3
    <2>2. QED
      BY <2>1, SeqEqual
  <1>8. c1 = c2
    <2>1. \A j \in 1..Len(c1) : c1[j] = c2[j]
      BY <1>1, <1>3, <1>5
    <2>2. QED
      BY <1>5, <2>1, SeqEqual
  <1>9. QED
    BY <1>6, <1>7, <1>8

LEMMA Count16 ==
  ASSUME NEW a \in Nat, NEW b \in Nat, a < CountMod, b < CountMod,
         a % CountMod = b % CountMod
  PROVE  a = b
  <1>1. a % CountMod = a /\ b % CountMod = b
    BY DEF CountMod
  <1>2. QED
    BY <1>1

LEMMA StructFields ==
  ASSUME NEW m1, NEW c1, NEW m2, NEW c2, OfStruct(m1, c1) = OfStruct(m2, c2)
  PROVE  m1 = m2 /\ c1 = c2
  <1>1. OfStruct(m1, c1).words = m1 /\ OfStruct(m1, c1).count = c1
        /\ OfStruct(m2, c2).words = m2 /\ OfStruct(m2, c2).count = c2
    BY DEF OfStruct
  <1>2. QED
    BY <1>1

LEMMA DataBinds ==
  ASSUME NEW a \in Seq(Nat), NEW b \in Seq(Nat), DataWords(a) = DataWords(b),
         Len(a) = Len(b)
  PROVE  a = b
  <1>1. ASSUME NEW j \in 1..Len(a)
        PROVE  a[j] = b[j]
    <2>1. DataWord(a[j]) = DataWord(b[j])
      BY DEF DataWords
    <2>2. DataWord(a[j]).value = a[j] /\ DataWord(b[j]).value = b[j]
      BY DEF DataWord
    <2>3. QED
      BY <2>1, <2>2
  <1>2. QED
    BY <1>1, SeqEqual

\* All words of digests and data are in some set.
LEMMA SomeWords ==
  ASSUME NEW D, NEW tag1, NEW tag2
  PROVE  \E S : /\ \A d \in D : \A k \in 1..DigestWords : d[k] \in S
                /\ \A v \in Nat : DataWord(v) \in S
                /\ \A k \in 1..DigestWords : /\ Sha(OfTag(tag1))[k] \in S
                                             /\ Sha(OfTag(tag2))[k] \in S
  <1> DEFINE t1 == Sha(OfTag(tag1))
             t2 == Sha(OfTag(tag2))
             T == { d[k] : d \in D, k \in 1..DigestWords }
                      \cup { DataWord(v) : v \in Nat }
                      \cup { t1[k] : k \in 1..DigestWords }
                      \cup { t2[k] : k \in 1..DigestWords }
  <1> HIDE DEF t1, t2
  <1>1. \A d \in D : \A k \in 1..DigestWords : d[k] \in T
    OBVIOUS
  <1>2. \A v \in Nat : DataWord(v) \in T
    OBVIOUS
  <1>3. \A k \in 1..DigestWords : t1[k] \in T /\ t2[k] \in T
    OBVIOUS
  <1> HIDE DEF T
  <1>4. QED
    BY <1>1, <1>2, <1>3, Zenon DEF t1, t2

\* A tagged struct binds its tag, its digests and its data: the count at its
\* end tells digests from data, as long as it is not cut to 16 bits.
THEOREM TaggedStructBinds ==
  ASSUME NEW D, \A d \in D : IsDigest(d),
         NEW tag1, NEW ds1 \in Seq(D), NEW data1 \in Seq(Nat),
         NEW tag2, NEW ds2 \in Seq(D), NEW data2 \in Seq(Nat),
         Len(ds1) < CountMod, Len(ds2) < CountMod,
         taggedStructWithData(tag1, ds1, data1)
             = taggedStructWithData(tag2, ds2, data2)
  PROVE  tag1 = tag2 /\ ds1 = ds2 /\ data1 = data2
  <1> DEFINE t1 == Sha(OfTag(tag1))
             t2 == Sha(OfTag(tag2))
             f1 == Flat(ds1)
             f2 == Flat(ds2)
             w1 == DataWords(data1)
             w2 == DataWords(data2)
  <1>1. OfStruct(t1 \o f1 \o w1, Len(ds1) % CountMod)
            = OfStruct(t2 \o f2 \o w2, Len(ds2) % CountMod)
    BY ShaBinds DEF taggedStructWithData, DataWords
  <1> DEFINE input == t1 \o f1 \o w1
             count == Len(ds1) % CountMod
  <1>2. input = t2 \o f2 \o w2 /\ count = Len(ds2) % CountMod
    <2> HIDE DEF t1, t2, f1, f2, w1, w2
    <2> DEFINE input2 == t2 \o f2 \o w2
               count2 == Len(ds2) % CountMod
    <2>1. OfStruct(input, count) = OfStruct(input2, count2)
      BY <1>1
    <2> HIDE DEF input, count, input2, count2
    <2>2. input = input2 /\ count = count2
      BY <2>1, StructFields
    <2>3. QED
      BY <2>2 DEF input2, count2
  <1>3. Len(ds1) = Len(ds2)
    <2>1. Len(ds1) \in Nat /\ Len(ds2) \in Nat
      BY LenProperties
    <2>2. QED
      BY <1>2, <2>1, Count16
  <1>4. PICK S : /\ \A d \in D : \A k \in 1..DigestWords : d[k] \in S
                 /\ \A v \in Nat : DataWord(v) \in S
                 /\ \A k \in 1..DigestWords : t1[k] \in S /\ t2[k] \in S
    BY SomeWords
  <1>5. /\ t1 \in Seq(S) /\ Len(t1) = DigestWords /\ f1 \in Seq(S)
        /\ Len(f1) = DigestWords * Len(ds1)
        /\ w1 \in Seq(S) /\ Len(w1) = Len(data1)
    BY <1>4, Pieces
  <1>6. /\ t2 \in Seq(S) /\ Len(t2) = DigestWords /\ f2 \in Seq(S)
        /\ Len(f2) = DigestWords * Len(ds2)
        /\ w2 \in Seq(S) /\ Len(w2) = Len(data2)
    BY <1>4, Pieces
  <1>7. t1 = t2 /\ f1 = f2 /\ w1 = w2
    <2> HIDE DEF t1, t2, f1, f2, w1, w2
    <2>1. Len(t1) = Len(t2) /\ Len(f1) = Len(f2)
      BY <1>3, <1>5, <1>6
    <2>2. IsJoin(input, t1, f1, w1) /\ IsJoin(input, t2, f2, w2)
      BY <1>2 DEF IsJoin
    <2> HIDE DEF input
    <2>3. QED
      BY <1>5, <1>6, <2>1, <2>2, SplitThree
  <1>8. tag1 = tag2
    <2>1. OfTag(tag1) = OfTag(tag2)
      BY <1>7, ShaBinds
    <2>2. OfTag(tag1).tag = tag1 /\ OfTag(tag2).tag = tag2
      BY DEF OfTag
    <2>3. QED
      BY <2>1, <2>2
  <1>9. ds1 = ds2
    BY <1>3, <1>7, FlatBinds
  <1>10. data1 = data2
    <2>1. Len(data1) = Len(data2)
      BY <1>5, <1>6, <1>7
    <2>2. QED
      BY <1>7, <2>1, DataBinds
  <1>11. QED
    BY <1>8, <1>9, <1>10

-----------------------------------------------------------------------------
(* Claims.                                                                 *)

LEMMA ZeroDigest ==
  /\ IsDigest(zeroDigest)
  /\ \A h : Sha(h) # zeroDigest
  <1>1. 1 \in 1..DigestWords
    BY DigestAssumption DEF DigestAssumption
  <1>2. IsDigest(zeroDigest) /\ zeroDigest[1].hashed = << >>
    BY <1>1 DEF IsDigest, zeroDigest, DataWord
  <1>3. ASSUME NEW h
        PROVE  Sha(h) # zeroDigest
    <2>1. Sha(h)[1].hashed = << h >> /\ << h >> # << >>
      BY ShaBinds
    <2>2. QED
      BY <1>2, <2>1
  <1>4. QED
    BY <1>2, <1>3

AllDigests(D) == \A d \in D : IsDigest(d)

LEMMA SameDigests ==
  ASSUME NEW D, NEW a \in Seq(D), NEW b \in Seq(D),
         NEW v \in Seq(Nat), NEW w \in Seq(Nat), NEW tag,
         AllDigests(D), Len(a) < CountMod, Len(b) < CountMod,
         taggedStructWithData(tag, a, v) = taggedStructWithData(tag, b, w)
  PROVE  a = b /\ v = w
  BY TaggedStructBinds DEF AllDigests

\* risc0.Output binds what was hashed and the list.
LEMMA OutputBinds ==
  ASSUME NEW s1, NEW l1, NEW s2, NEW l2, IsDigest(l1), IsDigest(l2),
         OutputDigest(s1, l1) = OutputDigest(s2, l2)
  PROVE  s1 = s2 /\ l1 = l2
  <1> DEFINE h1 == Sha(OfBytes(s1))
             h2 == Sha(OfBytes(s2))
             D == {h1, h2, l1, l2}
             ds1 == << h1, l1 >>
             ds2 == << h2, l2 >>
  <1>1. IsDigest(h1) /\ IsDigest(h2)
    BY ShaBinds
  <1>2. taggedStructWithData("risc0.Output", ds1, << >>)
            = taggedStructWithData("risc0.Output", ds2, << >>)
    BY DEF OutputDigest, taggedStruct
  <1> HIDE DEF h1, h2
  <1>3. /\ \A d \in D : IsDigest(d)
        /\ ds1 \in Seq(D) /\ ds2 \in Seq(D)
        /\ Len(ds1) = 2 /\ Len(ds2) = 2 /\ << >> \in Seq(Nat)
    BY <1>1
  <1>4. 2 < CountMod
    BY DEF CountMod
  <1> HIDE DEF D
  <1>5. ds1 = ds2
    <2>1. Len(ds1) < CountMod /\ Len(ds2) < CountMod
      BY <1>3, <1>4
    <2> HIDE DEF ds1, ds2
    <2>2. QED
      BY ONLY <1>2, <1>3, <2>1, SameDigests DEF AllDigests
  <1>6. h1 = h2 /\ l1 = l2
    BY <1>5
  <1>7. s1 = s2
    <2>1. OfBytes(s1) = OfBytes(s2)
      BY <1>6, ShaBinds DEF h1, h2
    <2>2. OfBytes(s1).bytes = << s1 >> /\ OfBytes(s2).bytes = << s2 >>
      BY DEF OfBytes
    <2>3. << s1 >> = << s2 >> => s1 = s2
      OBVIOUS
    <2>4. QED
      BY <2>1, <2>2, <2>3
  <1>8. QED
    BY <1>6, <1>7

\* risc0.ReceiptClaim binds the image's words, the output and the exit code.
LEMMA ClaimBinds ==
  ASSUME NEW i1, NEW e1 \in Nat, NEW o1, NEW i2, NEW e2 \in Nat, NEW o2,
         IsDigest(o1), IsDigest(o2),
         RunClaim(i1, e1, o1) = RunClaim(i2, e2, o2)
  PROVE  /\ digestBytesToWords(i1) = digestBytesToWords(i2)
         /\ e1 = e2 /\ o1 = o2
  <1> DEFINE w1 == digestBytesToWords(i1)
             w2 == digestBytesToWords(i2)
             z == zeroDigest
             p == postStateDigest
             D == {z, p, w1, w2, o1, o2}
             ds1 == << z, w1, p, o1 >>
             ds2 == << z, w2, p, o2 >>
             data1 == << 0, e1 >>
             data2 == << 0, e2 >>
  <1>1. IsDigest(w1) /\ IsDigest(w2)
    BY DEF IsDigest, digestBytesToWords
  <1>2. IsDigest(z)
    BY ZeroDigest
  <1>3. IsDigest(p)
    BY ShaBinds DEF postStateDigest, taggedStructWithData
  <1>4. taggedStructWithData("risc0.ReceiptClaim", ds1, data1)
            = taggedStructWithData("risc0.ReceiptClaim", ds2, data2)
    BY DEF RunClaim
  <1> HIDE DEF w1, w2, z, p
  <1>5. /\ \A d \in D : IsDigest(d)
        /\ ds1 \in Seq(D) /\ ds2 \in Seq(D)
        /\ Len(ds1) = 4 /\ Len(ds2) = 4
        /\ data1 \in Seq(Nat) /\ data2 \in Seq(Nat)
    BY <1>1, <1>2, <1>3
  <1>6. 4 < CountMod
    BY DEF CountMod
  <1> HIDE DEF D
  <1>7. ds1 = ds2 /\ data1 = data2
    <2>1. Len(ds1) < CountMod /\ Len(ds2) < CountMod
      BY <1>5, <1>6
    <2> HIDE DEF ds1, ds2, data1, data2
    <2>2. QED
      BY ONLY <1>4, <1>5, <2>1, SameDigests DEF AllDigests
  <1>8. QED
    BY <1>7 DEF w1, w2

LEMMA FourOf ==
  ASSUME NEW S, NEW s \in Seq(S), Len(s) = 4
  PROVE  /\ s[1] \in S /\ s[2] \in S /\ s[3] \in S /\ s[4] \in S
         /\ s = << s[1], s[2], s[3], s[4] >>
  <1>1. s[1] \in S /\ s[2] \in S /\ s[3] \in S /\ s[4] \in S
    <2>1. 1 \in 1..Len(s) /\ 2 \in 1..Len(s) /\ 3 \in 1..Len(s)
          /\ 4 \in 1..Len(s)
      OBVIOUS
    <2>2. QED
      BY <2>1, ElementOfSeq
  <1> DEFINE t == << s[1], s[2], s[3], s[4] >>
  <1>2. t \in Seq(S) /\ Len(t) = 4 /\ \A j \in 1..4 : t[j] = s[j]
    BY <1>1
  <1> HIDE DEF t
  <1>3. s = t
    BY <1>2, SeqEqual
  <1>4. QED
    BY <1>1, <1>3 DEF t

\* The words of an image ID bind its bytes.
LEMMA ImageBinds ==
  ASSUME NEW a \in Image, NEW b \in Image,
         digestBytesToWords(a) = digestBytesToWords(b)
  PROVE  a = b
  <1> DEFINE n == WORD_SIZE * DigestWords
  <1>1. WORD_SIZE = 4 /\ DigestWords \in Nat /\ n \in Nat /\ n = 4 * DigestWords
    BY DigestAssumption DEF DigestAssumption, WORD_SIZE
  <1>2. /\ a \in Seq(Byte) /\ Len(a) = n /\ b \in Seq(Byte) /\ Len(b) = n
        /\ a \in [1..n -> Byte] /\ b \in [1..n -> Byte]
    BY <1>1 DEF Image
  <1>3. ASSUME NEW k \in 1..DigestWords
        PROVE  /\ a[4 * k - 3] = b[4 * k - 3] /\ a[4 * k - 2] = b[4 * k - 2]
               /\ a[4 * k - 1] = b[4 * k - 1] /\ a[4 * k] = b[4 * k]
    <2> DEFINE m == 4 * (k - 1) + 1
               x == SubSeq(a, m, 4 * k)
               y == SubSeq(b, m, 4 * k)
    <2>1. m \in Nat \ {0} /\ 4 * k \in Nat /\ 4 * k <= n /\ m <= 4 * k
          /\ 4 * k - m + 1 = 4
      BY <1>1
    <2>2. /\ x \in Seq(Byte) /\ Len(x) = 4
          /\ x[1] = a[m] /\ x[2] = a[m + 1] /\ x[3] = a[m + 2]
          /\ x[4] = a[m + 3]
      BY <1>2, <2>1, Slice
    <2>3. /\ y \in Seq(Byte) /\ Len(y) = 4
          /\ y[1] = b[m] /\ y[2] = b[m + 1] /\ y[3] = b[m + 2]
          /\ y[4] = b[m + 3]
      BY <1>2, <2>1, Slice
    <2>4. DataWord(GetLE(x)) = DataWord(GetLE(y))
      BY <1>1, <1>3 DEF digestBytesToWords
    <2>5. GetLE(x) = GetLE(y)
      BY <2>4 DEF DataWord
    <2> HIDE DEF x, y
    <2>6. /\ x[1] \in Byte /\ x[2] \in Byte /\ x[3] \in Byte /\ x[4] \in Byte
          /\ x = << x[1], x[2], x[3], x[4] >>
          /\ y[1] \in Byte /\ y[2] \in Byte /\ y[3] \in Byte /\ y[4] \in Byte
          /\ y = << y[1], y[2], y[3], y[4] >>
      BY <2>2, <2>3, FourOf
    <2>7. x = y
      <3>1. PutLE(GetLE(<< x[1], x[2], x[3], x[4] >>))
                = << x[1], x[2], x[3], x[4] >>
        BY <2>6, StoreOfLoad
      <3>2. PutLE(GetLE(<< y[1], y[2], y[3], y[4] >>))
                = << y[1], y[2], y[3], y[4] >>
        BY <2>6, StoreOfLoad
      <3>3. QED
        BY <2>5, <2>6, <3>1, <3>2
    <2>8. m = 4 * k - 3 /\ m + 1 = 4 * k - 2 /\ m + 2 = 4 * k - 1
          /\ m + 3 = 4 * k
      OBVIOUS
    <2>9. QED
      BY <2>2, <2>3, <2>7, <2>8
  <1>4. ASSUME NEW j \in 1..n
        PROVE  a[j] = b[j]
    <2>1. PICK k \in 1..DigestWords :
              j \in {4 * k - 3, 4 * k - 2, 4 * k - 1, 4 * k}
      <3>1. (j + 3) \div 4 \in 1..DigestWords
            /\ j \in { 4 * ((j + 3) \div 4) - 3, 4 * ((j + 3) \div 4) - 2,
                       4 * ((j + 3) \div 4) - 1, 4 * ((j + 3) \div 4) }
        BY <1>1
      <3>2. QED
        BY <3>1
    <2>2. QED
      BY <1>3, <2>1
  <1>5. QED
    BY <1>2, <1>4

-----------------------------------------------------------------------------
(* SHA-256 of bytes, below the limit of the trailer.                       *)

LEMMA CountBinds ==
  ASSUME NEW x \in Nat, NEW y \in Nat, x < WordMod, y < WordMod,
         PutBE(x) = PutBE(y)
  PROVE  x = y
  <1>1. ASSUME NEW n \in {4, 16, 256}, NEW v \in Nat, v < n * n * n * n
        PROVE  v = (v % n) + n * ((v \div n) % n)
                     + n * n * ((v \div (n * n)) % n)
                     + n * n * n * ((v \div (n * n * n)) % n)
    <2>1. CASE n = 4
      BY <1>1, <2>1
    <2>2. CASE n = 16
      BY <1>1, <2>2
    <2>3. CASE n = 256
      BY <1>1, <2>3
    <2>4. QED
      BY <1>1, <2>1, <2>2, <2>3
  <1>2. Radix \in {4, 16, 256}
    BY WordsAssumption DEF WordsAssumption
  <1> DEFINE F(v) == (v % Radix) + Radix * ((v \div Radix) % Radix)
                       + Radix * Radix * ((v \div (Radix * Radix)) % Radix)
                       + Radix * Radix * Radix
                           * ((v \div (Radix * Radix * Radix)) % Radix)
  <1>3. x = F(x) /\ y = F(y)
    BY <1>1, <1>2 DEF WordMod
  <1>4. /\ x % Radix = y % Radix
        /\ (x \div Radix) % Radix = (y \div Radix) % Radix
        /\ (x \div (Radix * Radix)) % Radix = (y \div (Radix * Radix)) % Radix
        /\ (x \div (Radix * Radix * Radix)) % Radix
               = (y \div (Radix * Radix * Radix)) % Radix
    BY Zenon DEF PutBE
  <1>5. F(x) = F(y)
    BY <1>4, Zenon
  <1>6. QED
    BY <1>3, <1>5, Zenon

\* What SHA-256 is run on, below the limit, in its parts.
LEMMA FipsBytes ==
  ASSUME NEW m \in Seq(Byte), Len(m) * 8 < WordMod
  PROVE  LET n == Len(m)
             z == FipsZeros(n)
             d == FipsSha256(m).data
         IN  /\ n \in Nat /\ z \in Nat /\ Len(d) = n + z + 9
             /\ \A j \in 1..n : d[j] = m[j]
             /\ \A j \in 1..4 : d[n + z + 5 + j] = PutBE(n * 8)[j]
  <1> DEFINE n == Len(m)
             z == FipsZeros(n)
             pad == FipsPadding(n)
             d == m \o pad
  <1>1. n \in Nat
    BY LenProperties
  <1>2. z \in Nat
    BY <1>1, PaddedLength
  <1>3. /\ pad \in Seq(Byte) /\ Len(pad) = z + 9
        /\ \A j \in 1..(z + 9) :
               pad[j] = IF j > z + 5 THEN PutBE(n * 8)[j - (z + 5)]
                        ELSE IF j = 1 THEN endMarker ELSE 0
    BY <1>1, FipsPaddingBytes
  <1> HIDE DEF z, pad
  <1>4. /\ d \in Seq(Byte) /\ Len(d) = n + Len(pad)
        /\ \A j \in 1..(n + Len(pad)) :
               d[j] = IF j <= n THEN m[j] ELSE pad[j - n]
    BY <1>3, ConcatProperties
  <1>5. FipsSha256(m).data = d
    <2>1. sha256InitStateBE \in HashState /\ sha256InitStateBE.data = << >>
      BY DEF HashState, sha256InitStateBE
    <2>2. FipsSha256(m) = [iv |-> sha256InitStateBE.iv, data |-> << >> \o d]
      BY <2>1, CompressShape DEF FipsSha256, pad
    <2>3. << >> \o d = d
      BY <1>4, ConcatEmptySeq
    <2> HIDE DEF d
    <2>4. QED
      BY <2>2, <2>3
  <1> HIDE DEF n, d
  <1>6. \A j \in 1..n : d[j] = m[j]
    BY <1>1, <1>2, <1>3, <1>4
  <1>7. ASSUME NEW j \in 1..4
        PROVE  d[n + z + 5 + j] = PutBE(n * 8)[j]
    <2>1. /\ n + z + 5 + j \in 1..(n + Len(pad)) /\ ~(n + z + 5 + j <= n)
          /\ (n + z + 5 + j) - n = z + 5 + j
          /\ z + 5 + j \in 1..(z + 9) /\ z + 5 + j > z + 5
          /\ (z + 5 + j) - (z + 5) = j
      BY <1>1, <1>2, <1>3
    <2>2. d[n + z + 5 + j] = pad[z + 5 + j]
      BY <1>4, <2>1
    <2>3. pad[z + 5 + j] = PutBE(n * 8)[j]
      BY <1>3, <2>1
    <2>4. QED
      BY <2>2, <2>3
  <1>8. Len(d) = n + z + 9
    BY <1>1, <1>2, <1>3, <1>4
  <1>9. QED
    BY <1>1, <1>2, <1>5, <1>6, <1>7, <1>8 DEF n, z

LEMMA BytesBind ==
  ASSUME NEW a \in Seq(Byte), NEW b \in Seq(Byte),
         Len(a) * 8 < WordMod, Len(b) * 8 < WordMod,
         FipsSha256(a) = FipsSha256(b)
  PROVE  a = b
  <1> DEFINE d == FipsSha256(a).data
             la == Len(a)
             lb == Len(b)
             za == FipsZeros(la)
             zb == FipsZeros(lb)
  <1>1. /\ la \in Nat /\ za \in Nat /\ Len(d) = la + za + 9
        /\ \A j \in 1..la : d[j] = a[j]
        /\ \A j \in 1..4 : d[la + za + 5 + j] = PutBE(la * 8)[j]
    BY FipsBytes
  <1>2. /\ lb \in Nat /\ zb \in Nat /\ Len(d) = lb + zb + 9
        /\ \A j \in 1..lb : d[j] = b[j]
        /\ \A j \in 1..4 : d[lb + zb + 5 + j] = PutBE(lb * 8)[j]
    <2>1. d = FipsSha256(b).data
      BY Zenon
    <2> HIDE DEF d
    <2>2. QED
      BY <2>1, FipsBytes
  <1>3. la * 8 \in Nat /\ lb * 8 \in Nat /\ la * 8 < WordMod /\ lb * 8 < WordMod
    <2>1. la \in Nat /\ lb \in Nat
      BY <1>1, <1>2
    <2>2. \A n \in Nat : n * 8 \in Nat
      OBVIOUS
    <2>3. la * 8 < WordMod /\ lb * 8 < WordMod
      BY Zenon
    <2>4. QED
      BY ONLY <2>1, <2>2, <2>3, Zenon
  <1> HIDE DEF d, za, zb
  <1>4. la = lb
    <2>1. la + za + 5 = lb + zb + 5
      BY <1>1, <1>2
    <2>2. ASSUME NEW j \in 1..4
          PROVE  PutBE(la * 8)[j] = PutBE(lb * 8)[j]
      <3>1. la + za + 5 + j = lb + zb + 5 + j
        BY <2>1, Zenon
      <3>2. d[la + za + 5 + j] = d[lb + zb + 5 + j]
        BY <3>1, Zenon
      <3>3. QED
        BY <1>1, <1>2, <3>2, Zenon
    <2>3. /\ PutBE(la * 8) \in Seq(Byte) /\ Len(PutBE(la * 8)) = 4
          /\ PutBE(lb * 8) \in Seq(Byte) /\ Len(PutBE(lb * 8)) = 4
      BY <1>3, BytesOfWord
    <2>4. PutBE(la * 8) = PutBE(lb * 8)
      BY <2>2, <2>3, SeqEqual
    <2>5. la * 8 = lb * 8
      BY <1>3, <2>4, CountBinds
    <2>6. QED
      BY <1>1, <1>2, <2>5
  <1>5. \A j \in 1..la : a[j] = b[j]
    BY <1>1, <1>2, <1>4
  <1>6. QED
    BY <1>4, <1>5, SeqEqual

-----------------------------------------------------------------------------
(* Lists of assertions.                                                    *)

\* Min is the least: what the fold of a list takes next.
LEMMA LeastElement ==
  ASSUME NEW T, T \subseteq Nat, T # {}
  PROVE  /\ Min(T) \in T /\ \A y \in T : Min(T) <= y
  <1> DEFINE less == OpToRel(<, Nat)
  <1>1. \E x \in T : \A y \in T : ~(<< y, x >> \in less)
    <2>1. IsWellFoundedOn(less, Nat)
      BY NatLessThanWellFounded
    <2> HIDE DEF less
    <2>2. QED
      BY <2>1, WFMin
  <1>2. PICK x \in T : \A y \in T : ~(<< y, x >> \in less)
    BY <1>1
  <1>3. ASSUME NEW y \in T
        PROVE  x <= y
    <2>1. x \in Nat /\ y \in Nat
      OBVIOUS
    <2>2. y < x => << y, x >> \in less
      <3>1. << y, x >> \in Nat \X Nat
        BY <2>1
      <3>2. QED
        BY <3>1 DEF OpToRel
    <2>3. ~(y < x)
      BY <1>2, <2>2
    <2>4. QED
      BY <2>1, <2>3
  <1>4. QED
    BY <1>2, <1>3 DEF Min

\* One assertion put at the head of a list, as risc0 does it.
ListCons(claim, list) ==
    taggedStruct("risc0.Assumptions",
        << taggedStruct("risc0.Assumption", << claim, zeroDigest >>), list >>)

\* What the fold of ListDigest makes of a set of places, given the function
\* itself.
Unfolded(claims, g, s) ==
    IF s = {} THEN zeroDigest
    ELSE ListCons(claims[Min(s)], g[s \ {Min(s)}])

IsFold(claims, g, S) == g = [s \in SUBSET S |-> Unfolded(claims, g, s)]

\* The host's fold, in those terms.
LEMMA ListIsFold ==
  ASSUME NEW claims
  PROVE  ListDigest(claims)
             = (CHOOSE g : IsFold(claims, g, DOMAIN claims))[DOMAIN claims]
  BY DEF ListDigest, FoldRight, MapThenFoldSet, IsFold, Unfolded, ListCons

\* A fold over the places after a gives one over the places from a on, and
\* so there is one over all places.
LEMMA FoldGrows ==
  ASSUME NEW claims, NEW n \in Nat, NEW a \in 1..n, NEW g,
         IsFold(claims, g, (a + 1)..n)
  PROVE  \E h : IsFold(claims, h, a..n)
  <1> DEFINE low == SUBSET ((a + 1)..n)
             h == [s \in SUBSET (a..n) |-> Unfolded(claims, g, s)]
  <1>1. ASSUME NEW s \in SUBSET (a..n), s # {}
        PROVE  s \ {Min(s)} \in low
    <2>1. s \subseteq Nat
      OBVIOUS
    <2>2. Min(s) \in s /\ \A y \in s : Min(s) <= y
      BY <1>1, <2>1, LeastElement
    <2>3. ASSUME NEW y \in s \ {Min(s)}
          PROVE  y \in (a + 1)..n
      <3>1. y \in a..n /\ Min(s) \in a..n /\ Min(s) <= y /\ Min(s) # y
        BY <2>2
      <3>2. QED
        BY <3>1
    <2>4. QED
      BY <2>3
  <1>2. ASSUME NEW s \in low
        PROVE  h[s] = g[s]
    <2>1. s \in SUBSET (a..n)
      OBVIOUS
    <2>2. g[s] = Unfolded(claims, g, s)
      BY <1>2 DEF IsFold
    <2>3. QED
      BY <2>1, <2>2
  <1>3. ASSUME NEW s \in SUBSET (a..n)
        PROVE  h[s] = Unfolded(claims, h, s)
    <2>1. h[s] = Unfolded(claims, g, s)
      OBVIOUS
    <2> HIDE DEF h
    <2>2. CASE s = {}
      BY <2>1, <2>2 DEF Unfolded
    <2>3. CASE s # {}
      <3>1. h[s \ {Min(s)}] = g[s \ {Min(s)}]
        BY <1>1, <1>2, <2>3
      <3>2. QED
        BY <2>1, <2>3, <3>1 DEF Unfolded
    <2>4. QED
      BY <2>2, <2>3
  <1>4. h = [s \in SUBSET (a..n) |-> h[s]]
    OBVIOUS
  <1> HIDE DEF h
  <1>5. h = [s \in SUBSET (a..n) |-> Unfolded(claims, h, s)]
    BY <1>3, <1>4
  <1>6. QED
    BY <1>5 DEF IsFold

LEMMA FoldExists ==
  ASSUME NEW claims, NEW n \in Nat
  PROVE  \E g : IsFold(claims, g, 1..n)
  <1> DEFINE T == {k \in Nat : k <= n => \E g : IsFold(claims, g, (n + 1 - k)..n)}
  <1>1. 0 \in T
    <2> DEFINE g == [s \in SUBSET {} |-> zeroDigest]
    <2>1. (n + 1 - 0)..n = {}
      OBVIOUS
    <2>2. ASSUME NEW s \in SUBSET {}
          PROVE Unfolded(claims, g, s) = zeroDigest
      BY DEF Unfolded
    <2>3. g = [s \in SUBSET {} |-> Unfolded(claims, g, s)]
      BY <2>2
    <2>4. QED
      BY <2>1, <2>3 DEF IsFold
  <1>2. ASSUME NEW k \in Nat, k \in T
        PROVE  k + 1 \in T
    <2> SUFFICES ASSUME k + 1 <= n
                 PROVE  \E g : IsFold(claims, g, (n + 1 - (k + 1))..n)
      OBVIOUS
    <2> DEFINE a == n + 1 - (k + 1)
    <2>1. a \in 1..n /\ a + 1 = n + 1 - k
      OBVIOUS
    <2>2. PICK g : IsFold(claims, g, (n + 1 - k)..n)
      BY <1>2
    <2> HIDE DEF a
    <2>3. \E h : IsFold(claims, h, a..n)
      BY <2>1, <2>2, FoldGrows
    <2>4. QED
      BY <2>3 DEF a
  <1> HIDE DEF T
  <1>3. n \in T
    BY <1>1, <1>2, SetInduction
  <1>4. QED
    <2>1. n + 1 - n = 1 /\ n <= n
      OBVIOUS
    <2>2. QED
      BY <1>3, <2>1 DEF T

\* The digests of a list as it grows, one assertion after the other.
IsChain(h, claims) ==
    h = [k \in 0..Len(claims) |->
            IF k = 0 THEN zeroDigest ELSE ListCons(claims[k], h[k - 1])]

\* The host's fold over the list is the last of them.
LEMMA ListIsChain ==
  ASSUME NEW S, NEW claims \in Seq(S)
  PROVE  \E h : IsChain(h, claims)
                /\ h[Len(claims)] = ListDigest(Reverse(claims))
  <1> DEFINE n == Len(claims)
             back == Reverse(claims)
             P(g) == IsFold(back, g, DOMAIN back)
             g == CHOOSE f : P(f)
             h == [k \in 0..n |-> g[(n + 1 - k)..n]]
  <1>1. n \in Nat /\ DOMAIN back = 1..n
        /\ \A j \in 1..n : back[j] = claims[n - j + 1]
    BY DEF Reverse
  <1> HIDE DEF back
  <1>2. P(g)
    <2>1. \E f : P(f)
      BY <1>1, FoldExists
    <2> HIDE DEF P
    <2>2. QED
      BY <2>1
  <1>3. g[1..n] = ListDigest(back)
    BY <1>1, ListIsFold
  <1> HIDE DEF g, n
  <1>4. \A s \in SUBSET (1..n) : g[s] = Unfolded(back, g, s)
    BY <1>1, <1>2 DEF IsFold
  <1>5. ASSUME NEW k \in 1..n
        PROVE  g[(n + 1 - k)..n] = ListCons(claims[k], g[(n + 1 - (k - 1))..n])
    <2> DEFINE a == n + 1 - k
               s == a..n
    <2>1. a \in 1..n /\ a + 1 = n + 1 - (k - 1) /\ n - a + 1 = k
      BY <1>1
    <2> HIDE DEF a
    <2>2. s \in SUBSET (1..n) /\ s # {} /\ s \subseteq Nat /\ a \in s
      <3>1. a \in s
        BY <1>1, <2>1
      <3>2. ASSUME NEW y \in s
            PROVE  y \in 1..n /\ y \in Nat
        BY <1>1, <2>1
      <3>3. QED
        BY <3>1, <3>2
    <2>3. \A y \in s : a <= y
      BY <1>1, <2>1
    <2> HIDE DEF s
    <2>4. Min(s) \in s /\ \A y \in s : Min(s) <= y
      BY <2>2, LeastElement
    <2>5. Min(s) = a
      <3>1. Min(s) <= a /\ a <= Min(s) /\ Min(s) \in Nat /\ a \in Nat
        BY <2>2, <2>3, <2>4
      <3>2. QED
        BY <3>1
    <2>6. s \ {a} = (a + 1)..n
      BY <1>1, <2>1 DEF s
    <2>7. g[s] = ListCons(back[a], g[s \ {a}])
      BY <1>4, <2>2, <2>5 DEF Unfolded
    <2>8. back[a] = claims[k]
      BY <1>1, <2>1
    <2>9. g[s] = ListCons(claims[k], g[(n + 1 - (k - 1))..n])
      BY <2>1, <2>6, <2>7, <2>8
    <2>10. QED
      BY <2>9 DEF s, a
  <1>6. g[(n + 1 - 0)..n] = zeroDigest
    <2>1. (n + 1 - 0)..n = {}
      BY <1>1
    <2>2. {} \in SUBSET (1..n)
      OBVIOUS
    <2>3. QED
      BY <1>4, <2>1, <2>2 DEF Unfolded
  <1>7. ASSUME NEW k \in 0..n
        PROVE  h[k] = IF k = 0 THEN zeroDigest ELSE ListCons(claims[k], h[k - 1])
    <2>1. CASE k = 0
      BY <1>1, <1>6, <2>1
    <2>2. CASE k # 0
      <3>1. k \in 1..n /\ k - 1 \in 0..n
        BY <1>1, <2>2
      <3>2. h[k] = g[(n + 1 - k)..n] /\ h[k - 1] = g[(n + 1 - (k - 1))..n]
        BY <3>1
      <3> HIDE DEF h
      <3>3. QED
        BY <1>5, <2>2, <3>1, <3>2
    <2>3. QED
      BY <2>1, <2>2
  <1>8. IsChain(h, claims)
    <2>1. h = [k \in 0..n |-> h[k]]
      OBVIOUS
    <2> HIDE DEF h
    <2>2. h = [k \in 0..n |-> IF k = 0 THEN zeroDigest
                              ELSE ListCons(claims[k], h[k - 1])]
      BY <1>7, <2>1
    <2>3. QED
      BY <2>2 DEF IsChain, n
  <1>9. h[n] = ListDigest(back)
    <2>1. n \in 0..n /\ n + 1 - n = 1
      BY <1>1
    <2>2. QED
      BY <1>3, <2>1
  <1>10. QED
    BY <1>8, <1>9 DEF n, back

\* Lists that start alike have the same digests there.
LEMMA ChainsAgree ==
  ASSUME NEW S, NEW a \in Seq(S), NEW b \in Seq(S), NEW g, NEW h,
         IsChain(g, a), IsChain(h, b), Len(a) <= Len(b),
         \A k \in 1..Len(a) : a[k] = b[k]
  PROVE  g[Len(a)] = h[Len(a)]
  <1> DEFINE n == Len(a)
             T == {k \in Nat : k <= n => g[k] = h[k]}
  <1>1. n \in Nat /\ Len(b) \in Nat /\ n <= Len(b)
    OBVIOUS
  <1>2. /\ \A k \in 0..n : g[k] = IF k = 0 THEN zeroDigest
                                   ELSE ListCons(a[k], g[k - 1])
        /\ \A k \in 0..Len(b) : h[k] = IF k = 0 THEN zeroDigest
                                        ELSE ListCons(b[k], h[k - 1])
    BY Zenon DEF IsChain
  <1> HIDE DEF n
  <1>3. 0 \in T
    BY <1>1, <1>2
  <1>4. ASSUME NEW k \in Nat, k \in T
        PROVE  k + 1 \in T
    <2> SUFFICES ASSUME k + 1 <= n
                 PROVE  g[k + 1] = h[k + 1]
      OBVIOUS
    <2>1. k + 1 \in 0..n /\ k + 1 \in 0..Len(b) /\ k + 1 \in 1..n
          /\ k + 1 # 0 /\ (k + 1) - 1 = k /\ k <= n
      BY <1>1
    <2>2. g[k] = h[k]
      BY <1>4, <2>1
    <2>3. g[k + 1] = ListCons(a[k + 1], g[k]) /\ h[k + 1] = ListCons(b[k + 1], h[k])
      BY <1>2, <2>1
    <2>4. a[k + 1] = b[k + 1]
      BY <2>1 DEF n
    <2>5. QED
      BY <2>2, <2>3, <2>4
  <1> HIDE DEF T
  <1>5. n \in T
    BY <1>1, <1>3, <1>4, SetInduction
  <1>6. QED
    BY <1>1, <1>5 DEF T, n

\* The digest of no assertions, and of one more: what addAssumptionDigest
\* makes of the running digest is what the host makes of the longer list.
LEMMA ListDigestGrows ==
  /\ ListDigest(Reverse(<< >>)) = zeroDigest
  /\ \A S : \A claims \in Seq(S) : \A claim \in S :
         ListDigest(Reverse(Append(claims, claim)))
             = ListCons(claim, ListDigest(Reverse(claims)))
  <1>1. ListDigest(Reverse(<< >>)) = zeroDigest
    <2>1. << >> \in Seq({}) /\ Len(<< >>) = 0 /\ 0 \in 0..0
      OBVIOUS
    <2>2. PICK h : IsChain(h, << >>)
                   /\ h[Len(<< >>)] = ListDigest(Reverse(<< >>))
      BY <2>1, ListIsChain
    <2>3. h[0] = zeroDigest
      BY <2>1, <2>2 DEF IsChain
    <2>4. QED
      BY <2>1, <2>2, <2>3
  <1>2. ASSUME NEW S, NEW claims \in Seq(S), NEW claim \in S
        PROVE  ListDigest(Reverse(Append(claims, claim)))
                   = ListCons(claim, ListDigest(Reverse(claims)))
    <2> DEFINE n == Len(claims)
               longer == Append(claims, claim)
    <2>1. /\ longer \in Seq(S) /\ n \in Nat /\ Len(longer) = n + 1
          /\ longer[n + 1] = claim
          /\ \A k \in 1..n : claims[k] = longer[k]
      OBVIOUS
    <2> HIDE DEF longer
    <2>2. PICK g : IsChain(g, claims)
                   /\ g[n] = ListDigest(Reverse(claims))
      BY ListIsChain
    <2>3. PICK h : IsChain(h, longer)
                   /\ h[Len(longer)] = ListDigest(Reverse(longer))
      BY <2>1, ListIsChain
    <2>4. g[n] = h[n]
      <3>1. n <= Len(longer)
        BY <2>1
      <3>2. QED
        BY <2>1, <2>2, <2>3, <3>1, ChainsAgree
    <2>5. h[n + 1] = ListCons(longer[n + 1], h[n])
      <3>1. n + 1 \in 0..Len(longer) /\ n + 1 # 0 /\ (n + 1) - 1 = n
        BY <2>1
      <3>2. h[n + 1] = IF n + 1 = 0 THEN zeroDigest
                       ELSE ListCons(longer[n + 1], h[(n + 1) - 1])
        BY <2>3, <3>1, Zenon DEF IsChain
      <3>3. QED
        BY <3>1, <3>2
    <2>6. QED
      BY <2>1, <2>2, <2>3, <2>4, <2>5 DEF longer
  <1>3. QED
    BY <1>1, <1>2

\* An assertion put on a list binds the assertion and the list.
LEMMA ConsBinds ==
  ASSUME NEW c1, NEW l1, NEW c2, NEW l2,
         IsDigest(c1), IsDigest(l1), IsDigest(c2), IsDigest(l2),
         ListCons(c1, l1) = ListCons(c2, l2)
  PROVE  c1 = c2 /\ l1 = l2
  <1> DEFINE h1 == taggedStruct("risc0.Assumption", << c1, zeroDigest >>)
             h2 == taggedStruct("risc0.Assumption", << c2, zeroDigest >>)
  <1>1. IsDigest(h1) /\ IsDigest(h2)
    <2>1. (\E g : h1 = Sha(g)) /\ (\E g : h2 = Sha(g))
      BY DEF taggedStruct, taggedStructWithData
    <2>2. \A g : IsDigest(Sha(g))
      BY ShaBinds, Zenon
    <2> HIDE DEF h1, h2
    <2>3. QED
      BY <2>1, <2>2, Zenon
  <1>2. h1 = h2 /\ l1 = l2
    <2> DEFINE D == {h1, h2, l1, l2}
               a == << h1, l1 >>
               b == << h2, l2 >>
    <2>1. taggedStruct("risc0.Assumptions", a)
              = taggedStruct("risc0.Assumptions", b)
      BY DEF ListCons
    <2> HIDE DEF h1, h2
    <2>2. a \in Seq(D) /\ b \in Seq(D) /\ Len(a) = 2 /\ Len(b) = 2
          /\ << >> \in Seq(Nat)
      OBVIOUS
    <2>3. AllDigests(D)
      BY <1>1 DEF AllDigests
    <2> HIDE DEF D, a, b
    <2>4. Len(a) < CountMod /\ Len(b) < CountMod
      BY <2>2 DEF CountMod
    <2>5. a = b
      BY <2>1, <2>2, <2>3, <2>4, SameDigests DEF taggedStruct
    <2>6. QED
      BY <2>5 DEF a, b
  <1>3. c1 = c2
    <2> DEFINE D == {c1, c2, zeroDigest}
               a == << c1, zeroDigest >>
               b == << c2, zeroDigest >>
    <2>1. taggedStruct("risc0.Assumption", a)
              = taggedStruct("risc0.Assumption", b)
      BY <1>2
    <2>2. a \in Seq(D) /\ b \in Seq(D) /\ Len(a) = 2 /\ Len(b) = 2
          /\ << >> \in Seq(Nat)
      OBVIOUS
    <2>3. AllDigests(D)
      BY ZeroDigest DEF AllDigests
    <2> HIDE DEF D, a, b
    <2>4. Len(a) < CountMod /\ Len(b) < CountMod
      BY <2>2 DEF CountMod
    <2>5. a = b
      BY <2>1, <2>2, <2>3, <2>4, SameDigests DEF taggedStruct
    <2>6. QED
      BY <2>5 DEF a, b
  <1>4. QED
    BY <1>2, <1>3

\* A list with an assertion on it is not the empty one.
LEMMA ConsIsDigest ==
  ASSUME NEW claim, NEW list
  PROVE  IsDigest(ListCons(claim, list)) /\ ListCons(claim, list) # zeroDigest
  <1>1. \E g : ListCons(claim, list) = Sha(g)
    BY DEF ListCons, taggedStruct, taggedStructWithData
  <1>2. QED
    BY <1>1, ShaBinds, ZeroDigest, Zenon

\* The digests of a chain.
LEMMA ChainAt ==
  ASSUME NEW S, NEW a \in Seq(S), NEW g, IsChain(g, a)
  PROVE  /\ g[0] = zeroDigest
         /\ \A k \in 1..Len(a) : g[k] = ListCons(a[k], g[k - 1])
         /\ \A k \in 0..Len(a) : IsDigest(g[k])
  <1>1. \A k \in 0..Len(a) : g[k] = IF k = 0 THEN zeroDigest
                                    ELSE ListCons(a[k], g[k - 1])
    BY Zenon DEF IsChain
  <1>2. g[0] = zeroDigest
    BY <1>1
  <1>3. ASSUME NEW k \in 1..Len(a)
        PROVE  g[k] = ListCons(a[k], g[k - 1])
    BY <1>1
  <1>4. ASSUME NEW k \in 0..Len(a)
        PROVE  IsDigest(g[k])
    BY <1>1, ConsIsDigest, ZeroDigest
  <1>5. QED
    BY <1>2, <1>3, <1>4

\* The digest of a list is a digest.
LEMMA ListIsDigest ==
  ASSUME NEW S, NEW a \in Seq(S)
  PROVE  IsDigest(ListDigest(Reverse(a)))
  <1>1. PICK g : IsChain(g, a) /\ g[Len(a)] = ListDigest(Reverse(a))
    BY ListIsChain
  <1>2. Len(a) \in 0..Len(a)
    OBVIOUS
  <1>3. QED
    BY <1>1, <1>2, ChainAt

\* Two lists with one digest end alike, as far as the shorter one goes, and
\* there is no longer one.
LEMMA ChainsBind ==
  ASSUME NEW D, AllDigests(D), NEW a \in Seq(D), NEW b \in Seq(D),
         NEW g, NEW h, IsChain(g, a), IsChain(h, b),
         g[Len(a)] = h[Len(b)], Len(a) <= Len(b)
  PROVE  a = b
  <1> DEFINE n == Len(a)
             m == Len(b)
             T == {k \in Nat : k <= n =>
                     /\ g[n - k] = h[m - k]
                     /\ \A j \in 1..k : a[n + 1 - j] = b[m + 1 - j]}
  <1>1. /\ n \in Nat /\ m \in Nat /\ n <= m
        /\ g[n] = h[m]
    OBVIOUS
  <1>2. /\ g[0] = zeroDigest
        /\ \A k \in 1..n : g[k] = ListCons(a[k], g[k - 1])
        /\ \A k \in 0..n : IsDigest(g[k])
    BY ChainAt
  <1>3. /\ h[0] = zeroDigest
        /\ \A k \in 1..m : h[k] = ListCons(b[k], h[k - 1])
        /\ \A k \in 0..m : IsDigest(h[k])
    BY ChainAt
  <1>4. /\ \A k \in 1..n : IsDigest(a[k])
        /\ \A k \in 1..m : IsDigest(b[k])
    BY DEF AllDigests
  <1> HIDE DEF n, m
  <1>5. 0 \in T
    <2>1. n - 0 = n /\ m - 0 = m /\ 1..0 = {}
      BY <1>1
    <2>2. QED
      BY <1>1, <2>1
  <1>6. ASSUME NEW k \in Nat, k \in T
        PROVE  k + 1 \in T
    <2> SUFFICES ASSUME k + 1 <= n
                 PROVE  /\ g[n - (k + 1)] = h[m - (k + 1)]
                        /\ \A j \in 1..(k + 1) : a[n + 1 - j] = b[m + 1 - j]
      OBVIOUS
    <2> DEFINE p == n - k
               q == m - k
    <2>1. /\ p \in 1..n /\ q \in 1..m /\ p - 1 \in 0..n /\ q - 1 \in 0..m
          /\ p - 1 = n - (k + 1) /\ q - 1 = m - (k + 1)
          /\ p = n + 1 - (k + 1) /\ q = m + 1 - (k + 1)
      BY <1>1
    <2>2. g[p] = h[q] /\ \A j \in 1..k : a[n + 1 - j] = b[m + 1 - j]
      BY <1>1, <1>6
    <2> HIDE DEF p, q
    <2>3. ListCons(a[p], g[p - 1]) = ListCons(b[q], h[q - 1])
      BY <1>2, <1>3, <2>1, <2>2
    <2>4. a[p] = b[q] /\ g[p - 1] = h[q - 1]
      <3>1. /\ IsDigest(a[p]) /\ IsDigest(b[q])
            /\ IsDigest(g[p - 1]) /\ IsDigest(h[q - 1])
        BY <1>2, <1>3, <1>4, <2>1
      <3>2. QED
        BY <2>3, <3>1, ConsBinds
    <2>5. ASSUME NEW j \in 1..(k + 1)
          PROVE  a[n + 1 - j] = b[m + 1 - j]
      <3>1. CASE j \in 1..k
        BY <2>2, <3>1
      <3>2. CASE j = k + 1
        BY <2>1, <2>4, <3>2
      <3>3. QED
        BY <3>1, <3>2
    <2>6. QED
      BY <2>1, <2>4, <2>5
  <1> HIDE DEF T
  <1>7. n \in T
    BY <1>1, <1>5, <1>6, SetInduction
  <1>8. /\ g[0] = h[m - n]
        /\ \A j \in 1..n : a[n + 1 - j] = b[m + 1 - j]
    <2>1. n - n = 0 /\ n <= n
      BY <1>1
    <2>2. QED
      BY <1>7, <2>1 DEF T
  <1>9. m = n
    <2> SUFFICES ASSUME m # n
                 PROVE  FALSE
      OBVIOUS
    <2>1. m - n \in 1..m
      BY <1>1
    <2>2. h[m - n] = ListCons(b[m - n], h[(m - n) - 1])
      BY <1>3, <2>1
    <2>3. QED
      BY <1>2, <1>8, <2>2, ConsIsDigest
  <1>10. ASSUME NEW k \in 1..n
         PROVE  a[k] = b[k]
    <2>1. n + 1 - k \in 1..n /\ n + 1 - (n + 1 - k) = k
      BY <1>1
    <2>2. a[n + 1 - (n + 1 - k)] = b[m + 1 - (n + 1 - k)]
      BY <1>8, <2>1
    <2>3. QED
      BY <1>9, <2>1, <2>2
  <1>11. QED
    BY <1>9, <1>10, SeqEqual DEF n, m

\* The assumptions digest binds the list: which claims were asserted, how
\* often and in which order.
THEOREM AssumptionsBind ==
  ASSUME NEW D, AllDigests(D), NEW a \in Seq(D), NEW b \in Seq(D),
         ListDigest(Reverse(a)) = ListDigest(Reverse(b))
  PROVE  a = b
  <1>1. PICK g : IsChain(g, a) /\ g[Len(a)] = ListDigest(Reverse(a))
    BY ListIsChain
  <1>2. PICK h : IsChain(h, b) /\ h[Len(b)] = ListDigest(Reverse(b))
    BY ListIsChain
  <1>3. g[Len(a)] = h[Len(b)]
    BY <1>1, <1>2
  <1>4. CASE Len(a) <= Len(b)
    BY <1>1, <1>2, <1>3, <1>4, ChainsBind
  <1>5. CASE Len(b) <= Len(a)
    BY <1>1, <1>2, <1>3, <1>5, ChainsBind
  <1>6. QED
    BY <1>4, <1>5

\* The claim digests of a list of claims.
ClaimDigests(claims) == [k \in DOMAIN claims |-> VerifyClaim(claims[k])]

\* Sequences of claims, and of their digests.
LEMMA ClaimDigestsType ==
  ASSUME NEW claims \in Seq(Claims)
  PROVE  /\ ClaimDigests(claims) \in Seq({ VerifyClaim(c) : c \in Claims })
         /\ Len(ClaimDigests(claims)) = Len(claims)
         /\ \A k \in 1..Len(claims) :
                ClaimDigests(claims)[k] = VerifyClaim(claims[k])
  <1>1. DOMAIN claims = 1..Len(claims) /\ Len(claims) \in Nat
    OBVIOUS
  <1>2. \A k \in 1..Len(claims) :
            VerifyClaim(claims[k]) \in { VerifyClaim(c) : c \in Claims }
    OBVIOUS
  <1>3. QED
    BY <1>1, <1>2 DEF ClaimDigests

\* One more claim, one more digest.
LEMMA DigestsGrow ==
  ASSUME NEW claims \in Seq(Claims), NEW claim \in Claims
  PROVE  ClaimDigests(Append(claims, claim))
             = Append(ClaimDigests(claims), VerifyClaim(claim))
  <1> DEFINE n == Len(claims)
             S == { VerifyClaim(c) : c \in Claims }
             longer == Append(claims, claim)
             left == ClaimDigests(longer)
             short == ClaimDigests(claims)
             last == VerifyClaim(claim)
             right == Append(short, last)
  <1>1. /\ longer \in Seq(Claims) /\ n \in Nat /\ Len(longer) = n + 1
        /\ longer[n + 1] = claim
        /\ \A k \in 1..n : longer[k] = claims[k]
    OBVIOUS
  <1>2. /\ left \in Seq(S) /\ Len(left) = n + 1
        /\ \A k \in 1..(n + 1) : left[k] = VerifyClaim(longer[k])
    BY <1>1, ClaimDigestsType
  <1>3. /\ short \in Seq(S) /\ Len(short) = n
        /\ \A k \in 1..n : short[k] = VerifyClaim(claims[k])
    BY ClaimDigestsType
  <1>4. last \in S
    OBVIOUS
  <1> HIDE DEF S, longer, left, short, last, n
  <1>5. /\ right \in Seq(S) /\ Len(right) = n + 1 /\ right[n + 1] = last
        /\ \A k \in 1..n : right[k] = short[k]
    BY <1>1, <1>3, <1>4
  <1> HIDE DEF right
  <1>6. ASSUME NEW k \in 1..(n + 1)
        PROVE  left[k] = right[k]
    <2>1. CASE k \in 1..n
      BY <1>1, <1>2, <1>3, <1>5, <2>1
    <2>2. CASE k = n + 1
      BY <1>1, <1>2, <1>5, <2>2 DEF last
    <2>3. QED
      BY <1>1, <2>1, <2>2
  <1>7. left = right
    BY <1>2, <1>5, <1>6, SeqEqual
  <1>8. QED
    BY <1>7 DEF left, right, longer, short, last

-----------------------------------------------------------------------------
(* The composed machine.                                                   *)

\* Below the limit of sha256_proper.go's 32-bit count: the guest's own
\* message; and with it every journal it may assert.
MessageBelowLimit == Len(Message) * 8 < WordMod

BelowLimit ==
    /\ MessageBelowLimit
    /\ \A claim \in Claims : Len(claim.journal) * 8 < WordMod
    /\ ExitCodes \subseteq Nat

\* The running digest is the empty list's just as long as nothing was
\* asserted, and is not lost by the lazy initialization.
ListInv ==
    /\ IsDigest(assumptionsDigestWords)
    /\ assumptionsDigestWords = zeroDigest <=> registered = << >>
    /\ ~initialized => assumptionsDigestWords = zeroDigest

\* What a halted guest handed out.
HandedOut(exitCode) ==
    /\ halts = << Output(exitCode, FipsSha256(fd3), assumptions) >>
    /\ outputDigest =
           << OutputDigest(FipsSha256(fd3), assumptionsDigestWords) >>

OutcomeInv ==
    \/ halts = << >> /\ outputDigest = << >>
    \/ \E exitCode \in ExitCodes : HandedOut(exitCode)

ComposedInv == OutputInv /\ ListInv /\ OutcomeInv

\* The digests are laid over steps of the guest's.
LEMMA ComposedStep == [ComposedNext]_composedVars => [Next]_vars
  BY DEF ComposedNext, CommitComposed, VerifyComposed, HaltComposed,
         UpdateComposed, HaltedComposed, Next, composedVars

LEMMA ComposedInitInv == ComposedInit => ComposedInv
  <1> SUFFICES ASSUME ComposedInit PROVE ComposedInv
    OBVIOUS
  <1>1. OutputInv
    BY InitOutputInv DEF ComposedInit
  <1>2. ListInv
    BY ZeroDigest DEF ComposedInit, Init, ListInv
  <1>3. OutcomeInv
    BY DEF ComposedInit, Init, OutcomeInv
  <1>4. QED
    BY <1>1, <1>2, <1>3 DEF ComposedInv

\* The lazy initialization keeps the running digest.
LEMMA DigestKept ==
  ASSUME ListInv
  PROVE  InitProperHasher(zeroDigest, assumptionsDigestWords)
             = assumptionsDigestWords
  BY DEF ListInv, InitProperHasher

\* A guest that still runs has handed out nothing.
LEMMA NothingYet ==
  ASSUME ComposedInv, pc = "guest"
  PROVE  halts = << >> /\ outputDigest = << >>
  <1>1. halts = << >>
    BY DEF ComposedInv, OutputInv, IInv, HaltInv
  <1>2. \A x : << x >> # << >>
    OBVIOUS
  <1>3. QED
    BY <1>1, <1>2, Zenon DEF ComposedInv, OutcomeInv, HandedOut

LEMMA CommitComposedInv ==
  ASSUME ComposedInv, CommitComposed
  PROVE  ListInv' /\ OutcomeInv'
  <1>1. PICK n \in CommitLens : WriteJournal(n)
    BY DEF CommitComposed, Commit, CommitValue
  <1>2. /\ pc = "guest" /\ initialized' = TRUE
        /\ UNCHANGED << registered, halts >>
    BY <1>1 DEF WriteJournal
  <1>3. assumptionsDigestWords' = assumptionsDigestWords
        /\ outputDigest' = outputDigest
    BY DigestKept DEF ComposedInv, CommitComposed
  <1>4. ListInv'
    BY <1>2, <1>3 DEF ComposedInv, ListInv, IsDigest, zeroDigest
  <1>5. OutcomeInv'
    BY <1>2, <1>3, NothingYet DEF OutcomeInv
  <1>6. QED
    BY <1>4, <1>5

\* An assertion leaves a list that is not the empty one.
LEMMA VerifyComposedInv ==
  ASSUME ComposedInv, VerifyComposed
  PROVE  ListInv' /\ OutcomeInv'
  <1>1. /\ pc = "guest" /\ initialized' = TRUE /\ UNCHANGED halts
        /\ \E claim \in Claims : registered' = Append(registered, claim)
    BY DEF VerifyComposed, Verify
  <1>2. registered' # << >>
    <2>1. registered \in Seq(Claims)
      BY DEF ComposedInv, OutputInv, IInv, TypeOK
    <2>2. PICK claim \in Claims : registered' = Append(registered, claim)
      BY <1>1
    <2>3. QED
      BY <2>1, <2>2
  <1>3. outputDigest' = outputDigest
    BY DEF VerifyComposed
  <1>4. \E h : assumptionsDigestWords' = Sha(h)
    BY DEF VerifyComposed, WithAssumption, taggedListCons, taggedStruct,
           taggedStructWithData
  <1>5. IsDigest(assumptionsDigestWords')
        /\ assumptionsDigestWords' # zeroDigest
    BY <1>4, ShaBinds, ZeroDigest, Zenon
  <1>6. ListInv'
    <2>1. zeroDigest' = zeroDigest
      BY DEF zeroDigest, DataWord
    <2>2. IsDigest(assumptionsDigestWords)'
      BY <1>5 DEF IsDigest
    <2>3. QED
      BY <1>1, <1>2, <1>5, <2>1, <2>2 DEF ListInv
  <1>7. OutcomeInv'
    BY <1>1, <1>3, NothingYet DEF OutcomeInv
  <1>8. QED
    BY <1>6, <1>7

LEMMA HaltComposedInv ==
  ASSUME MessageBelowLimit, ComposedInv, HaltComposed
  PROVE  ListInv' /\ OutcomeInv'
  <1>1. /\ initialized' = TRUE /\ UNCHANGED << fd3, registered >>
        /\ assumptions' = assumptions
    BY HaltOutput DEF ComposedInv, OutputInv, HaltComposed
  <1>2. PICK exitCode \in ExitCodes :
            halts' = << Output(exitCode, FipsSha256(fd3), assumptions) >>
    BY HaltDigest DEF MessageBelowLimit, ComposedInv, OutputInv,
                          HaltComposed
  <1>3. assumptionsDigestWords' = assumptionsDigestWords
    BY DigestKept DEF ComposedInv, HaltComposed
  <1>4. halts'[1].journal = FipsSha256(fd3)
    BY <1>2 DEF Output
  <1>5. outputDigest'
            = << OutputDigest(FipsSha256(fd3), assumptionsDigestWords) >>
    BY <1>3, <1>4 DEF HaltComposed
  <1>6. ListInv'
    BY <1>1, <1>3 DEF ComposedInv, ListInv, IsDigest, zeroDigest
  <1>7. HandedOut(exitCode)'
    BY <1>1, <1>2, <1>3, <1>5 DEF HandedOut
  <1>8. OutcomeInv'
    BY <1>7 DEF OutcomeInv
  <1>9. QED
    BY <1>6, <1>8

LEMMA OtherComposedInv ==
  ASSUME ComposedInv,
         UpdateComposed \/ HaltedComposed \/ UNCHANGED composedVars
  PROVE  ListInv' /\ OutcomeInv'
  <1>1. UNCHANGED << fd3, registered, halts, initialized, assumptions,
                     assumptionsDigestWords, outputDigest >>
    BY DEF UpdateComposed, HaltedComposed, Halted, Update, SkipTopUp, TopUp,
           ProcessBlock, BlocksDone, BufferTail, composedVars, digestVars,
           vars, hostVars, hasherVars
  <1>2. ListInv'
    BY <1>1 DEF ComposedInv, ListInv, IsDigest, zeroDigest
  <1>3. OutcomeInv'
    BY <1>1 DEF ComposedInv, OutcomeInv, HandedOut
  <1>4. QED
    BY <1>2, <1>3

LEMMA ComposedNextInv ==
  ASSUME MessageBelowLimit, ComposedInv, [ComposedNext]_composedVars
  PROVE  ComposedInv'
  <1>1. OutputInv'
    BY OutputStep, ComposedStep DEF ComposedInv, MessageBelowLimit
  <1>2. ListInv' /\ OutcomeInv'
    BY CommitComposedInv, VerifyComposedInv, HaltComposedInv,
       OtherComposedInv DEF ComposedNext
  <1>3. QED
    BY <1>1, <1>2 DEF ComposedInv

\* (one atom, for the provers to instantiate)
SameClaim(i1, e1, o1, i2, e2, o2) == RunClaim(i1, e1, o1) = RunClaim(i2, e2, o2)

LEMMA SameClaimBinds ==
  ASSUME NEW i1, NEW e1 \in Nat, NEW o1, NEW i2, NEW e2 \in Nat, NEW o2,
         IsDigest(o1), IsDigest(o2), SameClaim(i1, e1, o1, i2, e2, o2)
  PROVE  /\ digestBytesToWords(i1) = digestBytesToWords(i2)
         /\ e1 = e2 /\ o1 = o2
  <1>1. RunClaim(i1, e1, o1) = RunClaim(i2, e2, o2)
    BY DEF SameClaim
  <1>2. QED
    BY <1>1, ClaimBinds

\* A claim asserted is that of a run of the image which halted with 0.
LEMMA VerifyIsRunClaim ==
  ASSUME NEW claim, claim.journal \in Seq(Byte),
         Len(claim.journal) * 8 < WordMod
  PROVE  VerifyClaim(claim)
             = RunClaim(claim.image, 0,
                        OutputDigest(FipsSha256(claim.journal), zeroDigest))
  <1>1. shaBuffer(sha256InitStateBE, claim.journal)
            = FipsSha256(claim.journal)
    BY OneShot
  <1>2. QED
    BY <1>1 DEF VerifyClaim, RunClaim

\* A receipt and an assertion agree just if they are about the same run.
LEMMA ReceiptIsAssertion ==
  ASSUME NEW image \in Image, NEW other \in Image,
         NEW journal \in Seq(Byte), NEW bytes \in Seq(Byte),
         Len(journal) * 8 < WordMod, Len(bytes) * 8 < WordMod,
         NEW exitCode \in Nat, NEW list, IsDigest(list)
  PROVE  RunClaim(image, exitCode, OutputDigest(FipsSha256(journal), list))
             = RunClaim(other, 0, OutputDigest(FipsSha256(bytes), zeroDigest))
         <=> image = other /\ journal = bytes /\ exitCode = 0
                 /\ list = zeroDigest
  <1> DEFINE o1 == OutputDigest(FipsSha256(journal), list)
             o2 == OutputDigest(FipsSha256(bytes), zeroDigest)
  <1>1. IsDigest(o1) /\ IsDigest(o2) /\ IsDigest(zeroDigest)
    <2>1. \A g : IsDigest(Sha(g))
      BY ShaBinds, Zenon
    <2>2. (\E g : o1 = Sha(g)) /\ (\E g : o2 = Sha(g))
      BY DEF OutputDigest, taggedStruct, taggedStructWithData
    <2> HIDE DEF o1, o2
    <2>3. QED
      BY <2>1, <2>2, ZeroDigest, Zenon
  <1>2. ASSUME RunClaim(image, exitCode, o1) = RunClaim(other, 0, o2)
        PROVE  image = other /\ journal = bytes /\ exitCode = 0
                   /\ list = zeroDigest
    <2> DEFINE succeeded == 0
    <2> HIDE DEF o1, o2
    <2>1. digestBytesToWords(image) = digestBytesToWords(other)
          /\ exitCode = 0 /\ o1 = o2
      <3>1. succeeded \in Nat
        OBVIOUS
      <3>2. SameClaim(image, exitCode, o1, other, succeeded, o2)
        BY <1>2 DEF SameClaim
      <3> HIDE DEF succeeded
      <3>3. digestBytesToWords(image) = digestBytesToWords(other)
            /\ exitCode = succeeded /\ o1 = o2
        BY ONLY <1>1, <3>1, <3>2, exitCode \in Nat, SameClaimBinds
      <3>4. QED
        BY <3>3 DEF succeeded
    <2>2. image = other
      BY <2>1, ImageBinds
    <2>3. FipsSha256(journal) = FipsSha256(bytes) /\ list = zeroDigest
      BY <1>1, <2>1, OutputBinds DEF o1, o2
    <2>4. journal = bytes
      BY <2>3, BytesBind
    <2>5. QED
      BY <2>1, <2>2, <2>3, <2>4
  <1>3. QED
    BY <1>2

\* What the invariant says of a receipt handed out.
LEMMA ComposedReceipts ==
  ASSUME BelowLimit, ComposedInv
  PROVE  ReceiptSaysWhatRan
  <1> DEFINE ran == [image |-> ThisImage, journal |-> fd3]
  <1> SUFFICES ASSUME NEW k \in DOMAIN outputDigest,
                      NEW claim \in Claims \cup {ran}
               PROVE  RunClaim(ThisImage, halts[k].exit, outputDigest[k])
                              = VerifyClaim(claim)
                        <=> /\ claim = ran
                            /\ halts[k].exit = 0
                            /\ registered = << >>
    BY DEF ReceiptSaysWhatRan
  <1>1. PICK exitCode \in ExitCodes : HandedOut(exitCode)
    BY DEF ComposedInv, OutcomeInv
  <1>2. k = 1 /\ exitCode \in Nat
    BY <1>1 DEF HandedOut, BelowLimit
  <1>3. halts[k].exit = exitCode
    BY <1>1, <1>2 DEF HandedOut, Output
  <1>4. outputDigest[k]
            = OutputDigest(FipsSha256(fd3), assumptionsDigestWords)
    BY <1>1, <1>2 DEF HandedOut
  <1>5. fd3 \in Seq(Byte) /\ Len(fd3) * 8 < WordMod
    <2>1. fd3 \in Seq(Byte) /\ Len(fd3) <= Len(Message)
      BY DEF ComposedInv, OutputInv, IInv, TypeOK
    <2>2. Len(fd3) \in Nat /\ Len(Message) \in Nat /\ WordMod \in Nat
      BY <2>1, GuestAssumption, WordsAssumption, LenProperties
         DEF WordMod, WordsAssumption
    <2>3. Len(Message) * 8 < WordMod
      BY DEF BelowLimit, MessageBelowLimit
    <2>4. QED
      BY <2>1, <2>2, <2>3
  <1>6. /\ claim = [image |-> claim.image, journal |-> claim.journal]
        /\ claim.image \in Image /\ claim.journal \in Seq(Byte)
        /\ Len(claim.journal) * 8 < WordMod
    <2>1. CASE claim \in Claims
      BY <2>1, CompositionAssumption DEF BelowLimit
    <2>2. CASE claim = ran
      BY <1>5, <2>2, CompositionAssumption
    <2>3. QED
      BY <2>1, <2>2
  <1>7. claim = ran <=> claim.image = ThisImage /\ claim.journal = fd3
    BY <1>6
  <1>8. VerifyClaim(claim)
            = RunClaim(claim.image, 0,
                       OutputDigest(FipsSha256(claim.journal), zeroDigest))
    BY <1>6, VerifyIsRunClaim
  <1>9. RunClaim(ThisImage, exitCode, outputDigest[k]) = VerifyClaim(claim)
        <=> ThisImage = claim.image /\ fd3 = claim.journal /\ exitCode = 0
              /\ assumptionsDigestWords = zeroDigest
    <2>1. IsDigest(assumptionsDigestWords)
      BY DEF ComposedInv, ListInv
    <2>2. ThisImage \in Image
      BY CompositionAssumption
    <2>3. QED
      BY <1>2, <1>4, <1>5, <1>6, <1>8, <2>1, <2>2, ReceiptIsAssertion
  <1>10. assumptionsDigestWords = zeroDigest <=> registered = << >>
    BY DEF ComposedInv, ListInv
  <1>11. QED
    BY <1>3, <1>7, <1>9, <1>10

\* Whatever a guest commits, in whatever pieces, and asserts of whatever
\* children: its receipt is the one a parent's Verify asks for if it names
\* this image and exactly the journal on the descriptor, the run halted with
\* 0 and left nothing to resolve, and in no other case.
THEOREM ReceiptsSayWhatRan ==
  ASSUME BelowLimit
  PROVE  ComposedSpec => []ReceiptSaysWhatRan
  <1>1. ComposedInit => ComposedInv
    BY ComposedInitInv
  <1>2. ComposedInv /\ [ComposedNext]_composedVars => ComposedInv'
    BY ComposedNextInv DEF BelowLimit
  <1>3. ComposedInv => ReceiptSaysWhatRan
    BY ComposedReceipts
  <1>4. QED
    BY <1>1, <1>2, <1>3, PTL DEF ComposedSpec

\* The composed machine is the guest runtime with digests beside it: what
\* holds of every run of the guest's holds here.
THEOREM ComposedIsGuest ==
  ComposedSpec => Init /\ [][Next]_vars
  <1>1. ComposedInit => Init
    BY DEF ComposedInit
  <1>2. [ComposedNext]_composedVars => [Next]_vars
    BY ComposedStep
  <1>3. QED
    BY <1>1, <1>2, PTL DEF ComposedSpec

-----------------------------------------------------------------------------
(* The list of assertions of a run.                                        *)

\* What the running digest is the digest of.
AssertedInv ==
    /\ asserted = ClaimDigests(registered)
    /\ assumptionsDigestWords = ListDigest(Reverse(asserted))

\* Verify adds its claim to both.
LEMMA VerifyAsserts ==
  ASSUME ComposedInv, AssertedInv, VerifyComposed
  PROVE  AssertedInv'
  <1>1. registered \in Seq(Claims)
    BY DEF ComposedInv, OutputInv, IInv, TypeOK
  <1>2. PICK claim \in Claims : registered' = Append(registered, claim)
    BY DEF VerifyComposed, Verify
  <1> DEFINE digest == VerifyClaim(claim)
             S == { VerifyClaim(c) : c \in Claims }
  <1>3. Last(registered') = claim
    BY <1>1, <1>2 DEF Last
  <1>4. /\ asserted' = Append(asserted, digest)
        /\ assumptionsDigestWords' =
               WithAssumption(digest, zeroDigest, assumptionsDigestWords)
    BY <1>3, DigestKept DEF ComposedInv, VerifyComposed
  <1>5. asserted' = ClaimDigests(registered')
    BY <1>1, <1>2, <1>4, DigestsGrow DEF AssertedInv
  <1>6. asserted \in Seq(S) /\ digest \in S
    BY <1>1, ClaimDigestsType DEF AssertedInv
  <1> HIDE DEF digest, S
  <1>7. assumptionsDigestWords' = ListCons(digest, assumptionsDigestWords)
    BY <1>4 DEF WithAssumption, taggedListCons, ListCons
  <1>8. assumptionsDigestWords' = ListDigest(Reverse(asserted'))
    BY <1>4, <1>6, <1>7, ListDigestGrows DEF AssertedInv
  <1>9. QED
    BY <1>5, <1>8 DEF AssertedInv, ClaimDigests

\* The other steps assert nothing.
LEMMA OtherAsserts ==
  ASSUME ComposedInv, AssertedInv,
         CommitComposed \/ HaltComposed \/ UpdateComposed \/ HaltedComposed
             \/ UNCHANGED composedVars
  PROVE  AssertedInv'
  <1>1. UNCHANGED << registered, asserted, assumptionsDigestWords >>
    <2>1. ASSUME CommitComposed
          PROVE  UNCHANGED << registered, asserted, assumptionsDigestWords >>
      BY <2>1, DigestKept DEF CommitComposed, Commit, CommitValue,
                              WriteJournal, ComposedInv
    <2>2. ASSUME HaltComposed
          PROVE  UNCHANGED << registered, asserted, assumptionsDigestWords >>
      BY <2>2, DigestKept DEF HaltComposed, Halt, ComposedInv
    <2>3. ASSUME UpdateComposed \/ HaltedComposed \/ UNCHANGED composedVars
          PROVE  UNCHANGED << registered, asserted, assumptionsDigestWords >>
      BY <2>3 DEF UpdateComposed, HaltedComposed, Halted, Update, SkipTopUp,
                  TopUp, ProcessBlock, BlocksDone, BufferTail, composedVars,
                  digestVars, vars, hostVars
    <2>4. QED
      BY <2>1, <2>2, <2>3
  <1>2. asserted' = ClaimDigests(registered')
    BY <1>1 DEF AssertedInv
  <1>3. assumptionsDigestWords' = ListDigest(Reverse(asserted'))
    BY <1>1 DEF AssertedInv
  <1>4. QED
    BY <1>2, <1>3 DEF AssertedInv, ClaimDigests

LEMMA AssertedInit == ComposedInit => AssertedInv
  <1> SUFFICES ASSUME ComposedInit PROVE AssertedInv
    OBVIOUS
  <1>1. /\ registered = << >> /\ asserted = << >>
        /\ assumptionsDigestWords = zeroDigest
    BY DEF ComposedInit, Init
  <1>2. ClaimDigests(<< >>) = << >>
    BY DEF ClaimDigests
  <1>3. ListDigest(Reverse(<< >>)) = zeroDigest
    BY ListDigestGrows
  <1>4. QED
    BY <1>1, <1>2, <1>3 DEF AssertedInv

LEMMA AssertedNext ==
  ASSUME ComposedInv, AssertedInv, [ComposedNext]_composedVars
  PROVE  AssertedInv'
  BY VerifyAsserts, OtherAsserts DEF ComposedNext

LEMMA AssertedMatch ==
  ASSUME ComposedInv, AssertedInv
  PROVE  AssumptionsMatch
  <1>1. assumptionsDigestWords = ListDigest(Reverse(asserted))
    BY DEF AssertedInv
  <1>2. ASSUME NEW k \in DOMAIN outputDigest
        PROVE  outputDigest[k] =
                   OutputDigest(FipsSha256(fd3), assumptionsDigestWords)
    <2>1. CASE outputDigest = << >>
      BY <2>1
    <2>2. CASE \E exitCode \in ExitCodes : HandedOut(exitCode)
      BY <2>2 DEF HandedOut
    <2>3. QED
      BY <2>1, <2>2 DEF ComposedInv, OutcomeInv
  <1>3. QED
    BY <1>1, <1>2 DEF AssumptionsMatch

\* Whatever a guest commits and asserts in whatever order: the running
\* assumptions digest is at all times the one the host computes of the claims
\* that went through sys_verify_integrity, and Halt binds it together with
\* the SHA-256 of the journal.
THEOREM AssumptionsAgree ==
  ASSUME MessageBelowLimit
  PROVE  ComposedSpec => []AssumptionsMatch
  <1>1. ComposedInit => ComposedInv /\ AssertedInv
    BY ComposedInitInv, AssertedInit
  <1>2. ComposedInv /\ AssertedInv /\ [ComposedNext]_composedVars
            => ComposedInv' /\ AssertedInv'
    BY ComposedNextInv, AssertedNext
  <1>3. ComposedInv /\ AssertedInv => AssumptionsMatch
    BY AssertedMatch
  <1>4. QED
    BY <1>1, <1>2, <1>3, PTL DEF ComposedSpec

-----------------------------------------------------------------------------
(* What a receipt says of a run.                                           *)

\* The output digest of a run that committed the journal and asserted the
\* claims in that order, as the standard and the host have it.
RunOutput(journal, claims) ==
    OutputDigest(FipsSha256(journal),
                 ListDigest(Reverse(ClaimDigests(claims))))

\* What the host is handed is the output digest of the journal it has and
\* of the claims it was told of.
HandsOutTheRun ==
    \A k \in DOMAIN outputDigest :
        outputDigest[k] = RunOutput(fd3, registered)

\* Of every run, whatever the order of its commits and its assertions.
THEOREM OutputIsTheRun ==
  ASSUME MessageBelowLimit
  PROVE  ComposedSpec => []HandsOutTheRun
  <1>1. ComposedInit => ComposedInv /\ AssertedInv
    BY ComposedInitInv, AssertedInit
  <1>2. ComposedInv /\ AssertedInv /\ [ComposedNext]_composedVars
            => ComposedInv' /\ AssertedInv'
    BY ComposedNextInv, AssertedNext
  <1>3. ComposedInv /\ AssertedInv => HandsOutTheRun
    <2> SUFFICES ASSUME ComposedInv, AssertedInv
                 PROVE  HandsOutTheRun
      OBVIOUS
    <2>1. AssumptionsMatch /\ asserted = ClaimDigests(registered)
      BY AssertedMatch DEF AssertedInv
    <2>2. QED
      BY <2>1, Zenon DEF AssumptionsMatch, HandsOutTheRun, RunOutput
  <1>4. QED
    BY <1>1, <1>2, <1>3, PTL DEF ComposedSpec

\* A claim's digest binds its image and its journal.
LEMMA ClaimDigestBinds ==
  ASSUME BelowLimit, NEW c \in Claims, NEW d \in Claims,
         VerifyClaim(c) = VerifyClaim(d)
  PROVE  c = d
  <1>1. \A claim \in Claims :
            /\ claim = [image |-> claim.image, journal |-> claim.journal]
            /\ claim.image \in Image /\ claim.journal \in Seq(Byte)
            /\ Len(claim.journal) * 8 < WordMod
    BY CompositionAssumption DEF BelowLimit, CompositionAssumption
  <1> DEFINE image == c.image
             other == d.image
             journal == c.journal
             bytes == d.journal
  <1>2. /\ image \in Image /\ other \in Image
        /\ journal \in Seq(Byte) /\ bytes \in Seq(Byte)
        /\ Len(journal) * 8 < WordMod /\ Len(bytes) * 8 < WordMod
    BY <1>1
  <1>3. RunClaim(image, 0, OutputDigest(FipsSha256(journal), zeroDigest))
            = RunClaim(other, 0, OutputDigest(FipsSha256(bytes), zeroDigest))
    BY <1>2, VerifyIsRunClaim
  <1>4. IsDigest(zeroDigest)
    BY ZeroDigest
  <1> HIDE DEF image, other, journal, bytes
  <1>5. image = other /\ journal = bytes
    BY <1>2, <1>3, <1>4, ReceiptIsAssertion
  <1>6. QED
    BY <1>1, <1>5 DEF image, other, journal, bytes

\* Two runs with one output digest committed the same bytes and asserted the
\* same claims, as often and in the same order.
THEOREM OutputBindsTheRun ==
  ASSUME BelowLimit,
         NEW journal \in Seq(Byte), NEW bytes \in Seq(Byte),
         Len(journal) * 8 < WordMod, Len(bytes) * 8 < WordMod,
         NEW a \in Seq(Claims), NEW b \in Seq(Claims),
         RunOutput(journal, a) = RunOutput(bytes, b)
  PROVE  journal = bytes /\ a = b
  <1> DEFINE D == { VerifyClaim(c) : c \in Claims }
             p == ClaimDigests(a)
             q == ClaimDigests(b)
             l1 == ListDigest(Reverse(p))
             l2 == ListDigest(Reverse(q))
  <1>1. /\ p \in Seq(D) /\ Len(p) = Len(a)
        /\ \A k \in 1..Len(a) : p[k] = VerifyClaim(a[k])
    BY ClaimDigestsType
  <1>2. /\ q \in Seq(D) /\ Len(q) = Len(b)
        /\ \A k \in 1..Len(b) : q[k] = VerifyClaim(b[k])
    BY ClaimDigestsType
  <1>3. AllDigests(D)
    <2>1. \A h : IsDigest(Sha(h))
      BY ShaBinds, Zenon
    <2>2. \A c : \E h : VerifyClaim(c) = Sha(h)
      BY DEF VerifyClaim, taggedStructWithData
    <2>3. QED
      BY <2>1, <2>2 DEF AllDigests
  <1> HIDE DEF D, p, q
  <1>4. IsDigest(l1) /\ IsDigest(l2)
    BY <1>1, <1>2, ListIsDigest
  <1>5. OutputDigest(FipsSha256(journal), l1)
            = OutputDigest(FipsSha256(bytes), l2)
    BY Zenon DEF RunOutput, p, q
  <1>6. FipsSha256(journal) = FipsSha256(bytes) /\ l1 = l2
    <2> HIDE DEF l1, l2
    <2>1. QED
      BY <1>4, <1>5, OutputBinds
  <1>7. journal = bytes
    BY <1>6, BytesBind
  <1>8. p = q
    BY <1>1, <1>2, <1>3, <1>6, AssumptionsBind
  <1>9. Len(a) = Len(b)
    BY <1>1, <1>2, <1>8
  <1>10. ASSUME NEW k \in 1..Len(a)
         PROVE  a[k] = b[k]
    <2>1. a[k] \in Claims /\ b[k] \in Claims
      BY <1>9
    <2>2. VerifyClaim(a[k]) = VerifyClaim(b[k])
      BY <1>1, <1>2, <1>8, <1>9
    <2>3. QED
      BY <2>1, <2>2, ClaimDigestBinds
  <1>11. QED
    BY <1>7, <1>9, <1>10, SeqEqual

=============================================================================
