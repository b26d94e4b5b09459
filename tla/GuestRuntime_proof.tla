------------------------- MODULE GuestRuntime_proof -------------------------
(***************************************************************************)
(* Proofs about GuestRuntime, for every message, every way of cutting it   *)
(* into commits, every alignment and every order of commits and            *)
(* assertions.                                                             *)
(***************************************************************************)
EXTENDS GuestRuntime, Sha256_proof

-----------------------------------------------------------------------------
(* Sequences.                                                              *)

\* A slice of a sequence is a sequence, of the length its bounds say.
LEMMA Slice ==
  ASSUME NEW S, NEW s \in Seq(S), NEW m \in Nat \ {0}, NEW n \in Nat,
         n <= Len(s)
  PROVE  /\ SubSeq(s, m, n) \in Seq(S)
         /\ Len(SubSeq(s, m, n)) = IF m <= n THEN n - m + 1 ELSE 0
         /\ \A i \in 1..(n - m + 1) : SubSeq(s, m, n)[i] = s[m + i - 1]
  <1>1. \A i \in m..n : s[i] \in S
    BY ElementOfSeq
  <1>2. QED
    BY <1>1, SubSeqProperties

\* Cutting a sequence in two and joining the pieces gives it back.
LEMMA Cut ==
  ASSUME NEW S, NEW s \in Seq(S), NEW k \in 0..Len(s)
  PROVE  SubSeq(s, 1, k) \o SubSeq(s, k + 1, Len(s)) = s
  <1>1. Len(s) \in Nat
    BY LenProperties
  <1>a. 1 \in 1..(Len(s) + 1) /\ k \in (1 - 1)..Len(s)
        /\ Len(s) \in k..Len(s)
    BY <1>1
  <1>2. SubSeq(s, 1, k) \o SubSeq(s, k + 1, Len(s)) = SubSeq(s, 1, Len(s))
    BY <1>a, ConcatAdjacentSubSeq
  <1>3. QED
    BY <1>2, SubSeqFull

\* (one atom, for the provers to instantiate)
Associates(s, t, u) == s \o (t \o u) = (s \o t) \o u

LEMMA JoinAssociates ==
  ASSUME NEW S, NEW s \in Seq(S), NEW t \in Seq(S), NEW u \in Seq(S)
  PROVE  Associates(s, t, u)
  <1>1. (s \o t) \o u = s \o (t \o u)
    BY ConcatAssociative
  <1>2. QED
    BY <1>1 DEF Associates

\* Moving the border between two joined sequences.
LEMMA Regroup ==
  ASSUME NEW S, NEW a \in Seq(S), NEW b \in Seq(S), NEW c \in Seq(S),
         NEW d \in Seq(S)
  PROVE  (a \o b) \o (c \o d) = (a \o (b \o c)) \o d
  <1>1. a \o b \in Seq(S)
    BY ConcatProperties
  <1>2. Associates(a \o b, c, d) /\ Associates(a, b, c)
    BY <1>1, JoinAssociates
  <1>3. QED
    BY <1>2 DEF Associates

\* One block more is still a whole number of blocks.
LEMMA WholeBlocks ==
  ASSUME NEW l \in Nat, l % SHA256_BLOCK_SIZE = 0
  PROVE  (l + SHA256_BLOCK_SIZE) % SHA256_BLOCK_SIZE = 0
  <1>1. CASE SHA256_BLOCK_SIZE = 16
    BY <1>1
  <1>2. CASE SHA256_BLOCK_SIZE = 64
    BY <1>2
  <1>3. QED
    BY <1>1, <1>2, Sizes

\* A new oldest-first entry is the new head of the newest-first list.
LEMMA ReverseAppend ==
  ASSUME NEW S, NEW s \in Seq(S), NEW x \in S
  PROVE  /\ Reverse(s) \in Seq(S)
         /\ Reverse(Append(s, x)) = << x >> \o Reverse(s)
         /\ << x >> \o Reverse(s) \in Seq(S)
  <1> DEFINE t == Append(s, x)
             new == Reverse(t)
             old == Reverse(s)
  <1>1. Len(s) \in Nat /\ \A i \in 1..Len(s) : s[i] \in S
    BY ElementOfSeq, LenProperties
  <1>2. t \in Seq(S) /\ Len(t) = Len(s) + 1 /\ t[Len(s) + 1] = x
        /\ \A i \in 1..Len(s) : t[i] = s[i]
    BY AppendProperties
  <1>3. \A i \in 1..Len(t) : t[i] \in S
    BY <1>2, ElementOfSeq
  <1> HIDE DEF t
  <1>4. old \in Seq(S) /\ Len(old) = Len(s)
        /\ \A i \in 1..Len(s) : old[i] = s[(Len(s) - i) + 1]
    BY <1>1 DEF Reverse
  <1>5. new \in Seq(S) /\ Len(new) = Len(s) + 1
        /\ \A i \in 1..(Len(s) + 1) : new[i] = t[(Len(s) + 1 - i) + 1]
    BY <1>1, <1>2, <1>3 DEF Reverse
  <1> HIDE DEF new, old
  <1>6. << x >> \in Seq(S) /\ Len(<< x >>) = 1 /\ << x >>[1] = x
    OBVIOUS
  <1>7. << x >> \o old \in Seq(S) /\ Len(<< x >> \o old) = Len(s) + 1
        /\ \A i \in 1..(Len(s) + 1) : (<< x >> \o old)[i]
                = IF i <= 1 THEN << x >>[i] ELSE old[i - 1]
    <2>1. << x >> \o old \in Seq(S)
          /\ Len(<< x >> \o old) = Len(<< x >>) + Len(old)
          /\ \A i \in 1..(Len(<< x >>) + Len(old)) : (<< x >> \o old)[i]
                = IF i <= Len(<< x >>) THEN << x >>[i]
                  ELSE old[i - Len(<< x >>)]
      BY <1>4, <1>6, ConcatProperties
    <2>2. QED
      BY <1>1, <1>4, <1>6, <2>1
  <1>8. \A i \in 1..(Len(s) + 1) : new[i] = (<< x >> \o old)[i]
    <2>1. SUFFICES ASSUME NEW i \in 1..(Len(s) + 1)
                   PROVE  new[i] = (<< x >> \o old)[i]
      OBVIOUS
    <2>2. CASE i = 1
      BY <1>1, <1>2, <1>5, <1>6, <1>7, <2>2
    <2>3. CASE i # 1
      <3>1. i - 1 \in 1..Len(s) /\ (Len(s) - (i - 1)) + 1 \in 1..Len(s)
            /\ (Len(s) + 1 - i) + 1 = (Len(s) - (i - 1)) + 1
        BY <1>1, <2>3
      <3>2. new[i] = t[(Len(s) - (i - 1)) + 1]
        BY <1>5, <3>1
      <3>3. t[(Len(s) - (i - 1)) + 1] = s[(Len(s) - (i - 1)) + 1]
        BY <1>2, <3>1
      <3>4. old[i - 1] = s[(Len(s) - (i - 1)) + 1]
        BY <1>4, <3>1
      <3>5. (<< x >> \o old)[i] = old[i - 1]
        BY <1>7, <2>3
      <3>6. QED
        BY <3>2, <3>3, <3>4, <3>5
    <2>4. QED
      BY <2>2, <2>3
  <1>9. new = << x >> \o old
    BY <1>1, <1>5, <1>7, <1>8, SeqEqual
  <1>10. QED
    BY <1>4, <1>7, <1>9 DEF new, old, t

\* copy() into the buffer leaves a buffer, and right behind the bytes it had
\* the bytes copied: what bufferData holds further on plays no part.
LEMMA CopyIntoBuffer ==
  ASSUME bufferData \in [1..SHA256_BLOCK_SIZE -> Byte],
         NEW at \in Nat, NEW bytes \in Seq(Byte),
         at + Len(bytes) <= SHA256_BLOCK_SIZE
  PROVE  /\ CopyInto(at, bytes) \in [1..SHA256_BLOCK_SIZE -> Byte]
         /\ SubSeq(CopyInto(at, bytes), 1, at + Len(bytes))
              = SubSeq(bufferData, 1, at) \o bytes
  <1> DEFINE new == CopyInto(at, bytes)
             len == at + Len(bytes)
             kept == SubSeq(bufferData, 1, at)
  <1>1. Len(bytes) \in Nat /\ SHA256_BLOCK_SIZE \in Nat /\ len \in Nat
    BY LenProperties, Sizes
  <1>2. new \in [1..SHA256_BLOCK_SIZE -> Byte]
    BY <1>1, ElementOfSeq DEF CopyInto
  <1>3. kept \in Seq(Byte) /\ Len(kept) = at
        /\ \A i \in 1..at : kept[i] = bufferData[i]
    <2>1. \A i \in 1..at : bufferData[i] \in Byte
      BY <1>1
    <2>2. QED
      BY <2>1, SubSeqProperties
  <1>4. SubSeq(new, 1, len) \in Seq(Byte) /\ Len(SubSeq(new, 1, len)) = len
        /\ \A i \in 1..len : SubSeq(new, 1, len)[i] = new[i]
    <2>1. \A i \in 1..len : new[i] \in Byte
      BY <1>1, <1>2
    <2>2. QED
      BY <1>1, <2>1, SubSeqProperties
  <1>5. kept \o bytes \in Seq(Byte) /\ Len(kept \o bytes) = len
        /\ \A i \in 1..len : (kept \o bytes)[i]
                = IF i <= at THEN kept[i] ELSE bytes[i - at]
    <2> HIDE DEF kept
    <2>1. QED
      BY <1>3, ConcatProperties
  <1>6. \A i \in 1..len : new[i] = IF i <= at THEN kept[i] ELSE bytes[i - at]
    BY <1>1, <1>3 DEF CopyInto
  <1>7. SubSeq(new, 1, len) = kept \o bytes
    BY <1>4, <1>5, <1>6, SeqEqual
  <1>8. QED
    BY <1>2, <1>7

-----------------------------------------------------------------------------
(* What the invariant says of the hasher, in the form the steps use.       *)

\* The buffered bytes and the compressed bytes are sequences of bytes.
LEMMA HasherSeqs ==
  ASSUME TypeOK
  PROVE  /\ Buffered \in Seq(Byte) /\ Len(Buffered) = bufferLen
         /\ state.data \in Seq(Byte) /\ Len(state.data) \in Nat
         /\ data \in Seq(Byte) /\ Len(data) \in Nat
         /\ fd3 \in Seq(Byte) /\ Len(fd3) \in Nat
         /\ bufferLen \in Nat /\ bufferLen < SHA256_BLOCK_SIZE
  <1>1. bufferLen \in Nat /\ bufferLen < SHA256_BLOCK_SIZE
    <2>1. SHA256_BLOCK_SIZE \in Nat
      BY Sizes
    <2>2. QED
      BY <2>1 DEF TypeOK
  <1>2. \A i \in 1..bufferLen : bufferData[i] \in Byte
    <2>1. SHA256_BLOCK_SIZE \in Nat
      BY Sizes
    <2>2. QED
      BY <1>1, <2>1 DEF TypeOK
  <1>3. Buffered \in Seq(Byte) /\ Len(Buffered) = bufferLen
    BY <1>1, <1>2, SubSeqProperties DEF Buffered
  <1>4. state.data \in Seq(Byte)
    BY DEF TypeOK, HashState
  <1>5. data \in Seq(Byte) /\ fd3 \in Seq(Byte)
    BY DEF TypeOK
  <1>6. QED
    BY <1>1, <1>3, <1>4, <1>5, LenProperties

\* Nothing is buffered in an empty buffer.
LEMMA EmptyBuffer == SubSeq(bufferData, 1, 0) = << >>
  BY SubSeqEmpty

\* The invariant at the start: nothing committed, nothing asserted.
LEMMA InitInv == Init => IInv
  <1> SUFFICES ASSUME Init PROVE IInv
    OBVIOUS
  <1> USE DEF Init
  <1>1. Zeros(SHA256_BLOCK_SIZE) \in [1..SHA256_BLOCK_SIZE -> Byte]
    BY Sizes DEF Zeros
  <1>2. zeroState \in HashState /\ zeroState.data = << >>
    BY EmptySeq DEF zeroState, HashState
  <1>3. TypeOK
    <2>1. \A S : << >> \in Seq(S)
      BY EmptySeq
    <2>2. 0 \in 0..(SHA256_BLOCK_SIZE - 1) /\ 0 \in 0..(WORD_SIZE - 1)
      BY Sizes
    <2>3. QED
      BY <1>1, <1>2, <2>1, <2>2 DEF TypeOK
  <1>4. BlockInv /\ Untouched /\ HaltInv
    BY <1>2, Sizes, EmptySeq DEF BlockInv, Untouched, HaltInv
  <1>5. StreamInv
    <2>1. Buffered = << >>
      BY EmptyBuffer DEF Buffered
    <2>2. QED
      BY <1>2, <2>1, EmptySeq, ConcatEmptySeq DEF StreamInv
  <1>6. AssumptionsMirror
    BY EmptySeq DEF AssumptionsMirror, Reverse
  <1>7. QED
    BY <1>3, <1>4, <1>5, <1>6 DEF IInv

-----------------------------------------------------------------------------
(* One lemma per operation: it preserves the invariant.                    *)

\* The lazy initialization finds an untouched hasher or leaves it alone:
\* after it the hasher has the SHA-256 start value and lost nothing.
LEMMA InitLosesNothing ==
  ASSUME IInv
  PROVE  /\ InitProperHasher(sha256InitStateBE, state) \in HashState
         /\ InitProperHasher(sha256InitStateBE, state).iv
                = "sha256InitStateBE"
         /\ InitProperHasher(sha256InitStateBE, state).data = state.data
         /\ InitProperHasher(0, bufferLen) = bufferLen
         /\ InitProperHasher(0, totalLen) = totalLen
         /\ InitProperHasher(<< >>, assumptions) = assumptions
  <1>1. sha256InitStateBE \in HashState
        /\ sha256InitStateBE.data = << >>
        /\ sha256InitStateBE.iv = "sha256InitStateBE"
        /\ zeroState.data = << >>
    BY EmptySeq DEF HashState, sha256InitStateBE, zeroState
  <1>2. initialized \in BOOLEAN /\ state \in HashState
    BY DEF IInv, TypeOK
  <1>3. CASE initialized
    BY <1>2, <1>3 DEF InitProperHasher, IInv, BlockInv
  <1>4. CASE ~initialized
    BY <1>1, <1>4 DEF InitProperHasher, IInv, Untouched
  <1>5. QED
    BY <1>2, <1>3, <1>4

\* Commit and CommitValue write to the journal what they hand the hasher.
LEMMA WriteJournalInv ==
  ASSUME IInv, NEW n \in CommitLens, WriteJournal(n)
  PROVE  IInv'
  <1> DEFINE chunk == NextBytes(fd3, n)
  <1> USE DEF WriteJournal
  <1>1. n \in Nat /\ Message \in Seq(Byte) /\ Len(Message) \in Nat
    BY GuestAssumption, LenProperties
  <1>2. TypeOK /\ BlockInv /\ StreamInv /\ AssumptionsMirror /\ HaltInv
    BY DEF IInv
  <1>3. chunk \in Seq(Byte) /\ Len(chunk) = n
    BY <1>1, <1>2, HasherSeqs, Slice DEF NextBytes, CanCommit
  <1> HIDE DEF chunk
  <1>4. /\ state' \in HashState /\ state'.iv = "sha256InitStateBE"
        /\ state'.data = state.data /\ bufferLen' = bufferLen
        /\ totalLen' = totalLen + n /\ assumptions' = assumptions
    BY InitLosesNothing
  <1>5. fd3' = fd3 \o chunk /\ data' = chunk
    BY DEF chunk
  <1>6. fd3' \in Seq(Byte) /\ Len(fd3') = Len(fd3) + n
    <2>1. fd3 \in Seq(Byte)
      BY <1>2, HasherSeqs
    <2>2. QED
      BY <1>3, <1>5, <2>1, ConcatProperties
  <1>7. TypeOK'
    <2>1. /\ addr' \in 0..(WORD_SIZE - 1) /\ pc' = "topup"
          /\ initialized' = TRUE
          /\ UNCHANGED << registered, halts, bufferData >>
      OBVIOUS
    <2>2. totalLen' \in Nat
      BY <1>1, <1>2, <1>4 DEF TypeOK
    <2>3. QED
      BY <1>2, <1>3, <1>4, <1>5, <1>6, <2>1, <2>2 DEF TypeOK
  <1>8. BlockInv' /\ Untouched' /\ HaltInv'
    BY <1>2, <1>4 DEF BlockInv, Untouched, HaltInv
  <1>9. StreamInv'
    <2>1. Buffered' = Buffered
      BY <1>4 DEF Buffered
    <2>2. fd3 = state.data \o Buffered
      <3>1. data = << >>
        BY <1>2 DEF BlockInv
      <3>2. state.data \o Buffered \in Seq(Byte)
        BY <1>2, HasherSeqs, ConcatProperties
      <3>3. QED
        BY <1>2, <3>1, <3>2, ConcatEmptySeq DEF StreamInv
    <2>3. totalLen' = Len(fd3')
      BY <1>2, <1>4, <1>6 DEF StreamInv
    <2>4. QED
      BY <1>4, <1>5, <2>1, <2>2, <2>3 DEF StreamInv
  <1>10. AssumptionsMirror'
    BY <1>2, <1>4 DEF AssumptionsMirror
  <1>11. QED
    BY <1>7, <1>8, <1>9, <1>10 DEF IInv

\* 1) Topping up moves bytes from the slice to the buffer; a full buffer is
\* compressed as one block, and a partial one leaves the slice empty.
LEMMA TopUpInv ==
  ASSUME IInv, TopUp
  PROVE  IInv'
  <1> DEFINE room == SHA256_BLOCK_SIZE - bufferLen
             need == IF room > Len(data) THEN Len(data) ELSE room
             taken == SubSeq(data, 1, need)
             rest == SubSeq(data, need + 1, Len(data))
             topped == CopyInto(bufferLen, taken)
             len == bufferLen + need
  <1>1. TypeOK /\ BlockInv /\ Untouched /\ StreamInv /\ AssumptionsMirror
        /\ HaltInv
    BY DEF IInv
  <1>2. /\ Buffered \in Seq(Byte) /\ Len(Buffered) = bufferLen
        /\ state.data \in Seq(Byte) /\ Len(state.data) \in Nat
        /\ data \in Seq(Byte) /\ Len(data) \in Nat
        /\ bufferLen \in Nat /\ bufferLen < SHA256_BLOCK_SIZE
    BY <1>1, HasherSeqs
  <1>3. need \in 0..Len(data) /\ len \in 0..SHA256_BLOCK_SIZE
        /\ (len # SHA256_BLOCK_SIZE => need = Len(data))
    BY <1>2, Sizes
  <1>4. /\ pc = "topup" /\ pc' = "blocks" /\ bufferLen > 0
        /\ bufferData' = topped /\ data' = rest
        /\ bufferLen' = IF len = SHA256_BLOCK_SIZE THEN 0 ELSE len
        /\ state' = IF len = SHA256_BLOCK_SIZE
                    THEN Compress(state, topped) ELSE state
        /\ addr' = (addr + need) % WORD_SIZE
        /\ UNCHANGED << hostVars, initialized, totalLen, assumptions >>
    BY DEF TopUp, AfterTopUp, IsFull
  <1> HIDE DEF need
  <1>5. /\ taken \in Seq(Byte) /\ Len(taken) = need
        /\ rest \in Seq(Byte) /\ Len(rest) = Len(data) - need
        /\ taken \o rest = data
    <2>1. need \in Nat /\ need <= Len(data)
      BY <1>2, <1>3
    <2>2. taken \in Seq(Byte) /\ Len(taken) = need
      BY <1>2, <2>1, Slice
    <2>3. rest \in Seq(Byte) /\ Len(rest) = Len(data) - need
      BY <1>2, <2>1, Slice
    <2>4. taken \o rest = data
      BY <1>2, <1>3, Cut
    <2>5. QED
      BY <2>2, <2>3, <2>4
  <1> HIDE DEF taken, rest
  <1>6. /\ topped \in [1..SHA256_BLOCK_SIZE -> Byte]
        /\ SubSeq(topped, 1, len) = Buffered \o taken
    <2>1. bufferData \in [1..SHA256_BLOCK_SIZE -> Byte]
      BY <1>1 DEF TypeOK
    <2>2. bufferLen + Len(taken) <= SHA256_BLOCK_SIZE
      BY <1>3, <1>5
    <2>3. QED
      BY <1>2, <1>5, <2>1, <2>2, CopyIntoBuffer DEF Buffered
  <1> HIDE DEF topped
  <1>7. topped \in Seq(Byte) /\ Len(topped) = SHA256_BLOCK_SIZE
    BY <1>6, Sizes
  <1>8. Compress(state, topped) \in HashState
        /\ Compress(state, topped).iv = state.iv
        /\ Compress(state, topped).data = state.data \o topped
        /\ Len(state.data \o topped) = Len(state.data) + SHA256_BLOCK_SIZE
        /\ state.data \o topped \in Seq(Byte)
    <2>1. state.data \o topped \in Seq(Byte)
          /\ Len(state.data \o topped) = Len(state.data) + SHA256_BLOCK_SIZE
      BY <1>2, <1>7, ConcatProperties
    <2>2. QED
      BY <1>1, <2>1 DEF TypeOK, HashState, Compress
  <1>9. TypeOK'
    <2>1. (addr + need) % WORD_SIZE \in 0..(WORD_SIZE - 1)
      BY <1>1, <1>2, <1>3, Sizes DEF TypeOK
    <2>2. bufferLen' \in 0..(SHA256_BLOCK_SIZE - 1)
      BY <1>3, <1>4, Sizes
    <2>3. QED
      BY <1>1, <1>4, <1>5, <1>6, <1>8, <2>1, <2>2 DEF TypeOK, hostVars
  <1>10. BlockInv'
    <2>1. Len(state'.data) % SHA256_BLOCK_SIZE = 0
      <3>1. Len(state.data) % SHA256_BLOCK_SIZE = 0
        BY <1>1 DEF BlockInv
      <3>2. Len(state.data \o topped) % SHA256_BLOCK_SIZE = 0
        BY <1>2, <1>8, <3>1, WholeBlocks
      <3>3. QED
        BY <1>4, <1>8, <3>1, <3>2
    <2>2. data' # << >> => bufferLen' = 0
      <3>1. len # SHA256_BLOCK_SIZE => data' = << >>
        BY <1>2, <1>3, <1>4, <1>5, EmptySeq
      <3>2. QED
        BY <1>4, <3>1
    <2>3. initialized' => state'.iv = "sha256InitStateBE"
      BY <1>1, <1>4, <1>8 DEF BlockInv
    <2>4. QED
      BY <1>4, <2>1, <2>2, <2>3 DEF BlockInv
  <1>11. StreamInv'
    <2>1. fd3' = (state.data \o Buffered) \o (taken \o rest)
      BY <1>1, <1>4, <1>5 DEF StreamInv, hostVars
    <2>2. fd3' = (state.data \o (Buffered \o taken)) \o rest
      <3>1. (state.data \o Buffered) \o (taken \o rest)
              = (state.data \o (Buffered \o taken)) \o rest
        <4> DEFINE compressed == state.data
                   buffered == Buffered
        <4>1. compressed \in Seq(Byte) /\ buffered \in Seq(Byte)
              /\ taken \in Seq(Byte) /\ rest \in Seq(Byte)
          BY <1>2, <1>5
        <4> HIDE DEF compressed, buffered
        <4>2. (compressed \o buffered) \o (taken \o rest)
                = (compressed \o (buffered \o taken)) \o rest
          BY <4>1, Regroup, SMTT(30)
        <4>3. QED
          BY <4>2 DEF compressed, buffered
      <3>2. QED
        BY <2>1, <3>1
    <2>3. CASE len = SHA256_BLOCK_SIZE
      <3>1. topped = Buffered \o taken
        BY <1>6, <1>7, <2>3, SubSeqFull
      <3>2. Buffered' = << >>
        <4>1. bufferLen' = 0
          BY <1>4, <2>3
        <4>2. QED
          BY <4>1, SubSeqEmpty DEF Buffered
      <3>3. state'.data = state.data \o topped
        BY <1>4, <1>8, <2>3
      <3>4. state'.data \o Buffered' = state'.data
        BY <1>8, <3>2, <3>3, ConcatEmptySeq
      <3>5. QED
        BY <1>1, <1>4, <2>2, <3>1, <3>3, <3>4 DEF StreamInv, hostVars
    <2>4. CASE len # SHA256_BLOCK_SIZE
      <3>1. Buffered' = Buffered \o taken
        BY <1>4, <1>6, <2>4 DEF Buffered
      <3>2. QED
        BY <1>1, <1>4, <2>2, <2>4, <3>1 DEF StreamInv, hostVars
    <2>5. QED
      BY <2>3, <2>4
  <1>12. Untouched' /\ HaltInv' /\ AssumptionsMirror'
    BY <1>1, <1>4 DEF Untouched, HaltInv, AssumptionsMirror, hostVars
  <1>13. QED
    BY <1>9, <1>10, <1>11, <1>12 DEF IInv

\* 2) A full block goes from the head of the slice into the state, whichever
\* way its alignment sends it; the buffer it may pass through is empty.
LEMMA ProcessBlockInv ==
  ASSUME IInv, ProcessBlock
  PROVE  IInv'
  <1> DEFINE block == SubSeq(data, 1, SHA256_BLOCK_SIZE)
             rest == SubSeq(data, SHA256_BLOCK_SIZE + 1, Len(data))
             copied == CopyInto(0, block)
  <1>1. TypeOK /\ BlockInv /\ Untouched /\ StreamInv /\ AssumptionsMirror
        /\ HaltInv
    BY DEF IInv
  <1>2. /\ state.data \in Seq(Byte) /\ Len(state.data) \in Nat
        /\ data \in Seq(Byte) /\ Len(data) \in Nat
        /\ SHA256_BLOCK_SIZE \in Nat /\ SHA256_BLOCK_SIZE > 0
    BY <1>1, HasherSeqs, Sizes
  <1>3. /\ pc = "blocks" /\ Len(data) >= SHA256_BLOCK_SIZE
        /\ bufferData' = IF addr # 0 THEN copied ELSE bufferData
        /\ state' = Compress(state, IF addr # 0 THEN bufferData' ELSE block)
        /\ data' = rest
        /\ UNCHANGED << hostVars, initialized, bufferLen, totalLen,
                        assumptions, pc, addr >>
    BY DEF ProcessBlock
  <1>4. /\ block \in Seq(Byte) /\ Len(block) = SHA256_BLOCK_SIZE
        /\ rest \in Seq(Byte) /\ Len(rest) = Len(data) - SHA256_BLOCK_SIZE
        /\ block \o rest = data
    <2>1. SHA256_BLOCK_SIZE <= Len(data) /\ Len(data) <= Len(data)
          /\ SHA256_BLOCK_SIZE \in 0..Len(data)
          /\ SHA256_BLOCK_SIZE + 1 \in Nat \ {0} /\ 1 \in Nat \ {0}
      BY <1>2, <1>3
    <2>2. block \in Seq(Byte) /\ Len(block) = SHA256_BLOCK_SIZE
      BY <1>2, <2>1, Slice
    <2>3. rest \in Seq(Byte) /\ Len(rest) = Len(data) - SHA256_BLOCK_SIZE
      BY <1>2, <2>1, Slice
    <2>4. block \o rest = data
      BY <1>2, <2>1, Cut
    <2>5. QED
      BY <2>2, <2>3, <2>4
  <1> HIDE DEF block, rest
  <1>5. copied \in [1..SHA256_BLOCK_SIZE -> Byte] /\ copied = block
    <2>1. /\ copied \in [1..SHA256_BLOCK_SIZE -> Byte]
          /\ SubSeq(copied, 1, 0 + Len(block))
                = SubSeq(bufferData, 1, 0) \o block
      <3>1. bufferData \in [1..SHA256_BLOCK_SIZE -> Byte]
        BY <1>1 DEF TypeOK
      <3>2. 0 \in Nat /\ 0 + Len(block) <= SHA256_BLOCK_SIZE
        BY <1>2, <1>4
      <3>3. QED
        BY <1>4, <3>1, <3>2, CopyIntoBuffer
    <2> HIDE DEF copied
    <2>2. copied \in Seq(Byte) /\ Len(copied) = SHA256_BLOCK_SIZE
      BY <2>1, <1>2
    <2>3. SubSeq(copied, 1, 0 + Len(block)) = copied
      BY <1>2, <1>4, <2>2, SubSeqFull
    <2>4. << >> \o block = block
      BY <1>4, ConcatEmptySeq
    <2>5. QED
      BY <2>1, <2>3, <2>4, EmptyBuffer
  <1> HIDE DEF copied
  <1>6. state' = Compress(state, block)
    BY <1>3, <1>5
  <1>7. bufferLen = 0 /\ Buffered = << >> /\ Buffered' = << >>
    <2>1. data # << >>
      BY <1>2, <1>3, EmptySeq
    <2>2. bufferLen = 0
      BY <1>1, <1>3, <2>1 DEF BlockInv
    <2>3. QED
      BY <1>3, <2>2, SubSeqEmpty DEF Buffered
  <1>8. state.data \o block \in Seq(Byte)
        /\ Len(state.data \o block) = Len(state.data) + SHA256_BLOCK_SIZE
    BY <1>2, <1>4, ConcatProperties
  <1>9. state' \in HashState /\ state'.iv = state.iv
        /\ state'.data = state.data \o block
    BY <1>1, <1>6, <1>8 DEF TypeOK, HashState, Compress
  <1>10. TypeOK'
    BY <1>1, <1>3, <1>4, <1>5, <1>9 DEF TypeOK, hostVars
  <1>11. BlockInv'
    <2>1. Len(state'.data) % SHA256_BLOCK_SIZE = 0
      <3>1. Len(state.data) % SHA256_BLOCK_SIZE = 0
        BY <1>1 DEF BlockInv
      <3>2. (Len(state.data) + SHA256_BLOCK_SIZE) % SHA256_BLOCK_SIZE = 0
        BY <1>2, <3>1, WholeBlocks
      <3>3. QED
        <4>1. Len(state'.data) = Len(state.data) + SHA256_BLOCK_SIZE
          BY <1>8, <1>9
        <4>2. QED
          BY <3>2, <4>1
    <2>2. QED
      BY <1>1, <1>3, <1>7, <1>9, <2>1 DEF BlockInv
  <1>12. StreamInv'
    <2>1. state.data \o Buffered = state.data
      BY <1>2, <1>7, ConcatEmptySeq
    <2>2. state'.data \o Buffered' = state'.data
      BY <1>7, <1>8, <1>9, ConcatEmptySeq
    <2>3. fd3' = state.data \o (block \o rest)
      BY <1>1, <1>3, <1>4, <2>1 DEF StreamInv, hostVars
    <2>4. state.data \o (block \o rest) = (state.data \o block) \o rest
      <3> DEFINE compressed == state.data
      <3>1. compressed \in Seq(Byte) /\ block \in Seq(Byte)
            /\ rest \in Seq(Byte)
        BY <1>2, <1>4
      <3> HIDE DEF compressed
      <3>2. Associates(compressed, block, rest)
        BY <3>1, JoinAssociates
      <3>3. QED
        BY <3>2 DEF Associates, compressed
    <2>5. QED
      BY <1>1, <1>3, <1>9, <2>2, <2>3, <2>4 DEF StreamInv, hostVars
  <1>13. Untouched' /\ HaltInv' /\ AssumptionsMirror'
    BY <1>1, <1>3 DEF Untouched, HaltInv, AssumptionsMirror, hostVars
  <1>14. QED
    BY <1>10, <1>11, <1>12, <1>13 DEF IInv

\* 3) The tail moves into an empty buffer, or there is none.
LEMMA BufferTailInv ==
  ASSUME IInv, BufferTail
  PROVE  IInv'
  <1> DEFINE copied == CopyInto(0, data)
  <1>1. TypeOK /\ BlockInv /\ Untouched /\ StreamInv /\ AssumptionsMirror
        /\ HaltInv
    BY DEF IInv
  <1>2. /\ Buffered \in Seq(Byte)
        /\ state.data \in Seq(Byte)
        /\ data \in Seq(Byte) /\ Len(data) \in Nat
        /\ bufferLen \in Nat /\ bufferLen < SHA256_BLOCK_SIZE
    BY <1>1, HasherSeqs
  <1>3. /\ pc = "tail" /\ pc' = "guest"
        /\ bufferData' = copied
        /\ bufferLen' = IF Len(data) > 0 THEN Len(data) ELSE bufferLen
        /\ data' = << >> /\ addr' = 0
        /\ UNCHANGED << hostVars, initialized, state, totalLen,
                        assumptions >>
    BY DEF BufferTail
  <1>4. Len(data) < SHA256_BLOCK_SIZE
    BY <1>1, <1>3 DEF BlockInv
  <1>5. bufferData \in [1..SHA256_BLOCK_SIZE -> Byte]
    BY <1>1 DEF TypeOK
  <1>6. /\ copied \in [1..SHA256_BLOCK_SIZE -> Byte]
        /\ SubSeq(copied, 1, Len(data)) = data
    <2>1. /\ copied \in [1..SHA256_BLOCK_SIZE -> Byte]
          /\ SubSeq(copied, 1, 0 + Len(data))
                = SubSeq(bufferData, 1, 0) \o data
      BY <1>2, <1>4, <1>5, Sizes, CopyIntoBuffer
    <2>2. QED
      BY <1>2, <2>1, EmptyBuffer, ConcatEmptySeq
  <1>7. Buffered' = IF Len(data) > 0 THEN data ELSE Buffered
    <2>1. CASE Len(data) > 0
      BY <1>3, <1>6, <2>1 DEF Buffered
    <2>2. CASE ~(Len(data) > 0)
      <3>1. copied = bufferData
        BY <1>2, <1>5, <2>2, Sizes DEF CopyInto
      <3>2. QED
        BY <1>3, <2>2, <3>1 DEF Buffered
    <2>3. QED
      BY <2>1, <2>2
  <1> HIDE DEF copied
  <1>8. TypeOK'
    <2>1. bufferLen' \in 0..(SHA256_BLOCK_SIZE - 1)
      BY <1>2, <1>3, <1>4, Sizes
    <2>2. << >> \in Seq(Byte) /\ 0 \in 0..(WORD_SIZE - 1)
      BY Sizes, EmptySeq
    <2>3. QED
      BY <1>1, <1>3, <1>6, <2>1, <2>2 DEF TypeOK, hostVars
  <1>9. BlockInv'
    BY <1>1, <1>3 DEF BlockInv
  <1>10. StreamInv'
    <2>1. fd3' = state'.data \o Buffered'
      <3>1. CASE Len(data) > 0
        <4>1. data # << >>
          BY <3>1, EmptySeq
        <4>2. Buffered = << >>
          BY <1>1, <1>3, <4>1, SubSeqEmpty DEF BlockInv, Buffered
        <4>3. QED
          BY <1>1, <1>2, <1>3, <1>7, <3>1, <4>2, ConcatEmptySeq
             DEF StreamInv, hostVars
      <3>2. CASE ~(Len(data) > 0)
        <4>1. data = << >>
          BY <1>2, <3>2, EmptySeq
        <4>2. state.data \o Buffered \in Seq(Byte)
          BY <1>2, ConcatProperties
        <4>3. QED
          BY <1>1, <1>3, <1>7, <3>2, <4>1, <4>2, ConcatEmptySeq
             DEF StreamInv, hostVars
      <3>3. QED
        BY <3>1, <3>2
    <2>2. fd3' \in Seq(Byte)
      BY <1>8 DEF TypeOK
    <2>3. (state'.data \o Buffered') \o << >> = state'.data \o Buffered'
      BY <2>1, <2>2, ConcatEmptySeq
    <2>4. QED
      BY <1>1, <1>3, <2>1, <2>3 DEF StreamInv, hostVars
  <1>11. Untouched' /\ HaltInv' /\ AssumptionsMirror'
    BY <1>1, <1>3 DEF Untouched, HaltInv, AssumptionsMirror, hostVars
  <1>12. QED
    BY <1>8, <1>9, <1>10, <1>11 DEF IInv

\* 1) with nothing buffered, and the end of 2): control moves on.
LEMMA ControlInv ==
  ASSUME IInv, SkipTopUp \/ BlocksDone
  PROVE  IInv'
  <1>1. TypeOK /\ BlockInv /\ Untouched /\ StreamInv /\ AssumptionsMirror
        /\ HaltInv
    BY DEF IInv
  <1>2. /\ UNCHANGED << fd3, registered, halts, initialized, state,
                        bufferData, bufferLen, totalLen, assumptions, data,
                        addr >>
        /\ \/ pc = "topup" /\ pc' = "blocks" /\ bufferLen = 0
           \/ /\ pc = "blocks" /\ pc' = "tail"
              /\ Len(data) < SHA256_BLOCK_SIZE
    BY DEF SkipTopUp, BlocksDone, hostVars, hasherVars
  <1>3. TypeOK'
    BY <1>1, <1>2 DEF TypeOK
  <1>4. BlockInv' /\ Untouched' /\ HaltInv'
    BY <1>1, <1>2 DEF BlockInv, Untouched, HaltInv
  <1>5. StreamInv' /\ AssumptionsMirror'
    BY <1>1, <1>2 DEF StreamInv, Buffered, AssumptionsMirror
  <1>6. QED
    BY <1>3, <1>4, <1>5 DEF IInv

\* Verify keeps the list and the host's registry in step.
LEMMA VerifyInv ==
  ASSUME IInv, Verify
  PROVE  IInv'
  <1>1. TypeOK /\ BlockInv /\ Untouched /\ StreamInv /\ AssumptionsMirror
        /\ HaltInv
    BY DEF IInv
  <1>2. /\ state' \in HashState /\ state'.iv = "sha256InitStateBE"
        /\ state'.data = state.data /\ bufferLen' = bufferLen
        /\ totalLen' = totalLen /\ initialized' = TRUE
        /\ UNCHANGED << fd3, halts, bufferData, pc, data, addr >>
        /\ pc = "guest"
    BY InitLosesNothing DEF Verify, callVars
  <1>3. PICK claim \in Claims :
            /\ registered' = Append(registered, claim)
            /\ assumptions' = << claim >> \o assumptions
    BY InitLosesNothing DEF Verify
  <1>4. registered' \in Seq(Claims) /\ assumptions' \in Seq(Claims)
        /\ AssumptionsMirror'
    <2>1. registered \in Seq(Claims) /\ assumptions = Reverse(registered)
      BY <1>1 DEF TypeOK, AssumptionsMirror
    <2>2. /\ Reverse(Append(registered, claim))
                = << claim >> \o Reverse(registered)
          /\ << claim >> \o Reverse(registered) \in Seq(Claims)
      BY <2>1, ReverseAppend
    <2>3. registered' \in Seq(Claims)
      BY <1>3, <2>1, AppendProperties
    <2>4. QED
      BY <1>3, <2>1, <2>2, <2>3 DEF AssumptionsMirror
  <1>5. TypeOK'
    BY <1>1, <1>2, <1>4 DEF TypeOK
  <1>6. BlockInv' /\ Untouched' /\ HaltInv'
    BY <1>1, <1>2 DEF BlockInv, Untouched, HaltInv
  <1>7. StreamInv'
    BY <1>1, <1>2 DEF StreamInv, Buffered
  <1>8. QED
    BY <1>4, <1>5, <1>6, <1>7 DEF IInv

\* What Halt finds and what it hands to sys_halt: the bytes compressed and
\* the bytes buffered are the journal, and the output is their digest with
\* the list of every claim.
LEMMA HaltOutput ==
  ASSUME IInv, Halt
  PROVE  LET padded == padBuf(Buffered, Len(state.data) + Len(Buffered))
         IN  /\ state' \in HashState /\ state'.iv = "sha256InitStateBE"
             /\ state'.data = state.data
             /\ initialized' = TRUE /\ bufferLen' = bufferLen
             /\ totalLen' = totalLen /\ assumptions' = assumptions
             /\ pc = "guest" /\ pc' = "halted"
             /\ UNCHANGED << fd3, registered, bufferData, data, addr >>
             /\ fd3 = state.data \o Buffered
             /\ Len(fd3) = Len(state.data) + Len(Buffered)
             /\ \E exitCode \in ExitCodes :
                    halts' = << Output(exitCode, Compress(state', padded),
                                       assumptions) >>
  <1>1. TypeOK /\ BlockInv /\ StreamInv
    BY DEF IInv
  <1>2. /\ state' = InitProperHasher(sha256InitStateBE, state)
        /\ state' \in HashState /\ state'.iv = "sha256InitStateBE"
        /\ state'.data = state.data /\ bufferLen' = bufferLen
        /\ totalLen' = totalLen /\ initialized' = TRUE
        /\ assumptions' = assumptions
        /\ pc = "guest" /\ pc' = "halted"
        /\ UNCHANGED << fd3, registered, bufferData, data, addr >>
    BY InitLosesNothing DEF Halt
  <1>3. data = << >>
    BY <1>1, <1>2 DEF BlockInv
  <1>4. /\ state.data \o Buffered \in Seq(Byte)
        /\ Len(state.data \o Buffered) = Len(state.data) + Len(Buffered)
    BY <1>1, HasherSeqs, ConcatProperties
  <1>5. fd3 = state.data \o Buffered
    BY <1>1, <1>3, <1>4, ConcatEmptySeq DEF StreamInv
  <1>6. InitProperHasher(0, bufferLen) = bufferLen
        /\ InitProperHasher(0, totalLen) = Len(state.data) + Len(Buffered)
    BY <1>1, <1>4, <1>5, InitLosesNothing DEF StreamInv
  <1>7. \E exitCode \in ExitCodes :
            halts' = << Output(exitCode,
                               Compress(state',
                                   padBuf(Buffered,
                                          Len(state.data) + Len(Buffered))),
                               assumptions) >>
    BY <1>2, <1>6 DEF Halt, Buffered
  <1>8. QED
    BY <1>2, <1>4, <1>5, <1>7

\* Halt leaves the hasher as it was and records one output.
LEMMA HaltStepInv ==
  ASSUME IInv, Halt
  PROVE  IInv'
  <1>1. TypeOK /\ BlockInv /\ Untouched /\ StreamInv /\ AssumptionsMirror
        /\ HaltInv
    BY DEF IInv
  <1> DEFINE padded == padBuf(Buffered, Len(state.data) + Len(Buffered))
             digest == Compress(state', padded)
  <1>2. /\ state' \in HashState /\ state'.iv = "sha256InitStateBE"
        /\ state'.data = state.data
        /\ initialized' = TRUE /\ bufferLen' = bufferLen
        /\ totalLen' = totalLen /\ assumptions' = assumptions
        /\ pc = "guest" /\ pc' = "halted"
        /\ UNCHANGED << fd3, registered, bufferData, data, addr >>
    BY HaltOutput
  <1>3. PICK exitCode \in ExitCodes :
            halts' = << Output(exitCode, digest, assumptions) >>
    BY HaltOutput
  <1>4. digest \in HashState
    <2>1. padded \in Seq(Byte)
      <3>1. Buffered \in Seq(Byte)
            /\ Len(state.data) + Len(Buffered) \in Nat
        BY <1>1, HasherSeqs
      <3>2. QED
        BY <3>1, PadBufBytes
    <2> HIDE DEF padded
    <2>2. state.data \in Seq(Byte) /\ state'.data \o padded \in Seq(Byte)
      BY <1>1, <1>2, <2>1, HasherSeqs, ConcatProperties
    <2>3. QED
      BY <1>2, <2>2 DEF Compress, HashState
  <1> HIDE DEF digest
  <1>5. halts' \in Seq([exit : ExitCodes, journal : HashState,
                        assumptions : Seq(Claims)])
        /\ halts' # << >>
    <2>1. Output(exitCode, digest, assumptions)
            \in [exit : ExitCodes, journal : HashState,
                assumptions : Seq(Claims)]
      BY <1>1, <1>4 DEF Output, TypeOK
    <2>2. QED
      BY <1>3, <2>1
  <1>6. TypeOK'
    BY <1>1, <1>2, <1>5 DEF TypeOK
  <1>7. BlockInv' /\ Untouched' /\ HaltInv'
    BY <1>1, <1>2, <1>5 DEF BlockInv, Untouched, HaltInv
  <1>8. StreamInv' /\ AssumptionsMirror'
    BY <1>1, <1>2 DEF StreamInv, Buffered, AssumptionsMirror
  <1>9. QED
    BY <1>6, <1>7, <1>8 DEF IInv

\* A step that changes nothing.
LEMMA StutterInv ==
  ASSUME IInv, UNCHANGED vars
  PROVE  IInv'
  <1> USE DEF vars, hostVars, hasherVars, callVars
  <1>1. TypeOK' /\ BlockInv' /\ Untouched' /\ HaltInv'
    BY DEF IInv, TypeOK, BlockInv, Untouched, HaltInv
  <1>2. StreamInv' /\ AssumptionsMirror'
    BY DEF IInv, StreamInv, Buffered, AssumptionsMirror
  <1>3. QED
    BY <1>1, <1>2 DEF IInv

-----------------------------------------------------------------------------
(* The theorems.                                                           *)

\* The invariant is inductive.
LEMMA NextInv ==
  ASSUME IInv, [Next]_vars
  PROVE  IInv'
  <1>1. CASE Commit
    BY <1>1, WriteJournalInv DEF Commit
  <1>2. CASE CommitValue
    BY <1>2, WriteJournalInv DEF CommitValue
  <1>3. CASE Update
    BY <1>3, ControlInv, TopUpInv, ProcessBlockInv, BufferTailInv DEF Update
  <1>4. CASE Verify
    BY <1>4, VerifyInv
  <1>5. CASE Halt
    BY <1>5, HaltStepInv
  <1>6. CASE Halted \/ UNCHANGED vars
    BY <1>6, StutterInv DEF Halted
  <1>7. QED
    BY <1>1, <1>2, <1>3, <1>4, <1>5, <1>6 DEF Next

\* The invariant holds in every reachable state of the guest.
THEOREM Invariance == Spec => []IInv
  BY InitInv, NextInv, PTL DEF Spec

\* Every variable keeps its type; in particular the block buffer never holds
\* a whole block between two steps.
THEOREM TypeCorrect == Spec => []TypeOK
  <1>1. IInv => TypeOK
    BY DEF IInv
  <1>2. QED
    BY <1>1, Invariance, PTL

\* The hasher holds exactly the journal, cut in three, at every step of every
\* commit, for every message, cut and alignment.
THEOREM JournalStream == Spec => []StreamInv
  <1>1. IInv => StreamInv
    BY DEF IInv
  <1>2. QED
    BY <1>1, Invariance, PTL

\* The tagged list is every claim the host was told of, newest first, in
\* whatever order the guest commits and asserts.
THEOREM AssumptionsHeld == Spec => []AssumptionsMirror
  <1>1. IInv => AssumptionsMirror
    BY DEF IInv
  <1>2. QED
    BY <1>1, Invariance, PTL

-----------------------------------------------------------------------------
(* The output.  The journal never outgrows the message, so a message whose *)
(* bit count fits 32 bits is hashed to the standard's digest.              *)

\* What an output binds once it is there, beside the invariant.
OutputInv ==
    /\ IInv
    /\ Len(fd3) <= Len(Message)
    /\ JournalDigestIsSha256

\* Compressing keeps the start value and appends to what was absorbed.
LEMMA CompressShape ==
  ASSUME NEW hash \in HashState, NEW blocks
  PROVE  Compress(hash, blocks)
            = [iv |-> hash.iv, data |-> hash.data \o blocks]
  <1>1. \A absorbed : [hash EXCEPT !.data = absorbed]
                        = [iv |-> hash.iv, data |-> absorbed]
    BY DEF HashState
  <1> DEFINE longer == hash.data \o blocks
  <1>2. Compress(hash, blocks) = [hash EXCEPT !.data = longer]
    BY DEF Compress
  <1> HIDE DEF longer
  <1>3. [hash EXCEPT !.data = longer] = [iv |-> hash.iv, data |-> longer]
    BY <1>1
  <1>4. QED
    BY <1>2, <1>3 DEF longer

\* The digest Halt computes is the standard's.
LEMMA HaltDigest ==
  ASSUME Len(Message) * 8 < WordMod, IInv, Len(fd3) <= Len(Message), Halt
  PROVE  \E exitCode \in ExitCodes :
            halts' = << Output(exitCode, FipsSha256(fd3), assumptions) >>
  <1> DEFINE whole == Len(state.data)
             n == whole + Len(Buffered)
             padded == padBuf(Buffered, n)
             pad == FipsPadding(n)
  <1>1. TypeOK /\ BlockInv
    BY DEF IInv
  <1>2. /\ state.data \in Seq(Byte) /\ whole \in Nat
        /\ Buffered \in Seq(Byte) /\ Len(Buffered) \in Nat
        /\ fd3 \in Seq(Byte)
    BY <1>1, HasherSeqs
  <1>3. fd3 = state.data \o Buffered /\ Len(fd3) = n
        /\ state'.data = state.data /\ state'.iv = "sha256InitStateBE"
        /\ state' \in HashState
    BY HaltOutput
  <1>4. n * 8 < WordMod
    <2>1. WordMod \in Nat
      BY Sha256Assumption DEF WordMod
    <2>2. Len(Message) \in Nat
      BY GuestAssumption, LenProperties
    <2>3. QED
      BY <1>2, <1>3, <2>1, <2>2
  <1>5. padded = Buffered \o pad
    <2>1. whole % SHA256_BLOCK_SIZE = 0
      BY <1>1 DEF BlockInv
    <2>2. QED
      BY <1>2, <1>4, <2>1, PadBufIsFips
  <1>6. pad \in Seq(Byte)
    BY <1>2, <1>4, FipsPaddingBytes
  <1> HIDE DEF pad, padded, n
  <1>7. state.data \o (Buffered \o pad) = fd3 \o pad
    <2> DEFINE compressed == state.data
    <2>1. compressed \in Seq(Byte) /\ Buffered \in Seq(Byte)
          /\ pad \in Seq(Byte)
      BY <1>2, <1>6
    <2> HIDE DEF compressed
    <2>2. Associates(compressed, Buffered, pad)
      BY <2>1, JoinAssociates
    <2>3. QED
      BY <1>3, <2>2 DEF Associates, compressed
  <1>8. Compress(state', padded) = FipsSha256(fd3)
    <2>1. Compress(state', padded)
            = [iv |-> "sha256InitStateBE", data |-> fd3 \o pad]
      <3>1. Compress(state', padded)
              = [iv |-> "sha256InitStateBE", data |-> state.data \o padded]
        <4>1. state' \in HashState /\ state'.data = state.data
              /\ state'.iv = "sha256InitStateBE"
          BY <1>3
        <4>2. Compress(state', padded)
                = [iv |-> state'.iv, data |-> state'.data \o padded]
          BY <4>1, CompressShape
        <4>3. QED
          BY <4>1, <4>2
      <3>2. QED
        BY <1>5, <1>7, <3>1
    <2>2. fd3 \o pad \in Seq(Byte)
      BY <1>2, <1>6, ConcatProperties
    <2>3. << >> \o (fd3 \o pad) = fd3 \o pad
      BY <2>2, ConcatEmptySeq
    <2>4. FipsSha256(fd3)
            = [iv |-> "sha256InitStateBE", data |-> << >> \o (fd3 \o pad)]
      <3>1. FipsSha256(fd3) = Compress(sha256InitStateBE, fd3 \o pad)
        BY <1>3 DEF FipsSha256, pad
      <3>2. /\ sha256InitStateBE \in HashState
            /\ sha256InitStateBE.iv = "sha256InitStateBE"
            /\ sha256InitStateBE.data = << >>
        BY DEF HashState, sha256InitStateBE
      <3>3. QED
        BY <3>1, <3>2, CompressShape
    <2>5. QED
      BY <2>1, <2>3, <2>4
  <1>9. QED
    BY <1>8, HaltOutput DEF padded, n

\* Only a commit moves the journal, and only a running guest commits.
LEMMA JournalStep ==
  ASSUME IInv, Len(fd3) <= Len(Message), [Next]_vars
  PROVE  /\ Len(fd3') <= Len(Message)
         /\ pc = "halted" => UNCHANGED << fd3, halts >>
         /\ ~Halt => UNCHANGED halts
  <1>1. CASE Commit \/ CommitValue
    <2>1. PICK n \in CommitLens : WriteJournal(n)
      BY <1>1 DEF Commit, CommitValue
    <2>2. n \in Nat /\ Message \in Seq(Byte) /\ Len(Message) \in Nat
      BY GuestAssumption, LenProperties
    <2>3. fd3 \in Seq(Byte) /\ Len(fd3) \in Nat
      BY HasherSeqs DEF IInv
    <2>4. n <= Len(Message) - Len(fd3)
          /\ fd3' = fd3 \o NextBytes(fd3, n)
          /\ pc = "guest" /\ UNCHANGED halts
      BY <2>1 DEF WriteJournal, CanCommit
    <2>5. NextBytes(fd3, n) \in Seq(Byte) /\ Len(NextBytes(fd3, n)) = n
      <3>1. Len(fd3) + 1 \in Nat \ {0} /\ Len(fd3) + n \in Nat
            /\ Len(fd3) + n <= Len(Message)
        BY <2>2, <2>3, <2>4
      <3>2. /\ SubSeq(Message, Len(fd3) + 1, Len(fd3) + n) \in Seq(Byte)
            /\ Len(SubSeq(Message, Len(fd3) + 1, Len(fd3) + n))
                  = IF Len(fd3) + 1 <= Len(fd3) + n
                    THEN (Len(fd3) + n) - (Len(fd3) + 1) + 1 ELSE 0
        BY <2>2, <3>1, Slice
      <3>3. QED
        BY <2>2, <2>3, <3>2 DEF NextBytes
    <2>6. Len(fd3') = Len(fd3) + n
      <3> DEFINE next == NextBytes(fd3, n)
      <3>1. fd3 \in Seq(Byte) /\ next \in Seq(Byte) /\ Len(next) = n
        BY <2>3, <2>5
      <3> HIDE DEF next
      <3>2. Len(fd3 \o next) = Len(fd3) + Len(next)
        BY <3>1, ConcatProperties
      <3>3. fd3' = fd3 \o next
        BY <2>4 DEF next
      <3>4. QED
        BY <3>1, <3>2, <3>3
    <2>7. QED
      BY <2>2, <2>3, <2>4, <2>6
  <1>2. CASE Update
    BY <1>2 DEF Update, SkipTopUp, TopUp, ProcessBlock, BlocksDone,
                BufferTail, hostVars
  <1>3. CASE Verify
    BY <1>3 DEF Verify
  <1>4. CASE Halt
    BY <1>4 DEF Halt
  <1>5. CASE Halted \/ UNCHANGED vars
    BY <1>5 DEF Halted, vars, hostVars
  <1>6. QED
    BY <1>1, <1>2, <1>3, <1>4, <1>5 DEF Next

\* The output invariant is inductive for a message below the limit.
LEMMA OutputStep ==
  ASSUME Len(Message) * 8 < WordMod, OutputInv, [Next]_vars
  PROVE  OutputInv'
  <1>1. IInv /\ Len(fd3) <= Len(Message) /\ JournalDigestIsSha256 /\ HaltInv
    BY DEF OutputInv, IInv
  <1>2. IInv'
    BY <1>1, NextInv
  <1>3. Len(fd3') <= Len(Message)
    BY <1>1, JournalStep
  <1>4. JournalDigestIsSha256'
    <2>1. CASE Halt
      <3>1. PICK exitCode \in ExitCodes :
              halts' = << Output(exitCode, FipsSha256(fd3), assumptions) >>
        BY <1>1, <2>1, HaltDigest
      <3>2. fd3' = fd3
        BY <2>1 DEF Halt
      <3>3. QED
        BY <3>1, <3>2 DEF JournalDigestIsSha256, Output
    <2>2. CASE ~Halt /\ pc = "halted"
      <3>1. UNCHANGED << fd3, halts >>
        BY <1>1, <2>2, JournalStep
      <3>2. QED
        BY <1>1, <3>1 DEF JournalDigestIsSha256
    <2>3. CASE ~Halt /\ pc # "halted"
      <3>1. halts' = << >>
        BY <1>1, <2>3, JournalStep DEF HaltInv
      <3>2. QED
        BY <3>1 DEF JournalDigestIsSha256
    <2>4. QED
      BY <2>1, <2>2, <2>3
  <1>5. QED
    BY <1>2, <1>3, <1>4 DEF OutputInv

\* The output invariant holds before anything was committed.
LEMMA InitOutputInv == Init => OutputInv
  <1> SUFFICES ASSUME Init PROVE OutputInv
    OBVIOUS
  <1>1. IInv
    BY InitInv
  <1>2. Len(Message) \in Nat /\ Len(fd3) = 0
    BY GuestAssumption, LenProperties, EmptySeq DEF Init
  <1>3. JournalDigestIsSha256
    BY DEF Init, JournalDigestIsSha256
  <1>4. QED
    BY <1>1, <1>2, <1>3 DEF OutputInv

\* A guest that halts has bound the standard's SHA-256 of exactly the bytes
\* on its journal descriptor, if its whole message is below 2^32 bits.
THEOREM OutputBindsJournal ==
  ASSUME Len(Message) * 8 < WordMod
  PROVE  Spec => []JournalDigestIsSha256
  <1>1. Init => OutputInv
    BY InitOutputInv
  <1>2. OutputInv /\ [Next]_vars => OutputInv'
    BY OutputStep
  <1>3. OutputInv => JournalDigestIsSha256
    BY DEF OutputInv
  <1>4. QED
    BY <1>1, <1>2, <1>3, PTL DEF Spec

\* Every step of the running hash is a step of the promise, or hides from it.
LEMMA StepRefines ==
  ASSUME Len(Message) * 8 < WordMod, OutputInv, [Next]_vars
  PROVE  [Promise!AbstractNext]_(Promise!abstractVars)
  <1>1. IInv /\ Len(fd3) <= Len(Message) /\ HaltInv
        /\ assumptions = Reverse(registered)
    BY DEF OutputInv, IInv, AssumptionsMirror
  <1>2. pc = "guest" => halts = << >>
    BY <1>1 DEF HaltInv
  <1>3. CASE Commit \/ CommitValue
    <2>1. PICK n \in CommitLens : WriteJournal(n)
      BY <1>3 DEF Commit, CommitValue
    <2>2. Promise!AbstractCommit
      BY <1>2, <2>1 DEF WriteJournal, Promise!AbstractCommit,
                        Promise!CanCommit, CanCommit,
                        Promise!NextBytes, NextBytes
    <2>3. QED
      BY <2>2 DEF Promise!AbstractNext
  <1>4. CASE Verify
    <2>1. Promise!AbstractVerify
      BY <1>2, <1>4 DEF Verify, Promise!AbstractVerify
    <2>2. QED
      BY <2>1 DEF Promise!AbstractNext
  <1>5. CASE Halt
    <2>1. PICK exitCode \in ExitCodes :
            halts' = << Output(exitCode, FipsSha256(fd3), assumptions) >>
      BY <1>1, <1>5, HaltDigest
    <2>2. halts' = << Output(exitCode, FipsSha256(fd3), Reverse(registered)) >>
      BY <1>1, <2>1
    <2>3. pc = "guest" /\ UNCHANGED << fd3, registered >>
      BY <1>5 DEF Halt
    <2>4. Promise!Output(exitCode, Promise!FipsSha256(fd3),
                         Promise!Reverse(registered))
            = Output(exitCode, FipsSha256(fd3), Reverse(registered))
      BY Zenon DEF Promise!Output, Output, Promise!FipsSha256, FipsSha256,
             Promise!FipsPadding, FipsPadding, Promise!FipsZeros, FipsZeros,
             Promise!Compress, Compress, Promise!PutBE, PutBE,
             Promise!sha256InitStateBE, sha256InitStateBE,
             Promise!Zeros, Zeros, Promise!endMarker, endMarker,
             Promise!WordMod, WordMod, Promise!WORD_SIZE, WORD_SIZE,
             Promise!SHA256_BLOCK_SIZE, SHA256_BLOCK_SIZE,
             Promise!Reverse, Reverse
    <2>5. Promise!AbstractHalt
      BY <1>2, <2>2, <2>3, <2>4 DEF Promise!AbstractHalt
    <2>6. QED
      BY <2>5 DEF Promise!AbstractNext
  <1>6. CASE Update \/ Halted \/ UNCHANGED vars
    BY <1>6 DEF Update, SkipTopUp, TopUp, ProcessBlock, BlocksDone,
                BufferTail, Halted, vars, hostVars, Promise!abstractVars
  <1>7. QED
    BY <1>3, <1>4, <1>5, <1>6 DEF Next

\* The running hash implements GuestOutput: whatever the commits, their
\* lengths, alignments and order with the assertions, the host sees a journal
\* grow, claims appear, and one output that binds exactly both.
THEOREM Refinement ==
  ASSUME Len(Message) * 8 < WordMod
  PROVE  Spec => ImplementsGuestOutput
  <1>1. Init => OutputInv /\ Promise!AbstractInit
    <2>1. Init => OutputInv
      BY InitOutputInv
    <2>2. Init => Promise!AbstractInit
      BY DEF Init, Promise!AbstractInit
    <2>3. QED
      BY <2>1, <2>2
  <1>2. OutputInv /\ [Next]_vars => OutputInv'
    BY OutputStep
  <1>3. OutputInv /\ [Next]_vars
          => [Promise!AbstractNext]_(Promise!abstractVars)
    BY StepRefines
  <1>4. QED
    BY <1>1, <1>2, <1>3, PTL
    DEF Spec, ImplementsGuestOutput, Promise!AbstractSpec

=============================================================================
