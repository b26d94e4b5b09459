------------------------ MODULE StandaloneHost_proof ------------------------
(***************************************************************************)
(* Proofs about StandaloneHost and the guests it runs: what they commit is *)
(* exact, at every width of a word and on every input.                     *)
(***************************************************************************)
EXTENDS StandaloneHost, SequenceTheorems, Induction, TLAPS

-----------------------------------------------------------------------------
(* Numbers.                                                                *)

\* What a number is to its quotient and its remainder.
LEMMA DivMod ==
  ASSUME NEW x \in Nat, NEW n \in Nat, n > 0
  PROVE  /\ x % n \in Nat /\ x % n < n
         /\ x \div n \in Nat
         /\ x = n * (x \div n) + (x % n)
  OBVIOUS

\* Products grow with their factors.
LEMMA Monotone ==
  ASSUME NEW p \in Nat, NEW q \in Nat, NEW n \in Nat, p <= q
  PROVE  n * p \in Nat /\ n * q \in Nat /\ n * p <= n * q
  OBVIOUS

\* A sum that wraps once is smaller than either of its terms.
LEMMA WrappedSum ==
  ASSUME NEW n \in Nat, NEW x \in 0..(n - 1), NEW y \in 0..(n - 1)
  PROVE  /\ x + y < n => (x + y) % n = x + y
         /\ (x + y) % n >= x <=> x + y < n
         /\ (x + y) % n \in 0..(n - 1)
  <1>1. n > 0
    OBVIOUS
  <1>2. ASSUME x + y < n
        PROVE  (x + y) % n = x + y
    BY <1>2
  <1>3. ASSUME ~(x + y < n)
        PROVE  (x + y) % n = x + y - n
    <2> DEFINE q == (x + y) \div n
               r == (x + y) % n
    <2>1. r \in Nat /\ r < n /\ q \in Nat /\ x + y = n * q + r
      BY <1>1, DivMod
    <2> HIDE DEF q, r
    <2>2. q # 0
      <3>1. q = 0 => n * q = 0
        OBVIOUS
      <3>2. QED
        BY <1>3, <2>1, <3>1
    <2>3. ~(q >= 2)
      <3>1. q >= 2 => n * 2 <= n * q
        BY <2>1, Monotone
      <3>2. QED
        BY <2>1, <3>1
    <2>4. q = 1
      BY <2>1, <2>2, <2>3
    <2>5. n * 1 = n
      OBVIOUS
    <2>6. QED
      BY <2>1, <2>4, <2>5 DEF r
  <1>4. QED
    BY <1>1, <1>2, <1>3

\* Dividing the wrapped product by a factor gives the other one just if
\* nothing wrapped.
LEMMA WrappedProduct ==
  ASSUME NEW n \in Nat, n > 0, NEW x \in Nat, NEW y \in Nat, x > 0
  PROVE  /\ x * y \in Nat
         /\ x * y < n => (x * y) % n = x * y
         /\ ((x * y) % n) \div x = y <=> x * y < n
  <1> DEFINE p == x * y
             w == p % n
             q == w \div x
  <1>1. p \in Nat
    BY Monotone
  <1> HIDE DEF p
  <1>2. w \in Nat /\ w < n
    BY <1>1, DivMod
  <1>3. p < n => w = p
    BY <1>1
  <1> HIDE DEF w
  <1>4. w % x \in Nat /\ w % x < x /\ q \in Nat /\ w = x * q + (w % x)
    BY <1>2, DivMod
  <1> HIDE DEF q
  <1>5. ASSUME p < n
        PROVE  q = y
    <2>1. x * y = x * q + (w % x)
      BY <1>3, <1>4, <1>5 DEF p
    <2>2. ~(q > y)
      <3>1. q > y => x * (y + 1) <= x * q
        BY <1>4, Monotone
      <3>2. x * (y + 1) = x * y + x
        OBVIOUS
      <3>3. QED
        BY <1>1, <1>4, <2>1, <3>1, <3>2 DEF p
    <2>3. ~(q < y)
      <3>1. q < y => x * (q + 1) <= x * y
        BY <1>4, Monotone
      <3>2. x * (q + 1) = x * q + x
        BY <1>4
      <3>3. x * q \in Nat
        BY <1>4, Monotone
      <3>4. QED
        BY <1>1, <1>4, <2>1, <3>1, <3>2, <3>3 DEF p
    <2>4. QED
      BY <1>4, <2>2, <2>3
  <1>6. ASSUME q = y
        PROVE  p < n
    BY <1>1, <1>2, <1>4, <1>6 DEF p
  <1>7. QED
    BY <1>1, <1>3, <1>5, <1>6 DEF p, w, q

\* The sizes of words.
LEMMA Sizes ==
  /\ R \in Nat /\ R >= 200 /\ U64 \in Nat /\ U64 >= R
  /\ Uint64 = 0..(U64 - 1) /\ Uint32 = 0..(R - 1)
  <1>1. R \in Nat /\ R >= 200
    BY WordAssumption, CommandAssumption
    DEF WordAssumption, CommandAssumption
  <1>2. R * R \in Nat /\ R * 1 <= R * R
    BY <1>1, Monotone
  <1>3. R * 1 = R
    BY <1>1
  <1>4. QED
    BY <1>1, <1>2, <1>3 DEF U64, Uint64, Uint32

\* A uint64 is written as two words, and two words are read as one.
LEMMA TwoWords ==
  /\ \A v \in Uint64 : Words(v) \in Seq(Uint32) /\ Len(Words(v)) = 2
  /\ stdin \in Seq(Uint32) => \A k \in Nat \ {0} : Word(k) \in Uint32
                                                 /\ Value(k) \in Uint64
  <1>1. ASSUME NEW v \in Uint64
        PROVE  Words(v) \in Seq(Uint32) /\ Len(Words(v)) = 2
    <2> DEFINE q == v \div R
               r == v % R
    <2>1. v \in Nat /\ v < U64
      BY Sizes
    <2>2. r \in Nat /\ r < R /\ q \in Nat /\ v = R * q + r
      BY <2>1, Sizes, DivMod
    <2>3. Words(v) = << r, q >>
      BY DEF Words
    <2> HIDE DEF q, r
    <2>4. q < R
      <3>1. q >= R => R * R <= R * q
        BY <2>2, Sizes, Monotone
      <3>2. R * q \in Nat
        BY <2>2, Sizes, Monotone
      <3>3. QED
        BY <2>1, <2>2, <3>1, <3>2, Sizes DEF U64
    <2>5. r \in Uint32 /\ q \in Uint32
      BY <2>2, <2>4, Sizes
    <2>6. QED
      BY <2>3, <2>5
  <1>2. ASSUME stdin \in Seq(Uint32), NEW k \in Nat \ {0}
        PROVE  Word(k) \in Uint32
    BY <1>2, Sizes DEF Word
  <1>3. ASSUME stdin \in Seq(Uint32), NEW k \in Nat \ {0}
        PROVE  Value(k) \in Uint64
    <2> DEFINE a == Word(k)
               b == Word(k + 1)
    <2>1. a \in Uint32 /\ b \in Uint32
      BY <1>2, <1>3
    <2>2. Value(k) = a + R * b
      BY DEF Value
    <2> HIDE DEF a, b
    <2>3. a \in Nat /\ a <= R - 1 /\ b \in Nat /\ b <= R - 1 /\ R - 1 \in Nat
      BY <2>1, Sizes
    <2>4. R * b \in Nat /\ R * b <= R * (R - 1)
      BY <2>3, Sizes, Monotone
    <2>5. R * (R - 1) = U64 - R
      BY Sizes DEF U64
    <2>6. QED
      BY <2>2, <2>3, <2>4, <2>5, Sizes
  <1>4. QED
    BY <1>1, <1>2, <1>3

-----------------------------------------------------------------------------
(* What the host sends is words.                                           *)

\* A sequence's elements are in the set it is over.
LEMMA Elements ==
  ASSUME NEW S, NEW s \in Seq(S), Len(s) = 2
  PROVE  s[1] \in S /\ s[2] \in S
  BY ElementOfSeq

\* Two words for each number.
LEMMA AppendedSlice ==
  ASSUME NEW values \in Seq(Uint64)
  PROVE  append_u64_slice(values) \in Seq(Uint32)
  <1>1. ASSUME NEW k \in 1..(2 * Len(values))
        PROVE  Words(values[(k + 1) \div 2])[IF k % 2 = 1 THEN 1 ELSE 2]
                   \in Uint32
    <2>1. (k + 1) \div 2 \in 1..Len(values)
      OBVIOUS
    <2>2. values[(k + 1) \div 2] \in Uint64
      BY <2>1
    <2> DEFINE v == values[(k + 1) \div 2]
    <2>3. Words(v) \in Seq(Uint32) /\ Len(Words(v)) = 2
      BY <2>2, TwoWords
    <2> HIDE DEF v
    <2>4. Words(v)[1] \in Uint32 /\ Words(v)[2] \in Uint32
      BY <2>3, Elements
    <2>5. QED
      BY <2>4 DEF v
  <1>2. 2 * Len(values) \in Nat
    OBVIOUS
  <1>3. QED
    BY <1>1, <1>2 DEF append_u64_slice

\* The options that a policy's witness is made of, given or not.
LEMMA OptionsType ==
  ASSUME NEW c \in Command, c.policy_items # Bad,
         c.policy_discount # Bad, c.policy_limit # Bad
  PROVE  /\ PolicyItems(c) \in Seq(Uint64)
         /\ PolicyDiscount(c) \in Uint64
         /\ PolicyLimit(c) \in Uint64
  <1>1. {120, 45, 80, 20, 250} \subseteq Uint64
    <2>1. R * 2 <= R * R
      BY Sizes, Monotone
    <2>2. R * 2 >= 400
      BY Sizes
    <2>3. QED
      BY <2>1, <2>2, Sizes DEF U64
  <1>2. /\ c.policy_items \in Seq(Uint64) \cup {Nothing, Bad}
        /\ c.policy_discount \in Uint64 \cup {Nothing, Bad}
        /\ c.policy_limit \in Uint64 \cup {Nothing, Bad}
    BY Zenon DEF Command
  <1>3. DEFAULT_POLICY_ITEMS \in Seq(Uint64)
    BY <1>1 DEF DEFAULT_POLICY_ITEMS
  <1>4. DEFAULT_POLICY_DISCOUNT \in Uint64 /\ DEFAULT_POLICY_LIMIT \in Uint64
    BY <1>1 DEF DEFAULT_POLICY_DISCOUNT, DEFAULT_POLICY_LIMIT
  <1>5. QED
    BY <1>2, <1>3, <1>4
    DEF PolicyItems, PolicyDiscount, PolicyLimit, Or

\* So is a purchase,
LEMMA PolicyWitnessType ==
  ASSUME NEW c \in Command, c.policy_items # Bad,
         c.policy_discount # Bad, c.policy_limit # Bad
  PROVE  PolicyWitness(c) \in Seq(Uint32)
  <1> DEFINE head == << Len(PolicyItems(c)) % R >>
             list == append_u64_slice(PolicyItems(c))
             discount == Words(PolicyDiscount(c))
             limit == Words(PolicyLimit(c))
  <1>1. /\ PolicyItems(c) \in Seq(Uint64)
        /\ PolicyDiscount(c) \in Uint64
        /\ PolicyLimit(c) \in Uint64
    BY OptionsType
  <1>2. head \in Seq(Uint32)
    <2>1. Len(PolicyItems(c)) % R \in Uint32
      BY <1>1, Sizes
    <2>2. QED
      BY <2>1
  <1>3. list \in Seq(Uint32)
    BY <1>1, AppendedSlice
  <1>4. discount \in Seq(Uint32) /\ limit \in Seq(Uint32)
    BY <1>1, TwoWords
  <1>5. PolicyWitness(c) = ((head \o list) \o discount) \o limit
    BY DEF PolicyWitness
  <1> HIDE DEF head, list, discount, limit
  <1>6. head \o list \in Seq(Uint32)
    BY <1>2, <1>3, ConcatProperties
  <1>7. (head \o list) \o discount \in Seq(Uint32)
    BY <1>4, <1>6, ConcatProperties
  <1>8. QED
    BY <1>4, <1>5, <1>7, ConcatProperties

\* a seed and a path,
LEMMA Bip32WitnessType ==
  ASSUME NEW c \in Command, Bip32Loads(c)
  PROVE  Bip32Witness(c) \in Seq(Uint32)
  <1> DEFINE seed == Bip32Seed(c)
             path == Bip32Path(c)
             head == << IF c.require_bip86 THEN 1 ELSE 0,
                        (WORD_SIZE * Len(seed)) % R >>
             count == << Len(path) % R >>
  <1>1. {0, 1, 2, 3} \subseteq Uint32 /\ HARDENED_KEY_START \in Uint32
        /\ BIP86_PURPOSE \in Uint32
    BY Sizes DEF HARDENED_KEY_START, BIP86_PURPOSE
  <1>2. /\ c.seed \in Seq(Uint32) \cup {Nothing, Bad}
        /\ c.path \in Seq(Component) \cup {Nothing, Bad}
        /\ c.seed # Bad
        /\ c.path = Nothing \/ c.path \in Seq(Component)
    <2>1. /\ c.seed \in Seq(Uint32) \cup {Nothing, Bad}
          /\ c.path \in Seq(Component) \cup {Nothing, Bad}
      BY Zenon DEF Command
    <2>2. QED
      BY <2>1, CommandAssumption
      DEF Bip32Loads, PathParses, CommandAssumption
  <1>3. seed \in Seq(Uint32)
    <2>1. DEFAULT_BIP32_SEED \in Seq(Uint32)
      BY <1>1 DEF DEFAULT_BIP32_SEED
    <2>2. QED
      BY <1>2, <2>1 DEF Bip32Seed, Or
  <1>4. path \in Seq(Uint32)
    <2>1. DEFAULT_BIP32_PATH \in Seq(Uint32)
      BY <1>1 DEF DEFAULT_BIP32_PATH
    <2>2. ASSUME c.path # Nothing
          PROVE  [k \in 1..Len(c.path) |-> Child(c.path[k])] \in Seq(Uint32)
      <3>1. ASSUME NEW k \in 1..Len(c.path)
            PROVE  Child(c.path[k]) \in Uint32
        <4>1. c.path[k] \in Component
          BY <1>2, <2>2
        <4>2. c.path[k].digits \in Uint32
          BY <4>1 DEF Component
        <4>3. (c.path[k].digits + HARDENED_KEY_START) % R \in Uint32
          BY <1>1, <4>2, Sizes
        <4>4. QED
          BY <4>2, <4>3 DEF Child
      <3>2. Len(c.path) \in Nat
        BY <1>2, <2>2
      <3>3. QED
        BY <3>1, <3>2
    <2>3. QED
      BY <2>1, <2>2 DEF Bip32Path
  <1>5. Bip32Witness(c) = ((head \o seed) \o count) \o path
    BY DEF Bip32Witness
  <1> HIDE DEF seed, path
  <1>6. head \in Seq(Uint32)
    <2>1. (WORD_SIZE * Len(seed)) % R \in Uint32
      BY <1>3, Sizes DEF WORD_SIZE
    <2>2. QED
      BY <1>1, <2>1
  <1>7. count \in Seq(Uint32)
    <2>1. Len(path) % R \in Uint32
      BY <1>4, Sizes
    <2>2. QED
      BY <2>1
  <1> HIDE DEF head, count
  <1>8. head \o seed \in Seq(Uint32)
    BY <1>3, <1>6, ConcatProperties
  <1>9. (head \o seed) \o count \in Seq(Uint32)
    BY <1>7, <1>8, ConcatProperties
  <1>10. QED
    BY <1>4, <1>5, <1>9, ConcatProperties

\* and whatever else the host sends.
LEMMA WitnessType ==
  ASSUME NEW c \in Command, Loads(c),
         c.policy_discount # Bad, c.policy_limit # Bad
  PROVE  Witness(c) \in Seq(Uint32)
  <1>1. CASE c.bip32
    BY <1>1, Bip32WitnessType DEF Witness, Loads
  <1>2. CASE ~c.bip32 /\ c.policy
    BY <1>2, PolicyWitnessType DEF Witness, Loads
  <1>3. CASE ~c.bip32 /\ ~c.policy
    <2>1. 17 \in Uint64 /\ 23 \in Uint64
      BY Sizes
    <2>2. Words(17) \o Words(23) \in Seq(Uint32)
      BY <2>1, TwoWords, ConcatProperties
    <2>3. QED
      BY <1>3, <2>2 DEF Witness
  <1>4. QED
    BY <1>1, <1>2, <1>3

-----------------------------------------------------------------------------
(* The steps of the guests.                                                *)

\* What is left of the input is words.
LEMMA RestType ==
  ASSUME stdin \in Seq(Uint32), NEW k \in Nat
  PROVE  Rest(k) \in Seq(Uint32)
  BY SubSeqProperties DEF Rest

LEMMA MultipliesExactly ==
  ASSUME NEW a \in Uint64, NEW b \in Uint64
  PROVE  /\ Multiplies(a, b) <=> a > 1 /\ b > 1 /\ a * b < U64
         /\ Multiplies(a, b) => /\ (a * b) % U64 = a * b
                                /\ a * b \in Uint64
  <1>1. a \in Nat /\ b \in Nat /\ U64 \in Nat /\ U64 > 0
    BY Sizes
  <1>2. {a, b} \cap {0, 1} = {} <=> a > 1 /\ b > 1
    <2>1. {a, b} \cap {0, 1} = {} <=> a \notin {0, 1} /\ b \notin {0, 1}
      BY Zenon
    <2>2. QED
      BY <1>1, <2>1
  <1>3. a > 1 => /\ a * b \in Nat
                 /\ a * b < U64 => (a * b) % U64 = a * b
                 /\ ~Overflows(a, b) <=> a * b < U64
    BY <1>1, WrappedProduct DEF Overflows
  <1> DEFINE p == a * b
             w == (a * b) % U64
  <1>4. /\ Multiplies(a, b) <=> a > 1 /\ b > 1 /\ p < U64
        /\ a > 1 => p \in Nat /\ (p < U64 => w = p)
    BY <1>2, <1>3 DEF Multiplies
  <1> HIDE DEF p, w
  <1>5. Multiplies(a, b) => w = p /\ p \in Uint64
    BY <1>1, <1>4, Sizes
  <1>6. QED
    BY <1>4, <1>5 DEF p, w

\* What is said of a guest holds when it starts,
LEMMA Booted ==
  ASSUME NEW p \in Program, NEW words \in Seq(Uint32), Boot(p, words)
  PROVE  GuestInv'
  <1>1. 0 \in Uint32 /\ 0 \in Uint64
    BY Sizes
  <1>2. GuestTypeOK'
    <2>1. << >> \in Seq(Uint32) /\ << 0, 0 >> \in Uint64 \X Uint64
      BY <1>1
    <2>2. QED
      BY <1>1, <2>1 DEF Boot, GuestTypeOK
  <1>3. QED
    BY <1>2
    DEF Boot, GuestInv, StartsEmpty, AddsExactly, PolicyExact, ProductExact

\* and a step of the host alone keeps it.
LEMMA Unchanged ==
  ASSUME GuestInv, UNCHANGED guest
  PROVE  GuestInv'
  BY DEF GuestInv, GuestTypeOK, StartsEmpty, AddsExactly, PolicyExact,
         ProductExact, guest, policy, history

\* So does every step of a guest.
LEMMA SimpleStep ==
  ASSUME GuestInv, Simple \/ Other
  PROVE  GuestInv'
  <1>1. program \in {"simple", "other"} /\ program' = program
    BY DEF Simple, Other
  <1>2. pc' = "halted" /\ exitCode' \in {0, 1} /\ journal' \in Seq(Uint32)
    <2>1. OtherJournals \subseteq Seq(Uint32)
      BY OtherAssumption DEF OtherAssumption, Uint32
    <2>2. QED
      BY <2>1 DEF Simple, Other, Halt, GuestInv, GuestTypeOK
  <1>3. UNCHANGED << stdin, policy, history >>
    BY DEF Simple, Other
  <1>4. QED
    BY <1>1, <1>2, <1>3
    DEF GuestInv, GuestTypeOK, StartsEmpty, AddsExactly, PolicyExact,
        ProductExact, policy, history

LEMMA MultiplyStep ==
  ASSUME GuestInv, Multiply
  PROVE  GuestInv'
  <1> DEFINE a == Value(1)
             b == Value(3)
  <1>1. a \in Uint64 /\ b \in Uint64
    BY TwoWords DEF GuestInv, GuestTypeOK
  <1>2. /\ program = "multiply" /\ program' = program /\ pc' = "halted"
        /\ operands' = << a, b >> /\ stdin' = Rest(4)
        /\ \/ ~Multiplies(a, b) /\ exitCode' = 1 /\ journal' = journal
           \/ /\ Multiplies(a, b) /\ exitCode' = 0
              /\ journal' = Words((a * b) % U64)
        /\ UNCHANGED << policy, input, sum, zero >>
    BY DEF Multiply, Halt
  <1>3. stdin' \in Seq(Uint32)
    BY <1>2, RestType DEF GuestInv, GuestTypeOK
  <1>4. /\ Multiplies(a, b) <=> a > 1 /\ b > 1 /\ a * b < U64
        /\ Multiplies(a, b) => (a * b) % U64 = a * b /\ a * b \in Uint64
    BY <1>1, MultipliesExactly
  <1> HIDE DEF a, b
  <1>5. /\ exitCode' = 0 <=> a > 1 /\ b > 1 /\ a * b < U64
        /\ exitCode' = 0 => journal' = Words(a * b)
        /\ exitCode' \in {0, 1}
    BY <1>2, <1>4
  <1>6. journal' \in Seq(Uint32)
    BY <1>2, <1>4, TwoWords DEF GuestInv, GuestTypeOK
  <1>7. GuestTypeOK'
    BY <1>1, <1>2, <1>3, <1>5, <1>6 DEF GuestInv, GuestTypeOK, policy
  <1>8. ProductExact'
    BY <1>2, <1>5 DEF ProductExact
  <1>9. QED
    BY <1>2, <1>7, <1>8
    DEF GuestInv, StartsEmpty, AddsExactly, PolicyExact

LEMMA ReadCountStep ==
  ASSUME GuestInv, ReadCount
  PROVE  GuestInv'
  <1>1. /\ program = "policy_check" /\ program' = program /\ pc = "main"
        /\ itemCount' = Word(1) /\ stdin' = Rest(1)
        /\ \/ /\ itemCount' \in 1..maxPolicyItems /\ pc' = "items"
              /\ exitCode' = exitCode
           \/ /\ itemCount' \notin 1..maxPolicyItems /\ pc' = "halted"
              /\ exitCode' = 1
        /\ UNCHANGED << journal, i, subtotal, history >>
    BY DEF ReadCount, Halt
  <1>2. itemCount' \in Uint32 /\ stdin' \in Seq(Uint32)
    BY <1>1, TwoWords, RestType DEF GuestInv, GuestTypeOK
  <1>3. GuestTypeOK'
    BY <1>1, <1>2 DEF GuestInv, GuestTypeOK, history
  <1>4. AddsExactly'
    BY <1>1 DEF GuestInv, StartsEmpty, AddsExactly, history, maxPolicyItems
  <1>5. PolicyExact'
    BY <1>1 DEF PolicyExact
  <1>6. QED
    BY <1>1, <1>3, <1>4, <1>5 DEF GuestInv, StartsEmpty, ProductExact

LEMMA AddItemStep ==
  ASSUME GuestInv, AddItem
  PROVE  GuestInv'
  <1> DEFINE item == Value(1)
  <1>1. item \in Uint64
    BY TwoWords DEF GuestInv, GuestTypeOK
  <1>2. /\ pc = "items" /\ i < itemCount /\ Acceptable(item)
        /\ subtotal' = (subtotal + item) % U64
        /\ i' = i + 1 /\ stdin' = Rest(2) /\ sum' = sum + item
        /\ UNCHANGED << program, pc, journal, exitCode, itemCount, input,
                        zero, operands >>
    BY DEF AddItem
  <1> HIDE DEF item
  <1>3. stdin' \in Seq(Uint32)
    BY <1>2, RestType DEF GuestInv, GuestTypeOK
  <1>4. /\ subtotal = sum /\ subtotal \in Uint64 /\ sum \in Nat
        /\ itemCount \in 1..maxPolicyItems /\ i \in 0..itemCount
        /\ program = "policy_check" /\ ~zero /\ exitCode = 0
    BY <1>2 DEF GuestInv, GuestTypeOK, AddsExactly
  <1>5. subtotal' = subtotal + item /\ subtotal' \in Uint64
    BY <1>1, <1>2, <1>4, Sizes, WrappedSum DEF Acceptable
  <1>6. i' \in 0..itemCount /\ sum' \in Nat /\ sum' = subtotal'
    BY <1>1, <1>2, <1>4, <1>5, Sizes DEF maxPolicyItems
  <1>7. GuestTypeOK'
    BY <1>2, <1>3, <1>5, <1>6 DEF GuestInv, GuestTypeOK
  <1>8. AddsExactly'
    BY <1>2, <1>4, <1>6 DEF AddsExactly
  <1>9. QED
    BY <1>2, <1>7, <1>8
    DEF GuestInv, StartsEmpty, PolicyExact, ProductExact

LEMMA RejectItemStep ==
  ASSUME GuestInv, RejectItem
  PROVE  GuestInv'
  <1> DEFINE item == Value(1)
  <1>1. item \in Uint64
    BY TwoWords DEF GuestInv, GuestTypeOK
  <1>2. /\ program = "policy_check" /\ program' = program /\ pc = "items"
        /\ ~Acceptable(item)
        /\ stdin' = Rest(2) /\ sum' = sum + item
        /\ zero' = (item = 0)
        /\ pc' = "halted" /\ exitCode' = 1
        /\ UNCHANGED << journal, policy, input, operands >>
    BY DEF RejectItem, Halt
  <1> HIDE DEF item
  <1>3. stdin' \in Seq(Uint32)
    BY <1>2, RestType DEF GuestInv, GuestTypeOK
  <1>4. subtotal = sum /\ subtotal \in Uint64 /\ sum \in Nat
    BY <1>2 DEF GuestInv, GuestTypeOK, AddsExactly
  <1>5. sum' \in Nat
    BY <1>1, <1>2, <1>4, Sizes
  <1>6. zero' \/ ~(sum' < U64)
    BY <1>1, <1>2, <1>4, Sizes, WrappedSum DEF Acceptable
  <1>7. GuestTypeOK'
    BY <1>2, <1>3, <1>5 DEF GuestInv, GuestTypeOK, policy
  <1>8. PolicyExact'
    BY <1>2, <1>6 DEF PolicyExact
  <1>9. QED
    BY <1>2, <1>7, <1>8
    DEF GuestInv, StartsEmpty, AddsExactly, ProductExact

LEMMA DecideStep ==
  ASSUME GuestInv, Decide
  PROVE  GuestInv'
  <1> DEFINE discount == Value(1)
             limit == Value(3)
             approved == Approved(subtotal - discount, limit)
  <1>1. discount \in Uint64 /\ limit \in Uint64
    BY TwoWords DEF GuestInv, GuestTypeOK
  <1>2. /\ program = "policy_check" /\ program' = program /\ pc = "items"
        /\ i = itemCount /\ pc' = "halted"
        /\ operands' = << discount, limit >> /\ stdin' = Rest(4)
        /\ \/ discount > subtotal /\ exitCode' = 1 /\ journal' = journal
           \/ /\ discount <= subtotal /\ exitCode' = 0
              /\ journal' = << itemCount, approved >>
                     \o Words(subtotal) \o Words(discount)
                     \o Words(subtotal - discount) \o Words(limit)
        /\ UNCHANGED << policy, input, sum, zero >>
    BY DEF Decide, Halt, Summary
  <1>3. approved = IF subtotal - discount <= limit THEN 1 ELSE 0
    BY DEF Approved
  <1> HIDE DEF discount, limit, approved
  <1>4. /\ subtotal = sum /\ subtotal \in Uint64 /\ ~zero
        /\ itemCount \in 1..maxPolicyItems /\ itemCount \in Uint32
    BY <1>2 DEF GuestInv, GuestTypeOK, AddsExactly
  <1>5. stdin' \in Seq(Uint32)
    BY <1>2, RestType DEF GuestInv, GuestTypeOK
  <1>6. approved = IF sum <= limit + discount THEN 1 ELSE 0
    BY <1>1, <1>3, <1>4, Sizes
  <1>7. journal' \in Seq(Uint32) /\ exitCode' \in {0, 1}
    <2>1. journal \in Seq(Uint32)
      BY DEF GuestInv, GuestTypeOK
    <2>2. ASSUME discount <= subtotal
          PROVE  << itemCount, approved >>
                     \o Words(subtotal) \o Words(discount)
                     \o Words(subtotal - discount) \o Words(limit)
                         \in Seq(Uint32)
      <3> DEFINE w1 == << itemCount, approved >>
                 w2 == Words(subtotal)
                 w3 == Words(discount)
                 w4 == Words(subtotal - discount)
                 w5 == Words(limit)
      <3>1. subtotal - discount \in Uint64
        BY <1>1, <1>4, <2>2, Sizes
      <3>2. approved \in Uint32
        BY <1>3, Sizes
      <3>3. w1 \in Seq(Uint32)
        BY <1>4, <3>2
      <3>4. /\ w2 \in Seq(Uint32) /\ w3 \in Seq(Uint32)
            /\ w4 \in Seq(Uint32) /\ w5 \in Seq(Uint32)
        BY <1>1, <1>4, <3>1, TwoWords
      <3> HIDE DEF w1, w2, w3, w4, w5
      <3>5. w1 \o w2 \in Seq(Uint32)
        BY <3>3, <3>4, ConcatProperties
      <3>6. (w1 \o w2) \o w3 \in Seq(Uint32)
        BY <3>4, <3>5, ConcatProperties
      <3>7. ((w1 \o w2) \o w3) \o w4 \in Seq(Uint32)
        BY <3>4, <3>6, ConcatProperties
      <3>8. (((w1 \o w2) \o w3) \o w4) \o w5 \in Seq(Uint32)
        BY <3>4, <3>7, ConcatProperties
      <3>9. QED
        BY <3>8 DEF w1, w2, w3, w4, w5
    <2>3. QED
      BY <1>2, <2>1, <2>2
  <1>8. GuestTypeOK'
    BY <1>1, <1>2, <1>5, <1>7 DEF GuestInv, GuestTypeOK, policy
  <1>9. PolicyExact'
    <2>1. operands'[1] = discount /\ operands'[2] = limit
      BY <1>2
    <2>2. /\ sum' = sum /\ sum = subtotal /\ zero' = zero /\ i' = i
          /\ itemCount' = itemCount
      BY <1>2, <1>4 DEF policy
    <2>3. sum < U64 /\ itemCount' \in 1..maxPolicyItems /\ ~zero'
      BY <1>4, <2>2, Sizes
    <2>4. exitCode' = 0 <=> discount <= sum'
      BY <1>1, <1>2, <2>2, <1>4, Sizes
    <2>5. exitCode' = 0 =>
              journal' = << itemCount', IF sum' <= limit + discount
                                        THEN 1 ELSE 0 >>
                             \o Words(sum') \o Words(discount)
                             \o Words(sum' - discount) \o Words(limit)
      BY <1>2, <1>6, <2>2
    <2>6. i' = itemCount'
      BY <1>2, <2>2
    <2>7. QED
      BY <2>1, <2>2, <2>3, <2>4, <2>5, <2>6 DEF PolicyExact
  <1>10. QED
    BY <1>2, <1>8, <1>9
    DEF GuestInv, StartsEmpty, AddsExactly, ProductExact

LEMMA GuestSteps ==
  ASSUME GuestInv, GuestStep
  PROVE  GuestInv'
  BY SimpleStep, MultiplyStep, ReadCountStep, AddItemStep, RejectItemStep,
     DecideStep
  DEF GuestStep

-----------------------------------------------------------------------------
(* Sums.                                                                   *)

\* The sums of a list's beginnings, up to the one of n items.
IsSums(f, values, n) ==
    f = [k \in 0..n |-> IF k = 0 THEN 0 ELSE f[k - 1] + values[k]]

\* The function that Total is the last value of.
Sums(values) == CHOOSE f : IsSums(f, values, Len(values))

\* There is such a function, by induction over n.
LEMMA SumsExist ==
  ASSUME NEW values, NEW n \in Nat
  PROVE  \E f : IsSums(f, values, n)
  <1> DEFINE T == {m \in Nat : \E f : IsSums(f, values, m)}
  <1>1. 0 \in T
    <2> DEFINE f == [k \in 0..0 |-> 0]
    <2>1. f = [k \in 0..0 |-> IF k = 0 THEN 0 ELSE f[k - 1] + values[k]]
      OBVIOUS
    <2>2. QED
      BY <2>1 DEF IsSums
  <1>2. ASSUME NEW m \in Nat, m \in T
        PROVE  m + 1 \in T
    <2>1. PICK f : IsSums(f, values, m)
      BY <1>2
    <2> DEFINE g == [k \in 0..(m + 1) |->
                        IF k = 0 THEN 0 ELSE f[k - 1] + values[k]]
    <2>2. ASSUME NEW k \in 0..m
          PROVE  g[k] = f[k]
      <3>1. f[k] = IF k = 0 THEN 0 ELSE f[k - 1] + values[k]
        BY <2>1, Zenon DEF IsSums
      <3>2. k \in 0..(m + 1)
        OBVIOUS
      <3>3. QED
        BY <3>1, <3>2
    <2>3. ASSUME NEW k \in 0..(m + 1)
          PROVE  g[k] = IF k = 0 THEN 0 ELSE g[k - 1] + values[k]
      <3>1. k # 0 => k - 1 \in 0..m
        OBVIOUS
      <3>2. k # 0 => g[k - 1] = f[k - 1]
        BY <2>2, <3>1
      <3>3. g[k] = IF k = 0 THEN 0 ELSE f[k - 1] + values[k]
        OBVIOUS
      <3> HIDE DEF g
      <3>4. QED
        BY <3>2, <3>3
    <2>4. g = [k \in 0..(m + 1) |-> g[k]]
      OBVIOUS
    <2> HIDE DEF g
    <2>5. g = [k \in 0..(m + 1) |->
                  IF k = 0 THEN 0 ELSE g[k - 1] + values[k]]
      BY <2>3, <2>4
    <2>6. QED
      BY <2>5 DEF IsSums
  <1> HIDE DEF T
  <1>3. n \in T
    BY <1>1, <1>2, SetInduction
  <1>4. QED
    BY <1>3 DEF T

\* Total, one number at a time.
LEMMA SumsAt ==
  ASSUME NEW values \in Seq(Nat)
  PROVE  /\ Sums(values)[0] = 0
         /\ \A k \in 1..Len(values) :
                Sums(values)[k] = Sums(values)[k - 1] + values[k]
         /\ Total(values) = Sums(values)[Len(values)]
  <1> DEFINE n == Len(values)
             f == Sums(values)
  <1>1. n \in Nat
    OBVIOUS
  <1>2. IsSums(f, values, n)
    <2>1. \E g : IsSums(g, values, n)
      BY <1>1, SumsExist
    <2>2. QED
      BY <2>1, Zenon DEF Sums
  <1>3. Total(values) = f[n]
    BY DEF Total, Sums, IsSums
  <1> HIDE DEF f, n
  <1>4. \A k \in 0..n : f[k] = IF k = 0 THEN 0 ELSE f[k - 1] + values[k]
    BY <1>2, Zenon DEF IsSums
  <1>5. f[0] = 0
    BY <1>1, <1>4
  <1>6. \A k \in 1..n : f[k] = f[k - 1] + values[k]
    BY <1>1, <1>4
  <1>7. QED
    BY <1>3, <1>5, <1>6 DEF f, n

\* They are numbers, and do not shrink.
LEMMA SumsGrow ==
  ASSUME NEW values \in Seq(Nat)
  PROVE  /\ \A k \in 0..Len(values) : Sums(values)[k] \in Nat
         /\ \A j \in 0..Len(values) : Sums(values)[j] <= Total(values)
         /\ Total(values) \in Nat
  <1> DEFINE n == Len(values)
             f == Sums(values)
             T == {k \in Nat : k <= n =>
                     \A j \in 0..k : f[j] \in Nat /\ f[j] <= f[k]}
  <1>1. n \in Nat /\ \A k \in 1..n : values[k] \in Nat
    OBVIOUS
  <1>2. /\ f[0] = 0 /\ \A k \in 1..n : f[k] = f[k - 1] + values[k]
        /\ Total(values) = f[n]
    BY SumsAt
  <1> HIDE DEF n, f
  <1>3. 0 \in T
    BY <1>2
  <1>4. ASSUME NEW k \in Nat, k \in T
        PROVE  k + 1 \in T
    <2> SUFFICES ASSUME k + 1 <= n
                 PROVE  \A j \in 0..(k + 1) :
                            f[j] \in Nat /\ f[j] <= f[k + 1]
      OBVIOUS
    <2>1. /\ k \in 0..k
          /\ \A j \in 0..k : f[j] \in Nat /\ f[j] <= f[k]
      BY <1>1, <1>4
    <2>2. f[k + 1] = f[k] + values[k + 1] /\ values[k + 1] \in Nat
      <3>1. k + 1 \in 1..n /\ (k + 1) - 1 = k
        BY <1>1
      <3>2. QED
        BY <1>1, <1>2, <3>1
    <2>3. f[k + 1] \in Nat /\ f[k] \in Nat /\ f[k] <= f[k + 1]
      BY <2>1, <2>2
    <2>4. ASSUME NEW j \in 0..(k + 1)
          PROVE  f[j] \in Nat /\ f[j] <= f[k + 1]
      <3>1. CASE j \in 0..k
        BY <2>1, <2>3, <3>1
      <3>2. CASE j = k + 1
        BY <2>3, <3>2
      <3>3. QED
        BY <3>1, <3>2
    <2>5. QED
      BY <2>4
  <1> HIDE DEF T
  <1>5. n \in T
    BY <1>1, <1>3, <1>4, SetInduction
  <1>6. \A j \in 0..n : f[j] \in Nat /\ f[j] <= f[n]
    BY <1>1, <1>5 DEF T
  <1>7. f[n] \in Nat
    BY <1>1, <1>6
  <1>8. QED
    BY <1>2, <1>6, <1>7 DEF n, f

-----------------------------------------------------------------------------
(* What policy_check reads of the words that the host sends.               *)

\* A number that fits does not wrap.
LEMMA SmallMod ==
  ASSUME NEW x \in Nat, NEW n \in Nat, x < n
  PROVE  x % n = x
  <1> DEFINE q == x \div n
             r == x % n
  <1>1. r \in Nat /\ r < n /\ q \in Nat /\ x = n * q + r
    BY DivMod
  <1> HIDE DEF q, r
  <1>2. q = 0
    <2>1. q >= 1 => n * 1 <= n * q /\ n * q \in Nat
      BY <1>1, Monotone
    <2>2. n * 1 = n
      OBVIOUS
    <2>3. QED
      BY <1>1, <2>1, <2>2
  <1>3. n * q = 0
    BY <1>2
  <1>4. QED
    BY <1>1, <1>3 DEF r

\* A number is that of its words.
LEMMA WordsRead ==
  ASSUME NEW v \in Uint64
  PROVE  Words(v)[1] + R * Words(v)[2] = v
  <1> DEFINE q == v \div R
             r == v % R
  <1>1. v \in Nat /\ R \in Nat /\ R > 0
    BY Sizes
  <1>2. r \in Nat /\ q \in Nat /\ v = R * q + r
    BY <1>1, DivMod
  <1>3. Words(v)[1] = r /\ Words(v)[2] = q
    BY DEF Words
  <1> HIDE DEF q, r
  <1>4. R * q \in Nat
    BY <1>1, <1>2
  <1>5. v = r + R * q
    BY <1>2, <1>4
  <1>6. QED
    BY <1>3, <1>5

\* Two sequences in a row, and where their elements are.
IsJoin(w, a, b) == w = a \o b

JoinOf(S, w, a, b) ==
    /\ w \in Seq(S) /\ Len(w) = Len(a) + Len(b)
    /\ \A k \in 1..Len(a) : w[k] = a[k]
    /\ \A k \in 1..Len(b) : w[Len(a) + k] = b[k]

\* The second starts where the first ends.
LEMMA JoinAt ==
  ASSUME NEW S, NEW a \in Seq(S), NEW b \in Seq(S), NEW w, IsJoin(w, a, b)
  PROVE  JoinOf(S, w, a, b)
  <1>1. Len(a) \in Nat /\ Len(b) \in Nat
    OBVIOUS
  <1>2. /\ w \in Seq(S) /\ Len(w) = Len(a) + Len(b)
        /\ \A k \in 1..(Len(a) + Len(b)) :
               w[k] = IF k <= Len(a) THEN a[k] ELSE b[k - Len(a)]
    BY ConcatProperties DEF IsJoin
  <1>3. ASSUME NEW k \in 1..Len(a)
        PROVE  w[k] = a[k]
    <2>1. k \in 1..(Len(a) + Len(b)) /\ k <= Len(a)
      BY <1>1
    <2>2. QED
      BY <1>2, <2>1
  <1>4. ASSUME NEW k \in 1..Len(b)
        PROVE  w[Len(a) + k] = b[k]
    <2>1. /\ Len(a) + k \in 1..(Len(a) + Len(b)) /\ ~(Len(a) + k <= Len(a))
          /\ (Len(a) + k) - Len(a) = k
      BY <1>1
    <2>2. QED
      BY <1>2, <2>1
  <1>5. QED
    BY <1>2, <1>3, <1>4 DEF JoinOf

\* Four sequences in a row.
IsRow(w, a, b, c, d) == w = ((a \o b) \o c) \o d

\* How long they are, and where their elements are.
RowOf(S, w, a, b, c, d) ==
    \A la, lab, labc \in Nat :
        la = Len(a) /\ lab = la + Len(b) /\ labc = lab + Len(c) =>
            /\ w \in Seq(S) /\ Len(w) = labc + Len(d)
            /\ \A k \in 1..la : w[k] = a[k]
            /\ \A k \in 1..Len(b) : w[la + k] = b[k]
            /\ \A k \in 1..Len(c) : w[lab + k] = c[k]
            /\ \A k \in 1..Len(d) : w[labc + k] = d[k]

\* Each starts where the one before it ends.
LEMMA FourInARow ==
  ASSUME NEW S, NEW a \in Seq(S), NEW b \in Seq(S), NEW c \in Seq(S),
         NEW d \in Seq(S), NEW w, IsRow(w, a, b, c, d)
  PROVE  RowOf(S, w, a, b, c, d)
  <1> SUFFICES ASSUME NEW la \in Nat, NEW lab \in Nat, NEW labc \in Nat,
                      la = Len(a), lab = la + Len(b), labc = lab + Len(c)
               PROVE  /\ w \in Seq(S) /\ Len(w) = labc + Len(d)
                      /\ \A k \in 1..la : w[k] = a[k]
                      /\ \A k \in 1..Len(b) : w[la + k] = b[k]
                      /\ \A k \in 1..Len(c) : w[lab + k] = c[k]
                      /\ \A k \in 1..Len(d) : w[labc + k] = d[k]
    BY DEF RowOf
  <1> DEFINE ab == a \o b
             abc == ab \o c
  <1>1. IsJoin(ab, a, b) /\ IsJoin(abc, ab, c) /\ IsJoin(w, abc, d)
    BY DEF IsRow, IsJoin
  <1> HIDE DEF ab, abc
  <1>2. /\ la \in Nat /\ Len(b) \in Nat /\ Len(c) \in Nat /\ Len(d) \in Nat
        /\ lab \in Nat /\ labc \in Nat
    OBVIOUS
  <1>3. /\ ab \in Seq(S) /\ Len(ab) = lab
        /\ \A k \in 1..la : ab[k] = a[k]
        /\ \A k \in 1..Len(b) : ab[la + k] = b[k]
    <2>1. JoinOf(S, ab, a, b)
      BY <1>1, JoinAt, Zenon
    <2>2. QED
      BY <2>1 DEF JoinOf
  <1>4. /\ abc \in Seq(S) /\ Len(abc) = labc
        /\ \A k \in 1..lab : abc[k] = ab[k]
        /\ \A k \in 1..Len(c) : abc[lab + k] = c[k]
    <2>1. JoinOf(S, abc, ab, c)
      BY <1>1, <1>3, JoinAt, Zenon
    <2>2. QED
      BY <1>3, <2>1 DEF JoinOf
  <1>5. /\ w \in Seq(S) /\ Len(w) = labc + Len(d)
        /\ \A k \in 1..labc : w[k] = abc[k]
        /\ \A k \in 1..Len(d) : w[labc + k] = d[k]
    <2>1. JoinOf(S, w, abc, d)
      BY <1>1, <1>4, JoinAt, Zenon
    <2>2. QED
      BY <1>4, <2>1 DEF JoinOf
  <1>6. ASSUME NEW k \in 1..la
        PROVE  w[k] = a[k]
    <2>1. k \in 1..lab /\ k \in 1..labc
      BY <1>2
    <2>2. QED
      BY <1>3, <1>4, <1>5, <2>1
  <1>7. ASSUME NEW k \in 1..Len(b)
        PROVE  w[la + k] = b[k]
    <2>1. la + k \in 1..lab /\ la + k \in 1..labc
      BY <1>2
    <2>2. QED
      BY <1>3, <1>4, <1>5, <2>1
  <1>8. ASSUME NEW k \in 1..Len(c)
        PROVE  w[lab + k] = c[k]
    <2>1. lab + k \in 1..labc
      BY <1>2
    <2>2. QED
      BY <1>4, <1>5, <2>1
  <1>9. QED
    BY <1>5, <1>6, <1>7, <1>8

\* Where the host's encoder puts the items.
LEMMA SliceAt ==
  ASSUME NEW items \in Seq(Uint64)
  PROVE  LET a == append_u64_slice(items)
         IN  /\ a \in Seq(Uint32) /\ Len(a) = 2 * Len(items)
             /\ \A k \in 1..Len(items) :
                    a[2 * k - 1] + R * a[2 * k] = items[k]
  <1> DEFINE a == append_u64_slice(items)
             n == Len(items)
  <1>1. a \in Seq(Uint32)
    BY AppendedSlice
  <1>2. n \in Nat /\ Len(a) = 2 * n
    BY DEF append_u64_slice
  <1>3. ASSUME NEW k \in 1..n
        PROVE  a[2 * k - 1] + R * a[2 * k] = items[k]
    <2>1. /\ 2 * k - 1 \in 1..(2 * n) /\ 2 * k \in 1..(2 * n)
          /\ ((2 * k - 1) + 1) \div 2 = k /\ (2 * k - 1) % 2 = 1
          /\ (2 * k + 1) \div 2 = k /\ (2 * k) % 2 = 0
      BY <1>2
    <2>2. /\ a[2 * k - 1] = Words(items[k])[1]
          /\ a[2 * k] = Words(items[k])[2]
      BY <2>1 DEF append_u64_slice
    <2>3. items[k] \in Uint64
      OBVIOUS
    <2>4. QED
      BY <2>2, <2>3, WordsRead
  <1>4. QED
    BY <1>1, <1>2, <1>3

\* The words of a purchase.
PolicyInput(items, discount, limit) ==
    << Len(items) % R >> \o append_u64_slice(items)
        \o Words(discount) \o Words(limit)

\* Where its numbers are.
LEMMA PolicyInputAt ==
  ASSUME NEW items \in Seq(Uint64), Len(items) < R,
         NEW discount \in Uint64, NEW limit \in Uint64, NEW w,
         w = PolicyInput(items, discount, limit)
  PROVE  LET n == Len(items)
         IN  /\ n \in Nat /\ Len(w) = 2 * n + 5
             /\ w \in Seq(Uint32)
             /\ w[1] = n
             /\ \A k \in 1..n : w[2 * k] + R * w[2 * k + 1] = items[k]
             /\ w[2 * n + 2] + R * w[2 * n + 3] = discount
             /\ w[2 * n + 4] + R * w[2 * n + 5] = limit
  <1> DEFINE n == Len(items)
             a == append_u64_slice(items)
             head == << n % R >>
             d == Words(discount)
             l == Words(limit)
  <1>1. n \in Nat /\ R \in Nat /\ R >= 200 /\ n < R
    BY Sizes
  <1>2. head \in Seq(Uint32) /\ Len(head) = 1 /\ head[1] = n
    <2>1. n % R = n /\ n \in Uint32
      BY <1>1, SmallMod DEF Uint32
    <2>2. QED
      BY <2>1
  <1>3. /\ a \in Seq(Uint32) /\ Len(a) = 2 * n
        /\ \A k \in 1..n : a[2 * k - 1] + R * a[2 * k] = items[k]
    BY SliceAt
  <1>4. \A v \in Uint64 : Words(v)[1] + R * Words(v)[2] = v
    BY WordsRead
  <1>5. /\ d \in Seq(Uint32) /\ Len(d) = 2 /\ d[1] + R * d[2] = discount
        /\ l \in Seq(Uint32) /\ Len(l) = 2 /\ l[1] + R * l[2] = limit
    BY <1>4, TwoWords
  <1>6. IsRow(w, head, a, d, l)
    BY DEF PolicyInput, IsRow
  <1> HIDE DEF head, a, d, l, n
  <1> DEFINE p == 1 + 2 * n
             q == p + 2
  <1>7. p \in Nat /\ q \in Nat /\ 1 = Len(head) /\ p = 1 + Len(a)
        /\ q = p + Len(d)
    BY <1>1, <1>2, <1>3, <1>5
  <1> HIDE DEF p, q
  <1>8. /\ w \in Seq(Uint32) /\ Len(w) = q + 2
        /\ \A k \in 1..1 : w[k] = head[k]
        /\ \A k \in 1..(2 * n) : w[1 + k] = a[k]
        /\ \A k \in 1..2 : w[p + k] = d[k]
        /\ \A k \in 1..2 : w[q + k] = l[k]
    <2>1. RowOf(Uint32, w, head, a, d, l)
      BY <1>2, <1>3, <1>5, <1>6, FourInARow, Zenon
    <2>2. /\ w \in Seq(Uint32) /\ Len(w) = q + Len(l)
          /\ \A k \in 1..1 : w[k] = head[k]
          /\ \A k \in 1..Len(a) : w[1 + k] = a[k]
          /\ \A k \in 1..Len(d) : w[p + k] = d[k]
          /\ \A k \in 1..Len(l) : w[q + k] = l[k]
      BY <1>7, <2>1 DEF RowOf
    <2>3. QED
      BY <1>3, <1>5, <2>2
  <1>9. w[1] = n
    BY <1>2, <1>8
  <1>10. ASSUME NEW k \in 1..n
         PROVE  w[2 * k] + R * w[2 * k + 1] = items[k]
    <2>1. /\ 2 * k - 1 \in 1..(2 * n) /\ 2 * k \in 1..(2 * n)
          /\ 1 + (2 * k - 1) = 2 * k /\ 1 + 2 * k = 2 * k + 1
      BY <1>1
    <2>2. w[2 * k] = a[2 * k - 1] /\ w[2 * k + 1] = a[2 * k]
      BY <1>8, <2>1
    <2>3. QED
      BY <1>3, <2>2
  <1>11. /\ w[2 * n + 2] = d[1] /\ w[2 * n + 3] = d[2]
         /\ w[2 * n + 4] = l[1] /\ w[2 * n + 5] = l[2]
    <2>1. /\ p + 1 = 2 * n + 2 /\ p + 2 = 2 * n + 3
          /\ q + 1 = 2 * n + 4 /\ q + 2 = 2 * n + 5
      BY <1>1 DEF p, q
    <2>2. w[p + 1] = d[1] /\ w[p + 2] = d[2] /\ w[q + 1] = l[1]
          /\ w[q + 2] = l[2]
      BY <1>8
    <2>3. QED
      BY <2>1, <2>2
  <1>12. Len(w) = 2 * n + 5
    BY <1>1, <1>8 DEF p, q
  <1>13. QED
    BY <1>1, <1>5, <1>8, <1>9, <1>10, <1>11, <1>12 DEF n

-----------------------------------------------------------------------------
(* A purchase, as policy_check reads it.                                   *)

\* What follows the first p - 1 elements of a sequence.
IsSuffix(t, s, p) == t = SubSeq(s, p, Len(s))

\* A list of items, a discount and a limit.
IsPurchase(items, discount, limit) ==
    /\ items \in Seq(Uint64) /\ Len(items) < R
    /\ discount \in Uint64 /\ limit \in Uint64

\* What a purchase should come to.
Accepted(items, discount) ==
    /\ Len(items) \in 1..maxPolicyItems
    /\ \A k \in 1..Len(items) : items[k] # 0
    /\ Total(items) < U64 /\ discount <= Total(items)

Committed(items, discount, limit) ==
    << Len(items), IF Total(items) - discount <= limit THEN 1 ELSE 0 >>
        \o Words(Total(items)) \o Words(discount)
        \o Words(Total(items) - discount) \o Words(limit)

\* Where policy_check is in the words of a purchase, and what it makes of
\* them.
Reading(items, discount, limit) ==
    /\ pc = "main" => IsSuffix(stdin, input, 1)
    /\ pc = "items" =>
         /\ itemCount = Len(items)
         /\ IsSuffix(stdin, input, 2 * i + 2)
         /\ sum = Sums(items)[i]
         /\ \A k \in 1..i : items[k] # 0
    /\ pc \in {"main", "items"} => journal = << >>
    /\ pc = "halted" =>
         IF Accepted(items, discount)
         THEN exitCode = 0 /\ journal = Committed(items, discount, limit)
         ELSE exitCode = 1 /\ journal = << >>

\* t is what s has from place p on, element by element.
SuffixOf(S, t, s, p) ==
    /\ t \in Seq(S) /\ Len(t) = Len(s) - p + 1
    /\ \A j \in 1..Len(t) : t[j] = s[p + j - 1]

\* Where its elements are.
LEMMA SuffixAt ==
  ASSUME NEW S, NEW s \in Seq(S), NEW p \in Nat \ {0}, p <= Len(s) + 1,
         NEW t, IsSuffix(t, s, p)
  PROVE  SuffixOf(S, t, s, p)
  <1> DEFINE n == Len(s)
  <1>1. n \in Nat /\ \A j \in p..n : s[j] \in S
    OBVIOUS
  <1>2. t = SubSeq(s, p, n)
    BY DEF IsSuffix
  <1> HIDE DEF n
  <1>3. p <= n + 1
    BY DEF n
  <1>4. p \in Int /\ n \in Int
    BY <1>1
  <1>5. /\ t \in Seq(S)
        /\ Len(t) = IF p <= n THEN n - p + 1 ELSE 0
        /\ \A j \in 1..(n - p + 1) : t[j] = s[p + j - 1]
    BY <1>1, <1>2, <1>3, <1>4
  <1>6. Len(t) = n - p + 1
    BY <1>1, <1>3, <1>5
  <1>7. QED
    BY <1>5, <1>6 DEF n, SuffixOf

\* What follows the first k elements of what follows.
LEMMA SuffixOfSuffix ==
  ASSUME NEW S, NEW s \in Seq(S), NEW p \in Nat \ {0}, NEW k \in Nat,
         p + k <= Len(s) + 1, NEW t, IsSuffix(t, s, p),
         NEW u, IsSuffix(u, t, k + 1)
  PROVE  IsSuffix(u, s, p + k)
  <1> DEFINE n == Len(s)
             m == Len(t)
             q == p + k
             v == SubSeq(s, q, n)
  <1>1. n \in Nat /\ p <= n + 1 /\ q <= n + 1 /\ q \in Nat \ {0}
    OBVIOUS
  <1>2. /\ t \in Seq(S) /\ m = n - p + 1
        /\ \A j \in 1..m : t[j] = s[p + j - 1]
    BY <1>1, SuffixAt DEF SuffixOf
  <1>3. k + 1 \in Nat \ {0} /\ k + 1 <= m + 1
    BY <1>1, <1>2
  <1>4. /\ u \in Seq(S) /\ Len(u) = m - (k + 1) + 1
        /\ \A j \in 1..Len(u) : u[j] = t[(k + 1) + j - 1]
    <2>1. SuffixOf(S, u, t, k + 1)
      BY <1>2, <1>3, SuffixAt
    <2>2. QED
      BY <2>1 DEF SuffixOf
  <1>5. IsSuffix(v, s, q)
    BY DEF IsSuffix
  <1> HIDE DEF v, q
  <1>6. /\ v \in Seq(S) /\ Len(v) = n - q + 1
        /\ \A j \in 1..Len(v) : v[j] = s[q + j - 1]
    BY <1>1, <1>5, SuffixAt DEF SuffixOf
  <1> HIDE DEF n, m
  <1>7. Len(u) = Len(v)
    BY <1>1, <1>2, <1>3, <1>4, <1>6 DEF q
  <1>8. ASSUME NEW j \in 1..Len(u)
        PROVE  u[j] = v[j]
    <2> DEFINE a == (k + 1) + j - 1
    <2>1. a \in 1..m /\ p + a - 1 = q + j - 1
      BY <1>1, <1>2, <1>3, <1>4 DEF q
    <2>2. u[j] = t[a]
      BY <1>4
    <2> HIDE DEF a
    <2>3. t[a] = s[p + a - 1]
      BY <1>2, <2>1
    <2>4. v[j] = s[q + j - 1]
      BY <1>6, <1>7
    <2>5. QED
      BY <2>1, <2>2, <2>3, <2>4
  <1>9. u = v
    BY <1>4, <1>6, <1>7, <1>8, SeqEqual
  <1>10. QED
    BY <1>5, <1>9 DEF q

\* Words read behind the first p - 1 words of the input.
LEMMA ReadAt ==
  ASSUME input \in Seq(Uint32), NEW p \in Nat \ {0},
         IsSuffix(stdin, input, p), p <= Len(input) + 1
  PROVE  /\ \A k \in Nat : p + k <= Len(input) => Word(k + 1) = input[p + k]
         /\ \A k \in Nat : p + k <= Len(input) + 1
                            => IsSuffix(Rest(k), input, p + k)
  <1> DEFINE n == Len(input)
             m == Len(stdin)
  <1>1. n \in Nat
    OBVIOUS
  <1>2. /\ stdin \in Seq(Uint32) /\ m = n - p + 1
        /\ \A j \in 1..m : stdin[j] = input[p + j - 1]
    BY SuffixAt DEF SuffixOf
  <1>3. ASSUME NEW k \in Nat, p + k <= n
        PROVE  Word(k + 1) = input[p + k]
    <2>1. k + 1 \in 1..m /\ k + 1 <= m /\ p + (k + 1) - 1 = p + k
      BY <1>1, <1>2, <1>3
    <2>2. QED
      BY <1>2, <2>1 DEF Word
  <1>4. ASSUME NEW k \in Nat, p + k <= n + 1
        PROVE  IsSuffix(Rest(k), input, p + k)
    <2>1. IsSuffix(Rest(k), stdin, k + 1)
      BY DEF IsSuffix, Rest
    <2>2. QED
      BY <1>4, <2>1, SuffixOfSuffix
  <1>5. QED
    BY <1>3, <1>4

\* None of this changes when the guest takes a step.
LEMMA Rigid ==
  ASSUME NEW CONSTANT items, NEW CONSTANT discount, NEW CONSTANT limit
  PROVE  /\ PolicyInput(items, discount, limit)'
                = PolicyInput(items, discount, limit)
         /\ Sums(items)' = Sums(items)
         /\ Accepted(items, discount)' = Accepted(items, discount)
         /\ Committed(items, discount, limit)'
                = Committed(items, discount, limit)
  <1>1. PolicyInput(items, discount, limit)'
                = PolicyInput(items, discount, limit)
    BY DEF PolicyInput, append_u64_slice, Words
  <1>2. Sums(items)' = Sums(items)
    BY DEF Sums, IsSums
  <1>3. Total(items)' = Total(items)
    BY DEF Total
  <1>4. Accepted(items, discount)' = Accepted(items, discount)
    BY <1>3 DEF Accepted
  <1>5. Committed(items, discount, limit)' = Committed(items, discount, limit)
    BY <1>3 DEF Committed, Words
  <1>6. QED
    BY <1>1, <1>2, <1>4, <1>5

\* The steps of policy_check, on the words of a purchase.
LEMMA ReadCountReads ==
  ASSUME GuestInv, ReadCount, NEW CONSTANT items, NEW CONSTANT discount,
         NEW CONSTANT limit, IsPurchase(items, discount, limit),
         input = PolicyInput(items, discount, limit),
         Reading(items, discount, limit)
  PROVE  Reading(items, discount, limit)'
  <1> DEFINE n == Len(items)
  <1>1. /\ pc = "main" /\ itemCount' = Word(1) /\ stdin' = Rest(1)
        /\ \/ itemCount' \in 1..maxPolicyItems /\ pc' = "items"
           \/ /\ itemCount' \notin 1..maxPolicyItems /\ pc' = "halted"
              /\ exitCode' = 1
        /\ UNCHANGED << journal, i, sum, input >>
    BY DEF ReadCount, Halt, history
  <1>2. /\ n \in Nat /\ Len(input) = 2 * n + 5 /\ input \in Seq(Uint32)
        /\ input[1] = n
    BY PolicyInputAt DEF IsPurchase
  <1>3. IsSuffix(stdin, input, 1) /\ journal = << >>
    BY <1>1 DEF Reading
  <1>4. Word(1) = n /\ IsSuffix(Rest(1), input, 2)
    <2>1. /\ 1 \in Nat \ {0} /\ 0 \in Nat /\ 1 \in Nat /\ 0 + 1 = 1
          /\ 1 + 0 = 1 /\ 1 + 1 = 2 /\ 1 <= Len(input) + 1
          /\ 1 + 0 <= Len(input) /\ 1 + 1 <= Len(input) + 1
      BY <1>2
    <2>2. Word(0 + 1) = input[1 + 0] /\ IsSuffix(Rest(1), input, 1 + 1)
      BY <1>2, <1>3, <2>1, ReadAt
    <2>3. QED
      BY <1>2, <2>1, <2>2
  <1>5. i = 0 /\ sum = 0
    BY <1>1 DEF GuestInv, StartsEmpty
  <1>6. CASE pc' = "items"
    <2>1. itemCount' = n /\ i' = 0 /\ sum' = 0 /\ journal' = << >>
      BY <1>1, <1>3, <1>4, <1>5
    <2>2. IsSuffix(stdin', input', 2 * i' + 2)
      BY <1>1, <1>4, <2>1
    <2>3. Sums(items)' = Sums(items) /\ Sums(items)[0] = 0
      <3>1. items \in Seq(Nat)
        BY Sizes DEF IsPurchase
      <3>2. QED
        BY <3>1, Rigid, SumsAt
    <2>4. QED
      BY <1>6, <2>1, <2>2, <2>3 DEF Reading, IsSuffix
  <1>7. CASE pc' = "halted"
    <2>1. exitCode' = 1 /\ journal' = << >>
      BY <1>1, <1>3, <1>7
    <2>2. ~Accepted(items, discount)
      BY <1>1, <1>4, <1>7 DEF Accepted
    <2>3. ~Accepted(items, discount)'
      BY <2>2, Rigid
    <2>4. QED
      BY <1>7, <2>1, <2>3 DEF Reading
  <1>8. QED
    BY <1>1, <1>6, <1>7

\* The numbers that come next, while policy_check adds.
LEMMA ItemsAhead ==
  ASSUME GuestInv, pc = "items", NEW CONSTANT items, NEW CONSTANT discount,
         NEW CONSTANT limit, IsPurchase(items, discount, limit),
         input = PolicyInput(items, discount, limit),
         Reading(items, discount, limit)
  PROVE  LET n == Len(items)
         IN  /\ n \in 1..maxPolicyItems /\ itemCount = n /\ i \in 0..n
             /\ subtotal = sum /\ sum \in Uint64
             /\ sum = Sums(items)[i]
             /\ i < n => /\ Value(1) = items[i + 1]
                         /\ items[i + 1] \in Uint64
                         /\ IsSuffix(Rest(2), input, 2 * (i + 1) + 2)
                         /\ sum + items[i + 1] = Sums(items)[i + 1]
                         /\ Sums(items)[i + 1] <= Total(items)
                         /\ Total(items) \in Nat
             /\ i = n => /\ Value(1) = discount /\ Value(3) = limit
                         /\ sum = Total(items)
  <1> DEFINE n == Len(items)
             p == 2 * i + 2
  <1>1. /\ n \in Nat /\ Len(input) = 2 * n + 5 /\ input \in Seq(Uint32)
        /\ \A k \in 1..n : input[2 * k] + R * input[2 * k + 1] = items[k]
        /\ input[2 * n + 2] + R * input[2 * n + 3] = discount
        /\ input[2 * n + 4] + R * input[2 * n + 5] = limit
    BY PolicyInputAt DEF IsPurchase
  <1>2. /\ itemCount = n /\ IsSuffix(stdin, input, p)
        /\ sum = Sums(items)[i]
    BY DEF Reading
  <1>3. /\ n \in 1..maxPolicyItems /\ i \in 0..n
        /\ subtotal = sum /\ sum \in Uint64
    BY <1>2 DEF GuestInv, GuestTypeOK, AddsExactly
  <1>4. items \in Seq(Nat) /\ \A k \in 1..n : items[k] \in Uint64
    BY Sizes DEF IsPurchase
  <1>5. /\ \A k \in 0..n : Sums(items)[k] \in Nat
                           /\ Sums(items)[k] <= Total(items)
        /\ \A k \in 1..n : Sums(items)[k] = Sums(items)[k - 1] + items[k]
        /\ Total(items) = Sums(items)[n] /\ Total(items) \in Nat
    BY <1>4, SumsAt, SumsGrow
  <1>6. p \in Nat \ {0} /\ p <= Len(input) + 1 /\ p + 3 <= Len(input)
    BY <1>1, <1>3
  <1> HIDE DEF p
  <1>7. /\ \A k \in Nat : p + k <= Len(input) => Word(k + 1) = input[p + k]
        /\ \A k \in Nat : p + k <= Len(input) + 1
                           => IsSuffix(Rest(k), input, p + k)
    BY <1>1, <1>2, <1>6, ReadAt
  <1>8. /\ Word(1) = input[p] /\ Word(2) = input[p + 1]
        /\ Word(3) = input[p + 2] /\ Word(4) = input[p + 3]
        /\ IsSuffix(Rest(2), input, p + 2)
    <2>1. /\ p + 0 <= Len(input) /\ p + 1 <= Len(input)
          /\ p + 2 <= Len(input) /\ p + 3 <= Len(input)
          /\ p + 2 <= Len(input) + 1 /\ p + 0 = p
      BY <1>1, <1>6
    <2>2. /\ Word(0 + 1) = input[p + 0] /\ Word(1 + 1) = input[p + 1]
          /\ Word(2 + 1) = input[p + 2] /\ Word(3 + 1) = input[p + 3]
          /\ IsSuffix(Rest(2), input, p + 2)
      BY <1>7, <2>1
    <2>3. QED
      BY <2>1, <2>2
  <1>9. /\ Value(1) = input[p] + R * input[p + 1]
        /\ Value(3) = input[p + 2] + R * input[p + 3]
    BY <1>8 DEF Value
  <1>10. ASSUME i < n
         PROVE  /\ Value(1) = items[i + 1]
                /\ items[i + 1] \in Uint64
                /\ IsSuffix(Rest(2), input, 2 * (i + 1) + 2)
                /\ sum + items[i + 1] = Sums(items)[i + 1]
                /\ Sums(items)[i + 1] <= Total(items)
                /\ Total(items) \in Nat
    <2>1. /\ i + 1 \in 1..n /\ i + 1 \in 0..n /\ (i + 1) - 1 = i
          /\ 2 * (i + 1) = p /\ 2 * (i + 1) + 1 = p + 1
          /\ 2 * (i + 1) + 2 = p + 2
      BY <1>3, <1>10 DEF p
    <2> HIDE DEF n
    <2>2. input[2 * (i + 1)] + R * input[2 * (i + 1) + 1] = items[i + 1]
      BY <1>1, <2>1
    <2>3. Value(1) = items[i + 1]
      BY <1>9, <2>1, <2>2
    <2>4. IsSuffix(Rest(2), input, 2 * (i + 1) + 2)
      BY <1>8, <2>1
    <2>5. /\ Sums(items)[i + 1] = Sums(items)[(i + 1) - 1] + items[i + 1]
          /\ Sums(items)[i + 1] <= Total(items) /\ Total(items) \in Nat
      BY <1>5, <2>1
    <2>6. items[i + 1] \in Uint64
      BY <1>4, <2>1
    <2>7. QED
      BY <1>2, <2>1, <2>3, <2>4, <2>5, <2>6
  <1>11. ASSUME i = n
         PROVE  /\ Value(1) = discount /\ Value(3) = limit
                /\ sum = Total(items)
    <2>1. /\ p = 2 * n + 2 /\ p + 1 = 2 * n + 3
          /\ p + 2 = 2 * n + 4 /\ p + 3 = 2 * n + 5
      BY <1>1, <1>11 DEF p
    <2>2. QED
      BY <1>1, <1>2, <1>5, <1>9, <1>11, <2>1
  <1>12. QED
    BY <1>2, <1>3, <1>10, <1>11

LEMMA AddItemReads ==
  ASSUME GuestInv, AddItem, NEW CONSTANT items, NEW CONSTANT discount,
         NEW CONSTANT limit, IsPurchase(items, discount, limit),
         input = PolicyInput(items, discount, limit),
         Reading(items, discount, limit)
  PROVE  Reading(items, discount, limit)'
  <1> DEFINE n == Len(items)
  <1>1. /\ pc = "items" /\ i < itemCount /\ Acceptable(Value(1))
        /\ i' = i + 1 /\ stdin' = Rest(2) /\ sum' = sum + Value(1)
        /\ UNCHANGED << pc, journal, itemCount, input >>
    BY DEF AddItem
  <1>2. /\ itemCount = n /\ i \in 0..n /\ i < n /\ n \in Nat
        /\ Value(1) = items[i + 1]
        /\ IsSuffix(Rest(2), input, 2 * (i + 1) + 2)
        /\ sum + items[i + 1] = Sums(items)[i + 1]
    BY <1>1, ItemsAhead
  <1>3. journal = << >> /\ \A k \in 1..i : items[k] # 0
    BY <1>1 DEF Reading
  <1>4. items[i + 1] # 0
    BY <1>1, <1>2 DEF Acceptable
  <1>5. \A k \in 1..i' : items[k] # 0
    <2>1. ASSUME NEW k \in 1..i'
          PROVE  k \in 1..i \/ k = i + 1
      BY <1>1, <1>2
    <2>2. QED
      BY <1>3, <1>4, <2>1
  <1>6. /\ itemCount' = n /\ IsSuffix(stdin', input', 2 * i' + 2)
        /\ sum' = Sums(items)[i']
    BY <1>1, <1>2
  <1>7. Sums(items)' = Sums(items)
    BY Rigid
  <1>8. pc' = "items" /\ journal' = << >>
    BY <1>1, <1>3
  <1>9. QED
    BY <1>5, <1>6, <1>7, <1>8 DEF Reading, IsSuffix

LEMMA RejectItemReads ==
  ASSUME GuestInv, RejectItem, NEW CONSTANT items, NEW CONSTANT discount,
         NEW CONSTANT limit, IsPurchase(items, discount, limit),
         input = PolicyInput(items, discount, limit),
         Reading(items, discount, limit)
  PROVE  Reading(items, discount, limit)'
  <1> DEFINE n == Len(items)
             item == items[i + 1]
  <1>1. /\ pc = "items" /\ i < itemCount /\ ~Acceptable(Value(1))
        /\ pc' = "halted" /\ exitCode' = 1 /\ journal' = journal
    BY DEF RejectItem, Halt
  <1>2. /\ itemCount = n /\ i \in 0..n /\ i < n /\ n \in Nat
        /\ Value(1) = item /\ item \in Uint64
        /\ sum + item = Sums(items)[i + 1]
        /\ Sums(items)[i + 1] <= Total(items) /\ Total(items) \in Nat
        /\ subtotal = sum /\ sum \in Uint64
    BY <1>1, ItemsAhead
  <1>3. i + 1 \in 1..n
    BY <1>2
  <1> HIDE DEF item
  <1>4. item = 0 \/ ~(sum + item < U64)
    BY <1>1, <1>2, Sizes, WrappedSum DEF Acceptable
  <1>5. ~Accepted(items, discount)
    <2>1. CASE item = 0
      BY <1>3, <2>1 DEF Accepted, item
    <2>2. CASE ~(sum + item < U64)
      <3>1. ~(Total(items) < U64)
        BY <1>2, <2>2, Sizes
      <3>2. QED
        BY <3>1 DEF Accepted
    <2>3. QED
      BY <1>4, <2>1, <2>2
  <1>6. ~Accepted(items, discount)'
    BY <1>5, Rigid
  <1>7. journal' = << >>
    BY <1>1 DEF Reading
  <1>8. QED
    BY <1>1, <1>6, <1>7 DEF Reading

LEMMA DecideReads ==
  ASSUME GuestInv, Decide, NEW CONSTANT items, NEW CONSTANT discount,
         NEW CONSTANT limit, IsPurchase(items, discount, limit),
         input = PolicyInput(items, discount, limit),
         Reading(items, discount, limit)
  PROVE  Reading(items, discount, limit)'
  <1> DEFINE n == Len(items)
             total == Total(items)
  <1>1. pc = "items" /\ i = itemCount /\ pc' = "halted"
    BY DEF Decide, Halt
  <1>2. /\ n \in 1..maxPolicyItems /\ itemCount = n /\ i = n
        /\ subtotal = sum /\ sum \in Uint64 /\ sum = total
        /\ Value(1) = discount /\ Value(3) = limit
    BY <1>1, ItemsAhead
  <1>3. journal = << >> /\ \A k \in 1..n : items[k] # 0
    BY <1>1, <1>2 DEF Reading
  <1>4. \/ discount > subtotal /\ exitCode' = 1 /\ journal' = journal
        \/ /\ discount <= subtotal /\ exitCode' = 0
           /\ journal' = Summary(discount, limit)
    BY <1>2 DEF Decide, Halt
  <1>5. Accepted(items, discount) <=> discount <= subtotal
    BY <1>2, <1>3, Sizes DEF Accepted
  <1>6. Summary(discount, limit) = Committed(items, discount, limit)
    BY <1>2 DEF Summary, Committed, Approved
  <1>7. discount > subtotal <=> ~(discount <= subtotal)
    BY <1>2, Sizes DEF IsPurchase
  <1>8. IF Accepted(items, discount)
        THEN exitCode' = 0 /\ journal' = Committed(items, discount, limit)
        ELSE exitCode' = 1 /\ journal' = << >>
    BY <1>3, <1>4, <1>5, <1>6, <1>7
  <1>9. IF Accepted(items, discount)'
        THEN exitCode' = 0 /\ journal' = Committed(items, discount, limit)'
        ELSE exitCode' = 1 /\ journal' = << >>
    BY <1>8, Rigid
  <1>10. QED
    BY <1>1, <1>9 DEF Reading

\* What policy_check reads of the words of a purchase, sent by whatever host.
PurchaseInv ==
    \A items, discount, limit :
        /\ IsPurchase(items, discount, limit)
        /\ program = "policy_check"
        /\ input = PolicyInput(items, discount, limit)
        => Reading(items, discount, limit)

\* Every step of a guest keeps it, and so does the start of one.
LEMMA PurchaseSteps ==
  ASSUME GuestInv, PurchaseInv, GuestStep
  PROVE  PurchaseInv'
  <1> SUFFICES ASSUME NEW CONSTANT items, NEW CONSTANT discount,
                      NEW CONSTANT limit,
                      IsPurchase(items, discount, limit)',
                      program' = "policy_check",
                      input' = PolicyInput(items, discount, limit)'
               PROVE  Reading(items, discount, limit)'
    BY DEF PurchaseInv
  <1>1. program' = program /\ input' = input
    BY DEF GuestStep, Simple, Other, Multiply, ReadCount, AddItem,
           RejectItem, Decide, history
  <1>2. IsPurchase(items, discount, limit)
    BY DEF IsPurchase, Uint64, U64
  <1>3. input = PolicyInput(items, discount, limit)
    BY <1>1, Rigid
  <1>4. Reading(items, discount, limit)
    BY <1>1, <1>2, <1>3 DEF PurchaseInv
  <1>5. ReadCount \/ AddItem \/ RejectItem \/ Decide
    BY <1>1 DEF GuestStep, Simple, Other, Multiply
  <1>6. QED
    BY <1>2, <1>3, <1>4, <1>5, ReadCountReads, AddItemReads,
       RejectItemReads, DecideReads

\* A guest that starts is at the first word.
LEMMA PurchaseBooted ==
  ASSUME NEW p \in Program, NEW words \in Seq(Uint32), Boot(p, words)
  PROVE  PurchaseInv'
  <1>1. /\ pc' = "main" /\ journal' = << >> /\ stdin' = words
        /\ input' = words
    BY DEF Boot
  <1>2. IsSuffix(words, words, 1)
    <2>1. SubSeq(words, 1, Len(words)) = words
      OBVIOUS
    <2>2. QED
      BY <2>1 DEF IsSuffix
  <1>3. \A items, discount, limit : Reading(items, discount, limit)'
    BY <1>1, <1>2 DEF Reading, IsSuffix
  <1>4. QED
    BY <1>3 DEF PurchaseInv

\* A step of the host alone changes nothing of it.
LEMMA PurchaseKept ==
  ASSUME PurchaseInv, UNCHANGED guest
  PROVE  PurchaseInv'
  <1>1. UNCHANGED << program, pc, stdin, journal, exitCode, itemCount, i,
                     input, sum >>
    BY DEF guest, policy, history
  <1> SUFFICES ASSUME NEW CONSTANT items, NEW CONSTANT discount,
                      NEW CONSTANT limit,
                      IsPurchase(items, discount, limit)',
                      program' = "policy_check",
                      input' = PolicyInput(items, discount, limit)'
               PROVE  Reading(items, discount, limit)'
    BY DEF PurchaseInv
  <1>2. IsPurchase(items, discount, limit)
    BY DEF IsPurchase, Uint64, U64
  <1>3. input = PolicyInput(items, discount, limit)
    BY <1>1, Rigid
  <1>4. Reading(items, discount, limit)
    BY <1>1, <1>2, <1>3 DEF PurchaseInv
  <1>5. QED
    BY <1>1, <1>4, Rigid DEF Reading, IsSuffix

-----------------------------------------------------------------------------
(* The runs of the host.                                                   *)

\* A host that parsed its arguments has the numbers.
Parsed ==
    /\ command \in Commands
    /\ command.policy_discount # Bad /\ command.policy_limit # Bad

\* The guest was started on the command's witness.
Started ==
    /\ Parsed /\ Loads(command)
    /\ program = command.program /\ input = Witness(command)
    /\ pc # "off"

\* What it prints.
Summarised == IF command.policy THEN PolicySummary ELSE journal

\* Where the host is, and what it started and printed.
HostInv ==
    /\ host \in {"idle", "parsed"} => pc = "off"
    /\ host = "parsed" => Parsed
    /\ host = "running" => Started
    /\ host = "succeeded" =>
         /\ Started /\ pc = "halted" /\ Proves /\ Decodes
         /\ printed = Summarised
    /\ host = "failed" =>
         \/ /\ Bad \in {command.policy_discount, command.policy_limit}
            /\ pc = "off"
         \/ Parsed /\ ~Loads(command) /\ pc = "off"
         \/ Started /\ pc = "halted" /\ ~(Proves /\ Decodes)

\* A command line keeps what it means.
LEMMA CommandKept ==
  ASSUME command' = command
  PROVE  /\ Parsed' = Parsed
         /\ Loads(command)' = Loads(command)
         /\ Witness(command)' = Witness(command)
  <1>1. Parsed' = Parsed
    BY DEF Parsed
  <1>2. Bip32Path(command)' = Bip32Path(command)
        /\ Bip32Seed(command)' = Bip32Seed(command)
    BY DEF Bip32Path, Bip32Seed, Or, Child, DEFAULT_BIP32_PATH,
           DEFAULT_BIP32_SEED, BIP86_PURPOSE, HARDENED_KEY_START
  <1>3. Bip32Loads(command)' = Bip32Loads(command)
    BY <1>2 DEF Bip32Loads, PathParses, validate_bip86_path, BIP86_PURPOSE,
                BIP86_PATH_LEN, HARDENED_KEY_START
  <1>4. Loads(command)' = Loads(command)
    BY <1>3 DEF Loads
  <1>5. Bip32Witness(command)' = Bip32Witness(command)
    BY <1>2 DEF Bip32Witness, WORD_SIZE
  <1>6. PolicyWitness(command)' = PolicyWitness(command)
    BY DEF PolicyWitness, append_u64_slice, Words, PolicyItems,
           PolicyDiscount, PolicyLimit, Or, DEFAULT_POLICY_ITEMS,
           DEFAULT_POLICY_DISCOUNT, DEFAULT_POLICY_LIMIT
  <1>7. Witness(command)' = Witness(command)
    BY <1>5, <1>6 DEF Witness, Words
  <1>8. QED
    BY <1>1, <1>4, <1>7

\* So does what it makes of a guest that halted.
LEMMA HaltedKept ==
  ASSUME UNCHANGED << guest, command >>
  PROVE  /\ Started' = Started /\ Proves' = Proves /\ Decodes' = Decodes
         /\ Summarised' = Summarised /\ pc' = pc
  <1>1. UNCHANGED << command, program, input, pc, journal, exitCode >>
    BY DEF guest, history
  <1>2. Started' = Started
    BY <1>1, CommandKept DEF Started
  <1>3. Proves' = Proves
    BY <1>1 DEF Proves
  <1>4. Decodes' = Decodes
    BY <1>1 DEF Decodes, At, WORD_SIZE, POLICY_SUMMARY_LEN
  <1>5. Summarised' = Summarised
    BY <1>1 DEF Summarised, PolicySummary, At
  <1>6. QED
    BY <1>1, <1>2, <1>3, <1>4, <1>5

\* Every step of the host and of its guest keeps HostInv.
LEMMA HostInvNext ==
  ASSUME HostInv, [Next]_vars
  PROVE  HostInv'
  <1>1. CASE ParseArgs
    <2>1. pc' = pc /\ pc = "off"
      BY <1>1 DEF ParseArgs, HostInv, guest
    <2>2. PICK c \in Commands :
            /\ command' = c
            /\ host' = IF Bad \in {c.policy_discount, c.policy_limit}
                       THEN "failed" ELSE "parsed"
      BY <1>1 DEF ParseArgs
    <2>3. CASE Bad \in {c.policy_discount, c.policy_limit}
      BY <2>1, <2>2, <2>3 DEF HostInv
    <2>4. CASE ~(Bad \in {c.policy_discount, c.policy_limit})
      <3>1. host' = "parsed"
        BY <2>2, <2>4
      <3>2. Parsed'
        BY <2>2, <2>4 DEF Parsed
      <3>3. QED
        BY <2>1, <3>1, <3>2 DEF HostInv
    <2>5. QED
      BY <2>3, <2>4
  <1>2. CASE Run
    <2>1. /\ host = "parsed" /\ host' = "running" /\ Loads(command)
          /\ command' = command /\ program' = command.program
          /\ input' = Witness(command) /\ pc' = "main"
      BY <1>2 DEF Run, Boot
    <2>2. Parsed
      BY <2>1 DEF HostInv
    <2>3. Started'
      BY <2>1, <2>2, CommandKept DEF Started
    <2>4. QED
      BY <2>1, <2>3 DEF HostInv
  <1>3. CASE CannotLoad
    <2>1. /\ host = "parsed" /\ host' = "failed" /\ ~Loads(command)
          /\ command' = command /\ pc' = pc
      BY <1>3 DEF CannotLoad, guest
    <2>2. Parsed /\ pc = "off"
      BY <2>1 DEF HostInv
    <2>3. QED
      BY <2>1, <2>2, CommandKept DEF HostInv
  <1>4. CASE Report
    <2>1. /\ host = "running" /\ host' = "succeeded" /\ pc = "halted"
          /\ Proves /\ Decodes /\ printed' = Summarised
          /\ UNCHANGED << guest, command >>
      BY <1>4 DEF Report, Summarised
    <2>2. Started
      BY <2>1 DEF HostInv
    <2>3. QED
      BY <2>1, <2>2, HaltedKept DEF HostInv
  <1>5. CASE CannotReport
    <2>1. /\ host = "running" /\ host' = "failed" /\ pc = "halted"
          /\ ~(Proves /\ Decodes) /\ UNCHANGED << guest, command >>
      BY <1>5 DEF CannotReport
    <2>2. Started
      BY <2>1 DEF HostInv
    <2>3. QED
      BY <2>1, <2>2, HaltedKept DEF HostInv
  <1>6. CASE ClientRuns
    BY <1>6 DEF ClientRuns, HostInv
  <1>7. CASE GuestRuns
    <2>1. /\ UNCHANGED << command, host, printed, program, input >>
          /\ pc \in {"main", "items"} /\ pc' # "off"
      BY <1>7 DEF GuestRuns, GuestStep, Simple, Other, Multiply, ReadCount,
                  AddItem, RejectItem, Decide, Halt, history
    <2>2. host \notin {"idle", "parsed", "succeeded", "failed"}
      BY <2>1 DEF HostInv
    <2>3. host = "running" => Started'
      BY <2>1, CommandKept DEF HostInv, Started
    <2>4. QED
      BY <2>1, <2>2, <2>3 DEF HostInv
  <1>8. CASE UNCHANGED vars
    <2>1. UNCHANGED << guest, command, host, printed >>
      BY <1>8 DEF vars
    <2>2. QED
      BY <2>1, HaltedKept, CommandKept DEF HostInv
  <1>9. QED
    BY <1>1, <1>2, <1>3, <1>4, <1>5, <1>6, <1>7, <1>8 DEF Next

-----------------------------------------------------------------------------
(* The path.                                                               *)

\* The path is the end of the input, and its components did not wrap.
LEMMA PathSent ==
  ASSUME HostInv
  PROVE  PathAsWritten
  <1> SUFFICES ASSUME host = "running", command.bip32,
                      command.path # Nothing
               PROVE  LET path == command.path
                          sent == SubSeq(input, Len(input) - Len(path) + 1,
                                         Len(input))
                          H    == HARDENED_KEY_START
                      IN  /\ \A k \in 1..Len(path) :
                                 sent[k] = Denoted(path[k])
                          /\ command.require_bip86 =>
                               /\ Len(path) = 5
                               /\ Denoted(path[1]) - H = 86
                               /\ Denoted(path[2]) - H >= 0
                               /\ Denoted(path[3]) - H >= 0
                               /\ Denoted(path[4]) \in {0, 1}
                               /\ Denoted(path[5]) < H
    BY DEF PathAsWritten
  <1> DEFINE path == command.path
             sent == SubSeq(input, Len(input) - Len(path) + 1, Len(input))
             H == HARDENED_KEY_START
             seed == Bip32Seed(command)
             head == << IF command.require_bip86 THEN 1 ELSE 0,
                        (WORD_SIZE * Len(seed)) % R >>
             count == << Len(Bip32Path(command)) % R >>
             words == Bip32Path(command)
             n == Len(path)
  <1>1. /\ command \in Command /\ Bip32Loads(command)
        /\ input = Bip32Witness(command)
    BY CommandAssumption
    DEF HostInv, Started, Parsed, Loads, Witness, CommandAssumption
  <1>2. /\ command.seed \notin {Nothing, Bad} /\ PathParses(path)
    BY <1>1 DEF Bip32Loads
  <1>3. path \in Seq(Component) /\ n \in Nat
    <2>1. path \in Seq(Component) \cup {Nothing, Bad}
      BY <1>1 DEF Command
    <2>2. path # Bad
      BY <1>2 DEF PathParses
    <2>3. path \in Seq(Component)
      BY <2>1, <2>2
    <2>4. QED
      BY <2>3
  <1>4. H \in Nat /\ H + H = R /\ R \in Nat /\ R >= 200
    BY Sizes, CommandAssumption DEF HARDENED_KEY_START, CommandAssumption
  <1>5. ASSUME NEW k \in 1..n
        PROVE  /\ words[k] = Denoted(path[k])
               /\ words[k] \in Uint32
    <2>1. /\ path[k].digits \in Uint32
          /\ path[k].hardened \in BOOLEAN
          /\ path[k].hardened => path[k].digits + H < R
      <3>1. path[k] \in Component
        BY <1>3
      <3>2. path[k].hardened => path[k].digits + H < R
        BY <1>2 DEF PathParses
      <3>3. QED
        BY <3>1, <3>2 DEF Component
    <2>2. words[k] = Child(path[k])
      BY DEF Bip32Path
    <2> DEFINE d == path[k].digits
               hard == path[k].hardened
    <2>3. Child(path[k]) = IF hard THEN (d + H) % R ELSE d
      BY DEF Child
    <2>4. Denoted(path[k]) = d + (IF hard THEN H ELSE 0)
      BY DEF Denoted
    <2>5. d \in 0..(R - 1) /\ (hard => d + H < R)
      BY <2>1 DEF Uint32
    <2> HIDE DEF d, hard, H
    <2>6. CASE hard
      <3>1. d + H \in Nat /\ (d + H) % R = d + H
        BY <1>4, <2>5, <2>6, SmallMod
      <3>2. QED
        BY <1>4, <2>2, <2>3, <2>4, <2>5, <2>6, <3>1 DEF Uint32
    <2>7. CASE ~hard
      BY <1>4, <2>2, <2>3, <2>4, <2>5, <2>7 DEF Uint32
    <2>8. QED
      BY <2>6, <2>7
  <1>6. words \in Seq(Uint32) /\ Len(words) = n
    <2>1. words = [k \in 1..n |-> words[k]]
      BY DEF Bip32Path
    <2> HIDE DEF words
    <2>2. QED
      BY <1>3, <1>5, <2>1
  <1>7. seed \in Seq(Uint32) /\ Len(seed) \in Nat
    <2>1. command.seed \in Seq(Uint32) \cup {Nothing, Bad}
      BY <1>1 DEF Command
    <2>2. command.seed \in Seq(Uint32)
      BY <1>2, <2>1
    <2>3. seed = command.seed
      BY <1>2 DEF Bip32Seed, Or
    <2>4. QED
      BY <2>2, <2>3
  <1>8. /\ head \in Seq(Uint32) /\ Len(head) = 2
        /\ count \in Seq(Uint32) /\ Len(count) = 1
    <2> DEFINE size == WORD_SIZE * Len(seed)
               places == Len(words)
    <2>1. /\ size \in Nat /\ places \in Nat
          /\ 0 \in Uint32 /\ 1 \in Uint32
      BY <1>3, <1>6, <1>7, Sizes DEF WORD_SIZE
    <2> HIDE DEF size, places
    <2>2. size % R \in Uint32 /\ places % R \in Uint32
      BY <1>4, <2>1, DivMod DEF Uint32
    <2>3. QED
      BY <2>1, <2>2 DEF size, places
  <1>9. IsRow(input, head, seed, count, words)
    BY <1>1 DEF IsRow, Bip32Witness
  <1> HIDE DEF head, seed, count, words
  <1>10. RowOf(Uint32, input, head, seed, count, words)
    BY <1>6, <1>7, <1>8, <1>9, FourInARow, Zenon
  <1> DEFINE lab == 2 + Len(seed)
             labc == lab + 1
  <1>11. /\ input \in Seq(Uint32) /\ Len(input) = labc + n
         /\ \A k \in 1..n : input[labc + k] = words[k]
    <2> DEFINE la == 2
    <2>1. la \in Nat /\ lab \in Nat /\ labc \in Nat
      BY <1>7
    <2>2. la = Len(head) /\ lab = la + Len(seed) /\ labc = lab + Len(count)
      BY <1>8
    <2> HIDE DEF la, lab, labc
    <2>3. /\ input \in Seq(Uint32) /\ Len(input) = labc + Len(words)
          /\ \A k \in 1..Len(words) : input[labc + k] = words[k]
      BY <2>1, <2>2, <1>10 DEF RowOf
    <2>4. QED
      BY <1>6, <2>3
  <1>12. ASSUME NEW k \in 1..n
         PROVE  sent[k] = words[k]
    <2>1. labc \in Nat
      BY <1>7
    <2> HIDE DEF labc, n
    <2>2. n \in Nat /\ Len(input) = labc + n
      BY <1>3, <1>11 DEF n
    <2>3. /\ Len(input) - n + 1 = labc + 1 /\ labc + 1 \in Nat \ {0}
          /\ labc + 1 <= Len(input) + 1
      BY <2>1, <2>2
    <2>4. IsSuffix(sent, input, labc + 1)
      BY <2>3 DEF IsSuffix, n
    <2> HIDE DEF sent
    <2>5. SuffixOf(Uint32, sent, input, labc + 1)
      BY <1>11, <2>3, <2>4, SuffixAt
    <2>6. /\ Len(sent) = Len(input) - (labc + 1) + 1
          /\ \A j \in 1..Len(sent) : sent[j] = input[(labc + 1) + j - 1]
      BY <2>5 DEF SuffixOf
    <2>7. k \in 1..Len(sent) /\ (labc + 1) + k - 1 = labc + k
      BY <2>1, <2>2, <2>6
    <2>8. QED
      BY <1>11, <2>6, <2>7
  <1>13. \A k \in 1..n : sent[k] = Denoted(path[k])
    BY <1>5, <1>12
  <1>14. ASSUME command.require_bip86
         PROVE  /\ n = 5
                /\ Denoted(path[1]) - H = 86
                /\ Denoted(path[2]) - H >= 0
                /\ Denoted(path[3]) - H >= 0
                /\ Denoted(path[4]) \in {0, 1}
                /\ Denoted(path[5]) < H
    <2>1. /\ Len(words) = 5 /\ words[1] = H + 86
          /\ words[2] >= H /\ words[3] >= H
          /\ words[4] < H /\ words[5] < H /\ words[4] <= 1
      BY <1>1, <1>14 DEF Bip32Loads, validate_bip86_path, BIP86_PATH_LEN,
                         BIP86_PURPOSE, words
    <2>2. n = 5
      BY <1>6, <2>1
    <2>3. \A k \in 1..5 : words[k] = Denoted(path[k]) /\ words[k] \in Nat
      BY <1>4, <1>5, <2>2 DEF Uint32
    <2> HIDE DEF H
    <2>4. /\ words[1] = Denoted(path[1]) /\ words[2] = Denoted(path[2])
          /\ words[3] = Denoted(path[3]) /\ words[4] = Denoted(path[4])
          /\ words[5] = Denoted(path[5]) /\ words[1] \in Nat
          /\ words[2] \in Nat /\ words[3] \in Nat /\ words[4] \in Nat
      BY <2>3
    <2> HIDE DEF path
    <2>5. QED
      BY <1>4, <2>1, <2>2, <2>4
  <1>15. QED
    BY <1>13, <1>14

-----------------------------------------------------------------------------
(* What the host reads in the journal.                                     *)

\* A list of items whose length the host's uint32 holds.
ItemsFit ==
    \A c \in Commands :
        c.policy_items \in Seq(Uint64) => Len(c.policy_items) < R

\* What the host reads in the ten words of a summary.
LEMMA SummaryRead ==
  ASSUME NEW items, NEW discount, NEW limit,
         IsPurchase(items, discount, limit), Accepted(items, discount),
         journal = Committed(items, discount, limit)
  PROVE  LET total == Total(items) - discount
         IN  /\ Len(journal) = 10
             /\ PolicySummary = [item_count |-> Len(items),
                                 approved   |-> total <= limit,
                                 subtotal   |-> total + discount,
                                 discount   |-> discount,
                                 total      |-> total,
                                 limit      |-> limit]
  <1> DEFINE sumOfItems == Total(items)
             total == sumOfItems - discount
             head == << Len(items), IF total <= limit THEN 1 ELSE 0 >>
             s == Words(sumOfItems)
             d == Words(discount)
             t == Words(total)
             l == Words(limit)
             row == ((head \o s) \o d) \o t
  <1>1. /\ sumOfItems \in Uint64 /\ total \in Uint64
        /\ discount \in Uint64 /\ limit \in Uint64
        /\ total + discount = sumOfItems
    <2>1. items \in Seq(Nat)
      BY Sizes DEF IsPurchase
    <2>2. sumOfItems \in Nat /\ sumOfItems < U64 /\ discount <= sumOfItems
      BY <2>1, SumsGrow DEF Accepted
    <2> HIDE DEF sumOfItems
    <2>3. QED
      BY <2>2, Sizes DEF IsPurchase
  <1> HIDE DEF sumOfItems
  <1>2. head \in Seq(Nat) /\ Len(head) = 2
    <2>1. Len(items) \in Nat
      BY DEF IsPurchase
    <2>2. QED
      BY <2>1
  <1>3. /\ head[1] = Len(items)
        /\ head[2] # 0 <=> total <= limit
    OBVIOUS
  <1> HIDE DEF total, head
  <1>4. /\ s \in Seq(Uint32) /\ Len(s) = 2 /\ s[1] + R * s[2] = sumOfItems
        /\ d \in Seq(Uint32) /\ Len(d) = 2 /\ d[1] + R * d[2] = discount
        /\ t \in Seq(Uint32) /\ Len(t) = 2 /\ t[1] + R * t[2] = total
        /\ l \in Seq(Uint32) /\ Len(l) = 2 /\ l[1] + R * l[2] = limit
    BY <1>1, TwoWords, WordsRead
  <1> HIDE DEF s, d, t, l
  <1>5. s \in Seq(Nat) /\ d \in Seq(Nat) /\ t \in Seq(Nat) /\ l \in Seq(Nat)
    <2>1. \A x \in Uint32 : x \in Nat
      BY DEF Uint32
    <2>2. QED
      BY <1>4, <2>1
  <1>6. IsRow(row, head, s, d, t) /\ IsJoin(journal, row, l)
    BY DEF IsRow, IsJoin, Committed, row, s, d, t, l, head, total, sumOfItems
  <1> HIDE DEF row
  <1>7. RowOf(Nat, row, head, s, d, t)
    BY <1>2, <1>5, <1>6, FourInARow, Zenon
  <1>8. /\ row \in Seq(Nat) /\ Len(row) = 8
        /\ \A k \in 1..2 : row[k] = head[k]
        /\ \A k \in 1..2 : row[2 + k] = s[k]
        /\ \A k \in 1..2 : row[4 + k] = d[k]
        /\ \A k \in 1..2 : row[6 + k] = t[k]
    <2> DEFINE la == 2
               lab == 4
               labc == 6
    <2>1. /\ la \in Nat /\ lab \in Nat /\ labc \in Nat
          /\ la = Len(head) /\ lab = la + Len(s) /\ labc = lab + Len(d)
          /\ labc + Len(t) = 8
      BY <1>2, <1>4
    <2> HIDE DEF la, lab, labc
    <2>2. /\ row \in Seq(Nat) /\ Len(row) = labc + Len(t)
          /\ \A k \in 1..la : row[k] = head[k]
          /\ \A k \in 1..Len(s) : row[la + k] = s[k]
          /\ \A k \in 1..Len(d) : row[lab + k] = d[k]
          /\ \A k \in 1..Len(t) : row[labc + k] = t[k]
      BY <2>1, <1>7 DEF RowOf
    <2>3. QED
      BY <1>4, <2>1, <2>2 DEF la, lab, labc
  <1>9. JoinOf(Nat, journal, row, l)
    BY <1>5, <1>6, <1>8, JoinAt, Zenon
  <1>10. /\ Len(journal) = 10
         /\ \A k \in 1..8 : journal[k] = row[k]
         /\ \A k \in 1..2 : journal[8 + k] = l[k]
    BY <1>4, <1>8, <1>9 DEF JoinOf
  <1>11. /\ journal[1] = head[1] /\ journal[2] = head[2]
         /\ journal[3] = s[1] /\ journal[4] = s[2]
         /\ journal[5] = d[1] /\ journal[6] = d[2]
         /\ journal[7] = t[1] /\ journal[8] = t[2]
         /\ journal[9] = l[1] /\ journal[10] = l[2]
    <2>1. row[1] = head[1] /\ row[2] = head[2]
      BY <1>8
    <2>2. row[2 + 1] = s[1] /\ row[2 + 2] = s[2]
      BY <1>8
    <2>3. row[4 + 1] = d[1] /\ row[4 + 2] = d[2]
      BY <1>8
    <2>4. row[6 + 1] = t[1] /\ row[6 + 2] = t[2]
      BY <1>8
    <2>5. journal[8 + 1] = l[1] /\ journal[8 + 2] = l[2]
      BY <1>10
    <2>6. QED
      BY <1>10, <2>1, <2>2, <2>3, <2>4, <2>5
  <1>12. /\ At(3) = sumOfItems /\ At(5) = discount /\ At(7) = total
         /\ At(9) = limit
    BY <1>4, <1>11 DEF At
  <1>13. PolicySummary = [item_count |-> Len(items),
                          approved   |-> total <= limit,
                          subtotal   |-> total + discount,
                          discount   |-> discount,
                          total      |-> total,
                          limit      |-> limit]
    <2>1. (journal[2] # 0) = (total <= limit)
      BY <1>3, <1>11
    <2>2. QED
      BY <1>1, <1>3, <1>11, <1>12, <2>1 DEF PolicySummary
  <1>14. QED
    BY <1>10, <1>13 DEF total, sumOfItems

\* The options that a witness is made of.
LEMMA PurchaseOfCommand ==
  ASSUME ItemsFit, NEW c \in Commands,
         Bad \notin {c.policy_items, c.policy_discount, c.policy_limit}
  PROVE  /\ IsPurchase(PolicyItems(c), PolicyDiscount(c), PolicyLimit(c))
         /\ PolicyWitness(c) = PolicyInput(PolicyItems(c), PolicyDiscount(c),
                                           PolicyLimit(c))
         /\ PolicyAccepts(c) <=> Accepted(PolicyItems(c), PolicyDiscount(c))
         /\ c.policy_items = << >> => Len(PolicyItems(c)) = 0
  <1>1. /\ c.policy_items \in Seq(Uint64) \cup {Nothing}
        /\ c.policy_discount \in Uint64 \cup {Nothing}
        /\ c.policy_limit \in Uint64 \cup {Nothing}
    <2>1. c \in Command
      BY CommandAssumption DEF CommandAssumption
    <2>2. QED
      BY <2>1 DEF Command
  <1>2. PolicyDiscount(c) \in Uint64 /\ PolicyLimit(c) \in Uint64
    <2>1. c \in Command
      BY CommandAssumption DEF CommandAssumption
    <2>2. QED
      BY <2>1, OptionsType
  <1>3. PolicyItems(c) \in Seq(Uint64) /\ Len(PolicyItems(c)) < R
    <2>1. CASE c.policy_items = Nothing
      <3>1. Len(PolicyItems(c)) = 3
        BY <2>1 DEF PolicyItems, Or, DEFAULT_POLICY_ITEMS
      <3>2. PolicyItems(c) \in Seq(Uint64)
        <4>1. c \in Command
          BY CommandAssumption DEF CommandAssumption
        <4>2. QED
          BY <4>1, OptionsType
      <3>3. QED
        BY <3>1, <3>2, Sizes
    <2>2. CASE c.policy_items # Nothing
      BY <1>1, <2>2 DEF PolicyItems, Or, ItemsFit
    <2>3. QED
      BY <2>1, <2>2
  <1>4. IsPurchase(PolicyItems(c), PolicyDiscount(c), PolicyLimit(c))
    BY <1>2, <1>3 DEF IsPurchase
  <1>5. PolicyWitness(c) = PolicyInput(PolicyItems(c), PolicyDiscount(c),
                                       PolicyLimit(c))
    BY DEF PolicyWitness, PolicyInput
  <1>6. PolicyAccepts(c) <=> Accepted(PolicyItems(c), PolicyDiscount(c))
    BY DEF PolicyAccepts, Accepted
  <1>7. ASSUME c.policy_items = << >>
        PROVE  Len(PolicyItems(c)) = 0
    <2>1. << >> # Nothing
      <3>1. << >> \in Seq(Uint64)
        OBVIOUS
      <3>2. QED
        BY <3>1, CommandAssumption DEF CommandAssumption
    <2>2. PolicyItems(c) = << >>
      BY <1>7, <2>1 DEF PolicyItems, Or
    <2>3. QED
      BY <2>2
  <1>8. QED
    BY <1>4, <1>5, <1>6, <1>7

\* What the invariants say of a run of policy_check.
LEMMA PolicyRunRead ==
  ASSUME ItemsFit, PurchaseInv, HostInv
  PROVE  PolicyRunExact
  <1> DEFINE c == command
             items == PolicyItems(c)
             discount == PolicyDiscount(c)
             limit == PolicyLimit(c)
             total == Total(items) - discount
             summary == [item_count |-> Len(items),
                         approved   |-> total <= limit,
                         subtotal   |-> total + discount,
                         discount   |-> discount,
                         total      |-> total,
                         limit      |-> limit]
  <1> SUFFICES ASSUME host \in {"succeeded", "failed"},
                      c.program = "policy_check", c.policy, ~c.bip32,
                      Bad \notin {c.policy_items, c.policy_discount,
                                  c.policy_limit}
               PROVE  /\ (host = "succeeded") <=> PolicyAccepts(c)
                      /\ host = "succeeded" => printed = summary
    BY DEF PolicyRunExact
  <1>1. Parsed
    BY DEF HostInv, Started
  <1>2. /\ IsPurchase(items, discount, limit)
        /\ PolicyWitness(c) = PolicyInput(items, discount, limit)
        /\ PolicyAccepts(c) <=> Accepted(items, discount)
        /\ c.policy_items = << >> => Len(items) = 0
    BY <1>1, PurchaseOfCommand DEF Parsed
  <1> HIDE DEF items, discount, limit
  <1>3. CASE ~Loads(c) /\ host = "failed"
    <2>1. c.policy_items = << >>
      BY <1>3 DEF Loads
    <2>2. ~Accepted(items, discount)
      BY <1>2, <2>1 DEF Accepted
    <2>3. QED
      BY <1>2, <1>3, <2>2
  <1>4. CASE Started /\ pc = "halted"
    <2>1. program = "policy_check" /\ input = PolicyInput(items, discount, limit)
      BY <1>2, <1>4 DEF Started, Witness
    <2>2. Reading(items, discount, limit)
      BY <1>2, <2>1 DEF PurchaseInv
    <2>3. CASE Accepted(items, discount)
      <3>1. exitCode = 0 /\ journal = Committed(items, discount, limit)
        BY <1>4, <2>2, <2>3 DEF Reading
      <3>2. Len(journal) = 10 /\ PolicySummary = summary
        BY <1>2, <2>3, <3>1, SummaryRead
      <3>3. Proves /\ Decodes
        BY <3>1, <3>2 DEF Proves, Decodes, WORD_SIZE, POLICY_SUMMARY_LEN
      <3>4. host = "succeeded"
        BY <1>4, <3>3 DEF HostInv, Started
      <3>5. printed = PolicySummary
        BY <3>4 DEF HostInv, Summarised
      <3>6. QED
        BY <1>2, <2>3, <3>2, <3>4, <3>5
    <2>4. CASE ~Accepted(items, discount)
      <3>1. journal = << >>
        BY <1>4, <2>2, <2>4 DEF Reading
      <3>2. ~Decodes
        BY <3>1 DEF Decodes, WORD_SIZE, POLICY_SUMMARY_LEN
      <3>3. host # "succeeded"
        BY <3>2 DEF HostInv
      <3>4. QED
        BY <1>2, <2>4, <3>3
    <2>5. QED
      BY <2>3, <2>4
  <1>5. QED
    BY <1>3, <1>4 DEF HostInv

-----------------------------------------------------------------------------
(* The theorems.                                                           *)

\* The invariants hold at the start,
LEMMA InitInv ==
  Init => GuestInv /\ HostInv /\ PurchaseInv
  <1>1. 0 \in Uint32 /\ 0 \in Uint64
    BY Sizes
  <1>2. << >> \in Seq(Uint32) /\ << 0, 0 >> \in Uint64 \X Uint64
    BY <1>1
  <1>3. Off => GuestTypeOK
    <2> SUFFICES ASSUME Off PROVE GuestTypeOK
      OBVIOUS
    <2>1. /\ program \in Program
          /\ pc \in {"off", "main", "items", "halted"}
      BY DEF Off, Program
    <2>2. stdin \in Seq(Uint32) /\ input \in Seq(Uint32)
          /\ journal \in Seq(Uint32) /\ operands \in Uint64 \X Uint64
      BY <1>2 DEF Off
    <2>3. /\ exitCode \in {0, 1} /\ itemCount \in Uint32 /\ i \in Nat
          /\ subtotal \in Uint64 /\ sum \in Nat
      BY <1>1 DEF Off
    <2>4. zero \in BOOLEAN
      BY DEF Off
    <2>5. QED
      BY <2>1, <2>2, <2>3, <2>4 DEF GuestTypeOK
  <1>4. Init => GuestInv
    BY <1>3 DEF Init, Off, GuestInv, StartsEmpty, AddsExactly, PolicyExact,
                ProductExact
  <1>5. Init => HostInv
    BY DEF Init, Off, HostInv
  <1>6. Init => PurchaseInv
    BY DEF Init, Off, PurchaseInv
  <1>7. QED
    BY <1>4, <1>5, <1>6

\* and every step keeps them.
LEMMA NextInv ==
  ASSUME GuestInv, HostInv, PurchaseInv, [Next]_vars
  PROVE  GuestInv' /\ HostInv' /\ PurchaseInv'
  <1>1. HostInv'
    BY HostInvNext
  <1>2. CASE UNCHANGED guest
    BY <1>1, <1>2, Unchanged, PurchaseKept
  <1>3. CASE Run
    <2>1. command \in Command /\ command.policy_discount # Bad
          /\ command.policy_limit # Bad
      BY <1>3, CommandAssumption DEF Run, HostInv, Parsed, CommandAssumption
    <2>2. Witness(command) \in Seq(Uint32)
      BY <1>3, <2>1, WitnessType DEF Run
    <2>3. command.program \in Program
      BY <2>1 DEF Command
    <2>4. Boot(command.program, Witness(command))
      BY <1>3 DEF Run
    <2>5. QED
      BY <1>1, <2>2, <2>3, <2>4, Booted, PurchaseBooted
  <1>4. CASE ClientRuns
    <2>1. Inputs \subseteq Seq(Uint32)
      BY CommandAssumption DEF CommandAssumption
    <2>2. PICK p \in Program, words \in Inputs : Boot(p, words)
      BY <1>4 DEF ClientRuns
    <2>3. QED
      BY <1>1, <2>1, <2>2, Booted, PurchaseBooted
  <1>5. CASE GuestRuns
    BY <1>1, <1>5, GuestSteps, PurchaseSteps DEF GuestRuns
  <1>6. QED
    BY <1>2, <1>3, <1>4, <1>5
    DEF Next, ParseArgs, CannotLoad, Report, CannotReport, vars

\* The guests compute exactly; the host runs the guest that its command
\* names on the words that its options stand for; and policy_check, on the
\* words of a purchase, is at the item that it counts.  Together they are
\* inductive.
THEOREM Invariance == Spec => [](GuestInv /\ HostInv /\ PurchaseInv)
  <1>1. Init => GuestInv /\ HostInv /\ PurchaseInv
    BY InitInv
  <1>2. GuestInv /\ HostInv /\ PurchaseInv /\ [Next]_vars
            => GuestInv' /\ HostInv' /\ PurchaseInv'
    BY NextInv
  <1>3. QED
    BY <1>1, <1>2, PTL DEF Spec

\* At every width of a word and on every input, policy_check's verdict and
\* summary are those of exact arithmetic: the comparison that follows each
\* wrapping addition misses no overflow and reports no false one.
THEOREM PolicyIsExact == Spec => []PolicyExact
  <1>1. GuestInv => PolicyExact
    BY DEF GuestInv
  <1>2. QED
    BY <1>1, Invariance, PTL

\* At every width, multiply commits a product of two proper factors, and
\* none that wrapped.
THEOREM ProductIsExact == Spec => []ProductExact
  <1>1. GuestInv => ProductExact
    BY DEF GuestInv
  <1>2. QED
    BY <1>1, Invariance, PTL

\* Every guest that derives a key is sent the path of its command line, at
\* the end of its input, whatever seed is before it: no component wrapped,
\* and the BIP86 path if the command asks for one.
THEOREM PathIsAsWritten == Spec => []PathAsWritten
  <1>1. HostInv => PathAsWritten
    BY PathSent
  <1>2. QED
    BY <1>1, Invariance, PTL

\* Every run of policy_check on a command line of fewer than R items (2^32
\* in the code, beyond which the count that the host sends wraps): it
\* succeeds just if the purchase is one that the policy lets through, and
\* prints the exact sums, whatever the amounts and the mode.
THEOREM PolicyRunsAreExact ==
  ASSUME ItemsFit
  PROVE  Spec => []PolicyRunExact
  <1>1. HostInv /\ PurchaseInv => PolicyRunExact
    BY PolicyRunRead
  <1>2. QED
    BY <1>1, Invariance, PTL

=============================================================================
