---------------------------- MODULE ExampleGuests ----------------------------
(***************************************************************************)
(* The sample guests simple, multiply and policy_check, one at a time in   *)
(* the zkVM, over the stream of 32-bit words their host sends and the      *)
(* words they commit.                                                      *)
(*                                                                         *)
(* A uint32 has R values: 2^32 in the code; TLC takes fewer.  A uint64 is  *)
(* two words, the low one first, for the guest as for its host, and the    *)
(* guest's arithmetic on it wraps.                                         *)
(***************************************************************************)
EXTENDS Integers, Sequences

CONSTANTS
    R,            \* the number of values of a uint32
    OtherJournals \* what a guest from elsewhere may commit

ASSUME WordAssumption == R \in Nat /\ R >= 2

ASSUME OtherAssumption == OtherJournals \subseteq Seq(0..(R - 1))

maxPolicyItems == 16

Uint32 == 0..(R - 1)
U64    == R * R
Uint64 == 0..(U64 - 1)

Program == {"simple", "multiply", "policy_check", "other"}

VARIABLES
    program,
    pc,        \* "off", "main", "items", "halted"
    stdin,     \* the words not read yet
    journal,   \* the words committed
    exitCode,
    itemCount, i, subtotal,  \* policy_check's
    \* History.
    input,     \* all words the host sent
    sum,       \* of the items read, exactly
    zero,      \* was one of them 0?
    operands   \* the two values read last: discount and limit, or a and b

policy == << itemCount, i, subtotal >>
history == << input, sum, zero, operands >>
guest == << program, pc, stdin, journal, exitCode, policy, history >>

Off ==
    /\ program = "simple" /\ pc = "off"
    /\ stdin = << >> /\ journal = << >> /\ exitCode = 0
    /\ itemCount = 0 /\ i = 0 /\ subtotal = 0
    /\ input = << >> /\ sum = 0 /\ zero = FALSE /\ operands = << 0, 0 >>

\* The host starts a guest on its input.
Boot(p, words) ==
    /\ program' = p /\ pc' = "main"
    /\ stdin' = words /\ journal' = << >> /\ exitCode' = 0
    /\ itemCount' = 0 /\ i' = 0 /\ subtotal' = 0
    /\ input' = words /\ sum' = 0 /\ zero' = FALSE
    /\ operands' = << 0, 0 >>

(* ReadValue and CommitValue. *)

\* Past the end, a variable keeps the zero it was declared with.
Word(k) == IF k <= Len(stdin) THEN stdin[k] ELSE 0

Value(k) == Word(k) + R * Word(k + 1)

Rest(k) == SubSeq(stdin, k + 1, Len(stdin))

Words(value) == << value % R, value \div R >>

Halt(code) == pc' = "halted" /\ exitCode' = code

-----------------------------------------------------------------------------
(* simple, and a guest from elsewhere.                                     *)

Simple ==
    /\ program = "simple" /\ pc = "main"
    /\ Halt(0)
    /\ UNCHANGED << program, stdin, journal, policy, history >>

Other ==
    /\ program = "other" /\ pc = "main"
    /\ journal' \in OtherJournals
    /\ \E code \in {0, 1} : Halt(code)
    /\ UNCHANGED << program, stdin, policy, history >>

-----------------------------------------------------------------------------
(* multiply                                                                *)

\* (mutant: the guard looks for a product that shrank)
Overflows_Shrinks(a, b) == (a * b) % U64 < a

\* product/a != b
Overflows(a, b) == ((a * b) % U64) \div a # b

\* Zero and trivial factors are refused.
Multiplies(a, b) == {a, b} \cap {0, 1} = {} /\ ~Overflows(a, b)

Multiply ==
    LET a == Value(1)
        b == Value(3)
    IN  /\ program = "multiply" /\ pc = "main"
        /\ operands' = << a, b >>
        /\ stdin' = Rest(4)
        /\ \/ /\ ~Multiplies(a, b)
              /\ Halt(1)
              /\ UNCHANGED journal
           \/ /\ Multiplies(a, b)
              /\ journal' = Words((a * b) % U64)
              /\ Halt(0)
        /\ UNCHANGED << program, policy, input, sum, zero >>

-----------------------------------------------------------------------------
(* policy_check                                                            *)

ReadCount ==
    /\ program = "policy_check" /\ pc = "main"
    /\ itemCount' = Word(1)
    /\ stdin' = Rest(1)
    /\ \/ /\ itemCount' \in 1..maxPolicyItems
          /\ pc' = "items"
          /\ UNCHANGED exitCode
       \/ /\ itemCount' \notin 1..maxPolicyItems
          /\ Halt(1)
    /\ UNCHANGED << program, journal, i, subtotal, history >>

\* (mutant: the sum is not compared with what it was)
Acceptable_Unchecked(item) == item # 0

\* Neither zero nor too much: nextSubtotal < subtotal tells.
Acceptable(item) == item # 0 /\ (subtotal + item) % U64 >= subtotal

AddItem ==
    /\ program = "policy_check" /\ pc = "items" /\ i < itemCount
    /\ Acceptable(Value(1))
    /\ subtotal' = (subtotal + Value(1)) % U64
    /\ i' = i + 1
    /\ stdin' = Rest(2)
    /\ sum' = sum + Value(1)
    /\ UNCHANGED << program, pc, journal, exitCode, itemCount, input, zero,
                    operands >>

RejectItem ==
    /\ program = "policy_check" /\ pc = "items" /\ i < itemCount
    /\ ~Acceptable(Value(1))
    /\ stdin' = Rest(2)
    /\ sum' = sum + Value(1)
    /\ zero' = (Value(1) = 0)
    /\ Halt(1)
    /\ UNCHANGED << program, journal, policy, input, operands >>

\* (mutant: the limit itself is too much)
Approved_Below(total, limit) == IF total < limit THEN 1 ELSE 0

Approved(total, limit) == IF total <= limit THEN 1 ELSE 0

\* The six commits.
Summary(discount, limit) ==
    << itemCount, Approved(subtotal - discount, limit) >>
        \o Words(subtotal) \o Words(discount)
        \o Words(subtotal - discount) \o Words(limit)

Decide ==
    LET discount == Value(1)
        limit    == Value(3)
    IN  /\ program = "policy_check" /\ pc = "items" /\ i = itemCount
        /\ operands' = << discount, limit >>
        /\ stdin' = Rest(4)
        /\ \/ /\ discount > subtotal
              /\ Halt(1)
              /\ UNCHANGED journal
           \/ /\ discount <= subtotal
              /\ journal' = Summary(discount, limit)
              /\ Halt(0)
        /\ UNCHANGED << program, policy, input, sum, zero >>

GuestStep ==
    Simple \/ Other \/ Multiply \/ ReadCount \/ AddItem \/ RejectItem \/ Decide

-----------------------------------------------------------------------------
(* Properties.                                                             *)

GuestTypeOK ==
    /\ program \in Program
    /\ pc \in {"off", "main", "items", "halted"}
    /\ stdin \in Seq(Uint32) /\ input \in Seq(Uint32)
    /\ journal \in Seq(Uint32)
    /\ exitCode \in {0, 1}
    /\ itemCount \in Uint32 /\ i \in Nat /\ subtotal \in Uint64
    /\ sum \in Nat /\ zero \in BOOLEAN
    /\ operands \in Uint64 \X Uint64

\* main starts with nothing added, whichever guest it is.
StartsEmpty ==
    pc = "main" => i = 0 /\ subtotal = 0 /\ sum = 0 /\ ~zero /\ exitCode = 0

\* While policy_check adds, nothing was lost.
AddsExactly ==
    pc = "items" =>
        /\ program = "policy_check"
        /\ itemCount \in 1..maxPolicyItems /\ i \in 0..itemCount
        /\ subtotal = sum /\ ~zero
        /\ exitCode = 0

\* policy_check's verdict and summary are those of exact arithmetic: it
\* halts with 1 just if the count is out of bounds, an item is 0, the sum
\* does not fit 64 bits, or the discount exceeds it; nothing else that the
\* wrapping sums do shows in the journal.
PolicyExact ==
    program = "policy_check" /\ pc = "halted" =>
        LET discount == operands[1]
            limit    == operands[2]
            accepted == /\ itemCount \in 1..maxPolicyItems /\ ~zero
                        /\ sum < U64 /\ discount <= sum
        IN  /\ (exitCode = 0) <=> accepted
            /\ accepted =>
                 /\ i = itemCount
                 /\ journal =
                        << itemCount, IF sum <= limit + discount
                                      THEN 1 ELSE 0 >>
                            \o Words(sum) \o Words(discount)
                            \o Words(sum - discount) \o Words(limit)

\* multiply proves a product of two proper factors, not a product modulo
\* 2^64, and refuses no such product that fits.
ProductExact ==
    program = "multiply" /\ pc = "halted" =>
        LET a == operands[1]
            b == operands[2]
        IN  /\ (exitCode = 0) <=> a > 1 /\ b > 1 /\ a * b < U64
            /\ exitCode = 0 => journal = Words(a * b)

\* The inductive invariant.
GuestInv ==
    GuestTypeOK /\ StartsEmpty /\ AddsExactly /\ PolicyExact /\ ProductExact

=============================================================================
