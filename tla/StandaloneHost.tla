--------------------------- MODULE StandaloneHost ---------------------------
(***************************************************************************)
(* go-guest-host, the reference command line: it chooses a witness by the  *)
(* guest's path, encodes it, runs the guest and decodes the journal.  The  *)
(* guest at a path need not be the one its name promises.                  *)
(*                                                                         *)
(* Applications of the Go host package run the same guests; they send      *)
(* words of their own.  One guest runs at a time.                          *)
(***************************************************************************)
EXTENDS ExampleGuests

CONSTANTS
    Nothing, \* an option that was not given
    Bad,     \* a value that does not parse
    Commands, \* command lines the host is started with
    Inputs   \* what applications send

HARDENED_KEY_START == R \div 2
BIP86_PURPOSE      == HARDENED_KEY_START + 86
BIP86_PATH_LEN     == 5
POLICY_SUMMARY_LEN == 40
WORD_SIZE          == 4

DEFAULT_POLICY_ITEMS    == << 120, 45, 80 >>
DEFAULT_POLICY_DISCOUNT == 20
DEFAULT_POLICY_LIMIT    == 250

DEFAULT_BIP32_SEED == << 3, 2, 1, 0 >>
DEFAULT_BIP32_PATH ==
    << BIP86_PURPOSE, HARDENED_KEY_START, HARDENED_KEY_START, 0, 0 >>

\* A component of a path as it is written: digits, and ' behind them.
Component == [digits : Uint32, hardened : BOOLEAN]

\* A parsed command line.  A seed is whole words.
Command ==
    [program : Program, \* the guest the path leads to
     bip32 : BOOLEAN, policy : BOOLEAN, \* what substrings the path has
     raw_journal : BOOLEAN, execute_only : BOOLEAN,
     use_test_vector : BOOLEAN, require_bip86 : BOOLEAN,
     seed : Seq(Uint32) \cup {Nothing, Bad},
     path : Seq(Component) \cup {Nothing, Bad},
     policy_items : Seq(Uint64) \cup {Nothing, Bad},
     policy_discount : Uint64 \cup {Nothing, Bad},
     policy_limit : Uint64 \cup {Nothing, Bad}]

ASSUME CommandAssumption ==
    /\ R % 2 = 0 /\ R >= 200
    /\ Commands \subseteq Command
    /\ Inputs \subseteq Seq(Uint32)
    /\ Nothing # Bad
    /\ {Nothing, Bad} \cap (Seq(Uint32) \cup Seq(Component) \cup Seq(Uint64)
                            \cup Uint64) = {}

VARIABLES
    command,
    host,    \* "idle", "parsed", "running", "client", "succeeded", "failed"
    printed  \* what it decoded from the journal

vars == << guest, command, host, printed >>

Init ==
    /\ Off
    /\ command = Nothing
    /\ host = "idle"
    /\ printed = Nothing

-----------------------------------------------------------------------------
(* The witnesses.                                                          *)

Or(option, default) == IF option = Nothing THEN default ELSE option

append_u64_slice(values) ==
    [k \in 1..(2 * Len(values)) |->
        Words(values[(k + 1) \div 2])[IF k % 2 = 1 THEN 1 ELSE 2]]

\* load_policy_witness.
PolicyItems(c) == Or(c.policy_items, DEFAULT_POLICY_ITEMS)
PolicyDiscount(c) == Or(c.policy_discount, DEFAULT_POLICY_DISCOUNT)
PolicyLimit(c) == Or(c.policy_limit, DEFAULT_POLICY_LIMIT)

\* (mutant: the limit goes first)
PolicyWitness_Swapped(c) ==
    << Len(PolicyItems(c)) % R >> \o append_u64_slice(PolicyItems(c))
        \o Words(PolicyLimit(c)) \o Words(PolicyDiscount(c))

PolicyWitness(c) ==
    << Len(PolicyItems(c)) % R >> \o append_u64_slice(PolicyItems(c))
        \o Words(PolicyDiscount(c)) \o Words(PolicyLimit(c))

\* parse_bip32_path and checked_add.  (mutant: the addition wraps)
PathParses_Wraps(path) == path # Bad

PathParses(path) ==
    /\ path # Bad
    /\ \A k \in 1..Len(path) :
           path[k].hardened => path[k].digits + HARDENED_KEY_START < R

Child(component) ==
    IF component.hardened
    THEN (component.digits + HARDENED_KEY_START) % R ELSE component.digits

Bip32Path(c) ==
    IF c.path = Nothing THEN DEFAULT_BIP32_PATH
    ELSE [k \in 1..Len(c.path) |-> Child(c.path[k])]

validate_bip86_path(path) ==
    /\ Len(path) = BIP86_PATH_LEN
    /\ path[1] = BIP86_PURPOSE
    /\ path[2] >= HARDENED_KEY_START /\ path[3] >= HARDENED_KEY_START
    /\ path[4] < HARDENED_KEY_START /\ path[5] < HARDENED_KEY_START
    /\ path[4] <= 1

Bip32Seed(c) == Or(c.seed, DEFAULT_BIP32_SEED)

Bip32Witness(c) ==
    << IF c.require_bip86 THEN 1 ELSE 0, (WORD_SIZE * Len(Bip32Seed(c))) % R >>
        \o Bip32Seed(c) \o << Len(Bip32Path(c)) % R >> \o Bip32Path(c)

\* load_bip32_witness: a seed and a path, or the test vector.
Bip32Loads(c) ==
    /\ c.raw_journal
    /\ \/ c.seed = Nothing /\ c.path = Nothing /\ c.use_test_vector
       \/ /\ c.seed \notin {Nothing, Bad} /\ c.path # Nothing
          /\ ~c.use_test_vector
          /\ PathParses(c.path)
    /\ c.require_bip86 => validate_bip86_path(Bip32Path(c))

\* run: the first of the substrings decides.
Loads(c) ==
    IF c.bip32 THEN Bip32Loads(c)
    ELSE c.policy => c.policy_items \notin {Bad, << >>}

Witness(c) ==
    IF c.bip32 THEN Bip32Witness(c)
    ELSE IF c.policy THEN PolicyWitness(c)
    ELSE IF c.raw_journal THEN << >>
    ELSE Words(17) \o Words(23)

-----------------------------------------------------------------------------
(* The run.                                                                *)

\* The loop over the arguments parses numbers at once.
ParseArgs ==
    /\ host = "idle"
    /\ \E c \in Commands :
        /\ command' = c
        /\ host' = IF Bad \in {c.policy_discount, c.policy_limit}
                   THEN "failed" ELSE "parsed"
    /\ UNCHANGED << guest, printed >>

Run ==
    /\ host = "parsed" /\ Loads(command)
    /\ Boot(command.program, Witness(command))
    /\ host' = "running"
    /\ UNCHANGED << command, printed >>

\* An assertion, an expect or a panic! ends the host's thread.
CannotLoad ==
    /\ host = "parsed" /\ ~Loads(command)
    /\ host' = "failed"
    /\ UNCHANGED << guest, command, printed >>

At(k) == journal[k] + R * journal[k + 1]

\* print_policy_summary, of a journal of the right length.
PolicySummary ==
    [item_count |-> journal[1], approved |-> journal[2] # 0,
     subtotal |-> At(3), discount |-> At(5), total |-> At(7),
     limit |-> At(9)]

\* host_prove verifies its receipt: no success for another exit code.
Proves == command.execute_only \/ exitCode = 0

\* What the mode and the path ask of the journal.
Decodes ==
    IF command.policy THEN WORD_SIZE * Len(journal) = POLICY_SUMMARY_LEN
    ELSE command.raw_journal \/ /\ ~command.execute_only
                                /\ Len(journal) >= 2 /\ At(1) = 17 * 23

Report ==
    /\ host = "running" /\ pc = "halted"
    /\ Proves /\ Decodes
    /\ host' = "succeeded"
    /\ printed' = IF command.policy THEN PolicySummary ELSE journal
    /\ UNCHANGED << guest, command >>

CannotReport ==
    /\ host = "running" /\ pc = "halted"
    /\ ~(Proves /\ Decodes)
    /\ host' = "failed"
    /\ UNCHANGED << guest, command, printed >>

\* An application of the Go package runs a guest instead.
ClientRuns ==
    /\ host = "idle"
    /\ \E p \in Program, words \in Inputs : Boot(p, words)
    /\ host' = "client"
    /\ UNCHANGED << command, printed >>

GuestRuns == GuestStep /\ UNCHANGED << command, host, printed >>

Next ==
    \/ ParseArgs \/ Run \/ CannotLoad \/ Report \/ CannotReport
    \/ ClientRuns \/ GuestRuns

Spec == Init /\ [][Next]_vars

-----------------------------------------------------------------------------
(* Properties.                                                             *)

\* The exact sum of a sequence of numbers.
Total(values) ==
    LET upTo[k \in 0..Len(values)] ==
            IF k = 0 THEN 0 ELSE upTo[k - 1] + values[k]
    IN  upTo[Len(values)]

PolicyAccepts(c) ==
    LET items == PolicyItems(c)
    IN  /\ Len(items) \in 1..maxPolicyItems
        /\ \A k \in 1..Len(items) : items[k] # 0
        /\ Total(items) < U64 /\ PolicyDiscount(c) <= Total(items)

\* A run of policy_check from its own path succeeds just for the purchases
\* that the policy lets through, and prints the sums, the discount, the limit
\* and the verdict of the options it was given: the host's encoder, the
\* guest's reader, its commits and the host's decoder agree on six fields
\* that nothing but their order tells apart.
PolicyRunExact ==
    /\ host \in {"succeeded", "failed"}
    /\ command.program = "policy_check"
    /\ command.policy /\ ~command.bip32
    /\ Bad \notin {command.policy_items, command.policy_discount,
                   command.policy_limit}
    => LET c     == command
           total == Total(PolicyItems(c)) - PolicyDiscount(c)
       IN  /\ (host = "succeeded") <=> PolicyAccepts(c)
           /\ host = "succeeded" =>
                printed = [item_count |-> Len(PolicyItems(c)),
                           approved   |-> total <= PolicyLimit(c),
                           subtotal   |-> total + PolicyDiscount(c),
                           discount   |-> PolicyDiscount(c),
                           total      |-> total,
                           limit      |-> PolicyLimit(c)]

\* The number that a component stands for.
Denoted(component) ==
    component.digits
        + (IF component.hardened THEN HARDENED_KEY_START ELSE 0)

\* A guest that derives a key is sent the path on the command line, no
\* component wrapped into another one's range; with --require-bip86, it is
\* m/86'/coin'/account'/change/index, whatever notation was used.
PathAsWritten ==
    host = "running" /\ command.bip32 /\ command.path # Nothing =>
        LET path == command.path
            sent == SubSeq(input, Len(input) - Len(path) + 1, Len(input))
            H    == HARDENED_KEY_START
        IN  /\ \A k \in 1..Len(path) : sent[k] = Denoted(path[k])
            /\ command.require_bip86 =>
                 /\ Len(path) = 5
                 /\ Denoted(path[1]) - H = 86
                 /\ Denoted(path[2]) - H >= 0 /\ Denoted(path[3]) - H >= 0
                 /\ Denoted(path[4]) \in {0, 1} /\ Denoted(path[5]) < H

=============================================================================
