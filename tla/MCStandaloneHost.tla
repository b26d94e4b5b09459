-------------------------- MODULE MCStandaloneHost --------------------------
(***************************************************************************)
(* StandaloneHost with a uint32 of 200 values: the sums of a few items and *)
(* the product of two factors overflow, and 86' and 391 still fit.         *)
(***************************************************************************)
EXTENDS StandaloneHost

Plain ==
    [program |-> "simple", bip32 |-> FALSE, policy |-> FALSE,
     raw_journal |-> FALSE, execute_only |-> FALSE,
     use_test_vector |-> FALSE, require_bip86 |-> FALSE,
     seed |-> Nothing, path |-> Nothing, policy_items |-> Nothing,
     policy_discount |-> Nothing, policy_limit |-> Nothing]

Ones(n) == [k \in 1..n |-> 1]

Max64 == U64 - 1

\* Sums at the edge of 64 bits and counts at the edge of 16.
ItemLists ==
    {Nothing, Bad, << >>, << 0 >>, << Max64 >>, << Max64, 1 >>,
     << Max64 - 1, 1 >>, << 1, Max64 >>, << Max64, Max64, 2 >>,
     << U64 \div 2, U64 \div 2, 5 >>, << 300, 0, 7 >>, Ones(16), Ones(17),
     << 16, Max64 >>}

PolicyCommands ==
    { [Plain EXCEPT !.program = p, !.policy = TRUE, !.raw_journal = raw,
                    !.execute_only = only, !.policy_items = items,
                    !.policy_discount = d, !.policy_limit = l] :
      p \in {"policy_check", "multiply"}, raw \in BOOLEAN, only \in BOOLEAN,
      items \in ItemLists, d \in {Nothing, Bad, 0, 16, Max64},
      l \in {Nothing, 0, 225, Max64} }

Hard(n) == [digits |-> n, hardened |-> TRUE]
Soft(n) == [digits |-> n, hardened |-> FALSE]

PathSpecs ==
    {Nothing, Bad, << >>, << Hard(86), Hard(0), Hard(0), Soft(0), Soft(7) >>,
     << Soft(186), Hard(99), Soft(100), Soft(1), Soft(99) >>,
     << Hard(86), Hard(0), Hard(0), Soft(2), Soft(0) >>,
     << Hard(86), Hard(0), Hard(0), Hard(0), Soft(0) >>,
     << Hard(86), Hard(0), Hard(100), Soft(0), Soft(0) >>,
     << Hard(86), Hard(0), Hard(0), Soft(0), Hard(199) >>,
     << Hard(84), Hard(0), Hard(0), Soft(0), Soft(0) >>,
     << Hard(86), Soft(0), Hard(0), Soft(0), Soft(0) >>,
     << Hard(86), Hard(0), Hard(0) >>}

Bip32Commands ==
    { [Plain EXCEPT !.program = p, !.bip32 = TRUE, !.policy = both,
                    !.raw_journal = raw, !.use_test_vector = vector,
                    !.require_bip86 = bip86, !.seed = seed, !.path = path] :
      p \in {"other", "policy_check"}, both \in BOOLEAN, raw \in BOOLEAN,
      vector \in BOOLEAN, bip86 \in BOOLEAN,
      seed \in {Nothing, Bad, << 9, 0, 0, 0 >>}, path \in PathSpecs }

OtherCommands ==
    { [Plain EXCEPT !.program = p, !.raw_journal = raw,
                    !.execute_only = only] :
      p \in Program, raw \in BOOLEAN, only \in BOOLEAN }

MCCommands == PolicyCommands \cup Bip32Commands \cup OtherCommands

\* Two uint64s, of 0 to 4 words.
Factors == {0, 1, 2, 3, 199, 200, 201, U64 \div 2, U64 \div 3, Max64}

MCInputs ==
    { Words(x) \o Words(y) : x \in Factors, y \in Factors }
    \cup { << >>, << 2 >>, << 1, 5 >>, << 2, 5, 0, 7 >> }

MCOtherJournals == { << >>, << 191, 1 >>, [k \in 1..10 |-> 1] }

=============================================================================
