----------------------------- MODULE MCHostCall -----------------------------
(***************************************************************************)
(* HostCall with two guests: a leaf that commits nothing, or fails with 1  *)
(* after a commit, and a parent that asserts what the leaf proved, or      *)
(* traps.  The application starts with a receipt somebody forged and with  *)
(* bytes that are no receipt.                                              *)
(***************************************************************************)
EXTENDS HostCall, TLC

CONSTANTS leaf, parent, s0, s1, empty, total, long, longest, foreign

Outcome(i, s) ==
    CASE i = leaf /\ s = s0 ->
           [journal |-> empty, exit |-> "Halted(0)", asserts |-> {}]
      [] i = leaf /\ s = s1 ->
           [journal |-> total, exit |-> "Halted(1)", asserts |-> {}]
      [] i = parent /\ s = s0 ->
           [journal |-> total, exit |-> "Halted(0)",
            asserts |-> {[image |-> leaf, journal |-> empty]}]
      [] OTHER ->
           [journal |-> empty, exit |-> "fault", asserts |-> {}]

MCRuns == [i \in Images |-> [s \in Stdins |-> Outcome(i, s)]]

forged ==
    [image |-> leaf, journal |-> empty, exit |-> "Halted(0)", sound |-> FALSE]

MCForeign == IF foreign THEN {Garbage, forged} ELSE {}

\* Receipts make the longest responses, journals the next.
MCJsonLen ==
    [b \in Body |->
        IF b.code # "ok" THEN 1
        ELSE IF b.value.receipt # Nothing THEN longest
        ELSE IF b.value.journal # Nothing THEN long ELSE 1]

\* The goroutines and the addresses are interchangeable.
MCSymmetry == Permutations(Callers) \cup Permutations(Addresses)

=============================================================================
