-------------------------- MODULE LibraryInterface --------------------------
(***************************************************************************)
(* The Rust shared library as package host sees it: shared by the promise  *)
(* (LibraryBinding) and the code (FFILoader).                              *)
(***************************************************************************)
EXTENDS Naturals, Sequences

CONSTANTS
    Callers,   \* goroutines
    Paths,     \* library paths, "" excluded
    NoPath,    \* the path ""
    Builds,    \* contents a library file may have
    Null,      \* the C NULL
    Exports,   \* the symbols a build defines
    Abi        \* the number go_zkvm_abi_version returns in a build

\* The exported functions, in the order of the dlsym calls.
symbols == << "abi_version", "compute_image_id", "execute", "prove",
              "verify", "free_buffer" >>

Operation == {"compute_image_id", "execute", "prove", "verify"}

Symbol == Operation \cup {"abi_version", "free_buffer"}

abiVersion == 2

ASSUME LibraryAssumption ==
    /\ NoPath \notin Paths
    /\ Null \notin Builds /\ Null \notin Callers
    /\ Exports \in [Builds -> SUBSET Symbol]
    /\ Abi \in [Builds -> Nat]

=============================================================================
