------------------------------- MODULE MCR0BF -------------------------------
(***************************************************************************)
(* R0BF over an ELF, a file that is none, and a container that another     *)
(* tool wrote with a longer header.                                        *)
(***************************************************************************)
EXTENDS R0BF

CONSTANTS a, c

ElfOf(bytes) == elfMagic \o bytes

longHeader == [i \in 1..19 |-> i % Radix]

MCHeaders == {longHeader}

MCContents ==
    [user |-> ElfOf(<< 3 >>), kernel |-> ElfOf(<< 2, 1 >>), whole |-> TRUE]

MCInitialDisk ==
    [p \in Paths |->
        CASE p = a -> ElfOf(<< 1, 0 >>)
          [] p = KernelOut -> << 127, 69, 0, 1, 2 >>
          [] p = c -> Container(longHeader, MCContents.user,
                                MCContents.kernel)
          [] OTHER -> None]

MCInitialPacked == [p \in Paths |-> IF p = c THEN MCContents ELSE None]

=============================================================================
