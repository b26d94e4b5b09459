--------------------------- MODULE MCGuestRuntime ---------------------------
(***************************************************************************)
(* Composition on a message of MessageLen bytes.  The code never branches *)
(* on a byte, so one message, with neighbouring bytes and neighbouring     *)
(* blocks distinct, stands for all of its length.                          *)
(***************************************************************************)
EXTENDS Composition

CONSTANT MessageLen

MCMessage == [i \in 1..MessageLen |-> (i + i \div Radix) % Radix]

\* Every length up to the whole message.
MCAllLens == 0..MessageLen

MCThisImage == [i \in 1..(WORD_SIZE * DigestWords) |-> i]

\* A run this guest may make itself, and one of another image, whose ID
\* all zeros, with the same journal.
MCClaims ==
    { [image |-> image, journal |-> SubSeq(Message, 1, 3)] :
      image \in {MCThisImage, [MCThisImage EXCEPT ![1] = 0]} }

=============================================================================
