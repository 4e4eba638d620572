----------------------------- MODULE MCTransfer -----------------------------
(***************************************************************************)
(* Three files: two that need several writes and reads, and between them    *)
(* one that is empty.                                                       *)
(***************************************************************************)
EXTENDS Transfer

CONSTANTS a, b, c

MCName == {"first", "second", "third"}

MCByte == {a, b, c}

MCFiles ==
  << [name |-> "first", bytes |-> <<a, b, c, a, a>>],
     [name |-> "second", bytes |-> <<>>],
     [name |-> "third", bytes |-> <<b, b, a>>] >>

=============================================================================
