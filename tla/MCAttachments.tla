---------------------------- MODULE MCAttachments ----------------------------
(***************************************************************************)
(* Three files, two of which have the same base name.                       *)
(***************************************************************************)
EXTENDS Attachments

CONSTANTS ax, bx, by, x, y

MCPath == {ax, bx, by}

MCName == {x, y}

MCBasename == [p \in MCPath |-> IF p = by THEN y ELSE x]

=============================================================================
