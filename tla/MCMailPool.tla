----------------------------- MODULE MCMailPool -----------------------------
(* Small instances of MailPool for TLC.                                      *)
EXTENDS MailPool, TLC

\* The sessions of the user are interchangeable, and so are those of senders,
\* and the mails.
Interchangeable ==
  Permutations(Owner) \cup Permutations(Sender) \cup Permutations(Mail)
=============================================================================
