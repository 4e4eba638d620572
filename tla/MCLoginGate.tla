----------------------------- MODULE MCLoginGate -----------------------------
(* Small instances of LoginGate for TLC.                                     *)
EXTENDS LoginGate, TLC

\* Threads are interchangeable, and so are addresses: nothing in LoginGate
\* names one.
Interchangeable == Permutations(Session) \cup Permutations(Address)
=============================================================================
