----------------------------- MODULE LoginPolicy -----------------------------
(***************************************************************************)
(* What the login gate promises: a login is one indivisible step, it is    *)
(* accepted only from an address that is not blocked, three failures in a  *)
(* row block the address for Timeout seconds, and a success clears the     *)
(* count.  A server that ends forgets all counts; the next one starts with *)
(* the blocks that were written down, and with no others.                  *)
(***************************************************************************)
EXTENDS Integers

CONSTANTS Address, Timeout

VARIABLES clock, fails, since, up,
          record   \* the blocks written down, with their times

policyVars == <<clock, fails, since, up, record>>

Blocked(a) == fails[a] >= 3 /\ clock - since[a] <= Timeout

\* What may be written down: every address with three failures or more.
Blocks == {[addr |-> a, sec |-> since[a]] : a \in {b \in Address : fails[b] >= 3}}

Recorded == {l.addr : l \in record}

PolicyInit ==
  /\ clock = 0 /\ up = FALSE /\ record = {}
  /\ fails = [a \in Address |-> 0] /\ since = [a \in Address |-> 0]

Fail(a) ==
  /\ up /\ ~Blocked(a)
  /\ fails' = [fails EXCEPT ![a] = @ + 1]
  /\ since' = [since EXCEPT ![a] = clock]
  /\ UNCHANGED <<clock, up, record>>

Succeed(a) ==
  /\ up /\ ~Blocked(a)
  /\ fails' = [fails EXCEPT ![a] = 0]
  /\ UNCHANGED <<clock, since, up, record>>

Pass == clock' = clock + 1 /\ UNCHANGED <<fails, since, up, record>>

\* The record is begun anew, or a block of this moment is added to it.
Write ==
  /\ up
  /\ record' = {} \/ \E b \in Blocks : record' = record \cup {b}
  /\ UNCHANGED <<clock, fails, since, up>>

Stop ==
  /\ up /\ up' = FALSE
  /\ fails' = [a \in Address |-> 0] /\ since' = [a \in Address |-> 0]
  /\ UNCHANGED <<clock, record>>

Start ==
  /\ ~up /\ up' = TRUE
  /\ fails' = [a \in Address |-> IF a \in Recorded THEN 3 ELSE 0]
  /\ since' \in [Address -> Nat]
  /\ \A a \in Address : IF a \in Recorded THEN [addr |-> a, sec |-> since'[a]] \in record
                                          ELSE since'[a] = 0
  /\ UNCHANGED <<clock, record>>

PolicyNext == (\E a \in Address : Fail(a) \/ Succeed(a)) \/ Pass \/ Write \/ Stop \/ Start

PolicySpec == PolicyInit /\ [][PolicyNext]_policyVars

=============================================================================
