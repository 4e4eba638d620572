------------------------------- MODULE Mailbox -------------------------------
(***************************************************************************)
(* What the mail pool promises to the sessions of one user and to those who *)
(* write to the user.  A mail arrives, is delivered when its sender is told *)
(* so, and is deleted once.  A listing shows every mail that was delivered  *)
(* when it began and has not been deleted; it fails only over a mail that   *)
(* is arriving or has been deleted.  The server may end at any moment.      *)
(***************************************************************************)

CONSTANTS Mail, Session

VARIABLES
  status, \* of a mail
  state,  \* of a session: what it will answer, "idle" between commands
  owed,   \* mails delivered when the listing of a session began
  rest,   \* mails the listing has still to look at
  shown   \* mails it will show

listing == <<owed, rest, shown>>
vars == <<status, state, listing>>

TypeOK ==
  /\ status \in [Mail -> {"new", "arriving", "delivered", "deleted"}]
  /\ state \in [Session -> {"idle", "listing", "failed", "deleted"}]
  /\ owed \in [Session -> SUBSET Mail] /\ rest \in [Session -> SUBSET Mail]
  /\ shown \in [Session -> SUBSET Mail]

Nothing == [t \in Session |-> {}]

Init ==
  /\ status = [m \in Mail |-> "new"] /\ state = [t \in Session |-> "idle"]
  /\ owed = Nothing /\ rest = Nothing /\ shown = Nothing

Becomes(m, before, after) ==
  status[m] \in before /\ status' = [status EXCEPT ![m] = after]

Turns(t, before, after) == state[t] = before /\ state' = [state EXCEPT ![t] = after]

Arrive(m) == Becomes(m, {"new"}, "arriving") /\ UNCHANGED <<state, listing>>

Deliver(m) == Becomes(m, {"arriving"}, "delivered") /\ UNCHANGED <<state, listing>>

Present == {m \in Mail : status[m] \in {"arriving", "delivered"}}

BeginListing(t) ==
  /\ Turns(t, "idle", "listing")
  /\ owed' = [owed EXCEPT ![t] = {m \in Mail : status[m] = "delivered"}]
  /\ rest' = [rest EXCEPT ![t] = Present]
  /\ UNCHANGED <<status, shown>>

Show(t, m) ==
  /\ state[t] = "listing" /\ m \in rest[t] \cap Present
  /\ shown' = [shown EXCEPT ![t] = @ \cup {m}]
  /\ UNCHANGED <<status, state, owed, rest>>

\* On to the next mail.
Pass(t, m) ==
  /\ state[t] = "listing" /\ m \in rest[t]
  /\ m \in owed[t] => m \in shown[t] \/ status[m] = "deleted"
  /\ rest' = [rest EXCEPT ![t] = @ \ {m}]
  /\ UNCHANGED <<status, state, owed, shown>>

Fail(t) ==
  /\ \E m \in rest[t] : status[m] # "delivered"
  /\ Turns(t, "listing", "failed")
  /\ rest' = [rest EXCEPT ![t] = {}]
  /\ UNCHANGED <<status, owed, shown>>

\* A deletion that is refused changes nothing.
Delete(t, m) ==
  /\ Becomes(m, {"arriving", "delivered"}, "deleted") /\ Turns(t, "idle", "deleted")
  /\ UNCHANGED listing

Answer(t) ==
  /\ state[t] # "idle" /\ rest[t] = {} /\ state' = [state EXCEPT ![t] = "idle"]
  /\ owed' = [owed EXCEPT ![t] = {}] /\ shown' = [shown EXCEPT ![t] = {}]
  /\ UNCHANGED <<status, rest>>

Crash ==
  /\ state' = [t \in Session |-> "idle"]
  /\ owed' = Nothing /\ rest' = Nothing /\ shown' = Nothing /\ UNCHANGED status

Next ==
  \/ \E m \in Mail : Arrive(m) \/ Deliver(m)
  \/ \E t \in Session : BeginListing(t) \/ Fail(t) \/ Answer(t)
  \/ \E t \in Session, m \in Mail : Show(t, m) \/ Pass(t, m) \/ Delete(t, m)
  \/ Crash

Spec == Init /\ [][Next]_vars

=============================================================================
