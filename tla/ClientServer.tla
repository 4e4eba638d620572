---------------------------- MODULE ClientServer ----------------------------
(***************************************************************************)
(* A client and its session, from the first read of the greeting until both *)
(* are gone.                                                                *)
(***************************************************************************)
EXTENDS SmtpSession, MailClient

vars == <<wire, session, client>>

TypeOK ==
  /\ toServer \in Seq([kind : Kind, n : Nat]) /\ toClient \in Seq([kind : Kind, n : Nat])
  /\ link \in Link /\ hungUp \in BOOLEAN
  /\ at \in At /\ loggedIn \in BOOLEAN /\ empties \in 0..3
  /\ mail \in Seq(Kind) /\ filesLeft \in 0..(Byte - 1)
  /\ out \in Seq(Seq([kind : Kind, n : Nat])) /\ next \in {"cmd", "ended"}
  /\ at = "write" => out # <<>>
  /\ did \in {"nothing", "saved", "deleted"} /\ outage \in BOOLEAN
  /\ screen \in Screen /\ typed \in Seq(Kind) /\ expect \in Nat /\ used \in 0..MaxCommands
  /\ told \in {"nothing", "sent", "deleted"} /\ slip \in BOOLEAN /\ garbled \in BOOLEAN

Init == WireInit /\ SessionInit /\ ClientInit

ServerStep == SessionStep /\ UNCHANGED client

ClientStep == (UserStep \/ Receive) /\ UNCHANGED session

Next == ServerStep \/ ClientStep \/ (StopServer /\ UNCHANGED client)

Spec == Init /\ [][Next]_vars

\* The thread is scheduled, its calls return, and the client reads what it
\* waits for.  The user owes nothing.
FairSpec ==
  Spec /\ WF_vars(ServerStep) /\ WF_vars(Receive /\ UNCHANGED session)

-----------------------------------------------------------------------------
(* Properties.                                                              *)

\* The user has logged out, left a field empty, sent an empty message or one that
\* ends with a piece of a line, chosen a number that is too long, or read a mail
\* with a line that seems to end with a dot of its own; the files sent are not
\* those announced; or the login system has thrown: the answers and the reads of
\* the client no longer match.
Slipped == slip \/ garbled \/ outage

\* The session is about to end, or has.
Over == next = "ended" \/ at \in {"spin", "stopped"}

\* Whenever the client asks for a login or a menu choice, all it has written is
\* read and all that was answered is read, and behind the menu there is a user
\* who is logged in.
InSync ==
  screen \in {"login", "menu"} /\ ~Slipped /\ ~Over
    => /\ at = "cmd" /\ toServer = <<>> /\ toClient = <<>>
       /\ screen = "menu" => loggedIn

\* Client and session never wait for each other.
NoMutualWait ==
  ~Slipped =>
    ~ /\ screen \in Waiting /\ toClient = <<>> /\ ~hungUp
      /\ at \in Reading /\ toServer \in {<<>>, <<Item("part")>>} /\ link = "up"

\* Two messages that differ in their attachments at most.
SameLines(a, b) ==
  \E n \in 0..Len(a) :
     /\ n <= Len(b) /\ \A i \in 1..n : a[i] = b[i]
     /\ \A i \in (n + 1)..Len(a) : a[i] \in {"data", "part"}
     /\ \A i \in (n + 1)..Len(b) : b[i] \in {"data", "part"}

\* A message that is saved has the lines that were typed, from the first to the
\* dot, whatever happens to its attachments.  If the files sent are those
\* announced and the client is there, it has all of them, each of them whole.
SavedAsTyped ==
  [][did # "saved" /\ did' = "saved" /\ ~slip /\ ~outage
       => /\ SameLines(mail', typed)
          /\ ~garbled /\ link = "up" => mail' = typed]_vars

\* "server returns ok if successfull", "server sends ok if the message was
\* deleted" (client/function.cpp): once the session is back in its loop, what
\* the client has told its user is what happened, unless they are out of step.
SuccessIsTrueInStep ==
  screen = "menu" /\ at = "cmd" /\ toServer = <<>> /\ ~Slipped
    => /\ told = "sent" => did = "saved"
       /\ told = "deleted" => did = "deleted"

\* Every command is answered and the client returns to its user.
CommandAnswered ==
  screen \in Waiting ~> screen \in {"login", "menu", "gone"} \/ Slipped \/ Over

\* The thread of a client that has gone ends, except in the middle of a message.
ThreadEnds == screen = "gone" ~> at \in {"ended", "spin", "dead", "stopped"}

=============================================================================
