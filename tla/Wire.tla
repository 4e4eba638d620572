-------------------------------- MODULE Wire --------------------------------
(***************************************************************************)
(* The TCP connection between a client and its smtpservice thread.  What is *)
(* in flight are two sequences of items: a line, or a piece of binary data  *)
(* (a number of attachments, a file size, the bytes of a file).  One write  *)
(* arrives as a whole.                                                      *)
(***************************************************************************)
EXTENDS Integers, Sequences

CONSTANT Byte \* numbers a byte can hold, from 0 (256)

ASSUME WireAssumption == Byte \in Nat \ {0}

VARIABLES
  toServer, toClient, \* written and not yet read
  link,               \* the client's end, as the server sees it
  hungUp              \* the server has closed its end

wire == <<toServer, toClient, link, hungUp>>

\* The client is there, has closed, has closed leaving something unread, or a
\* write has found out about it.
Link == {"up", "closed", "reset", "broken"}

Command == {"LOGIN", "LOGOUT", "SEND", "LIST", "READ", "ATT", "DEL", "quit"}

Kind == Command \cup
  {"empty", "name", "password", "to", "subject", "text", ".", "number",
   "byte", "file", "size", "data", "part",
   "OK", "ERR", "total", "tail", "bye", "rest"}

Item(k) == [kind |-> k, n |-> 0]
Numbered(k, n) == [kind |-> k, n |-> n]

WireInit == toServer = <<>> /\ toClient = <<>> /\ link = "up" /\ hungUp = FALSE

-----------------------------------------------------------------------------
(* The server's end.                                                        *)

\* The client has closed and all it had sent is read: read returns 0 or -1.
AtEnd == toServer = <<>> /\ link # "up"

\* What does not end a line: a piece of one that was too long for the client, a
\* number but 0, and the contents of most files.
Unfinished(i) == i.kind \in {"part", "data"} \/ (i.kind = "byte" /\ i.n > 0)

\* stream::readline, which returns the empty string at the end, and which ends
\* a line at a zero byte, too.
ReadsLine(l) ==
  \/ /\ toServer # <<>> /\ toServer' = Tail(toServer)
     /\ Unfinished(Head(toServer)) => Head(toServer).kind = "data"
     /\ l = IF Head(toServer).kind = "byte" THEN "empty" ELSE Head(toServer).kind
  \/ /\ toServer # <<>> /\ Unfinished(Head(toServer)) /\ l = "text"
     /\ IF Tail(toServer) = <<>> THEN link # "up" /\ toServer' = <<>>
        ELSE toServer' = Tail(Tail(toServer))
  \/ AtEnd /\ l = "empty" /\ UNCHANGED toServer

\* stream::readbyte, readuint64 and readbytesfull, of an item that is there.
ReadsItem(i) == toServer # <<>> /\ i = Head(toServer) /\ toServer' = Tail(toServer)

\* A write succeeds even after the client has closed, but may draw a reset.
Writes(items) ==
  \/ link = "up" /\ toClient' = toClient \o items /\ UNCHANGED link
  \/ link = "closed" /\ link' \in {"closed", "broken"} /\ UNCHANGED toClient

\* The first write after a reset returns -1; the next one raises SIGPIPE.
WriteFails == link = "reset" /\ link' = "broken" /\ UNCHANGED toClient

-----------------------------------------------------------------------------
(* The client's end.                                                        *)

Sends(items) ==
  toServer' = IF hungUp THEN toServer ELSE toServer \o items

\* readline of the client; false at the end of the stream.  A line longer than the
\* client's buffer, which only a mail can bring, comes in pieces: see BodyLine of
\* MailClient for the piece that matters.
GetsLine(i) == toClient # <<>> /\ i = Head(toClient) /\ toClient' = Tail(toClient)

NothingLeft == toClient = <<>> /\ hungUp

\* read with room for 5 bytes: one reply and, if there is more, a piece of the
\* next, whose rest remains.
GetsReply(i) ==
  /\ toClient # <<>> /\ i = Head(toClient)
  /\ LET more == Tail(toClient)
     IN  \/ more = <<>> /\ toClient' = <<>>
         \/ more # <<>> /\ toClient' = <<Item("rest")>> \o Tail(more)
         \/ i.kind = "rest" /\ more # <<>> /\ toClient' = Tail(more)

\* read with room for all there is.
GetsAll(i) == toClient # <<>> /\ i = Head(toClient) /\ toClient' = <<>>

Closes == link' = IF toClient' = <<>> THEN "closed" ELSE "reset"

=============================================================================
