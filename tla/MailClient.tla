----------------------------- MODULE MailClient -----------------------------
(***************************************************************************)
(* The terminal client: main and the functions of function.cpp, one action  *)
(* per thing the user types and per read from the socket.                   *)
(***************************************************************************)
EXTENDS Wire

CONSTANTS MaxCommands, \* bound: logins and menu choices
          MaxSlipped,  \* bound: of these, when the next one follows a slip
          MaxLines,    \* bound: lines of a message
          MaxAttached  \* bound: attachments of a message

ASSUME ClientAssumption ==
  MaxCommands \in Nat /\ MaxSlipped \in Nat /\ MaxLines \in Nat /\ MaxAttached \in Nat

VARIABLES
  screen,  \* what the client is doing
  typed,   \* lines of the message being sent, and its attachments
  expect,  \* items of a listing or of attachments still to be sent or read
  used,    \* logins and menu choices so far
  told,    \* the success message on the screen
  slip,    \* history: the user has done what the protocol does not allow for
  garbled  \* the attachments being sent are not those announced

client == <<screen, typed, expect, used, told, slip, garbled>>

\* Blocked in a read from the socket.
Waiting == {"greeting", "login?", "sent?", "total?", "subject?", "read?", "body?", "drain",
            "att?", "count?", "attachment?", "deleted?"}

\* Waiting for the user.
Asking == {"login", "menu", "message", "line", "attach", "file", "size", "data"}

Screen == Waiting \cup Asking \cup {"lost", "gone"}

ClientInit ==
  /\ screen = "greeting" /\ typed = <<>> /\ expect = 0 /\ used = 0
  /\ told = "nothing" /\ slip = FALSE /\ garbled = FALSE

Show(here, there) == screen = here /\ screen' = there

\* A new command, and what it writes at once.
Begin(here, items, there) ==
  /\ Show(here, there) /\ used' = used + 1
  /\ used < MaxCommands /\ (slip => used < MaxSlipped)
  /\ Sends(items) /\ told' = "nothing"
  /\ UNCHANGED <<toClient, link, hungUp, garbled>>

-----------------------------------------------------------------------------
(* main.                                                                    *)

Greeted ==
  /\ \E i \in {Item("OK"), Item("ERR")} :
       /\ GetsLine(i)
       /\ IF i.kind = "OK" THEN Show("greeting", "login") /\ UNCHANGED link
          ELSE Show("greeting", "gone") /\ Closes
  /\ UNCHANGED <<toServer, hungUp, typed, expect, used, told, slip, garbled>>

Quit ==
  /\ Show("menu", "gone") /\ Sends(<<Item("quit")>>)
  /\ UNCHANGED <<toClient, hungUp, typed, expect, used, told, slip, garbled>> /\ Closes

\* Ctrl-C, or a write after the server has closed.
Kill ==
  /\ screen # "gone" /\ screen' = "gone"
  /\ UNCHANGED <<toServer, toClient, hungUp, typed, expect, used, told, slip, garbled>> /\ Closes

-----------------------------------------------------------------------------
(* c_login and c_logout.                                                    *)

\* fgets bounds the length of a name from above only.
Login ==
  /\ \E name \in {"name", "empty"} :
       /\ Begin("login", <<Item("LOGIN"), Item(name), Item("password")>>, "login?")
       /\ slip' = (slip \/ name = "empty")
  /\ UNCHANGED <<typed, expect>>

\* At the end of the stream response keeps what it held before, if anything.
LoginReply ==
  /\ \/ /\ GetsReply(Head(toClient))
        /\ Show("login?", IF Head(toClient).kind = "OK" THEN "menu" ELSE "login")
     \/ /\ NothingLeft /\ UNCHANGED toClient
        /\ Show("login?", "menu") \/ Show("login?", "login")
  /\ UNCHANGED <<toServer, link, hungUp, typed, expect, used, told, slip, garbled>>

\* The answer to LOGOUT is not read.
ChooseLogout ==
  /\ Begin("menu", <<Item("LOGOUT")>>, "login") /\ slip' = TRUE
  /\ UNCHANGED <<typed, expect>>

-----------------------------------------------------------------------------
(* c_send, c_inputattachment and c_sendattachment.                          *)

ChooseSend ==
  /\ \E to \in {"to", "empty"}, subject \in {"subject", "empty"} :
       /\ Begin("menu", <<Item("SEND"), Item(to), Item(subject)>>, "message")
       /\ slip' = (slip \/ to = "empty" \/ subject = "empty")
  /\ typed' = <<>> /\ UNCHANGED expect

TypeLine ==
  /\ Show("message", "message") /\ Len(typed) < MaxLines
  /\ Sends(<<Item("text")>>) /\ typed' = Append(typed, "text")
  /\ UNCHANGED <<toClient, link, hungUp, expect, used, told, slip, garbled>>

\* A line that is longer than the buffer of fgets is sent in pieces.
TypePiece ==
  /\ Show("message", "line") /\ Len(typed) < MaxLines
  /\ Sends(<<Item("part")>>)
  /\ UNCHANGED <<toClient, link, hungUp, typed, expect, used, told, slip, garbled>>

TypeRest ==
  /\ Show("line", "message")
  /\ Sends(<<Item("text")>>) /\ typed' = Append(typed, "text")
  /\ UNCHANGED <<toClient, link, hungUp, expect, used, told, slip, garbled>>

\* The last piece of a line may be a dot, too.
TypeDot ==
  /\ Show("message", "attach") \/ Show("line", "attach")
  /\ Sends(<<Item(".")>>) /\ typed' = Append(typed, ".")
  /\ slip' = (slip \/ typed = <<>> \/ screen = "line")
  /\ UNCHANGED <<toClient, link, hungUp, expect, used, told, garbled>>

\* Bound: files that are not those announced belong to a mail that is not the
\* last command.
Continues == used < MaxCommands

\* c_inputattachment: how many files the user can choose.
Chosen == {n \in 0..MaxAttached : n >= Byte => Continues}

\* The number of files is cut to a byte.  All of them are sent, or none.
Attach ==
  /\ \E n \in Chosen :
       LET announced == n % Byte
       IN  /\ Sends(<<Numbered("byte", announced)>>) /\ expect' = n
           /\ Show("attach", IF announced = 0 THEN "sent?" ELSE "file")
           /\ typed' = typed \o [i \in 1..n |-> "data"] /\ garbled' = (n >= Byte)
  /\ UNCHANGED <<toClient, link, hungUp, used, told, slip>>

\* Name, size and contents of a file are written one after the other.
SendFile ==
  /\ \/ Show("file", "size") /\ UNCHANGED expect
     \/ Show("size", "data") /\ UNCHANGED expect
     \/ Show("data", IF expect = 1 THEN "sent?" ELSE "file") /\ expect' = expect - 1
  /\ Sends(<<Item(screen)>>)
  /\ UNCHANGED <<toClient, link, hungUp, typed, used, told, slip, garbled>>

\* A file that has gone since it was chosen: its name is all that is written.
\* Bound: a mail has one file that has gone or has another size, at most.
SkipFile ==
  /\ ~garbled /\ Continues
  /\ Show("size", IF expect = 1 THEN "sent?" ELSE "file") /\ expect' = expect - 1
  /\ garbled' = TRUE
  /\ UNCHANGED <<wire, typed, used, told, slip>>

\* A file that grows or shrinks between fstatat and fread.
SendWrongSize ==
  /\ ~garbled /\ Continues
  /\ Show("size", "data") /\ Sends(<<Numbered("size", 1)>>) /\ garbled' = TRUE
  /\ UNCHANGED <<toClient, link, hungUp, typed, expect, used, told, slip>>

\* What is left of garbled attachments spoils the commands that follow.
SentReply ==
  /\ Show("sent?", "menu")
  /\ \/ GetsReply(Head(toClient)) /\ told' = IF Head(toClient).kind = "OK" THEN "sent" ELSE told
     \/ NothingLeft /\ UNCHANGED <<toClient, told>>
  /\ slip' = (slip \/ garbled) /\ garbled' = FALSE
  /\ UNCHANGED <<toServer, link, hungUp, typed, expect, used>>

-----------------------------------------------------------------------------
(* c_list.                                                                  *)

ChooseList == Begin("menu", <<Item("LIST")>>, "total?") /\ UNCHANGED <<typed, expect, slip>>

\* atoi makes 0 of what is no number.
TotalLine ==
  /\ \/ GetsLine(Head(toClient)) /\ expect' = Head(toClient).n
     \/ NothingLeft /\ expect' = 0 /\ UNCHANGED toClient
  /\ Show("total?", IF expect' = 0 THEN "menu" ELSE "subject?")
  /\ UNCHANGED <<toServer, link, hungUp, typed, used, told, slip, garbled>>

SubjectLine ==
  /\ GetsLine(Head(toClient)) \/ (NothingLeft /\ UNCHANGED toClient)
  /\ expect' = expect - 1
  /\ Show("subject?", IF expect = 1 THEN "menu" ELSE "subject?")
  /\ UNCHANGED <<toServer, link, hungUp, typed, used, told, slip, garbled>>

-----------------------------------------------------------------------------
(* c_read and c_saveattachments.                                            *)

\* fgets has room for 7 characters: the line of a longer number is not ended.
ChooseRead ==
  /\ \E number \in {"number", "part"} :
       /\ Begin("menu", <<Item("READ"), Item(number)>>, "read?")
       /\ slip' = (slip \/ number = "part")
  /\ UNCHANGED <<typed, expect>>

ReadReply ==
  /\ \/ /\ GetsLine(Head(toClient))
        /\ Show("read?", IF Head(toClient).kind = "OK" THEN "body?" ELSE "menu")
     \/ NothingLeft /\ UNCHANGED toClient /\ Show("read?", "menu")
  /\ UNCHANGED <<toServer, link, hungUp, typed, expect, used, told, slip, garbled>>

\* A line longer than the buffer comes in pieces; if the last of them is a dot
\* the message seems to end there.  At the end of the stream the loop never
\* meets its dot.
BodyLine ==
  /\ \/ /\ GetsLine(Head(toClient)) /\ UNCHANGED slip
        /\ Show("body?", IF Head(toClient).kind = "." THEN "drain" ELSE "body?")
     \/ GetsLine(Item("text")) /\ Show("body?", "drain") /\ slip' = TRUE
     \/ NothingLeft /\ UNCHANGED <<toClient, slip>> /\ Show("body?", "lost")
  /\ UNCHANGED <<toServer, link, hungUp, typed, expect, used, told, garbled>>

\* "get rid of everything still in the stream", and the attachments on demand.
\* Bound: what is still there fits the buffer.
Drain ==
  /\ screen = "drain" /\ GetsAll(Head(toClient))
  /\ \/ screen' = "menu" /\ UNCHANGED toServer
     \/ screen' = "att?" /\ Sends(<<Item("ATT"), Item("number")>>)
  /\ UNCHANGED <<link, hungUp, typed, expect, used, told, slip, garbled>>

AttReply ==
  /\ \/ /\ GetsLine(Head(toClient))
        /\ Show("att?", IF Head(toClient).kind = "OK" THEN "count?" ELSE "menu")
     \/ NothingLeft /\ UNCHANGED toClient /\ Show("att?", "menu")
  /\ UNCHANGED <<toServer, link, hungUp, typed, expect, used, told, slip, garbled>>

\* The byte of anything but a count sends the client astray; without a byte
\* numofatt is uninitialized.
CountByte ==
  /\ \/ /\ GetsLine(Head(toClient)) /\ expect' = 3 * Head(toClient).n
        /\ Show("count?", IF Head(toClient).kind # "byte" THEN "lost"
                          ELSE IF expect' = 0 THEN "menu" ELSE "attachment?")
     \/ /\ NothingLeft /\ UNCHANGED <<toClient, expect>>
        /\ Show("count?", "menu") \/ Show("count?", "lost")
  /\ UNCHANGED <<toServer, link, hungUp, typed, used, told, slip, garbled>>

\* Name, size and contents of a file.
AttachmentPart ==
  LET part == <<"file", "data", "size">>[(expect % 3) + 1]
  IN  /\ \/ /\ GetsLine(Head(toClient)) /\ expect' = expect - 1
            /\ Show("attachment?", IF Head(toClient).kind # part THEN "lost"
                                   ELSE IF expect' = 0 THEN "menu" ELSE "attachment?")
         \/ NothingLeft /\ UNCHANGED <<toClient, expect>> /\ Show("attachment?", "lost")
      /\ UNCHANGED <<toServer, link, hungUp, typed, used, told, slip, garbled>>

-----------------------------------------------------------------------------
(* c_del.                                                                   *)

ChooseDelete ==
  Begin("menu", <<Item("DEL"), Item("number")>>, "deleted?") /\ UNCHANGED <<typed, expect, slip>>

DelReply ==
  /\ Show("deleted?", "menu")
  /\ \/ GetsAll(Head(toClient)) /\ told' = IF Head(toClient).kind = "OK" THEN "deleted" ELSE told
     \/ NothingLeft /\ UNCHANGED <<toClient, told>>
  /\ UNCHANGED <<toServer, link, hungUp, typed, expect, used, slip, garbled>>

-----------------------------------------------------------------------------

\* What the user does.
UserStep ==
  \/ Quit \/ Kill \/ Login \/ ChooseLogout \/ ChooseSend
  \/ TypeLine \/ TypePiece \/ TypeRest \/ TypeDot \/ Attach \/ SendFile \/ SkipFile \/ SendWrongSize
  \/ ChooseList \/ ChooseRead \/ ChooseDelete

\* What the client does with what it reads.
Receive ==
  \/ Greeted \/ LoginReply \/ SentReply \/ TotalLine \/ SubjectLine \/ ReadReply \/ BodyLine
  \/ Drain \/ AttReply \/ CountByte \/ AttachmentPart \/ DelReply

=============================================================================
