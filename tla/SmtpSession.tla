----------------------------- MODULE SmtpSession -----------------------------
(***************************************************************************)
(* smtpservice::run_protocol and the protocols it runs, on one connection.  *)
(* Whether an address is blocked, a login accepted and a mail found is open *)
(* here: LoginGate and MailPool say when.                                   *)
(***************************************************************************)
EXTENDS Wire

CONSTANT MaxMails \* bound: mails a LIST finds

ASSUME SessionAssumption == MaxMails \in Nat

VARIABLES
  at,        \* where the thread is
  loggedIn,  \* usr.logged_in
  empties,   \* spam_protection
  mail,      \* what send() has read: the lines of the message, the attachments
  filesLeft, \* attachments send() has still to read
  out, next, \* writes still to do, and where the thread goes then
  did,       \* history: what the last command has done
  outage     \* history: the login system has thrown

session == <<at, loggedIn, empties, mail, filesLeft, out, next, did, outage>>

\* The thread waits for input.
Reading == {"cmd", "user", "password", "to", "subject", "body", "count", "file", "size", "data",
            "junk", "READ", "ATT", "DEL"}

At == Reading \cup {"write", "spin", "ended", "dead", "stopped"}

OK == <<Item("OK")>>
ERR == <<Item("ERR")>>
Bye == <<Item("bye")>>

\* The constructor of user leaves logged_in uninitialized.  A blocked address is
\* turned away, any other greeted.
SessionInit ==
  /\ loggedIn \in BOOLEAN
  /\ at = "write"
  /\ \/ out = <<OK>> /\ next = "cmd"
     \/ out = <<ERR, Bye>> /\ next = "ended"
  /\ empties = 0 /\ mail = <<>> /\ filesLeft = 0
  /\ did = "nothing" /\ outage = FALSE

\* Mutant of Answer: an answer of several writes loses the last.
AnswerShort(writes) ==
  /\ out' = IF Len(writes) > 1 THEN SubSeq(writes, 1, Len(writes) - 1) ELSE writes
  /\ at' = "write" /\ next' = "cmd"

Answer(writes) == out' = writes /\ at' = "write" /\ next' = "cmd"

Leave(writes) == out' = writes \o <<Bye>> /\ at' = "write" /\ next' = "ended"

-----------------------------------------------------------------------------
(* The writes.                                                              *)

\* Only writeline tests the result of write, and try_send_ok, try_send_error
\* and quit catch what it throws.
Checked(w) == Head(w).kind \notin {"OK", "ERR", "bye", "byte", "size", "data"}

WriteNext ==
  /\ at = "write"
  /\ \/ Writes(Head(out)) /\ out' = Tail(out)
     \/ WriteFails /\ out' = IF Checked(Head(out)) THEN <<ERR>> ELSE Tail(out)
  /\ at' = IF out' = <<>> THEN next ELSE "write"
  /\ hungUp' = (at' = "ended")
  /\ UNCHANGED <<toServer, loggedIn, empties, mail, filesLeft, next, did, outage>>

\* No handler for SIGPIPE is installed: the server process dies.
BrokenPipe ==
  /\ at = "write" /\ link = "broken" /\ at' = "dead"
  /\ UNCHANGED <<wire, loggedIn, empties, mail, filesLeft, out, next, did, outage>>

\* The server process ends for a reason outside this session, such as SIGINT or
\* the broken pipe of another one; the kernel closes the socket.
StopServer ==
  /\ at \notin {"ended", "dead", "stopped"} /\ at' = "stopped" /\ hungUp' = TRUE
  /\ out' = <<>>
  /\ UNCHANGED <<toServer, toClient, link, loggedIn, empties, mail, filesLeft, next, did, outage>>

-----------------------------------------------------------------------------
(* The loop of run_protocol.                                                *)

\* Mutant of SkipEmpty: one empty line too many.
SkipEmptyLate ==
  /\ at = "cmd" /\ ReadsLine("empty")
  /\ IF empties > 3
     THEN Leave(<<>>) /\ UNCHANGED empties
     ELSE empties' = empties + 1 /\ UNCHANGED <<at, out, next>>
  /\ UNCHANGED <<toClient, link, hungUp, loggedIn, mail, filesLeft, did, outage>>

\* Mutant of SkipEmpty: empty lines are not counted.
SkipEmptyForever ==
  /\ at = "cmd" /\ ReadsLine("empty")
  /\ UNCHANGED <<toClient, link, hungUp, session>>

\* Four empty lines in a row end the session, and so does the end of the stream.
SkipEmpty ==
  /\ at = "cmd" /\ ReadsLine("empty")
  /\ IF empties = 3
     THEN Leave(<<>>) /\ UNCHANGED empties
     ELSE empties' = empties + 1 /\ UNCHANGED <<at, out, next>>
  /\ UNCHANGED <<toClient, link, hungUp, loggedIn, mail, filesLeft, did, outage>>

\* Lines that are no command, and mail commands of those who are not logged in,
\* are passed over without an answer.  The zero bytes of a file size are empty
\* lines: of a size below 2^24 there are enough to end the session, of a larger
\* one at most three.  Bound: no line of a file's contents is a command or empty.
SkipLine ==
  /\ at = "cmd"
  /\ \E l \in Kind \ {"empty", "LOGIN", "quit"} :
       /\ ReadsLine(l) /\ (loggedIn => l \notin Command)
       /\ \/ l = "size" /\ Leave(<<>>) /\ empties' = 0
          \/ l = "size" /\ empties' \in 0..3 /\ UNCHANGED <<at, out, next>>
          \/ l # "size" /\ empties' = 0 /\ UNCHANGED <<at, out, next>>
  /\ did' = "nothing"
  /\ UNCHANGED <<toClient, link, hungUp, loggedIn, mail, filesLeft, outage>>

ReadQuit ==
  /\ at = "cmd" /\ ReadsLine("quit") /\ Leave(<<>>)
  /\ UNCHANGED <<toClient, link, hungUp, loggedIn, empties, mail, filesLeft, did, outage>>

\* run_smtp_protocols: send, read, att and del go on to read their arguments.
ReadCommand ==
  /\ at = "cmd" /\ loggedIn
  /\ \E c \in {"SEND", "READ", "ATT", "DEL"} :
       ReadsLine(c) /\ at' = IF c = "SEND" THEN "to" ELSE c
  /\ empties' = 0 /\ did' = "nothing"
  /\ UNCHANGED <<toClient, link, hungUp, loggedIn, mail, filesLeft, out, next, outage>>

-----------------------------------------------------------------------------
(* login and logout.                                                        *)

\* LOGIN logs a user out first, unless the address is blocked by now.
ReadLogin ==
  /\ at = "cmd" /\ ReadsLine("LOGIN")
  /\ \/ at' = "user" /\ loggedIn' = FALSE /\ UNCHANGED <<out, next>>
     \/ Leave(<<ERR>>) /\ UNCHANGED loggedIn
  /\ empties' = 0 /\ did' = "nothing"
  /\ UNCHANGED <<toClient, link, hungUp, mail, filesLeft, outage>>

\* set_username throws: login answers, and run_protocol answers again.
ReadUser ==
  /\ at = "user"
  /\ \E l \in Kind :
       /\ ReadsLine(l)
       /\ \/ l # "empty" /\ at' = "password" /\ UNCHANGED <<out, next>>
          \/ l = "empty" /\ Answer(<<ERR, ERR>>)
  /\ UNCHANGED <<toClient, link, hungUp, loggedIn, empties, mail, filesLeft, did, outage>>

\* The login system accepts, refuses or throws.
ReadPassword ==
  /\ at = "password"
  /\ \E l \in Kind :
       /\ ReadsLine(l)
       /\ \/ l # "empty" /\ Answer(<<OK>>) /\ loggedIn' = TRUE /\ UNCHANGED outage
          \/ l # "empty" /\ Answer(<<ERR>>) /\ UNCHANGED <<loggedIn, outage>>
          \/ Answer(<<ERR, ERR>>) /\ outage' = (outage \/ l # "empty") /\ UNCHANGED loggedIn
  /\ UNCHANGED <<toClient, link, hungUp, empties, mail, filesLeft, did>>

Logout ==
  /\ at = "cmd" /\ loggedIn /\ ReadsLine("LOGOUT")
  /\ loggedIn' = FALSE /\ Answer(<<OK>>)
  /\ empties' = 0 /\ did' = "nothing"
  /\ UNCHANGED <<toClient, link, hungUp, mail, filesLeft, outage>>

-----------------------------------------------------------------------------
(* send.                                                                    *)

\* set_receiver and set_subject throw if the line is empty.
ReadHeader ==
  /\ at \in {"to", "subject"}
  /\ \E l \in Kind :
       /\ ReadsLine(l)
       /\ \/ l = "empty" /\ Answer(<<ERR>>) /\ UNCHANGED mail
          \/ /\ l # "empty" /\ at' = (IF at = "to" THEN "subject" ELSE "body")
             /\ mail' = <<>> /\ UNCHANGED <<out, next>>
  /\ UNCHANGED <<toClient, link, hungUp, loggedIn, empties, filesLeft, did, outage>>

\* Mutant of Ended: the dot ends the message from its third line on only.
EndedLate(m) == Len(m) >= 3 /\ m[Len(m)] = "."

\* "\n.\n" ends the message, so the first line does not.
Ended(m) == Len(m) >= 2 /\ m[Len(m)] = "."

\* At the end of the stream the loop appends empty lines for ever.
ReadBody ==
  /\ at = "body"
  /\ \/ AtEnd /\ at' = "spin" /\ UNCHANGED <<toServer, mail>>
     \/ /\ ~AtEnd
        /\ \E l \in Kind : ReadsLine(l) /\ mail' = Append(mail, l)
        /\ at' = IF Ended(mail') THEN "count" ELSE "body"
  /\ UNCHANGED <<toClient, link, hungUp, loggedIn, empties, filesLeft, out, next, did, outage>>

\* Mutant of Save: two answers.
SaveAnsweredTwice == did' = "saved" /\ Answer(<<OK, OK>>)

\* save_mail, and OK whatever it returns.
Save == did' = "saved" /\ Answer(<<OK>>)

\* The number of attachments.  At the end of the stream readbyte returns an
\* uninitialized byte: no attachments, or one with a name, a size and data that
\* are not there; the allocation of the latter may throw.
ReadCount ==
  /\ at = "count"
  /\ \/ \E i \in {Numbered("byte", n) : n \in 0..(Byte - 1)} :
          /\ ReadsItem(i) /\ filesLeft' = i.n
          /\ IF i.n = 0 THEN Save ELSE at' = "file" /\ UNCHANGED <<out, next, did>>
     \/ /\ AtEnd /\ UNCHANGED <<toServer, filesLeft>>
        /\ Save \/ (Answer(<<ERR>>) /\ UNCHANGED did)
  /\ UNCHANGED <<toClient, link, hungUp, loggedIn, empties, mail, outage>>

ReadFileName ==
  /\ at = "file" /\ \E l \in Kind : ReadsLine(l)
  /\ at' = "size"
  /\ UNCHANGED <<toClient, link, hungUp, loggedIn, empties, mail, filesLeft, out, next, did,
                 outage>>

\* Without the 8 bytes the size is whatever the stack held, or the name of the
\* next file, of which more may be left, or the size of a file that has changed
\* since; the allocation may throw.
ReadFileSize ==
  /\ at = "size"
  /\ \/ ReadsItem(Item("size")) /\ at' = "data" /\ UNCHANGED <<out, next>>
     \/ /\ \/ AtEnd /\ UNCHANGED toServer
           \/ /\ toServer # <<>> /\ Head(toServer) # Item("size")
              /\ toServer' \in {toServer, Tail(toServer)}
              /\ Head(toServer).kind = "size" => toServer' = Tail(toServer)
        /\ \/ at' = "junk" /\ UNCHANGED <<out, next>>
           \/ Answer(<<ERR>>)
  /\ UNCHANGED <<toClient, link, hungUp, loggedIn, empties, mail, filesLeft, did, outage>>

FileRead(contents) ==
  /\ mail' = Append(mail, contents) /\ filesLeft' = filesLeft - 1
  /\ IF filesLeft = 1 THEN Save ELSE at' = "file" /\ UNCHANGED <<out, next, did>>
  /\ UNCHANGED <<toClient, link, hungUp, loggedIn, empties, outage>>

\* Mutant of ReadFileData: readbytes, which may return a part of the contents.
ReadFileDataOnce ==
  /\ at = "data"
  /\ \/ ReadsItem(Item("data")) /\ FileRead("data")
     \/ toServer # <<>> /\ UNCHANGED toServer /\ FileRead("part")
     \/ AtEnd /\ UNCHANGED toServer /\ FileRead("part")

\* readbytesfull: whether all bytes have come is not looked at.
ReadFileData ==
  /\ at = "data"
  /\ \/ ReadsItem(Item("data")) /\ FileRead("data")
     \/ AtEnd /\ UNCHANGED toServer /\ FileRead("part")

\* readbytesfull with a wrong size takes what comes for contents, as much as the
\* size says, or all until the end of the stream.
ReadJunk ==
  /\ at = "junk"
  /\ \/ /\ toServer # <<>> /\ toServer' = Tail(toServer)
        /\ UNCHANGED <<toClient, link, hungUp, session>>
     \/ UNCHANGED toServer /\ FileRead("part")

-----------------------------------------------------------------------------
(* list, read, att and del.                                                 *)

Repeat(n, writes) == [i \in 1..(n * Len(writes)) |-> writes[((i - 1) % Len(writes)) + 1]]

\* The number of mails and their subjects, or an exception of load_user_mails.
List ==
  /\ at = "cmd" /\ loggedIn /\ ReadsLine("LIST")
  /\ \/ \E n \in 0..MaxMails :
          Answer(<<<<Numbered("total", n)>>>> \o Repeat(n, <<<<Item("subject")>>>>))
     \/ Answer(<<ERR>>)
  /\ empties' = 0 /\ did' = "nothing"
  /\ UNCHANGED <<toClient, link, hungUp, loggedIn, mail, filesLeft, outage>>

\* Every mail ends with a line of a single dot; std::endl makes it two lines.
Read ==
  /\ at = "READ"
  /\ \E l \in Kind :
       /\ ReadsLine(l)
       /\ \/ /\ l = "number"
             /\ Answer(<<OK, <<Item("text"), Item("."), Item("tail")>>>>)
          \/ Answer(<<ERR>>)
  /\ UNCHANGED <<toClient, link, hungUp, loggedIn, empties, mail, filesLeft, did, outage>>

Att ==
  /\ at = "ATT"
  /\ \E l \in Kind :
       /\ ReadsLine(l)
       /\ \/ /\ l = "number"
             /\ \E n \in 0..(Byte - 1) :
                  Answer(<<OK, <<Numbered("byte", n)>>>> \o
                         Repeat(n, <<<<Item("file")>>, <<Item("size")>>, <<Item("data")>>>>))
          \/ Answer(<<ERR>>)
  /\ UNCHANGED <<toClient, link, hungUp, loggedIn, empties, mail, filesLeft, did, outage>>

\* Mutant of Del: the result of delete_mail is ignored.
DelUnchecked ==
  /\ at = "DEL" /\ \E l \in Kind : ReadsLine(l)
  /\ Answer(<<OK>>) /\ did' \in {"nothing", "deleted"}
  /\ UNCHANGED <<toClient, link, hungUp, loggedIn, empties, mail, filesLeft, outage>>

Del ==
  /\ at = "DEL"
  /\ \E l \in Kind :
       /\ ReadsLine(l)
       /\ \/ l = "number" /\ Answer(<<OK>>) /\ did' = "deleted"
          \/ Answer(<<ERR>>) /\ UNCHANGED did
  /\ UNCHANGED <<toClient, link, hungUp, loggedIn, empties, mail, filesLeft, outage>>

-----------------------------------------------------------------------------

SessionStep ==
  \/ WriteNext \/ BrokenPipe
  \/ SkipEmpty \/ SkipLine \/ ReadQuit \/ ReadCommand
  \/ ReadLogin \/ ReadUser \/ ReadPassword \/ Logout
  \/ ReadHeader \/ ReadBody \/ ReadCount \/ ReadFileName \/ ReadFileSize \/ ReadFileData
  \/ ReadJunk
  \/ List \/ Read \/ Att \/ Del

=============================================================================
