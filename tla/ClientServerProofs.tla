-------------------------- MODULE ClientServerProofs --------------------------
(***************************************************************************)
(* Theorems about ClientServer, for a byte of any size, any number of      *)
(* mails and attachments, and any value of the bounds.                     *)
(***************************************************************************)
EXTENDS ClientServer, FiniteSetTheorems, TLAPS

-----------------------------------------------------------------------------
(* The parts of TypeOK.                                                     *)

Items == [kind : Kind, n : Nat]

WireOK ==
  /\ toServer \in Seq(Items) /\ toClient \in Seq(Items)
  /\ link \in Link /\ hungUp \in BOOLEAN

\* The count of attachments is looked at after a file only: it must not be zero
\* before.
SessionOK ==
  /\ at \in At /\ loggedIn \in BOOLEAN /\ empties \in 0..3
  /\ mail \in Seq(Kind) /\ filesLeft \in 0..(Byte - 1)
  /\ out \in Seq(Seq(Items)) /\ next \in {"cmd", "ended"}
  /\ at = "write" => out # <<>>
  /\ did \in {"nothing", "saved", "deleted"} /\ outage \in BOOLEAN
  /\ at \in {"file", "size", "data", "junk"} => filesLeft > 0

\* So must what the client has still to read or to send.
ClientOK ==
  /\ screen \in Screen /\ typed \in Seq(Kind) /\ expect \in Nat /\ used \in 0..MaxCommands
  /\ told \in {"nothing", "sent", "deleted"} /\ slip \in BOOLEAN /\ garbled \in BOOLEAN
  /\ screen \in {"subject?", "attachment?", "file", "size", "data"} => expect > 0

\* Items and the sequences they travel in.
LEMMA ItemTyped == \A k \in Kind : Item(k) \in Items
BY DEF Item, Items

LEMMA NumberedTyped == \A k \in Kind, n \in Nat : Numbered(k, n) \in Items
BY DEF Numbered, Items

LEMMA AnswersTyped ==
  /\ OK \in Seq(Items) /\ ERR \in Seq(Items) /\ Bye \in Seq(Items)
  /\ OK # <<>> /\ ERR # <<>> /\ Bye # <<>>
<1>1. Item("OK") \in Items /\ Item("ERR") \in Items /\ Item("bye") \in Items
  BY ItemTyped DEF Kind, Command
<1> QED BY <1>1 DEF OK, ERR, Bye

LEMMA TailTyped ==
  ASSUME NEW S, NEW q \in Seq(S), q # <<>>
  PROVE  Head(q) \in S /\ Tail(q) \in Seq(S)
OBVIOUS

\* readline returns a line, and what is left are the items behind it.
LEMMA ReadsLineTyped ==
  ASSUME WireOK, NEW l, ReadsLine(l)
  PROVE  toServer' \in Seq(Items) /\ l \in Kind
<1>0. /\ "empty" \in Kind /\ "text" \in Kind
      /\ \A i \in Items : i.kind \in Kind
  BY DEF Items, Kind
<1>1. CASE /\ toServer # <<>> /\ toServer' = Tail(toServer)
           /\ l = IF Head(toServer).kind = "byte" THEN "empty" ELSE Head(toServer).kind
  <2>1. Head(toServer) \in Items /\ Tail(toServer) \in Seq(Items)
    BY <1>1, TailTyped DEF WireOK
  <2> QED BY <1>0, <1>1, <2>1
<1>2. CASE toServer # <<>> /\ l = "text" /\ toServer' = <<>>
  BY <1>0, <1>2
<1>3. CASE toServer # <<>> /\ l = "text" /\ Tail(toServer) # <<>> /\ toServer' = Tail(Tail(toServer))
  <2>1. Tail(toServer) \in Seq(Items)
    BY <1>3, TailTyped DEF WireOK
  <2>2. Tail(Tail(toServer)) \in Seq(Items)
    BY <1>3, <2>1, TailTyped
  <2> QED BY <1>0, <1>3, <2>2
<1>4. CASE l = "empty" /\ UNCHANGED toServer
  BY <1>0, <1>4 DEF WireOK
<1> QED BY <1>1, <1>2, <1>3, <1>4 DEF ReadsLine

LEMMA WritesTyped ==
  ASSUME WireOK, NEW items \in Seq(Items), Writes(items) \/ WriteFails
  PROVE  toClient' \in Seq(Items) /\ link' \in Link
<1>1. toClient \o items \in Seq(Items)
  BY DEF WireOK
<1> QED BY <1>1 DEF WireOK, Writes, WriteFails, Link

LEMMA SendsTyped ==
  ASSUME WireOK, NEW items \in Seq(Items), Sends(items)
  PROVE  toServer' \in Seq(Items)
BY DEF WireOK, Sends

LEMMA GetsTyped ==
  ASSUME WireOK, NEW i, GetsLine(i) \/ GetsReply(i) \/ GetsAll(i)
  PROVE  i \in Items /\ toClient' \in Seq(Items)
<1>1. Item("rest") \in Items
  BY ItemTyped DEF Kind, Command
<1>2. toClient # <<>> /\ i = Head(toClient)
  BY DEF GetsLine, GetsReply, GetsAll
<1>3. i \in Items /\ Tail(toClient) \in Seq(Items)
  BY <1>2, TailTyped DEF WireOK
<1>4. CASE GetsLine(i)
  BY <1>3, <1>4 DEF GetsLine
<1>6. CASE GetsAll(i)
  <2>1. <<>> \in Seq(Items)
    OBVIOUS
  <2> QED BY <1>3, <1>6, <2>1 DEF GetsAll
<1>5. CASE GetsReply(i)
  <2>1. CASE Tail(toClient) = <<>>
    BY <1>3, <1>5, <2>1 DEF GetsReply
  <2>2. CASE Tail(toClient) # <<>>
    <3>1. Tail(Tail(toClient)) \in Seq(Items)
      BY <1>3, <2>2, TailTyped
    <3>2. <<Item("rest")>> \o Tail(Tail(toClient)) \in Seq(Items)
      BY <1>1, <3>1
    <3> QED BY <1>3, <1>5, <2>2, <3>1, <3>2 DEF GetsReply
  <2> QED BY <2>1, <2>2
<1> QED BY <1>4, <1>5, <1>6

\* Answering and leaving: there is something to write, and a place to go then.
LEMMA AnswerTyped ==
  ASSUME NEW writes \in Seq(Seq(Items)), Answer(writes), writes # <<>>
  PROVE  /\ out' \in Seq(Seq(Items)) /\ out' # <<>>
         /\ at' = "write" /\ next' = "cmd"
BY DEF Answer

LEMMA LeaveTyped ==
  ASSUME NEW writes \in Seq(Seq(Items)), Leave(writes)
  PROVE  /\ out' \in Seq(Seq(Items)) /\ out' # <<>>
         /\ at' = "write" /\ next' = "ended"
<1>1. <<Bye>> \in Seq(Seq(Items)) /\ writes \o <<Bye>> # <<>>
  BY AnswersTyped
<1> QED BY <1>1 DEF Leave

LEMMA RepeatTyped ==
  ASSUME NEW S, NEW n \in Nat, NEW writes \in Seq(S), Len(writes) \in {1, 3}
  PROVE  Repeat(n, writes) \in Seq(S)
<1> DEFINE m == n * Len(writes)
<1>1. m \in Nat /\ \A j \in 1..Len(writes) : writes[j] \in S
  OBVIOUS
<1> HIDE DEF m
<1>2. ASSUME NEW i \in 1..m
      PROVE  writes[((i - 1) % Len(writes)) + 1] \in S
  <2>1. i - 1 \in Nat
    BY <1>1
  <2>2. CASE Len(writes) = 1
    <3>1. (i - 1) % 1 = 0
      BY <2>1
    <3> QED BY <1>1, <2>2, <3>1
  <2>3. CASE Len(writes) = 3
    <3>1. (i - 1) % 3 \in 0..2
      BY <2>1
    <3>2. ((i - 1) % 3) + 1 \in 1..3
      BY <3>1
    <3> QED BY <1>1, <2>3, <3>2
  <2> QED BY <2>2, <2>3
<1>3. Repeat(n, writes) = [i \in 1..m |-> writes[((i - 1) % Len(writes)) + 1]]
  BY DEF Repeat, m
<1> QED BY <1>1, <1>2, <1>3

-----------------------------------------------------------------------------
(* The session.                                                             *)

\* The answers the protocols give.
LEMMA RepliesTyped ==
  /\ <<OK>> \in Seq(Seq(Items)) /\ <<ERR>> \in Seq(Seq(Items))
  /\ <<OK, Bye>> \in Seq(Seq(Items)) /\ <<ERR, Bye>> \in Seq(Seq(Items))
  /\ <<ERR, ERR>> \in Seq(Seq(Items)) /\ <<>> \in Seq(Seq(Items))
BY AnswersTyped

LEMMA SaveTyped ==
  ASSUME Save
  PROVE  /\ out' \in Seq(Seq(Items)) /\ out' # <<>> /\ at' = "write" /\ next' = "cmd"
         /\ did' = "saved"
<1>1. Answer(<<OK>>) /\ <<OK>> # <<>>
  BY DEF Save
<1> QED BY <1>1, RepliesTyped, AnswerTyped DEF Save

\* Every write, and what becomes of a connection that breaks, keeps the types.
LEMMA WriteStepsTyped ==
  ASSUME WireOK, SessionOK, WriteNext \/ BrokenPipe
  PROVE  WireOK' /\ SessionOK'
<1>1. CASE WriteNext
  <2>1. Head(out) \in Seq(Items) /\ Tail(out) \in Seq(Seq(Items))
    BY <1>1, TailTyped DEF WriteNext, SessionOK
  <2>2. toClient' \in Seq(Items) /\ link' \in Link
    BY <1>1, <2>1, WritesTyped DEF WriteNext
  <2>3. out' \in Seq(Seq(Items))
    BY <1>1, <2>1, RepliesTyped DEF WriteNext
  <2>4. at' \in {"write", "cmd", "ended"} /\ (at' = "write" => out' # <<>>)
    BY <1>1 DEF WriteNext, SessionOK
  <2>5. hungUp' \in BOOLEAN
    BY <1>1 DEF WriteNext
  <2>6. WireOK'
    BY <1>1, <2>2, <2>5 DEF WriteNext, WireOK
  <2> QED BY <1>1, <2>3, <2>4, <2>6 DEF WriteNext, SessionOK, At, Reading
<1>2. CASE BrokenPipe
  BY <1>2 DEF BrokenPipe, wire, WireOK, SessionOK, At
<1> QED BY <1>1, <1>2

\* The loop of run_protocol and the login protocol.
LEMMA LoopStepsTyped ==
  ASSUME WireOK, SessionOK,
         SkipEmpty \/ SkipLine \/ ReadQuit \/ ReadCommand \/ ReadLogin \/ ReadUser
           \/ ReadPassword \/ Logout
  PROVE  WireOK' /\ SessionOK'
<1>1. CASE SkipEmpty
  <2>1. WireOK'
    BY <1>1, ReadsLineTyped DEF SkipEmpty, WireOK
  <2>2. CASE empties = 3
    <3>1. out' \in Seq(Seq(Items)) /\ out' # <<>> /\ at' = "write" /\ next' = "ended"
      BY <1>1, <2>2, RepliesTyped, LeaveTyped DEF SkipEmpty
    <3> QED BY <1>1, <2>1, <2>2, <3>1 DEF SkipEmpty, SessionOK, At
  <2>3. CASE empties # 3
    BY <1>1, <2>1, <2>3 DEF SkipEmpty, SessionOK
  <2> QED BY <2>2, <2>3
<1>2. CASE SkipLine
  <2>1. WireOK'
    BY <1>2, ReadsLineTyped DEF SkipLine, WireOK
  <2>2. \/ out' \in Seq(Seq(Items)) /\ out' # <<>> /\ at' = "write" /\ next' = "ended"
        \/ UNCHANGED <<at, out, next>>
    BY <1>2, RepliesTyped, LeaveTyped DEF SkipLine
  <2> QED BY <1>2, <2>1, <2>2 DEF SkipLine, SessionOK, At
<1>3. CASE ReadQuit
  <2>1. WireOK'
    BY <1>3, ReadsLineTyped DEF ReadQuit, WireOK
  <2>2. out' \in Seq(Seq(Items)) /\ out' # <<>> /\ at' = "write" /\ next' = "ended"
    BY <1>3, RepliesTyped, LeaveTyped DEF ReadQuit
  <2> QED BY <1>3, <2>1, <2>2 DEF ReadQuit, SessionOK, At
<1>4. CASE ReadCommand
  <2>1. WireOK'
    BY <1>4, ReadsLineTyped DEF ReadCommand, WireOK
  <2>2. at' \in {"to", "READ", "ATT", "DEL"}
    BY <1>4 DEF ReadCommand
  <2> QED BY <1>4, <2>1, <2>2 DEF ReadCommand, SessionOK, At, Reading
<1>5. CASE ReadLogin
  <2>1. WireOK'
    BY <1>5, ReadsLineTyped DEF ReadLogin, WireOK
  <2>2. CASE Leave(<<ERR>>)
    <3>1. out' \in Seq(Seq(Items)) /\ out' # <<>> /\ at' = "write" /\ next' = "ended"
      BY <2>2, RepliesTyped, LeaveTyped
    <3>2. loggedIn' \in BOOLEAN
      BY <1>5 DEF ReadLogin, SessionOK
    <3> QED BY <1>5, <2>1, <3>1, <3>2 DEF ReadLogin, SessionOK, At
  <2>3. CASE at' = "user" /\ loggedIn' = FALSE /\ UNCHANGED <<out, next>>
    <3>1. loggedIn' \in BOOLEAN
      BY <2>3
    <3> QED BY <1>5, <2>1, <2>3, <3>1 DEF ReadLogin, SessionOK, At, Reading
  <2> QED BY <1>5, <2>2, <2>3 DEF ReadLogin
<1>6. CASE ReadUser
  <2>1. WireOK'
    BY <1>6, ReadsLineTyped DEF ReadUser, WireOK
  <2>2. CASE Answer(<<ERR, ERR>>)
    <3>1. out' \in Seq(Seq(Items)) /\ out' # <<>> /\ at' = "write" /\ next' = "cmd"
      BY <2>2, RepliesTyped, AnswerTyped
    <3> QED BY <1>6, <2>1, <3>1 DEF ReadUser, SessionOK, At
  <2>3. CASE at' = "password" /\ UNCHANGED <<out, next>>
    BY <1>6, <2>1, <2>3 DEF ReadUser, SessionOK, At, Reading
  <2> QED BY <1>6, <2>2, <2>3 DEF ReadUser
<1>7. CASE ReadPassword
  <2>1. WireOK'
    BY <1>7, ReadsLineTyped DEF ReadPassword, WireOK
  <2>2. out' \in Seq(Seq(Items)) /\ out' # <<>> /\ at' = "write" /\ next' = "cmd"
    BY <1>7, RepliesTyped, AnswerTyped DEF ReadPassword
  <2>3. loggedIn' \in BOOLEAN /\ outage' \in BOOLEAN
    BY <1>7 DEF ReadPassword, SessionOK
  <2> QED BY <1>7, <2>1, <2>2, <2>3 DEF ReadPassword, SessionOK, At
<1>8. CASE Logout
  <2>1. WireOK'
    BY <1>8, ReadsLineTyped DEF Logout, WireOK
  <2>2. out' \in Seq(Seq(Items)) /\ out' # <<>> /\ at' = "write" /\ next' = "cmd"
    BY <1>8, RepliesTyped, AnswerTyped DEF Logout
  <2>3. loggedIn' \in BOOLEAN
    BY <1>8 DEF Logout
  <2> QED BY <1>8, <2>1, <2>2, <2>3 DEF Logout, SessionOK, At
<1> QED BY <1>1, <1>2, <1>3, <1>4, <1>5, <1>6, <1>7, <1>8

\* send: the message, the number of attachments and the attachments.
LEMMA SendStepsTyped ==
  ASSUME WireOK, SessionOK, Byte \in Nat \ {0},
         ReadHeader \/ ReadBody \/ ReadCount \/ ReadFileName \/ ReadFileSize
           \/ ReadFileData \/ ReadJunk
  PROVE  WireOK' /\ SessionOK'
<1>1. CASE ReadHeader
  <2>1. WireOK'
    BY <1>1, ReadsLineTyped DEF ReadHeader, WireOK
  <2>2. CASE Answer(<<ERR>>) /\ UNCHANGED mail
    <3>1. out' \in Seq(Seq(Items)) /\ out' # <<>> /\ at' = "write" /\ next' = "cmd"
      BY <2>2, RepliesTyped, AnswerTyped
    <3> QED BY <1>1, <2>1, <2>2, <3>1 DEF ReadHeader, SessionOK, At
  <2>3. CASE at' \in {"subject", "body"} /\ mail' = <<>> /\ UNCHANGED <<out, next>>
    <3>1. mail' \in Seq(Kind)
      BY <2>3
    <3> QED BY <1>1, <2>1, <2>3, <3>1 DEF ReadHeader, SessionOK, At, Reading
  <2> QED BY <1>1, <2>2, <2>3 DEF ReadHeader
<1>2. CASE ReadBody
  <2>1. WireOK'
    BY <1>2, ReadsLineTyped DEF ReadBody, WireOK
  <2>2. mail' \in Seq(Kind)
    <3>1. \A l \in Kind : Append(mail, l) \in Seq(Kind)
      BY DEF SessionOK
    <3> QED BY <1>2, <3>1 DEF ReadBody, SessionOK
  <2>3. at' \in {"spin", "count", "body"}
    BY <1>2 DEF ReadBody
  <2> QED BY <1>2, <2>1, <2>2, <2>3 DEF ReadBody, SessionOK, At, Reading
<1>3. CASE ReadCount
  <2>1. WireOK'
    BY <1>3, TailTyped DEF ReadCount, ReadsItem, WireOK
  <2>2. filesLeft' \in 0..(Byte - 1)
    BY <1>3 DEF ReadCount, Numbered, SessionOK
  <2>3. CASE Save \/ (Answer(<<ERR>>) /\ UNCHANGED did)
    <3>1. /\ out' \in Seq(Seq(Items)) /\ out' # <<>> /\ at' = "write" /\ next' = "cmd"
          /\ did' \in {"saved", did}
      BY <2>3, RepliesTyped, SaveTyped, AnswerTyped
    <3> QED BY <1>3, <2>1, <2>2, <3>1 DEF ReadCount, SessionOK, At
  <2>4. CASE filesLeft' # 0 /\ at' = "file" /\ UNCHANGED <<out, next, did>>
    BY <1>3, <2>1, <2>2, <2>4 DEF ReadCount, SessionOK, At, Reading
  <2> QED BY <1>3, <2>3, <2>4 DEF ReadCount
<1>4. CASE ReadFileName
  <2>1. WireOK'
    BY <1>4, ReadsLineTyped DEF ReadFileName, WireOK
  <2> QED BY <1>4, <2>1 DEF ReadFileName, SessionOK, At, Reading
<1>5. CASE ReadFileSize
  <2>1. WireOK'
    <3>1. \/ UNCHANGED toServer
          \/ toServer # <<>> /\ toServer' = Tail(toServer)
      BY <1>5 DEF ReadFileSize, ReadsItem
    <3>2. toServer' \in Seq(Items)
      BY <3>1, TailTyped DEF WireOK
    <3>3. UNCHANGED <<toClient, link, hungUp>>
      BY <1>5 DEF ReadFileSize
    <3> QED BY <3>2, <3>3 DEF WireOK
  <2>2. CASE Answer(<<ERR>>)
    <3>1. out' \in Seq(Seq(Items)) /\ out' # <<>> /\ at' = "write" /\ next' = "cmd"
      BY <2>2, RepliesTyped, AnswerTyped
    <3> QED BY <1>5, <2>1, <3>1 DEF ReadFileSize, SessionOK, At
  <2>3. CASE at' \in {"data", "junk"} /\ UNCHANGED <<out, next>>
    BY <1>5, <2>1, <2>3 DEF ReadFileSize, SessionOK, At, Reading
  <2> QED BY <1>5, <2>2, <2>3 DEF ReadFileSize
<1>6. ASSUME NEW contents \in Kind, FileRead(contents), at \in {"data", "junk"}
      PROVE  SessionOK'
  <2>1. mail' \in Seq(Kind) /\ filesLeft' \in 0..(Byte - 1)
    BY <1>6 DEF FileRead, SessionOK
  <2>2. CASE filesLeft = 1
    <3>1. /\ out' \in Seq(Seq(Items)) /\ out' # <<>> /\ at' = "write" /\ next' = "cmd"
          /\ did' = "saved"
      BY <1>6, <2>2, SaveTyped DEF FileRead
    <3> QED BY <1>6, <2>1, <3>1 DEF FileRead, SessionOK, At
  <2>3. CASE filesLeft # 1
    <3>1. filesLeft' > 0 /\ at' = "file" /\ UNCHANGED <<out, next, did>>
      BY <1>6, <2>3 DEF FileRead, SessionOK
    <3> QED BY <1>6, <2>1, <3>1 DEF FileRead, SessionOK, At, Reading
  <2> QED BY <2>2, <2>3
<1>7. CASE ReadFileData
  <2>1. WireOK'
    BY <1>7, TailTyped DEF ReadFileData, ReadsItem, FileRead, WireOK
  <2> QED BY <1>6, <1>7, <2>1 DEF ReadFileData, Kind
<1>8. CASE ReadJunk
  <2>1. CASE toServer # <<>> /\ toServer' = Tail(toServer) /\ UNCHANGED <<toClient, link, hungUp, session>>
    BY <2>1, TailTyped DEF session, WireOK, SessionOK
  <2>2. CASE UNCHANGED toServer /\ FileRead("part")
    BY <1>6, <1>8, <2>2 DEF ReadJunk, FileRead, WireOK, Kind
  <2> QED BY <1>8, <2>1, <2>2 DEF ReadJunk
<1> QED BY <1>1, <1>2, <1>3, <1>4, <1>5, <1>7, <1>8

\* list, read, att and del.
LEMMA MailStepsTyped ==
  ASSUME WireOK, SessionOK, MaxMails \in Nat, Byte \in Nat \ {0},
         List \/ Read \/ Att \/ Del
  PROVE  WireOK' /\ SessionOK'
<1>0. ASSUME NEW writes \in Seq(Seq(Items)), writes # <<>>, Answer(writes)
      PROVE  /\ out' \in Seq(Seq(Items)) /\ at' \in At /\ next' \in {"cmd", "ended"}
             /\ at' = "write" => out' # <<>>
             /\ at' \notin {"file", "size", "data", "junk"}
  BY <1>0, AnswerTyped DEF At
<1>1. CASE List
  <2>1. WireOK'
    BY <1>1, ReadsLineTyped DEF List, WireOK
  <2>2. ASSUME NEW n \in 0..MaxMails
        PROVE  /\ <<<<Numbered("total", n)>>>> \o Repeat(n, <<<<Item("subject")>>>>) \in Seq(Seq(Items))
               /\ <<<<Numbered("total", n)>>>> \o Repeat(n, <<<<Item("subject")>>>>) # <<>>
    <3>1. n \in Nat /\ "total" \in Kind /\ "subject" \in Kind
      BY DEF Kind
    <3>2. Numbered("total", n) \in Items /\ Item("subject") \in Items
      BY <3>1, ItemTyped, NumberedTyped
    <3>3. /\ <<<<Item("subject")>>>> \in Seq(Seq(Items)) /\ Len(<<<<Item("subject")>>>>) = 1
          /\ <<<<Numbered("total", n)>>>> \in Seq(Seq(Items))
          /\ <<<<Numbered("total", n)>>>> # <<>>
      BY <3>2
    <3>4. Repeat(n, <<<<Item("subject")>>>>) \in Seq(Seq(Items))
      BY <3>1, <3>3, RepeatTyped
    <3> HIDE DEF Items
    <3> QED BY <3>3, <3>4
  <2>3. /\ out' \in Seq(Seq(Items)) /\ at' \in At /\ next' \in {"cmd", "ended"}
        /\ at' = "write" => out' # <<>>
        /\ at' \notin {"file", "size", "data", "junk"}
    BY <1>0, <1>1, <2>2, AnswersTyped, RepliesTyped DEF List
  <2> QED BY <1>1, <2>1, <2>3 DEF List, SessionOK
<1>2. CASE Read
  <2>1. WireOK'
    BY <1>2, ReadsLineTyped DEF Read, WireOK
  <2>2. <<OK, <<Item("text"), Item("."), Item("tail")>>>> \in Seq(Seq(Items))
    <3>1. "text" \in Kind /\ "." \in Kind /\ "tail" \in Kind
      BY DEF Kind
    <3>2. Item("text") \in Items /\ Item(".") \in Items /\ Item("tail") \in Items
      BY <3>1, ItemTyped
    <3>3. <<Item("text"), Item("."), Item("tail")>> \in Seq(Items)
      BY <3>2
    <3> QED BY <3>3, AnswersTyped
  <2>3. /\ out' \in Seq(Seq(Items)) /\ at' \in At /\ next' \in {"cmd", "ended"}
        /\ at' = "write" => out' # <<>>
        /\ at' \notin {"file", "size", "data", "junk"}
    BY <1>0, <1>2, <2>2, RepliesTyped DEF Read
  <2> QED BY <1>2, <2>1, <2>3 DEF Read, SessionOK
<1>3. CASE Att
  <2>1. WireOK'
    BY <1>3, ReadsLineTyped DEF Att, WireOK
  <2> DEFINE files == <<<<Item("file")>>, <<Item("size")>>, <<Item("data")>>>>
  <2>2. ASSUME NEW n \in 0..(Byte - 1)
        PROVE  /\ <<OK, <<Numbered("byte", n)>>>> \o Repeat(n, files) \in Seq(Seq(Items))
               /\ <<OK, <<Numbered("byte", n)>>>> \o Repeat(n, files) # <<>>
    <3>1. n \in Nat /\ "file" \in Kind /\ "size" \in Kind /\ "data" \in Kind /\ "byte" \in Kind
      BY DEF Kind
    <3>2. /\ Item("file") \in Items /\ Item("size") \in Items /\ Item("data") \in Items
          /\ Numbered("byte", n) \in Items
      BY <3>1, ItemTyped, NumberedTyped
    <3>3. files \in Seq(Seq(Items)) /\ Len(files) = 3
      BY <3>2
    <3>4. <<OK, <<Numbered("byte", n)>>>> \in Seq(Seq(Items))
      BY <3>2, AnswersTyped
    <3>5. Repeat(n, files) \in Seq(Seq(Items))
      BY <3>1, <3>3, RepeatTyped
    <3> HIDE DEF files
    <3> QED BY <3>4, <3>5
  <2>3. /\ out' \in Seq(Seq(Items)) /\ at' \in At /\ next' \in {"cmd", "ended"}
        /\ at' = "write" => out' # <<>>
        /\ at' \notin {"file", "size", "data", "junk"}
    BY <1>0, <1>3, <2>2, RepliesTyped DEF Att
  <2> QED BY <1>3, <2>1, <2>3 DEF Att, SessionOK
<1>4. CASE Del
  <2>1. WireOK'
    BY <1>4, ReadsLineTyped DEF Del, WireOK
  <2>2. /\ out' \in Seq(Seq(Items)) /\ at' \in At /\ next' \in {"cmd", "ended"}
        /\ at' = "write" => out' # <<>>
        /\ at' \notin {"file", "size", "data", "junk"}
    BY <1>0, <1>4, RepliesTyped DEF Del
  <2> QED BY <1>4, <2>1, <2>2 DEF Del, SessionOK
<1> QED BY <1>1, <1>2, <1>3, <1>4

-----------------------------------------------------------------------------
(* The client.                                                              *)

\* What the user starts and what it writes at once.
LEMMA BeginTyped ==
  ASSUME WireOK, ClientOK, MaxCommands \in Nat,
         NEW here, NEW items \in Seq(Items), NEW there \in Waiting \cup Asking,
         Begin(here, items, there),
         there \notin {"subject?", "attachment?", "file", "size", "data"},
         typed' \in Seq(Kind), expect' = expect, slip' \in BOOLEAN
  PROVE  WireOK' /\ ClientOK'
<1>1. WireOK'
  BY SendsTyped DEF Begin, WireOK
<1>2. used' \in 0..MaxCommands
  BY DEF Begin, ClientOK
<1> QED BY <1>1, <1>2 DEF Begin, Show, ClientOK, Screen

LEMMA CommandsTyped ==
  ASSUME WireOK, ClientOK, MaxCommands \in Nat,
         Login \/ ChooseLogout \/ ChooseSend \/ ChooseList \/ ChooseRead \/ ChooseDelete
  PROVE  WireOK' /\ ClientOK'
<1>0. \A k \in Kind : Item(k) \in Items
  BY ItemTyped
<1>1. CASE Login
  <2>1. PICK name \in {"name", "empty"} :
          /\ Begin("login", <<Item("LOGIN"), Item(name), Item("password")>>, "login?")
          /\ slip' = (slip \/ name = "empty")
    BY <1>1 DEF Login
  <2>2. <<Item("LOGIN"), Item(name), Item("password")>> \in Seq(Items)
    <3>1. "LOGIN" \in Kind /\ name \in Kind /\ "password" \in Kind
      BY DEF Kind, Command
    <3> QED BY <1>0, <3>1
  <2>3. slip' \in BOOLEAN
    BY <2>1
  <2>4. typed' \in Seq(Kind) /\ expect' = expect
    BY <1>1 DEF Login, ClientOK
  <2>5. "login?" \in Waiting
    BY DEF Waiting
  <2> QED BY <2>1, <2>2, <2>3, <2>4, <2>5, BeginTyped
<1>2. CASE ChooseLogout
  <2>1. <<Item("LOGOUT")>> \in Seq(Items)
    <3>1. "LOGOUT" \in Kind
      BY DEF Kind, Command
    <3> QED BY <1>0, <3>1
  <2>2. slip' \in BOOLEAN
    BY <1>2 DEF ChooseLogout
  <2>3. typed' \in Seq(Kind) /\ expect' = expect
    BY <1>2 DEF ChooseLogout, ClientOK
  <2>4. "login" \in Asking
    BY DEF Asking
  <2> QED BY <1>2, <2>1, <2>2, <2>3, <2>4, BeginTyped DEF ChooseLogout
<1>3. CASE ChooseSend
  <2>1. PICK to \in {"to", "empty"}, subject \in {"subject", "empty"} :
          /\ Begin("menu", <<Item("SEND"), Item(to), Item(subject)>>, "message")
          /\ slip' = (slip \/ to = "empty" \/ subject = "empty")
    BY <1>3 DEF ChooseSend
  <2>2. <<Item("SEND"), Item(to), Item(subject)>> \in Seq(Items)
    <3>1. "SEND" \in Kind /\ to \in Kind /\ subject \in Kind
      BY DEF Kind, Command
    <3> QED BY <1>0, <3>1
  <2>3. slip' \in BOOLEAN
    BY <2>1
  <2>4. typed' \in Seq(Kind) /\ expect' = expect
    BY <1>3 DEF ChooseSend
  <2>5. "message" \in Asking
    BY DEF Asking
  <2> QED BY <2>1, <2>2, <2>3, <2>4, <2>5, BeginTyped
<1>4. CASE ChooseList
  <2>1. <<Item("LIST")>> \in Seq(Items)
    <3>1. "LIST" \in Kind
      BY DEF Kind, Command
    <3> QED BY <1>0, <3>1
  <2>2. typed' \in Seq(Kind) /\ expect' = expect /\ slip' \in BOOLEAN
    BY <1>4 DEF ChooseList, ClientOK
  <2>3. "total?" \in Waiting
    BY DEF Waiting
  <2> QED BY <1>4, <2>1, <2>2, <2>3, BeginTyped DEF ChooseList
<1>5. CASE ChooseRead
  <2>1. PICK number \in {"number", "part"} :
          /\ Begin("menu", <<Item("READ"), Item(number)>>, "read?")
          /\ slip' = (slip \/ number = "part")
    BY <1>5 DEF ChooseRead
  <2>2. <<Item("READ"), Item(number)>> \in Seq(Items)
    <3>1. "READ" \in Kind /\ number \in Kind
      BY DEF Kind, Command
    <3> QED BY <1>0, <3>1
  <2>3. slip' \in BOOLEAN
    BY <2>1
  <2>4. typed' \in Seq(Kind) /\ expect' = expect
    BY <1>5 DEF ChooseRead, ClientOK
  <2>5. "read?" \in Waiting
    BY DEF Waiting
  <2> QED BY <2>1, <2>2, <2>3, <2>4, <2>5, BeginTyped
<1>6. CASE ChooseDelete
  <2>1. <<Item("DEL"), Item("number")>> \in Seq(Items)
    <3>1. "DEL" \in Kind /\ "number" \in Kind
      BY DEF Kind, Command
    <3> QED BY <1>0, <3>1
  <2>2. typed' \in Seq(Kind) /\ expect' = expect /\ slip' \in BOOLEAN
    BY <1>6 DEF ChooseDelete, ClientOK
  <2>3. "deleted?" \in Waiting
    BY DEF Waiting
  <2> QED BY <1>6, <2>1, <2>2, <2>3, BeginTyped DEF ChooseDelete
<1> QED BY <1>1, <1>2, <1>3, <1>4, <1>5, <1>6

\* The message, the files, and the ways to go.
LEMMA TypingTyped ==
  ASSUME WireOK, ClientOK, Byte \in Nat \ {0}, MaxAttached \in Nat,
         Quit \/ Kill \/ TypeLine \/ TypePiece \/ TypeRest \/ TypeDot \/ Attach
           \/ SendFile \/ SkipFile \/ SendWrongSize
  PROVE  WireOK' /\ ClientOK'
<1>0. \A k \in Kind : <<Item(k)>> \in Seq(Items) /\ Append(typed, k) \in Seq(Kind)
  BY ItemTyped DEF ClientOK
<1>1. CASE Quit
  <2>1. "quit" \in Kind
    BY DEF Kind, Command
  <2>2. toServer' \in Seq(Items)
    BY <1>0, <1>1, <2>1, SendsTyped DEF Quit
  <2> QED BY <1>1, <2>2 DEF Quit, Closes, Link, WireOK, Show, ClientOK, Screen
<1>2. CASE Kill
  BY <1>2 DEF Kill, Closes, Link, WireOK, ClientOK, Screen
<1>3. CASE TypeLine \/ TypeRest
  <2>1. "text" \in Kind
    BY DEF Kind
  <2>2. toServer' \in Seq(Items)
    BY <1>0, <1>3, <2>1, SendsTyped DEF TypeLine, TypeRest
  <2>3. typed' \in Seq(Kind)
    BY <1>0, <1>3, <2>1 DEF TypeLine, TypeRest
  <2> QED BY <1>3, <2>2, <2>3
             DEF TypeLine, TypeRest, WireOK, Show, ClientOK, Screen, Asking
<1>4. CASE TypePiece
  <2>1. "part" \in Kind
    BY DEF Kind
  <2>2. toServer' \in Seq(Items)
    BY <1>0, <1>4, <2>1, SendsTyped DEF TypePiece
  <2> QED BY <1>4, <2>2 DEF TypePiece, WireOK, Show, ClientOK, Screen, Asking
<1>5. CASE TypeDot
  <2>1. "." \in Kind
    BY DEF Kind
  <2>2. toServer' \in Seq(Items)
    BY <1>0, <1>5, <2>1, SendsTyped DEF TypeDot
  <2>3. typed' \in Seq(Kind)
    BY <1>0, <1>5, <2>1 DEF TypeDot
  <2>4. slip' \in BOOLEAN
    BY <1>5 DEF TypeDot
  <2> QED BY <1>5, <2>2, <2>3, <2>4 DEF TypeDot, WireOK, Show, ClientOK, Screen, Asking
<1>6. CASE Attach
  <2>1. PICK n \in 0..MaxAttached :
          /\ Sends(<<Numbered("byte", n % Byte)>>) /\ expect' = n
          /\ Show("attach", IF n % Byte = 0 THEN "sent?" ELSE "file")
          /\ typed' = typed \o [i \in 1..n |-> "data"] /\ garbled' = (n >= Byte)
    BY <1>6 DEF Attach, Chosen
  <2>2. n % Byte \in Nat /\ (n = 0 => n % Byte = 0)
    OBVIOUS
  <2>3. "byte" \in Kind /\ "data" \in Kind
    BY DEF Kind
  <2>4. <<Numbered("byte", n % Byte)>> \in Seq(Items)
    BY <2>2, <2>3, NumberedTyped
  <2>5. toServer' \in Seq(Items)
    BY <2>1, <2>4, SendsTyped
  <2>6. typed' \in Seq(Kind)
    <3>1. [i \in 1..n |-> "data"] \in Seq(Kind)
      BY <2>3
    <3> QED BY <2>1, <3>1 DEF ClientOK
  <2>7. garbled' \in BOOLEAN
    BY <2>1
  <2>8. screen' \in Screen /\ (screen' \in {"subject?", "attachment?", "file", "size", "data"} => n > 0)
    BY <2>1, <2>2 DEF Show, Screen, Waiting, Asking
  <2> QED BY <1>6, <2>1, <2>5, <2>6, <2>7, <2>8 DEF Attach, WireOK, ClientOK
<1>7. CASE SendFile
  <2>1. screen \in {"file", "size", "data"}
    BY <1>7 DEF SendFile, Show
  <2>2. screen \in Kind
    BY <2>1 DEF Kind
  <2>3. toServer' \in Seq(Items)
    BY <1>0, <1>7, <2>2, SendsTyped DEF SendFile
  <2> QED BY <1>7, <2>1, <2>3 DEF SendFile, WireOK, Show, ClientOK, Screen, Waiting, Asking
<1>8. CASE SkipFile
  <2>1. garbled' \in BOOLEAN
    BY <1>8 DEF SkipFile
  <2> QED BY <1>8, <2>1 DEF SkipFile, wire, WireOK, Show, ClientOK, Screen, Waiting, Asking
<1>9. CASE SendWrongSize
  <2>1. "size" \in Kind
    BY DEF Kind
  <2>2. toServer' \in Seq(Items)
    <3>1. <<Numbered("size", 1)>> \in Seq(Items)
      BY <2>1, NumberedTyped
    <3> QED BY <1>9, <3>1, SendsTyped DEF SendWrongSize
  <2>3. garbled' \in BOOLEAN
    BY <1>9 DEF SendWrongSize
  <2> QED BY <1>9, <2>2, <2>3 DEF SendWrongSize, WireOK, Show, ClientOK, Screen, Waiting, Asking
<1> QED BY <1>1, <1>2, <1>3, <1>4, <1>5, <1>6, <1>7, <1>8, <1>9

\* What the client reads.
LEMMA ReceiveTyped ==
  ASSUME WireOK, ClientOK, Receive
  PROVE  WireOK' /\ ClientOK'
<1>0. ASSUME NEW i, GetsLine(i) \/ GetsReply(i) \/ GetsAll(i)
      PROVE  toClient' \in Seq(Items) /\ i.n \in Nat
  <2>1. i \in Items /\ toClient' \in Seq(Items)
    BY <1>0, GetsTyped
  <2> QED BY <2>1 DEF Items
<1>1. CASE Greeted
  <2>1. toClient' \in Seq(Items)
    BY <1>0, <1>1 DEF Greeted
  <2>2. link' \in Link
    BY <1>1 DEF Greeted, Closes, Link, WireOK
  <2>3. screen' \in {"login", "gone"}
    BY <1>1 DEF Greeted, Show
  <2> QED BY <1>1, <2>1, <2>2, <2>3 DEF Greeted, WireOK, ClientOK, Screen, Asking
<1>2. CASE LoginReply \/ SentReply
  <2>1. toClient' \in Seq(Items)
    BY <1>0, <1>2 DEF LoginReply, SentReply, WireOK
  <2>2. screen' \in {"login", "menu"}
    BY <1>2 DEF LoginReply, SentReply, Show
  <2>3. told' \in {"nothing", "sent", "deleted"}
    BY <1>2 DEF LoginReply, SentReply, ClientOK
  <2>4. slip' \in BOOLEAN /\ garbled' \in BOOLEAN
    <3>1. CASE LoginReply
      BY <3>1 DEF LoginReply, ClientOK
    <3>2. CASE SentReply
      BY <3>2 DEF SentReply, ClientOK
    <3> QED BY <1>2, <3>1, <3>2
  <2>5. WireOK'
    BY <1>2, <2>1 DEF LoginReply, SentReply, WireOK
  <2> QED BY <1>2, <2>2, <2>3, <2>4, <2>5
             DEF LoginReply, SentReply, ClientOK, Screen, Asking
<1>3. CASE TotalLine
  <2>1. toClient' \in Seq(Items) /\ expect' \in Nat
    BY <1>0, <1>3 DEF TotalLine, WireOK
  <2>2. screen' \in {"menu", "subject?"} /\ (screen' = "subject?" => expect' > 0)
    BY <1>3, <2>1 DEF TotalLine, Show
  <2> QED BY <1>3, <2>1, <2>2 DEF TotalLine, WireOK, ClientOK, Screen, Waiting, Asking
<1>4. CASE SubjectLine
  <2>1. toClient' \in Seq(Items)
    BY <1>0, <1>4 DEF SubjectLine, WireOK
  <2>2. /\ expect' \in Nat /\ screen' \in {"menu", "subject?"}
        /\ screen' = "subject?" => expect' > 0
    BY <1>4 DEF SubjectLine, Show, ClientOK
  <2> QED BY <1>4, <2>1, <2>2 DEF SubjectLine, WireOK, ClientOK, Screen, Waiting, Asking
<1>5. CASE ReadReply \/ BodyLine \/ AttReply \/ Drain
  <2>1. toClient' \in Seq(Items)
    BY <1>0, <1>5 DEF ReadReply, BodyLine, AttReply, Drain, WireOK
  <2>2. toServer' \in Seq(Items)
    <3>1. "ATT" \in Kind /\ "number" \in Kind
      BY DEF Kind, Command
    <3>2. <<Item("ATT"), Item("number")>> \in Seq(Items)
      BY <3>1, ItemTyped
    <3> QED BY <1>5, <3>2, SendsTyped DEF ReadReply, BodyLine, AttReply, Drain, WireOK
  <2>3. screen' \in {"menu", "body?", "drain", "lost", "att?", "count?"}
    BY <1>5 DEF ReadReply, BodyLine, AttReply, Drain, Show
  <2>4. screen' \in Screen
    BY <2>3 DEF Screen, Waiting, Asking
  <2>5. /\ UNCHANGED <<link, hungUp, typed, expect, used, told, garbled>>
        /\ slip' = slip \/ slip' = TRUE
    BY <1>5 DEF ReadReply, BodyLine, AttReply, Drain
  <2> QED BY <2>1, <2>2, <2>3, <2>4, <2>5 DEF WireOK, ClientOK
<1>6. CASE CountByte
  <2>1. toClient' \in Seq(Items) /\ expect' \in Nat
    BY <1>0, <1>6 DEF CountByte, WireOK, ClientOK
  <2>2. /\ screen' \in {"menu", "lost", "attachment?"}
        /\ screen' = "attachment?" => expect' > 0
    BY <1>6, <2>1 DEF CountByte, Show
  <2> QED BY <1>6, <2>1, <2>2 DEF CountByte, WireOK, ClientOK, Screen, Waiting, Asking
<1>7. CASE AttachmentPart
  <2>1. toClient' \in Seq(Items)
    BY <1>0, <1>7 DEF AttachmentPart, WireOK
  <2>2. screen = "attachment?"
    BY <1>7 DEF AttachmentPart, Show
  <2>3. /\ expect' \in Nat /\ screen' \in {"menu", "lost", "attachment?"}
        /\ screen' = "attachment?" => expect' > 0
    BY <1>7, <2>2 DEF AttachmentPart, Show, ClientOK
  <2> QED BY <1>7, <2>1, <2>3 DEF AttachmentPart, WireOK, ClientOK, Screen, Waiting, Asking
<1>8. CASE DelReply
  <2>1. toClient' \in Seq(Items)
    BY <1>0, <1>8 DEF DelReply, WireOK
  <2>2. told' \in {"nothing", "sent", "deleted"}
    BY <1>8 DEF DelReply, ClientOK
  <2> QED BY <1>8, <2>1, <2>2 DEF DelReply, Show, WireOK, ClientOK, Screen, Asking
<1> QED BY <1>1, <1>2, <1>3, <1>4, <1>5, <1>6, <1>7, <1>8 DEF Receive

-----------------------------------------------------------------------------
(* Together.                                                                *)

\* Whatever the user types and however the connection ends, every count of the
\* two programs stays in its range, there is something to write whenever the
\* session writes, and neither program counts attachments or mails below zero.
TypeInv == WireOK /\ SessionOK /\ ClientOK

THEOREM TypeInvariant == Spec => []TypeInv
<1>0. Byte \in Nat \ {0} /\ MaxMails \in Nat /\ MaxCommands \in Nat /\ MaxAttached \in Nat
  BY WireAssumption, SessionAssumption, ClientAssumption
<1>1. Init => TypeInv
  <2> SUFFICES ASSUME Init PROVE TypeInv
    OBVIOUS
  <2>1. WireOK
    <3>1. <<>> \in Seq(Items)
      OBVIOUS
    <3>2. hungUp \in BOOLEAN
      BY DEF Init, WireInit
    <3> QED BY <3>1, <3>2 DEF Init, WireInit, WireOK, Link
  <2>2. ClientOK
    <3>1. <<>> \in Seq(Kind)
      OBVIOUS
    <3>2. slip \in BOOLEAN /\ garbled \in BOOLEAN
      BY DEF Init, ClientInit
    <3> QED BY <1>0, <3>1, <3>2 DEF Init, ClientInit, ClientOK, Screen, Waiting
  <2>3. out \in Seq(Seq(Items)) /\ out # <<>> /\ next \in {"cmd", "ended"}
    <3>1. <<OK>> # <<>> /\ <<ERR, Bye>> # <<>>
      OBVIOUS
    <3> QED BY <3>1, RepliesTyped DEF Init, SessionInit
  <2>4. SessionOK
    <3>1. <<>> \in Seq(Kind)
      OBVIOUS
    <3>2. loggedIn \in BOOLEAN /\ outage \in BOOLEAN
      BY DEF Init, SessionInit
    <3> QED BY <1>0, <2>3, <3>1, <3>2 DEF Init, SessionInit, SessionOK, At
  <2> QED BY <2>1, <2>2, <2>4 DEF TypeInv
<1>2. TypeInv /\ [Next]_vars => TypeInv'
  <2> SUFFICES ASSUME TypeInv, [Next]_vars PROVE TypeInv'
    OBVIOUS
  <2> USE DEF TypeInv
  <2>1. CASE ServerStep
    <3>1. WireOK' /\ SessionOK'
      BY <1>0, <2>1, WriteStepsTyped, LoopStepsTyped, SendStepsTyped, MailStepsTyped
         DEF ServerStep, SessionStep
    <3> QED BY <2>1, <3>1 DEF ServerStep, client, ClientOK
  <2>2. CASE ClientStep
    <3>1. WireOK' /\ ClientOK'
      BY <1>0, <2>2, CommandsTyped, TypingTyped, ReceiveTyped DEF ClientStep, UserStep
    <3> QED BY <2>2, <3>1 DEF ClientStep, session, SessionOK
  <2>3. CASE StopServer /\ UNCHANGED client
    <3>1. out' \in Seq(Seq(Items))
      BY <2>3, RepliesTyped DEF StopServer
    <3> QED BY <2>3, <3>1 DEF StopServer, client, WireOK, SessionOK, ClientOK, At
  <2>4. CASE UNCHANGED vars
    BY <2>4 DEF vars, wire, session, client, WireOK, SessionOK, ClientOK
  <2> QED BY <2>1, <2>2, <2>3, <2>4 DEF Next
<1> QED BY <1>1, <1>2, PTL DEF Spec

\* Every state of the client, the session and the connection is well typed.
THEOREM TypeCorrect == Spec => []TypeOK
<1>1. TypeInv => TypeOK
  BY DEF TypeInv, WireOK, SessionOK, ClientOK, Items, TypeOK
<1> QED BY <1>1, TypeInvariant, PTL

-----------------------------------------------------------------------------
(* The conversation of a client and a session that are in step.             *)

InStep == ~Slipped /\ ~Over /\ screen # "gone"

\* What holds of client and session whether they are in step or not.
Basics ==
  /\ screen # "gone" => link = "up"
  /\ at = "dead" => link # "up"
  /\ hungUp => at \in {"ended", "stopped"}
  /\ next = "ended" => at \in {"write", "ended", "dead", "stopped"}
  /\ at = "ended" => next = "ended"
  /\ at \notin {"write", "dead"} => out = <<>>
  /\ garbled => screen \in {"file", "size", "data", "sent?", "gone"}
  /\ told # "nothing" => screen \in {"menu", "gone"}

\* Nothing is under way.
Idle == at = "cmd" /\ toServer = <<>> /\ toClient = <<>>

\* A request, or what the session has not read of it.
Asks(items) == toServer = items /\ toClient = <<>>

\* The session has read everything and answers.  What of the answer is not read
\* yet, written or not, is InFlight: every write is one item.
Answers ==
  /\ toServer = <<>> /\ at \in {"cmd", "write"}
  /\ \A i \in 1..Len(out) : Len(out[i]) = 1

InFlight ==
  [i \in 1..(Len(toClient) + Len(out)) |->
     IF i <= Len(toClient) THEN toClient[i] ELSE out[i - Len(toClient)][1]]

\* Of the name, the size and the contents of every attachment, the one that is
\* read or sent when so many are left.
Part(left) == <<"file", "data", "size">>[(left % 3) + 1]

Parts(items, from) ==
  \A j \in from..Len(items) : items[j] = Item(Part(Len(items) - j + 1))

LoginTalk ==
  \/ at = "cmd" /\ Asks(<<Item("LOGIN"), Item("name"), Item("password")>>)
  \/ at = "user" /\ Asks(<<Item("name"), Item("password")>>)
  \/ at = "password" /\ Asks(<<Item("password")>>)
  \/ Answers /\ InFlight = OK /\ loggedIn
  \/ Answers /\ InFlight = ERR

\* LIST: as many subjects follow as the first line says.
TotalTalk ==
  \/ at = "cmd" /\ Asks(<<Item("LIST")>>)
  \/ Answers /\ InFlight # <<>> /\ InFlight[1].n = Len(InFlight) - 1

SubjectTalk == Answers /\ Len(InFlight) = expect

Letter == <<Item("text"), Item("."), Item("tail")>>

ReadTalk ==
  \/ at = "cmd" /\ Asks(<<Item("READ"), Item("number")>>)
  \/ at = "READ" /\ Asks(<<Item("number")>>)
  \/ Answers /\ InFlight = ERR
  \/ /\ toServer = <<>>
     /\ \/ at = "write" /\ out = <<OK, Letter>> /\ toClient = <<>>
        \/ at = "write" /\ out = <<Letter>> /\ toClient = OK
        \/ at = "cmd" /\ toClient = OK \o Letter

BodyTalk ==
  /\ toServer = <<>>
  /\ \/ at = "write" /\ out = <<Letter>> /\ toClient = <<>>
     \/ at = "cmd" /\ toClient \in {Letter, Tail(Letter)}

AttTalk ==
  \/ at = "cmd" /\ Asks(<<Item("ATT"), Item("number")>>)
  \/ at = "ATT" /\ Asks(<<Item("number")>>)
  \/ Answers /\ InFlight = ERR
  \/ /\ Answers /\ Len(InFlight) >= 2
     /\ InFlight[1] = Item("OK") /\ InFlight[2].kind = "byte"
     /\ Len(InFlight) = 2 + 3 * InFlight[2].n /\ Parts(InFlight, 3)

CountTalk ==
  /\ Answers /\ InFlight # <<>> /\ InFlight[1].kind = "byte"
  /\ Len(InFlight) = 1 + 3 * InFlight[1].n /\ Parts(InFlight, 2)

AttachmentTalk == Answers /\ Len(InFlight) = expect /\ Parts(InFlight, 1)

DeleteTalk ==
  \/ at = "cmd" /\ Asks(<<Item("DEL"), Item("number")>>)
  \/ at = "DEL" /\ Asks(<<Item("number")>>)
  \/ Answers /\ InFlight = OK /\ did = "deleted"
  \/ Answers /\ InFlight = ERR

\* SEND.  What is in flight are up to three lines of the header, then lines of
\* the message up to place d, then the dot, the number of attachments, and of
\* their parts those that are sent and not read.
Announcing == {"file", "size", "data", "sent?"}

Step(place) == IF place = "file" THEN 0 ELSE IF place = "size" THEN 1 ELSE 2

ToSend == IF screen = "sent?" THEN 0 ELSE 3 * expect - Step(screen)
ToRead == 3 * filesLeft - Step(at)

Heading ==
  CASE at = "cmd" -> 3 [] at = "to" -> 2 [] at = "subject" -> 1 [] OTHER -> 0

\* The parts that follow the number of attachments, at place p.
Announced(p) ==
  /\ p <= Len(toServer)
  /\ toServer[p].kind = "byte" /\ toServer[p].n \in 0..(Byte - 1)
  /\ Len(toServer) = p + 3 * toServer[p].n - ToSend
  /\ \A j \in (p + 1)..Len(toServer) :
       toServer[j] = Item(Part(3 * toServer[p].n - (j - p) + 1))

\* No line of the message is read yet.
Fresh == at # "body" \/ mail = <<>>

\* A piece of a line is followed by the rest of it.  The dot is not the first
\* line.
Message(d) ==
  /\ at \in {"cmd", "to", "subject", "body"} /\ toClient = <<>>
  /\ Heading <= d /\ d <= Len(toServer)
  /\ \A i \in 1..Heading :
       toServer[i] = Item(<<"subject", "to", "SEND">>[Heading - i + 1])
  /\ \A i \in (Heading + 1)..d :
       /\ toServer[i].kind \in {"text", "part"}
       /\ toServer[i].kind = "part"
            => IF i < d THEN toServer[i + 1].kind = "text" ELSE screen = "line"
  /\ screen = "message" /\ Fresh /\ d = Heading => typed = <<>>
  /\ screen \in {"message", "line"} => Len(toServer) = d
  /\ screen \notin {"message", "line"} =>
       /\ Fresh => d > Heading
       /\ d < Len(toServer) /\ toServer[d + 1].kind = "."
  /\ screen = "attach" => Len(toServer) = d + 1
  /\ screen \in Announcing => Announced(d + 2)

SendTalk ==
  \/ \E d \in 0..Len(toServer) : Message(d)
  \/ /\ at = "count" /\ toClient = <<>>
     /\ \/ screen = "attach" /\ toServer = <<>>
        \/ screen \in Announcing /\ Announced(1)
  \/ /\ at \in {"file", "size", "data"} /\ toClient = <<>> /\ screen \in Announcing
     /\ Len(toServer) = ToRead - ToSend
     /\ \A j \in 1..Len(toServer) : toServer[j] = Item(Part(ToRead - j + 1))
  \/ screen = "sent?" /\ Answers /\ InFlight = OK /\ did = "saved"

Talk ==
  /\ screen # "lost"
  /\ screen \notin {"greeting", "login", "login?"} => loggedIn
  /\ screen = "greeting" => Answers /\ InFlight = OK
  /\ screen \in {"login", "menu"} => Idle
  /\ screen = "menu" => (told = "sent" => did = "saved") /\ (told = "deleted" => did = "deleted")
  /\ screen = "login?" => LoginTalk
  /\ screen = "total?" => TotalTalk
  /\ screen = "subject?" => SubjectTalk
  /\ screen = "read?" => ReadTalk
  /\ screen = "body?" => BodyTalk
  /\ screen = "drain" => at = "cmd" /\ toServer = <<>> /\ toClient = <<Item("tail")>>
  /\ screen = "att?" => AttTalk
  /\ screen = "count?" => CountTalk
  /\ screen = "attachment?" => AttachmentTalk
  /\ screen = "deleted?" => DeleteTalk
  /\ screen \in {"message", "line", "attach"} \cup Announcing => SendTalk

TalkInv == TypeInv /\ Basics /\ (InStep => Talk)

-----------------------------------------------------------------------------
(* Basics.                                                                  *)

LEMMA BasicsServer ==
  ASSUME TypeInv, Basics, ServerStep
  PROVE  Basics'
<1>1. UNCHANGED <<screen, garbled, told>>
  BY DEF ServerStep, client
<1>2. CASE WriteNext
  <2>1. at' \in {"write", next} /\ (at' # "write" => out' = <<>>) /\ next' = next /\ at = "write"
    BY <1>2 DEF WriteNext
  <2>2. link = "up" => link' = "up"
    BY <1>2 DEF WriteNext, Writes, WriteFails
  <2>3. hungUp' = (at' = "ended")
    BY <1>2 DEF WriteNext
  <2> QED BY <1>1, <2>1, <2>2, <2>3 DEF Basics, TypeInv, SessionOK
<1>3. CASE BrokenPipe
  BY <1>1, <1>3 DEF BrokenPipe, wire, Basics, TypeInv, SessionOK
<1>4. CASE ~WriteNext /\ ~BrokenPipe
  <2>1. /\ UNCHANGED <<link, hungUp>> /\ at \notin {"write", "ended", "dead", "stopped"}
        /\ \/ UNCHANGED <<out, next>> /\ at' \notin {"write", "ended", "dead", "stopped"}
           \/ at' = "write"
    BY <1>4 DEF ServerStep, SessionStep, SkipEmpty, SkipLine, ReadQuit, ReadCommand, ReadLogin,
                ReadUser, ReadPassword, Logout, ReadHeader, ReadBody, ReadCount, ReadFileName,
                ReadFileSize, ReadFileData, ReadJunk, List, Read, Att, Del, FileRead, Save,
                Answer, Leave, session
  <2> QED BY <1>1, <2>1 DEF Basics
<1> QED BY <1>2, <1>3, <1>4

LEMMA BasicsClient ==
  ASSUME TypeInv, Basics, ClientStep
  PROVE  Basics'
<1>1. UNCHANGED <<at, out, next>>
  BY DEF ClientStep, session
<1>2. UNCHANGED hungUp
  BY DEF ClientStep, UserStep, Receive, Login, ChooseLogout, ChooseSend, ChooseList, ChooseRead,
         ChooseDelete, Begin, Quit, Kill, TypeLine, TypePiece, TypeRest, TypeDot, Attach,
         SendFile, SkipFile, SendWrongSize, wire, Greeted, LoginReply, SentReply, TotalLine, SubjectLine,
         ReadReply, BodyLine, Drain, AttReply, CountByte, AttachmentPart, DelReply
<1>3. screen # "gone"
  BY DEF ClientStep, UserStep, Receive, Login, ChooseLogout, ChooseSend, ChooseList, ChooseRead,
         ChooseDelete, Begin, Quit, Kill, TypeLine, TypePiece, TypeRest, TypeDot, Attach,
         SendFile, SkipFile, SendWrongSize, Greeted, LoginReply, SentReply, TotalLine, SubjectLine,
         ReadReply, BodyLine, Drain, AttReply, CountByte, AttachmentPart, DelReply, Show
<1>4. IF screen' = "gone" THEN link' \in {"closed", "reset"} ELSE link' = link
  BY DEF ClientStep, UserStep, Receive, Login, ChooseLogout, ChooseSend, ChooseList, ChooseRead,
         ChooseDelete, Begin, Quit, Kill, TypeLine, TypePiece, TypeRest, TypeDot, Attach,
         SendFile, SkipFile, SendWrongSize, wire, Greeted, LoginReply, SentReply, TotalLine, SubjectLine,
         ReadReply, BodyLine, Drain, AttReply, CountByte, AttachmentPart, DelReply, Show, Closes
<1>5. garbled' => screen' \in {"file", "size", "data", "sent?", "gone"}
  <2>1. CASE Attach
    <3>1. PICK n \in Chosen :
            /\ Show("attach", IF n % Byte = 0 THEN "sent?" ELSE "file")
      BY <2>1 DEF Attach
    <3> QED BY <3>1 DEF Show
  <2>2. CASE ~Attach
    BY <2>2 DEF ClientStep, UserStep, Receive, Login, ChooseLogout, ChooseSend, ChooseList,
         ChooseRead, ChooseDelete, Begin, Quit, Kill, TypeLine, TypePiece, TypeRest, TypeDot,
         SendFile, SkipFile, SendWrongSize, Greeted, LoginReply, SentReply, TotalLine, SubjectLine, ReadReply,
         BodyLine, Drain, AttReply, CountByte, AttachmentPart, DelReply, Show, Basics
  <2> QED BY <2>1, <2>2
<1>6. told' # "nothing" => screen' \in {"menu", "gone"}
  BY DEF ClientStep, UserStep, Receive, Login, ChooseLogout, ChooseSend, ChooseList, ChooseRead,
         ChooseDelete, Begin, Quit, Kill, TypeLine, TypePiece, TypeRest, TypeDot, Attach,
         SendFile, SkipFile, SendWrongSize, Greeted, LoginReply, SentReply, TotalLine, SubjectLine,
         ReadReply, BodyLine, Drain, AttReply, CountByte, AttachmentPart, DelReply, Show, Basics
<1> QED BY <1>1, <1>2, <1>3, <1>4, <1>5, <1>6 DEF Basics

LEMMA BasicsInvariant == Spec => []Basics
<1>1. Init => Basics
  BY DEF Init, WireInit, SessionInit, ClientInit, Basics
<1>2. TypeInv /\ Basics /\ [Next]_vars => Basics'
  <2> SUFFICES ASSUME TypeInv, Basics, [Next]_vars PROVE Basics'
    OBVIOUS
  <2>1. CASE StopServer /\ UNCHANGED client
    BY <2>1 DEF StopServer, client, Basics
  <2>2. CASE UNCHANGED vars
    BY <2>2 DEF vars, wire, session, client, Basics
  <2> QED BY <2>1, <2>2, BasicsServer, BasicsClient DEF Next
<1> QED BY <1>1, <1>2, TypeInvariant, PTL DEF Spec

\* Client and session that are out of step stay so.
LEMMA InStepBefore ==
  ASSUME TypeInv, Basics, ServerStep \/ ClientStep, InStep'
  PROVE  InStep
<1>1. CASE ServerStep
  <2>1. UNCHANGED <<screen, slip, garbled>>
    BY <1>1 DEF ServerStep, client
  <2>2. outage => outage'
    <3>1. CASE ReadPassword
      BY <3>1 DEF ReadPassword
    <3>2. CASE ~ReadPassword
      BY <1>1, <3>2
         DEF ServerStep, SessionStep, WriteNext, BrokenPipe, SkipEmpty, SkipLine, ReadQuit,
             ReadCommand, ReadLogin, ReadUser, Logout, ReadHeader, ReadBody, ReadCount,
             ReadFileName, ReadFileSize, ReadFileData, ReadJunk, List, Read, Att, Del,
             FileRead, session
    <3> QED BY <3>1, <3>2
  <2>3. Over => Over'
    <3>1. CASE WriteNext \/ BrokenPipe
      BY <3>1 DEF WriteNext, BrokenPipe, Over
    <3>2. CASE ~WriteNext /\ ~BrokenPipe
      <4>1. at \notin {"write", "spin", "ended", "dead", "stopped"}
        BY <1>1, <3>2 DEF ServerStep, SessionStep, SkipEmpty, SkipLine, ReadQuit, ReadCommand,
           ReadLogin, ReadUser, ReadPassword, Logout, ReadHeader, ReadBody, ReadCount,
           ReadFileName, ReadFileSize, ReadFileData, ReadJunk, List, Read, Att, Del
      <4> QED BY <4>1 DEF Basics, Over
    <3> QED BY <3>1, <3>2
  <2> QED BY <2>1, <2>2, <2>3 DEF InStep, Slipped
<1>2. CASE ClientStep
  <2>1. UNCHANGED <<outage, at, next>>
    BY <1>2 DEF ClientStep, session
  <2>2. slip => slip'
    BY <1>2 DEF ClientStep, UserStep, Receive, Login, ChooseLogout, ChooseSend, ChooseList,
       ChooseRead, ChooseDelete, Begin, Quit, Kill, TypeLine, TypePiece, TypeRest, TypeDot, Attach,
       SendFile, SkipFile, SendWrongSize, Greeted, LoginReply, SentReply, TotalLine, SubjectLine,
       ReadReply, BodyLine, Drain, AttReply, CountByte, AttachmentPart, DelReply
  <2>3. garbled => garbled' \/ slip'
    <3>1. CASE Attach
      BY <3>1 DEF Attach, Show, Basics
    <3>2. CASE ~Attach
      BY <1>2, <3>2 DEF ClientStep, UserStep, Receive, Login, ChooseLogout, ChooseSend, ChooseList,
         ChooseRead, ChooseDelete, Begin, Quit, Kill, TypeLine, TypePiece, TypeRest, TypeDot,
         SendFile, SkipFile, SendWrongSize, Greeted, LoginReply, SentReply, TotalLine, SubjectLine,
         ReadReply, BodyLine, Drain, AttReply, CountByte, AttachmentPart, DelReply
    <3> QED BY <3>1, <3>2
  <2>4. screen # "gone"
    BY <1>2 DEF ClientStep, UserStep, Receive, Login, ChooseLogout, ChooseSend, ChooseList,
       ChooseRead, ChooseDelete, Begin, Quit, Kill, TypeLine, TypePiece, TypeRest, TypeDot, Attach,
       SendFile, SkipFile, SendWrongSize, Greeted, LoginReply, SentReply, TotalLine, SubjectLine,
       ReadReply, BodyLine, Drain, AttReply, CountByte, AttachmentPart, DelReply, Show
  <2> QED BY <2>1, <2>2, <2>3, <2>4 DEF InStep, Slipped, Over
<1> QED BY <1>1, <1>2

-----------------------------------------------------------------------------
(* Steps of the session while it is in step.                                *)

\* With the client there, readline takes a line that ends, or a piece of a line
\* and the rest of it.
LEMMA ReadsLineInStep ==
  ASSUME TypeInv, link = "up", NEW l, ReadsLine(l)
  PROVE  /\ toServer # <<>>
         /\ ~Unfinished(Head(toServer)) /\ Head(toServer).kind # "byte"
              => l = Head(toServer).kind /\ toServer' = Tail(toServer)
         /\ Head(toServer).kind = "part"
              => Tail(toServer) # <<>> /\ l = "text" /\ toServer' = Tail(Tail(toServer))
BY DEF ReadsLine, AtEnd, Unfinished

LEMMA Finished ==
  \A k \in Kind \ {"part", "data"} : ~Unfinished(Item(k)) /\ Item(k).kind = k
BY DEF Unfinished, Item

LEMMA ItemKind == \A k : Item(k).kind = k /\ Item(k).n = 0
BY DEF Item

\* Where the thread is decides what it does next.
LEMMA PlaceDecides ==
  ASSUME SessionStep
  PROVE  /\ at \notin {"spin", "ended", "dead", "stopped"}
         /\ at = "write" => WriteNext \/ BrokenPipe
         /\ at = "cmd" => SkipEmpty \/ SkipLine \/ ReadQuit \/ ReadCommand \/ ReadLogin
                            \/ Logout \/ List
         /\ at = "user" => ReadUser
         /\ at = "password" => ReadPassword
         /\ at \in {"to", "subject"} => ReadHeader
         /\ at = "body" => ReadBody
         /\ at = "count" => ReadCount
         /\ at = "file" => ReadFileName
         /\ at = "size" => ReadFileSize
         /\ at = "data" => ReadFileData
         /\ at = "READ" => Read
         /\ at = "ATT" => Att
         /\ at = "DEL" => Del
BY DEF SessionStep, WriteNext, BrokenPipe, SkipEmpty, SkipLine, ReadQuit, ReadCommand, ReadLogin,
       ReadUser, ReadPassword, Logout, ReadHeader, ReadBody, ReadCount, ReadFileName,
       ReadFileSize, ReadFileData, ReadJunk, List, Read, Att, Del

\* In its loop the session waits for a line.
LEMMA LoopReads ==
  ASSUME TypeInv, link = "up", at = "cmd", SessionStep
  PROVE  toServer # <<>>
BY PlaceDecides, ReadsLineInStep
   DEF SkipEmpty, SkipLine, ReadQuit, ReadCommand, ReadLogin, Logout, List

\* The first line is a command: whoever sends it is logged in, but for LOGIN.
LEMMA CommandDecides ==
  ASSUME TypeInv, link = "up", at = "cmd", SessionStep,
         NEW c \in {"LOGIN", "SEND", "LIST", "READ", "ATT", "DEL"},
         toServer # <<>>, Head(toServer) = Item(c), c # "LOGIN" => loggedIn
  PROVE  /\ toServer' = Tail(toServer) /\ UNCHANGED <<toClient, link, hungUp>>
         /\ c = "LOGIN" => ReadLogin
         /\ c = "LIST" => List
         /\ c = "SEND" => ReadCommand /\ at' = "to" /\ UNCHANGED <<loggedIn, out>>
         /\ c \in {"READ", "ATT", "DEL"} => ReadCommand /\ at' = c /\ UNCHANGED <<loggedIn, out>>
<1>1. c \in Kind \ {"part", "data", "byte"} /\ c \in Command
  BY DEF Kind, Command
<1>2. \A l : ReadsLine(l) => l = c /\ toServer' = Tail(toServer)
  BY <1>1, Finished, ReadsLineInStep
<1>3. ~SkipEmpty /\ ~ReadQuit /\ ~Logout /\ ~SkipLine
  BY <1>1, <1>2 DEF SkipEmpty, ReadQuit, Logout, SkipLine
<1>4. ReadCommand \/ ReadLogin \/ List
  BY <1>3, PlaceDecides
<1> QED BY <1>2, <1>4 DEF ReadCommand, ReadLogin, List

\* What answers, and what of the answer is in flight, in the next state.
LEMMA AnswerStarts ==
  ASSUME NEW writes \in Seq(Seq(Items)), Answer(writes), toServer' = <<>>, toClient' = <<>>,
         \A i \in 1..Len(writes) : Len(writes[i]) = 1
  PROVE  /\ Answers' /\ Len(InFlight') = Len(writes)
         /\ \A i \in 1..Len(writes) : InFlight'[i] = writes[i][1]
         /\ InFlight' \in Seq(Items)
<1>1. out' = writes /\ at' = "write"
  BY DEF Answer
<1>2. \A i \in 1..Len(writes) : writes[i][1] \in Items
  OBVIOUS
<1>3. [i \in 1..Len(writes) |-> writes[i][1]] \in Seq(Items)
  BY <1>2
<1>4. InFlight' = [i \in 1..Len(writes) |-> writes[i][1]]
  BY <1>1 DEF InFlight
<1> QED BY <1>1, <1>3, <1>4 DEF Answers

LEMMA AnswerOne ==
  ASSUME NEW i \in Items, Answer(<<<<i>>>>), toServer' = <<>>, toClient' = <<>>
  PROVE  Answers' /\ InFlight' = <<i>>
<1> DEFINE writes == <<<<i>>>>
<1>1. /\ writes \in Seq(Seq(Items)) /\ Len(writes) = 1 /\ Answer(writes)
      /\ \A j \in 1..Len(writes) : Len(writes[j]) = 1
      /\ writes[1][1] = i
  OBVIOUS
<1> HIDE DEF writes
<1>2. Answers' /\ Len(InFlight') = 1 /\ InFlight' \in Seq(Items) /\ InFlight'[1] = i
  BY <1>1, AnswerStarts
<1> QED BY <1>2

LEMMA FlightTyped == ASSUME TypeInv, Answers PROVE InFlight \in Seq(Items)
<1>1. \A i \in 1..Len(out) : out[i] \in Seq(Items)
  BY DEF TypeInv, SessionOK
<1>2. \A i \in 1..Len(out) : out[i][1] \in Items
  BY <1>1 DEF Answers
<1>3. Len(out) \in Nat /\ Len(toClient) \in Nat
  BY DEF TypeInv, SessionOK, WireOK
<1>4. \A i \in 1..Len(toClient) : toClient[i] \in Items
  BY DEF TypeInv, WireOK
<1>5. Len(toClient) + Len(out) \in Nat
  BY <1>3
<1>6. ASSUME NEW i \in 1..(Len(toClient) + Len(out))
      PROVE  (IF i <= Len(toClient) THEN toClient[i] ELSE out[i - Len(toClient)][1]) \in Items
  <2>1. CASE i <= Len(toClient)
    BY <1>3, <1>4, <2>1
  <2>2. CASE i > Len(toClient)
    <3>1. i - Len(toClient) \in 1..Len(out)
      BY <1>3, <2>2
    <3> QED BY <1>2, <1>3, <2>2, <3>1
  <2> QED BY <1>3, <2>1, <2>2
<1> QED BY <1>5, <1>6 DEF InFlight

\* While the session answers, the writes move on what is in flight and nothing
\* else happens.
LEMMA AnswersGoOn ==
  ASSUME TypeInv, Basics, link = "up", ~Over, Answers, ServerStep
  PROVE  /\ Answers' /\ InFlight' = InFlight
         /\ UNCHANGED <<client, loggedIn, did>>
<1>1. WriteNext
  BY LoopReads, PlaceDecides DEF Answers, ServerStep, BrokenPipe
<1>2. /\ at = "write" /\ toClient' = toClient \o Head(out) /\ out' = Tail(out)
      /\ UNCHANGED toServer
  BY <1>1 DEF WriteNext, Writes, WriteFails
<1>3. at' \in {"cmd", "write"}
  BY <1>1 DEF WriteNext, Over, TypeInv, SessionOK
<1>4. out \in Seq(Seq(Items)) /\ out # <<>>
  BY <1>2 DEF TypeInv, SessionOK
<1>5. Len(Head(out)) = 1 /\ Head(out) \in Seq(Items)
  BY <1>4 DEF Answers
<1>6. /\ Len(Tail(out)) = Len(out) - 1
      /\ \A i \in 1..(Len(out) - 1) : Tail(out)[i] = out[i + 1]
  BY <1>4
<1>7. Answers'
  BY <1>2, <1>3, <1>4, <1>6 DEF Answers
<1>8. InFlight' = InFlight
  <2>1. PICK x \in Items : Head(out) = <<x>>
    BY <1>5
  <2>2. x = out[1][1]
    BY <1>4, <2>1
  <2>3. toClient \in Seq(Items) /\ toClient' = toClient \o <<x>>
    BY <1>2, <2>1 DEF TypeInv, WireOK
  <2>4. /\ Len(toClient') = Len(toClient) + 1
        /\ \A i \in 1..Len(toClient) : toClient'[i] = toClient[i]
        /\ toClient'[Len(toClient) + 1] = x
    BY <2>3
  <2>5. Len(out') = Len(out) - 1 /\ \A i \in 1..(Len(out) - 1) : out'[i] = out[i + 1]
    BY <1>2, <1>6
  <2>6. Len(toClient) \in Nat /\ Len(out) \in Nat \ {0}
    BY <1>4, <2>3
  <2>7. ASSUME NEW i \in 1..(Len(toClient) + Len(out))
        PROVE  (IF i <= Len(toClient') THEN toClient'[i] ELSE out'[i - Len(toClient')][1])
                 = (IF i <= Len(toClient) THEN toClient[i] ELSE out[i - Len(toClient)][1])
    <3>1. CASE i <= Len(toClient)
      BY <2>4, <2>6, <3>1
    <3>2. CASE i = Len(toClient) + 1
      BY <2>2, <2>4, <2>6, <3>2
    <3>3. CASE i > Len(toClient) + 1
      <4>1. i - Len(toClient) - 1 \in 1..(Len(out) - 1)
        BY <2>6, <3>3
      <4>2. out'[i - Len(toClient) - 1] = out[i - Len(toClient)]
        BY <2>5, <2>6, <4>1
      <4>3. i - Len(toClient') = i - Len(toClient) - 1 /\ ~(i <= Len(toClient'))
        BY <2>4, <2>6, <3>3
      <4> QED BY <2>6, <3>3, <4>2, <4>3
    <3> QED BY <2>6, <3>1, <3>2, <3>3
  <2>8. Len(toClient') + Len(out') = Len(toClient) + Len(out)
    BY <2>4, <2>5, <2>6
  <2> QED BY <2>7, <2>8 DEF InFlight
<1> QED BY <1>1, <1>7, <1>8 DEF ServerStep, WriteNext

LEMMA ReadsThis ==
  ASSUME TypeInv, link = "up", NEW k \in Kind \ {"part", "data", "byte"},
         Head(toServer) = Item(k), NEW l, ReadsLine(l)
  PROVE  l = k /\ toServer' = Tail(toServer)
BY Finished, ReadsLineInStep

LEMMA AnswersOk ==
  ASSUME Answer(<<OK>>), toServer' = <<>>, toClient' = <<>>
  PROVE  Answers' /\ InFlight' = OK
<1>1. Item("OK") \in Items
  BY ItemTyped DEF Kind
<1> QED BY <1>1, AnswerOne DEF OK

LEMMA AnswersErr ==
  ASSUME Answer(<<ERR>>), toServer' = <<>>, toClient' = <<>>
  PROVE  Answers' /\ InFlight' = ERR
<1>1. Item("ERR") \in Items
  BY ItemTyped DEF Kind
<1> QED BY <1>1, AnswerOne DEF ERR

LEMMA LoginServer ==
  ASSUME TypeInv, Basics, InStep, InStep', ServerStep, LoginTalk
  PROVE  LoginTalk'
<1>0. link = "up" /\ SessionStep /\ ~Over /\ ~Over' /\ ~outage'
  BY DEF Basics, InStep, ServerStep, Slipped
<1>1. CASE at = "cmd" /\ Asks(<<Item("LOGIN"), Item("name"), Item("password")>>)
  <2>1. ReadLogin /\ toServer' = <<Item("name"), Item("password")>> /\ toClient' = <<>>
    BY <1>0, <1>1, CommandDecides DEF Asks
  <2>2. at' = "user"
    BY <1>0, <2>1 DEF ReadLogin, Leave, Over
  <2> QED BY <2>1, <2>2 DEF LoginTalk, Asks
<1>2. CASE at = "user" /\ Asks(<<Item("name"), Item("password")>>)
  <2>1. ReadUser
    BY <1>0, <1>2, PlaceDecides
  <2>2. "name" \in Kind \ {"part", "data", "byte"} /\ Head(toServer) = Item("name")
    BY <1>2 DEF Kind, Asks
  <2>3. PICK l \in Kind : /\ ReadsLine(l)
                          /\ \/ l # "empty" /\ at' = "password" /\ UNCHANGED <<out, next>>
                             \/ l = "empty" /\ Answer(<<ERR, ERR>>)
    BY <2>1 DEF ReadUser
  <2>4. l = "name" /\ toServer' = Tail(toServer)
    BY <1>0, <2>2, <2>3, ReadsThis
  <2>5. at' = "password" /\ toServer' = <<Item("password")>> /\ toClient' = <<>>
    BY <1>2, <2>1, <2>3, <2>4 DEF ReadUser, Asks
  <2> QED BY <2>5 DEF LoginTalk, Asks
<1>3. CASE at = "password" /\ Asks(<<Item("password")>>)
  <2>1. ReadPassword
    BY <1>0, <1>3, PlaceDecides
  <2>2. "password" \in Kind \ {"part", "data", "byte"} /\ Head(toServer) = Item("password")
    BY <1>3 DEF Kind, Asks
  <2>3. \A l : ReadsLine(l) => l = "password" /\ toServer' = Tail(toServer)
    BY <1>0, <2>2, ReadsThis
  <2>4. toServer' = <<>> /\ toClient' = <<>>
    BY <1>3, <2>1, <2>3 DEF ReadPassword, Asks
  <2>5. (Answer(<<OK>>) /\ loggedIn') \/ Answer(<<ERR>>)
    BY <1>0, <2>1, <2>3 DEF ReadPassword
  <2> QED BY <2>4, <2>5, AnswersOk, AnswersErr DEF LoginTalk
<1>4. CASE Answers /\ ((InFlight = OK /\ loggedIn) \/ InFlight = ERR)
  BY <1>0, <1>4, AnswersGoOn DEF LoginTalk
<1> QED BY <1>1, <1>2, <1>3, <1>4 DEF LoginTalk

LEMMA RepeatThree ==
  ASSUME NEW n \in Nat, NEW writes, Len(writes) = 3
  PROVE  /\ Len(Repeat(n, writes)) = n * 3
         /\ \A i \in 1..(n * 3) : Repeat(n, writes)[i] = writes[((i - 1) % 3) + 1]
<1> DEFINE m == n * 3
<1>1. m \in Nat
  OBVIOUS
<1> HIDE DEF m
<1>2. Repeat(n, writes) = [i \in 1..m |-> writes[((i - 1) % 3) + 1]]
  BY DEF Repeat, m
<1>3. Len(Repeat(n, writes)) = m
  BY <1>1, <1>2
<1>4. \A i \in 1..m : Repeat(n, writes)[i] = writes[((i - 1) % 3) + 1]
  BY <1>2
<1> QED BY <1>3, <1>4 DEF m

LEMMA RepeatOne ==
  ASSUME NEW S, NEW n \in Nat, NEW x \in S
  PROVE  /\ Repeat(n, <<x>>) \in Seq(S) /\ Len(Repeat(n, <<x>>)) = n
         /\ \A i \in 1..n : Repeat(n, <<x>>)[i] = x
<1>1. Repeat(n, <<x>>) = [i \in 1..n |-> <<x>>[((i - 1) % 1) + 1]]
  BY DEF Repeat
<1>2. \A i \in 1..n : <<x>>[((i - 1) % 1) + 1] = x
  OBVIOUS
<1>3. Repeat(n, <<x>>) = [i \in 1..n |-> x]
  BY <1>1, <1>2
<1> QED BY <1>3

LEMMA Prepended ==
  ASSUME NEW S, NEW x \in S, NEW s \in Seq(S)
  PROVE  /\ <<x>> \o s \in Seq(S) /\ Len(<<x>> \o s) = Len(s) + 1
         /\ (<<x>> \o s)[1] = x /\ \A i \in 2..(Len(s) + 1) : (<<x>> \o s)[i] = s[i - 1]
OBVIOUS

LEMMA TotalServer ==
  ASSUME TypeInv, Basics, InStep, InStep', ServerStep, TotalTalk, loggedIn
  PROVE  TotalTalk' /\ loggedIn'
<1>0. link = "up" /\ SessionStep /\ ~Over
  BY DEF Basics, InStep, ServerStep
<1>1. CASE at = "cmd" /\ Asks(<<Item("LIST")>>)
  <2>1. List /\ toServer' = <<>> /\ toClient' = <<>>
    BY <1>0, <1>1, CommandDecides DEF Asks
  <2>2. CASE Answer(<<ERR>>)
    <3>1. Answers' /\ InFlight' = ERR
      BY <2>1, <2>2, AnswersErr
    <3>2. InFlight' # <<>> /\ InFlight'[1].n = 0 /\ Len(InFlight') = 1
      BY <3>1, ItemKind DEF ERR
    <3> QED BY <2>1, <3>1, <3>2 DEF TotalTalk, List
  <2>3. CASE \E n \in 0..MaxMails :
               Answer(<<<<Numbered("total", n)>>>> \o Repeat(n, <<<<Item("subject")>>>>))
    <3>1. PICK n \in 0..MaxMails :
               Answer(<<<<Numbered("total", n)>>>> \o Repeat(n, <<<<Item("subject")>>>>))
      BY <2>3
    <3>2. n \in Nat /\ "total" \in Kind /\ "subject" \in Kind
      BY SessionAssumption DEF Kind
    <3>3. Numbered("total", n) \in Items /\ Item("subject") \in Items
      BY <3>2, ItemTyped, NumberedTyped
    <3> DEFINE total == <<Numbered("total", n)>>
               subject == <<Item("subject")>>
               subjects == Repeat(n, <<subject>>)
               writes == <<total>> \o subjects
    <3>4. total \in Seq(Items) /\ subject \in Seq(Items)
      BY <3>3
    <3>5. /\ total[1] = Numbered("total", n)
          /\ \A w \in {total, subject} : Len(w) = 1
      OBVIOUS
    <3>6. Answer(writes)
      BY <3>1
    <3> HIDE DEF subject, total
    <3>7. /\ subjects \in Seq(Seq(Items)) /\ Len(subjects) = n
          /\ \A i \in 1..n : subjects[i] = subject
      BY <3>2, <3>4, RepeatOne
    <3> HIDE DEF subjects
    <3>8. /\ writes \in Seq(Seq(Items)) /\ Len(writes) = n + 1
          /\ writes[1] = total /\ \A i \in 2..(n + 1) : writes[i] = subject
      BY <3>2, <3>4, <3>7, Prepended
    <3> HIDE DEF writes
    <3>9. \A i \in 1..Len(writes) : Len(writes[i]) = 1
      <4> TAKE i \in 1..Len(writes)
      <4>1. writes[i] \in {total, subject}
        BY <3>2, <3>8
      <4> QED BY <3>5, <4>1
    <3>10. /\ Answers' /\ Len(InFlight') = Len(writes) /\ InFlight' \in Seq(Items)
           /\ \A i \in 1..Len(writes) : InFlight'[i] = writes[i][1]
      BY <2>1, <3>6, <3>8, <3>9, AnswerStarts, Zenon
    <3>11. InFlight'[1] = Numbered("total", n) /\ Len(InFlight') = n + 1
      BY <3>2, <3>5, <3>8, <3>10
    <3> QED BY <2>1, <3>2, <3>10, <3>11 DEF TotalTalk, List, Numbered
  <2> QED BY <2>1, <2>2, <2>3 DEF List
<1>2. CASE Answers /\ InFlight # <<>> /\ InFlight[1].n = Len(InFlight) - 1
  BY <1>0, <1>2, AnswersGoOn DEF TotalTalk
<1> QED BY <1>1, <1>2 DEF TotalTalk

\* One write of the session.
LEMMA WriteDone ==
  ASSUME TypeInv, link = "up", ~Over, at = "write", ServerStep
  PROVE  /\ toClient' = toClient \o Head(out) /\ out' = Tail(out)
         /\ at' = IF out' = <<>> THEN "cmd" ELSE "write"
         /\ UNCHANGED <<client, toServer, loggedIn, did>>
<1>1. WriteNext
  BY PlaceDecides DEF ServerStep, BrokenPipe
<1>2. next = "cmd"
  BY DEF Over, TypeInv, SessionOK
<1> QED BY <1>1, <1>2 DEF WriteNext, Writes, WriteFails, ServerStep

LEMMA LetterTyped ==
  /\ Letter \in Seq(Items) /\ OK \in Seq(Items)
  /\ Head(<<OK, Letter>>) = OK /\ Tail(<<OK, Letter>>) = <<Letter>>
  /\ Head(<<Letter>>) = Letter /\ Tail(<<Letter>>) = <<>>
  /\ <<>> \o OK = OK /\ <<>> \o Letter = Letter
<1>1. "text" \in Kind /\ "." \in Kind /\ "tail" \in Kind
  BY DEF Kind
<1>2. Item("text") \in Items /\ Item(".") \in Items /\ Item("tail") \in Items
  BY <1>1, ItemTyped
<1>3. Letter \in Seq(Items) /\ OK \in Seq(Items)
  BY <1>2, AnswersTyped DEF Letter
<1>4. <<>> \o OK = OK /\ <<>> \o Letter = Letter
  BY <1>3
<1> QED BY <1>3, <1>4

LEMMA ReadServer ==
  ASSUME TypeInv, Basics, InStep, InStep', ServerStep, ReadTalk, loggedIn
  PROVE  ReadTalk' /\ loggedIn'
<1>0. link = "up" /\ SessionStep /\ ~Over
  BY DEF Basics, InStep, ServerStep
<1>1. CASE at = "cmd" /\ Asks(<<Item("READ"), Item("number")>>)
  <2>1. /\ toServer' = <<Item("number")>> /\ toClient' = <<>>
        /\ at' = "READ" /\ loggedIn' = loggedIn
    BY <1>0, <1>1, CommandDecides DEF Asks
  <2> QED BY <2>1 DEF ReadTalk, Asks
<1>2. CASE at = "READ" /\ Asks(<<Item("number")>>)
  <2>1. Read
    BY <1>0, <1>2, PlaceDecides
  <2>2. "number" \in Kind \ {"part", "data", "byte"} /\ Head(toServer) = Item("number")
    BY <1>2 DEF Kind, Asks
  <2>3. \A l : ReadsLine(l) => l = "number" /\ toServer' = Tail(toServer)
    BY <1>0, <2>2, ReadsThis
  <2>4. toServer' = <<>> /\ toClient' = <<>> /\ loggedIn' = loggedIn
    BY <1>2, <2>1, <2>3 DEF Read, Asks
  <2>5. Answer(<<OK, Letter>>) \/ Answer(<<ERR>>)
    BY <2>1 DEF Read, Letter
  <2>6. CASE Answer(<<OK, Letter>>)
    BY <2>4, <2>6 DEF Answer, ReadTalk
  <2> QED BY <2>4, <2>5, <2>6, AnswersErr DEF ReadTalk
<1>3. CASE Answers /\ InFlight = ERR
  BY <1>0, <1>3, AnswersGoOn DEF ReadTalk
<1>4. CASE toServer = <<>> /\ at = "write" /\ out = <<OK, Letter>> /\ toClient = <<>>
  <2>1. toClient' = OK /\ out' = <<Letter>> /\ toServer' = <<>> /\ loggedIn'
    BY <1>0, <1>4, WriteDone, LetterTyped
  <2>2. at' = "write"
    BY <1>0, <1>4, <2>1, WriteDone
  <2> QED BY <2>1, <2>2 DEF ReadTalk
<1>5. CASE toServer = <<>> /\ at = "write" /\ out = <<Letter>> /\ toClient = OK
  BY <1>0, <1>5, WriteDone, LetterTyped DEF ReadTalk
<1>6. CASE toServer = <<>> /\ at = "cmd" /\ toClient = OK \o Letter
  BY <1>0, <1>6, LoopReads
<1> QED BY <1>1, <1>2, <1>3, <1>4, <1>5, <1>6 DEF ReadTalk

LEMMA BodyServer ==
  ASSUME TypeInv, Basics, InStep, InStep', ServerStep, BodyTalk, loggedIn
  PROVE  BodyTalk' /\ loggedIn'
<1>0. link = "up" /\ SessionStep /\ ~Over
  BY DEF Basics, InStep, ServerStep
<1>1. CASE toServer = <<>> /\ at = "write" /\ out = <<Letter>> /\ toClient = <<>>
  BY <1>0, <1>1, WriteDone, LetterTyped DEF BodyTalk
<1>2. CASE toServer = <<>> /\ at = "cmd"
  BY <1>0, <1>2, LoopReads
<1> QED BY <1>1, <1>2 DEF BodyTalk

LEMMA DeleteServer ==
  ASSUME TypeInv, Basics, InStep, InStep', ServerStep, DeleteTalk, loggedIn
  PROVE  DeleteTalk' /\ loggedIn'
<1>0. link = "up" /\ SessionStep /\ ~Over
  BY DEF Basics, InStep, ServerStep
<1>1. CASE at = "cmd" /\ Asks(<<Item("DEL"), Item("number")>>)
  <2>1. /\ toServer' = <<Item("number")>> /\ toClient' = <<>>
        /\ at' = "DEL" /\ loggedIn' = loggedIn
    BY <1>0, <1>1, CommandDecides DEF Asks
  <2> QED BY <2>1 DEF DeleteTalk, Asks
<1>2. CASE at = "DEL" /\ Asks(<<Item("number")>>)
  <2>1. Del
    BY <1>0, <1>2, PlaceDecides
  <2>2. "number" \in Kind \ {"part", "data", "byte"} /\ Head(toServer) = Item("number")
    BY <1>2 DEF Kind, Asks
  <2>3. \A l : ReadsLine(l) => l = "number" /\ toServer' = Tail(toServer)
    BY <1>0, <2>2, ReadsThis
  <2>4. toServer' = <<>> /\ toClient' = <<>> /\ loggedIn' = loggedIn
    BY <1>2, <2>1, <2>3 DEF Del, Asks
  <2>5. (Answer(<<OK>>) /\ did' = "deleted") \/ Answer(<<ERR>>)
    BY <2>1 DEF Del
  <2> QED BY <2>4, <2>5, AnswersOk, AnswersErr DEF DeleteTalk
<1>3. CASE Answers /\ ((InFlight = OK /\ did = "deleted") \/ InFlight = ERR)
  BY <1>0, <1>3, AnswersGoOn DEF DeleteTalk
<1> QED BY <1>1, <1>2, <1>3 DEF DeleteTalk

\* ATT writes name, size and contents of every file in turn.
LEMMA Countdown ==
  ASSUME NEW n \in Nat, NEW k \in 1..(n * 3)
  PROVE  /\ (k - 1) % 3 \in 0..2
         /\ (3 * n - k + 1) % 3 = IF (k - 1) % 3 = 0 THEN 0 ELSE 3 - ((k - 1) % 3)
OBVIOUS

LEMMA FilesWritten ==
  ASSUME NEW n \in Nat
  PROVE  LET files == Repeat(n, <<<<Item("file")>>, <<Item("size")>>, <<Item("data")>>>>)
         IN  /\ files \in Seq(Seq(Items)) /\ Len(files) = 3 * n
             /\ \A k \in 1..(3 * n) :
                  files[k][1] = Item(Part(3 * n - k + 1)) /\ Len(files[k]) = 1
<1> DEFINE f == <<Item("file")>>
           s == <<Item("size")>>
           d == <<Item("data")>>
           writes == <<f, s, d>>
           files == Repeat(n, writes)
<1>1. "file" \in Kind /\ "size" \in Kind /\ "data" \in Kind
  BY DEF Kind
<1>2. f \in Seq(Items) /\ s \in Seq(Items) /\ d \in Seq(Items)
  BY <1>1, ItemTyped
<1>3. /\ f[1] = Item("file") /\ s[1] = Item("size") /\ d[1] = Item("data")
      /\ \A w \in {f, s, d} : Len(w) = 1
  OBVIOUS
<1> HIDE DEF f, s, d
<1>4. /\ writes \in Seq(Seq(Items)) /\ Len(writes) \in {1, 3} /\ Len(writes) = 3
      /\ writes[1] = f /\ writes[2] = s /\ writes[3] = d
  BY <1>2
<1> HIDE DEF writes
<1>5. /\ files \in Seq(Seq(Items)) /\ Len(files) = n * 3
      /\ \A k \in 1..(n * 3) : files[k] = writes[((k - 1) % 3) + 1]
  <2>1. files \in Seq(Seq(Items))
    BY <1>4, RepeatTyped
  <2>2. Len(writes) = 3
    BY <1>4
  <2>3. /\ Len(files) = n * 3
        /\ \A k \in 1..(n * 3) : files[k] = writes[((k - 1) % 3) + 1]
    BY <2>2, RepeatThree
  <2> QED BY <2>1, <2>3
<1> HIDE DEF files
<1>6. ASSUME NEW k \in 1..(n * 3)
      PROVE  files[k][1] = Item(Part(3 * n - k + 1)) /\ Len(files[k]) = 1
  <2>1. (k - 1) % 3 = 0 \/ (k - 1) % 3 = 1 \/ (k - 1) % 3 = 2
    BY Countdown
  <2>2. CASE (k - 1) % 3 = 0
    <3>1. (3 * n - k + 1) % 3 = 0
      BY <2>2, Countdown
    <3>4. files[k] = f
      BY <1>4, <1>5, <2>2
    <3>2. Part(3 * n - k + 1) = "file"
      BY <3>1 DEF Part
    <3> QED BY <1>3, <3>2, <3>4
  <2>3. CASE (k - 1) % 3 = 1
    <3>1. (3 * n - k + 1) % 3 = 2
      BY <2>3, Countdown
    <3>4. files[k] = s
      BY <1>4, <1>5, <2>3
    <3>2. Part(3 * n - k + 1) = "size"
      BY <3>1 DEF Part
    <3> QED BY <1>3, <3>2, <3>4
  <2>4. CASE (k - 1) % 3 = 2
    <3>1. (3 * n - k + 1) % 3 = 1
      BY <2>4, Countdown
    <3>4. files[k] = d
      BY <1>4, <1>5, <2>4
    <3>2. Part(3 * n - k + 1) = "data"
      BY <3>1 DEF Part
    <3> QED BY <1>3, <3>2, <3>4
  <2> QED BY <2>1, <2>2, <2>3, <2>4
<1>7. n * 3 = 3 * n
  OBVIOUS
<1> QED BY <1>5, <1>6, <1>7 DEF files, writes, f, s, d

LEMMA AttServer ==
  ASSUME TypeInv, Basics, InStep, InStep', ServerStep, AttTalk, loggedIn
  PROVE  AttTalk' /\ loggedIn'
<1>0. link = "up" /\ SessionStep /\ ~Over
  BY DEF Basics, InStep, ServerStep
<1>1. CASE at = "cmd" /\ Asks(<<Item("ATT"), Item("number")>>)
  <2>1. /\ toServer' = <<Item("number")>> /\ toClient' = <<>>
        /\ at' = "ATT" /\ loggedIn' = loggedIn
    BY <1>0, <1>1, CommandDecides DEF Asks
  <2> QED BY <2>1 DEF AttTalk, Asks
<1>2. CASE at = "ATT" /\ Asks(<<Item("number")>>)
  <2>1. Att
    BY <1>0, <1>2, PlaceDecides
  <2>2. "number" \in Kind \ {"part", "data", "byte"} /\ Head(toServer) = Item("number")
    BY <1>2 DEF Kind, Asks
  <2>3. \A l : ReadsLine(l) => l = "number" /\ toServer' = Tail(toServer)
    BY <1>0, <2>2, ReadsThis
  <2>4. toServer' = <<>> /\ toClient' = <<>> /\ loggedIn' = loggedIn
    BY <1>2, <2>1, <2>3 DEF Att, Asks
  <2>5. CASE Answer(<<ERR>>)
    BY <2>4, <2>5, AnswersErr DEF AttTalk
  <2>6. CASE \E n \in 0..(Byte - 1) :
               Answer(<<OK, <<Numbered("byte", n)>>>> \o
                      Repeat(n, <<<<Item("file")>>, <<Item("size")>>, <<Item("data")>>>>))
    <3>1. PICK n \in 0..(Byte - 1) :
               Answer(<<OK, <<Numbered("byte", n)>>>> \o
                      Repeat(n, <<<<Item("file")>>, <<Item("size")>>, <<Item("data")>>>>))
      BY <2>6
    <3>2. n \in Nat /\ "byte" \in Kind
      BY WireAssumption DEF Kind
    <3>3. Numbered("byte", n) \in Items
      BY <3>2, NumberedTyped
    <3> DEFINE count == <<Numbered("byte", n)>>
               files == Repeat(n, <<<<Item("file")>>, <<Item("size")>>, <<Item("data")>>>>)
               writes == <<OK, count>> \o files
    <3>4. /\ count \in Seq(Items) /\ OK \in Seq(Items)
          /\ count[1] = Numbered("byte", n) /\ OK[1] = Item("OK")
          /\ \A w \in {count, OK} : Len(w) = 1
      BY <3>3, AnswersTyped DEF OK
    <3>5. Answer(writes)
      BY <3>1
    <3>6. /\ files \in Seq(Seq(Items)) /\ Len(files) = 3 * n
          /\ \A k \in 1..(3 * n) :
               files[k][1] = Item(Part(3 * n - k + 1)) /\ Len(files[k]) = 1
      BY <3>2, FilesWritten
    <3> HIDE DEF count, files
    <3>7. /\ writes \in Seq(Seq(Items)) /\ Len(writes) = 2 + 3 * n
          /\ writes[1] = OK /\ writes[2] = count
          /\ \A i \in 3..(2 + 3 * n) : writes[i] = files[i - 2]
      BY <3>2, <3>4, <3>6
    <3> HIDE DEF writes
    <3>8. \A i \in 1..Len(writes) : Len(writes[i]) = 1
      <4> TAKE i \in 1..Len(writes)
      <4>1. CASE i \in {1, 2}
        BY <3>4, <3>7, <4>1
      <4>2. CASE i \notin {1, 2}
        <5>1. i \in 3..(2 + 3 * n) /\ i - 2 \in 1..(3 * n)
          BY <3>2, <3>7, <4>2
        <5> QED BY <3>6, <3>7, <5>1
      <4> QED BY <4>1, <4>2
    <3>9. /\ Answers' /\ Len(InFlight') = Len(writes) /\ InFlight' \in Seq(Items)
          /\ \A i \in 1..Len(writes) : InFlight'[i] = writes[i][1]
      BY <2>4, <3>5, <3>7, <3>8, AnswerStarts, Zenon
    <3>10. /\ Len(InFlight') = 2 + 3 * n
           /\ InFlight'[1] = Item("OK") /\ InFlight'[2] = Numbered("byte", n)
      BY <3>2, <3>4, <3>7, <3>9
    <3>11. ASSUME NEW j \in 3..Len(InFlight')
           PROVE  InFlight'[j] = Item(Part(Len(InFlight') - j + 1))
      <4>1. j \in 3..(2 + 3 * n) /\ j - 2 \in 1..(3 * n) /\ j \in 1..Len(writes)
        BY <3>2, <3>7, <3>10
      <4>2. InFlight'[j] = Item(Part(3 * n - (j - 2) + 1))
        BY <3>6, <3>7, <3>9, <4>1
      <4>3. 3 * n - (j - 2) + 1 = Len(InFlight') - j + 1
        BY <3>2, <3>10, <4>1
      <4> QED BY <4>2, <4>3
    <3>12. InFlight'[2].kind = "byte" /\ InFlight'[2].n = n /\ Len(InFlight') >= 2
      BY <3>2, <3>10 DEF Numbered
    <3>13. Parts(InFlight', 3)
      BY <3>11 DEF Parts
    <3> QED BY <2>4, <3>9, <3>10, <3>12, <3>13 DEF AttTalk, Parts
  <2> QED BY <2>1, <2>5, <2>6 DEF Att
<1>3. CASE /\ Answers
           /\ \/ InFlight = ERR
              \/ /\ Len(InFlight) >= 2
                 /\ InFlight[1] = Item("OK") /\ InFlight[2].kind = "byte"
                 /\ Len(InFlight) = 2 + 3 * InFlight[2].n /\ Parts(InFlight, 3)
  BY <1>0, <1>3, AnswersGoOn DEF AttTalk, Parts
<1> QED BY <1>1, <1>2, <1>3 DEF AttTalk

\* Answers of which the client has read a part.
LEMMA RestServer ==
  ASSUME TypeInv, Basics, InStep, InStep', ServerStep, loggedIn
  PROVE  /\ SubjectTalk => SubjectTalk' /\ loggedIn'
         /\ CountTalk => CountTalk' /\ loggedIn'
         /\ AttachmentTalk => AttachmentTalk' /\ loggedIn'
<1>0. link = "up" /\ ~Over
  BY DEF Basics, InStep
<1>1. Answers => Answers' /\ InFlight' = InFlight /\ expect' = expect /\ loggedIn'
  BY <1>0, AnswersGoOn DEF client
<1> QED BY <1>1 DEF SubjectTalk, CountTalk, AttachmentTalk, Parts

\* What is left when the session has read one item, or two.
Shifted(k) ==
  /\ Len(toServer') = Len(toServer) - k
  /\ \A i \in 1..(Len(toServer) - k) : toServer'[i] = toServer[i + k]

LEMMA TailShifts ==
  ASSUME TypeInv, toServer # <<>>
  PROVE  /\ toServer' = Tail(toServer) => Shifted(1)
         /\ Tail(toServer) # <<>> /\ toServer' = Tail(Tail(toServer)) => Shifted(2)
<1>0. toServer \in Seq(Items)
  BY DEF TypeInv, WireOK
<1>1. /\ Tail(toServer) \in Seq(Items) /\ Len(Tail(toServer)) = Len(toServer) - 1
      /\ \A i \in 1..(Len(toServer) - 1) : Tail(toServer)[i] = toServer[i + 1]
  BY <1>0
<1>2. ASSUME Tail(toServer) # <<>>
      PROVE  LET t == Tail(Tail(toServer))
             IN  /\ Len(t) = Len(toServer) - 2
                 /\ \A i \in 1..(Len(toServer) - 2) : t[i] = toServer[i + 2]
  <2> DEFINE s == Tail(toServer)
  <2>1. /\ s \in Seq(Items) /\ s # <<>> /\ Len(s) = Len(toServer) - 1
        /\ \A i \in 1..(Len(toServer) - 1) : s[i] = toServer[i + 1]
    BY <1>1, <1>2
  <2> HIDE DEF s
  <2>2. Len(Tail(s)) = Len(s) - 1 /\ \A i \in 1..(Len(s) - 1) : Tail(s)[i] = s[i + 1]
    BY <2>1
  <2>3. Len(toServer) \in Nat /\ Len(s) \in Nat
    BY <1>0, <2>1
  <2>4. Len(Tail(s)) = Len(toServer) - 2
    BY <2>1, <2>2, <2>3
  <2>5. ASSUME NEW i \in 1..(Len(toServer) - 2) PROVE Tail(s)[i] = toServer[i + 2]
    <3>1. i \in 1..(Len(s) - 1) /\ i + 1 \in 1..(Len(toServer) - 1) /\ (i + 1) + 1 = i + 2
      BY <2>1, <2>3
    <3>2. s[i + 1] = toServer[(i + 1) + 1]
      BY <2>1, <3>1
    <3> QED BY <2>2, <3>1, <3>2
  <2> QED BY <2>4, <2>5 DEF s
<1> QED BY <1>1, <1>2 DEF Shifted

LEMMA SendTyped ==
  ASSUME TypeInv, screen \in Announcing
  PROVE  ToSend \in Nat /\ (screen # "sent?" => ToSend > 0)
<1>1. expect \in Nat /\ (screen \in {"file", "size", "data"} => expect > 0)
  BY DEF TypeInv, ClientOK
<1>2. screen # "sent?" => Step(screen) \in 0..2
  BY DEF Step, Announcing
<1> QED BY <1>1, <1>2 DEF ToSend, Announcing

LEMMA AnnouncedShifts ==
  ASSUME TypeInv, screen \in Announcing, UNCHANGED <<screen, expect>>,
         NEW k \in Nat, NEW p \in Nat, p > k, Announced(p), Shifted(k)
  PROVE  Announced(p - k)'
<1>1. ToSend' = ToSend /\ ToSend \in Nat
  BY SendTyped DEF ToSend
<1>2. Len(toServer) \in Nat /\ Len(toServer') = Len(toServer) - k
  BY DEF TypeInv, WireOK, Shifted
<1>3. /\ p <= Len(toServer)
      /\ toServer[p].kind = "byte" /\ toServer[p].n \in 0..(Byte - 1)
      /\ Len(toServer) = p + 3 * toServer[p].n - ToSend
  BY DEF Announced
<1>4. toServer'[p - k] = toServer[p]
  <2>1. \A n \in Nat : p <= n => p - k \in 1..(n - k) /\ (p - k) + k = p
    OBVIOUS
  <2>2. p - k \in 1..(Len(toServer) - k) /\ (p - k) + k = p
    BY <1>2, <1>3, <2>1
  <2> QED BY <2>2 DEF Shifted
<1>5. ASSUME NEW j \in ((p - k) + 1)..Len(toServer')
      PROVE  toServer'[j] = Item(Part(3 * toServer'[p - k].n - (j - (p - k)) + 1))
  <2>0. \A n \in Nat : \A i \in ((p - k) + 1)..(n - k) : i \in 1..(n - k) /\ i + k \in (p + 1)..n
    OBVIOUS
  <2>1. j \in 1..(Len(toServer) - k) /\ j + k \in (p + 1)..Len(toServer)
    <3>1. j \in ((p - k) + 1)..(Len(toServer) - k) /\ Len(toServer) \in Nat
      BY <1>2, Zenon
    <3> QED BY <2>0, <3>1, Zenon
  <2>2. toServer'[j] = toServer[j + k]
    BY <2>1 DEF Shifted
  <2>3. toServer[j + k] = Item(Part(3 * toServer[p].n - ((j + k) - p) + 1))
    BY <2>1 DEF Announced
  <2>4. (j + k) - p = j - (p - k)
    BY <2>1
  <2> QED BY <1>4, <2>2, <2>3, <2>4
<1>6. Len(toServer') = (p - k) + 3 * toServer'[p - k].n - ToSend'
  <2>1. /\ 3 * toServer[p].n \in Int /\ Len(toServer) \in Int /\ ToSend \in Int
        /\ Len(toServer) = p + 3 * toServer[p].n - ToSend
    <3>1. 3 * toServer[p].n \in Int
      BY <1>3, WireAssumption
    <3>2. Len(toServer) \in Int /\ ToSend \in Int
      BY <1>1, <1>2
    <3> QED BY <1>3, <3>1, <3>2
  <2>2. \A a, b, x \in Int : a = p + x - b => a - k = (p - k) + x - b
    OBVIOUS
  <2>3. Len(toServer) - k = (p - k) + 3 * toServer[p].n - ToSend
    BY <2>1, <2>2, Zenon
  <2> QED BY <1>1, <1>2, <1>4, <2>3, Zenon
<1>7. p - k <= Len(toServer')
  <2>1. p - k <= Len(toServer) - k
    BY <1>2, <1>3
  <2> QED BY <1>2, <2>1, Zenon
<1>8. toServer'[p - k].kind = "byte" /\ toServer'[p - k].n \in 0..(Byte - 1)
  BY <1>3, <1>4
<1> QED BY <1>5, <1>6, <1>7, <1>8 DEF Announced

LEMMA HeadingIs ==
  /\ at = "cmd" => Heading = 3
  /\ at = "to" => Heading = 2
  /\ at = "subject" => Heading = 1
  /\ at = "body" => Heading = 0
BY DEF Heading

\* The session reads a line of the header, or of the message.
LEMMA MessageShifts ==
  ASSUME TypeInv, UNCHANGED <<screen, expect, typed, toClient>>,
         NEW d \in Nat, Message(d), NEW k \in {1, 2}, Shifted(k), k <= d,
         at' \in {"to", "subject", "body"},
         \/ Heading > 0 /\ k = 1 /\ Heading' = Heading - 1
         \/ Heading = 0 /\ Heading' = 0 /\ ~Fresh'
  PROVE  Message(d - k)'
<1>1. /\ Heading \in 0..3 /\ Heading' \in 0..3 /\ d - k \in Nat
      /\ Heading > 0 => Fresh
      /\ d - k = Heading' => d = Heading \/ Heading = 0
      /\ Heading' <= d - k /\ Heading <= Heading' + k /\ k \in Nat
  <2>1. Heading \in 0..3 /\ (Heading > 0 => Fresh)
    BY HeadingIs DEF Message, Fresh
  <2>2. Heading <= d
    BY DEF Message
  <2> QED BY <2>1, <2>2
<1>2. Len(toServer) \in Nat /\ Len(toServer') = Len(toServer) - k
  BY DEF TypeInv, WireOK, Shifted
<1>3. d <= Len(toServer) /\ toClient = <<>>
  BY DEF Message
<1>4. \A i \in 1..Len(toServer') : i + k \in 1..Len(toServer) /\ toServer'[i] = toServer[i + k]
  BY <1>2 DEF Shifted
<1>5. ASSUME NEW i \in 1..Heading'
      PROVE  toServer'[i] = Item(<<"subject", "to", "SEND">>[Heading' - i + 1])
  <2>1. k = 1 /\ Heading' = Heading - 1 /\ i + 1 \in 1..Heading
    BY <1>1
  <2>2. toServer[i + 1] = Item(<<"subject", "to", "SEND">>[Heading - (i + 1) + 1])
    BY <2>1 DEF Message
  <2>3. Heading - (i + 1) + 1 = Heading' - i + 1
    BY <1>1, <2>1
  <2>4. i \in 1..Len(toServer')
    BY <1>1, <1>2, <1>3, <2>1
  <2> QED BY <1>4, <2>1, <2>2, <2>3, <2>4
<1>h. PICK h \in 0..3 : h = Heading'
  BY <1>1
<1>6. ASSUME NEW i \in (h + 1)..(d - k)
      PROVE  /\ toServer'[i].kind \in {"text", "part"}
             /\ toServer'[i].kind = "part"
                  => IF i < d - k THEN toServer'[i + 1].kind = "text" ELSE screen' = "line"
  <2>0. i \in Nat /\ i > h /\ i <= d - k
    BY <1>1
  <2>1. i \in 1..Len(toServer') /\ i + k \in (Heading + 1)..d
    BY <1>1, <1>2, <1>3, <1>h, <2>0
  <2>2. toServer'[i] = toServer[i + k]
    BY <1>4, <2>1
  <2>3. /\ toServer[i + k].kind \in {"text", "part"}
        /\ toServer[i + k].kind = "part"
             => IF i + k < d THEN toServer[(i + k) + 1].kind = "text" ELSE screen = "line"
    BY <2>1 DEF Message
  <2>4. CASE i < d - k
    <3>1. i + k < d /\ i + 1 \in 1..Len(toServer') /\ (i + 1) + k = (i + k) + 1
      BY <1>1, <1>2, <1>3, <2>1, <2>4
    <3>2. toServer'[i + 1] = toServer[(i + k) + 1]
      BY <1>4, <3>1
    <3> QED BY <2>2, <2>3, <2>4, <3>1, <3>2
  <2>5. CASE ~(i < d - k)
    <3>1. ~(i + k < d)
      BY <2>5
    <3> QED BY <2>2, <2>3, <2>5, <3>1
  <2> QED BY <2>4, <2>5
<1>7. screen' = "message" /\ Fresh' /\ d - k = Heading' => typed' = <<>>
  BY <1>1 DEF Message
<1>8. screen' \in {"message", "line"} => Len(toServer') = d - k
  BY <1>2 DEF Message
<1>9. ASSUME screen' \notin {"message", "line"}
      PROVE  /\ Fresh' => d - k > Heading'
             /\ d - k < Len(toServer') /\ toServer'[(d - k) + 1].kind = "."
  <2>1. /\ Fresh => d > Heading
        /\ d < Len(toServer) /\ toServer[d + 1].kind = "."
    BY <1>9 DEF Message
  <2>2. (d - k) + 1 \in 1..Len(toServer') /\ ((d - k) + 1) + k = d + 1
    BY <1>1, <1>2, <2>1, SMTT(20)
  <2>3. ASSUME Fresh' PROVE d - k > Heading'
    <3>1. Heading > 0 /\ k = 1 /\ Heading' = Heading - 1 /\ Fresh
      BY <1>1, <2>3
    <3>2. d > Heading
      BY <2>1, <3>1
    <3> HIDE DEF Heading, Fresh
    <3> QED BY <1>1, <3>1, <3>2
  <2>4. d - k < Len(toServer')
    BY <1>1, <1>2, <2>1
  <2>5. toServer'[(d - k) + 1].kind = "."
    BY <1>4, <2>1, <2>2
  <2> QED BY <2>3, <2>4, <2>5
<1>10. screen' = "attach" => Len(toServer') = (d - k) + 1
  BY <1>2 DEF Message
<1>11. ASSUME screen' \in Announcing PROVE Announced((d - k) + 2)'
  <2>1. Announced(d + 2) /\ screen \in Announcing /\ k < d + 2
    BY <1>11 DEF Message, Announcing
  <2>2. (d + 2) - k = (d - k) + 2 /\ k \in Nat /\ d + 2 \in Nat
    OBVIOUS
  <2>3. Announced((d + 2) - k)'
    BY <2>1, <2>2, AnnouncedShifts
  <2> QED BY <2>2, <2>3
<1>12. at' \in {"cmd", "to", "subject", "body"} /\ toClient' = <<>> /\ d - k <= Len(toServer')
  BY <1>1, <1>2, <1>3
<1> HIDE DEF Announced, Heading, Fresh
<1> QED BY <1>1, <1>5, <1>h, <1>6, <1>7, <1>8, <1>9, <1>10, <1>11, <1>12 DEF Message

\* The lines of the header.
LEMMA HeaderServer ==
  ASSUME TypeInv, Basics, InStep, ServerStep, NEW d \in Nat, Message(d), loggedIn, at # "body"
  PROVE  SendTalk' /\ loggedIn'
<1>0. link = "up" /\ SessionStep /\ UNCHANGED <<screen, expect, typed>>
  BY DEF Basics, InStep, ServerStep, client
<1>1. at \in {"cmd", "to", "subject"} /\ d <= Len(toServer) /\ Heading > 0 /\ Heading <= d
  BY HeadingIs DEF Message
<1>2. /\ toServer # <<>> /\ toServer[1] = Head(toServer)
      /\ Len(toServer) \in Nat /\ d >= 1
  BY <1>1, HeadingIs DEF TypeInv, WireOK
<1>3. Head(toServer) = Item(<<"subject", "to", "SEND">>[Heading])
  <2>1. 1 \in 1..Heading /\ Heading - 1 + 1 = Heading
    BY <1>1, HeadingIs
  <2>2. toServer[1] = Item(<<"subject", "to", "SEND">>[Heading - 1 + 1])
    BY <2>1 DEF Message
  <2> QED BY <1>2, <2>1, <2>2
<1>4. /\ toServer' = Tail(toServer) /\ UNCHANGED toClient /\ loggedIn'
      /\ Heading' = Heading - 1
      /\ \/ at' \in {"to", "subject"}
         \/ at' = "body" /\ mail' = <<>>
  <2>1. CASE at = "cmd"
    <3>1. Head(toServer) = Item("SEND")
      BY <1>3, <2>1, HeadingIs
    <3>2. toServer' = Tail(toServer) /\ UNCHANGED toClient /\ at' = "to" /\ loggedIn' = loggedIn
      BY <1>0, <1>2, <2>1, <3>1, CommandDecides
    <3> QED BY <2>1, <3>2 DEF Heading
  <2>2. CASE at = "to" \/ at = "subject"
    <3>1. ReadHeader
      BY <1>0, <2>2, PlaceDecides
    <3>2. PICK c \in {"to", "subject"} : Head(toServer) = Item(c)
      BY <1>3, <2>2, HeadingIs
    <3>3. c \in Kind \ {"part", "data", "byte"} /\ c # "empty"
      BY DEF Kind
    <3>4. PICK l \in Kind :
            /\ ReadsLine(l)
            /\ \/ l = "empty" /\ Answer(<<ERR>>) /\ UNCHANGED mail
               \/ /\ l # "empty" /\ at' = (IF at = "to" THEN "subject" ELSE "body")
                  /\ mail' = <<>> /\ UNCHANGED <<out, next>>
      BY <3>1 DEF ReadHeader
    <3>5. l = c /\ toServer' = Tail(toServer)
      BY <1>0, <3>2, <3>3, <3>4, ReadsThis
    <3>6. at' = (IF at = "to" THEN "subject" ELSE "body") /\ mail' = <<>>
      BY <3>3, <3>4, <3>5
    <3>7. UNCHANGED <<toClient, loggedIn>>
      BY <3>1 DEF ReadHeader
    <3> QED BY <2>2, <3>5, <3>6, <3>7 DEF Heading
  <2> QED BY <1>1, <2>1, <2>2
<1>5. Shifted(1)
  BY <1>2, <1>4, TailShifts
<1>6. Message(d - 1)'
  <2>1. at' \in {"to", "subject", "body"} /\ 1 \in {1, 2} /\ 1 <= d
    BY <1>2, <1>4
  <2> HIDE DEF Heading
  <2> QED BY <1>0, <1>1, <1>4, <1>5, <2>1, MessageShifts
<1>7. d - 1 \in 0..Len(toServer')
  BY <1>1, <1>2, <1>5 DEF Shifted
<1> QED BY <1>4, <1>6, <1>7 DEF SendTalk

\* The lines of the message, and its dot.
LEMMA BodyLineServer ==
  ASSUME TypeInv, Basics, InStep, ServerStep, NEW d \in Nat, Message(d), loggedIn, at = "body",
         screen \in {"message", "line", "attach"} \cup Announcing
  PROVE  SendTalk' /\ loggedIn'
<1>0. link = "up" /\ SessionStep /\ UNCHANGED <<screen, expect, typed>>
  BY DEF Basics, InStep, ServerStep, client
<1>1. ReadBody /\ ~AtEnd
  BY <1>0, PlaceDecides DEF AtEnd
<1>2. PICK l \in Kind : ReadsLine(l) /\ mail' = Append(mail, l)
  BY <1>1 DEF ReadBody
<1>3. /\ at' = IF Ended(mail') THEN "count" ELSE "body"
      /\ UNCHANGED <<toClient, loggedIn>>
  BY <1>1 DEF ReadBody
<1>4. /\ toServer # <<>> /\ toServer[1] = Head(toServer) /\ toServer \in Seq(Items)
      /\ Len(toServer) \in Nat /\ Heading = 0
  BY <1>0, <1>2, ReadsLineInStep, HeadingIs DEF TypeInv, WireOK
<1>5. /\ mail \in Seq(Kind) /\ Len(mail') = Len(mail) + 1 /\ mail'[Len(mail')] = l
      /\ mail' # <<>>
  <2>1. mail \in Seq(Kind)
    BY DEF TypeInv, SessionOK
  <2>2. /\ Len(Append(mail, l)) = Len(mail) + 1
        /\ Append(mail, l)[Len(mail) + 1] = l
        /\ Append(mail, l) # <<>>
    BY <2>1
  <2> QED BY <1>2, <2>1, <2>2
<1>6. ASSUME d = 0 PROVE SendTalk'
  <2>1. screen \notin {"message", "line"}
    BY <1>4, <1>6 DEF Message
  <2>2. ~Fresh /\ 0 < Len(toServer) /\ toServer[1].kind = "."
    <3>1. Fresh => 0 > Heading
      BY <1>6, <2>1 DEF Message
    <3>2. 0 < Len(toServer) /\ toServer[0 + 1].kind = "."
      BY <1>6, <2>1 DEF Message
    <3> QED BY <1>4, <3>1, <3>2
  <2>3. l = "." /\ toServer' = Tail(toServer)
    BY <1>0, <1>2, <1>4, <2>2, ReadsLineInStep DEF Unfinished
  <2>4. Len(mail) >= 1
    BY <1>5, <2>2 DEF Fresh
  <2>5. at' = "count"
    BY <1>3, <1>5, <2>3, <2>4 DEF Ended
  <2>6. toClient' = <<>>
    BY <1>3 DEF Message
  <2>7. CASE screen = "attach"
    <3>1. Len(toServer) = 1
      BY <1>6, <2>7 DEF Message
    <3>2. toServer' = <<>>
      BY <1>4, <2>3, <3>1
    <3> QED BY <1>0, <2>5, <2>6, <2>7, <3>2 DEF SendTalk
  <2>8. CASE screen \in Announcing
    <3>1. Announced(2)
      BY <1>6, <2>8 DEF Message
    <3>2. Shifted(1)
      BY <1>4, <2>3, TailShifts
    <3>3. Announced(2 - 1)'
      BY <1>0, <2>8, <3>1, <3>2, AnnouncedShifts
    <3>4. 2 - 1 = 1
      OBVIOUS
    <3>5. Announced(1)'
      BY <3>3, <3>4
    <3> QED BY <1>0, <2>5, <2>6, <2>8, <3>5 DEF SendTalk
  <2> QED BY <2>1, <2>7, <2>8
<1>7. ASSUME d > 0, toServer[1].kind = "text" \/ toServer[1].kind = "part" PROVE SendTalk'
  <2>1. l = "text"
    BY <1>0, <1>2, <1>4, <1>7, ReadsLineInStep DEF Unfinished
  <2>2. at' = "body" /\ Heading' = 0 /\ ~Fresh'
    BY <1>3, <1>5, <2>1 DEF Ended, Heading, Fresh
  <2>3. PICK k \in {1, 2} : k <= d /\ Shifted(k)
    <3>1. CASE toServer[1].kind = "text"
      <4>1. toServer' = Tail(toServer)
        BY <1>0, <1>2, <1>4, <3>1, ReadsLineInStep DEF Unfinished
      <4> QED BY <1>4, <1>7, <4>1, TailShifts
    <3>2. CASE toServer[1].kind = "part"
      <4>1. Tail(toServer) # <<>> /\ toServer' = Tail(Tail(toServer))
        BY <1>0, <1>2, <1>4, <3>2, ReadsLineInStep
      <4>2. d > 1
        <5>1. SUFFICES ASSUME ~(d > 1) PROVE FALSE
          OBVIOUS
        <5>2. screen = "line"
          <6>1. 1 \in (Heading + 1)..d /\ ~(1 < d)
            BY <1>4, <1>7, <5>1
          <6> QED BY <3>2, <6>1 DEF Message
        <5>3. Len(toServer) = d
          BY <5>2 DEF Message
        <5>4. Len(Tail(toServer)) = Len(toServer) - 1 /\ Tail(toServer) \in Seq(Items)
          BY <1>4
        <5>6. \A s \in Seq(Items) : s # <<>> => Len(s) >= 1
          OBVIOUS
        <5>7. Len(Tail(toServer)) >= 1
          BY <4>1, <5>4, <5>6
        <5> QED BY <1>4, <5>1, <5>3, <5>4, <5>7
      <4> QED BY <1>4, <4>1, <4>2, TailShifts
    <3> QED BY <1>7, <3>1, <3>2
  <2>4. Message(d - k)'
    <3> HIDE DEF Heading, Fresh
    <3> QED BY <1>0, <1>3, <1>4, <2>2, <2>3, MessageShifts
  <2>5. d - k \in 0..Len(toServer')
    BY <1>4, <2>3 DEF Message, Shifted
  <2> QED BY <2>4, <2>5 DEF SendTalk
<1>8. d > 0 => toServer[1].kind = "text" \/ toServer[1].kind = "part"
  <2> SUFFICES ASSUME d > 0 PROVE toServer[1].kind = "text" \/ toServer[1].kind = "part"
    OBVIOUS
  <2>1. 1 \in (Heading + 1)..d
    BY <1>4
  <2>2. toServer[1].kind \in {"text", "part"}
    BY <2>1 DEF Message
  <2> QED BY <2>2
<1> QED BY <1>3, <1>6, <1>7, <1>8

\* The mail is saved and the last item read.
LEMMA SavedServer ==
  ASSUME TypeInv, UNCHANGED <<screen, toClient>>, toClient = <<>>, screen = "sent?", Save,
         toServer' = <<>>
  PROVE  SendTalk'
<1>1. Answer(<<OK>>) /\ did' = "saved" /\ toClient' = <<>>
  BY DEF Save
<1>2. Answers' /\ InFlight' = OK
  BY <1>1, AnswersOk
<1> QED BY <1>1, <1>2 DEF SendTalk

LEMMA ReadTypes == ASSUME TypeInv PROVE ToRead \in Int
<1>1. filesLeft \in Int
  BY WireAssumption DEF TypeInv, SessionOK
<1> QED BY <1>1 DEF ToRead, Step

\* The number of attachments.
LEMMA CountServer ==
  ASSUME TypeInv, Basics, InStep, ServerStep, at = "count", toClient = <<>>, loggedIn,
         \/ screen = "attach" /\ toServer = <<>>
         \/ screen \in Announcing /\ Announced(1)
  PROVE  SendTalk' /\ loggedIn'
<1>0. link = "up" /\ SessionStep /\ UNCHANGED <<screen, expect, typed>>
  BY DEF Basics, InStep, ServerStep, client
<1>1. ReadCount /\ ~AtEnd
  BY <1>0, PlaceDecides DEF AtEnd
<1>2. PICK m \in 0..(Byte - 1) :
        /\ ReadsItem(Numbered("byte", m)) /\ filesLeft' = m
        /\ IF m = 0 THEN Save ELSE at' = "file"
  BY <1>1 DEF ReadCount, Numbered
<1>3. UNCHANGED <<toClient, loggedIn>>
  BY <1>1 DEF ReadCount
<1>4. /\ toServer # <<>> /\ toServer \in Seq(Items) /\ Len(toServer) \in Nat
      /\ toServer[1] = Numbered("byte", m) /\ toServer' = Tail(toServer)
  BY <1>2 DEF ReadsItem, TypeInv, WireOK
<1>5. screen \in Announcing /\ Announced(1)
  BY <1>4
<1>6. toServer[1].n = m /\ m \in Nat
  BY <1>4, WireAssumption DEF Numbered
<1>7. /\ Len(toServer) = 1 + 3 * m - ToSend
      /\ \A j \in 2..Len(toServer) : toServer[j] = Item(Part(3 * m - (j - 1) + 1))
  BY <1>5, <1>6 DEF Announced
<1>8. ToSend \in Nat /\ (screen # "sent?" => ToSend > 0) /\ ToSend' = ToSend
  BY <1>0, <1>5, SendTyped DEF ToSend
<1>9. Len(toServer) >= 1
  BY <1>4
<1>10. Shifted(1)
  BY <1>4, TailShifts
<1> HIDE DEF ToSend
<1>11. CASE m = 0
  <2>1. Save
    BY <1>2, <1>11
  <2>2. screen = "sent?" /\ ToSend = 0
    BY <1>6, <1>7, <1>8, <1>9, <1>11
  <2>3. ~(Len(toServer) > 1)
    BY <1>6, <1>7, <1>11, <2>2
  <2>4. \A s \in Seq(Items) : s # <<>> /\ ~(Len(s) > 1) => Tail(s) = <<>>
    OBVIOUS
  <2>5. toServer' = <<>>
    BY <1>4, <2>3, <2>4
  <2> QED BY <1>0, <1>3, <2>1, <2>2, <2>5, SavedServer
<1>12. CASE m # 0
  <2>1. at' = "file" /\ ToRead' = 3 * m
    BY <1>2, <1>6, <1>12 DEF ToRead, Step
  <2>2. Len(toServer') = ToRead' - ToSend'
    BY <1>4, <1>6, <1>7, <1>8, <1>10, <2>1 DEF Shifted
  <2>3. ASSUME NEW j \in 1..Len(toServer') PROVE toServer'[j] = Item(Part(ToRead' - j + 1))
    <3>1. j \in 1..(Len(toServer) - 1) /\ j + 1 \in 2..Len(toServer)
      BY <1>4, <1>10 DEF Shifted
    <3>2. toServer'[j] = toServer[j + 1]
      BY <1>10, <3>1 DEF Shifted
    <3>3. toServer[j + 1] = Item(Part(3 * m - ((j + 1) - 1) + 1))
      BY <1>7, <3>1
    <3>4. (j + 1) - 1 = j
      BY <3>1
    <3> QED BY <2>1, <3>2, <3>3, <3>4
  <2>4. toClient' = <<>> /\ screen' \in Announcing
    BY <1>0, <1>3, <1>5
  <2> HIDE DEF ToRead
  <2> QED BY <1>3, <2>1, <2>2, <2>3, <2>4 DEF SendTalk
<1> QED BY <1>11, <1>12

\* Name, size and contents of every attachment.
LEMMA PartIs ==
  ASSUME NEW n \in Nat
  PROVE  /\ n > 0 => Part(3 * n) = "file" /\ Part(3 * n - 1) = "size" /\ Part(3 * n - 2) = "data"
<1>1. n > 0 => (3 * n) % 3 = 0 /\ (3 * n - 1) % 3 = 2 /\ (3 * n - 2) % 3 = 1
  OBVIOUS
<1> QED BY <1>1 DEF Part

LEMMA FilesServer ==
  ASSUME TypeInv, Basics, InStep, ServerStep, at \in {"file", "size", "data"}, toClient = <<>>,
         screen \in Announcing, loggedIn, Len(toServer) = ToRead - ToSend,
         \A j \in 1..Len(toServer) : toServer[j] = Item(Part(ToRead - j + 1))
  PROVE  SendTalk' /\ loggedIn'
<1>0. link = "up" /\ SessionStep /\ UNCHANGED <<screen, expect, typed>>
  BY DEF Basics, InStep, ServerStep, client
<1>1. ~AtEnd /\ filesLeft \in Nat /\ filesLeft > 0
  BY <1>0, WireAssumption DEF AtEnd, TypeInv, SessionOK
<1>2. ReadFileName \/ ReadFileSize \/ ReadFileData
  BY <1>0, PlaceDecides
<1>3. toServer # <<>>
  <2>1. at = "file" => \E l \in Kind : ReadsLine(l)
    BY <1>0, PlaceDecides DEF ReadFileName
  <2>2. at = "size" => toServer # <<>>
    BY <1>0, <1>1, PlaceDecides DEF ReadFileSize, ReadsItem
  <2>3. at = "data" => toServer # <<>>
    BY <1>0, <1>1, PlaceDecides DEF ReadFileData, ReadsItem
  <2> QED BY <1>0, <2>1, <2>2, <2>3, ReadsLineInStep
<1>4. /\ toServer \in Seq(Items) /\ Len(toServer) \in Nat /\ Len(toServer) >= 1
      /\ toServer[1] = Head(toServer)
  BY <1>3 DEF TypeInv, WireOK
<1>5. Head(toServer) = Item(Part(ToRead))
  <2>1. toServer[1] = Item(Part(ToRead - 1 + 1))
    BY <1>4
  <2>2. ToRead - 1 + 1 = ToRead
    BY ReadTypes
  <2> QED BY <1>4, <2>1, <2>2
<1>6. Head(toServer) = Item(at)
  <2>1. at = "file" => ToRead = 3 * filesLeft
    BY <1>1 DEF ToRead, Step
  <2>2. at = "size" => ToRead = 3 * filesLeft - 1
    BY <1>1 DEF ToRead, Step
  <2>3. at = "data" => ToRead = 3 * filesLeft - 2
    BY <1>1 DEF ToRead, Step
  <2> QED BY <1>1, <1>5, <2>1, <2>2, <2>3, PartIs
<1>7. ToSend' = ToSend /\ ToSend \in Nat /\ (screen # "sent?" => ToSend > 0)
  BY <1>0, SendTyped DEF ToSend
<1>8. /\ toServer' = Tail(toServer) /\ UNCHANGED <<toClient, loggedIn>>
      /\ at = "file" => at' = "size" /\ filesLeft' = filesLeft
      /\ at = "size" => at' = "data" /\ filesLeft' = filesLeft
      /\ at = "data" => /\ filesLeft' = filesLeft - 1
                        /\ IF filesLeft = 1 THEN Save ELSE at' = "file"
  <2>1. CASE at = "file"
    <3>1. ReadFileName /\ "file" \in Kind \ {"part", "data", "byte"}
      BY <1>0, <2>1, PlaceDecides DEF Kind
    <3>2. \A l : ReadsLine(l) => toServer' = Tail(toServer)
      BY <1>0, <1>6, <2>1, <3>1, ReadsThis
    <3> QED BY <2>1, <3>1, <3>2 DEF ReadFileName
  <2>2. CASE at = "size"
    <3>1. ReadFileSize
      BY <1>0, <2>2, PlaceDecides
    <3>2. ReadsItem(Item("size")) /\ at' = "data"
      BY <1>1, <1>6, <2>2, <3>1 DEF ReadFileSize
    <3> QED BY <2>2, <3>1, <3>2 DEF ReadFileSize, ReadsItem
  <2>3. CASE at = "data"
    <3>1. ReadFileData
      BY <1>0, <2>3, PlaceDecides
    <3>2. ReadsItem(Item("data")) /\ FileRead("data")
      BY <1>1, <3>1 DEF ReadFileData
    <3> QED BY <2>3, <3>2 DEF ReadsItem, FileRead
  <2> QED BY <2>1, <2>2, <2>3
<1>9. Shifted(1)
  BY <1>3, <1>8, TailShifts
<1>10. CASE at = "data" /\ filesLeft = 1
  <2>1. ToRead = 1
    BY <1>10 DEF ToRead, Step
  <2>2. screen = "sent?" /\ ~(Len(toServer) > 1)
    <3> HIDE DEF ToSend, ToRead
    <3> QED BY <1>4, <1>7, <2>1
  <2>3. \A s \in Seq(Items) : s # <<>> /\ ~(Len(s) > 1) => Tail(s) = <<>>
    OBVIOUS
  <2>4. toServer' = <<>>
    BY <1>3, <1>4, <1>8, <2>2, <2>3
  <2> QED BY <1>0, <1>8, <1>10, <2>2, <2>4, SavedServer
<1>11. CASE ~(at = "data" /\ filesLeft = 1)
  <2>1. at' \in {"file", "size", "data"}
    BY <1>8, <1>11
  <2>2. ToRead' = ToRead - 1
    <3>1. at = "file" => at' = "size" /\ filesLeft' = filesLeft
      BY <1>8
    <3>2. at = "size" => at' = "data" /\ filesLeft' = filesLeft
      BY <1>8
    <3>3. at = "data" => at' = "file" /\ filesLeft' = filesLeft - 1
      BY <1>8, <1>11
    <3> QED BY <1>1, <3>1, <3>2, <3>3 DEF ToRead, Step
  <2> HIDE DEF ToRead, ToSend
  <2>3. ToRead \in Int
    BY ReadTypes
  <2>4. Len(toServer') = ToRead' - ToSend'
    BY <1>4, <1>7, <1>9, <2>2, <2>3 DEF Shifted
  <2>5. ASSUME NEW j \in 1..Len(toServer') PROVE toServer'[j] = Item(Part(ToRead' - j + 1))
    <3>1. j \in 1..(Len(toServer) - 1) /\ j + 1 \in 1..Len(toServer)
      BY <1>4, <1>9 DEF Shifted
    <3>2. toServer'[j] = toServer[j + 1]
      BY <1>9, <3>1 DEF Shifted
    <3>3. toServer[j + 1] = Item(Part(ToRead - (j + 1) + 1))
      BY <3>1
    <3>4. ToRead - (j + 1) + 1 = ToRead' - j + 1
      BY <2>2, <2>3, <3>1
    <3> QED BY <3>2, <3>3, <3>4
  <2>6. toClient' = <<>> /\ screen' \in Announcing
    BY <1>0, <1>8
  <2> QED BY <1>8, <2>1, <2>4, <2>5, <2>6 DEF SendTalk
<1> QED BY <1>8, <1>10, <1>11

LEMMA SendServer ==
  ASSUME TypeInv, Basics, InStep, ServerStep, SendTalk, loggedIn,
         screen \in {"message", "line", "attach"} \cup Announcing
  PROVE  SendTalk' /\ loggedIn'
<1>1. CASE \E d \in 0..Len(toServer) : Message(d)
  <2>1. PICK d \in 0..Len(toServer) : Message(d)
    BY <1>1
  <2>2. d \in Nat
    OBVIOUS
  <2> QED BY <2>1, <2>2, HeaderServer, BodyLineServer
<1>2. CASE /\ at = "count" /\ toClient = <<>>
           /\ \/ screen = "attach" /\ toServer = <<>>
              \/ screen \in Announcing /\ Announced(1)
  BY <1>2, CountServer
<1>3. CASE /\ at \in {"file", "size", "data"} /\ toClient = <<>> /\ screen \in Announcing
           /\ Len(toServer) = ToRead - ToSend
           /\ \A j \in 1..Len(toServer) : toServer[j] = Item(Part(ToRead - j + 1))
  BY <1>3, FilesServer
<1>4. CASE screen = "sent?" /\ Answers /\ InFlight = OK /\ did = "saved"
  <2>1. link = "up" /\ ~Over
    BY DEF Basics, InStep
  <2>2. Answers' /\ InFlight' = InFlight /\ UNCHANGED <<screen, loggedIn, did>>
    BY <1>4, <2>1, AnswersGoOn DEF client
  <2> QED BY <1>4, <2>2 DEF SendTalk
<1> QED BY <1>1, <1>2, <1>3, <1>4 DEF SendTalk

\* What the session does is what the client waits for.
LEMMA TalkServer ==
  ASSUME TypeInv, Basics, InStep, InStep', ServerStep, Talk
  PROVE  Talk'
<1>0. link = "up" /\ ~Over /\ SessionStep /\ UNCHANGED <<screen, told>> /\ screen \in Screen
  BY DEF Basics, InStep, ServerStep, client, TypeInv, ClientOK
<1>1. screen \in Screen \ {"lost", "gone"}
  BY <1>0 DEF InStep, Talk
<1>2. CASE screen = "greeting"
  <2>1. Answers' /\ InFlight' = OK
    BY <1>0, <1>2, AnswersGoOn DEF Talk
  <2> HIDE DEF Answers, InFlight
  <2> QED BY <1>0, <1>2, <2>1 DEF Talk, Announcing
<1>3. CASE screen \in {"login", "menu", "drain"}
  <2>1. at = "cmd" /\ toServer = <<>>
    BY <1>3 DEF Talk, Idle
  <2> QED BY <1>0, <2>1, LoopReads
<1>4. CASE screen = "login?"
  <2>1. LoginTalk'
    BY <1>4, LoginServer DEF Talk
  <2> QED BY <1>0, <1>4, <2>1 DEF Talk, Announcing
<1>5. CASE screen = "total?"
  <2>1. TotalTalk' /\ loggedIn'
    BY <1>5, TotalServer DEF Talk
  <2> QED BY <1>0, <1>5, <2>1 DEF Talk, Announcing
<1>6. CASE screen = "subject?"
  <2>1. SubjectTalk' /\ loggedIn'
    BY <1>6, RestServer DEF Talk
  <2> QED BY <1>0, <1>6, <2>1 DEF Talk, Announcing
<1>7. CASE screen = "read?"
  <2>1. ReadTalk' /\ loggedIn'
    BY <1>7, ReadServer DEF Talk
  <2> QED BY <1>0, <1>7, <2>1 DEF Talk, Announcing
<1>8. CASE screen = "body?"
  <2>1. BodyTalk' /\ loggedIn'
    BY <1>8, BodyServer DEF Talk
  <2> QED BY <1>0, <1>8, <2>1 DEF Talk, Announcing
<1>9. CASE screen = "att?"
  <2>1. AttTalk' /\ loggedIn'
    BY <1>9, AttServer DEF Talk
  <2> QED BY <1>0, <1>9, <2>1 DEF Talk, Announcing
<1>10. CASE screen = "count?"
  <2>1. CountTalk' /\ loggedIn'
    BY <1>10, RestServer DEF Talk
  <2> QED BY <1>0, <1>10, <2>1 DEF Talk, Announcing
<1>11. CASE screen = "attachment?"
  <2>1. AttachmentTalk' /\ loggedIn'
    BY <1>11, RestServer DEF Talk
  <2> QED BY <1>0, <1>11, <2>1 DEF Talk, Announcing
<1>12. CASE screen = "deleted?"
  <2>1. DeleteTalk' /\ loggedIn'
    BY <1>12, DeleteServer DEF Talk
  <2> QED BY <1>0, <1>12, <2>1 DEF Talk, Announcing
<1>13. CASE screen \in {"message", "line", "attach"} \cup Announcing
  <2>1. SendTalk' /\ loggedIn'
    BY <1>13, SendServer DEF Talk, Announcing
  <2> QED BY <1>0, <1>13, <2>1 DEF Talk, Announcing
<1> QED BY <1>1, <1>2, <1>3, <1>4, <1>5, <1>6, <1>7, <1>8, <1>9, <1>10, <1>11, <1>12, <1>13
       DEF Screen, Waiting, Asking, Announcing

-----------------------------------------------------------------------------
(* Steps of the client while it is in step.                                 *)

LEMMA StillOpen ==
  ASSUME Basics, InStep
  PROVE  ~hungUp /\ ~NothingLeft /\ (screen # "menu" => told = "nothing")
BY DEF Basics, InStep, Over, NothingLeft

LEMMA SendsInStep ==
  ASSUME TypeInv, ~hungUp, NEW items \in Seq(Items), Sends(items)
  PROVE  /\ toServer = <<>> => toServer' = items
         /\ Len(toServer') = Len(toServer) + Len(items)
         /\ \A i \in 1..Len(toServer) : toServer'[i] = toServer[i]
         /\ \A i \in 1..Len(items) : toServer'[Len(toServer) + i] = items[i]
<1>1. toServer \in Seq(Items) /\ toServer' = toServer \o items
  BY DEF TypeInv, WireOK, Sends
<1>2. <<>> \o items = items
  OBVIOUS
<1> QED BY <1>1, <1>2

\* The client reads the first of what is in flight.
LEMMA FirstRead ==
  ASSUME TypeInv, Answers, toClient # <<>>, toClient' = Tail(toClient),
         UNCHANGED <<at, out, toServer>>
  PROVE  /\ Answers' /\ Head(toClient) = InFlight[1] /\ Len(InFlight) \in Nat \ {0}
         /\ InFlight \in Seq(Items)
         /\ Len(InFlight') = Len(InFlight) - 1
         /\ \A i \in 1..(Len(InFlight) - 1) : InFlight'[i] = InFlight[i + 1]
<1>1. /\ toClient \in Seq(Items) /\ Head(toClient) = toClient[1]
      /\ Len(toClient) \in Nat /\ Len(toClient) >= 1
      /\ Len(toClient') = Len(toClient) - 1
      /\ \A i \in 1..(Len(toClient) - 1) : toClient'[i] = toClient[i + 1]
  BY DEF TypeInv, WireOK
<1>2. Len(out) \in Nat
  BY DEF TypeInv, SessionOK
<1>3. InFlight \in Seq(Items)
  BY FlightTyped
<1>4. /\ Len(InFlight) = Len(toClient) + Len(out)
      /\ Len(InFlight') = Len(toClient') + Len(out)
  BY <1>1, <1>2 DEF InFlight
<1>5. Head(toClient) = InFlight[1]
  BY <1>1, <1>2 DEF InFlight
<1>6. ASSUME NEW i \in 1..(Len(InFlight) - 1)
      PROVE  InFlight'[i] = InFlight[i + 1]
  <2>1. /\ i \in 1..(Len(toClient') + Len(out))
        /\ i + 1 \in 1..(Len(toClient) + Len(out))
    BY <1>1, <1>2, <1>4
  <2>2. /\ InFlight'[i] = IF i <= Len(toClient') THEN toClient'[i] ELSE out[i - Len(toClient')][1]
        /\ InFlight[i + 1] = IF i + 1 <= Len(toClient) THEN toClient[i + 1]
                             ELSE out[(i + 1) - Len(toClient)][1]
    BY <2>1 DEF InFlight
  <2>3. CASE i <= Len(toClient')
    <3>1. i + 1 <= Len(toClient) /\ i \in 1..(Len(toClient) - 1)
      BY <1>1, <2>3
    <3>2. toClient'[i] = toClient[i + 1]
      BY <1>1, <3>1
    <3> QED BY <2>2, <2>3, <3>1, <3>2
  <2>4. CASE ~(i <= Len(toClient'))
    <3>1. ~(i + 1 <= Len(toClient)) /\ i - Len(toClient') = (i + 1) - Len(toClient)
      BY <1>1, <2>4
    <3> QED BY <2>2, <2>4, <3>1
  <2> QED BY <2>3, <2>4
<1>7. Answers'
  BY DEF Answers
<1> QED BY <1>1, <1>2, <1>3, <1>4, <1>5, <1>6, <1>7

\* When it has read all of it, nothing is under way.
LEMMA AllRead ==
  ASSUME TypeInv', Answers', ~(Len(InFlight') > 0)
  PROVE  Idle'
<1>1. Len(InFlight') = Len(toClient') + Len(out') /\ Len(toClient') \in Nat /\ Len(out') \in Nat
  BY DEF InFlight, TypeInv, WireOK, SessionOK
<1>2. ~(Len(toClient') > 0) /\ ~(Len(out') > 0)
  BY <1>1
<1>3. toClient' = <<>> /\ out' = <<>>
  <2>1. /\ \A s \in Seq(Items) : ~(Len(s) > 0) => s = <<>>
        /\ \A s \in Seq(Seq(Items)) : ~(Len(s) > 0) => s = <<>>
    OBVIOUS
  <2> QED BY <1>2, <2>1 DEF TypeInv, WireOK, SessionOK
<1>4. at' # "write"
  BY <1>3 DEF TypeInv, SessionOK
<1> QED BY <1>3, <1>4 DEF Answers, Idle

\* An answer of one item.
LEMMA OnlyRead ==
  ASSUME TypeInv, Answers, toClient # <<>>, NEW i, InFlight = <<i>>
  PROVE  Head(toClient) = i /\ Tail(toClient) = <<>> /\ at = "cmd" /\ toServer = <<>>
<1>1. /\ toClient \in Seq(Items) /\ Head(toClient) = toClient[1]
      /\ Len(toClient) \in Nat /\ Len(toClient) >= 1 /\ Len(out) \in Nat
  BY DEF TypeInv, WireOK, SessionOK
<1>2. Len(toClient) + Len(out) = Len(<<i>>) /\ toClient[1] = <<i>>[1]
  <2>1. Len(InFlight) = Len(toClient) + Len(out) /\ InFlight[1] = toClient[1]
    BY <1>1 DEF InFlight
  <2> HIDE DEF InFlight
  <2> QED BY <2>1
<1>3. Len(<<i>>) = 1 /\ <<i>>[1] = i
  OBVIOUS
<1>4. ~(Len(toClient) > 1) /\ ~(Len(out) > 0)
  BY <1>1, <1>2, <1>3
<1>5. Tail(toClient) = <<>> /\ out = <<>>
  <2>1. /\ \A s \in Seq(Items) : s # <<>> /\ ~(Len(s) > 1) => Tail(s) = <<>>
        /\ \A s \in Seq(Seq(Items)) : ~(Len(s) > 0) => s = <<>>
    OBVIOUS
  <2> QED BY <1>4, <2>1 DEF TypeInv, WireOK, SessionOK
<1> QED BY <1>1, <1>2, <1>3, <1>5 DEF Answers, TypeInv, SessionOK

\* A command is written while nothing is under way.
LEMMA BeginInStep ==
  ASSUME TypeInv, Basics, InStep, Idle, NEW here, NEW items \in Seq(Items), NEW there,
         Begin(here, items, there), UNCHANGED session
  PROVE  /\ at' = "cmd" /\ Asks(items)' /\ screen' = there /\ told' = "nothing"
         /\ loggedIn' = loggedIn /\ toServer' = items /\ toClient' = <<>>
<1>1. toServer' = items
  BY StillOpen, SendsInStep DEF Idle, Begin
<1> QED BY <1>1 DEF Idle, Begin, Show, Asks, session

LEMMA LoginClient ==
  ASSUME TypeInv, Basics, InStep, InStep', UNCHANGED session, Talk, Login
  PROVE  Talk'
<1>1. Begin("login", <<Item("LOGIN"), Item("name"), Item("password")>>, "login?")
  BY DEF Login, InStep, Slipped
<1>2. Idle
  BY DEF Login, Begin, Show, Talk
<1>3. <<Item("LOGIN"), Item("name"), Item("password")>> \in Seq(Items)
  <2>1. "LOGIN" \in Kind /\ "name" \in Kind /\ "password" \in Kind
    BY DEF Kind, Command
  <2> QED BY <2>1, ItemTyped
<1>4. /\ at' = "cmd" /\ Asks(<<Item("LOGIN"), Item("name"), Item("password")>>)'
      /\ screen' = "login?"
  BY <1>1, <1>2, <1>3, BeginInStep
<1>5. LoginTalk'
  BY <1>4 DEF LoginTalk
<1> QED BY <1>4, <1>5 DEF Talk, Announcing

LEMMA ListClient ==
  ASSUME TypeInv, Basics, InStep, UNCHANGED session, Talk, ChooseList
  PROVE  Talk'
<1>1. Begin("menu", <<Item("LIST")>>, "total?")
  BY DEF ChooseList
<1>2. Idle /\ loggedIn
  BY DEF ChooseList, Begin, Show, Talk
<1>3. <<Item("LIST")>> \in Seq(Items)
  <2>1. "LIST" \in Kind
    BY DEF Kind, Command
  <2> QED BY <2>1, ItemTyped
<1>4. at' = "cmd" /\ Asks(<<Item("LIST")>>)' /\ screen' = "total?" /\ loggedIn'
  BY <1>1, <1>2, <1>3, BeginInStep
<1>5. TotalTalk'
  BY <1>4 DEF TotalTalk
<1> QED BY <1>4, <1>5 DEF Talk, Announcing

LEMMA ReadClient ==
  ASSUME TypeInv, Basics, InStep, InStep', UNCHANGED session, Talk, ChooseRead
  PROVE  Talk'
<1>1. Begin("menu", <<Item("READ"), Item("number")>>, "read?")
  BY DEF ChooseRead, InStep, Slipped
<1>2. Idle /\ loggedIn
  BY <1>1 DEF Begin, Show, Talk
<1>3. <<Item("READ"), Item("number")>> \in Seq(Items)
  <2>1. "READ" \in Kind /\ "number" \in Kind
    BY DEF Kind, Command
  <2> QED BY <2>1, ItemTyped
<1>4. at' = "cmd" /\ Asks(<<Item("READ"), Item("number")>>)' /\ screen' = "read?" /\ loggedIn'
  BY <1>1, <1>2, <1>3, BeginInStep
<1>5. ReadTalk'
  BY <1>4 DEF ReadTalk
<1> QED BY <1>4, <1>5 DEF Talk, Announcing

LEMMA DeleteClient ==
  ASSUME TypeInv, Basics, InStep, UNCHANGED session, Talk, ChooseDelete
  PROVE  Talk'
<1>1. Begin("menu", <<Item("DEL"), Item("number")>>, "deleted?")
  BY DEF ChooseDelete
<1>2. Idle /\ loggedIn
  BY <1>1 DEF Begin, Show, Talk
<1>3. <<Item("DEL"), Item("number")>> \in Seq(Items)
  <2>1. "DEL" \in Kind /\ "number" \in Kind
    BY DEF Kind, Command
  <2> QED BY <2>1, ItemTyped
<1>4. at' = "cmd" /\ Asks(<<Item("DEL"), Item("number")>>)' /\ screen' = "deleted?" /\ loggedIn'
  BY <1>1, <1>2, <1>3, BeginInStep
<1>5. DeleteTalk'
  BY <1>4 DEF DeleteTalk
<1> QED BY <1>4, <1>5 DEF Talk, Announcing

LEMMA ChooseSendClient ==
  ASSUME TypeInv, Basics, InStep, InStep', UNCHANGED session, Talk, ChooseSend
  PROVE  Talk'
<1>1. Begin("menu", <<Item("SEND"), Item("to"), Item("subject")>>, "message")
  BY DEF ChooseSend, InStep, Slipped
<1>2. Idle /\ loggedIn
  BY <1>1 DEF Begin, Show, Talk
<1>3. <<Item("SEND"), Item("to"), Item("subject")>> \in Seq(Items)
  <2>1. "SEND" \in Kind /\ "to" \in Kind /\ "subject" \in Kind
    BY DEF Kind, Command
  <2> QED BY <2>1, ItemTyped
<1>4. /\ at' = "cmd" /\ screen' = "message" /\ loggedIn' /\ toClient' = <<>>
      /\ toServer' = <<Item("SEND"), Item("to"), Item("subject")>>
  BY <1>1, <1>2, <1>3, BeginInStep
<1>5. Heading' = 3
  BY <1>4 DEF Heading
<1>6. /\ Len(toServer') = 3 /\ toServer'[1] = Item("SEND") /\ toServer'[2] = Item("to")
      /\ toServer'[3] = Item("subject")
  BY <1>4
<1>7. Message(3)'
  <2>1. \A i \in 1..3 : toServer'[i] = Item(<<"subject", "to", "SEND">>[3 - i + 1])
    <3> TAKE i \in 1..3
    <3>1. CASE i = 1
      BY <1>6, <3>1
    <3>2. CASE i = 2
      BY <1>6, <3>2
    <3>3. CASE i = 3
      BY <1>6, <3>3
    <3> QED BY <3>1, <3>2, <3>3
  <2>2. typed' = <<>>
    BY DEF ChooseSend
  <2> HIDE DEF Heading
  <2> QED BY <1>4, <1>5, <1>6, <2>1, <2>2 DEF Message, Announcing
<1>8. SendTalk'
  BY <1>6, <1>7 DEF SendTalk
<1> QED BY <1>4, <1>8 DEF Talk, Announcing

\* The client writes one more item.
Appended(x) ==
  /\ Len(toServer') = Len(toServer) + 1
  /\ \A i \in 1..Len(toServer) : toServer'[i] = toServer[i]
  /\ toServer'[Len(toServer) + 1] = x

LEMMA SendsOne ==
  ASSUME TypeInv, Basics, InStep, NEW x \in Items, Sends(<<x>>)
  PROVE  Appended(x) /\ Len(toServer) \in Nat
<1>1. <<x>> \in Seq(Items) /\ Len(<<x>>) = 1 /\ <<x>>[1] = x /\ 1 \in 1..1
  OBVIOUS
<1>2. toServer \in Seq(Items) /\ toServer' = toServer \o <<x>>
  BY StillOpen DEF TypeInv, WireOK, Sends
<1> QED BY <1>2 DEF Appended

\* While the user types, the message is on its way and nothing behind it.
LEMMA Typing ==
  ASSUME Talk, screen \in {"message", "line"}
  PROVE  \E d \in Nat : Message(d) /\ Len(toServer) = d
<1>1. SendTalk
  BY DEF Talk
<1>2. PICK d \in 0..Len(toServer) : Message(d)
  BY <1>1 DEF SendTalk, Announcing
<1> QED BY <1>2 DEF Message

LEMMA MessageGrows ==
  ASSUME TypeInv, UNCHANGED session, toClient' = toClient, NEW d \in Nat, Message(d),
         Len(toServer) = d, screen \in {"message", "line"}, NEW x, Appended(x),
         x.kind \in {"text", "part"}, screen = "line" => x.kind = "text",
         screen' = IF x.kind = "part" THEN "line" ELSE "message"
  PROVE  SendTalk'
<1>1. Heading' = Heading /\ (Fresh' = Fresh) /\ at' = at
  BY DEF session, Heading, Fresh
<1>2. Heading \in 0..3 /\ Heading <= d
  BY HeadingIs DEF Message
<1>3. Len(toServer') = d + 1
  BY DEF Appended
<1>4. \A i \in 1..d : toServer'[i] = toServer[i]
  BY DEF Appended
<1>5. toServer'[d + 1] = x
  BY DEF Appended
<1>6. \A i \in 1..Heading : toServer'[i] = Item(<<"subject", "to", "SEND">>[Heading - i + 1])
  <2> TAKE i \in 1..Heading
  <2>1. i \in 1..d
    BY <1>2
  <2> QED BY <1>4, <2>1 DEF Message
<1>7. ASSUME NEW i \in (Heading + 1)..(d + 1)
      PROVE  /\ toServer'[i].kind \in {"text", "part"}
             /\ toServer'[i].kind = "part"
                  => IF i < d + 1 THEN toServer'[i + 1].kind = "text" ELSE screen' = "line"
  <2>1. CASE i = d + 1
    BY <1>5, <2>1
  <2>2. CASE i # d + 1
    <3>1. i \in (Heading + 1)..d /\ i \in 1..d /\ i < d + 1
      BY <1>2, <2>2
    <3>2. toServer'[i] = toServer[i]
      BY <1>4, <3>1
    <3>3. /\ toServer[i].kind \in {"text", "part"}
          /\ toServer[i].kind = "part"
               => IF i < d THEN toServer[i + 1].kind = "text" ELSE screen = "line"
      BY <3>1 DEF Message
    <3>4. CASE i < d
      <4>1. toServer'[i + 1] = toServer[i + 1]
        BY <1>4, <3>1, <3>4
      <4> QED BY <3>1, <3>2, <3>3, <3>4, <4>1
    <3>5. CASE i = d
      BY <1>5, <3>1, <3>2, <3>3, <3>5
    <3> QED BY <3>1, <3>4, <3>5
  <2> QED BY <2>1, <2>2
<1>8. Message(d + 1)'
  <2>1. /\ at' \in {"cmd", "to", "subject", "body"} /\ toClient' = <<>>
        /\ Heading' <= d + 1 /\ d + 1 <= Len(toServer') /\ d + 1 # Heading'
        /\ screen' \in {"message", "line"}
    BY <1>1, <1>2, <1>3 DEF Message
  <2>2. \A i \in 1..Heading' : toServer'[i] = Item(<<"subject", "to", "SEND">>[Heading' - i + 1])
    BY <1>1, <1>6
  <2>3. \A i \in (Heading' + 1)..(d + 1) :
             /\ toServer'[i].kind \in {"text", "part"}
             /\ toServer'[i].kind = "part"
                  => IF i < d + 1 THEN toServer'[i + 1].kind = "text" ELSE screen' = "line"
    BY <1>1, <1>7
  <2> HIDE DEF Heading, Fresh
  <2> QED BY <1>3, <2>1, <2>2, <2>3 DEF Message, Announcing
<1> QED BY <1>3, <1>8 DEF SendTalk

LEMMA TextClient ==
  ASSUME TypeInv, Basics, InStep, UNCHANGED session, Talk, TypeLine \/ TypePiece \/ TypeRest
  PROVE  Talk'
<1>1. screen \in {"message", "line"} /\ loggedIn /\ loggedIn' = loggedIn
  BY DEF TypeLine, TypePiece, TypeRest, Show, Talk, session
<1>2. PICK d \in Nat : Message(d) /\ Len(toServer) = d
  BY <1>1, Typing
<1>3. PICK k \in {"text", "part"} :
        /\ Sends(<<Item(k)>>) /\ screen' = (IF k = "part" THEN "line" ELSE "message")
        /\ screen = "line" => k = "text"
  BY DEF TypeLine, TypePiece, TypeRest, Show
<1>4. Item(k) \in Items /\ Item(k).kind = k
  BY ItemTyped, ItemKind DEF Kind
<1>5. Appended(Item(k))
  BY <1>3, <1>4, SendsOne
<1>6. toClient' = toClient
  BY DEF TypeLine, TypePiece, TypeRest
<1>7. SendTalk'
  BY <1>1, <1>2, <1>3, <1>4, <1>5, <1>6, MessageGrows
<1> QED BY <1>1, <1>3, <1>7 DEF Talk, Announcing

\* Behind the message come the dot, the number of attachments and their parts.
LEMMA MessageStays ==
  ASSUME TypeInv, UNCHANGED session, toClient' = toClient, NEW d \in Nat, Message(d),
         NEW x, Appended(x),
         \/ /\ screen = "message" /\ Len(toServer) = d /\ x.kind = "." /\ typed # <<>>
            /\ screen' = "attach"
         \/ /\ screen \in {"attach"} \cup Announcing /\ screen' \in Announcing
            /\ Announced(d + 2)'
  PROVE  SendTalk'
<1>1. Heading' = Heading /\ (Fresh' = Fresh) /\ at' = at
  BY DEF session, Heading, Fresh
<1>2. Heading \in 0..3 /\ Heading <= d /\ d <= Len(toServer) /\ Len(toServer) \in Nat
  BY HeadingIs DEF Message, TypeInv, WireOK
<1>3. /\ Len(toServer') = Len(toServer) + 1
      /\ \A i \in 1..Len(toServer) : toServer'[i] = toServer[i]
      /\ toServer'[Len(toServer) + 1] = x
  BY DEF Appended
<1>4. \A i \in 1..Heading : toServer'[i] = Item(<<"subject", "to", "SEND">>[Heading - i + 1])
  <2> TAKE i \in 1..Heading
  <2>1. i \in 1..Len(toServer)
    BY <1>2
  <2> QED BY <1>3, <2>1 DEF Message
<1>5. screen # "line" /\ screen' \notin {"message", "line"}
  BY DEF Announcing
<1>6. ASSUME NEW i \in (Heading + 1)..d
      PROVE  /\ toServer'[i].kind \in {"text", "part"}
             /\ toServer'[i].kind = "part"
                  => IF i < d THEN toServer'[i + 1].kind = "text" ELSE screen' = "line"
  <2>1. i \in 1..Len(toServer) /\ (i < d => i + 1 \in 1..Len(toServer))
    BY <1>2
  <2>2. toServer'[i] = toServer[i] /\ (i < d => toServer'[i + 1] = toServer[i + 1])
    BY <1>3, <2>1
  <2>3. /\ toServer[i].kind \in {"text", "part"}
        /\ toServer[i].kind = "part"
             => IF i < d THEN toServer[i + 1].kind = "text" ELSE screen = "line"
    BY DEF Message
  <2> QED BY <1>5, <2>2, <2>3
<1>7. /\ Fresh => d > Heading
      /\ d < Len(toServer') /\ toServer'[d + 1].kind = "."
  <2>1. CASE screen = "message" /\ Len(toServer) = d /\ x.kind = "." /\ typed # <<>>
    <3>1. Fresh => d # Heading
      BY <2>1 DEF Message
    <3> HIDE DEF Fresh, Heading
    <3> QED BY <1>2, <1>3, <2>1, <3>1
  <2>2. CASE screen \in {"attach"} \cup Announcing
    <3>1. screen \notin {"message", "line"}
      BY <2>2 DEF Announcing
    <3>2. (Fresh => d > Heading) /\ d < Len(toServer) /\ toServer[d + 1].kind = "."
      BY <3>1 DEF Message
    <3>3. d + 1 \in 1..Len(toServer)
      BY <1>2, <3>2
    <3> QED BY <1>2, <1>3, <3>2, <3>3
  <2> QED BY <2>1, <2>2
<1>8. screen' = "attach" => Len(toServer') = d + 1
  BY <1>3 DEF Announcing
<1>9. screen' \in Announcing => Announced(d + 2)'
  BY DEF Announcing
<1>10. Message(d)'
  <2>1. /\ at' \in {"cmd", "to", "subject", "body"} /\ toClient' = <<>>
        /\ Heading' <= d /\ d <= Len(toServer')
    BY <1>1, <1>2, <1>3 DEF Message
  <2>2. \A i \in 1..Heading' : toServer'[i] = Item(<<"subject", "to", "SEND">>[Heading' - i + 1])
    BY <1>1, <1>4
  <2>3. \A i \in (Heading' + 1)..d :
             /\ toServer'[i].kind \in {"text", "part"}
             /\ toServer'[i].kind = "part"
                  => IF i < d THEN toServer'[i + 1].kind = "text" ELSE screen' = "line"
    BY <1>1, <1>6
  <2>4. Fresh' => d > Heading'
    BY <1>1, <1>7
  <2> HIDE DEF Heading, Fresh, Announced
  <2> QED BY <1>5, <1>7, <1>8, <1>9, <2>1, <2>2, <2>3, <2>4 DEF Message
<1>11. d \in 0..Len(toServer')
  BY <1>2, <1>3
<1> QED BY <1>10, <1>11 DEF SendTalk

LEMMA DotClient ==
  ASSUME TypeInv, Basics, InStep, InStep', UNCHANGED session, Talk, TypeDot
  PROVE  Talk'
<1>1. screen = "message" /\ typed # <<>> /\ screen' = "attach" /\ toClient' = toClient
  BY DEF TypeDot, Show, InStep, Slipped
<1>2. PICK d \in Nat : Message(d) /\ Len(toServer) = d
  BY <1>1, Typing
<1>3. Item(".") \in Items /\ Item(".").kind = "."
  BY ItemTyped, ItemKind DEF Kind
<1>4. Appended(Item("."))
  BY <1>3, SendsOne DEF TypeDot
<1>5. SendTalk'
  BY <1>1, <1>2, <1>3, <1>4, MessageStays
<1>6. loggedIn'
  BY <1>1 DEF session, Talk
<1> QED BY <1>1, <1>5, <1>6 DEF Talk, Announcing

LEMMA AttachClient ==
  ASSUME TypeInv, Basics, InStep, InStep', UNCHANGED session, Talk, Attach
  PROVE  Talk'
<1>1. PICK n \in 0..MaxAttached :
        /\ Sends(<<Numbered("byte", n % Byte)>>) /\ expect' = n
        /\ Show("attach", IF n % Byte = 0 THEN "sent?" ELSE "file")
        /\ garbled' = (n >= Byte)
  BY DEF Attach, Chosen
<1>2. n \in Nat /\ n < Byte /\ n % Byte = n
  <2>2. n \in Nat
    BY ClientAssumption
  <2>3. ~garbled'
    BY DEF InStep, Slipped
  <2>4. ~(n >= Byte)
    BY <1>1, <2>3, Zenon
  <2>1. n < Byte
    BY <2>2, <2>4, WireAssumption
  <2> QED BY <2>1, <2>2, WireAssumption
<1>3. screen = "attach" /\ screen' = (IF n = 0 THEN "sent?" ELSE "file") /\ toClient' = toClient
  BY <1>1, <1>2 DEF Show, Attach
<1> DEFINE x == Numbered("byte", n)
<1>4. x \in Items /\ x.kind = "byte" /\ x.n = n
  BY <1>2, NumberedTyped DEF Numbered, Kind
<1>5. Appended(x) /\ Len(toServer) \in Nat
  BY <1>1, <1>2, <1>4, SendsOne
<1> HIDE DEF x
<1>6. ToSend' = 3 * n
  BY <1>1, <1>2, <1>3 DEF ToSend, Step
<1>7. ASSUME NEW p \in Nat, Len(toServer) + 1 = p PROVE Announced(p)'
  <2>1. Len(toServer') = p /\ toServer'[p] = x
    BY <1>5, <1>7 DEF Appended
  <2>2. n \in 0..(Byte - 1) /\ p = p + 3 * n - 3 * n /\ \A j \in (p + 1)..p : FALSE
    BY <1>2, WireAssumption
  <2> HIDE DEF ToSend
  <2> QED BY <1>4, <1>6, <2>1, <2>2 DEF Announced
<1>8. SendTalk'
  <2>1. CASE \E d \in 0..Len(toServer) : Message(d)
    <3>1. PICK d \in 0..Len(toServer) : Message(d)
      BY <2>1
    <3>2. Len(toServer) + 1 = d + 2 /\ d \in Nat
      BY <1>3, <3>1 DEF Message
    <3>3. Announced(d + 2)'
      BY <1>7, <3>2
    <3>4. screen \in {"attach"} \cup Announcing /\ screen' \in Announcing
      BY <1>3 DEF Announcing
    <3> QED BY <1>3, <1>5, <3>1, <3>2, <3>3, <3>4, MessageStays
  <2>2. CASE at = "count" /\ toClient = <<>> /\ toServer = <<>>
    <3>1. Len(toServer) + 1 = 1
      BY <2>2
    <3>2. Announced(1)' /\ at' = "count" /\ toClient' = <<>> /\ screen' \in Announcing
      BY <1>3, <1>7, <2>2, <3>1 DEF session, Announcing
    <3> QED BY <3>2 DEF SendTalk
  <2> QED BY <1>3, <2>1, <2>2 DEF SendTalk, Talk, Announcing
<1>9. loggedIn'
  BY <1>3 DEF session, Talk
<1> QED BY <1>3, <1>8, <1>9 DEF Talk, Announcing

\* Files are sent in the order in which their parts are counted.
LEMMA PartSent ==
  ASSUME TypeInv, SendFile
  PROVE  /\ screen \in {"file", "size", "data"} /\ screen' \in Announcing
         /\ Part(ToSend) = screen /\ ToSend \in Nat /\ ToSend > 0 /\ ToSend' = ToSend - 1
<1>1. screen \in {"file", "size", "data"}
  BY DEF SendFile, Show
<1>2. expect \in Nat /\ expect > 0
  BY <1>1 DEF TypeInv, ClientOK
<1>3. CASE screen = "file"
  <2>1. screen' = "size" /\ expect' = expect
    BY <1>3 DEF SendFile, Show
  <2>2. ToSend = 3 * expect /\ ToSend' = 3 * expect - 1
    BY <1>2, <1>3, <2>1 DEF ToSend, Step
  <2> QED BY <1>2, <1>3, <2>1, <2>2, PartIs DEF Announcing
<1>4. CASE screen = "size"
  <2>1. screen' = "data" /\ expect' = expect
    BY <1>4 DEF SendFile, Show
  <2>2. ToSend = 3 * expect - 1 /\ ToSend' = 3 * expect - 2
    BY <1>2, <1>4, <2>1 DEF ToSend, Step
  <2> QED BY <1>2, <1>4, <2>1, <2>2, PartIs DEF Announcing
<1>5. CASE screen = "data"
  <2>1. screen' = (IF expect = 1 THEN "sent?" ELSE "file") /\ expect' = expect - 1
    BY <1>5 DEF SendFile, Show
  <2>2. ToSend = 3 * expect - 2
    BY <1>2, <1>5 DEF ToSend, Step
  <2>3. ToSend' = 3 * expect - 3
    BY <1>2, <2>1 DEF ToSend, Step
  <2> QED BY <1>2, <1>5, <2>1, <2>2, <2>3, PartIs DEF Announcing
<1> QED BY <1>1, <1>3, <1>4, <1>5

LEMMA AnnouncedGrows ==
  ASSUME TypeInv, NEW p \in Nat \ {0}, Announced(p), Appended(Item(Part(ToSend))),
         ToSend \in Nat, ToSend' = ToSend - 1
  PROVE  Announced(p)'
<1>1. /\ Len(toServer) \in Nat /\ Len(toServer') = Len(toServer) + 1
      /\ \A i \in 1..Len(toServer) : toServer'[i] = toServer[i]
      /\ toServer'[Len(toServer) + 1] = Item(Part(ToSend))
  BY DEF Appended, TypeInv, WireOK
<1>2. /\ p <= Len(toServer)
      /\ toServer[p].kind = "byte" /\ toServer[p].n \in 0..(Byte - 1)
      /\ Len(toServer) = p + 3 * toServer[p].n - ToSend
  BY DEF Announced
<1>3. toServer'[p] = toServer[p]
  BY <1>1, <1>2
<1>4. PICK m \in Int : m = 3 * toServer[p].n
  BY <1>2, WireAssumption
<1>8. Len(toServer) = p + m - ToSend /\ m = 3 * toServer'[p].n
  BY <1>2, <1>3, <1>4
<1> HIDE DEF ToSend
<1>5. ASSUME NEW j \in (p + 1)..Len(toServer')
      PROVE  toServer'[j] = Item(Part(3 * toServer'[p].n - (j - p) + 1))
  <2>1. CASE j \in 1..Len(toServer)
    <3>1. j \in (p + 1)..Len(toServer)
      BY <1>1, <2>1
    <3>2. toServer[j] = Item(Part(3 * toServer[p].n - (j - p) + 1))
      BY <3>1 DEF Announced
    <3> QED BY <1>1, <1>3, <2>1, <3>2
  <2>2. CASE j = Len(toServer) + 1
    <3>1. m - (j - p) + 1 = ToSend
      <4>1. j = p + m - ToSend + 1
        BY <1>8, <2>2
      <4> QED BY <4>1
    <3> QED BY <1>1, <1>8, <2>2, <3>1
  <2> QED BY <1>1, <2>1, <2>2
<1>6. Len(toServer') = p + 3 * toServer'[p].n - ToSend'
  <2>1. PICK s \in Nat : s = ToSend
    OBVIOUS
  <2>2. ToSend' = s - 1
    BY <2>1
  <2>3. Len(toServer') = Len(toServer) + 1
    BY <1>1
  <2>4. Len(toServer) = p + m - s
    BY <1>8, <2>1
  <2>5. Len(toServer') = p + m - (s - 1)
    BY <2>3, <2>4
  <2> QED BY <1>8, <2>2, <2>5
<1>7. p <= Len(toServer')
  BY <1>1, <1>2
<1> QED BY <1>2, <1>3, <1>5, <1>6, <1>7 DEF Announced

LEMMA FileClient ==
  ASSUME TypeInv, Basics, InStep, UNCHANGED session, Talk, SendFile
  PROVE  Talk'
<1>1. /\ screen \in {"file", "size", "data"} /\ screen' \in Announcing
      /\ Part(ToSend) = screen /\ ToSend \in Nat /\ ToSend > 0 /\ ToSend' = ToSend - 1
  BY PartSent
<1>2. Item(screen) \in Items
  BY <1>1, ItemTyped DEF Kind
<1>3. Appended(Item(Part(ToSend))) /\ Len(toServer) \in Nat /\ toClient' = toClient
  BY <1>1, <1>2, SendsOne DEF SendFile
<1>4. screen \in Announcing /\ SendTalk
  BY <1>1 DEF Talk, Announcing
<1> HIDE DEF ToSend
<1>5. SendTalk'
  <2>1. CASE \E d \in 0..Len(toServer) : Message(d)
    <3>1. PICK d \in 0..Len(toServer) : Message(d)
      BY <2>1
    <3>2. d + 2 \in Nat \ {0} /\ d \in Nat
      BY <1>3
    <3>3. Announced(d + 2)
      BY <1>4, <3>1 DEF Message
    <3>4. Announced(d + 2)'
      BY <1>1, <1>3, <3>2, <3>3, AnnouncedGrows
    <3> QED BY <1>1, <1>3, <1>4, <3>1, <3>2, <3>4, MessageStays
  <2>2. CASE at = "count" /\ toClient = <<>> /\ Announced(1)
    <3>1. Announced(1)'
      BY <1>1, <1>3, <2>2, AnnouncedGrows
    <3>2. at' = "count" /\ toClient' = <<>>
      BY <1>3, <2>2 DEF session
    <3> QED BY <1>1, <3>1, <3>2 DEF SendTalk
  <2>3. CASE /\ at \in {"file", "size", "data"} /\ toClient = <<>>
             /\ Len(toServer) = ToRead - ToSend
             /\ \A j \in 1..Len(toServer) : toServer[j] = Item(Part(ToRead - j + 1))
    <3>1. ToRead \in Int /\ ToRead' = ToRead
      BY ReadTypes DEF session, ToRead
    <3>2. at' \in {"file", "size", "data"} /\ toClient' = <<>>
      BY <1>3, <2>3 DEF session
    <3>3. /\ Len(toServer') = Len(toServer) + 1
          /\ \A i \in 1..Len(toServer) : toServer'[i] = toServer[i]
          /\ toServer'[Len(toServer) + 1] = Item(Part(ToSend))
      BY <1>3 DEF Appended
    <3> HIDE DEF ToRead
    <3>4. Len(toServer') = ToRead' - ToSend'
      BY <1>1, <1>3, <2>3, <3>1, <3>3
    <3>5. ASSUME NEW j \in 1..Len(toServer') PROVE toServer'[j] = Item(Part(ToRead' - j + 1))
      <4>1. CASE j \in 1..Len(toServer)
        BY <2>3, <3>1, <3>3, <4>1
      <4>2. CASE j = Len(toServer) + 1
        <5>1. ToRead' - j + 1 = ToSend
          BY <1>1, <1>3, <2>3, <3>1, <4>2
        <5> QED BY <3>3, <4>2, <5>1
      <4> QED BY <1>3, <3>3, <4>1, <4>2
    <3> QED BY <1>1, <3>2, <3>4, <3>5 DEF SendTalk
  <2> QED BY <1>1, <1>4, <2>1, <2>2, <2>3 DEF SendTalk
<1>6. loggedIn'
  BY <1>1 DEF session, Talk
<1> QED BY <1>1, <1>5, <1>6 DEF Talk, Announcing

\* The greeting, and the answers of one item.
LEMMA GreetedClient ==
  ASSUME TypeInv, Basics, InStep, UNCHANGED session, Talk, Greeted, screen' # "gone"
  PROVE  Talk'
<1>1. screen = "greeting" /\ toClient # <<>> /\ toClient' = Tail(toClient) /\ screen' = "login"
  BY DEF Greeted, GetsLine, Show
<1>2. Answers /\ InFlight = <<Item("OK")>>
  BY <1>1 DEF Talk, OK
<1>3. Tail(toClient) = <<>> /\ at = "cmd" /\ toServer = <<>>
  BY <1>1, <1>2, OnlyRead
<1>4. Idle'
  BY <1>1, <1>3 DEF Greeted, session, Idle
<1> QED BY <1>1, <1>4 DEF Talk, Announcing

LEMMA LoginReplyClient ==
  ASSUME TypeInv, Basics, InStep, UNCHANGED session, Talk, LoginReply
  PROVE  Talk'
<1>1. /\ screen = "login?" /\ toClient # <<>> /\ GetsReply(Head(toClient))
      /\ screen' = (IF Head(toClient).kind = "OK" THEN "menu" ELSE "login")
      /\ UNCHANGED <<toServer, told>>
  BY StillOpen DEF LoginReply, GetsReply, Show
<1>2. PICK k \in {"OK", "ERR"} : Answers /\ InFlight = <<Item(k)>> /\ (k = "OK" => loggedIn)
  BY <1>1 DEF Talk, LoginTalk, Asks, OK, ERR
<1>3. Head(toClient) = Item(k) /\ Tail(toClient) = <<>> /\ at = "cmd" /\ toServer = <<>>
  BY <1>1, <1>2, OnlyRead
<1>4. toClient' = <<>>
  BY <1>1, <1>3 DEF GetsReply
<1>5. Idle' /\ loggedIn' = loggedIn
  BY <1>1, <1>3, <1>4 DEF session, Idle
<1>6. told' = "nothing"
  BY <1>1, StillOpen
<1>7. screen' = (IF k = "OK" THEN "menu" ELSE "login")
  BY <1>1, <1>3, ItemKind
<1> QED BY <1>2, <1>5, <1>6, <1>7 DEF Talk, Announcing

LEMMA SentReplyClient ==
  ASSUME TypeInv, Basics, InStep, UNCHANGED session, Talk, SentReply
  PROVE  Talk'
<1>1. /\ screen = "sent?" /\ toClient # <<>> /\ GetsReply(Head(toClient)) /\ screen' = "menu"
      /\ told' \in {"sent", told} /\ UNCHANGED toServer
  BY StillOpen DEF SentReply, GetsReply, Show
<1>2. Answers /\ InFlight = <<Item("OK")>> /\ did = "saved" /\ loggedIn
  BY <1>1 DEF Talk, SendTalk, Message, Announcing, OK
<1>3. Tail(toClient) = <<>> /\ at = "cmd" /\ toServer = <<>>
  BY <1>1, <1>2, OnlyRead
<1>4. toClient' = <<>>
  BY <1>1, <1>3 DEF GetsReply
<1>5. Idle' /\ loggedIn' = loggedIn /\ did' = "saved"
  BY <1>1, <1>2, <1>3, <1>4 DEF session, Idle
<1>6. told' # "deleted"
  BY <1>1, StillOpen
<1> QED BY <1>1, <1>2, <1>5, <1>6 DEF Talk, Announcing

LEMMA DelReplyClient ==
  ASSUME TypeInv, Basics, InStep, UNCHANGED session, Talk, DelReply
  PROVE  Talk'
<1>1. /\ screen = "deleted?" /\ toClient # <<>> /\ toClient' = <<>> /\ screen' = "menu"
      /\ told' = (IF Head(toClient).kind = "OK" THEN "deleted" ELSE told) /\ UNCHANGED toServer
  BY StillOpen DEF DelReply, GetsAll, Show
<1>2. PICK k \in {"OK", "ERR"} :
        Answers /\ InFlight = <<Item(k)>> /\ (k = "OK" => did = "deleted") /\ loggedIn
  BY <1>1 DEF Talk, DeleteTalk, Asks, OK, ERR
<1>3. Head(toClient) = Item(k) /\ at = "cmd" /\ toServer = <<>>
  BY <1>1, <1>2, OnlyRead
<1>4. Idle' /\ loggedIn' = loggedIn /\ did' = did
  BY <1>1, <1>3 DEF session, Idle
<1>5. told' = "nothing" \/ (told' = "deleted" /\ did = "deleted")
  BY <1>1, <1>2, <1>3, ItemKind, StillOpen
<1> QED BY <1>1, <1>2, <1>4, <1>5 DEF Talk, Announcing

\* LIST.
LEMMA TotalClient ==
  ASSUME TypeInv, TypeInv', Basics, InStep, UNCHANGED session, Talk, TotalLine
  PROVE  Talk'
<1>1. /\ screen = "total?" /\ toClient # <<>> /\ toClient' = Tail(toClient)
      /\ expect' = Head(toClient).n /\ screen' = (IF expect' = 0 THEN "menu" ELSE "subject?")
      /\ UNCHANGED <<toServer, told>>
  BY StillOpen DEF TotalLine, GetsLine, Show
<1>2. Answers /\ InFlight[1].n = Len(InFlight) - 1 /\ loggedIn
  BY <1>1 DEF Talk, TotalTalk, Asks
<1>3. UNCHANGED <<at, out, loggedIn, did>>
  BY DEF session
<1>4. /\ Answers' /\ Head(toClient) = InFlight[1] /\ Len(InFlight) \in Nat \ {0}
      /\ Len(InFlight') = Len(InFlight) - 1
  BY <1>1, <1>2, <1>3, FirstRead
<1>5. Len(InFlight') = expect' /\ told' = "nothing"
  BY <1>1, <1>2, <1>4, StillOpen
<1>6. CASE expect' = 0
  <2>1. ~(Len(InFlight') > 0)
    BY <1>5, <1>6
  <2>2. Idle'
    BY <1>4, <2>1, AllRead
  <2> QED BY <1>1, <1>2, <1>3, <1>5, <1>6, <2>2 DEF Talk, Announcing
<1>7. CASE expect' # 0
  <2>1. SubjectTalk'
    BY <1>4, <1>5 DEF SubjectTalk
  <2> QED BY <1>1, <1>2, <1>3, <1>7, <2>1 DEF Talk, Announcing
<1> QED BY <1>6, <1>7

LEMMA SubjectClient ==
  ASSUME TypeInv, TypeInv', Basics, InStep, UNCHANGED session, Talk, SubjectLine
  PROVE  Talk'
<1>1. /\ screen = "subject?" /\ toClient # <<>> /\ toClient' = Tail(toClient)
      /\ expect' = expect - 1 /\ screen' = (IF expect = 1 THEN "menu" ELSE "subject?")
      /\ UNCHANGED <<toServer, told>>
  BY StillOpen DEF SubjectLine, GetsLine, Show
<1>2. Answers /\ Len(InFlight) = expect /\ loggedIn
  BY <1>1 DEF Talk, SubjectTalk
<1>3. UNCHANGED <<at, out, loggedIn, did>>
  BY DEF session
<1>4. Answers' /\ Len(InFlight') = Len(InFlight) - 1
  BY <1>1, <1>2, <1>3, FirstRead
<1>5. Len(InFlight') = expect' /\ told' = "nothing" /\ expect \in Nat
  BY <1>1, <1>2, <1>4, StillOpen DEF TypeInv, ClientOK
<1>6. CASE expect = 1
  <2>1. ~(Len(InFlight') > 0)
    BY <1>1, <1>5, <1>6
  <2>2. Idle'
    BY <1>4, <2>1, AllRead
  <2> QED BY <1>1, <1>2, <1>3, <1>5, <1>6, <2>2 DEF Talk, Announcing
<1>7. CASE expect # 1
  <2>1. SubjectTalk'
    BY <1>4, <1>5 DEF SubjectTalk
  <2> QED BY <1>1, <1>2, <1>3, <1>7, <2>1 DEF Talk, Announcing
<1> QED BY <1>6, <1>7

\* READ: the letter, line by line, and what is left of it.
LEMMA ReadReplyClient ==
  ASSUME TypeInv, Basics, InStep, UNCHANGED session, Talk, ReadReply
  PROVE  Talk'
<1>1. /\ screen = "read?" /\ toClient # <<>> /\ toClient' = Tail(toClient)
      /\ screen' = (IF Head(toClient).kind = "OK" THEN "body?" ELSE "menu")
      /\ UNCHANGED <<toServer, told>>
  BY StillOpen DEF ReadReply, GetsLine, Show
<1>2. UNCHANGED <<at, out, loggedIn, did>> /\ loggedIn /\ ReadTalk /\ told' = "nothing"
  BY <1>1, StillOpen DEF session, Talk
<1>3. CASE Answers /\ InFlight = ERR
  <2>1. Head(toClient) = Item("ERR") /\ Tail(toClient) = <<>> /\ at = "cmd" /\ toServer = <<>>
    BY <1>1, <1>3, OnlyRead DEF ERR
  <2>2. Idle' /\ screen' = "menu"
    BY <1>1, <1>2, <2>1, ItemKind DEF Idle
  <2> QED BY <1>2, <2>2 DEF Talk, Announcing
<1>4. CASE toServer = <<>> /\ at = "write" /\ out = <<Letter>> /\ toClient = OK
  <2>1. Head(toClient) = Item("OK") /\ Tail(toClient) = <<>>
    BY <1>4 DEF OK
  <2>2. screen' = "body?" /\ BodyTalk'
    BY <1>1, <1>2, <1>4, <2>1, ItemKind DEF BodyTalk
  <2> QED BY <1>2, <2>2 DEF Talk, Announcing
<1>5. CASE toServer = <<>> /\ at = "cmd" /\ toClient = OK \o Letter
  <2>1. Head(toClient) = Item("OK") /\ Tail(toClient) = Letter
    <3>1. Item("OK") \in Items /\ Letter \in Seq(Items)
      BY LetterTyped, ItemTyped DEF Kind
    <3>2. ASSUME NEW x \in Items, NEW s \in Seq(Items)
          PROVE  Head(<<x>> \o s) = x /\ Tail(<<x>> \o s) = s
      <4> HIDE DEF Items
      <4> QED OBVIOUS
    <3> QED BY <1>5, <3>1, <3>2 DEF OK
  <2>2. screen' = "body?" /\ BodyTalk'
    BY <1>1, <1>2, <1>5, <2>1, ItemKind DEF BodyTalk
  <2> QED BY <1>2, <2>2 DEF Talk, Announcing
<1> QED BY <1>1, <1>2, <1>3, <1>4, <1>5 DEF ReadTalk, Asks

LEMMA BodyLineClient ==
  ASSUME TypeInv, Basics, InStep, UNCHANGED session, Talk, BodyLine, ~slip'
  PROVE  Talk'
<1>1. /\ screen = "body?" /\ toClient # <<>> /\ toClient' = Tail(toClient)
      /\ screen' = (IF Head(toClient).kind = "." THEN "drain" ELSE "body?")
      /\ UNCHANGED <<toServer, told>>
  BY StillOpen DEF BodyLine, GetsLine, Show
<1>2. UNCHANGED <<at, out, loggedIn, did>> /\ loggedIn /\ BodyTalk
  BY <1>1 DEF session, Talk
<1>3. at = "cmd" /\ toServer = <<>> /\ toClient \in {Letter, Tail(Letter)}
  BY <1>1, <1>2 DEF BodyTalk
<1>4. CASE toClient = Letter
  <2>1. Head(toClient) = Item("text")
    BY <1>4 DEF Letter
  <2>2. screen' = "body?" /\ BodyTalk'
    BY <1>1, <1>2, <1>3, <1>4, <2>1, ItemKind DEF BodyTalk
  <2> QED BY <1>2, <2>2 DEF Talk, Announcing
<1>5. CASE toClient = Tail(Letter)
  <2>1. Head(toClient) = Item(".") /\ Tail(toClient) = <<Item("tail")>>
    BY <1>5 DEF Letter
  <2>2. screen' = "drain" /\ toClient' = <<Item("tail")>> /\ at' = "cmd" /\ toServer' = <<>>
    BY <1>1, <1>2, <1>3, <2>1, ItemKind
  <2> QED BY <1>2, <2>2 DEF Talk, Announcing
<1> QED BY <1>3, <1>4, <1>5

LEMMA DrainClient ==
  ASSUME TypeInv, Basics, InStep, UNCHANGED session, Talk, Drain
  PROVE  Talk'
<1>1. screen = "drain" /\ toClient' = <<>> /\ UNCHANGED told
  BY DEF Drain, GetsAll
<1>2. /\ UNCHANGED <<at, loggedIn, did>> /\ at = "cmd" /\ toServer = <<>> /\ loggedIn
      /\ told' = "nothing"
  BY <1>1, StillOpen DEF session, Talk
<1>3. CASE screen' = "menu" /\ UNCHANGED toServer
  <2>1. Idle'
    BY <1>1, <1>2, <1>3 DEF Idle
  <2> QED BY <1>2, <1>3, <2>1 DEF Talk, Announcing
<1>4. CASE screen' = "att?" /\ Sends(<<Item("ATT"), Item("number")>>)
  <2>1. "ATT" \in Kind /\ "number" \in Kind
    BY DEF Kind, Command
  <2>2. <<Item("ATT"), Item("number")>> \in Seq(Items)
    BY <2>1, ItemTyped
  <2>3. toServer' = <<Item("ATT"), Item("number")>>
    BY <1>2, <1>4, <2>2, StillOpen, SendsInStep
  <2>4. AttTalk'
    BY <1>1, <1>2, <2>3 DEF AttTalk, Asks
  <2> QED BY <1>2, <1>4, <2>4 DEF Talk, Announcing
<1> QED BY <1>3, <1>4 DEF Drain

\* ATT: the number of attachments and their parts.
LEMMA PartsShift ==
  ASSUME NEW from \in Nat, InFlight \in Seq(Items), Len(InFlight) \in Nat \ {0},
         Len(InFlight') = Len(InFlight) - 1,
         \A i \in 1..(Len(InFlight) - 1) : InFlight'[i] = InFlight[i + 1],
         from > 0, Parts(InFlight, from + 1)
  PROVE  Parts(InFlight', from)
<1> SUFFICES ASSUME NEW j \in from..Len(InFlight')
             PROVE  InFlight'[j] = Item(Part(Len(InFlight') - j + 1))
  BY DEF Parts
<1>1. j \in 1..(Len(InFlight) - 1) /\ j + 1 \in (from + 1)..Len(InFlight)
  OBVIOUS
<1>2. InFlight'[j] = InFlight[j + 1]
  BY <1>1
<1>3. InFlight[j + 1] = Item(Part(Len(InFlight) - (j + 1) + 1))
  BY <1>1 DEF Parts
<1>4. Len(InFlight) - (j + 1) + 1 = Len(InFlight') - j + 1
  BY <1>1
<1> QED BY <1>2, <1>3, <1>4

LEMMA AttReplyClient ==
  ASSUME TypeInv, TypeInv', Basics, InStep, UNCHANGED session, Talk, AttReply
  PROVE  Talk'
<1>1. /\ screen = "att?" /\ toClient # <<>> /\ toClient' = Tail(toClient)
      /\ screen' = (IF Head(toClient).kind = "OK" THEN "count?" ELSE "menu")
      /\ UNCHANGED <<toServer, told>>
  BY StillOpen DEF AttReply, GetsLine, Show
<1>2. UNCHANGED <<at, out, loggedIn, did>> /\ loggedIn /\ AttTalk /\ told' = "nothing"
  BY <1>1, StillOpen DEF session, Talk
<1>3. CASE Answers /\ InFlight = ERR
  <2>1. Head(toClient) = Item("ERR") /\ Tail(toClient) = <<>> /\ at = "cmd" /\ toServer = <<>>
    BY <1>1, <1>3, OnlyRead DEF ERR
  <2>2. Idle' /\ screen' = "menu"
    BY <1>1, <1>2, <2>1, ItemKind DEF Idle
  <2> QED BY <1>2, <2>2 DEF Talk, Announcing
<1>4. CASE /\ Answers /\ Len(InFlight) >= 2
           /\ InFlight[1] = Item("OK") /\ InFlight[2].kind = "byte"
           /\ Len(InFlight) = 2 + 3 * InFlight[2].n /\ Parts(InFlight, 3)
  <2>1. /\ Answers' /\ Head(toClient) = InFlight[1] /\ Len(InFlight) \in Nat \ {0}
        /\ InFlight \in Seq(Items) /\ Len(InFlight') = Len(InFlight) - 1
        /\ \A i \in 1..(Len(InFlight) - 1) : InFlight'[i] = InFlight[i + 1]
    BY <1>1, <1>2, <1>4, FirstRead
  <2>2. InFlight'[1] = InFlight[2]
    BY <1>4, <2>1
  <2>3. Parts(InFlight', 2)
    BY <1>4, <2>1, PartsShift
  <2>4. InFlight[2].n \in Nat
    <3>1. 2 \in 1..Len(InFlight)
      BY <1>4, <2>1
    <3>2. InFlight[2] \in Items
      BY <2>1, <3>1
    <3> QED BY <3>2 DEF Items
  <2>5. Len(InFlight') = 1 + 3 * InFlight'[1].n
    BY <1>4, <2>1, <2>2, <2>4
  <2>6. InFlight' # <<>>
    BY <1>4, <2>1
  <2>7. CountTalk'
    BY <1>4, <2>1, <2>2, <2>3, <2>5, <2>6 DEF CountTalk, Parts
  <2>8. screen' = "count?"
    BY <1>1, <1>4, <2>1, ItemKind
  <2> QED BY <1>2, <2>7, <2>8 DEF Talk, Announcing
<1> QED BY <1>1, <1>2, <1>3, <1>4 DEF AttTalk, Asks

LEMMA CountByteClient ==
  ASSUME TypeInv, TypeInv', Basics, InStep, UNCHANGED session, Talk, CountByte
  PROVE  Talk'
<1>1. /\ screen = "count?" /\ toClient # <<>> /\ toClient' = Tail(toClient)
      /\ expect' = 3 * Head(toClient).n
      /\ screen' = (IF Head(toClient).kind # "byte" THEN "lost"
                    ELSE IF expect' = 0 THEN "menu" ELSE "attachment?")
      /\ UNCHANGED <<toServer, told>>
  BY StillOpen DEF CountByte, GetsLine, Show
<1>2. UNCHANGED <<at, out, loggedIn, did>> /\ loggedIn /\ CountTalk /\ told' = "nothing"
  BY <1>1, StillOpen DEF session, Talk
<1>3. /\ Answers /\ InFlight[1].kind = "byte"
      /\ Len(InFlight) = 1 + 3 * InFlight[1].n /\ Parts(InFlight, 2)
  BY <1>2 DEF CountTalk
<1>4. /\ Answers' /\ Head(toClient) = InFlight[1] /\ Len(InFlight) \in Nat \ {0}
      /\ InFlight \in Seq(Items) /\ Len(InFlight') = Len(InFlight) - 1
      /\ \A i \in 1..(Len(InFlight) - 1) : InFlight'[i] = InFlight[i + 1]
  BY <1>1, <1>2, <1>3, FirstRead
<1>5. Parts(InFlight', 1)
  <2>1. Parts(InFlight, 1 + 1)
    BY <1>3
  <2>2. 1 \in Nat /\ 1 > 0
    OBVIOUS
  <2> QED BY <1>4, <2>1, <2>2, PartsShift
<1>6. InFlight[1].n \in Nat
  <2>1. InFlight[1] \in Items
    BY <1>4
  <2> QED BY <2>1 DEF Items
<1>7. Len(InFlight') = expect'
  BY <1>1, <1>3, <1>4, <1>6
<1>8. CASE expect' = 0
  <2>1. ~(Len(InFlight') > 0)
    BY <1>7, <1>8
  <2>2. Idle'
    BY <1>4, <2>1, AllRead
  <2>3. screen' = "menu"
    BY <1>1, <1>3, <1>4, <1>8
  <2> QED BY <1>2, <2>2, <2>3 DEF Talk, Announcing
<1>9. CASE expect' # 0
  <2>1. AttachmentTalk'
    BY <1>4, <1>5, <1>7 DEF AttachmentTalk, Parts
  <2>2. screen' = "attachment?"
    BY <1>1, <1>3, <1>4, <1>9
  <2> QED BY <1>2, <2>1, <2>2 DEF Talk, Announcing
<1> QED BY <1>8, <1>9

LEMMA AttachmentClient ==
  ASSUME TypeInv, TypeInv', Basics, InStep, UNCHANGED session, Talk, AttachmentPart
  PROVE  Talk'
<1>1. /\ screen = "attachment?" /\ toClient # <<>> /\ toClient' = Tail(toClient)
      /\ expect' = expect - 1
      /\ screen' = (IF Head(toClient).kind # Part(expect) THEN "lost"
                    ELSE IF expect' = 0 THEN "menu" ELSE "attachment?")
      /\ UNCHANGED <<toServer, told>>
  BY StillOpen DEF AttachmentPart, GetsLine, Show, Part
<1>2. UNCHANGED <<at, out, loggedIn, did>> /\ loggedIn /\ AttachmentTalk /\ told' = "nothing"
  BY <1>1, StillOpen DEF session, Talk
<1>3. Answers /\ Len(InFlight) = expect /\ Parts(InFlight, 1)
  BY <1>2 DEF AttachmentTalk
<1>4. /\ Answers' /\ Head(toClient) = InFlight[1] /\ Len(InFlight) \in Nat \ {0}
      /\ InFlight \in Seq(Items) /\ Len(InFlight') = Len(InFlight) - 1
      /\ \A i \in 1..(Len(InFlight) - 1) : InFlight'[i] = InFlight[i + 1]
  BY <1>1, <1>2, <1>3, FirstRead
<1>5. InFlight[1] = Item(Part(expect))
  <2>1. 1 \in 1..Len(InFlight) /\ Len(InFlight) - 1 + 1 = expect
    BY <1>3, <1>4
  <2>2. InFlight[1] = Item(Part(Len(InFlight) - 1 + 1))
    BY <1>3, <2>1 DEF Parts
  <2> QED BY <2>1, <2>2
<1>6. Head(toClient).kind = Part(expect)
  BY <1>4, <1>5, ItemKind
<1>7. Len(InFlight') = expect'
  BY <1>1, <1>3, <1>4
<1>8. CASE expect' = 0
  <2>1. ~(Len(InFlight') > 0)
    BY <1>7, <1>8
  <2>2. Idle'
    BY <1>4, <2>1, AllRead
  <2>3. screen' = "menu"
    BY <1>1, <1>6, <1>8
  <2> QED BY <1>2, <2>2, <2>3 DEF Talk, Announcing
<1>9. CASE expect' # 0
  <2>1. \A j \in 1..Len(InFlight') : InFlight'[j] = Item(Part(Len(InFlight') - j + 1))
    <3> TAKE j \in 1..Len(InFlight')
    <3>1. j \in 1..(Len(InFlight) - 1) /\ j + 1 \in 1..Len(InFlight)
      BY <1>4
    <3>2. InFlight[j + 1] = Item(Part(Len(InFlight) - (j + 1) + 1))
      BY <1>3, <3>1 DEF Parts
    <3>3. Len(InFlight) - (j + 1) + 1 = Len(InFlight') - j + 1
      BY <1>4, <3>1
    <3> QED BY <1>4, <3>1, <3>2, <3>3
  <2>2. AttachmentTalk'
    BY <1>4, <1>7, <2>1 DEF AttachmentTalk, Parts
  <2>3. screen' = "attachment?"
    BY <1>1, <1>6, <1>9
  <2> QED BY <1>2, <2>2, <2>3 DEF Talk, Announcing
<1> QED BY <1>8, <1>9

\* What the client does is what the session waits for.
LEMMA TalkClient ==
  ASSUME TypeInv, TypeInv', Basics, InStep, InStep', ClientStep, Talk
  PROVE  Talk'
<1>0. UNCHANGED session /\ screen' # "gone" /\ ~slip' /\ ~garbled'
  BY DEF ClientStep, InStep, Slipped
<1>1. ~Quit /\ ~Kill /\ ~ChooseLogout /\ ~SkipFile /\ ~SendWrongSize
  BY <1>0 DEF Quit, Kill, ChooseLogout, SkipFile, SendWrongSize, Show
<1>2. CASE UserStep
  BY <1>0, <1>1, <1>2, LoginClient, ChooseSendClient, TextClient, DotClient, AttachClient,
     FileClient, ListClient, ReadClient, DeleteClient
     DEF UserStep
<1>3. CASE Receive
  BY <1>0, <1>3, GreetedClient, LoginReplyClient, SentReplyClient, TotalClient, SubjectClient,
     ReadReplyClient, BodyLineClient, DrainClient, AttReplyClient, CountByteClient,
     AttachmentClient, DelReplyClient
     DEF Receive
<1> QED BY <1>2, <1>3 DEF ClientStep

-----------------------------------------------------------------------------
(* As long as they are in step, client and session talk about the same.     *)

THEOREM TalkInvariant == Spec => []TalkInv
<1>1. Init => (InStep => Talk)
  <2> SUFFICES ASSUME Init, InStep PROVE Talk
    OBVIOUS
  <2>1. /\ screen = "greeting" /\ at = "write" /\ toServer = <<>> /\ toClient = <<>>
        /\ out = <<OK>> \/ next = "ended"
    BY DEF Init, WireInit, ClientInit, SessionInit
  <2>2. out = <<OK>>
    BY <2>1 DEF InStep, Over
  <2>3. /\ Len(out) = 1 /\ Len(toClient) = 0 /\ out[1] = OK /\ OK[1] = Item("OK") /\ Len(OK) = 1
    BY <2>1, <2>2 DEF OK
  <2>4. Answers
    BY <2>1, <2>2 DEF Answers, OK
  <2>5. InFlight = OK
    <3>1. InFlight = [i \in 1..1 |-> Item("OK")]
      BY <2>3 DEF InFlight
    <3> QED BY <3>1 DEF OK
  <2> QED BY <2>1, <2>4, <2>5 DEF Talk, Announcing
<1>2. TypeInv /\ TypeInv' /\ Basics /\ Basics' /\ (InStep => Talk) /\ [Next]_vars
        => (InStep => Talk)'
  <2> SUFFICES ASSUME TypeInv, TypeInv', Basics, InStep => Talk, [Next]_vars, InStep'
               PROVE  Talk'
    OBVIOUS
  <2>1. CASE ServerStep
    <3>1. InStep
      BY <2>1, InStepBefore
    <3> QED BY <2>1, <3>1, TalkServer
  <2>2. CASE ClientStep
    <3>1. InStep
      BY <2>2, InStepBefore
    <3> QED BY <2>2, <3>1, TalkClient
  <2>3. CASE StopServer /\ UNCHANGED client
    BY <2>3 DEF StopServer, InStep, Over
  <2>4. CASE UNCHANGED vars
    <3>1. UNCHANGED <<toServer, toClient, link, hungUp, at, loggedIn, empties, mail, filesLeft,
                      out, next, did, outage, screen, typed, expect, used, told, slip, garbled>>
      BY <2>4 DEF vars, wire, session, client
    <3>2. InStep' = InStep
      BY <3>1 DEF InStep, Slipped, Over
    <3>3. Talk' = Talk
      BY <3>1, SMTT(20) DEF Talk, Answers, InFlight, Idle, Asks, LoginTalk, TotalTalk, SubjectTalk, ReadTalk,
         BodyTalk, AttTalk, CountTalk, AttachmentTalk, DeleteTalk, SendTalk, Message, Announced,
         Heading, Fresh, ToSend, ToRead, Parts
    <3> QED BY <3>2, <3>3
  <2> QED BY <2>1, <2>2, <2>3, <2>4 DEF Next
<1> QED BY <1>1, <1>2, TypeInvariant, BasicsInvariant, PTL DEF Spec, TalkInv

\* While the session reads, all of its answer is written.
LEMMA NothingToAnswer ==
  ASSUME TypeInv, Basics, Answers, at \in Reading, toClient = <<>>
  PROVE  ~(Len(InFlight) > 0)
<1>1. out = <<>>
  BY DEF Basics, Reading
<1>2. Len(InFlight) = Len(toClient) + Len(out)
  BY <1>1 DEF InFlight
<1>3. Len(toClient) = 0 /\ Len(out) = 0
  BY <1>1
<1> HIDE DEF InFlight
<1> QED BY <1>2, <1>3

\* The session does not wait for the files of a client that waits for its answer.
LEMMA NotBothReading ==
  ASSUME TypeInv, Basics, InStep, Talk, screen = "sent?", toClient = <<>>, at \in Reading
  PROVE  toServer # <<>> /\ toServer # <<Item("part")>>
<1>0. SendTalk /\ screen \in Announcing /\ ToSend = 0 /\ Len(toServer) \in Nat
  BY DEF Talk, Announcing, ToSend, TypeInv, WireOK
<1>1. ASSUME Len(toServer) >= 1, toServer[1].kind # "part"
      PROVE  toServer # <<>> /\ toServer # <<Item("part")>>
  <2>1. Len(<<>>) = 0 /\ <<Item("part")>>[1] = Item("part")
    OBVIOUS
  <2>2. toServer # <<>>
    BY <1>1, <2>1
  <2>3. toServer # <<Item("part")>>
    BY <1>1, <2>1, ItemKind
  <2> QED BY <2>2, <2>3
<1>2. CASE \E d \in 0..Len(toServer) : Message(d)
  <2>1. PICK d \in 0..Len(toServer) : Message(d)
    BY <1>2
  <2>2. d < Len(toServer) /\ toServer[d + 1].kind = "." /\ Announced(d + 2)
    BY <1>0, <2>1 DEF Message
  <2>3. d + 2 <= Len(toServer)
    BY <2>2 DEF Announced
  <2>4. Len(toServer) > 1
    BY <1>0, <2>3
  <2>5. ~(Len(<<>>) > 1) /\ ~(Len(<<Item("part")>>) > 1)
    OBVIOUS
  <2>6. toServer # <<>>
    BY <2>4, <2>5
  <2>7. ASSUME toServer = <<Item("part")>> PROVE FALSE
    <3>1. ~(Len(toServer) > 1)
      BY <2>5, <2>7, Zenon
    <3> QED BY <2>4, <3>1
  <2> QED BY <2>6, <2>7
<1>3. CASE Announced(1)
  <2>1. 1 <= Len(toServer) /\ toServer[1].kind = "byte"
    BY <1>3 DEF Announced
  <2> QED BY <1>0, <1>1, <2>1
<1>4. CASE /\ at \in {"file", "size", "data"}
           /\ Len(toServer) = ToRead - ToSend
           /\ \A j \in 1..Len(toServer) : toServer[j] = Item(Part(ToRead - j + 1))
  <2>1. filesLeft \in Nat /\ filesLeft > 0
    BY <1>4, WireAssumption DEF TypeInv, SessionOK
  <2>2. ToRead \in Nat /\ ToRead > 0
    BY <1>4, <2>1 DEF ToRead, Step
  <2> HIDE DEF ToRead, ToSend
  <2>3. Len(toServer) >= 1 /\ 1 \in 1..Len(toServer) /\ ToRead - 1 + 1 = ToRead
    BY <1>0, <1>4, <2>2
  <2>4. toServer[1] = Item(Part(ToRead))
    BY <1>4, <2>3
  <2>5. Part(ToRead) \in {"file", "data", "size"}
    <3>1. ToRead % 3 = 0 \/ ToRead % 3 = 1 \/ ToRead % 3 = 2
      BY <2>2
    <3> QED BY <3>1 DEF Part
  <2> QED BY <1>1, <2>3, <2>4, <2>5, ItemKind
<1>5. CASE Answers /\ InFlight = OK
  <2>1. ~(Len(InFlight) > 0)
    BY <1>5, NothingToAnswer
  <2>2. Len(OK) = 1
    BY DEF OK
  <2> QED BY <1>5, <2>1, <2>2
<1> QED BY <1>0, <1>2, <1>3, <1>4, <1>5 DEF SendTalk, Announcing

LEMMA NobodyWaits == TypeInv /\ Basics /\ (InStep => Talk) => NoMutualWait
<1> SUFFICES ASSUME TypeInv, Basics, InStep => Talk, ~Slipped,
                    screen \in Waiting, toClient = <<>>, at \in Reading,
                    toServer \in {<<>>, <<Item("part")>>}
             PROVE  FALSE
  BY DEF NoMutualWait
<1>1. InStep /\ Talk
  BY DEF InStep, Over, Basics, Reading, Waiting
<1>2. Answers => ~(Len(InFlight) > 0)
  BY NothingToAnswer
<1>3. ~(Answers /\ InFlight = OK) /\ ~(Answers /\ InFlight = ERR)
  <2>1. Len(OK) = 1 /\ Len(ERR) = 1
    BY DEF OK, ERR
  <2> QED BY <1>2, <2>1
<1>4. ~(Answers /\ InFlight # <<>>)
  <2>1. Answers => InFlight \in Seq(Items)
    BY FlightTyped
  <2>2. \A s \in Seq(Items) : ~(Len(s) > 0) => s = <<>>
    OBVIOUS
  <2> QED BY <1>2, <2>1, <2>2
<1>5. toServer = <<>> \/ toServer[1].kind = "part"
  BY ItemKind
<1>6. ~Asks(<<Item("LIST")>>) /\ ~Asks(<<Item("number")>>) /\ ~Asks(<<Item("password")>>)
  <2>1. ASSUME NEW k \in {"LIST", "number", "password"}
        PROVE  <<Item(k)>> # <<>> /\ <<Item(k)>>[1].kind # "part"
    BY ItemKind
  <2> QED BY <1>5, <2>1 DEF Asks
<1>7. /\ ~Asks(<<Item("LOGIN"), Item("name"), Item("password")>>)
      /\ ~Asks(<<Item("name"), Item("password")>>)
      /\ ~Asks(<<Item("READ"), Item("number")>>) /\ ~Asks(<<Item("ATT"), Item("number")>>)
      /\ ~Asks(<<Item("DEL"), Item("number")>>)
  BY ItemKind DEF Asks
<1>8. expect \in Nat /\ (screen \in {"subject?", "attachment?"} => expect > 0)
  BY DEF TypeInv, ClientOK
<1>9. at # "write" /\ toClient # OK \o Letter /\ toClient # Letter /\ toClient # Tail(Letter)
      /\ toClient # <<Item("tail")>> /\ toClient # OK
  BY DEF Reading, OK, Letter
<1>10. screen # "greeting"
  BY <1>1, <1>3 DEF Talk
<1>11. screen # "login?"
  BY <1>1, <1>3, <1>6, <1>7 DEF Talk, LoginTalk
<1>12. screen # "total?"
  BY <1>1, <1>4, <1>6 DEF Talk, TotalTalk
<1>13. screen # "subject?"
  BY <1>1, <1>2, <1>8 DEF Talk, SubjectTalk
<1>14. screen # "read?"
  BY <1>1, <1>3, <1>6, <1>7, <1>9 DEF Talk, ReadTalk
<1>15. screen # "body?"
  BY <1>1, <1>9 DEF Talk, BodyTalk
<1>16. screen # "drain"
  BY <1>1, <1>9 DEF Talk
<1>17. screen # "att?"
  <2>1. Len(InFlight) >= 2 => InFlight # <<>>
    OBVIOUS
  <2> QED BY <1>1, <1>2, <1>3, <1>4, <1>6, <1>7, <2>1 DEF Talk, AttTalk
<1>18. screen # "count?"
  BY <1>1, <1>4 DEF Talk, CountTalk
<1>19. screen # "attachment?"
  BY <1>1, <1>2, <1>8 DEF Talk, AttachmentTalk
<1>20. screen # "deleted?"
  BY <1>1, <1>3, <1>6, <1>7 DEF Talk, DeleteTalk
<1>21. screen # "sent?"
  BY <1>1, NotBothReading
<1> QED BY <1>10, <1>11, <1>12, <1>13, <1>14, <1>15, <1>16, <1>17, <1>18, <1>19, <1>20, <1>21
       DEF Waiting

\* However often the client asks and whatever the session answers, as long as nobody
\* slips the login screen and the menu find every request read and every answer read.
THEOREM InSyncInvariant == Spec => []InSync
<1>1. TypeInv /\ Basics /\ (InStep => Talk) => InSync
  BY DEF InSync, InStep, Talk, Idle
<1> QED BY <1>1, TalkInvariant, PTL DEF TalkInv

\* In no reachable state do both read and neither has anything to read, for any
\* length of a message and any number of files and mails.
THEOREM NoMutualWaitInvariant == Spec => []NoMutualWait
BY NobodyWaits, TalkInvariant, PTL DEF TalkInv

\* What the client tells its user after sending and deleting is what the session
\* has done, as long as they are in step.
THEOREM SuccessInvariant == Spec => []SuccessIsTrueInStep
<1>1. TypeInv /\ Basics /\ (InStep => Talk) => SuccessIsTrueInStep
  BY DEF SuccessIsTrueInStep, InStep, Over, Basics, Talk
<1> QED BY <1>1, TalkInvariant, PTL DEF TalkInv

-----------------------------------------------------------------------------
(* The message on its way.                                                  *)

\* The user has kept to the protocol and no exception has come in between.
Clean == ~slip /\ ~outage

\* The session reads no more commands.
Ending == at \in {"spin", "ended", "dead", "stopped"} \/ (at = "write" /\ next = "ended")

\* Behind the dot.
Storing == {"count", "file", "size", "data", "junk"}

NoSend == \A i \in 1..Len(toServer) : toServer[i].kind # "SEND"

\* Every line that ends, whatever pieces come before its end.
Texts(items) == {i \in 1..Len(items) : items[i].kind = "text"}

\* The user has typed n lines and then, unless he still types, the dot.
Written(n) ==
  /\ \A i \in 1..n : typed[i] = "text"
  /\ n < Len(typed) => /\ n > 0 /\ typed[n + 1] = "."
                       /\ \A i \in (n + 2)..Len(typed) : typed[i] = "data"
  /\ screen \in {"message", "line"} => Len(typed) = n
  /\ screen = "attach" => Len(typed) = n + 1
  /\ screen \in Announcing => Len(typed) > n

\* What comes up to place d are the header and lines of the message: with those
\* the session has read, n.
ComingLines(n, d) ==
  /\ at \in {"cmd", "to", "subject", "body"} /\ Heading <= d /\ d <= Len(toServer)
  /\ \A i \in 1..Heading :
       toServer[i] = Item(<<"subject", "to", "SEND">>[Heading - i + 1])
  /\ \A i \in (Heading + 1)..d :
       /\ toServer[i].kind \in {"text", "part"}
       /\ toServer[i].kind = "part"
            => IF i < d THEN toServer[i + 1].kind = "text"
               ELSE Len(toServer) = d /\ screen \in {"line", "gone"}
  /\ Cardinality(Texts(toServer)) + (IF at = "body" THEN Len(mail) ELSE 0) = n
  /\ at = "body" => \A i \in 1..Len(mail) : mail[i] = "text"

\* The dot comes next, if it is typed, and then the number of attachments.
ComingEnd(n, d) ==
  /\ Len(typed) = n => Len(toServer) = d
  /\ Len(typed) > n =>
       /\ d < Len(toServer) /\ toServer[d + 1].kind = "."
       /\ \A i \in (d + 2)..Len(toServer) : toServer[i].kind \in {"byte", "file", "size", "data"}
       /\ Len(toServer) = d + 1 => Len(typed) = n + 1
       /\ Len(toServer) > d + 1 /\ ~garbled => toServer[d + 2].n = Len(typed) - (n + 1)
       /\ screen = "attach" => Len(toServer) = d + 1

Coming(n, d) == ComingLines(n, d) /\ ComingEnd(n, d)

\* The client has gone before the dot, and maybe in the middle of a line.
CutOff == at = "body" /\ toServer = <<>> /\ link # "up"

\* The session has all lines.  The files make up the rest if they are those
\* announced.
KeptFiles(n) ==
  /\ at = "count" =>
       IF toServer = <<>> THEN Len(typed) = n + 1 ELSE toServer[1].n = Len(typed) - (n + 1)
  /\ at # "count" => /\ Len(mail) + filesLeft = Len(typed)
                     /\ \A i \in (n + 2)..Len(mail) : mail[i] = "data"

Kept(n) ==
  /\ at \in Storing /\ n < Len(typed) /\ NoSend
  /\ Len(mail) > n /\ \A i \in 1..(n + 1) : mail[i] = typed[i]
  /\ \A i \in (n + 2)..Len(mail) : mail[i] \in {"data", "part"}
  /\ at = "count" => Len(mail) = n + 1 /\ (screen = "attach" => toServer = <<>>)
  /\ ~garbled /\ screen # "gone" => KeptFiles(n)

\* The session is not reading a message, and none waits for it.
Elsewhere == at \notin {"to", "subject", "body"} \cup Storing /\ NoSend

Travels(n) ==
  Ending \/ CutOff \/ Kept(n) \/ Elsewhere \/ \E d \in 0..Len(toServer) : Coming(n, d)

CarriedInv ==
  /\ screen = "gone" => link # "up"
  /\ Clean => \E n \in 0..Len(typed) : Written(n) /\ Travels(n)

\* The number of lines in a sequence of items.
LEMMA TextsFinite ==
  ASSUME NEW s \in Seq(Items)
  PROVE  IsFiniteSet(Texts(s)) /\ Cardinality(Texts(s)) \in Nat
<1>1. IsFiniteSet(1..Len(s)) /\ Texts(s) \in SUBSET (1..Len(s))
  BY FS_Interval DEF Texts
<1>2. IsFiniteSet(Texts(s))
  BY <1>1, FS_Subset
<1> QED BY <1>2, FS_CardinalityType

LEMMA TextsNone ==
  ASSUME NEW s, \A i \in 1..Len(s) : s[i].kind # "text"
  PROVE  Cardinality(Texts(s)) = 0
<1>1. Texts(s) = {}
  BY DEF Texts
<1> QED BY <1>1, FS_EmptySet

LEMMA TextsGrow ==
  ASSUME NEW s \in Seq(Items), NEW t \in Seq(Items), Len(t) = Len(s) + 1,
         \A i \in 1..Len(s) : t[i] = s[i]
  PROVE  Cardinality(Texts(t)) = Cardinality(Texts(s)) + (IF t[Len(s) + 1].kind = "text" THEN 1 ELSE 0)
<1>1. Len(s) \in Nat /\ Len(s) + 1 \notin Texts(s)
  BY DEF Texts
<1>2. CASE t[Len(s) + 1].kind = "text"
  <2>1. Texts(t) = Texts(s) \cup {Len(s) + 1}
    BY <1>1, <1>2 DEF Texts
  <2>2. Cardinality(Texts(s) \cup {Len(s) + 1}) = Cardinality(Texts(s)) + 1
    BY <1>1, TextsFinite, FS_AddElement
  <2> QED BY <1>2, <2>1, <2>2
<1>3. CASE t[Len(s) + 1].kind # "text"
  <2>1. Texts(t) = Texts(s)
    BY <1>1, <1>3 DEF Texts
  <2>2. Cardinality(Texts(s)) \in Nat
    BY TextsFinite
  <2> QED BY <1>3, <2>1, <2>2
<1> QED BY <1>2, <1>3

\* Reading the first item takes one line away, or none.
LEMMA TextsShrink ==
  ASSUME NEW s \in Seq(Items), NEW t \in Seq(Items), Len(s) = Len(t) + 1,
         \A i \in 1..Len(t) : t[i] = s[i + 1]
  PROVE  Cardinality(Texts(s)) = Cardinality(Texts(t)) + (IF s[1].kind = "text" THEN 1 ELSE 0)
<1> DEFINE S == Texts(s) \ {1}
           f == [i \in Texts(t) |-> i + 1]
<1>1. Len(t) \in Nat /\ Len(s) \in Nat
  OBVIOUS
<1>2. \A i \in Texts(t) : i \in Nat /\ i + 1 \in S
  BY <1>1 DEF Texts
<1>3. \A j \in S : j \in Nat /\ j - 1 \in Texts(t) /\ (j - 1) + 1 = j
  <2> TAKE j \in S
  <2>1. j \in Nat /\ j > 1 /\ j <= Len(s) /\ s[j].kind = "text"
    BY <1>1 DEF Texts
  <2>2. j - 1 \in 1..Len(t) /\ (j - 1) + 1 = j
    BY <1>1, <2>1
  <2> QED BY <2>1, <2>2 DEF Texts
<1>4. f \in Bijection(Texts(t), S)
  <2>1. f \in [Texts(t) -> S]
    BY <1>2
  <2>2. \A a, b \in Texts(t) : f[a] = f[b] => a = b
    BY <1>2
  <2>3. \A j \in S : \E a \in Texts(t) : f[a] = j
    BY <1>3
  <2> HIDE DEF S, f
  <2> QED BY <2>1, <2>2, <2>3 DEF Bijection, Injection, Surjection, IsInjective
<1>5. Cardinality(S) = Cardinality(Texts(t))
  <2>1. ExistsBijection(Texts(t), S)
    BY <1>4 DEF ExistsBijection
  <2> HIDE DEF S
  <2> QED BY <2>1, TextsFinite, FS_Bijection
<1>6. Cardinality(S) = IF 1 \in Texts(s) THEN Cardinality(Texts(s)) - 1 ELSE Cardinality(Texts(s))
  BY TextsFinite, FS_RemoveElement
<1>7. 1 \in Texts(s) <=> s[1].kind = "text"
  BY <1>1 DEF Texts
<1>8. Cardinality(Texts(s)) \in Nat /\ Cardinality(Texts(t)) \in Nat
  BY TextsFinite
<1> HIDE DEF S
<1> QED BY <1>5, <1>6, <1>7, <1>8

\* A slip is never undone, nor an exception of the login system.
LEMMA CleanBefore ==
  ASSUME [Next]_vars, Clean'
  PROVE  Clean
<1>1. CASE ServerStep
  <2>1. slip' = slip
    BY <1>1 DEF ServerStep, client
  <2>2. outage => outage'
    <3>1. CASE ReadPassword
      BY <3>1 DEF ReadPassword
    <3>2. CASE ~ReadPassword
      BY <1>1, <3>2
         DEF ServerStep, SessionStep, WriteNext, BrokenPipe, SkipEmpty, SkipLine, ReadQuit,
             ReadCommand, ReadLogin, ReadUser, Logout, ReadHeader, ReadBody, ReadCount,
             ReadFileName, ReadFileSize, ReadFileData, ReadJunk, List, Read, Att, Del,
             FileRead, session
    <3> QED BY <3>1, <3>2
  <2> QED BY <2>1, <2>2 DEF Clean
<1>2. CASE ClientStep
  <2>1. outage' = outage
    BY <1>2 DEF ClientStep, session
  <2>2. slip => slip'
    BY <1>2 DEF ClientStep, UserStep, Receive, Login, ChooseLogout, ChooseSend, ChooseList,
       ChooseRead, ChooseDelete, Begin, Quit, Kill, TypeLine, TypePiece, TypeRest, TypeDot, Attach,
       SendFile, SkipFile, SendWrongSize, Greeted, LoginReply, SentReply, TotalLine, SubjectLine,
       ReadReply, BodyLine, Drain, AttReply, CountByte, AttachmentPart, DelReply
  <2> QED BY <2>1, <2>2 DEF Clean
<1>3. CASE StopServer /\ UNCHANGED client
  BY <1>3 DEF StopServer, client, Clean
<1>4. CASE UNCHANGED vars
  BY <1>4 DEF vars, session, client, Clean
<1> QED BY <1>1, <1>2, <1>3, <1>4 DEF Next

\* A line takes an item off the wire, or two, or none is there.
LEMMA ReadsLineShifts ==
  ASSUME TypeInv, NEW l, ReadsLine(l)
  PROVE  /\ \E k \in 0..2 : k <= Len(toServer) /\ Shifted(k)
         /\ l \notin {"empty", "text"} => toServer # <<>> /\ l = Head(toServer).kind
         /\ l \in Kind
<1>0. toServer \in Seq(Items) /\ Len(toServer) \in Nat
  BY DEF TypeInv, WireOK
<1>5. l \in Kind
  BY ReadsLineTyped DEF TypeInv
<1>1. CASE /\ toServer # <<>> /\ toServer' = Tail(toServer)
           /\ l = IF Head(toServer).kind = "byte" THEN "empty" ELSE Head(toServer).kind
  <2>1. Shifted(1) /\ 1 <= Len(toServer)
    BY <1>0, <1>1, TailShifts
  <2> QED BY <1>5, <1>1, <2>1
<1>2. CASE toServer # <<>> /\ l = "text" /\ Tail(toServer) = <<>> /\ toServer' = <<>>
  <2>1. Shifted(1) /\ 1 <= Len(toServer)
    BY <1>0, <1>2, TailShifts
  <2> QED BY <1>5, <1>2, <2>1
<1>3. CASE toServer # <<>> /\ l = "text" /\ Tail(toServer) # <<>> /\ toServer' = Tail(Tail(toServer))
  <2>1. Shifted(2)
    BY <1>0, <1>3, TailShifts
  <2>2. 2 <= Len(toServer)
    <3>1. Len(Tail(toServer)) = Len(toServer) - 1 /\ Tail(toServer) \in Seq(Items)
      BY <1>0, <1>3
    <3>2. \A s \in Seq(Items) : s # <<>> => Len(s) >= 1
      OBVIOUS
    <3>3. Len(Tail(toServer)) >= 1
      BY <1>3, <3>1, <3>2
    <3> QED BY <1>0, <3>1, <3>3
  <2> QED BY <1>5, <1>3, <2>1, <2>2
<1>4. CASE l = "empty" /\ UNCHANGED toServer
  <2>1. Shifted(0) /\ 0 <= Len(toServer)
    BY <1>0, <1>4 DEF Shifted
  <2> QED BY <1>5, <1>4, <2>1
<1> QED BY <1>1, <1>2, <1>3, <1>4, <1>5 DEF ReadsLine

LEMMA NoSendShifts ==
  ASSUME TypeInv, NoSend, NEW k \in Nat, k <= Len(toServer), Shifted(k)
  PROVE  NoSend'
<1>1. Len(toServer) \in Nat /\ Len(toServer') = Len(toServer) - k
  BY DEF TypeInv, WireOK, Shifted
<1>2. \A i \in 1..Len(toServer') : i + k \in 1..Len(toServer) /\ toServer'[i] = toServer[i + k]
  BY <1>1 DEF Shifted
<1> QED BY <1>2 DEF NoSend

LEMMA NoSendReads ==
  ASSUME TypeInv, NoSend, NEW l, ReadsLine(l)
  PROVE  NoSend' /\ l # "SEND"
<1>1. NoSend'
  <2>1. PICK k \in 0..2 : k <= Len(toServer) /\ Shifted(k)
    BY ReadsLineShifts
  <2>2. k \in Nat
    OBVIOUS
  <2> QED BY <2>1, <2>2, NoSendShifts
<1>2. l # "SEND"
  <2>1. toServer # <<>> => Head(toServer) = toServer[1] /\ 1 \in 1..Len(toServer)
    BY DEF TypeInv, WireOK
  <2> QED BY <2>1, ReadsLineShifts DEF NoSend
<1> QED BY <1>1, <1>2

\* The session goes on to its end, out of the message, or elsewhere.
LEMMA EndingServer ==
  ASSUME Ending, ServerStep
  PROVE  Ending'
<1>1. at = "write" /\ next = "ended" /\ (WriteNext \/ BrokenPipe)
  BY PlaceDecides DEF ServerStep, Ending
<1> QED BY <1>1 DEF WriteNext, BrokenPipe, Ending

LEMMA CutOffServer ==
  ASSUME CutOff, ServerStep
  PROVE  Ending'
<1>1. ReadBody /\ AtEnd
  BY PlaceDecides DEF ServerStep, CutOff, AtEnd
<1> QED BY <1>1 DEF ReadBody, Ending

LEMMA ElsewhereServer ==
  ASSUME TypeInv, Elsewhere, ServerStep
  PROVE  Elsewhere'
<1>0. SessionStep
  BY DEF ServerStep
<1>1. CASE WriteNext \/ BrokenPipe
  <2>1. toServer' = toServer
    BY <1>1 DEF WriteNext, BrokenPipe, wire
  <2>2. at' \in {"write", "cmd", "ended", "dead"}
    BY <1>1 DEF WriteNext, BrokenPipe, TypeInv, SessionOK
  <2> QED BY <2>1, <2>2 DEF Elsewhere, NoSend, Storing
<1>2. CASE ReadCommand
  <2>1. PICK c \in {"SEND", "READ", "ATT", "DEL"} :
          ReadsLine(c) /\ at' = IF c = "SEND" THEN "to" ELSE c
    BY <1>2 DEF ReadCommand
  <2>2. NoSend' /\ c # "SEND"
    BY <2>1, NoSendReads DEF Elsewhere
  <2> QED BY <2>1, <2>2 DEF Elsewhere, Storing
<1>3. CASE SkipEmpty \/ SkipLine \/ ReadQuit \/ ReadLogin \/ ReadUser \/ ReadPassword \/ Logout
             \/ List \/ Read \/ Att \/ Del
  <2>1. \E l : ReadsLine(l)
    BY <1>3 DEF SkipEmpty, SkipLine, ReadQuit, ReadLogin, ReadUser, ReadPassword, Logout, List,
       Read, Att, Del
  <2>2. at' \in {"cmd", "write", "user", "password"}
    BY <1>3 DEF SkipEmpty, SkipLine, ReadQuit, ReadLogin, ReadUser, ReadPassword, Logout, List,
       Read, Att, Del, Answer, Leave
  <2> QED BY <2>1, <2>2, NoSendReads DEF Elsewhere, Storing
<1>4. ~ReadHeader /\ ~ReadBody /\ ~ReadCount /\ ~ReadFileName /\ ~ReadFileSize /\ ~ReadFileData
      /\ ~ReadJunk
  BY DEF Elsewhere, Storing, ReadHeader, ReadBody, ReadCount, ReadFileName, ReadFileSize,
     ReadFileData, ReadJunk
<1> QED BY <1>0, <1>1, <1>2, <1>3, <1>4 DEF SessionStep

\* What the session reads while it stores the message.
LEMMA StoringReads ==
  ASSUME TypeInv, NoSend, NEW k \in {0, 1}, k <= Len(toServer),
         IF k = 0 THEN UNCHANGED toServer ELSE toServer' = Tail(toServer)
  PROVE  NoSend'
<1>1. toServer \in Seq(Items) /\ Len(toServer) \in Nat
  BY DEF TypeInv, WireOK
<1>2. CASE k = 0
  BY <1>2 DEF NoSend
<1>3. CASE k = 1
  <2>1. toServer # <<>>
    BY <1>1, <1>3
  <2>2. Shifted(1)
    BY <1>3, <2>1, TailShifts
  <2> QED BY <1>3, <2>2, NoSendShifts
<1> QED BY <1>2, <1>3

\* A session in step takes nothing else for the contents of a file.
LEMMA NoJunk ==
  ASSUME TypeInv, Basics, Talk, screen # "gone"
  PROVE  at # "junk"
<1> SUFFICES ASSUME at = "junk" PROVE FALSE
  OBVIOUS
<1>1. screen \in Screen \ {"lost", "gone"}
  BY DEF Talk, TypeInv, ClientOK
<1>2. ~Answers /\ ~Idle
  BY DEF Answers, Idle
<1>3. CASE screen \in {"message", "line", "attach"} \cup Announcing
  BY <1>2, <1>3 DEF Talk, SendTalk, Message
<1>4. CASE screen \notin {"message", "line", "attach"} \cup Announcing
  BY <1>1, <1>2, <1>4 DEF Talk, LoginTalk, TotalTalk, SubjectTalk, ReadTalk, BodyTalk, AttTalk,
     CountTalk, AttachmentTalk, DeleteTalk, Screen, Waiting, Asking, Announcing
<1> QED BY <1>3, <1>4

LEMMA StoringInStep ==
  ASSUME TypeInv, Basics, InStep => Talk, Clean, at \in Storing, ~garbled, screen # "gone"
  PROVE  InStep /\ at # "junk" /\ link = "up"
<1>1. InStep
  BY DEF Basics, Clean, Storing, InStep, Slipped, Over
<1> QED BY <1>1, NoJunk DEF Basics

\* A part of the message is read, not the last.
LEMMA KeptStays ==
  ASSUME NEW n \in Nat, Kept(n), UNCHANGED <<mail, typed, screen, garbled>>, NoSend',
         at' \in Storing \ {"count"},
         ~garbled /\ screen # "gone" => /\ Len(mail) + filesLeft' = Len(typed)
                                        /\ \A i \in (n + 2)..Len(mail) : mail[i] = "data"
  PROVE  Kept(n)'
BY DEF Kept, KeptFiles

LEMMA KeptGrows ==
  ASSUME TypeInv, NEW n \in Nat, Kept(n), UNCHANGED <<typed, screen, garbled>>, NoSend',
         NEW c \in {"data", "part"}, mail' = Append(mail, c), filesLeft' = filesLeft - 1,
         at \in {"data", "junk"}, at' = "file", ~garbled /\ screen # "gone" => c = "data"
  PROVE  Kept(n)'
<1>1. mail \in Seq(Kind) /\ Len(mail) \in Nat /\ Len(typed) \in Nat /\ filesLeft \in Int
  BY WireAssumption DEF TypeInv, SessionOK, ClientOK
<1>2. /\ Len(mail') = Len(mail) + 1 /\ mail'[Len(mail) + 1] = c
      /\ \A i \in 1..Len(mail) : mail'[i] = mail[i]
  <2>1. \A s \in Seq(Kind) : /\ Len(Append(s, c)) = Len(s) + 1 /\ Append(s, c)[Len(s) + 1] = c
                             /\ \A i \in 1..Len(s) : Append(s, c)[i] = s[i]
    OBVIOUS
  <2> QED BY <1>1, <2>1
<1>3. n < Len(mail) /\ n < Len(typed)
  BY DEF Kept
<1>4. \A i \in 1..(n + 1) : mail'[i] = typed'[i]
  <2>1. \A i \in 1..(n + 1) : i \in 1..Len(mail)
    BY <1>1, <1>3
  <2> QED BY <1>2, <2>1 DEF Kept
<1>5. \A i \in (n + 2)..Len(mail') : (i \in (n + 2)..Len(mail) /\ mail'[i] = mail[i]) \/ mail'[i] = c
  <2> TAKE i \in (n + 2)..Len(mail')
  <2>1. CASE i = Len(mail) + 1
    BY <1>2, <2>1
  <2>2. CASE i # Len(mail) + 1
    <3>1. i \in (n + 2)..Len(mail) /\ i \in 1..Len(mail)
      BY <1>1, <1>2, <2>2
    <3> QED BY <1>2, <3>1
  <2> QED BY <2>1, <2>2
<1>6. ASSUME ~garbled', screen' # "gone"
      PROVE  Len(mail') + filesLeft' = Len(typed') /\ \A i \in (n + 2)..Len(mail') : mail'[i] = "data"
  <2>1. Len(mail) + filesLeft = Len(typed) /\ \A i \in (n + 2)..Len(mail) : mail[i] = "data"
    BY <1>6 DEF Kept, KeptFiles
  <2>2. (Len(mail) + 1) + (filesLeft - 1) = Len(typed)
    BY <1>1, <2>1
  <2> QED BY <1>2, <1>5, <1>6, <2>1, <2>2
<1>7. \A i \in (n + 2)..Len(mail') : mail'[i] \in {"data", "part"}
  BY <1>5 DEF Kept
<1>8. Len(mail') > n /\ n < Len(typed') /\ at' \in Storing /\ at' # "count"
  BY <1>1, <1>2, <1>3 DEF Storing
<1> QED BY <1>4, <1>6, <1>7, <1>8 DEF Kept, KeptFiles

LEMMA Saves ==
  ASSUME NoSend', Save \/ Answer(<<ERR>>)
  PROVE  Elsewhere'
BY DEF Save, Answer, Elsewhere, Storing

\* Behind the dot the session keeps the lines, and the files as they come, until
\* it saves the mail or gives up.
LEMMA KeptServer ==
  ASSUME TypeInv, Basics, InStep => Talk, Clean, NEW n \in Nat, Kept(n), ServerStep
  PROVE  Kept(n)' \/ Elsewhere'
<1>0. /\ SessionStep /\ UNCHANGED <<typed, screen, garbled>> /\ at \in Storing /\ NoSend
      /\ at \in {"count", "file", "size", "data", "junk"}
  BY DEF ServerStep, client, Kept, Storing
<1>a. /\ Len(typed) \in Nat /\ Len(mail) \in Nat /\ toServer \in Seq(Items)
      /\ Len(toServer) \in Nat
  BY DEF TypeInv, WireOK, SessionOK, ClientOK
<1>b. toServer # <<>> => 1 \in {0, 1} /\ 1 <= Len(toServer) /\ toServer[1] = Head(toServer)
  BY <1>a
<1>c. 0 \in {0, 1} /\ 0 <= Len(toServer)
  BY <1>a
<1>1. CASE at = "count"
  <2>1. ReadCount
    BY <1>0, <1>1, PlaceDecides
  <2>2. CASE AtEnd /\ UNCHANGED <<toServer, filesLeft>> /\ (Save \/ (Answer(<<ERR>>) /\ UNCHANGED did))
    <3>1. NoSend'
      BY <1>0, <2>2 DEF NoSend
    <3> QED BY <2>2, <3>1, Saves
  <2>3. CASE \E i \in {Numbered("byte", m) : m \in 0..(Byte - 1)} :
               /\ ReadsItem(i) /\ filesLeft' = i.n
               /\ IF i.n = 0 THEN Save ELSE at' = "file" /\ UNCHANGED <<out, next, did>>
    <3>1. PICK m \in 0..(Byte - 1) :
            /\ ReadsItem(Numbered("byte", m)) /\ filesLeft' = m
            /\ IF m = 0 THEN Save ELSE at' = "file" /\ UNCHANGED <<out, next, did>>
      BY <2>3 DEF Numbered
    <3>2. toServer # <<>> /\ Numbered("byte", m) = Head(toServer) /\ toServer' = Tail(toServer)
      BY <3>1 DEF ReadsItem
    <3>3. NoSend'
      BY <1>0, <1>b, <3>2, StoringReads
    <3>4. toServer[1].n = m
      BY <1>b, <3>2 DEF Numbered
    <3>5. mail' = mail
      BY <2>1 DEF ReadCount
    <3>6. CASE m = 0
      BY <3>1, <3>3, <3>6, Saves
    <3>7. CASE m # 0
      <4>1. at' = "file"
        BY <3>1, <3>7
      <4>2. ASSUME ~garbled, screen # "gone"
            PROVE  /\ Len(mail) + filesLeft' = Len(typed)
                   /\ \A i \in (n + 2)..Len(mail) : mail[i] = "data"
        <5>1. Len(mail) = n + 1 /\ m = Len(typed) - (n + 1)
          BY <1>1, <3>2, <3>4, <4>2 DEF Kept, KeptFiles
        <5> QED BY <1>a, <3>1, <5>1
      <4> QED BY <1>0, <3>3, <3>5, <4>1, <4>2, KeptStays DEF Storing
    <3> QED BY <3>6, <3>7
  <2> QED BY <2>1, <2>2, <2>3 DEF ReadCount
<1>2. ASSUME at # "count", ~garbled, screen # "gone"
      PROVE  /\ Len(mail) + filesLeft = Len(typed)
             /\ \A i \in (n + 2)..Len(mail) : mail[i] = "data"
  BY <1>2 DEF Kept, KeptFiles
<1>3. CASE at = "file"
  <2>1. ReadFileName
    BY <1>0, <1>3, PlaceDecides
  <2>2. \E l : ReadsLine(l)
    BY <2>1 DEF ReadFileName
  <2>3. NoSend'
    BY <1>0, <2>2, NoSendReads
  <2>4. at' = "size" /\ UNCHANGED <<mail, filesLeft>>
    BY <2>1 DEF ReadFileName
  <2> QED BY <1>0, <1>2, <1>3, <2>3, <2>4, KeptStays DEF Storing
<1>4. CASE at = "size"
  <2>1. ReadFileSize
    BY <1>0, <1>4, PlaceDecides
  <2>2. UNCHANGED toServer \/ (toServer # <<>> /\ toServer' = Tail(toServer))
    BY <2>1 DEF ReadFileSize, ReadsItem
  <2>3. NoSend'
    <3>1. CASE UNCHANGED toServer
      BY <1>0, <3>1 DEF NoSend
    <3>2. CASE toServer # <<>> /\ toServer' = Tail(toServer)
      BY <1>0, <1>b, <3>2, StoringReads
    <3> QED BY <2>2, <3>1, <3>2
  <2>4. at' \in {"data", "junk"} \/ Answer(<<ERR>>)
    BY <2>1 DEF ReadFileSize
  <2>5. UNCHANGED <<mail, filesLeft>>
    BY <2>1 DEF ReadFileSize
  <2>6. CASE at' \in {"data", "junk"}
    BY <1>0, <1>2, <1>4, <2>3, <2>5, <2>6, KeptStays DEF Storing
  <2> QED BY <2>3, <2>4, <2>6, Saves
<1>5. CASE at \in {"data", "junk"}
  <2>1. ReadFileData \/ ReadJunk
    <3>1. at = "junk" => ReadJunk
      BY <1>0 DEF SessionStep, WriteNext, BrokenPipe, SkipEmpty, SkipLine, ReadQuit, ReadCommand,
         ReadLogin, ReadUser, ReadPassword, Logout, ReadHeader, ReadBody, ReadCount, ReadFileName,
         ReadFileSize, ReadFileData, List, Read, Att, Del
    <3> QED BY <1>0, <1>5, <3>1, PlaceDecides
  <2>2. CASE toServer # <<>> /\ toServer' = Tail(toServer) /\ UNCHANGED session
    <3>1. NoSend'
      BY <1>0, <1>b, <2>2, StoringReads
    <3>2. UNCHANGED <<mail, filesLeft, at>>
      BY <2>2 DEF session
    <3> QED BY <1>0, <1>2, <1>5, <3>1, <3>2, KeptStays DEF Storing
  <2>3. CASE \E c \in {"data", "part"} :
               /\ FileRead(c)
               /\ UNCHANGED toServer \/ (toServer # <<>> /\ toServer' = Tail(toServer))
               /\ c = "data" \/ at = "junk" \/ link # "up"
    <3>1. PICK c \in {"data", "part"} :
               /\ FileRead(c)
               /\ UNCHANGED toServer \/ (toServer # <<>> /\ toServer' = Tail(toServer))
               /\ c = "data" \/ at = "junk" \/ link # "up"
      BY <2>3
    <3>2. NoSend'
      <4>1. CASE UNCHANGED toServer
        BY <1>0, <4>1 DEF NoSend
      <4>2. CASE toServer # <<>> /\ toServer' = Tail(toServer)
        BY <1>0, <1>b, <4>2, StoringReads
      <4> QED BY <3>1, <4>1, <4>2
    <3>3. mail' = Append(mail, c) /\ filesLeft' = filesLeft - 1 /\ (Save \/ at' = "file")
      BY <3>1 DEF FileRead
    <3>4. ~garbled /\ screen # "gone" => c = "data"
      BY <1>0, <3>1, StoringInStep
    <3>5. CASE at' = "file"
      BY <1>0, <1>5, <3>2, <3>3, <3>4, <3>5, KeptGrows
    <3> QED BY <3>2, <3>3, <3>5, Saves
  <2> QED BY <1>5, <2>1, <2>2, <2>3 DEF ReadFileData, ReadJunk, ReadsItem, AtEnd
<1> QED BY <1>0, <1>1, <1>3, <1>4, <1>5

\* The session reads a line of the header, or of the message.
LEMMA ComingShifts ==
  ASSUME TypeInv, UNCHANGED <<screen, typed, garbled>>, NEW n \in Nat, NEW d \in Nat,
         Coming(n, d), NEW k \in {1, 2}, Shifted(k), k <= d, at' \in {"to", "subject", "body"},
         \/ Heading > 0 /\ k = 1 /\ Heading' = Heading - 1
         \/ Heading = 0 /\ Heading' = 0,
         Cardinality(Texts(toServer')) + (IF at' = "body" THEN Len(mail') ELSE 0) = n,
         at' = "body" => \A i \in 1..Len(mail') : mail'[i] = "text"
  PROVE  Coming(n, d - k)'
<1>1. /\ Heading \in 0..3 /\ Heading' \in 0..3 /\ d - k \in Nat /\ k \in Nat
      /\ Heading' <= d - k /\ Heading <= Heading' + k
  <2>1. Heading \in 0..3 /\ Heading <= d
    BY HeadingIs DEF Coming, ComingLines
  <2> QED BY <2>1
<1>2. Len(toServer) \in Nat /\ Len(toServer') = Len(toServer) - k /\ d <= Len(toServer)
  BY DEF TypeInv, WireOK, Shifted, Coming, ComingLines
<1>3. \A i \in 1..Len(toServer') : i + k \in 1..Len(toServer) /\ toServer'[i] = toServer[i + k]
  <2>1. \A m \in Nat : \A i \in 1..(m - k) : i + k \in 1..m
    BY <1>1
  <2>2. \A i \in 1..(Len(toServer) - k) : toServer'[i] = toServer[i + k]
    BY DEF Shifted
  <2> QED BY <1>2, <2>1, <2>2
<1>4. ASSUME NEW i \in 1..Heading'
      PROVE  toServer'[i] = Item(<<"subject", "to", "SEND">>[Heading' - i + 1])
  <2>1. k = 1 /\ Heading' = Heading - 1 /\ i + 1 \in 1..Heading
    BY <1>1
  <2>2. toServer[i + 1] = Item(<<"subject", "to", "SEND">>[Heading - (i + 1) + 1])
    BY <2>1 DEF Coming, ComingLines
  <2>3. Heading - (i + 1) + 1 = Heading' - i + 1
    BY <1>1, <2>1
  <2>4. i \in 1..Len(toServer')
    BY <1>1, <1>2, <2>1
  <2> QED BY <1>3, <2>1, <2>2, <2>3, <2>4
<1>h. PICK h \in 0..3 : h = Heading'
  BY <1>1
<1>5. ASSUME NEW i \in (h + 1)..(d - k)
      PROVE  /\ toServer'[i].kind \in {"text", "part"}
             /\ toServer'[i].kind = "part"
                  => IF i < d - k THEN toServer'[i + 1].kind = "text"
                     ELSE Len(toServer') = d - k /\ screen' \in {"line", "gone"}
  <2>0. i \in Nat /\ i > h /\ i <= d - k
    BY <1>1
  <2>1. i \in 1..Len(toServer') /\ i + k \in (Heading + 1)..d
    BY <1>1, <1>2, <1>h, <2>0
  <2>2. toServer'[i] = toServer[i + k]
    BY <1>3, <2>1
  <2>3. /\ toServer[i + k].kind \in {"text", "part"}
        /\ toServer[i + k].kind = "part"
             => IF i + k < d THEN toServer[(i + k) + 1].kind = "text"
                ELSE Len(toServer) = d /\ screen \in {"line", "gone"}
    BY <2>1 DEF Coming, ComingLines
  <2>4. CASE i < d - k
    <3>1. i + k < d /\ i + 1 \in 1..Len(toServer') /\ (i + 1) + k = (i + k) + 1
      BY <1>1, <1>2, <2>1, <2>4
    <3>2. toServer'[i + 1] = toServer[(i + k) + 1]
      BY <1>3, <3>1
    <3> QED BY <2>2, <2>3, <2>4, <3>1, <3>2
  <2>5. CASE ~(i < d - k)
    <3>1. ~(i + k < d)
      BY <1>1, <2>0, <2>5
    <3>2. Len(toServer) = d => Len(toServer') = d - k
      BY <1>2
    <3> QED BY <2>2, <2>3, <2>5, <3>1, <3>2
  <2> QED BY <2>4, <2>5
<1>6. ComingLines(n, d - k)'
  <2>1. at' \in {"cmd", "to", "subject", "body"} /\ d - k <= Len(toServer')
    BY <1>2
  <2> HIDE DEF Heading
  <2> QED BY <1>1, <1>4, <1>h, <1>5, <2>1 DEF ComingLines
<1>7. ComingEnd(n, d - k)'
  <2>0. ComingEnd(n, d)
    BY DEF Coming
  <2>1. Len(typed') = n => Len(toServer') = d - k
    BY <1>2, <2>0 DEF ComingEnd
  <2>2. ASSUME Len(typed') > n
        PROVE  /\ d - k < Len(toServer') /\ toServer'[(d - k) + 1].kind = "."
               /\ \A i \in ((d - k) + 2)..Len(toServer') :
                    toServer'[i].kind \in {"byte", "file", "size", "data"}
               /\ Len(toServer') = (d - k) + 1 => Len(typed') = n + 1
               /\ Len(toServer') > (d - k) + 1 /\ ~garbled'
                    => toServer'[(d - k) + 2].n = Len(typed') - (n + 1)
               /\ screen' = "attach" => Len(toServer') = (d - k) + 1
    <3>0. /\ d < Len(toServer) /\ toServer[d + 1].kind = "."
          /\ \A i \in (d + 2)..Len(toServer) : toServer[i].kind \in {"byte", "file", "size", "data"}
          /\ Len(toServer) = d + 1 => Len(typed) = n + 1
          /\ Len(toServer) > d + 1 /\ ~garbled => toServer[d + 2].n = Len(typed) - (n + 1)
          /\ screen = "attach" => Len(toServer) = d + 1
      BY <2>0, <2>2 DEF ComingEnd
    <3>1. /\ (d - k) + 1 \in 1..Len(toServer') /\ ((d - k) + 1) + k = d + 1
          /\ d - k < Len(toServer')
      BY <1>1, <1>2, <3>0
    <3>2. toServer'[(d - k) + 1].kind = "."
      BY <1>3, <3>0, <3>1
    <3>3. \A i \in ((d - k) + 2)..Len(toServer') : 
            toServer'[i].kind \in {"byte", "file", "size", "data"}
      <4> TAKE i \in ((d - k) + 2)..Len(toServer')
      <4>1. i \in 1..Len(toServer') /\ i + k \in (d + 2)..Len(toServer)
        BY <1>1, <1>2
      <4> QED BY <1>3, <3>0, <4>1
    <3>4. Len(toServer') = (d - k) + 1 <=> Len(toServer) = d + 1
      BY <1>1, <1>2
    <3>5. ASSUME Len(toServer') > (d - k) + 1
          PROVE  Len(toServer) > d + 1 /\ toServer'[(d - k) + 2] = toServer[d + 2]
      <4>1. (d - k) + 2 \in 1..Len(toServer') /\ ((d - k) + 2) + k = d + 2 /\ Len(toServer) > d + 1
        BY <1>1, <1>2, <3>5
      <4> QED BY <1>3, <4>1
    <3> QED BY <3>0, <3>1, <3>2, <3>3, <3>4, <3>5
  <2> QED BY <2>1, <2>2 DEF ComingEnd
<1> QED BY <1>6, <1>7 DEF Coming

\* One item is read: the lines that are left.
LEMMA TextsLeft ==
  ASSUME TypeInv, toServer # <<>>, toServer' = Tail(toServer)
  PROVE  Cardinality(Texts(toServer))
           = Cardinality(Texts(toServer')) + (IF toServer[1].kind = "text" THEN 1 ELSE 0)
<1>1. toServer \in Seq(Items) /\ toServer' \in Seq(Items)
  BY TailTyped DEF TypeInv, WireOK
<1>2. Len(toServer) = Len(toServer') + 1 /\ \A i \in 1..Len(toServer') : toServer'[i] = toServer[i + 1]
  BY <1>1
<1> QED BY <1>1, <1>2, TextsShrink

\* The header.  A session nobody has logged in to passes over the command.
LEMMA ComingHeader ==
  ASSUME TypeInv, NEW n \in Nat, NEW d \in Nat, n <= Len(typed), Coming(n, d), ServerStep,
         at # "body"
  PROVE  Elsewhere' \/ \E e \in 0..Len(toServer') : Coming(n, e)'
<1>0. SessionStep /\ UNCHANGED <<screen, garbled, typed>>
  BY DEF ServerStep, client
<1>1. at \in {"cmd", "to", "subject"} /\ d <= Len(toServer) /\ Heading > 0 /\ Heading <= d
  BY HeadingIs DEF Coming, ComingLines
<1>2. /\ toServer # <<>> /\ toServer[1] = Head(toServer) /\ toServer \in Seq(Items)
      /\ Len(toServer) \in Nat /\ d >= 1 /\ Len(typed) \in Nat
  BY <1>1, HeadingIs DEF TypeInv, WireOK, ClientOK
<1>3. PICK c \in {"SEND", "to", "subject"} :
        /\ Head(toServer) = Item(c)
        /\ c = IF at = "cmd" THEN "SEND" ELSE at
  <2>1. 1 \in 1..Heading /\ Heading - 1 + 1 = Heading
    BY <1>1, HeadingIs
  <2>2. toServer[1] = Item(<<"subject", "to", "SEND">>[Heading - 1 + 1])
    BY <2>1 DEF Coming, ComingLines
  <2>3. Head(toServer) = Item(<<"subject", "to", "SEND">>[Heading])
    BY <1>2, <2>1, <2>2
  <2> QED BY <1>1, <2>3, HeadingIs
<1>4. c \in Kind \ {"part", "data", "byte"} /\ c # "empty"
  BY DEF Kind, Command
<1>5. \A l : ReadsLine(l) => l = c /\ toServer' = Tail(toServer)
  BY <1>2, <1>3, <1>4, Finished DEF ReadsLine, AtEnd
<1>6. ASSUME toServer' = Tail(toServer) PROVE NoSend'
  <2>1. Shifted(1)
    BY <1>2, <1>6, TailShifts
  <2>2. \A i \in 2..Len(toServer) : toServer[i].kind # "SEND"
    <3> TAKE i \in 2..Len(toServer)
    <3>0. i \in Nat /\ Heading \in 1..3
      BY <1>1, HeadingIs
    <3>1. CASE i <= Heading
      <4>1. i \in 1..Heading /\ Heading - i + 1 \in {1, 2}
        BY <3>0, <3>1
      <4>2. toServer[i] = Item(<<"subject", "to", "SEND">>[Heading - i + 1])
        BY <4>1 DEF Coming, ComingLines
      <4>3. <<"subject", "to", "SEND">>[Heading - i + 1] # "SEND"
        BY <4>1
      <4> QED BY <4>2, <4>3, ItemKind
    <3>2. CASE i > Heading /\ i <= d
      <4>1. i \in (Heading + 1)..d
        BY <3>0, <3>2
      <4>2. toServer[i].kind \in {"text", "part"}
        BY <4>1 DEF Coming, ComingLines
      <4> QED BY <4>2
    <3>3. CASE i > d
      <4>1. Len(typed) # n
        BY <1>2, <3>0, <3>3 DEF Coming, ComingEnd
      <4>2. Len(typed) > n
        BY <1>2, <4>1
      <4>3. /\ toServer[d + 1].kind = "."
            /\ \A j \in (d + 2)..Len(toServer) : toServer[j].kind \in {"byte", "file", "size", "data"}
        BY <4>2 DEF Coming, ComingEnd
      <4>4. i = d + 1 \/ i \in (d + 2)..Len(toServer)
        BY <1>2, <3>0, <3>3
      <4> QED BY <4>3, <4>4
    <3> QED BY <1>1, <1>2, <3>0, <3>1, <3>2, <3>3
  <2>3. Len(toServer') = Len(toServer) - 1
    BY <2>1 DEF Shifted
  <2>4. \A i \in 1..Len(toServer') : i + 1 \in 2..Len(toServer) /\ toServer'[i] = toServer[i + 1]
    BY <1>2, <2>1, <2>3 DEF Shifted
  <2> QED BY <2>2, <2>4 DEF NoSend
<1>7. ASSUME toServer' = Tail(toServer), at' \in {"to", "subject", "body"}, Heading' = Heading - 1,
             at' = "body" => mail' = <<>>
      PROVE  \E e \in 0..Len(toServer') : Coming(n, e)'
  <2>1. Shifted(1) /\ 1 \in {1, 2} /\ 1 <= d
    BY <1>2, <1>7, TailShifts
  <2>2. Cardinality(Texts(toServer)) = Cardinality(Texts(toServer'))
    <3>1. toServer[1].kind # "text"
      BY <1>2, <1>3, ItemKind
    <3>2. toServer' \in Seq(Items)
      BY <1>2, <1>7, TailTyped
    <3>3. Cardinality(Texts(toServer')) \in Nat
      BY <3>2, TextsFinite
    <3>4. Cardinality(Texts(toServer)) = Cardinality(Texts(toServer')) + 0
      BY <1>2, <1>7, <3>1, TextsLeft
    <3> QED BY <3>3, <3>4
  <2>3. Cardinality(Texts(toServer)) = n
    <3>1. Cardinality(Texts(toServer)) \in Nat
      BY <1>2, TextsFinite
    <3> QED BY <1>1, <3>1 DEF Coming, ComingLines
  <2>4. /\ Cardinality(Texts(toServer')) + (IF at' = "body" THEN Len(mail') ELSE 0) = n
        /\ at' = "body" => \A i \in 1..Len(mail') : mail'[i] = "text"
    BY <1>7, <2>2, <2>3
  <2>5. Coming(n, d - 1)'
    <3> HIDE DEF Heading
    <3> QED BY <1>0, <1>1, <1>7, <2>1, <2>4, ComingShifts
  <2>6. d - 1 \in 0..Len(toServer')
    BY <1>1, <1>2, <2>1 DEF Shifted
  <2> QED BY <2>5, <2>6
<1>8. CASE at = "cmd"
  <2>1. SkipLine \/ ReadCommand
    <3>1. \A l : ReadsLine(l) => l = "SEND"
      BY <1>3, <1>5, <1>8
    <3>2. ~SkipEmpty /\ ~ReadQuit /\ ~ReadLogin /\ ~Logout /\ ~List
      BY <3>1 DEF SkipEmpty, ReadQuit, ReadLogin, Logout, List
    <3> QED BY <1>0, <1>8, <3>2, PlaceDecides
  <2>2. toServer' = Tail(toServer)
    BY <1>5, <2>1 DEF SkipLine, ReadCommand
  <2>3. CASE SkipLine
    <3>1. at' = "cmd"
      BY <1>3, <1>5, <1>8, <2>3 DEF SkipLine
    <3> QED BY <1>6, <2>2, <3>1 DEF Elsewhere, Storing
  <2>4. CASE ReadCommand
    <3>1. at' = "to"
      BY <1>3, <1>5, <1>8, <2>4 DEF ReadCommand
    <3> QED BY <1>7, <1>8, <2>2, <3>1 DEF Heading
  <2> QED BY <2>1, <2>3, <2>4
<1>9. CASE at \in {"to", "subject"}
  <2>1. ReadHeader
    BY <1>0, <1>9, PlaceDecides
  <2>2. /\ toServer' = Tail(toServer)
        /\ at' = (IF at = "to" THEN "subject" ELSE "body") /\ mail' = <<>>
    BY <1>4, <1>5, <2>1 DEF ReadHeader
  <2>3. Heading' = Heading - 1
    BY <1>9, <2>2 DEF Heading
  <2> QED BY <1>7, <1>9, <2>2, <2>3
<1> QED BY <1>1, <1>8, <1>9

\* The dot: the session has every line that was typed.
LEMMA ComingDot ==
  ASSUME TypeInv, NEW n \in Nat, n <= Len(typed), Written(n), Coming(n, 0), at = "body",
         ServerStep, ~AtEnd
  PROVE  Kept(n)'
<1>0. SessionStep /\ UNCHANGED <<screen, garbled, typed>>
  BY DEF ServerStep, client
<1>1. /\ toServer \in Seq(Items) /\ Len(toServer) \in Nat /\ Len(typed) \in Nat
      /\ mail \in Seq(Kind) /\ Len(mail) \in Nat
  BY DEF TypeInv, WireOK, SessionOK, ClientOK
<1>2. PICK l \in Kind :
        /\ ReadsLine(l) /\ mail' = Append(mail, l)
        /\ at' = IF Ended(mail') THEN "count" ELSE "body"
  BY <1>0, PlaceDecides DEF ReadBody
<1>3. Len(typed) > n
  <2>1. SUFFICES ASSUME Len(typed) = n PROVE FALSE
    BY <1>1
  <2>2. toServer = <<>>
    BY <1>1, <2>1 DEF Coming, ComingEnd
  <2> QED BY <1>2, <2>2 DEF ReadsLine
<1>4. /\ 0 < Len(toServer) /\ toServer[0 + 1].kind = "."
      /\ \A i \in (0 + 2)..Len(toServer) : toServer[i].kind \in {"byte", "file", "size", "data"}
      /\ Len(toServer) = 0 + 1 => Len(typed) = n + 1
      /\ Len(toServer) > 0 + 1 /\ ~garbled => toServer[0 + 2].n = Len(typed) - (n + 1)
      /\ screen = "attach" => Len(toServer) = 0 + 1
  BY <1>3 DEF Coming, ComingEnd
<1>5. /\ toServer # <<>> /\ toServer[1] = Head(toServer) /\ toServer[1].kind = "."
      /\ \A i \in 2..Len(toServer) : toServer[i].kind \in {"byte", "file", "size", "data"}
  BY <1>1, <1>4
<1>6. l = "." /\ toServer' = Tail(toServer)
  BY <1>2, <1>5 DEF ReadsLine, Unfinished, AtEnd
<1>7. Len(mail) = n /\ \A i \in 1..Len(mail) : mail[i] = "text"
  <2>1. \A i \in 1..Len(toServer) : toServer[i].kind # "text"
    <3> TAKE i \in 1..Len(toServer)
    <3>1. i = 1 \/ i \in 2..Len(toServer)
      BY <1>1
    <3> QED BY <1>5, <3>1
  <2>2. Cardinality(Texts(toServer)) = 0
    BY <2>1, TextsNone
  <2>3. Cardinality(Texts(toServer)) + Len(mail) = n /\ \A i \in 1..Len(mail) : mail[i] = "text"
    BY DEF Coming, ComingLines
  <2> QED BY <1>1, <2>2, <2>3
<1>8. n > 0 /\ typed[n + 1] = "." /\ \A i \in 1..n : typed[i] = "text"
  BY <1>3 DEF Written
<1>9. /\ Len(mail') = n + 1 /\ mail'[n + 1] = "." /\ \A i \in 1..n : mail'[i] = "text"
  <2>1. \A s \in Seq(Kind) : /\ Len(Append(s, l)) = Len(s) + 1 /\ Append(s, l)[Len(s) + 1] = l
                             /\ \A i \in 1..Len(s) : Append(s, l)[i] = s[i]
    OBVIOUS
  <2> QED BY <1>1, <1>2, <1>6, <1>7, <2>1
<1>10. at' = "count"
  <2>1. n + 1 >= 2
    BY <1>8
  <2>2. Ended(mail')
    BY <1>9, <2>1 DEF Ended
  <2> QED BY <1>2, <2>2
<1>11. /\ Len(toServer') = Len(toServer) - 1
       /\ \A i \in 1..Len(toServer') : i + 1 \in 2..Len(toServer) /\ toServer'[i] = toServer[i + 1]
  <2>1. Shifted(1)
    BY <1>5, <1>6, TailShifts
  <2> QED BY <1>1, <2>1 DEF Shifted
<1>12. NoSend'
  BY <1>5, <1>11 DEF NoSend
<1>13. \A i \in 1..(n + 1) : mail'[i] = typed'[i]
  <2> TAKE i \in 1..(n + 1)
  <2>1. i = n + 1 \/ i \in 1..n
    OBVIOUS
  <2> QED BY <1>0, <1>8, <1>9, <2>1
<1>14. screen = "attach" => toServer' = <<>>
  BY <1>1, <1>4, <1>6
<1>15. ~garbled => IF toServer' = <<>> THEN Len(typed) = n + 1
                   ELSE toServer'[1].n = Len(typed) - (n + 1)
  <2>1. toServer' \in Seq(Items)
    BY <1>1, <1>5, <1>6, TailTyped
  <2>2. CASE toServer' = <<>>
    <3>1. Len(toServer) = 0 + 1
      BY <1>1, <1>11, <2>2
    <3> QED BY <1>4, <2>2, <3>1
  <2>3. CASE toServer' # <<>>
    <3>1. 1 \in 1..Len(toServer') /\ Len(toServer) > 0 + 1 /\ 1 + 1 = 0 + 2
      BY <1>1, <1>11, <2>1, <2>3
    <3>2. toServer'[1] = toServer[0 + 2]
      BY <1>11, <3>1
    <3> QED BY <1>4, <2>3, <3>1, <3>2
  <2> QED BY <2>2, <2>3
<1>16. /\ Len(mail') > n /\ n < Len(typed')
       /\ \A i \in (n + 2)..Len(mail') : mail'[i] \in {"data", "part"}
  BY <1>0, <1>1, <1>3, <1>9
<1> QED BY <1>0, <1>9, <1>10, <1>12, <1>13, <1>14, <1>15, <1>16 DEF Kept, KeptFiles, Storing

\* A line of the message, or a piece of one after which nothing comes.
LEMMA ComingLine ==
  ASSUME TypeInv, NEW n \in Nat, NEW d \in Nat, d > 0, Coming(n, d), at = "body", ServerStep, ~AtEnd
  PROVE  CutOff' \/ \E e \in 0..Len(toServer') : Coming(n, e)'
<1>0. SessionStep /\ UNCHANGED <<screen, garbled, typed>> /\ Heading = 0
  BY HeadingIs DEF ServerStep, client
<1>1. /\ toServer \in Seq(Items) /\ Len(toServer) \in Nat /\ mail \in Seq(Kind) /\ Len(mail) \in Nat
      /\ d <= Len(toServer)
  BY DEF TypeInv, WireOK, SessionOK, Coming, ComingLines
<1>2. PICK l \in Kind :
        /\ ReadsLine(l) /\ mail' = Append(mail, l)
        /\ at' = IF Ended(mail') THEN "count" ELSE "body"
  BY <1>0, PlaceDecides DEF ReadBody
<1>3. /\ toServer # <<>> /\ toServer[1] = Head(toServer)
      /\ toServer[1].kind \in {"text", "part"}
      /\ toServer[1].kind = "part" => IF 1 < d THEN toServer[1 + 1].kind = "text"
                                      ELSE Len(toServer) = d /\ screen \in {"line", "gone"}
  <2>1. 1 \in (Heading + 1)..d
    BY <1>0
  <2> QED BY <1>1, <2>1 DEF Coming, ComingLines
<1>4. l = "text"
  BY <1>2, <1>3 DEF ReadsLine, Unfinished, AtEnd
<1>5. /\ Len(mail') = Len(mail) + 1 /\ at' = "body"
      /\ \A i \in 1..Len(mail') : mail'[i] = "text"
  <2>1. \A s \in Seq(Kind) : /\ Len(Append(s, l)) = Len(s) + 1 /\ Append(s, l)[Len(s) + 1] = l
                             /\ \A i \in 1..Len(s) : Append(s, l)[i] = s[i]
    OBVIOUS
  <2>2. /\ Len(mail') = Len(mail) + 1 /\ mail'[Len(mail) + 1] = "text"
        /\ \A i \in 1..Len(mail) : mail'[i] = "text"
    BY <1>1, <1>2, <1>4, <2>1 DEF Coming, ComingLines
  <2>3. at' = "body"
    BY <1>2, <2>2 DEF Ended
  <2>4. \A i \in 1..Len(mail') : i = Len(mail) + 1 \/ i \in 1..Len(mail)
    BY <1>1, <2>2
  <2> QED BY <2>2, <2>3, <2>4
<1>6. Heading' = 0
  BY <1>5 DEF Heading
<1>7. Cardinality(Texts(toServer)) + Len(mail) = n /\ Cardinality(Texts(toServer)) \in Nat
  BY <1>1, TextsFinite DEF Coming, ComingLines
<1>8. ASSUME NEW k \in {1, 2}, k <= d, Shifted(k),
             Cardinality(Texts(toServer)) = Cardinality(Texts(toServer')) + 1
      PROVE  \E e \in 0..Len(toServer') : Coming(n, e)'
  <2>1. toServer' \in Seq(Items)
    BY <1>2, ReadsLineTyped DEF TypeInv
  <2>2. Cardinality(Texts(toServer')) + Len(mail') = n
    <3>1. Cardinality(Texts(toServer')) \in Nat
      BY <2>1, TextsFinite
    <3> QED BY <1>1, <1>5, <1>7, <1>8, <3>1
  <2>3. Coming(n, d - k)'
    <3> HIDE DEF Heading
    <3> QED BY <1>0, <1>5, <1>6, <1>8, <2>2, ComingShifts
  <2>4. d - k \in 0..Len(toServer')
    BY <1>1, <1>8 DEF Shifted
  <2> QED BY <2>3, <2>4
<1>9. CASE toServer[1].kind = "text"
  <2>1. toServer' = Tail(toServer)
    BY <1>2, <1>3, <1>9 DEF ReadsLine, Unfinished, AtEnd
  <2>2. Shifted(1)
    BY <1>3, <2>1, TailShifts
  <2>3. Cardinality(Texts(toServer)) = Cardinality(Texts(toServer')) + 1
    BY <1>3, <1>9, <2>1, TextsLeft
  <2> QED BY <1>8, <2>2, <2>3
<1>10. CASE toServer[1].kind = "part"
  <2>1. IF Tail(toServer) = <<>> THEN link # "up" /\ toServer' = <<>>
        ELSE toServer' = Tail(Tail(toServer))
    BY <1>2, <1>3, <1>10 DEF ReadsLine, Unfinished, AtEnd
  <2>2. CASE Tail(toServer) = <<>>
    <3>1. link' = link
      BY <1>0, PlaceDecides DEF ReadBody
    <3> QED BY <1>5, <2>1, <2>2, <3>1 DEF CutOff
  <2>3. CASE Tail(toServer) # <<>>
    <3> DEFINE t == Tail(toServer)
    <3>1. /\ t \in Seq(Items) /\ t # <<>> /\ Len(t) = Len(toServer) - 1
          /\ \A i \in 1..Len(t) : t[i] = toServer[i + 1]
      <4>1. \A s \in Seq(Items) : s # <<>> =>
              /\ Tail(s) \in Seq(Items) /\ Len(Tail(s)) = Len(s) - 1
              /\ \A i \in 1..Len(Tail(s)) : Tail(s)[i] = s[i + 1]
        OBVIOUS
      <4> QED BY <1>1, <1>3, <2>3, <4>1
    <3>2. toServer' = Tail(t)
      BY <2>1, <2>3
    <3>3. d > 1 /\ toServer[2].kind = "text"
      <4>1. Len(t) >= 1
        <5> HIDE DEF t
        <5> QED BY <3>1
      <4>2. d > 1
        <5> SUFFICES ASSUME ~(1 < d) PROVE FALSE
          OBVIOUS
        <5>1. Len(toServer) = d
          BY <1>3, <1>10
        <5>2. Len(t) = Len(toServer) - 1
          BY <3>1
        <5> HIDE DEF t
        <5> QED BY <1>1, <4>1, <5>1, <5>2
      <4> QED BY <1>3, <1>10, <4>2
    <3>4. t[1].kind = "text"
      <4>1. 1 \in 1..Len(t) /\ 1 + 1 = 2
        <5> HIDE DEF t
        <5> QED BY <3>1
      <4> QED BY <3>1, <3>3, <4>1
    <3>5. Cardinality(Texts(toServer)) = Cardinality(Texts(t)) + 0
      <4>1. Len(toServer) = Len(t) + 1
        BY <1>1, <3>1
      <4> QED BY <1>1, <1>10, <3>1, <4>1, TextsShrink
    <3>6. Cardinality(Texts(t)) = Cardinality(Texts(toServer')) + 1
      <4> HIDE DEF t
      <4>1. Tail(t) \in Seq(Items) /\ Len(t) = Len(Tail(t)) + 1
            /\ \A i \in 1..Len(Tail(t)) : Tail(t)[i] = t[i + 1]
        BY <3>1
      <4> QED BY <3>1, <3>2, <3>4, <4>1, TextsShrink
    <3>7. Shifted(2)
      BY <1>3, <2>3, <3>2, TailShifts
    <3>8. Cardinality(Texts(t)) \in Nat
      BY <3>1, TextsFinite
    <3> HIDE DEF t
    <3>9. Cardinality(Texts(toServer)) = Cardinality(Texts(toServer')) + 1
      BY <3>5, <3>6, <3>8
    <3> QED BY <1>8, <3>3, <3>7, <3>9
  <2> QED BY <2>2, <2>3
<1> QED BY <1>3, <1>9, <1>10

\* What the session does leaves the message on its way.
LEMMA TravelsServer ==
  ASSUME TypeInv, Basics, InStep => Talk, Clean, NEW n \in Nat, n <= Len(typed), Written(n),
         Travels(n), ServerStep
  PROVE  Written(n)' /\ Travels(n)'
<1>1. Written(n)'
  BY DEF ServerStep, client, Written
<1> SUFFICES Travels(n)'
  BY <1>1
<1>2. CASE Ending
  BY <1>2, EndingServer DEF Travels
<1>3. CASE CutOff
  BY <1>3, CutOffServer DEF Travels
<1>4. CASE Kept(n)
  BY <1>4, KeptServer DEF Travels
<1>5. CASE Elsewhere
  BY <1>5, ElsewhereServer DEF Travels
<1>6. CASE \E d \in 0..Len(toServer) : Coming(n, d)
  <2>1. PICK d \in 0..Len(toServer) : Coming(n, d)
    BY <1>6
  <2>2. d \in Nat
    OBVIOUS
  <2>3. CASE at # "body"
    BY <2>1, <2>2, <2>3, ComingHeader DEF Travels
  <2>4. CASE at = "body" /\ AtEnd
    BY <2>4, CutOffServer DEF Travels, CutOff, AtEnd
  <2>5. CASE at = "body" /\ ~AtEnd /\ d = 0
    BY <2>1, <2>5, ComingDot DEF Travels
  <2>6. CASE at = "body" /\ ~AtEnd /\ d # 0
    <3>1. d > 0
      BY <2>2, <2>6
    <3> QED BY <2>1, <2>2, <2>6, <3>1, ComingLine DEF Travels
  <2> QED BY <2>3, <2>4, <2>5, <2>6
<1> QED BY <1>2, <1>3, <1>4, <1>5, <1>6 DEF Travels

\* One more item on the wire.
LEMMA Appends ==
  ASSUME TypeInv, ~hungUp, NEW x \in Items, Sends(<<x>>)
  PROVE  Appended(x) /\ Len(toServer) \in Nat /\ toServer' \in Seq(Items)
<1>1. <<x>> \in Seq(Items) /\ Len(<<x>>) = 1 /\ <<x>>[1] = x /\ 1 \in 1..1
  OBVIOUS
<1>2. toServer \in Seq(Items) /\ toServer' = toServer \o <<x>>
  BY DEF TypeInv, WireOK, Sends
<1> QED BY <1>1, <1>2 DEF Appended

LEMMA NoSendSends ==
  ASSUME TypeInv, NoSend, NEW items \in Seq(Items), Sends(items),
         \A i \in 1..Len(items) : items[i].kind # "SEND"
  PROVE  NoSend'
<1>1. CASE hungUp
  BY <1>1 DEF Sends, NoSend
<1>2. CASE ~hungUp
  <2>1. /\ Len(toServer') = Len(toServer) + Len(items)
        /\ \A i \in 1..Len(toServer) : toServer'[i] = toServer[i]
        /\ \A i \in 1..Len(items) : toServer'[Len(toServer) + i] = items[i]
    BY <1>2, SendsInStep
  <2>2. Len(toServer) \in Nat /\ Len(items) \in Nat
    BY DEF TypeInv, WireOK
  <2> SUFFICES ASSUME NEW i \in 1..Len(toServer') PROVE toServer'[i].kind # "SEND"
    BY DEF NoSend
  <2>3. CASE i <= Len(toServer)
    <3>1. i \in 1..Len(toServer)
      BY <2>3
    <3> QED BY <2>1, <3>1 DEF NoSend
  <2>4. CASE i > Len(toServer)
    <3> DEFINE j == i - Len(toServer)
    <3>1. j \in 1..Len(items) /\ Len(toServer) + j = i
      BY <2>1, <2>2, <2>4
    <3> HIDE DEF j
    <3> QED BY <2>1, <3>1
  <2> QED BY <2>2, <2>3, <2>4
<1> QED BY <1>1, <1>2

\* A line or a piece of one, behind those that are on their way.
LEMMA LinesGrow ==
  ASSUME TypeInv, UNCHANGED session, NEW n \in Nat, NEW d \in Nat, ComingLines(n, d),
         Len(toServer) = d, screen \in {"message", "line"}, toServer' \in Seq(Items),
         NEW x, Appended(x),
         x.kind \in {"text", "part"}, screen = "line" => x.kind = "text",
         screen' = IF x.kind = "part" THEN "line" ELSE "message"
  PROVE  ComingLines(IF x.kind = "text" THEN n + 1 ELSE n, d + 1)'
<1>1. Heading' = Heading /\ UNCHANGED <<at, mail>>
  BY DEF session, Heading
<1>2. Heading \in 0..3 /\ Heading <= d
  BY HeadingIs DEF ComingLines
<1>3. /\ Len(toServer') = d + 1 /\ toServer'[d + 1] = x
      /\ \A i \in 1..d : toServer'[i] = toServer[i]
  BY DEF Appended
<1>4. \A i \in 1..Heading : toServer'[i] = Item(<<"subject", "to", "SEND">>[Heading - i + 1])
  <2> TAKE i \in 1..Heading
  <2>1. i \in 1..d
    BY <1>2
  <2> QED BY <1>3, <2>1 DEF ComingLines
<1>5. ASSUME NEW i \in (Heading + 1)..(d + 1)
      PROVE  /\ toServer'[i].kind \in {"text", "part"}
             /\ toServer'[i].kind = "part"
                  => IF i < d + 1 THEN toServer'[i + 1].kind = "text"
                     ELSE Len(toServer') = d + 1 /\ screen' \in {"line", "gone"}
  <2>1. CASE i = d + 1
    BY <1>3, <2>1
  <2>2. CASE i # d + 1
    <3>1. i \in (Heading + 1)..d /\ i \in 1..d /\ i < d + 1
      BY <1>2, <2>2
    <3>2. toServer'[i] = toServer[i]
      BY <1>3, <3>1
    <3>3. /\ toServer[i].kind \in {"text", "part"}
          /\ toServer[i].kind = "part"
               => IF i < d THEN toServer[i + 1].kind = "text"
                  ELSE Len(toServer) = d /\ screen \in {"line", "gone"}
      BY <3>1 DEF ComingLines
    <3>4. CASE i < d
      <4>1. toServer'[i + 1] = toServer[i + 1]
        BY <1>3, <3>1, <3>4
      <4> QED BY <3>1, <3>2, <3>3, <3>4, <4>1
    <3>5. CASE i = d
      BY <1>3, <3>1, <3>2, <3>3, <3>5
    <3> QED BY <3>1, <3>4, <3>5
  <2> QED BY <2>1, <2>2
<1>6. Cardinality(Texts(toServer')) + (IF at' = "body" THEN Len(mail') ELSE 0)
        = IF x.kind = "text" THEN n + 1 ELSE n
  <2>1. toServer \in Seq(Items) /\ Len(toServer') = Len(toServer) + 1 /\ Len(mail) \in Nat
    BY <1>3 DEF TypeInv, WireOK, SessionOK
  <2>2. Cardinality(Texts(toServer'))
          = Cardinality(Texts(toServer)) + (IF x.kind = "text" THEN 1 ELSE 0)
    BY <1>3, <2>1, TextsGrow
  <2>3. Cardinality(Texts(toServer)) \in Nat
    BY <2>1, TextsFinite
  <2>4. Cardinality(Texts(toServer)) + (IF at = "body" THEN Len(mail) ELSE 0) = n
    BY DEF ComingLines
  <2> QED BY <1>1, <2>1, <2>2, <2>3, <2>4
<1>7. at' = "body" => \A i \in 1..Len(mail') : mail'[i] = "text"
  BY <1>1 DEF ComingLines
<1>8. /\ at' \in {"cmd", "to", "subject", "body"}
      /\ Heading' <= d + 1 /\ d + 1 <= Len(toServer')
  BY <1>1, <1>2, <1>3 DEF ComingLines
<1> HIDE DEF Heading
<1> QED BY <1>1, <1>3, <1>4, <1>5, <1>6, <1>7, <1>8 DEF ComingLines

\* Something else, behind the lines.
LEMMA LinesStay ==
  ASSUME TypeInv, UNCHANGED session, NEW n \in Nat, NEW d \in Nat, ComingLines(n, d),
         screen \notin {"line", "gone"}, toServer' \in Seq(Items), NEW x, Appended(x),
         x.kind # "text"
  PROVE  ComingLines(n, d)'
<1>1. Heading' = Heading /\ UNCHANGED <<at, mail>>
  BY DEF session, Heading
<1>2. /\ Heading \in 0..3 /\ Heading <= d /\ d <= Len(toServer) /\ Len(toServer) \in Nat
      /\ toServer \in Seq(Items)
  BY HeadingIs DEF ComingLines, TypeInv, WireOK
<1>3. /\ Len(toServer') = Len(toServer) + 1 /\ toServer'[Len(toServer) + 1] = x
      /\ \A i \in 1..d : toServer'[i] = toServer[i]
      /\ \A i \in 1..Len(toServer) : toServer'[i] = toServer[i]
  <2>1. \A i \in 1..d : i \in 1..Len(toServer)
    BY <1>2
  <2> QED BY <2>1 DEF Appended
<1>4. \A i \in 1..Heading : toServer'[i] = Item(<<"subject", "to", "SEND">>[Heading - i + 1])
  <2> TAKE i \in 1..Heading
  <2>1. i \in 1..d
    BY <1>2
  <2> QED BY <1>3, <2>1 DEF ComingLines
<1>5. ASSUME NEW i \in (Heading + 1)..d
      PROVE  /\ toServer'[i].kind \in {"text", "part"}
             /\ toServer'[i].kind = "part"
                  => IF i < d THEN toServer'[i + 1].kind = "text"
                     ELSE Len(toServer') = d /\ screen' \in {"line", "gone"}
  <2>1. i \in 1..d
    BY <1>2
  <2>2. /\ toServer[i].kind \in {"text", "part"}
        /\ toServer[i].kind = "part"
             => IF i < d THEN toServer[i + 1].kind = "text"
                ELSE Len(toServer) = d /\ screen \in {"line", "gone"}
    BY DEF ComingLines
  <2>3. i < d => toServer'[i + 1] = toServer[i + 1]
    BY <1>3, <2>1
  <2> QED BY <1>3, <2>1, <2>2, <2>3
<1>6. Cardinality(Texts(toServer')) = Cardinality(Texts(toServer))
  <2>1. Cardinality(Texts(toServer'))
          = Cardinality(Texts(toServer)) + (IF x.kind = "text" THEN 1 ELSE 0)
    BY <1>2, <1>3, TextsGrow
  <2>2. Cardinality(Texts(toServer)) \in Nat
    BY <1>2, TextsFinite
  <2> QED BY <2>1, <2>2
<1>7. d <= Len(toServer')
  BY <1>2, <1>3
<1>8. /\ Cardinality(Texts(toServer')) + (IF at' = "body" THEN Len(mail') ELSE 0) = n
      /\ at' = "body" => \A i \in 1..Len(mail') : mail'[i] = "text"
      /\ at' \in {"cmd", "to", "subject", "body"}
  BY <1>1, <1>6 DEF ComingLines
<1> HIDE DEF Heading
<1> QED BY <1>1, <1>2, <1>4, <1>5, <1>7, <1>8 DEF ComingLines

\* The dot, the number of attachments and their parts go behind the lines.
LEMMA EndGrows ==
  ASSUME TypeInv, NEW n \in Nat, NEW d \in Nat, n <= Len(typed), Written(n), Coming(n, d),
         NEW x, Appended(x), Len(typed') \in Nat,
         \/ /\ screen = "message" /\ screen' = "attach" /\ x.kind = "." /\ Len(typed') = n + 1
         \/ /\ screen = "attach" /\ screen' \in Announcing /\ x.kind = "byte"
            /\ Len(typed') > n /\ (~garbled' => x.n = Len(typed') - (n + 1))
         \/ /\ screen \in Announcing /\ screen' \in Announcing /\ x.kind \in {"file", "size", "data"}
            /\ Len(typed') = Len(typed)
            /\ (garbled => garbled') /\ (~garbled' => x.n = 0)
  PROVE  ComingEnd(n, d)'
<1>1. Len(toServer) \in Nat /\ Len(typed) \in Nat /\ d <= Len(toServer)
  BY DEF TypeInv, WireOK, ClientOK, Coming, ComingLines
<1>2. /\ Len(toServer') = Len(toServer) + 1
      /\ \A i \in 1..Len(toServer) : toServer'[i] = toServer[i]
      /\ toServer'[Len(toServer) + 1] = x
  BY DEF Appended
<1>3. CASE screen = "message" /\ screen' = "attach" /\ x.kind = "." /\ Len(typed') = n + 1
  <2>1. Len(toServer) = d
    BY <1>3 DEF Written, Coming, ComingEnd
  <2>2. Len(toServer') = d + 1 /\ toServer'[d + 1].kind = "."
    BY <1>2, <1>3, <2>1
  <2>3. ~(Len(toServer') > d + 1) /\ \A i \in (d + 2)..Len(toServer') : FALSE
    BY <2>2
  <2>4. Len(typed') # n /\ d < Len(toServer')
    BY <1>3, <2>2
  <2> QED BY <1>3, <2>2, <2>3, <2>4 DEF ComingEnd
<1>4. ASSUME screen \in {"attach"} \cup Announcing
      PROVE  /\ d < Len(toServer) /\ toServer[d + 1].kind = "."
             /\ \A i \in (d + 2)..Len(toServer) :
                  toServer[i].kind \in {"byte", "file", "size", "data"}
             /\ Len(toServer) = d + 1 => Len(typed) = n + 1
             /\ Len(toServer) > d + 1 /\ ~garbled => toServer[d + 2].n = Len(typed) - (n + 1)
             /\ screen = "attach" => Len(toServer) = d + 1
             /\ Len(typed) > n
  <2>1. Len(typed) > n
    BY <1>1, <1>4 DEF Written
  <2> QED BY <2>1 DEF Coming, ComingEnd
<1>5. ASSUME screen \in {"attach"} \cup Announcing, x.kind \in {"byte", "file", "size", "data"}
      PROVE  /\ d < Len(toServer') /\ toServer'[d + 1].kind = "."
             /\ \A i \in (d + 2)..Len(toServer') :
                  toServer'[i].kind \in {"byte", "file", "size", "data"}
             /\ Len(toServer') # d + 1
  <2>1. d < Len(toServer') /\ d + 1 \in 1..Len(toServer) /\ Len(toServer') # d + 1
    BY <1>1, <1>2, <1>4, <1>5
  <2>2. toServer'[d + 1].kind = "."
    BY <1>2, <1>4, <1>5, <2>1
  <2>3. ASSUME NEW i \in (d + 2)..Len(toServer')
        PROVE  toServer'[i].kind \in {"byte", "file", "size", "data"}
    <3>0. \A m \in Nat : \A j \in (d + 2)..(m + 1) :
            j = m + 1 \/ (j \in (d + 2)..m /\ j \in 1..m)
      OBVIOUS
    <3>1. i = Len(toServer) + 1 \/ (i \in (d + 2)..Len(toServer) /\ i \in 1..Len(toServer))
      BY <1>1, <1>2, <3>0
    <3>2. CASE i = Len(toServer) + 1
      BY <1>2, <1>5, <3>2
    <3>3. CASE i \in (d + 2)..Len(toServer) /\ i \in 1..Len(toServer)
      BY <1>2, <1>4, <1>5, <3>3
    <3> QED BY <3>1, <3>2, <3>3
  <2> QED BY <2>1, <2>2, <2>3
<1>6. CASE /\ screen = "attach" /\ screen' \in Announcing /\ x.kind = "byte"
           /\ Len(typed') > n /\ (~garbled' => x.n = Len(typed') - (n + 1))
  <2>1. Len(toServer) = d + 1 /\ toServer'[d + 2] = x
    <3>1. Len(toServer) = d + 1
      BY <1>4, <1>6
    <3>2. Len(toServer) + 1 = d + 2
      BY <3>1
    <3> QED BY <1>2, <3>1, <3>2
  <2>2. screen' # "attach"
    BY <1>6 DEF Announcing
  <2>3. Len(typed') # n
    BY <1>6
  <2> QED BY <1>5, <1>6, <2>1, <2>2, <2>3 DEF ComingEnd
<1>7. CASE /\ screen \in Announcing /\ screen' \in Announcing /\ x.kind \in {"file", "size", "data"}
           /\ Len(typed') = Len(typed)
           /\ (garbled => garbled') /\ (~garbled' => x.n = 0)
  <2>1. ASSUME ~garbled' PROVE toServer'[d + 2].n = Len(typed') - (n + 1)
    <3>1. CASE Len(toServer) = d + 1
      <4>1. toServer'[d + 2] = x
        <5>1. Len(toServer) + 1 = d + 2
          BY <3>1
        <5> QED BY <1>2, <5>1
      <4>2. Len(typed') - (n + 1) = 0
        BY <1>1, <1>4, <1>7, <3>1
      <4> QED BY <1>7, <2>1, <4>1, <4>2
    <3>2. CASE Len(toServer) # d + 1
      <4>1. Len(toServer) > d + 1 /\ d + 2 \in 1..Len(toServer)
        BY <1>1, <1>4, <1>7, <3>2
      <4>2. toServer'[d + 2] = toServer[d + 2]
        BY <1>2, <4>1
      <4> QED BY <1>4, <1>7, <2>1, <4>1, <4>2
    <3> QED BY <3>1, <3>2
  <2>2. screen' # "attach" /\ Len(typed') # n
    <3>1. Len(typed') > n
      BY <1>4, <1>7
    <3> QED BY <1>7, <3>1 DEF Announcing
  <2> QED BY <1>5, <1>7, <2>1, <2>2 DEF ComingEnd
<1> QED BY <1>3, <1>6, <1>7

\* What the client writes goes behind what is on its way, unless the session
\* reads no message any more.
LEMMA Behind ==
  ASSUME TypeInv, Basics, UNCHANGED session, screen # "gone", NEW n, Travels(n),
         NEW x \in Items, Sends(<<x>>), x.kind # "SEND"
  PROVE  \/ Ending' \/ Elsewhere'
         \/ /\ Appended(x) /\ toServer' \in Seq(Items) /\ (NoSend => NoSend')
            /\ Kept(n) \/ \E d \in 0..Len(toServer) : Coming(n, d)
<1>1. at' = at /\ next' = next /\ link = "up"
  BY DEF session, Basics
<1>2. <<x>> \in Seq(Items) /\ Len(<<x>>) = 1 /\ \A i \in 1..Len(<<x>>) : <<x>>[i].kind # "SEND"
  OBVIOUS
<1>3. NoSend => NoSend'
  BY <1>2, NoSendSends
<1>4. CASE Ending
  BY <1>1, <1>4 DEF Ending
<1>5. CASE Elsewhere
  BY <1>1, <1>3, <1>5 DEF Elsewhere
<1>6. CASE ~Ending /\ ~Elsewhere
  <2>1. Kept(n) \/ \E d \in 0..Len(toServer) : Coming(n, d)
    BY <1>1, <1>6 DEF Travels, CutOff
  <2>2. ~hungUp
    BY <1>6 DEF Basics, Ending
  <2> QED BY <1>3, <2>1, <2>2, Appends
<1> QED BY <1>4, <1>5, <1>6

\* The user types a line, a piece of one, or the rest.
LEMMA LineTravels ==
  ASSUME TypeInv, TypeInv', Basics, UNCHANGED session,
         NEW n \in Nat, n <= Len(typed), Written(n), Travels(n),
         NEW x \in Items, Sends(<<x>>), x.kind \in {"text", "part"},
         screen \in {"message", "line"}, screen = "line" => x.kind = "text",
         screen' = IF x.kind = "part" THEN "line" ELSE "message",
         typed' = IF x.kind = "part" THEN typed ELSE Append(typed, "text")
  PROVE  \E m \in 0..Len(typed') : Written(m)' /\ Travels(m)'
<1> DEFINE m == IF x.kind = "text" THEN n + 1 ELSE n
<1>1. typed \in Seq(Kind) /\ Len(typed) = n /\ m \in Nat
  BY DEF TypeInv, ClientOK, Written
<1>2. Len(typed') = m /\ \A i \in 1..m : typed'[i] = "text"
  <2>1. \A s \in Seq(Kind) :
          /\ Len(Append(s, "text")) = Len(s) + 1 /\ Append(s, "text")[Len(s) + 1] = "text"
          /\ \A i \in 1..Len(s) : Append(s, "text")[i] = s[i]
    BY DEF Kind
  <2>2. CASE x.kind = "part"
    BY <1>1, <2>2 DEF Written
  <2>3. CASE x.kind = "text"
    <3>1. Len(typed') = n + 1 /\ typed'[n + 1] = "text" /\ \A i \in 1..n : typed'[i] = "text"
      BY <1>1, <2>1, <2>3 DEF Written
    <3> QED BY <2>3, <3>1
  <2> QED BY <2>2, <2>3
<1> HIDE DEF m
<1>3. Written(m)'
  <2>1. screen' \notin {"attach"} \cup Announcing
    BY DEF Announcing
  <2> QED BY <1>1, <1>2, <2>1 DEF Written
<1>4. ASSUME Appended(x), toServer' \in Seq(Items), NEW d \in 0..Len(toServer), Coming(n, d)
      PROVE  Travels(m)'
  <2>1. Len(toServer) = d /\ d \in Nat
    BY <1>1, <1>4 DEF Coming, ComingEnd
  <2>2. ComingLines(m, d + 1)'
    BY <1>4, <2>1, LinesGrow DEF Coming, m
  <2>3. Len(toServer') = d + 1
    BY <1>4, <2>1 DEF Appended
  <2>4. ComingEnd(m, d + 1)'
    BY <1>1, <1>2, <2>3 DEF ComingEnd
  <2>5. d + 1 \in 0..Len(toServer')
    BY <2>1, <2>3
  <2> QED BY <2>2, <2>4, <2>5 DEF Travels, Coming
<1>5. ~Kept(n)
  BY <1>1 DEF Kept
<1>6. screen # "gone" /\ x.kind # "SEND"
  OBVIOUS
<1>7. Travels(m)'
  BY <1>4, <1>5, <1>6, Behind DEF Travels
<1> QED BY <1>1, <1>2, <1>3, <1>7

\* What is not a line goes behind the lines.
LEMMA EndTravels ==
  ASSUME TypeInv, TypeInv', UNCHANGED session,
         NEW n \in Nat, n <= Len(typed), Written(n), NEW d \in 0..Len(toServer), Coming(n, d),
         NEW x, Appended(x), toServer' \in Seq(Items),
         \/ /\ screen = "message" /\ screen' = "attach" /\ x.kind = "." /\ Len(typed') = n + 1
         \/ /\ screen = "attach" /\ screen' \in Announcing /\ x.kind = "byte"
            /\ Len(typed') > n /\ (~garbled' => x.n = Len(typed') - (n + 1))
         \/ /\ screen \in Announcing /\ screen' \in Announcing /\ x.kind \in {"file", "size", "data"}
            /\ Len(typed') = Len(typed)
            /\ (garbled => garbled') /\ (~garbled' => x.n = 0)
  PROVE  Travels(n)'
<1>1. Len(typed') \in Nat /\ d \in Nat /\ Len(toServer) \in Nat
  BY DEF TypeInv, ClientOK, WireOK
<1>2. ComingEnd(n, d)'
  BY <1>1, EndGrows
<1>3. x.kind # "text" /\ screen \notin {"line", "gone"}
  BY DEF Announcing
<1>4. ComingLines(n, d)'
  BY <1>1, <1>3, LinesStay DEF Coming
<1>5. d \in 0..Len(toServer')
  BY <1>1 DEF Appended
<1> QED BY <1>2, <1>4, <1>5 DEF Travels, Coming

LEMMA DotTravels ==
  ASSUME TypeInv, TypeInv', Basics, UNCHANGED session,
         NEW n \in Nat, n <= Len(typed), Written(n), Travels(n),
         screen = "message", screen' = "attach", typed # <<>>,
         Sends(<<Item(".")>>), typed' = Append(typed, ".")
  PROVE  Written(n)' /\ Travels(n)'
<1>1. typed \in Seq(Kind) /\ Len(typed) = n
  BY DEF TypeInv, ClientOK, Written
<1>2. n > 0
  <2>1. \A s \in Seq(Kind) : s # <<>> => Len(s) > 0
    OBVIOUS
  <2> QED BY <1>1, <2>1
<1>3. /\ Len(typed') = n + 1 /\ typed'[n + 1] = "." /\ \A i \in 1..n : typed'[i] = "text"
  <2>1. \A s \in Seq(Kind) :
          /\ Len(Append(s, ".")) = Len(s) + 1 /\ Append(s, ".")[Len(s) + 1] = "."
          /\ \A i \in 1..Len(s) : Append(s, ".")[i] = s[i]
    BY DEF Kind
  <2> QED BY <1>1, <2>1 DEF Written
<1>4. Written(n)'
  <2>1. \A i \in (n + 2)..Len(typed') : FALSE
    BY <1>3
  <2>2. screen' \notin {"message", "line"} \cup Announcing
    BY DEF Announcing
  <2> QED BY <1>2, <1>3, <2>1, <2>2 DEF Written
<1>5. Item(".") \in Items /\ Item(".").kind = "."
  BY ItemTyped, ItemKind DEF Kind
<1>6. ~Kept(n)
  BY <1>1 DEF Kept
<1>7. ASSUME Appended(Item(".")), toServer' \in Seq(Items), NEW d \in 0..Len(toServer), Coming(n, d)
      PROVE  Travels(n)'
  BY <1>3, <1>5, <1>7, EndTravels
<1>8. screen # "gone"
  OBVIOUS
<1> QED BY <1>4, <1>5, <1>6, <1>7, <1>8, Behind DEF Travels

\* The attachments go behind the dot, and so does their number, cut to a byte.
LEMMA AttachTravels ==
  ASSUME TypeInv, TypeInv', Basics, UNCHANGED session,
         NEW n \in Nat, n <= Len(typed), Written(n), Travels(n), Attach
  PROVE  n <= Len(typed') /\ Written(n)' /\ Travels(n)'
<1>1. PICK k \in Chosen :
        /\ Sends(<<Numbered("byte", k % Byte)>>)
        /\ Show("attach", IF k % Byte = 0 THEN "sent?" ELSE "file")
        /\ typed' = typed \o [i \in 1..k |-> "data"] /\ garbled' = (k >= Byte)
  BY DEF Attach
<1> DEFINE x == Numbered("byte", k % Byte)
<1>2. k \in Nat /\ k % Byte \in Nat /\ (k < Byte => k % Byte = k)
  <2>1. k \in Nat
    BY <1>1, ClientAssumption DEF Chosen
  <2>2. \A i \in Nat, b \in Nat \ {0} : i % b \in Nat /\ (i < b => i % b = i)
    OBVIOUS
  <2> QED BY <2>1, <2>2, WireAssumption
<1>3. x \in Items /\ x.kind = "byte" /\ x.n = k % Byte
  BY <1>2, NumberedTyped DEF Numbered, Kind
<1> HIDE DEF x
<1>4. screen = "attach" /\ screen' \in Announcing /\ ~garbled
  BY <1>1 DEF Show, Announcing, Basics
<1>5. typed \in Seq(Kind) /\ Len(typed) = n + 1
  BY <1>4 DEF TypeInv, ClientOK, Written
<1>6. /\ Len(typed') = (n + 1) + k
      /\ \A i \in 1..(n + 1) : typed'[i] = typed[i]
      /\ \A i \in (n + 2)..Len(typed') : typed'[i] = "data"
  <2> DEFINE files == [i \in 1..k |-> "data"]
  <2>1. files \in Seq(Kind) /\ Len(files) = k /\ \A i \in 1..k : files[i] = "data"
    BY <1>2 DEF Kind
  <2> HIDE DEF files
  <2>2. typed' = typed \o files
    BY <1>1 DEF files
  <2>3. \A s, t \in Seq(Kind) : /\ Len(s \o t) = Len(s) + Len(t)
                                /\ \A i \in 1..Len(s) : (s \o t)[i] = s[i]
                                /\ \A i \in (Len(s) + 1)..(Len(s) + Len(t)) :
                                     (s \o t)[i] = t[i - Len(s)] /\ i - Len(s) \in 1..Len(t)
    OBVIOUS
  <2>4. /\ Len(typed') = (n + 1) + k
        /\ \A i \in 1..(n + 1) : typed'[i] = typed[i]
        /\ \A i \in ((n + 1) + 1)..((n + 1) + k) :
             typed'[i] = files[i - (n + 1)] /\ i - (n + 1) \in 1..k
    <3>1. /\ Len(typed') = Len(typed) + Len(files)
          /\ \A i \in 1..Len(typed) : typed'[i] = typed[i]
          /\ \A i \in (Len(typed) + 1)..(Len(typed) + Len(files)) :
               typed'[i] = files[i - Len(typed)] /\ i - Len(typed) \in 1..Len(files)
      BY <1>5, <2>1, <2>2, <2>3
    <3> QED BY <1>5, <2>1, <3>1
  <2>5. (n + 1) + 1 = n + 2
    OBVIOUS
  <2> QED BY <2>1, <2>4, <2>5
<1>7. Len(typed') > n /\ n <= Len(typed') /\ (~garbled' => x.n = Len(typed') - (n + 1))
  <2>1. Len(typed') > n /\ n <= Len(typed')
    BY <1>2, <1>6
  <2>2. ASSUME ~garbled' PROVE x.n = Len(typed') - (n + 1)
    <3>0. ~(k >= Byte)
      BY <1>1, <2>2, Zenon
    <3>1. k < Byte
      BY <1>2, <3>0, WireAssumption
    <3> QED BY <1>2, <1>3, <1>6, <3>1
  <2> QED BY <2>1, <2>2
<1>8. Written(n)'
  <2>1. /\ n > 0 /\ typed[n + 1] = "." /\ \A i \in 1..n : typed[i] = "text"
    BY <1>5 DEF Written
  <2>2. typed'[n + 1] = "." /\ \A i \in 1..n : typed'[i] = "text"
    BY <1>6, <2>1
  <2>3. screen' \notin {"message", "line", "attach"}
    BY <1>4 DEF Announcing
  <2> QED BY <1>6, <1>7, <2>1, <2>2, <2>3 DEF Written
<1>9. ASSUME Appended(x), toServer' \in Seq(Items), NoSend => NoSend', Kept(n)
      PROVE  Kept(n)'
  <2>1. UNCHANGED <<at, mail, filesLeft>> /\ screen # "gone"
    BY <1>4 DEF session
  <2>2. at = "count"
    <3> SUFFICES ASSUME at # "count" PROVE FALSE
      OBVIOUS
    <3>1. Len(mail) + filesLeft = n + 1 /\ Len(mail) > n
      BY <1>4, <1>5, <1>9, <2>1 DEF Kept, KeptFiles
    <3>2. filesLeft > 0 /\ filesLeft \in Int /\ Len(mail) \in Nat
      BY <1>9, WireAssumption DEF Kept, Storing, TypeInv, SessionOK
    <3> QED BY <3>1, <3>2
  <2>3. toServer = <<>>
    BY <1>4, <1>9, <2>2 DEF Kept
  <2>4. toServer' # <<>> /\ toServer'[1] = x
    BY <1>9, <2>3 DEF Appended
  <2>5. \A i \in 1..(n + 1) : mail'[i] = typed'[i]
    BY <1>6, <1>9, <2>1 DEF Kept
  <2>6. screen' # "attach"
    BY <1>4 DEF Announcing
  <2> QED BY <1>7, <1>9, <2>1, <2>2, <2>4, <2>5, <2>6 DEF Kept, KeptFiles
<1>10. ASSUME Appended(x), toServer' \in Seq(Items), NEW d \in 0..Len(toServer), Coming(n, d)
       PROVE  Travels(n)'
  BY <1>3, <1>4, <1>7, <1>10, EndTravels
<1>11. x.kind # "SEND" /\ screen # "gone" /\ Sends(<<x>>)
  BY <1>1, <1>3, <1>4 DEF x
<1>12. Travels(n)'
  BY <1>3, <1>9, <1>10, <1>11, Behind DEF Travels
<1> QED BY <1>7, <1>8, <1>12

\* Name, size and contents of a file go last.
LEMMA FileTravels ==
  ASSUME TypeInv, TypeInv', Basics, UNCHANGED session, UNCHANGED typed,
         NEW n \in Nat, n <= Len(typed), Written(n), Travels(n),
         NEW x \in Items, Sends(<<x>>), x.kind \in {"file", "size", "data"},
         screen \in Announcing, screen' \in Announcing,
         garbled => garbled', ~garbled' => x.n = 0
  PROVE  Written(n)' /\ Travels(n)'
<1>1. Len(typed) > n /\ Len(typed) \in Nat
  BY DEF Written, TypeInv, ClientOK
<1>2. Written(n)'
  <2>1. screen' \notin {"message", "line", "attach"}
    BY DEF Announcing
  <2> QED BY <1>1, <2>1 DEF Written
<1>3. ASSUME Appended(x), toServer' \in Seq(Items), NoSend => NoSend', Kept(n)
      PROVE  Kept(n)'
  <2>1. UNCHANGED <<at, mail, filesLeft>> /\ screen # "gone" /\ screen' # "attach"
    BY DEF session, Announcing
  <2>2. ASSUME at = "count", ~garbled'
        PROVE  toServer' # <<>> /\ toServer'[1].n = Len(typed) - (n + 1)
    <3>1. IF toServer = <<>> THEN Len(typed) = n + 1 ELSE toServer[1].n = Len(typed) - (n + 1)
      BY <1>3, <2>1, <2>2 DEF Kept, KeptFiles
    <3>2. toServer \in Seq(Items) /\ Len(toServer) \in Nat
      BY DEF TypeInv, WireOK
    <3>3. CASE toServer = <<>>
      <4>1. Len(toServer') = 1 /\ toServer'[1] = x /\ toServer' # <<>>
        <5>1. Len(toServer) + 1 = 1
          BY <3>3
        <5>2. Len(toServer') = 1 /\ toServer'[1] = x
          <6>1. Len(toServer') = Len(toServer) + 1 /\ toServer'[Len(toServer) + 1] = x
            BY <1>3 DEF Appended
          <6> QED BY <5>1, <6>1, Zenon
        <5>3. toServer' = <<>> => Len(toServer') = 0
          OBVIOUS
        <5> QED BY <5>2, <5>3
      <4>2. Len(typed) - (n + 1) = 0
        BY <1>1, <3>1, <3>3
      <4> QED BY <2>2, <4>1, <4>2
    <3>4. CASE toServer # <<>>
      <4>1. 1 \in 1..Len(toServer)
        BY <3>2, <3>4
      <4>2. toServer'[1] = toServer[1] /\ toServer' # <<>>
        BY <1>3, <3>2, <4>1 DEF Appended
      <4> QED BY <3>1, <3>4, <4>2
    <3> QED BY <3>3, <3>4
  <2> QED BY <1>3, <2>1, <2>2 DEF Kept, KeptFiles
<1>4. ASSUME Appended(x), toServer' \in Seq(Items), NEW d \in 0..Len(toServer), Coming(n, d)
      PROVE  Travels(n)'
  BY <1>4, EndTravels
<1>5. x.kind # "SEND" /\ screen # "gone"
  BY DEF Announcing
<1>6. Travels(n)'
  BY <1>3, <1>4, <1>5, Behind DEF Travels
<1> QED BY <1>2, <1>6

\* A step that writes nothing and leaves the message as it is.
LEMMA QuietTravels ==
  ASSUME TypeInv, UNCHANGED <<session, toServer, typed>>, screen # "gone",
         NEW n \in Nat, n <= Len(typed), Written(n), Travels(n),
         screen' \notin {"message", "line", "attach"}, screen = "line" => screen' = "gone",
         screen' \in Announcing => screen \in Announcing,
         garbled => garbled', link # "up" => link' # "up"
  PROVE  Written(n)' /\ Travels(n)'
<1>1. Written(n)'
  BY DEF Written
<1> SUFFICES Travels(n)'
  BY <1>1
<1>2. UNCHANGED <<at, next, mail, filesLeft>> /\ NoSend' = NoSend /\ Heading' = Heading
      /\ Texts(toServer') = Texts(toServer)
  BY DEF session, NoSend, Heading
<1>3. CASE Ending \/ CutOff \/ Elsewhere
  BY <1>2, <1>3 DEF Travels, Ending, CutOff, Elsewhere
<1>4. CASE Kept(n)
  BY <1>2, <1>4 DEF Travels, Kept, KeptFiles
<1>5. ASSUME NEW d \in 0..Len(toServer), Coming(n, d)
      PROVE  Coming(n, d)'
  <2>1. ComingLines(n, d)'
    <3>1. ASSUME NEW i \in (Heading + 1)..d
          PROVE  /\ toServer[i].kind \in {"text", "part"}
                 /\ toServer[i].kind = "part"
                      => IF i < d THEN toServer[i + 1].kind = "text"
                         ELSE Len(toServer) = d /\ screen' \in {"line", "gone"}
      BY <1>5 DEF Coming, ComingLines
    <3> HIDE DEF Heading
    <3> QED BY <1>2, <1>5, <3>1 DEF Coming, ComingLines
  <2>2. ComingEnd(n, d)'
    BY <1>5 DEF Coming, ComingEnd
  <2> QED BY <2>1, <2>2 DEF Coming
<1> QED BY <1>1, <1>3, <1>4, <1>5 DEF Travels

\* Before a command the session has read all there was, unless it is ending.
LEMMA OnTheMenu ==
  ASSUME Basics, InStep => Talk, Clean, screen \in {"login", "menu", "drain"}
  PROVE  Ending \/ (at = "cmd" /\ toServer = <<>> /\ ~hungUp)
<1>1. ~garbled
  BY DEF Basics
<1>2. CASE Over
  BY <1>2 DEF Over, Basics, Ending
<1>3. CASE ~Over
  <2>1. InStep
    BY <1>1, <1>3 DEF InStep, Slipped, Clean
  <2>2. at = "cmd" /\ toServer = <<>>
    BY <2>1 DEF Talk, Idle
  <2> QED BY <2>2 DEF Basics
<1> QED BY <1>2, <1>3

\* A command that starts no message.
LEMMA CommandTravels ==
  ASSUME TypeInv, Basics, InStep => Talk, Clean, UNCHANGED session, typed' = typed,
         screen \in {"login", "menu", "drain"},
         screen' \notin {"message", "line", "attach"} \cup Announcing,
         NEW n \in Nat, Written(n), NEW items \in Seq(Items), Sends(items),
         \A i \in 1..Len(items) : items[i].kind # "SEND"
  PROVE  Written(n)' /\ Travels(n)'
<1>1. Written(n)'
  BY DEF Written
<1>2. at' = at /\ next' = next
  BY DEF session
<1>3. CASE Ending
  BY <1>1, <1>2, <1>3 DEF Ending, Travels
<1>4. CASE at = "cmd" /\ toServer = <<>>
  <2>1. NoSend
    BY <1>4 DEF NoSend
  <2>2. NoSend'
    BY <2>1, NoSendSends
  <2> QED BY <1>1, <1>2, <1>4, <2>2 DEF Elsewhere, Travels, Storing
<1> QED BY <1>3, <1>4, OnTheMenu

\* A message starts: nothing of it is typed, and its header is on the way.
LEMMA ChooseSendTravels ==
  ASSUME TypeInv, Basics, InStep => Talk, Clean, Clean', UNCHANGED session, ChooseSend
  PROVE  Written(0)' /\ Travels(0)'
<1> DEFINE items == <<Item("SEND"), Item("to"), Item("subject")>>
<1>1. Begin("menu", items, "message") /\ typed' = <<>>
  BY DEF ChooseSend, Clean
<1>2. /\ items \in Seq(Items) /\ Len(items) = 3
      /\ items[1] = Item("SEND") /\ items[2] = Item("to") /\ items[3] = Item("subject")
  <2>1. "SEND" \in Kind /\ "to" \in Kind /\ "subject" \in Kind
    BY DEF Kind, Command
  <2> QED BY <2>1, ItemTyped
<1> HIDE DEF items
<1>3. screen = "menu" /\ screen' = "message" /\ Sends(items)
  BY <1>1 DEF Begin, Show
<1>4. Len(typed') = 0
  BY <1>1
<1>5. Written(0)'
  <2>1. ~(0 < Len(typed')) /\ screen' \notin {"attach"} \cup Announcing /\ \A i \in 1..0 : FALSE
    BY <1>3, <1>4 DEF Announcing
  <2> QED BY <1>4, <2>1 DEF Written
<1>6. at' = at /\ next' = next
  BY DEF session
<1>7. CASE Ending
  BY <1>5, <1>6, <1>7 DEF Ending, Travels
<1>8. CASE at = "cmd" /\ toServer = <<>> /\ ~hungUp
  <2>1. toServer' = items
    BY <1>2, <1>3, <1>8, SendsInStep
  <2>2. Heading' = 3 /\ at' = "cmd"
    BY <1>6, <1>8 DEF Heading
  <2>3. \A i \in 1..3 : toServer'[i] = Item(<<"subject", "to", "SEND">>[3 - i + 1])
    <3> TAKE i \in 1..3
    <3>1. CASE i = 1
      BY <1>2, <2>1, <3>1
    <3>2. CASE i = 2
      BY <1>2, <2>1, <3>2
    <3>3. CASE i = 3
      BY <1>2, <2>1, <3>3
    <3> QED BY <3>1, <3>2, <3>3
  <2>4. Cardinality(Texts(toServer')) = 0
    <3>1. \A i \in 1..Len(items) : items[i].kind # "text"
      <4>1. \A i \in 1..3 : i = 1 \/ i = 2 \/ i = 3
        OBVIOUS
      <4>2. items[1].kind = "SEND" /\ items[2].kind = "to" /\ items[3].kind = "subject"
        BY <1>2, ItemKind
      <4> QED BY <1>2, <4>1, <4>2
    <3>2. Cardinality(Texts(items)) = 0
      BY <3>1, TextsNone
    <3> QED BY <2>1, <3>2
  <2>5. Len(toServer') = 3
    BY <1>2, <2>1
  <2>6. ComingLines(0, 3)'
    <3>1. \A i \in (3 + 1)..3 : FALSE
      OBVIOUS
    <3> HIDE DEF Heading
    <3> QED BY <2>2, <2>3, <2>4, <2>5, <3>1 DEF ComingLines
  <2>7. ComingEnd(0, 3)'
    BY <1>4, <2>5 DEF ComingEnd
  <2> QED BY <1>5, <2>5, <2>6, <2>7 DEF Coming, Travels
<1> QED BY <1>3, <1>7, <1>8, OnTheMenu

\* What the client does leaves the message on its way, or starts one.
LEMMA CarriedClient ==
  ASSUME TypeInv, TypeInv', Basics, InStep => Talk, Clean, Clean', ClientStep,
         NEW n \in 0..Len(typed), Written(n), Travels(n)
  PROVE  \E m \in 0..Len(typed') : Written(m)' /\ Travels(m)'
<1>0. /\ UNCHANGED session /\ n \in Nat /\ n <= Len(typed)
      /\ Len(typed) \in Nat /\ Len(typed') \in Nat /\ typed \in Seq(Kind)
  BY DEF ClientStep, TypeInv, ClientOK
<1>1. screen # "gone"
  BY DEF ClientStep, UserStep, Receive, Login, ChooseLogout, ChooseSend, ChooseList, ChooseRead,
     ChooseDelete, Begin, Quit, Kill, TypeLine, TypePiece, TypeRest, TypeDot, Attach,
     SendFile, SkipFile, SendWrongSize, Greeted, LoginReply, SentReply, TotalLine, SubjectLine,
     ReadReply, BodyLine, Drain, AttReply, CountByte, AttachmentPart, DelReply, Show
<1>2. \A s \in Seq(Kind), k \in Kind : Len(s) <= Len(Append(s, k))
  OBVIOUS
<1>3. CASE TypeLine \/ TypePiece \/ TypeRest
  <2>1. PICK k \in {"text", "part"} :
          /\ Sends(<<Item(k)>>) /\ screen \in {"message", "line"} /\ (screen = "line" => k = "text")
          /\ screen' = (IF k = "part" THEN "line" ELSE "message")
          /\ typed' = IF k = "part" THEN typed ELSE Append(typed, "text")
    <3>1. CASE TypeLine
      BY <3>1 DEF TypeLine, Show
    <3>2. CASE TypePiece
      BY <3>2 DEF TypePiece, Show
    <3>3. CASE TypeRest
      BY <3>3 DEF TypeRest, Show
    <3> QED BY <1>3, <3>1, <3>2, <3>3
  <2>2. Item(k) \in Items /\ Item(k).kind = k
    BY ItemTyped, ItemKind DEF Kind
  <2> QED BY <1>0, <2>1, <2>2, LineTravels
<1>4. CASE TypeDot
  <2>1. /\ screen = "message" /\ screen' = "attach" /\ typed # <<>>
        /\ Sends(<<Item(".")>>) /\ typed' = Append(typed, ".")
    BY <1>4 DEF TypeDot, Show, Clean
  <2>2. Written(n)' /\ Travels(n)'
    BY <1>0, <2>1, DotTravels
  <2>3. n <= Len(typed')
    <3>1. "." \in Kind
      BY DEF Kind
    <3>2. Len(typed) <= Len(typed')
      BY <1>0, <1>2, <2>1, <3>1
    <3> QED BY <1>0, <3>2
  <2> QED BY <1>0, <2>2, <2>3
<1>5. CASE Attach
  BY <1>0, <1>5, AttachTravels
<1>6. CASE SendFile \/ SendWrongSize
  <2>1. PICK k \in {"file", "size", "data"}, m \in {0, 1} :
          /\ Sends(<<Numbered(k, m)>>) /\ screen \in Announcing /\ screen' \in Announcing
          /\ typed' = typed /\ (garbled => garbled') /\ (~garbled' => m = 0)
    <3>1. CASE SendFile
      <4>1. /\ screen \in {"file", "size", "data"} /\ screen' \in Announcing
            /\ Sends(<<Item(screen)>>) /\ typed' = typed /\ garbled' = garbled
        BY <3>1 DEF SendFile, Show, Announcing
      <4>2. Item(screen) = Numbered(screen, 0)
        BY DEF Item, Numbered
      <4> QED BY <4>1, <4>2 DEF Announcing
    <3>2. CASE SendWrongSize
      BY <3>2 DEF SendWrongSize, Show, Announcing
    <3> QED BY <1>6, <3>1, <3>2
  <2>2. Numbered(k, m) \in Items /\ Numbered(k, m).kind = k /\ Numbered(k, m).n = m
    BY NumberedTyped DEF Numbered, Kind
  <2>3. Written(n)' /\ Travels(n)'
    BY <1>0, <2>1, <2>2, FileTravels
  <2> QED BY <1>0, <2>1, <2>3
<1>7. CASE ChooseSend
  <2>1. Written(0)' /\ Travels(0)'
    BY <1>0, <1>7, ChooseSendTravels
  <2> QED BY <1>0, <2>1
<1>8. ASSUME NEW items \in Seq(Items), Sends(items), \A i \in 1..Len(items) : items[i].kind # "SEND",
             screen \in {"login", "menu", "drain"}, typed' = typed,
             screen' \notin {"message", "line", "attach"} \cup Announcing
      PROVE  \E m \in 0..Len(typed') : Written(m)' /\ Travels(m)'
  <2>1. Written(n)' /\ Travels(n)'
    BY <1>0, <1>8, CommandTravels
  <2> QED BY <1>8, <2>1
<1>9. ASSUME NEW k \in Kind \ {"SEND"}, NEW l \in Kind \ {"SEND"}
      PROVE  /\ <<Item(k)>> \in Seq(Items)
             /\ \A i \in 1..Len(<<Item(k)>>) : <<Item(k)>>[i].kind # "SEND"
             /\ <<Item(k), Item(l)>> \in Seq(Items)
             /\ \A i \in 1..Len(<<Item(k), Item(l)>>) : <<Item(k), Item(l)>>[i].kind # "SEND"
  <2>1. Item(k) \in Items /\ Item(l) \in Items /\ Item(k).kind # "SEND" /\ Item(l).kind # "SEND"
    BY ItemTyped, ItemKind
  <2> QED BY <2>1
<1>10. CASE Login
  <2> DEFINE items == <<Item("LOGIN"), Item("name"), Item("password")>>
  <2>1. Begin("login", items, "login?") /\ typed' = typed
    BY <1>10 DEF Login, Clean
  <2>2. items \in Seq(Items) /\ \A i \in 1..Len(items) : items[i].kind # "SEND"
    <3>1. "LOGIN" \in Kind /\ "name" \in Kind /\ "password" \in Kind
      BY DEF Kind, Command
    <3>2. /\ Item("LOGIN") \in Items /\ Item("LOGIN").kind # "SEND"
          /\ Item("name") \in Items /\ Item("name").kind # "SEND"
          /\ Item("password") \in Items /\ Item("password").kind # "SEND"
      BY <3>1, ItemTyped, ItemKind
    <3> QED BY <3>2
  <2> HIDE DEF items
  <2> QED BY <1>8, <2>1, <2>2 DEF Begin, Show, Announcing
<1>11. CASE ChooseLogout
  BY <1>11 DEF ChooseLogout, Clean
<1>12. CASE ChooseList
  <2>1. "LIST" \in Kind \ {"SEND"}
    BY DEF Kind, Command
  <2>2. Sends(<<Item("LIST")>>) /\ screen = "menu" /\ screen' = "total?" /\ typed' = typed
    BY <1>12 DEF ChooseList, Begin, Show
  <2> QED BY <1>8, <1>9, <2>1, <2>2 DEF Announcing
<1>13. CASE ChooseRead
  <2>1. "READ" \in Kind \ {"SEND"} /\ "number" \in Kind \ {"SEND"}
    BY DEF Kind, Command
  <2>2. /\ Sends(<<Item("READ"), Item("number")>>) /\ screen = "menu" /\ screen' = "read?"
        /\ typed' = typed
    BY <1>13 DEF ChooseRead, Begin, Show, Clean
  <2> QED BY <1>8, <1>9, <2>1, <2>2 DEF Announcing
<1>14. CASE ChooseDelete
  <2>1. "DEL" \in Kind \ {"SEND"} /\ "number" \in Kind \ {"SEND"}
    BY DEF Kind, Command
  <2>2. /\ Sends(<<Item("DEL"), Item("number")>>) /\ screen = "menu" /\ screen' = "deleted?"
        /\ typed' = typed
    BY <1>14 DEF ChooseDelete, Begin, Show
  <2> QED BY <1>8, <1>9, <2>1, <2>2 DEF Announcing
<1>15. CASE Quit
  <2>1. "quit" \in Kind \ {"SEND"}
    BY DEF Kind, Command
  <2>2. Sends(<<Item("quit")>>) /\ screen = "menu" /\ screen' = "gone" /\ typed' = typed
    BY <1>15 DEF Quit, Show
  <2> QED BY <1>8, <1>9, <2>1, <2>2 DEF Announcing
<1>16. CASE Drain /\ screen' = "att?"
  <2>1. "ATT" \in Kind \ {"SEND"} /\ "number" \in Kind \ {"SEND"}
    BY DEF Kind, Command
  <2>2. /\ Sends(<<Item("ATT"), Item("number")>>) /\ screen = "drain" /\ typed' = typed
    BY <1>16 DEF Drain
  <2> QED BY <1>8, <1>9, <1>16, <2>1, <2>2 DEF Announcing
<1>17. ASSUME UNCHANGED <<toServer, typed>>, garbled => garbled', screen = "line" => screen' = "gone",
              screen' \notin {"message", "line", "attach"}, screen' \in Announcing => screen \in Announcing
       PROVE  \E m \in 0..Len(typed') : Written(m)' /\ Travels(m)'
  <2>1. link # "up" => link' # "up"
    BY <1>1 DEF Basics
  <2>2. Written(n)' /\ Travels(n)'
    BY <1>0, <1>1, <1>17, <2>1, QuietTravels
  <2> QED BY <1>17, <2>2
<1>18. CASE Kill
  BY <1>17, <1>18 DEF Kill, Announcing
<1>19. CASE SkipFile
  <2>1. /\ UNCHANGED <<toServer, typed>> /\ garbled' /\ screen = "size"
        /\ screen' \in {"sent?", "file"}
    BY <1>19 DEF SkipFile, wire, Show
  <2> QED BY <1>17, <2>1 DEF Announcing
<1>20. CASE Receive /\ ~(Drain /\ screen' = "att?")
  <2>1. UNCHANGED <<toServer, typed>>
    BY <1>20 DEF Receive, Greeted, LoginReply, SentReply, TotalLine, SubjectLine, ReadReply,
       BodyLine, Drain, AttReply, CountByte, AttachmentPart, DelReply
  <2>2. garbled => garbled'
    <3>1. CASE SentReply
      BY <3>1 DEF SentReply, Clean
    <3>2. CASE ~SentReply
      BY <1>20, <3>2 DEF Receive, Greeted, LoginReply, TotalLine, SubjectLine, ReadReply,
         BodyLine, Drain, AttReply, CountByte, AttachmentPart, DelReply
    <3> QED BY <3>1, <3>2
  <2>3. screen # "line" /\ screen' \notin {"message", "line", "attach"} \cup Announcing
    BY <1>20 DEF Receive, Greeted, LoginReply, SentReply, TotalLine, SubjectLine, ReadReply,
       BodyLine, Drain, AttReply, CountByte, AttachmentPart, DelReply, Show, Announcing
  <2> QED BY <1>17, <2>1, <2>2, <2>3
<1> QED BY <1>3, <1>4, <1>5, <1>6, <1>7, <1>10, <1>11, <1>12, <1>13, <1>14, <1>15, <1>16, <1>18,
           <1>19, <1>20 DEF ClientStep, UserStep

\* A client that has gone has closed its end.
LEMMA GoneCloses ==
  ASSUME [Next]_vars, screen = "gone" => link # "up", screen' = "gone"
  PROVE  link' # "up"
<1>1. CASE ServerStep
  <2>1. screen' = screen
    BY <1>1 DEF ServerStep, client
  <2>2. CASE WriteNext
    BY <2>1, <2>2 DEF WriteNext, Writes, WriteFails
  <2>3. CASE ~WriteNext
    <3>1. link' = link
      BY <1>1, <2>3
         DEF ServerStep, SessionStep, BrokenPipe, SkipEmpty, SkipLine, ReadQuit, ReadCommand,
             ReadLogin, ReadUser, ReadPassword, Logout, ReadHeader, ReadBody, ReadCount,
             ReadFileName, ReadFileSize, ReadFileData, ReadJunk, List, Read, Att, Del, FileRead, wire
    <3> QED BY <2>1, <3>1
  <2> QED BY <2>2, <2>3
<1>2. CASE ClientStep
  <2>1. link' \in {"closed", "reset"}
    BY <1>2 DEF ClientStep, UserStep, Receive, Login, ChooseLogout, ChooseSend, ChooseList, ChooseRead,
       ChooseDelete, Begin, Quit, Kill, TypeLine, TypePiece, TypeRest, TypeDot, Attach,
       SendFile, SkipFile, SendWrongSize, Greeted, LoginReply, SentReply, TotalLine, SubjectLine,
       ReadReply, BodyLine, Drain, AttReply, CountByte, AttachmentPart, DelReply, Show, Closes
  <2> QED BY <2>1
<1>3. CASE StopServer /\ UNCHANGED client
  BY <1>3 DEF StopServer, client
<1>4. CASE UNCHANGED vars
  BY <1>4 DEF vars, wire, client
<1> QED BY <1>1, <1>2, <1>3, <1>4 DEF Next

\* Whatever client and session do, and wherever one of them stops: unless the user
\* has slipped or the login system has failed, the lines of the message are on
\* their way or kept in the order they were typed, or it will never be saved.
THEOREM CarriedInvariant == Spec => []CarriedInv
<1>1. Init => CarriedInv
  <2> SUFFICES ASSUME Init PROVE CarriedInv
    OBVIOUS
  <2>1. /\ screen = "greeting" /\ at = "write" /\ toServer = <<>> /\ typed = <<>>
    BY DEF Init, WireInit, ClientInit, SessionInit
  <2>2. Len(typed) = 0 /\ Len(toServer) = 0
    BY <2>1
  <2>3. Written(0)
    BY <2>1, <2>2 DEF Written, Announcing
  <2>4. Elsewhere
    BY <2>1, <2>2 DEF Elsewhere, Storing, NoSend
  <2> QED BY <2>1, <2>2, <2>3, <2>4 DEF CarriedInv, Travels
<1>2. TypeInv /\ TypeInv' /\ Basics /\ (InStep => Talk) /\ CarriedInv /\ [Next]_vars => CarriedInv'
  <2> SUFFICES ASSUME TypeInv, TypeInv', Basics, InStep => Talk, CarriedInv, [Next]_vars
               PROVE  CarriedInv'
    OBVIOUS
  <2>1. (screen = "gone" => link # "up")'
    BY GoneCloses DEF CarriedInv
  <2>2. ASSUME Clean' PROVE \E m \in 0..Len(typed') : Written(m)' /\ Travels(m)'
    <3>1. Clean
      BY <2>2, CleanBefore
    <3>2. PICK n \in 0..Len(typed) : Written(n) /\ Travels(n)
      BY <3>1 DEF CarriedInv
    <3>3. n \in Nat /\ n <= Len(typed) /\ Len(typed) \in Nat
      BY DEF TypeInv, ClientOK
    <3>4. CASE ServerStep
      <4>1. typed' = typed
        BY <3>4 DEF ServerStep, client
      <4>2. Written(n)' /\ Travels(n)'
        BY <3>1, <3>2, <3>3, <3>4, TravelsServer
      <4> QED BY <4>1, <4>2
    <3>5. CASE ClientStep
      BY <2>2, <3>1, <3>2, <3>5, CarriedClient
    <3>6. CASE StopServer /\ UNCHANGED client
      <4>1. Ending' /\ typed' = typed /\ screen' = screen
        BY <3>6 DEF StopServer, client, Ending
      <4>2. Written(n)'
        BY <3>2, <4>1 DEF Written
      <4> QED BY <4>1, <4>2 DEF Travels
    <3>7. CASE UNCHANGED vars
      <4>1. UNCHANGED <<toServer, link, at, mail, filesLeft, next, screen, typed, garbled>>
        BY <3>7 DEF vars, wire, session, client
      <4>2. Written(n)'
        BY <3>2, <4>1 DEF Written
      <4>3. Travels(n)' = Travels(n)
        BY <4>1 DEF Travels, Ending, CutOff, Kept, KeptFiles, NoSend, Elsewhere, Coming, ComingLines,
           ComingEnd, Texts, Heading
      <4> QED BY <3>2, <4>1, <4>2, <4>3
    <3> QED BY <3>4, <3>5, <3>6, <3>7 DEF Next
  <2> QED BY <2>1, <2>2 DEF CarriedInv
<1> QED BY <1>1, <1>2, TypeInvariant, TalkInvariant, PTL DEF Spec, TalkInv

\* Sequences of the same length with the same elements.
LEMMA SameSequence ==
  ASSUME NEW s \in Seq(Kind), NEW t \in Seq(Kind), Len(s) = Len(t),
         \A i \in 1..Len(t) : s[i] = t[i]
  PROVE  s = t
OBVIOUS

\* The session saves the message where it knows the number of attachments to be
\* none, or has read the last.
LEMMA SavesWhere ==
  ASSUME TypeInv, Next, did # "saved", did' = "saved"
  PROVE  /\ ServerStep
         /\ \/ /\ at = "count" /\ mail' = mail
               /\ link = "up" => toServer # <<>> /\ toServer[1].n = 0
            \/ /\ at \in {"data", "junk"} /\ filesLeft = 1
               /\ \E c \in {"data", "part"} :
                    /\ mail' = Append(mail, c)
                    /\ at = "data" /\ link = "up" => c = "data"
<1>1. ServerStep
  BY DEF Next, ClientStep, StopServer, session
<1>2. CASE ReadCount
  <2>1. at = "count" /\ mail' = mail
    BY <1>2 DEF ReadCount
  <2>2. ASSUME link = "up" PROVE toServer # <<>> /\ toServer[1].n = 0
    <3>1. PICK m \in 0..(Byte - 1) :
            /\ ReadsItem(Numbered("byte", m))
            /\ IF m = 0 THEN Save ELSE at' = "file" /\ UNCHANGED <<out, next, did>>
      BY <1>2, <2>2 DEF ReadCount, AtEnd, Numbered
    <3>2. m = 0 /\ toServer # <<>> /\ Head(toServer) = Numbered("byte", m)
      BY <3>1 DEF ReadsItem
    <3>3. Head(toServer) = toServer[1]
      BY <3>2 DEF TypeInv, WireOK
    <3> QED BY <3>2, <3>3 DEF Numbered
  <2> QED BY <1>1, <2>1, <2>2
<1>3. CASE ReadFileData \/ ReadJunk
  <2>1. \E c \in {"data", "part"} :
          /\ FileRead(c) /\ at \in {"data", "junk"}
          /\ at = "data" /\ link = "up" => c = "data"
    BY <1>3 DEF ReadFileData, ReadJunk, AtEnd, session
  <2> QED BY <1>1, <2>1 DEF FileRead
<1>4. CASE ~ReadCount /\ ~ReadFileData /\ ~ReadJunk
  <2>1. did' \in {did, "nothing", "deleted"}
    BY <1>1, <1>4
       DEF ServerStep, SessionStep, WriteNext, BrokenPipe, SkipEmpty, SkipLine, ReadQuit, ReadCommand,
           ReadLogin, ReadUser, ReadPassword, Logout, ReadHeader, ReadBody, ReadFileName,
           ReadFileSize, List, Read, Att, Del
  <2> QED BY <2>1
<1> QED BY <1>2, <1>3, <1>4

LEMMA SavedStep ==
  ASSUME TypeInv, Basics, InStep => Talk, CarriedInv, Next, did # "saved", did' = "saved", Clean
  PROVE  /\ SameLines(mail', typed)
         /\ ~garbled /\ link = "up" => mail' = typed
<1>1. at \in {"count", "data", "junk"}
  BY SavesWhere
<1>2. PICK n \in 0..Len(typed) : Written(n) /\ Travels(n)
  BY DEF CarriedInv
<1>3. Kept(n)
  BY <1>1, <1>2 DEF Travels, Ending, CutOff, Elsewhere, Coming, ComingLines, Storing
<1>4. /\ n \in Nat /\ typed \in Seq(Kind) /\ mail \in Seq(Kind)
      /\ Len(typed) \in Nat /\ Len(mail) \in Nat /\ n < Len(typed) /\ n < Len(mail)
      /\ \A i \in 1..(n + 1) : mail[i] = typed[i]
      /\ \A i \in (n + 2)..Len(mail) : mail[i] \in {"data", "part"}
      /\ \A i \in (n + 2)..Len(typed) : typed[i] = "data"
  BY <1>2, <1>3 DEF TypeInv, ClientOK, SessionOK, Kept, Written
<1>5. ASSUME ~garbled, link = "up"
      PROVE  KeptFiles(n) /\ at # "junk"
  <2>1. screen # "gone"
    BY <1>5 DEF CarriedInv
  <2>2. at \in Storing
    BY <1>1 DEF Storing
  <2> QED BY <1>3, <1>5, <2>1, <2>2, StoringInStep DEF Kept
<1>6. ASSUME NEW m, Len(m) \in Nat, n < Len(m),
             \A i \in 1..(n + 1) : m[i] = typed[i],
             \A i \in (n + 2)..Len(m) : m[i] \in {"data", "part"}
      PROVE  SameLines(m, typed)
  <2>1. /\ n + 1 \in 0..Len(m) /\ n + 1 <= Len(typed) /\ (n + 1) + 1 = n + 2
    BY <1>4, <1>6
  <2>2. \A i \in ((n + 1) + 1)..Len(m) : m[i] \in {"data", "part"}
    BY <1>6, <2>1
  <2>3. \A i \in ((n + 1) + 1)..Len(typed) : typed[i] \in {"data", "part"}
    BY <1>4, <2>1
  <2> QED BY <1>6, <2>1, <2>2, <2>3 DEF SameLines
<1>7. CASE at = "count" /\ mail' = mail /\ (link = "up" => toServer # <<>> /\ toServer[1].n = 0)
  <2>1. SameLines(mail', typed)
    BY <1>4, <1>6, <1>7
  <2>2. ASSUME ~garbled, link = "up" PROVE mail' = typed
    <3>1. 0 = Len(typed) - (n + 1) /\ Len(mail) = n + 1
      BY <1>3, <1>5, <1>7, <2>2 DEF KeptFiles, Kept
    <3>2. Len(mail) = Len(typed) /\ Len(typed) = n + 1
      BY <1>4, <3>1
    <3>3. mail = typed
      BY <1>4, <3>2, SameSequence
    <3> QED BY <1>7, <3>3
  <2> QED BY <2>1, <2>2
<1>8. CASE /\ at \in {"data", "junk"} /\ filesLeft = 1
           /\ \E c \in {"data", "part"} :
                /\ mail' = Append(mail, c)
                /\ at = "data" /\ link = "up" => c = "data"
  <2>1. PICK c \in {"data", "part"} : /\ mail' = Append(mail, c)
                                      /\ at = "data" /\ link = "up" => c = "data"
    BY <1>8
  <2>2. /\ mail' \in Seq(Kind) /\ Len(mail') = Len(mail) + 1 /\ mail'[Len(mail) + 1] = c
        /\ \A i \in 1..Len(mail) : mail'[i] = mail[i]
    <3>1. \A s \in Seq(Kind), k \in Kind :
            /\ Append(s, k) \in Seq(Kind) /\ Len(Append(s, k)) = Len(s) + 1
            /\ Append(s, k)[Len(s) + 1] = k
            /\ \A i \in 1..Len(s) : Append(s, k)[i] = s[i]
      OBVIOUS
    <3>2. c \in Kind
      BY DEF Kind
    <3> QED BY <1>4, <2>1, <3>1, <3>2
  <2>3. \A i \in 1..(n + 1) : mail'[i] = typed[i]
    <3>1. \A i \in 1..(n + 1) : i \in 1..Len(mail)
      BY <1>4
    <3> QED BY <1>4, <2>2, <3>1
  <2>4. \A i \in (n + 2)..Len(mail') : \/ i = Len(mail) + 1 /\ mail'[i] = c
                                       \/ i \in (n + 2)..Len(mail) /\ mail'[i] = mail[i]
    <3> TAKE i \in (n + 2)..Len(mail')
    <3>0. \A m \in Nat : \A j \in (n + 2)..(m + 1) :
            j = m + 1 \/ (j \in (n + 2)..m /\ j \in 1..m)
      BY <1>4
    <3>1. i = Len(mail) + 1 \/ (i \in (n + 2)..Len(mail) /\ i \in 1..Len(mail))
      BY <1>4, <2>2, <3>0
    <3> QED BY <2>2, <3>1
  <2>5. SameLines(mail', typed)
    <3>1. \A i \in (n + 2)..Len(mail') : mail'[i] \in {"data", "part"}
      BY <1>4, <2>4
    <3>2. Len(mail') \in Nat /\ n < Len(mail')
      BY <1>4, <2>2
    <3> QED BY <1>6, <2>3, <3>1, <3>2
  <2>6. ASSUME ~garbled, link = "up" PROVE mail' = typed
    <3>1. c = "data"
      BY <1>5, <1>8, <2>1, <2>6
    <3>2. Len(mail) + 1 = Len(typed) /\ \A i \in (n + 2)..Len(mail) : mail[i] = "data"
      BY <1>5, <1>8, <2>6 DEF KeptFiles
    <3>3. Len(mail') = Len(typed)
      BY <2>2, <3>2
    <3>4. ASSUME NEW i \in 1..Len(typed) PROVE mail'[i] = typed[i]
      <4>1. i \in 1..(n + 1) \/ i \in (n + 2)..Len(typed)
        BY <1>4
      <4>2. CASE i \in (n + 2)..Len(typed)
        <5>1. mail'[i] = "data"
          BY <2>4, <3>1, <3>2, <3>3, <4>2
        <5> QED BY <1>4, <4>2, <5>1
      <4> QED BY <2>3, <4>1, <4>2
    <3> QED BY <1>4, <2>2, <3>3, <3>4, SameSequence
  <2> QED BY <2>5, <2>6
<1> QED BY <1>7, <1>8, SavesWhere

\* What is saved has the lines that were typed, for any message and wherever the
\* connection breaks; and all that was typed, with the files whole, if the client
\* is there and has sent what it announced.
THEOREM SavedAsTypedHolds == Spec => SavedAsTyped
<1>1. TypeInv /\ Basics /\ (InStep => Talk) /\ CarriedInv /\ [Next]_vars
        => [did # "saved" /\ did' = "saved" /\ ~slip /\ ~outage
              => /\ SameLines(mail', typed)
                 /\ ~garbled /\ link = "up" => mail' = typed]_vars
  BY SavedStep DEF Clean
<1> QED BY <1>1, TypeInvariant, TalkInvariant, CarriedInvariant, PTL DEF Spec, TalkInv, SavedAsTyped

=============================================================================
