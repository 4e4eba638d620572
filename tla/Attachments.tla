----------------------------- MODULE Attachments -----------------------------
(***************************************************************************)
(* What becomes of the files that a user attaches to a mail.  They are      *)
(* chosen by path, sent last to first under their base names, stored in one *)
(* directory, listed in any order, and saved by the receiver in a directory *)
(* that may hold files from earlier mails.  Each file crosses the           *)
(* connection in one step, as Transfer shows it may.                        *)
(***************************************************************************)
EXTENDS Naturals, Sequences

CONSTANTS
  Path, Name,
  basename,  \* the last component of every path
  NoFile,    \* no file of a name
  Earlier,   \* a file from an earlier mail
  MaxChosen  \* bound: files the user chooses (at most 255 are sent)

ASSUME AttachmentsAssumption ==
  /\ basename \in [Path -> Name]
  /\ NoFile \notin Path /\ Earlier \notin Path /\ NoFile # Earlier
  /\ MaxChosen \in Nat

VARIABLES
  phase,
  stk,    \* paths the client has still to send
  mail,   \* email::attachments: what the server has got, or has parsed
  todo,   \* attachments still to be written
  names,  \* files of the folder that are still to be parsed
  folder, \* the attachments directory of the mail
  local,  \* the receiver's directory "attachments"
  chosen  \* history: all the paths, in the order of choice

vars == <<phase, stk, mail, todo, names, folder, local, chosen>>

\* The contents of a file are known by the path it came from.
Attachment == [name : Name, data : Path]

Phase == {"choose", "send", "save", "parse", "att", "saved"}

TypeOK ==
  /\ phase \in Phase
  /\ stk \in Seq(Path) /\ chosen \in Seq(Path) /\ Len(chosen) <= MaxChosen
  /\ mail \in Seq(Attachment) /\ todo \in Seq(Attachment) /\ names \subseteq Name
  /\ folder \in [Name -> Path \cup {NoFile}]
  /\ local \in [Name -> Path \cup {NoFile, Earlier}]

Init ==
  /\ phase = "choose" /\ stk = <<>> /\ chosen = <<>>
  /\ mail = <<>> /\ todo = <<>> /\ names = {}
  /\ folder = [n \in Name |-> NoFile]
  /\ local \in [Name -> {NoFile, Earlier}]

Goto(here, there) == phase = here /\ phase' = there

-----------------------------------------------------------------------------
(* The client of the sender.                                                 *)

\* Two paths may have the same base name, and a path may be chosen twice.
Choose(p) ==
  /\ Goto("choose", "choose") /\ Len(chosen) < MaxChosen
  /\ stk' = Append(stk, p) /\ chosen' = Append(chosen, p)
  /\ UNCHANGED <<mail, todo, names, folder, local>>

EndChoice ==
  Goto("choose", "send") /\ UNCHANGED <<stk, mail, todo, names, folder, local, chosen>>

\* Mutant of SendFile: from the bottom of the stack.
SendFirst ==
  /\ Goto("send", "send") /\ stk # <<>>
  /\ stk' = Tail(stk)
  /\ mail' = Append(mail, [name |-> basename[stk[1]], data |-> stk[1]])
  /\ UNCHANGED <<todo, names, folder, local, chosen>>

\* c_sendattachment pops a path, send() pushes back an attachment.
SendFile ==
  LET top == stk[Len(stk)]
  IN  /\ Goto("send", "send") /\ stk # <<>>
      /\ stk' = SubSeq(stk, 1, Len(stk) - 1)
      /\ mail' = Append(mail, [name |-> basename[top], data |-> top])
      /\ UNCHANGED <<todo, names, folder, local, chosen>>

-----------------------------------------------------------------------------
(* The server.                                                               *)

StartSave ==
  /\ Goto("send", "save") /\ stk = <<>> /\ todo' = mail
  /\ UNCHANGED <<stk, mail, names, folder, local, chosen>>

\* save_mail: a file that is opened for writing loses what it held.
SaveAttachment ==
  /\ Goto("save", "save") /\ todo # <<>>
  /\ folder' = [folder EXCEPT ![Head(todo).name] = Head(todo).data]
  /\ todo' = Tail(todo)
  /\ UNCHANGED <<stk, mail, names, local, chosen>>

\* Later the receiver asks for the attachments, with READ or ATT.
StartParse ==
  /\ Goto("save", "parse") /\ todo = <<>> /\ mail' = <<>>
  /\ names' = {n \in Name : folder[n] # NoFile}
  /\ UNCHANGED <<stk, todo, folder, local, chosen>>

\* parse_mail_dir, in the order of readdir.
Parse ==
  /\ Goto("parse", "parse")
  /\ \E n \in names :
       /\ mail' = Append(mail, [name |-> n, data |-> folder[n]])
       /\ names' = names \ {n}
  /\ UNCHANGED <<stk, todo, folder, local, chosen>>

\* att: all that has been parsed is sent.
StartAtt ==
  /\ Goto("parse", "att") /\ names = {} /\ todo' = mail
  /\ UNCHANGED <<stk, mail, names, folder, local, chosen>>

-----------------------------------------------------------------------------
(* The client of the receiver.                                               *)

\* Mutant of SaveLocal: a file that exists already is kept.
SaveUnlessThere ==
  /\ Goto("att", "att") /\ todo # <<>>
  /\ local' = [local EXCEPT ![Head(todo).name] = IF @ = NoFile THEN Head(todo).data ELSE @]
  /\ todo' = Tail(todo)
  /\ UNCHANGED <<stk, mail, names, folder, chosen>>

\* c_saveattachments: fopen(..., "wb").
SaveLocal ==
  /\ Goto("att", "att") /\ todo # <<>>
  /\ local' = [local EXCEPT ![Head(todo).name] = Head(todo).data]
  /\ todo' = Tail(todo)
  /\ UNCHANGED <<stk, mail, names, folder, chosen>>

EndAtt ==
  /\ Goto("att", "saved") /\ todo = <<>>
  /\ UNCHANGED <<stk, mail, todo, names, folder, local, chosen>>

-----------------------------------------------------------------------------

Next ==
  \/ (\E p \in Path : Choose(p)) \/ EndChoice \/ SendFile
  \/ StartSave \/ SaveAttachment \/ StartParse \/ Parse \/ StartAtt
  \/ SaveLocal \/ EndAtt

Spec == Init /\ [][Next]_vars

-----------------------------------------------------------------------------
(* Properties.                                                               *)

Named(n) == {i \in DOMAIN chosen : basename[chosen[i]] = n}

\* Of the files of one base name, the receiver gets the one that was chosen first,
\* in place of any from an earlier mail; files of other names are left alone.
FirstChosenSaved ==
  phase = "saved" =>
    \A n \in Name :
      IF Named(n) = {} THEN local[n] \in {NoFile, Earlier}
      ELSE \E i \in Named(n) : local[n] = chosen[i] /\ \A j \in Named(n) : i <= j

=============================================================================
