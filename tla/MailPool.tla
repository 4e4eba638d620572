------------------------------ MODULE MailPool ------------------------------
(***************************************************************************)
(* mailpoolservice on the files of one user: sessions of senders save       *)
(* mails into the user's directory while sessions of the user list, read    *)
(* and delete them.  Every operation is a sequence of system calls, and the *)
(* calls of all sessions interleave.  The lock of a mail is a FileLock in   *)
(* its directory; only parse_mail_dir and delete_mail take it.              *)
(*                                                                          *)
(* readdir promises no order, so a listing is a set here, which is gone     *)
(* through in any order, and a message number stands for any of its         *)
(* elements.  The name of a mail is unique (next_uuid), and its receiver is *)
(* a user other than the archive.  The attachments of a mail have distinct  *)
(* names; Attachments says what happens otherwise.                          *)
(***************************************************************************)
EXTENDS Naturals, FiniteSets

CONSTANTS
  Mail,          \* names of mail directories
  Sender, Owner, \* smtpservice threads; a thread may be both
  Inode, NoInode, NoMail,
  Attachments,   \* attachments of a mail
  MaxCrashes     \* bound: how often the server process ends

Thread == Sender \cup Owner

ASSUME MailPoolAssumption ==
  /\ NoMail \notin Mail /\ NoInode \notin Inode
  /\ Attachments \in Nat /\ MaxCrashes \in Nat

VARIABLES
  \* the files
  dir,         \* a mail's directory is "absent", "there" or "moved" to the archive
  attDir,      \* its attachments directory exists
  created,     \* its mail.crn exists
  lines,       \* file_append_texts that have reached mail.crn
  files,       \* attachment files
  bound,       \* its lock file in the inbox
  archived,    \* the mails with a lock file in the archive
  \* the threads
  op, pc,      \* the operation and where it is
  cur,         \* the mail at hand
  left,        \* save_mail: writes still to do
  todo,        \* load_user_mails: directories still to parse
  whole,       \* mails parsed in full
  text,        \* the lines parse_mail_dir has read
  ok,          \* nothing has thrown, or returned false
  path, fd, phase, \* filelock
  \* history, read by properties only
  acked,       \* mails whose SEND was answered OK
  deleted,     \* how many DELs of a mail were answered OK
  due,         \* mails that were acknowledged when the operation began
  crashes

locks   == <<bound, archived, path, fd, phase>>
disk    == <<dir, attDir, created, lines, files>>
parsed  == <<whole, text>>
history == <<acked, deleted, due, crashes>>
vars == <<disk, locks, op, pc, cur, left, todo, parsed, ok, history>>

Lock == INSTANCE FileLock WITH
  Server <- {Thread}, File <- Mail, MailFile <- Mail, NoFile <- NoMail

\* save_mail appends sender, receiver, subject and message.
TextLines == 4

Location == {"idle", "mkdir", "mkatt", "create", "append", "attach", "exists", "open", "flock",
             "text", "list", "read", "rename", "remove", "close", "reply"}

TypeOK ==
  /\ dir \in [Mail -> {"absent", "there", "moved"}]
  /\ attDir \in [Mail -> BOOLEAN] /\ created \in [Mail -> BOOLEAN]
  /\ lines \in [Mail -> 0..TextLines] /\ files \in [Mail -> 0..Attachments]
  /\ bound \in [Mail -> Inode \cup {NoInode}] /\ archived \subseteq Mail
  /\ op \in [Thread -> {"none", "save", "load", "delete"}]
  /\ pc \in [Thread -> Location]
  /\ cur \in [Thread -> Mail \cup {NoMail}]
  /\ path \in [Thread -> Mail \cup {NoMail}]
  /\ fd \in [Thread -> Inode \cup {NoInode}]
  /\ phase \in [Thread -> Lock!Phase]
  /\ \A v \in {todo, whole, due} : v \in [Thread -> SUBSET Mail]
  /\ left \in [Thread -> Nat]
  /\ text \in [Thread -> 0..TextLines] /\ ok \in [Thread -> BOOLEAN]
  /\ acked \subseteq Mail /\ deleted \in [Mail -> Nat] /\ crashes \in 0..MaxCrashes

Init ==
  /\ dir = [m \in Mail |-> "absent"] /\ attDir = [m \in Mail |-> FALSE]
  /\ created = [m \in Mail |-> FALSE]
  /\ lines = [m \in Mail |-> 0] /\ files = [m \in Mail |-> 0]
  /\ Lock!LockInit
  /\ op = [t \in Thread |-> "none"] /\ pc = [t \in Thread |-> "idle"]
  /\ cur = [t \in Thread |-> NoMail]
  /\ left = [t \in Thread |-> 0] /\ todo = [t \in Thread |-> {}]
  /\ whole = [t \in Thread |-> {}]
  /\ text = [t \in Thread |-> 0] /\ ok = [t \in Thread |-> TRUE]
  /\ acked = {} /\ deleted = [m \in Mail |-> 0] /\ crashes = 0
  /\ due = [t \in Thread |-> {}]

-----------------------------------------------------------------------------

Inbox == {m \in Mail : dir[m] = "there"}

Complete(m) == lines[m] = TextLines /\ files[m] = Attachments

Goto(t, here, there) == pc[t] = here /\ pc' = [pc EXCEPT ![t] = there]

\* The first file_append_text has created mail.crn and not written to it yet.
Creating(t) == pc[t] = "append" /\ left[t] = TextLines

\* It has the mutex of fs by then, which those that write and move_dir share.
FsFree(t) == \A u \in Thread \ {t} : ~Creating(u)

-----------------------------------------------------------------------------
(* save_mail.  Once the directory has been moved to the archive every write  *)
(* fails, and nobody notices.                                                *)

StartSave(t, m) ==
  /\ t \in Sender /\ dir[m] = "absent" /\ \A u \in Thread : cur[u] # m
  /\ Goto(t, "idle", "mkdir")
  /\ op' = [op EXCEPT ![t] = "save"] /\ cur' = [cur EXCEPT ![t] = m]
  /\ UNCHANGED <<disk, locks, left, todo, parsed, ok, history>>

MakeDir(t) ==
  /\ Goto(t, "mkdir", "mkatt")
  /\ dir' = [dir EXCEPT ![cur[t]] = "there"]
  /\ UNCHANGED <<attDir, created, lines, files, locks, op, cur, left, todo, parsed, ok, history>>

\* Mutant of MakeAttachmentDir: the directory is never made.
MakeAttachmentDirNever(t) ==
  /\ Goto(t, "mkatt", "create")
  /\ left' = [left EXCEPT ![t] = TextLines]
  /\ UNCHANGED <<disk, locks, op, cur, todo, parsed, ok, history>>

MakeAttachmentDir(t) ==
  /\ Goto(t, "mkatt", "create")
  /\ attDir' = [attDir EXCEPT ![cur[t]] = cur[t] \in Inbox]
  /\ left' = [left EXCEPT ![t] = TextLines]
  /\ UNCHANGED <<dir, created, lines, files, locks, op, cur, todo, parsed, ok, history>>

\* open of the first file_append_text: from here on exists finds the file, empty
\* though it is.
CreateText(t) ==
  /\ Goto(t, "create", "append") /\ FsFree(t)
  /\ created' = [created EXCEPT ![cur[t]] = cur[t] \in Inbox]
  /\ UNCHANGED <<dir, attDir, lines, files, locks, op, cur, left, todo, parsed, ok, history>>

\* What file_append_text and file_write_bytes have written and closed.  They say
\* true whether or not the file could be opened.
Written(count, m) == [count EXCEPT ![m] = IF m \in Inbox THEN @ + 1 ELSE @]

\* Mutant of Append: a line is written twice.
AppendTwice(t) ==
  /\ pc[t] = "append" /\ FsFree(t)
  /\ lines' = [lines EXCEPT ![cur[t]] = IF cur[t] \in Inbox THEN @ + 2 ELSE @]
  /\ IF left[t] > 1
     THEN left' = [left EXCEPT ![t] = @ - 1] /\ UNCHANGED pc
     ELSE /\ left' = [left EXCEPT ![t] = Attachments]
          /\ pc' = [pc EXCEPT ![t] = "attach"]
  /\ UNCHANGED <<dir, attDir, created, files, locks, op, cur, todo, parsed, ok, history>>

Append(t) ==
  /\ pc[t] = "append" /\ FsFree(t)
  /\ lines' = Written(lines, cur[t])
  /\ IF left[t] > 1
     THEN left' = [left EXCEPT ![t] = @ - 1] /\ UNCHANGED pc
     ELSE /\ left' = [left EXCEPT ![t] = Attachments]
          /\ pc' = [pc EXCEPT ![t] = "attach"]
  /\ UNCHANGED <<dir, attDir, created, files, locks, op, cur, todo, parsed, ok, history>>

\* An attachment that a listing finds before it is written is no more than part of
\* the mail, as if it were not found.
Attach(t) ==
  /\ pc[t] = "attach" /\ left[t] > 0 /\ FsFree(t)
  /\ files' = Written(files, cur[t])
  /\ left' = [left EXCEPT ![t] = @ - 1]
  /\ UNCHANGED <<dir, attDir, created, lines, locks, op, pc, cur, todo, parsed, ok, history>>

\* Mutant of Saved: the attachments are not waited for.
SavedEarly(t) ==
  /\ Goto(t, "attach", "reply")
  /\ left' = [left EXCEPT ![t] = 0]
  /\ UNCHANGED <<disk, locks, op, cur, todo, parsed, ok, history>>

\* The end of the loop over the attachments.
Saved(t) ==
  /\ left[t] = 0 /\ Goto(t, "attach", "reply")
  /\ UNCHANGED <<disk, locks, op, cur, left, todo, parsed, ok, history>>

SaveStep(t) ==
  \/ \E m \in Mail : StartSave(t, m)
  \/ MakeDir(t) \/ MakeAttachmentDir(t) \/ CreateText(t) \/ Append(t) \/ Attach(t) \/ Saved(t)

-----------------------------------------------------------------------------
(* load_user_mails, called by LIST and, through load_mail, by READ and ATT.  *)

\* Mutant of StartLoad: an entry of the directory is skipped.
StartLoadSkipping(t) ==
  /\ t \in Owner
  /\ op' = [op EXCEPT ![t] = "load"]
  /\ due' = [due EXCEPT ![t] = acked \cap Inbox]
  /\ \/ Inbox = {} /\ Goto(t, "idle", "reply") /\ UNCHANGED <<cur, todo>>
     \/ \E m, skipped \in Inbox :
          /\ m # skipped /\ cur' = [cur EXCEPT ![t] = m] /\ Goto(t, "idle", "exists")
          /\ todo' = [todo EXCEPT ![t] = Inbox \ {skipped}]
  /\ UNCHANGED <<disk, locks, left, parsed, ok, acked, deleted, crashes>>

\* list_files, and the first turn of the loop over its result.  Which of the
\* mails READ will pick makes no difference here.
StartLoad(t) ==
  /\ t \in Owner
  /\ op' = [op EXCEPT ![t] = "load"]
  /\ todo' = [todo EXCEPT ![t] = Inbox]
  /\ due' = [due EXCEPT ![t] = acked \cap Inbox]
  /\ \/ Inbox = {} /\ Goto(t, "idle", "reply") /\ UNCHANGED cur
     \/ \E m \in Inbox : cur' = [cur EXCEPT ![t] = m] /\ Goto(t, "idle", "exists")
  /\ UNCHANGED <<disk, locks, left, parsed, ok, acked, deleted, crashes>>

\* An exception leaves load_user_mails, after the filelock has been released
\* if there is one.
Throw(t, here, there) == Goto(t, here, there) /\ ok' = [ok EXCEPT ![t] = FALSE]

\* Mutant of CheckExists: the test is negated.
CheckExistsNegated(t) ==
  /\ IF cur[t] \in Inbox /\ ~created[cur[t]]
     THEN Goto(t, "exists", "open") /\ UNCHANGED ok
     ELSE Throw(t, "exists", "reply")
  /\ UNCHANGED <<disk, locks, op, cur, left, todo, parsed, history>>

\* parse_mail_dir: without mail.crn there is nothing to parse.
CheckExists(t) ==
  /\ IF cur[t] \in Inbox /\ created[cur[t]]
     THEN Goto(t, "exists", "open") /\ UNCHANGED ok
     ELSE Throw(t, "exists", "reply")
  /\ UNCHANGED <<disk, locks, op, cur, left, todo, parsed, history>>

ReadText(t) ==
  /\ Goto(t, "text", "list")
  /\ text' = [text EXCEPT ![t] = IF cur[t] \in Inbox THEN lines[cur[t]] ELSE 0]
  /\ UNCHANGED <<disk, locks, op, cur, left, todo, whole, ok, history>>

ListAttachments(t) ==
  LET m == cur[t]
      all == text[t] = TextLines /\ files[m] = Attachments
  IN  /\ IF m \in Inbox /\ attDir[m]
         THEN /\ Goto(t, "list", IF files[m] = 0 THEN "remove" ELSE "read")
              /\ whole' = [whole EXCEPT ![t] = IF all THEN @ \cup {m} ELSE @]
              /\ UNCHANGED ok
         ELSE Throw(t, "list", "remove") /\ UNCHANGED whole
      /\ text' = [text EXCEPT ![t] = 0]
      /\ UNCHANGED <<disk, locks, op, cur, left, todo, history>>

ReadAttachments(t) ==
  /\ IF cur[t] \in Inbox
     THEN Goto(t, "read", "remove") /\ UNCHANGED ok
     ELSE Throw(t, "read", "remove")
  /\ UNCHANGED <<disk, locks, op, cur, left, todo, parsed, history>>

LoadStep(t) ==
  StartLoad(t) \/ CheckExists(t) \/ ReadText(t) \/ ListAttachments(t) \/ ReadAttachments(t)

-----------------------------------------------------------------------------
(* delete_mail.                                                              *)

\* The number names a mail of the listing, or is out of range.
StartDelete(t) ==
  /\ t \in Owner
  /\ op' = [op EXCEPT ![t] = "delete"]
  /\ \/ \E m \in Inbox :
          Goto(t, "idle", "open") /\ cur' = [cur EXCEPT ![t] = m] /\ UNCHANGED ok
     \/ Throw(t, "idle", "reply") /\ UNCHANGED cur
  /\ UNCHANGED <<disk, locks, left, todo, parsed, history>>

\* The directory, with the lock file that lies in it, gets its name in the archive.
MoveDir(t) ==
  /\ cur[t] \in Inbox
  /\ dir' = [dir EXCEPT ![cur[t]] = "moved"]
  /\ archived' = archived \cup {m \in {cur[t]} : bound[m] # NoInode}
  /\ bound' = [bound EXCEPT ![cur[t]] = NoInode]

\* Mutant of Rename: its result is ignored.
RenameUnchecked(t) ==
  /\ Goto(t, "rename", "remove") /\ FsFree(t)
  /\ MoveDir(t) \/ (cur[t] \notin Inbox /\ UNCHANGED <<dir, bound, archived>>)
  /\ UNCHANGED <<attDir, created, lines, files, path, fd, phase, op, cur, left, todo, parsed, ok,
                 history>>

\* rename under the mutex of fs: it fails if another session was faster.
Rename(t) ==
  /\ Goto(t, "rename", "remove") /\ FsFree(t)
  /\ \/ MoveDir(t) /\ UNCHANGED ok
     \/ /\ cur[t] \notin Inbox
        /\ ok' = [ok EXCEPT ![t] = FALSE] /\ UNCHANGED <<dir, bound, archived>>
  /\ UNCHANGED <<attDir, created, lines, files, path, fd, phase, op, cur, left, todo, parsed,
                 history>>

DeleteStep(t) == StartDelete(t) \/ Rename(t)

-----------------------------------------------------------------------------
(* The filelock, in both of them.                                            *)

OpenLock(t) ==
  /\ \/ Goto(t, "open", "flock") /\ Lock!Open(t, cur[t]) /\ UNCHANGED ok
     \/ Throw(t, "open", "reply") /\ cur[t] \notin Inbox /\ UNCHANGED locks
  /\ UNCHANGED <<disk, op, cur, left, todo, parsed, history>>

\* Mutant of ObtainLock: the result of flock is ignored.
ObtainLockAnyway(t) ==
  /\ phase' = [phase EXCEPT ![t] = "locked"]
  /\ Goto(t, "flock", IF op[t] = "delete" THEN "rename" ELSE "text")
  /\ UNCHANGED <<disk, bound, archived, path, fd, op, cur, left, todo, parsed, ok, history>>

ObtainLock(t) ==
  /\ Lock!Flock(t)
  /\ Goto(t, "flock", IF op[t] = "delete" THEN "rename" ELSE "text")
  /\ UNCHANGED <<disk, op, cur, left, todo, parsed, ok, history>>

RemoveLock(t) ==
  /\ Lock!Remove(t) /\ Goto(t, "remove", "close")
  /\ UNCHANGED <<disk, op, cur, left, todo, parsed, ok, history>>

\* Directories load_user_mails has still to parse when it is done with cur[t].
Rest(t) == IF op[t] = "load" /\ ok[t] THEN todo[t] \ {cur[t]} ELSE {}

NextTurn(t) ==
  /\ todo' = [todo EXCEPT ![t] = Rest(t)]
  /\ \/ Rest(t) = {} /\ Goto(t, "close", "reply") /\ UNCHANGED cur
     \/ \E m \in Rest(t) : Goto(t, "close", "exists") /\ cur' = [cur EXCEPT ![t] = m]

\* Mutant of CloseLock: the file is not closed.
CloseLockNever(t) ==
  /\ NextTurn(t)
  /\ UNCHANGED <<disk, locks, op, left, parsed, ok, history>>

\* The filelock is gone: the loop of load_user_mails goes on, unless there was
\* an exception.
CloseLock(t) ==
  /\ Lock!Close(t) /\ NextTurn(t)
  /\ UNCHANGED <<disk, op, left, parsed, ok, history>>

LockStep(t) == OpenLock(t) \/ ObtainLock(t) \/ RemoveLock(t) \/ CloseLock(t)

-----------------------------------------------------------------------------

\* The answer is sent and the session is ready for the next command.
Answer(t) ==
  /\ Goto(t, "reply", "idle")
  /\ op' = [op EXCEPT ![t] = "none"]
  /\ cur' = [cur EXCEPT ![t] = NoMail] /\ ok' = [ok EXCEPT ![t] = TRUE]
  /\ todo' = [todo EXCEPT ![t] = {}]
  /\ whole' = [whole EXCEPT ![t] = {}]
  /\ due' = [due EXCEPT ![t] = {}]
  /\ UNCHANGED <<disk, locks, left, text, crashes>>

\* send answers OK unless save_mail has thrown, which it does not.
AnswerSave(t) ==
  /\ op[t] = "save" /\ Answer(t)
  /\ acked' = acked \cup {cur[t]} /\ UNCHANGED deleted

AnswerLoad(t) == op[t] = "load" /\ Answer(t) /\ UNCHANGED <<acked, deleted>>

\* del answers OK if delete_mail has returned true.
AnswerDelete(t) ==
  /\ op[t] = "delete" /\ Answer(t)
  /\ deleted' = IF ok[t] THEN [deleted EXCEPT ![cur[t]] = @ + 1] ELSE deleted
  /\ UNCHANGED acked

Reply(t) == AnswerSave(t) \/ AnswerLoad(t) \/ AnswerDelete(t)

\* The server process ends: what is on the disk stays as it is.
Crash ==
  /\ crashes < MaxCrashes /\ crashes' = crashes + 1
  /\ Lock!Abandon(Thread)
  /\ op' = [t \in Thread |-> "none"] /\ pc' = [t \in Thread |-> "idle"]
  /\ cur' = [t \in Thread |-> NoMail] /\ todo' = [t \in Thread |-> {}]
  /\ left' = [t \in Thread |-> 0] /\ text' = [t \in Thread |-> 0]
  /\ ok' = [t \in Thread |-> TRUE]
  /\ whole' = [t \in Thread |-> {}]
  /\ due' = [t \in Thread |-> {}]
  /\ UNCHANGED <<disk, acked, deleted>>

Step(t) == SaveStep(t) \/ LoadStep(t) \/ DeleteStep(t) \/ LockStep(t) \/ Reply(t)

Next == (\E t \in Thread : Step(t)) \/ Crash

Spec == Init /\ [][Next]_vars

\* A thread in an operation is scheduled; nobody has to start another one.
FairSpec == Spec /\ \A t \in Thread : WF_vars(pc[t] # "idle" /\ Step(t))

-----------------------------------------------------------------------------
(* Properties.                                                               *)

\* An acknowledged mail that nobody has deleted is complete on the disk,
\* whatever the other sessions did meanwhile and whenever the server crashed.
AckedComplete == \A m \in acked \cap Inbox : attDir[m] /\ Complete(m)

\* Of all the sessions that delete a mail at the same time one is told OK.
DeletedOnce == \A m \in Mail : deleted[m] <= 1 /\ (deleted[m] = 1 => dir[m] = "moved")

\* A LIST or READ that succeeds has found every mail that was acknowledged
\* before it began, in full, unless the mail was deleted meanwhile.
AckedShown ==
  \A t \in Thread : pc[t] = "reply" /\ op[t] = "load" /\ ok[t]
    => due[t] \cap Inbox \subseteq whole[t]

\* No LIST or READ fails because of a mail that is acknowledged and still there.
FailsWithReason ==
  [][\A t \in Thread :
       op[t] = "load" /\ ok[t] /\ ~ok'[t] => cur[t] \notin acked \cap Inbox]_vars

\* As long as the server has not crashed: whenever no operation is running, LIST
\* works, as every directory has all that parse_mail_dir insists on.
QuiescentReadable ==
  crashes = 0 /\ (\A t \in Thread : pc[t] = "idle")
    => \A m \in Inbox : created[m] /\ attDir[m]

\* The locks in the mail directories are FileLocks.
LocksImplemented == Lock!Spec

\* A mail is what its directory, and the answer to its sender, make it.
Status(m) ==
  CASE dir[m] = "absent" -> "new"
    [] dir[m] = "moved" -> "deleted"
    [] OTHER -> IF m \in acked THEN "delivered" ELSE "arriving"

State(t) ==
  CASE op[t] = "load" -> IF ok[t] THEN "listing" ELSE "failed"
    [] op[t] = "delete" /\ ok[t] /\ pc[t] \in {"remove", "close", "reply"} -> "deleted"
    [] OTHER -> "idle"

Box == INSTANCE Mailbox WITH
  Session <- Thread,
  status <- [m \in Mail |-> Status(m)], state <- [t \in Thread |-> State(t)],
  owed <- due, shown <- whole, rest <- [t \in Thread |-> IF ok[t] THEN todo[t] ELSE {}]

\* The system calls of any number of sessions amount to a Mailbox: listings and
\* deletions that overlap with each other, with a SEND and with a crash.
MailboxImplemented == Box!Spec

\* No operation hangs: not in flock, and not because of a deletion or crash.
OperationsEnd == \A t \in Thread : pc[t] # "idle" ~> pc[t] = "idle"

\* "True if text was successfully appended" (filesystem.cpp), "Everything is
\* fine" (smtpservice.cpp): a mail whose SEND was answered OK is stored in full,
\* in the inbox or in the archive.
AckedStored == \A m \in acked : Complete(m)

=============================================================================
