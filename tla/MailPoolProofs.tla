--------------------------- MODULE MailPoolProofs ---------------------------
(***************************************************************************)
(* Theorems about MailPool, for any number of senders, of sessions of the   *)
(* user, of mails and attachments, and of crashes.                          *)
(***************************************************************************)
EXTENDS MailPool, TLAPS

\* The inode a lock file is created with.
LEMMA UnusedIsInode ==
  ASSUME Inode \ Lock!InUse # {}
  PROVE  Lock!Unused \in Inode
BY DEF Lock!Unused

\* What an exception does to ok.
LEMMA FlagStaysFlag ==
  ASSUME ok \in [Thread -> BOOLEAN], NEW t \in Thread,
         ok' = ok \/ ok' = [ok EXCEPT ![t] = FALSE]
  PROVE  ok' \in [Thread -> BOOLEAN]
BY Zenon

\* A flag that is set at one argument.
LEMMA FlagSet ==
  ASSUME NEW S, NEW f \in [S -> BOOLEAN], NEW m \in S, NEW b \in BOOLEAN
  PROVE  /\ [f EXCEPT ![m] = b] \in [S -> BOOLEAN]
         /\ [f EXCEPT ![m] = b][m] = b
BY Zenon

-----------------------------------------------------------------------------
(* Types, stages of the operations, and what a save has done so far.         *)

\* Which operation a thread is in, by where it is, and that it has a mail.
Stages ==
  \A t \in Thread :
    /\ pc[t] = "idle" <=> op[t] = "none"
    /\ pc[t] \in {"mkdir", "mkatt", "create", "append", "attach"} => op[t] = "save"
    /\ pc[t] \in {"exists", "text", "list", "read"} => op[t] = "load"
    /\ pc[t] \in {"open", "flock", "remove", "close"} => op[t] \in {"load", "delete"}
    /\ pc[t] = "rename" => op[t] = "delete"
    /\ pc[t] \notin {"idle", "reply"} => cur[t] \in Mail
    /\ pc[t] = "reply" /\ (op[t] = "save" \/ (op[t] = "delete" /\ ok[t])) => cur[t] \in Mail

\* What save_mail has done so far is on the disk, as long as the directory is.
Progress(t, m) ==
  /\ pc[t] = "mkdir" <=> dir[m] = "absent"
  /\ pc[t] = "mkatt" => lines[m] = 0 /\ files[m] = 0
  /\ pc[t] = "create" => /\ left[t] = TextLines /\ lines[m] = 0 /\ files[m] = 0
                         /\ m \in Inbox => attDir[m]
  /\ pc[t] = "append" => /\ left[t] > 0 /\ lines[m] + left[t] <= TextLines /\ files[m] = 0
                         /\ m \in Inbox => /\ attDir[m] /\ created[m]
                                           /\ lines[m] + left[t] = TextLines
  /\ pc[t] = "attach" => /\ files[m] + left[t] <= Attachments
                         /\ m \in Inbox => /\ attDir[m] /\ lines[m] = TextLines
                                           /\ files[m] + left[t] = Attachments
  /\ pc[t] = "reply" /\ m \in Inbox => attDir[m] /\ Complete(m)

\* A mail has one writer, who has not been answered yet.
Saves ==
  /\ \A m \in Mail : dir[m] = "absent" => lines[m] = 0 /\ files[m] = 0 /\ m \notin acked
  /\ \A m \in Mail : lines[m] > 0 => created[m]
  /\ \A t \in Thread : op[t] = "save" =>
       /\ cur[t] \notin acked /\ Progress(t, cur[t])
       /\ \A u \in Thread : op[u] = "save" /\ cur[u] = cur[t] => u = t

\* No step leads to a stage without its operation or its mail.
LEMMA StagesStep ==
  ASSUME TypeOK, Stages, [Next]_vars
  PROVE  Stages'
<1> USE MailPoolAssumption
    DEF TypeOK, Stages, Thread, Inbox, Goto, disk, locks, parsed, history
<1>1. ASSUME NEW t \in Thread, SaveStep(t) PROVE Stages'
  BY <1>1
     DEF SaveStep, StartSave, MakeDir, MakeAttachmentDir, CreateText, Append, Attach, Saved, Written
<1>2. ASSUME NEW t \in Thread, LoadStep(t) PROVE Stages'
  BY <1>2
     DEF LoadStep, StartLoad, CheckExists, ReadText, ListAttachments, ReadAttachments, Throw
<1>3. ASSUME NEW t \in Thread, DeleteStep(t) PROVE Stages'
  BY <1>3
     DEF DeleteStep, StartDelete, Rename, MoveDir, Throw
<1>4. ASSUME NEW t \in Thread, LockStep(t) PROVE Stages'
  BY <1>4
     DEF LockStep, OpenLock, ObtainLock, RemoveLock, CloseLock, NextTurn, Rest, Throw,
         Lock!Open, Lock!Flock, Lock!Remove, Lock!Close
<1>5. ASSUME NEW t \in Thread, Reply(t) PROVE Stages'
  BY <1>5, SMTT(20)
     DEF Reply, AnswerSave, AnswerLoad, AnswerDelete, Answer
<1>6. CASE Crash
  BY <1>6 DEF Crash, Lock!Abandon
<1>7. CASE UNCHANGED vars
  BY <1>7 DEF vars
<1> QED BY <1>1, <1>2, <1>3, <1>4, <1>5, <1>6, <1>7 DEF Next, Step

\* A save goes on where it was, and nobody else writes its mail.
LEMMA SavesStep ==
  ASSUME TypeOK, Stages, Saves, [Next]_vars
  PROVE  Saves'
<1> USE MailPoolAssumption
    DEF TypeOK, Stages, Saves, Progress, Complete, TextLines,
        Thread, Inbox, Goto, disk, locks, parsed, history
<1>1. ASSUME NEW t \in Thread, SaveStep(t) PROVE Saves'
  <2>1. ASSUME NEW m \in Mail, StartSave(t, m) PROVE Saves'
    BY <2>1 DEF StartSave
  <2>2. CASE MakeDir(t)
    BY <2>2 DEF MakeDir
  <2>3. CASE MakeAttachmentDir(t)
    <3>1. \A m \in Mail : m # cur[t] => attDir'[m] = attDir[m]
      BY <2>3 DEF MakeAttachmentDir
    <3>2. cur[t] \in Mail
      BY <2>3 DEF MakeAttachmentDir
    <3>3. cur[t] \in Inbox => attDir'[cur[t]]
      <4>1. attDir \in [Mail -> BOOLEAN] /\ (cur[t] \in Inbox) \in BOOLEAN
        OBVIOUS
      <4>2. attDir' = [attDir EXCEPT ![cur[t]] = cur[t] \in Inbox]
        BY <2>3 DEF MakeAttachmentDir
      <4> HIDE DEF TypeOK, Stages, Saves, Inbox
      <4> QED BY <3>2, <4>1, <4>2, FlagSet, Zenon
    <3> QED BY <2>3, <3>1, <3>2, <3>3 DEF MakeAttachmentDir
  <2>4. CASE Append(t)
    BY <2>4, SMTT(20) DEF Append, Written
  <2>5. CASE Attach(t)
    <3>1. CASE cur[t] \in Inbox
      <4>1. files' = [files EXCEPT ![cur[t]] = @ + 1]
        BY <2>5, <3>1 DEF Attach, Written
      <4>2. op[t] = "save" /\ Progress(t, cur[t])'
        <5>1. op[t] = "save" /\ Progress(t, cur[t]) /\ cur[t] \in Mail
          BY <2>5 DEF Attach
        <5>2. /\ files'[cur[t]] = files[cur[t]] + 1 /\ left'[t] = left[t] - 1
              /\ files[cur[t]] \in Nat /\ left[t] \in Nat
          BY <2>5, <4>1, <5>1 DEF Attach
        <5> HIDE DEF TypeOK, Stages, Saves
        <5> QED BY <2>5, <3>1, <5>1, <5>2 DEF Attach
      <4>3. \A u \in Thread \ {t} : op[u] = "save" => Progress(u, cur[u])'
        BY <2>5, <4>1, <4>2 DEF Attach
      <4>4. \A m \in Mail : dir'[m] = "absent" => lines'[m] = 0 /\ files'[m] = 0 /\ m \notin acked'
        BY <2>5, <3>1, <4>1 DEF Attach
      <4> HIDE DEF Progress, TypeOK, Stages
      <4> QED BY <2>5, <4>2, <4>3, <4>4 DEF Attach
    <3>2. CASE cur[t] \notin Inbox
      <4>1. files' = files
        BY <2>5, <3>2 DEF Attach, Written
      <4> QED BY <2>5, <3>2, <4>1 DEF Attach
    <3> QED BY <3>1, <3>2
  <2>6. CASE Saved(t)
    BY <2>6 DEF Saved
  <2>7. CASE CreateText(t)
    <3>1. \A m \in Mail : m # cur[t] => created'[m] = created[m]
      BY <2>7 DEF CreateText
    <3>2. cur[t] \in Mail /\ lines[cur[t]] = 0
      BY <2>7 DEF CreateText
    <3>3. cur[t] \in Inbox => created'[cur[t]]
      <4>1. created \in [Mail -> BOOLEAN] /\ (cur[t] \in Inbox) \in BOOLEAN
        OBVIOUS
      <4>2. created' = [created EXCEPT ![cur[t]] = cur[t] \in Inbox]
        BY <2>7 DEF CreateText
      <4> HIDE DEF TypeOK, Stages, Saves, Inbox
      <4> QED BY <3>2, <4>1, <4>2, FlagSet, Zenon
    <3> QED BY <2>7, <3>1, <3>2, <3>3, SMTT(20) DEF CreateText
  <2> QED BY <1>1, <2>1, <2>2, <2>3, <2>4, <2>5, <2>6, <2>7 DEF SaveStep
<1>2. ASSUME NEW t \in Thread, LoadStep(t) PROVE Saves'
  <2>1. CASE StartLoad(t)
    BY <2>1, SMTT(20) DEF StartLoad
  <2>2. CASE CheckExists(t)
    BY <2>2, SMTT(20) DEF CheckExists, Throw
  <2>3. CASE ReadText(t)
    BY <2>3, SMTT(20) DEF ReadText, Throw
  <2>4. CASE ListAttachments(t)
    BY <2>4, SMTT(20) DEF ListAttachments, Throw
  <2>5. CASE ReadAttachments(t)
    BY <2>5, SMTT(20) DEF ReadAttachments, Throw
  <2> QED BY <1>2, <2>1, <2>2, <2>3, <2>4, <2>5, Zenon DEF LoadStep
<1>3. ASSUME NEW t \in Thread, DeleteStep(t) PROVE Saves'
  BY <1>3, SMTT(20)
     DEF DeleteStep, StartDelete, Rename, MoveDir, Throw
<1>4. ASSUME NEW t \in Thread, LockStep(t) PROVE Saves'
  <2>1. CASE OpenLock(t)
    BY <2>1 DEF OpenLock, Throw, Lock!Open
  <2>2. CASE ObtainLock(t)
    BY <2>2 DEF ObtainLock, Lock!Flock
  <2>3. CASE RemoveLock(t)
    BY <2>3 DEF RemoveLock, Lock!Remove
  <2>4. CASE CloseLock(t)
    BY <2>4 DEF CloseLock, NextTurn, Rest, Lock!Close
  <2> QED BY <1>4, <2>1, <2>2, <2>3, <2>4 DEF LockStep
<1>5. ASSUME NEW t \in Thread, Reply(t) PROVE Saves'
  <2>1. CASE AnswerSave(t)
    BY <2>1, SMTT(20) DEF AnswerSave, Answer
  <2>2. CASE AnswerLoad(t)
    BY <2>2, SMTT(20) DEF AnswerLoad, Answer
  <2>3. CASE AnswerDelete(t)
    BY <2>3, SMTT(20) DEF AnswerDelete, Answer
  <2> QED BY <1>5, <2>1, <2>2, <2>3, Zenon DEF Reply
<1>6. CASE Crash
  BY <1>6 DEF Crash, Lock!Abandon
<1>7. CASE UNCHANGED vars
  BY <1>7 DEF vars
<1> QED BY <1>1, <1>2, <1>3, <1>4, <1>5, <1>6, <1>7 DEF Next, Step

\* No write goes beyond the last line or attachment of a mail.
LEMMA TypeStep ==
  ASSUME TypeOK, Stages, Saves, [Next]_vars
  PROVE  TypeOK'
<1> USE MailPoolAssumption
    DEF TypeOK, Stages, Saves, Progress, Location, TextLines, Lock!Phase, Lock!Holding,
        Thread, Inbox, Goto, disk, locks, parsed, history
<1>1. ASSUME NEW t \in Thread, SaveStep(t) PROVE TypeOK'
  <2>1. ASSUME NEW m \in Mail, StartSave(t, m) PROVE TypeOK'
    BY <2>1 DEF StartSave
  <2>2. CASE MakeDir(t)
    BY <2>2 DEF MakeDir
  <2>3. CASE MakeAttachmentDir(t)
    <3>1. attDir' \in [Mail -> BOOLEAN]
      <4>1. cur[t] \in Mail /\ (cur[t] \in Inbox) \in BOOLEAN
        BY <2>3 DEF MakeAttachmentDir
      <4>2. attDir' = [attDir EXCEPT ![cur[t]] = cur[t] \in Inbox]
        BY <2>3 DEF MakeAttachmentDir
      <4> QED BY <4>1, <4>2, FlagSet, Zenon
    <3> QED BY <2>3, <3>1 DEF MakeAttachmentDir
  <2>4. CASE Append(t)
    <3>1. lines' \in [Mail -> 0..TextLines]
      BY <2>4 DEF Append, Written
    <3>2. left' \in [Thread -> Nat] /\ pc' \in [Thread -> Location]
      BY <2>4 DEF Append
    <3> QED BY <2>4, <3>1, <3>2 DEF Append
  <2>5. CASE Attach(t)
    BY <2>5 DEF Attach, Written
  <2>6. CASE Saved(t)
    BY <2>6 DEF Saved
  <2>7. CASE CreateText(t)
    <3>1. created' \in [Mail -> BOOLEAN]
      <4>1. cur[t] \in Mail /\ (cur[t] \in Inbox) \in BOOLEAN
        BY <2>7 DEF CreateText
      <4>2. created' = [created EXCEPT ![cur[t]] = cur[t] \in Inbox]
        BY <2>7 DEF CreateText
      <4> QED BY <4>1, <4>2, FlagSet, Zenon
    <3> QED BY <2>7, <3>1 DEF CreateText
  <2> QED BY <1>1, <2>1, <2>2, <2>3, <2>4, <2>5, <2>6, <2>7 DEF SaveStep
<1>2. ASSUME NEW t \in Thread, LoadStep(t) PROVE TypeOK'
  <2>1. CASE StartLoad(t)
    <3>1. /\ op' \in [Thread -> {"none", "save", "load", "delete"}]
          /\ todo' \in [Thread -> SUBSET Mail] /\ due' \in [Thread -> SUBSET Mail]
      BY <2>1 DEF StartLoad
    <3>2. pc' \in [Thread -> Location] /\ cur' \in [Thread -> Mail \cup {NoMail}]
      BY <2>1, SMTT(20) DEF StartLoad
    <3> QED BY <2>1, <3>1, <3>2, SMTT(20) DEF StartLoad
  <2>2. CASE CheckExists(t)
    <3>1. ok' = ok \/ ok' = [ok EXCEPT ![t] = FALSE]
      BY <2>2, Zenon DEF CheckExists, Throw
    <3>2. ok' \in [Thread -> BOOLEAN]
      BY <3>1, FlagStaysFlag
    <3> QED BY <2>2, <3>2 DEF CheckExists, Throw
  <2>3. CASE ReadText(t)
    BY <2>3 DEF ReadText
  <2>4. CASE ListAttachments(t)
    <3>1. ok' = ok \/ ok' = [ok EXCEPT ![t] = FALSE]
      BY <2>4, Zenon DEF ListAttachments, Throw
    <3>2. ok' \in [Thread -> BOOLEAN]
      BY <3>1, FlagStaysFlag
    <3> QED BY <2>4, <3>2, SMTT(20) DEF ListAttachments, Throw
  <2>5. CASE ReadAttachments(t)
    <3>1. ok' = ok \/ ok' = [ok EXCEPT ![t] = FALSE]
      BY <2>5, Zenon DEF ReadAttachments, Throw
    <3>2. ok' \in [Thread -> BOOLEAN]
      BY <3>1, FlagStaysFlag
    <3> QED BY <2>5, <3>2 DEF ReadAttachments, Throw
  <2> QED BY <1>2, <2>1, <2>2, <2>3, <2>4, <2>5 DEF LoadStep
<1>3. ASSUME NEW t \in Thread, DeleteStep(t) PROVE TypeOK'
  <2>1. CASE StartDelete(t)
    <3>1. ok' = ok \/ ok' = [ok EXCEPT ![t] = FALSE]
      BY <2>1, Zenon DEF StartDelete, Throw
    <3>2. ok' \in [Thread -> BOOLEAN]
      BY <3>1, FlagStaysFlag
    <3>3. cur' \in [Thread -> Mail \cup {NoMail}] /\ pc' \in [Thread -> Location]
      BY <2>1 DEF StartDelete, Throw
    <3> QED BY <2>1, <3>2, <3>3 DEF StartDelete
  <2>2. CASE Rename(t)
    <3>1. ok' = ok \/ ok' = [ok EXCEPT ![t] = FALSE]
      BY <2>2, Zenon DEF Rename, MoveDir, Throw
    <3>2. ok' \in [Thread -> BOOLEAN]
      BY <3>1, FlagStaysFlag
    <3>3. dir' \in [Mail -> {"absent", "there", "moved"}] /\ archived' \subseteq Mail
      BY <2>2 DEF Rename, MoveDir
    <3>4. bound' \in [Mail -> Inode \cup {NoInode}]
      BY <2>2 DEF Rename, MoveDir
    <3>5. pc' \in [Thread -> Location]
      BY <2>2 DEF Rename
    <3> QED BY <2>2, <3>2, <3>3, <3>4, <3>5 DEF Rename
  <2> QED BY <1>3, <2>1, <2>2 DEF DeleteStep
<1>4. ASSUME NEW t \in Thread, LockStep(t) PROVE TypeOK'
  <2>1. CASE OpenLock(t)
    <3>1. CASE Goto(t, "open", "flock") /\ Lock!Open(t, cur[t]) /\ UNCHANGED ok
      <4>1. cur[t] \in Mail
        BY <3>1
      <4>2. CASE bound[cur[t]] # NoInode /\ UNCHANGED bound /\ fd' = [fd EXCEPT ![t] = bound[cur[t]]]
        BY <2>1, <3>1, <4>1, <4>2 DEF OpenLock, Lock!Open
      <4>3. CASE /\ bound[cur[t]] = NoInode /\ Inode \ Lock!InUse # {}
                 /\ bound' = [bound EXCEPT ![cur[t]] = Lock!Unused]
                 /\ fd' = [fd EXCEPT ![t] = Lock!Unused]
        BY <2>1, <3>1, <4>1, <4>3, UnusedIsInode DEF OpenLock, Lock!Open
      <4> QED BY <3>1, <4>2, <4>3 DEF Lock!Open
    <3>2. CASE Throw(t, "open", "reply") /\ cur[t] \notin Inbox /\ UNCHANGED locks
      <4>1. ok' \in [Thread -> BOOLEAN]
        BY <3>2, FlagStaysFlag DEF Throw
      <4> QED BY <2>1, <3>2, <4>1 DEF OpenLock, Throw
    <3> QED BY <2>1, <3>1, <3>2 DEF OpenLock
  <2>2. CASE ObtainLock(t)
    BY <2>2 DEF ObtainLock, Lock!Flock
  <2>3. CASE RemoveLock(t)
    BY <2>3 DEF RemoveLock, Lock!Remove
  <2>4. CASE CloseLock(t)
    BY <2>4, SMTT(20) DEF CloseLock, Lock!Close, NextTurn, Rest
  <2> QED BY <1>4, <2>1, <2>2, <2>3, <2>4 DEF LockStep
<1>5. ASSUME NEW t \in Thread, Reply(t) PROVE TypeOK'
  <2>1. CASE AnswerSave(t)
    BY <2>1 DEF AnswerSave, Answer
  <2>2. CASE AnswerLoad(t)
    BY <2>2 DEF AnswerLoad, Answer
  <2>3. CASE AnswerDelete(t)
    BY <2>3 DEF AnswerDelete, Answer
  <2> QED BY <1>5, <2>1, <2>2, <2>3 DEF Reply
<1>6. CASE Crash
  BY <1>6 DEF Crash, Lock!Abandon
<1>7. CASE UNCHANGED vars
  BY <1>7 DEF vars
<1> QED BY <1>1, <1>2, <1>3, <1>4, <1>5, <1>6, <1>7 DEF Next, Step

LEMMA InitialTypes == Init => TypeOK
BY MailPoolAssumption DEF Init, TypeOK, Location, TextLines, Lock!LockInit, Lock!Phase

\* One writer per mail: of all the sessions that save none touches the mail of
\* another, and what a save has written so far is on the disk.
THEOREM SavesAreExclusive == Spec => [](TypeOK /\ Stages /\ Saves)
<1>1. Init => TypeOK /\ Stages /\ Saves
  BY InitialTypes DEF Init, Stages, Saves
<1>2. TypeOK /\ Stages /\ Saves /\ [Next]_vars => (TypeOK /\ Stages /\ Saves)'
  BY TypeStep, StagesStep, SavesStep
<1> QED BY <1>1, <1>2, PTL DEF Spec

\* Every state of the pool is well typed; above all, the lines of a mail never
\* are more than four, nor its attachment files more than the mail has.
THEOREM TypeCorrect == Spec => []TypeOK
BY SavesAreExclusive, PTL

-----------------------------------------------------------------------------
(* What was acknowledged.                                                    *)

\* Nobody writes to a mail that was acknowledged.
LEMMA AckedStep ==
  ASSUME TypeOK, Stages, Saves, AckedComplete, [Next]_vars
  PROVE  AckedComplete'
<1> USE MailPoolAssumption
    DEF TypeOK, Stages, Saves, Progress, Complete, TextLines, AckedComplete,
        Thread, Inbox, Goto, disk, locks, parsed, history
<1>1. ASSUME NEW t \in Thread, SaveStep(t) PROVE AckedComplete'
  BY <1>1
     DEF SaveStep, StartSave, MakeDir, MakeAttachmentDir, CreateText, Append, Attach, Saved, Written
<1>2. ASSUME NEW t \in Thread, LoadStep(t) PROVE AckedComplete'
  BY <1>2
     DEF LoadStep, StartLoad, CheckExists, ReadText, ListAttachments, ReadAttachments, Throw
<1>3. ASSUME NEW t \in Thread, DeleteStep(t) PROVE AckedComplete'
  BY <1>3
     DEF DeleteStep, StartDelete, Rename, MoveDir, Throw
<1>4. ASSUME NEW t \in Thread, LockStep(t) PROVE AckedComplete'
  <2>1. CASE OpenLock(t)
    BY <2>1 DEF OpenLock, Throw, Lock!Open
  <2>2. CASE ObtainLock(t)
    BY <2>2 DEF ObtainLock, Lock!Flock
  <2>3. CASE RemoveLock(t)
    BY <2>3 DEF RemoveLock, Lock!Remove
  <2>4. CASE CloseLock(t)
    BY <2>4 DEF CloseLock, NextTurn, Rest, Lock!Close
  <2> QED BY <1>4, <2>1, <2>2, <2>3, <2>4 DEF LockStep
<1>5. ASSUME NEW t \in Thread, Reply(t) PROVE AckedComplete'
  BY <1>5
     DEF Reply, AnswerSave, AnswerLoad, AnswerDelete, Answer
<1>6. CASE Crash
  BY <1>6 DEF Crash, Lock!Abandon
<1>7. CASE UNCHANGED vars
  BY <1>7 DEF vars
<1> QED BY <1>1, <1>2, <1>3, <1>4, <1>5, <1>6, <1>7 DEF Next, Step

\* An acknowledged mail that nobody has deleted is complete on the disk, whatever
\* the other sessions do and whenever the server crashes.
THEOREM AckedMailsAreComplete == Spec => []AckedComplete
<1>1. Init => AckedComplete
  BY DEF Init, AckedComplete
<1>2. TypeOK /\ Stages /\ Saves /\ AckedComplete /\ [Next]_vars => AckedComplete'
  BY AckedStep
<1> QED BY <1>1, <1>2, SavesAreExclusive, PTL DEF Spec

-----------------------------------------------------------------------------
(* Deletions.                                                                *)

\* The thread whose rename has moved the directory.
Deleter(t, m) ==
  op[t] = "delete" /\ ok[t] /\ cur[t] = m /\ pc[t] \in {"remove", "close", "reply"}

\* A mail is moved by at most one thread, which has not been answered yet.
Deletes ==
  \A t \in Thread, m \in Mail : Deleter(t, m) =>
    /\ dir[m] = "moved" /\ deleted[m] = 0
    /\ \A u \in Thread : Deleter(u, m) => u = t

\* A directory that has been moved is not moved again.
LEMMA DeletesStep ==
  ASSUME TypeOK, Stages, Saves, Deletes, DeletedOnce, [Next]_vars
  PROVE  (Deletes /\ DeletedOnce)'
<1> USE MailPoolAssumption
    DEF TypeOK, Stages, Saves, Progress, Deletes, Deleter, DeletedOnce,
        Thread, Inbox, Goto, disk, locks, parsed, history
<1>1. ASSUME NEW t \in Thread, SaveStep(t) PROVE (Deletes /\ DeletedOnce)'
  BY <1>1, SMTT(20)
     DEF SaveStep, StartSave, MakeDir, MakeAttachmentDir, CreateText, Append, Attach, Saved, Written
<1>2. ASSUME NEW t \in Thread, LoadStep(t) PROVE (Deletes /\ DeletedOnce)'
  BY <1>2
     DEF LoadStep, StartLoad, CheckExists, ReadText, ListAttachments, ReadAttachments, Throw
<1>3. ASSUME NEW t \in Thread, DeleteStep(t) PROVE (Deletes /\ DeletedOnce)'
  <2>1. CASE StartDelete(t)
    BY <2>1 DEF StartDelete, Throw
  <2>2. CASE Rename(t)
    <3>1. CASE cur[t] \in Inbox
      <4>1. \A u \in Thread : ~Deleter(u, cur[t])
        BY <3>1
      <4>2. cur[t] \in Mail /\ deleted[cur[t]] \in Nat /\ deleted[cur[t]] <= 1 /\ deleted[cur[t]] # 1
        BY <3>1
      <4>3. deleted[cur[t]] = 0
        <5> HIDE DEF TypeOK, Stages, Saves, Deletes, DeletedOnce
        <5> QED BY <4>2
      <4> QED BY <2>2, <3>1, <4>1, <4>3 DEF Rename, MoveDir
    <3>2. CASE cur[t] \notin Inbox
      <4>1. ~ok'[t]
        BY <2>2, <3>2 DEF Rename, MoveDir
      <4> QED BY <2>2, <3>2, <4>1 DEF Rename, MoveDir
    <3> QED BY <3>1, <3>2
  <2> QED BY <1>3, <2>1, <2>2 DEF DeleteStep
<1>4. ASSUME NEW t \in Thread, LockStep(t) PROVE (Deletes /\ DeletedOnce)'
  <2>1. CASE OpenLock(t)
    BY <2>1 DEF OpenLock, Throw, Lock!Open
  <2>2. CASE ObtainLock(t)
    BY <2>2 DEF ObtainLock, Lock!Flock
  <2>3. CASE RemoveLock(t)
    BY <2>3 DEF RemoveLock, Lock!Remove
  <2>4. CASE CloseLock(t)
    BY <2>4, SMTT(20) DEF CloseLock, NextTurn, Rest, Lock!Close
  <2> QED BY <1>4, <2>1, <2>2, <2>3, <2>4 DEF LockStep
<1>5. ASSUME NEW t \in Thread, Reply(t) PROVE (Deletes /\ DeletedOnce)'
  <2>1. CASE AnswerSave(t)
    BY <2>1 DEF AnswerSave, Answer
  <2>2. CASE AnswerLoad(t)
    BY <2>2 DEF AnswerLoad, Answer
  <2>3. CASE AnswerDelete(t)
    <3>1. CASE ok[t]
      <4>1. Deleter(t, cur[t]) /\ cur[t] \in Mail
        BY <2>3, <3>1 DEF AnswerDelete, Answer
      <4>2. op'[t] = "none" /\ \A u \in Thread \ {t} : ~Deleter(u, cur[t])
        BY <2>3, <4>1 DEF AnswerDelete, Answer
      <4>3. deleted[cur[t]] = 0 /\ dir[cur[t]] = "moved"
        BY <4>1
      <4>4. deleted' = [deleted EXCEPT ![cur[t]] = 1]
        BY <2>3, <3>1, <4>3 DEF AnswerDelete
      <4> QED BY <2>3, <4>1, <4>2, <4>3, <4>4 DEF AnswerDelete, Answer
    <3>2. CASE ~ok[t]
      BY <2>3, <3>2 DEF AnswerDelete, Answer
    <3> QED BY <3>1, <3>2
  <2> QED BY <1>5, <2>1, <2>2, <2>3 DEF Reply
<1>6. CASE Crash
  BY <1>6 DEF Crash, Lock!Abandon
<1>7. CASE UNCHANGED vars
  BY <1>7 DEF vars
<1> QED BY <1>1, <1>2, <1>3, <1>4, <1>5, <1>6, <1>7 DEF Next, Step

\* Of all the sessions that delete a mail at the same time one is told OK, and
\* the mail is in the archive by then.
THEOREM MailsAreDeletedOnce == Spec => []DeletedOnce
<1>1. Init => Deletes /\ DeletedOnce
  BY DEF Init, Deletes, Deleter, DeletedOnce
<1>2. TypeOK /\ Stages /\ Saves /\ (Deletes /\ DeletedOnce) /\ [Next]_vars
        => (Deletes /\ DeletedOnce)'
  BY DeletesStep
<1> QED BY <1>1, <1>2, SavesAreExclusive, PTL DEF Spec

-----------------------------------------------------------------------------
(* Listings.                                                                 *)

\* What a LIST or READ owes is parsed, or still to be parsed.
Loads ==
  \A t \in Thread : op[t] = "load" =>
    /\ due[t] \subseteq acked
    /\ ok[t] => \A m \in due[t] \cap Inbox :
         /\ m \in whole[t] \cup todo[t]
         /\ pc[t] = "reply" => m \in whole[t]
         /\ m = cur[t] /\ pc[t] = "list" => text[t] = TextLines
         /\ m = cur[t] /\ pc[t] \in {"read", "remove", "close"} => m \in whole[t]

\* A mail that is owed stays complete until it is parsed.
LEMMA LoadsStep ==
  ASSUME TypeOK, Stages, Saves, AckedComplete, Loads, [Next]_vars
  PROVE  Loads'
<1> USE MailPoolAssumption
    DEF TypeOK, Stages, AckedComplete, Complete, Loads,
        Thread, Inbox, Goto, disk, locks, parsed, history
<1>1. ASSUME NEW t \in Thread, SaveStep(t) PROVE Loads'
  <2>1. ASSUME NEW m \in Mail, StartSave(t, m) PROVE Loads'
    BY <2>1 DEF StartSave
  <2>2. CASE MakeDir(t)
    <3>1. cur[t] \notin acked
      BY <2>2 DEF MakeDir, Saves
    <3> QED BY <2>2, <3>1 DEF MakeDir
  <2>3. CASE MakeAttachmentDir(t)
    BY <2>3 DEF MakeAttachmentDir
  <2>4. CASE Append(t)
    BY <2>4 DEF Append, Written
  <2>5. CASE Attach(t)
    BY <2>5 DEF Attach, Written
  <2>6. CASE Saved(t)
    BY <2>6 DEF Saved
  <2>7. CASE CreateText(t)
    BY <2>7 DEF CreateText
  <2> QED BY <1>1, <2>1, <2>2, <2>3, <2>4, <2>5, <2>6, <2>7 DEF SaveStep
<1>2. ASSUME NEW t \in Thread, LoadStep(t) PROVE Loads'
  BY <1>2
     DEF LoadStep, StartLoad, CheckExists, ReadText, ListAttachments, ReadAttachments, Throw
<1>3. ASSUME NEW t \in Thread, DeleteStep(t) PROVE Loads'
  BY <1>3
     DEF DeleteStep, StartDelete, Rename, MoveDir, Throw
<1>4. ASSUME NEW t \in Thread, LockStep(t) PROVE Loads'
  <2>1. CASE OpenLock(t)
    BY <2>1 DEF OpenLock, Throw, Lock!Open
  <2>2. CASE ObtainLock(t)
    BY <2>2 DEF ObtainLock, Lock!Flock
  <2>3. CASE RemoveLock(t)
    BY <2>3 DEF RemoveLock, Lock!Remove
  <2>4. CASE CloseLock(t)
    BY <2>4 DEF CloseLock, NextTurn, Rest, Lock!Close
  <2> QED BY <1>4, <2>1, <2>2, <2>3, <2>4 DEF LockStep
<1>5. ASSUME NEW t \in Thread, Reply(t) PROVE Loads'
  BY <1>5
     DEF Reply, AnswerSave, AnswerLoad, AnswerDelete, Answer
<1>6. CASE Crash
  BY <1>6 DEF Crash, Lock!Abandon
<1>7. CASE UNCHANGED vars
  BY <1>7 DEF vars
<1> QED BY <1>1, <1>2, <1>3, <1>4, <1>5, <1>6, <1>7 DEF Next, Step

LEMMA LoadsInvariant == Spec => []Loads
<1>1. Init => Loads
  BY DEF Init, Loads
<1>2. TypeOK /\ Stages /\ Saves /\ AckedComplete /\ Loads /\ [Next]_vars => Loads'
  BY LoadsStep
<1> QED BY <1>1, <1>2, SavesAreExclusive, AckedMailsAreComplete, PTL DEF Spec

\* A LIST or READ that succeeds has found every mail that was acknowledged before
\* it began, in full, unless the mail was deleted meanwhile.
THEOREM AckedMailsAreShown == Spec => []AckedShown
<1>1. Loads => AckedShown
  BY DEF Loads, AckedShown, Inbox
<1> QED BY <1>1, LoadsInvariant, PTL

\* A LIST or READ never fails because of a mail that is acknowledged and still
\* there: only mails in transit, or just deleted, make it fail.
THEOREM FailuresHaveReasons == Spec => FailsWithReason
<1>1. TypeOK /\ Stages /\ Saves /\ AckedComplete /\ [Next]_vars
        => [\A t \in Thread :
              op[t] = "load" /\ ok[t] /\ ~ok'[t] => cur[t] \notin acked \cap Inbox]_vars
  <2> SUFFICES ASSUME TypeOK, Stages, Saves, AckedComplete, Next, NEW u \in Thread,
                      op[u] = "load", ok[u], ~ok'[u], cur[u] \in acked \cap Inbox
               PROVE  FALSE
    OBVIOUS
  <2> USE DEF TypeOK, Stages, Saves, AckedComplete, Complete, TextLines, Goto
  <2>1. ASSUME NEW t \in Thread, SaveStep(t) PROVE FALSE
    BY <2>1, SMTT(20) DEF SaveStep, StartSave, MakeDir, MakeAttachmentDir, CreateText, Append, Attach, Saved
  <2>2. ASSUME NEW t \in Thread, LoadStep(t) PROVE FALSE
    BY <2>2, SMTT(20) DEF LoadStep, StartLoad, CheckExists, ReadText, ListAttachments, ReadAttachments, Throw
  <2>3. ASSUME NEW t \in Thread, DeleteStep(t) PROVE FALSE
    BY <2>3, SMTT(20) DEF DeleteStep, StartDelete, Rename, MoveDir, Throw
  <2>4. ASSUME NEW t \in Thread, LockStep(t) PROVE FALSE
    BY <2>4 DEF LockStep, OpenLock, ObtainLock, RemoveLock, CloseLock, Throw
  <2>5. ASSUME NEW t \in Thread, Reply(t) PROVE FALSE
    <3>1. Answer(t)
      BY <2>5 DEF Reply, AnswerSave, AnswerLoad, AnswerDelete
    <3> QED BY <3>1 DEF Answer
  <2>6. CASE Crash
    BY <2>6 DEF Crash
  <2> QED BY <2>1, <2>2, <2>3, <2>4, <2>5, <2>6 DEF Next, Step
<1> QED BY <1>1, SavesAreExclusive, AckedMailsAreComplete, PTL DEF Spec, FailsWithReason

-----------------------------------------------------------------------------
(* The pool at rest.                                                         *)

\* A directory that nobody is filling has all that parse_mail_dir insists on.
Filled ==
  crashes = 0 =>
    \A m \in Inbox : \/ \E t \in Thread : op[t] = "save" /\ cur[t] = m
                     \/ created[m] /\ attDir[m]

\* A directory is left half filled by a crash only.
LEMMA FilledStep ==
  ASSUME TypeOK, Stages, Saves, Filled, [Next]_vars
  PROVE  Filled'
<1> USE MailPoolAssumption
    DEF TypeOK, Stages, Saves, Progress, Complete, TextLines, Filled,
        Thread, Inbox, Goto, disk, locks, parsed, history
<1>1. ASSUME NEW t \in Thread, SaveStep(t) PROVE Filled'
  <2>1. ASSUME NEW m \in Mail, StartSave(t, m) PROVE Filled'
    BY <2>1 DEF StartSave
  <2>2. CASE MakeDir(t)
    BY <2>2 DEF MakeDir
  <2>3. CASE MakeAttachmentDir(t)
    BY <2>3 DEF MakeAttachmentDir
  <2>4. CASE Append(t)
    BY <2>4 DEF Append, Written
  <2>5. CASE Attach(t)
    BY <2>5 DEF Attach, Written
  <2>6. CASE Saved(t)
    BY <2>6 DEF Saved
  <2>7. CASE CreateText(t)
    BY <2>7 DEF CreateText
  <2> QED BY <1>1, <2>1, <2>2, <2>3, <2>4, <2>5, <2>6, <2>7 DEF SaveStep
<1>2. ASSUME NEW t \in Thread, LoadStep(t) PROVE Filled'
  <2>1. UNCHANGED <<disk, crashes>>
    BY <1>2 DEF LoadStep, StartLoad, CheckExists, ReadText, ListAttachments, ReadAttachments
  <2>2. op[t] # "save"
    BY <1>2 DEF LoadStep, StartLoad, CheckExists, ReadText, ListAttachments, ReadAttachments, Throw
  <2>3. \A u \in Thread \ {t} : op'[u] = op[u] /\ cur'[u] = cur[u]
    BY <1>2 DEF LoadStep, StartLoad, CheckExists, ReadText, ListAttachments, ReadAttachments
  <2> QED BY <2>1, <2>2, <2>3
<1>3. ASSUME NEW t \in Thread, DeleteStep(t) PROVE Filled'
  BY <1>3, SMTT(20)
     DEF DeleteStep, StartDelete, Rename, MoveDir, Throw
<1>4. ASSUME NEW t \in Thread, LockStep(t) PROVE Filled'
  <2>1. CASE OpenLock(t)
    BY <2>1 DEF OpenLock, Throw, Lock!Open
  <2>2. CASE ObtainLock(t)
    BY <2>2 DEF ObtainLock, Lock!Flock
  <2>3. CASE RemoveLock(t)
    BY <2>3 DEF RemoveLock, Lock!Remove
  <2>4. CASE CloseLock(t)
    BY <2>4 DEF CloseLock, NextTurn, Rest, Lock!Close
  <2> QED BY <1>4, <2>1, <2>2, <2>3, <2>4 DEF LockStep
<1>5. ASSUME NEW t \in Thread, Reply(t) PROVE Filled'
  <2>1. CASE AnswerSave(t)
    BY <2>1 DEF AnswerSave, Answer
  <2>2. CASE AnswerLoad(t)
    BY <2>2 DEF AnswerLoad, Answer
  <2>3. CASE AnswerDelete(t)
    BY <2>3 DEF AnswerDelete, Answer
  <2> QED BY <1>5, <2>1, <2>2, <2>3 DEF Reply
<1>6. CASE Crash
  BY <1>6 DEF Crash, Lock!Abandon
<1>7. CASE UNCHANGED vars
  BY <1>7 DEF vars
<1> QED BY <1>1, <1>2, <1>3, <1>4, <1>5, <1>6, <1>7 DEF Next, Step

\* Whenever no operation is running, LIST works, provided that the server has not
\* crashed.
THEOREM RestIsReadable == Spec => []QuiescentReadable
<1>1. Init => Filled
  BY DEF Init, Filled, Inbox
<1>2. TypeOK /\ Stages /\ Saves /\ Filled /\ [Next]_vars => Filled'
  BY FilledStep
<1>3. TypeOK /\ Stages /\ Filled => QuiescentReadable
  BY DEF TypeOK, Stages, Filled, QuiescentReadable
<1> QED BY <1>1, <1>2, <1>3, SavesAreExclusive, PTL DEF Spec

-----------------------------------------------------------------------------
(* The locks of the mails are FileLocks.                                     *)

\* A thread has the lock of the mail at hand open exactly where it should.
LockAt ==
  \A t \in Thread :
    /\ pc[t] = "flock" => phase[t] = "opened"
    /\ pc[t] \in {"text", "list", "read", "rename", "remove"} => phase[t] = "locked"
    /\ pc[t] = "close" => phase[t] = "removed"
    /\ phase[t] # "none" => path[t] = cur[t]
    /\ phase[t] # "none" =>
         pc[t] \in {"flock", "text", "list", "read", "rename", "remove", "close"}

\* Only the steps of the lock open, lock and close.
LEMMA LockAtStep ==
  ASSUME TypeOK, Stages, LockAt, [Next]_vars
  PROVE  LockAt'
<1> USE MailPoolAssumption
    DEF TypeOK, Stages, LockAt, Lock!Holding, Lock!Phase,
        Thread, Inbox, Goto, disk, locks, parsed, history
<1>1. ASSUME NEW t \in Thread, SaveStep(t) PROVE LockAt'
  BY <1>1
     DEF SaveStep, StartSave, MakeDir, MakeAttachmentDir, CreateText, Append, Attach, Saved, Written
<1>2. ASSUME NEW t \in Thread, LoadStep(t) PROVE LockAt'
  BY <1>2
     DEF LoadStep, StartLoad, CheckExists, ReadText, ListAttachments, ReadAttachments, Throw
<1>3. ASSUME NEW t \in Thread, DeleteStep(t) PROVE LockAt'
  BY <1>3
     DEF DeleteStep, StartDelete, Rename, MoveDir, Throw
<1>4. ASSUME NEW t \in Thread, LockStep(t) PROVE LockAt'
  BY <1>4, SMTT(20)
     DEF LockStep, OpenLock, ObtainLock, RemoveLock, CloseLock, NextTurn, Rest, Throw,
         Lock!Open, Lock!Flock, Lock!Remove, Lock!Close
<1>5. ASSUME NEW t \in Thread, Reply(t) PROVE LockAt'
  BY <1>5
     DEF Reply, AnswerSave, AnswerLoad, AnswerDelete, Answer
<1>6. CASE Crash
  BY <1>6 DEF Crash, Lock!Abandon
<1>7. CASE UNCHANGED vars
  BY <1>7 DEF vars
<1> QED BY <1>1, <1>2, <1>3, <1>4, <1>5, <1>6, <1>7 DEF Next, Step

\* The lock a thread has is that of the mail at hand, throughout.
LEMMA LockAtInvariant == Spec => []LockAt
<1>1. Init => LockAt
  BY DEF Init, LockAt, Lock!LockInit
<1>2. TypeOK /\ Stages /\ LockAt /\ [Next]_vars => LockAt'
  BY LockAtStep
<1> QED BY <1>1, <1>2, SavesAreExclusive, PTL DEF Spec

\* Every step of the pool is a step of FileLock or leaves the locks alone: the
\* mail pool uses its locks as a filelock is meant to be used, and all that
\* FileLockProofs says holds of them.
THEOREM LocksAreFileLocks == Spec => LocksImplemented
<1>1. Init => Lock!Init
  BY DEF Init, Lock!Init, Lock!LockInit
<1>2. TypeOK /\ Stages /\ Saves /\ LockAt /\ [Next]_vars => [Lock!Next]_(Lock!fileLockVars)
  <2> SUFFICES ASSUME TypeOK, Stages, Saves, LockAt, [Next]_vars
               PROVE  Lock!Next \/ UNCHANGED <<dir, bound, archived, path, fd, phase, crashes>>
    BY DEF Lock!fileLockVars, Lock!lockVars
  <2> USE DEF TypeOK, Stages, Saves, Progress, LockAt, Thread, Goto, disk, locks, history
  <2>1. ASSUME NEW t \in Thread, MakeDir(t) PROVE Lock!Next
    BY <2>1 DEF MakeDir, Lock!Next, Lock!MakeDir, Lock!lockVars
  <2>2. ASSUME NEW t \in Thread, SaveStep(t), ~MakeDir(t)
        PROVE  UNCHANGED <<dir, bound, archived, path, fd, phase, crashes>>
    BY <2>2 DEF SaveStep, StartSave, MakeAttachmentDir, CreateText, Append, Attach, Saved
  <2>3. ASSUME NEW t \in Thread, LoadStep(t)
        PROVE  UNCHANGED <<dir, bound, archived, path, fd, phase, crashes>>
    BY <2>3 DEF LoadStep, StartLoad, CheckExists, ReadText, ListAttachments, ReadAttachments
  <2>4. ASSUME NEW t \in Thread, DeleteStep(t)
        PROVE  Lock!Next \/ UNCHANGED <<dir, bound, archived, path, fd, phase, crashes>>
    <3>1. CASE Rename(t) /\ cur[t] \in Inbox
      <4>1. Lock!MoveDir(t)
        BY <3>1 DEF Rename, MoveDir, Inbox, Lock!MoveDir
      <4> QED BY <4>1 DEF Lock!Next
    <3>2. CASE Rename(t) /\ cur[t] \notin Inbox
      BY <3>2 DEF Rename, MoveDir
    <3>3. CASE StartDelete(t)
      BY <3>3 DEF StartDelete
    <3> QED BY <2>4, <3>1, <3>2, <3>3 DEF DeleteStep
  <2>5. ASSUME NEW t \in Thread, LockStep(t)
        PROVE  Lock!Next \/ UNCHANGED <<dir, bound, archived, path, fd, phase, crashes>>
    <3>1. ASSUME OpenLock(t), Lock!Open(t, cur[t]) PROVE Lock!Next
      <4>1. cur[t] \in Mail
        BY <3>1 DEF OpenLock, Throw
      <4>2. UNCHANGED <<dir, crashes>>
        BY <3>1 DEF OpenLock
      <4> QED BY <3>1, <4>1, <4>2 DEF Lock!Next, Lock!Use
    <3>2. ASSUME OpenLock(t), ~Lock!Open(t, cur[t])
          PROVE  UNCHANGED <<dir, bound, archived, path, fd, phase, crashes>>
      BY <3>2 DEF OpenLock
    <3>3. CASE ObtainLock(t)
      BY <3>3 DEF ObtainLock, Lock!Next, Lock!Use
    <3>4. CASE RemoveLock(t)
      BY <3>4 DEF RemoveLock, Lock!Next, Lock!Use
    <3>5. CASE CloseLock(t)
      BY <3>5 DEF CloseLock, Lock!Next, Lock!Use
    <3> QED BY <2>5, <3>1, <3>2, <3>3, <3>4, <3>5 DEF LockStep
  <2>6. ASSUME NEW t \in Thread, Reply(t)
        PROVE  UNCHANGED <<dir, bound, archived, path, fd, phase, crashes>>
    BY <2>6 DEF Reply, AnswerSave, AnswerLoad, AnswerDelete, Answer
  <2>7. CASE Crash
    BY <2>7 DEF Crash, Lock!Next, Lock!Crash
  <2>8. CASE UNCHANGED vars
    BY <2>8 DEF vars
  <2> QED BY <2>1, <2>2, <2>3, <2>4, <2>5, <2>6, <2>7, <2>8 DEF Next, Step
<1> QED BY <1>1, <1>2, LockAtInvariant, SavesAreExclusive, PTL DEF Spec, LocksImplemented, Lock!Spec

\* A thread waits in flock for nobody but a thread that is parsing or moving the
\* mail: its next step is not to obtain another lock.
HoldersGoOn ==
  \A t, u \in Thread :
    pc[t] = "flock" /\ fd[u] = fd[t] /\ phase[u] \in Lock!Holding
      => /\ u # t /\ cur[u] = path[u]
         /\ \/ pc[u] \in {"text", "list", "read", "rename", "remove"} /\ phase[u] = "locked"
            \/ pc[u] = "close" /\ phase[u] = "removed"

\* No thread waits for a lock while it has one, and none stops with one: there is
\* no circle of sessions that wait for each other, in whatever order their
\* listings go through the mails.
THEOREM NoHoldAndWait == Spec => []HoldersGoOn
<1>1. TypeOK /\ LockAt => HoldersGoOn
  BY DEF TypeOK, LockAt, HoldersGoOn, Lock!Holding, Lock!Phase
<1> QED BY <1>1, LockAtInvariant, SavesAreExclusive, PTL

\* What FileLockProofs says of any lock, it says of those of the mails.
MailLock == INSTANCE FileLockProofs WITH
  Server <- {Thread}, File <- Mail, MailFile <- Mail, NoFile <- NoMail

\* Where a session has the lock file of its mail open and has not removed it.
LockedAt == {"flock", "text", "list", "read", "rename", "remove"}

\* As long as the server has not crashed, there is no lock file in the directory of a
\* mail in the inbox unless some session is parsing or deleting that mail; those that
\* stay lie in the archive.
NoLockLeft ==
  /\ crashes = 0 =>
       \A m \in Mail : bound[m] # NoInode => \E t \in Thread : cur[t] = m /\ pc[t] \in LockedAt
  /\ \A m \in archived : dir[m] = "moved" /\ bound[m] = NoInode

\* The end of a listing or deletion, be it an exception, leaves no lock file in the
\* inbox, even where several sessions have removed each other's files: those that
\* stay are in the archive, with the mails that were deleted.
THEOREM PoolLeavesNoLocks == Spec => []NoLockLeft
<1>1. Spec => []MailLock!LeftoversArchived
  <2>1. MailLock!FileLockAssumption
    BY MailPoolAssumption DEF MailLock!FileLockAssumption
  <2>2. Lock!Init => MailLock!Init
    BY DEF Lock!Init, Lock!LockInit, MailLock!Init, MailLock!LockInit
  <2>3. [Lock!Next]_(Lock!fileLockVars) => [MailLock!Next]_(MailLock!fileLockVars)
    BY DEF Lock!Next, Lock!Use, Lock!Open, Lock!Flock, Lock!Remove, Lock!Close, Lock!MoveDir,
           Lock!MakeDir, Lock!Crash, Lock!Abandon, Lock!Unused, Lock!InUse, Lock!Holding,
           Lock!fileLockVars, Lock!lockVars,
           MailLock!Next, MailLock!Use, MailLock!Open, MailLock!Flock, MailLock!Remove,
           MailLock!Close, MailLock!MoveDir, MailLock!MakeDir, MailLock!Crash,
           MailLock!Abandon, MailLock!Unused, MailLock!InUse, MailLock!Holding,
           MailLock!fileLockVars, MailLock!lockVars
  <2>4. Spec => MailLock!Spec
    BY <2>2, <2>3, LocksAreFileLocks, PTL DEF LocksImplemented, Lock!Spec, MailLock!Spec
  <2>5. MailLock!Spec => []MailLock!LeftoversArchived
    BY <2>1, MailLock!LeftoversInArchive
  <2> QED BY <2>4, <2>5, PTL
<1>2. TypeOK /\ LockAt /\ MailLock!LeftoversArchived => NoLockLeft
  <2> SUFFICES ASSUME TypeOK, LockAt, MailLock!LeftoversArchived, crashes = 0,
                      NEW m \in Mail, bound[m] # NoInode
               PROVE  \E t \in Thread : cur[t] = m /\ pc[t] \in LockedAt
    BY DEF NoLockLeft, MailLock!LeftoversArchived
  <2>1. PICK t \in Thread : path[t] = m /\ phase[t] \in {"opened", "locked"}
    BY DEF MailLock!LeftoversArchived, TypeOK
  <2>2. cur[t] = m /\ pc[t] \in LockedAt
    BY <2>1 DEF LockAt, LockedAt, MailLock!TypeOK
  <2> QED BY <2>2
<1> QED BY <1>1, <1>2, LockAtInvariant, SavesAreExclusive, PTL

=============================================================================
