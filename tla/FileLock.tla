------------------------------ MODULE FileLock ------------------------------
(***************************************************************************)
(* class filelock: a lock file that try_lock opens, creates if need be, and *)
(* locks with flock, and that unlock removes and closes again.  flock locks *)
(* the inode an open file refers to, remove takes away a name, so the model *)
(* keeps the two apart: names are members of File, what they are bound to   *)
(* is an Inode.                                                             *)
(*                                                                          *)
(* The lock of a mail lies in the directory of the mail, which delete_mail  *)
(* moves to the archive while it holds that lock, and the lock file goes    *)
(* with it; such a directory has a name of its own and never comes back.    *)
(* The lock of the blacklist lies in the mail pool itself, which stays.     *)
(* All callers pass block = true.                                           *)
(***************************************************************************)
EXTENDS Naturals, FiniteSets

CONSTANTS
  Thread,     \* who uses the locks
  Server,     \* the server processes: disjoint sets of threads
  File,       \* paths of lock files
  MailFile,   \* those of them that lie in the directory of a mail
  Inode,      \* enough of them for one per thread and one per file
  NoFile, NoInode,
  MaxCrashes  \* bound: how many server processes end

ASSUME FileLockAssumption ==
  /\ Server \subseteq SUBSET Thread /\ MailFile \subseteq File
  /\ NoFile \notin File /\ NoInode \notin Inode
  /\ MaxCrashes \in Nat

VARIABLES
  dir,       \* the directory of a lock file: "absent", "there" or "moved"
  bound,     \* the inode a lock file's path is bound to
  archived,  \* the lock files that lie in the archive
  path,      \* fn of the thread's filelock
  fd,        \* the inode its fd refers to
  phase,     \* how far the thread is in try_lock and unlock
  crashes    \* history: server processes that have ended

lockVars == <<bound, archived, path, fd, phase>>
fileLockVars == <<dir, lockVars, crashes>>

Holding == {"locked", "removed"}

Phase == {"none", "opened"} \cup Holding

TypeOK ==
  /\ dir \in [File -> {"absent", "there", "moved"}]
  /\ bound \in [File -> Inode \cup {NoInode}]
  /\ archived \subseteq File
  /\ path \in [Thread -> File \cup {NoFile}]
  /\ fd \in [Thread -> Inode \cup {NoInode}]
  /\ phase \in [Thread -> Phase]
  /\ crashes \in 0..MaxCrashes
  /\ \A t \in Thread : /\ phase[t] = "none" <=> fd[t] = NoInode
                       /\ phase[t] = "none" <=> path[t] = NoFile

LockInit ==
  /\ bound = [f \in File |-> NoInode]
  /\ archived = {}
  /\ path = [t \in Thread |-> NoFile]
  /\ fd = [t \in Thread |-> NoInode]
  /\ phase = [t \in Thread |-> "none"]

Init ==
  /\ dir = [f \in File |-> IF f \in MailFile THEN "absent" ELSE "there"]
  /\ LockInit /\ crashes = 0

-----------------------------------------------------------------------------
(* The operations.  They speak of lockVars only, so that the mail pool can   *)
(* make them part of its own steps.                                          *)

InUse == {fd[t] : t \in Thread} \cup {bound[f] : f \in File}

\* A new inode; which one makes no difference.  One in the archive that is not open
\* need not be told from it, as nobody opens a lock file there.
Unused == CHOOSE i \in Inode : i \notin InUse

\* try_lock: open with O_CREAT.  Without the directory it throws, and nothing
\* has changed.
Open(t, f) ==
  /\ phase[t] = "none" /\ dir[f] = "there"
  /\ \/ bound[f] # NoInode /\ UNCHANGED bound /\ fd' = [fd EXCEPT ![t] = bound[f]]
     \/ /\ bound[f] = NoInode /\ Inode \ InUse # {}
        /\ bound' = [bound EXCEPT ![f] = Unused] /\ fd' = [fd EXCEPT ![t] = Unused]
  /\ path' = [path EXCEPT ![t] = f]
  /\ phase' = [phase EXCEPT ![t] = "opened"]
  /\ UNCHANGED archived

\* try_lock: flock with LOCK_EX blocks while another open file of the same
\* inode is locked.
Flock(t) ==
  /\ phase[t] = "opened"
  /\ \A u \in Thread : fd[u] = fd[t] => phase[u] \notin Holding
  /\ phase' = [phase EXCEPT ![t] = "locked"]
  /\ UNCHANGED <<bound, archived, path, fd>>

\* Mutant of Remove: the lock file stays.
RemoveNothing(t) ==
  /\ phase[t] = "locked"
  /\ phase' = [phase EXCEPT ![t] = "removed"]
  /\ UNCHANGED <<bound, archived, path, fd>>

\* unlock: remove takes the path away, whatever inode it is bound to by now; it
\* fails unnoticed where there is nothing, and the archive is another path.
Remove(t) ==
  /\ phase[t] = "locked"
  /\ phase' = [phase EXCEPT ![t] = "removed"]
  /\ bound' = [bound EXCEPT ![path[t]] = NoInode]
  /\ UNCHANGED <<archived, path, fd>>

\* Mutant of Close: the descriptor stays open.
CloseLeaking(t) ==
  /\ phase[t] = "removed"
  /\ phase' = [phase EXCEPT ![t] = "none"]
  /\ path' = [path EXCEPT ![t] = NoFile]
  /\ UNCHANGED <<bound, archived, fd>>

\* unlock: close gives up the lock.
Close(t) ==
  /\ phase[t] = "removed"
  /\ phase' = [phase EXCEPT ![t] = "none"]
  /\ path' = [path EXCEPT ![t] = NoFile]
  /\ fd' = [fd EXCEPT ![t] = NoInode]
  /\ UNCHANGED <<bound, archived>>

\* The end of a process closes its files; the names stay.
Abandon(P) ==
  /\ phase' = [t \in Thread |-> IF t \in P THEN "none" ELSE phase[t]]
  /\ path' = [t \in Thread |-> IF t \in P THEN NoFile ELSE path[t]]
  /\ fd' = [t \in Thread |-> IF t \in P THEN NoInode ELSE fd[t]]
  /\ UNCHANGED <<bound, archived>>

-----------------------------------------------------------------------------
(* The life of the lock files.                                               *)

\* save_mail: a new directory, without a lock file.
MakeDir(f) ==
  /\ dir[f] = "absent" /\ dir' = [dir EXCEPT ![f] = "there"]
  /\ UNCHANGED <<lockVars, crashes>>

\* delete_mail: the holder moves the directory, and the lock file with it: its own,
\* or a newer one, or none if another holder of the path has removed it.
MoveDir(t) ==
  /\ phase[t] = "locked" /\ path[t] \in MailFile /\ dir[path[t]] = "there"
  /\ dir' = [dir EXCEPT ![path[t]] = "moved"]
  /\ archived' = archived \cup {f \in {path[t]} : bound[f] # NoInode}
  /\ bound' = [bound EXCEPT ![path[t]] = NoInode]
  /\ UNCHANGED <<path, fd, phase, crashes>>

Crash ==
  /\ crashes < MaxCrashes /\ crashes' = crashes + 1
  /\ \E P \in Server : Abandon(P)
  /\ UNCHANGED dir

Use(t) ==
  /\ (\E f \in File : Open(t, f)) \/ Flock(t) \/ Remove(t) \/ Close(t)
  /\ UNCHANGED <<dir, crashes>>

Next ==
  \/ \E t \in Thread : Use(t) \/ MoveDir(t)
  \/ \E f \in File : MakeDir(f)
  \/ Crash

Spec == Init /\ [][Next]_fileLockVars

\* A thread that has opened the lock file goes on as soon as it can.  Weak
\* fairness: nothing makes flock favour a thread that has waited for long.
Continue(t) == (Flock(t) \/ Remove(t) \/ Close(t)) /\ UNCHANGED <<dir, crashes>>

FairSpec == Spec /\ \A t \in Thread : WF_fileLockVars(Continue(t))

-----------------------------------------------------------------------------
(* Properties.                                                               *)

\* What unlock leaves behind lies in the archive.  Where others look for it, at
\* its path, a lock file lies about only while somebody who will remove it has it
\* open, although removers may take away each other's files.  delete_mail moves
\* the lock file away from under its remover, so that it stays in the archive for
\* good; but no newcomer finds it there, or puts another one in its old place.  (A
\* process that dies may leave one anywhere.)
LeftoversArchived ==
  /\ crashes = 0 =>
       \A f \in File : bound[f] # NoInode =>
         \E t \in Thread : path[t] = f /\ fd[t] = bound[f] /\ phase[t] \in {"opened", "locked"}
  /\ \A f \in archived : dir[f] = "moved" /\ bound[f] = NoInode

\* Nobody finds an inode whose lock is being given up: its path has been taken
\* away (after a DEL it may have a name in the archive).  Those who wait for it by
\* then are the last ever to get it, nobody joins them.
ReleasedIsUnlinked ==
  \A t \in Thread : phase[t] = "removed" => \A f \in File : bound[f] # fd[t]

\* Everyone who waits for the lock gets it, though flock need not be fair and
\* new users keep coming, and whatever a dead process has left behind.
WaitersServed ==
  \A t \in Thread : phase[t] = "opened" ~> phase[t] # "opened"

\* "Obtain exclusive file lock by OS" (mailpoolservice.cpp): two threads never
\* hold the lock of one path.
MutualExclusion ==
  \A t, u \in Thread :
    t # u /\ phase[t] = "locked" /\ phase[u] = "locked" => path[t] # path[u]

=============================================================================
