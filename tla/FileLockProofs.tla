--------------------------- MODULE FileLockProofs ---------------------------
(***************************************************************************)
(* Theorems about FileLock, for any number of threads, server processes,    *)
(* lock files and crashes.                                                  *)
(***************************************************************************)
EXTENDS FileLock, TLAPS

\* The inode a file is created with is new.
LEMMA UnusedIsNew ==
  ASSUME Inode \ InUse # {}
  PROVE  Unused \in Inode /\ Unused \notin InUse
BY DEF Unused

-----------------------------------------------------------------------------

\* A thread has its lock file open exactly while it is between try_lock and the
\* end of unlock: no descriptor is left behind.
THEOREM TypeCorrect == Spec => []TypeOK
<1>1. Init => TypeOK
  BY FileLockAssumption DEF Init, LockInit, TypeOK, Phase
<1>2. TypeOK /\ [Next]_fileLockVars => TypeOK'
  <2> SUFFICES ASSUME TypeOK, [Next]_fileLockVars PROVE TypeOK'
    OBVIOUS
  <2> USE FileLockAssumption DEF TypeOK
  <2>1. ASSUME NEW t \in Thread, Use(t) PROVE TypeOK'
    <3>1. ASSUME NEW f \in File, Open(t, f) PROVE TypeOK'
      <4>1. CASE bound[f] # NoInode /\ UNCHANGED bound /\ fd' = [fd EXCEPT ![t] = bound[f]]
        BY <2>1, <3>1, <4>1 DEF Open, Use, Phase
      <4>2. CASE /\ bound[f] = NoInode /\ Inode \ InUse # {}
                 /\ bound' = [bound EXCEPT ![f] = Unused] /\ fd' = [fd EXCEPT ![t] = Unused]
        <5>1. Unused \in Inode
          BY <4>2, UnusedIsNew
        <5> QED BY <2>1, <3>1, <4>2, <5>1 DEF Open, Use, Phase
      <4> QED BY <3>1, <4>1, <4>2 DEF Open
    <3>2. CASE Flock(t)
      BY <2>1, <3>2 DEF Flock, Use, Phase, Holding
    <3>3. CASE Remove(t)
      BY <2>1, <3>3 DEF Remove, Use, Phase, Holding
    <3>4. CASE Close(t)
      BY <2>1, <3>4 DEF Close, Use, Phase
    <3> QED BY <2>1, <3>1, <3>2, <3>3, <3>4 DEF Use
  <2>2. ASSUME NEW t \in Thread, MoveDir(t) PROVE TypeOK'
    BY <2>2 DEF MoveDir
  <2>3. ASSUME NEW f \in File, MakeDir(f) PROVE TypeOK'
    BY <2>3 DEF MakeDir, lockVars
  <2>4. CASE Crash
    BY <2>4 DEF Crash, Abandon, Phase
  <2>5. CASE UNCHANGED fileLockVars
    BY <2>5 DEF fileLockVars, lockVars
  <2> QED BY <2>1, <2>2, <2>3, <2>4, <2>5 DEF Next
<1> QED BY <1>1, <1>2, PTL DEF Spec

-----------------------------------------------------------------------------

\* An inode has at most one path, and who has it open has opened it there.
OneName ==
  /\ \A f, g \in File : bound[f] = bound[g] /\ bound[f] # NoInode => f = g
  /\ \A t \in Thread, f \in File : bound[f] # NoInode /\ fd[t] = bound[f] => path[t] = f

LEMMA OneNameInvariant == Spec => []OneName
<1>1. Init => OneName
  BY DEF Init, LockInit, OneName
<1>2. TypeOK /\ OneName /\ [Next]_fileLockVars => OneName'
  <2> SUFFICES ASSUME TypeOK, OneName, [Next]_fileLockVars PROVE OneName'
    OBVIOUS
  <2> USE DEF OneName, TypeOK
  <2>1. ASSUME NEW t \in Thread, Use(t) PROVE OneName'
    <3>1. ASSUME NEW f \in File, Open(t, f) PROVE OneName'
      <4>1. CASE bound[f] # NoInode /\ UNCHANGED bound /\ fd' = [fd EXCEPT ![t] = bound[f]]
        BY <3>1, <4>1 DEF Open
      <4>2. CASE /\ bound[f] = NoInode /\ Inode \ InUse # {}
                 /\ bound' = [bound EXCEPT ![f] = Unused] /\ fd' = [fd EXCEPT ![t] = Unused]
        <5>1. /\ \A g \in File : bound[g] # Unused
              /\ \A u \in Thread : fd[u] # Unused
          BY <4>2, UnusedIsNew DEF InUse
        <5> QED BY <3>1, <4>2, <5>1 DEF Open
      <4> QED BY <3>1, <4>1, <4>2 DEF Open
    <3>2. CASE Flock(t)
      BY <3>2 DEF Flock
    <3>3. CASE Remove(t)
      BY <3>3 DEF Remove
    <3>4. CASE Close(t)
      BY <3>4 DEF Close
    <3> QED BY <2>1, <3>1, <3>2, <3>3, <3>4 DEF Use
  <2>2. ASSUME NEW t \in Thread, MoveDir(t) PROVE OneName'
    BY <2>2 DEF MoveDir
  <2>3. CASE Crash
    BY <2>3 DEF Crash, Abandon
  <2>4. CASE (\E f \in File : MakeDir(f)) \/ UNCHANGED fileLockVars
    BY <2>4 DEF MakeDir, fileLockVars, lockVars
  <2> QED BY <2>1, <2>2, <2>3, <2>4 DEF Next
<1> QED BY <1>1, <1>2, TypeCorrect, PTL DEF Spec

\* An inode whose lock is being given up has lost its name, even if the remover
\* took away the name of another one: the waiters of an inode are those that
\* opened it before its first unlock.
THEOREM ReleasedUnlinked == Spec => []ReleasedIsUnlinked
<1>1. Init => ReleasedIsUnlinked
  BY DEF Init, LockInit, ReleasedIsUnlinked
<1>2. TypeOK /\ OneName /\ ReleasedIsUnlinked /\ [Next]_fileLockVars => ReleasedIsUnlinked'
  <2> SUFFICES ASSUME TypeOK, OneName, ReleasedIsUnlinked, [Next]_fileLockVars
               PROVE  ReleasedIsUnlinked'
    OBVIOUS
  <2> USE FileLockAssumption DEF ReleasedIsUnlinked, TypeOK
  <2>1. ASSUME NEW t \in Thread, Use(t) PROVE ReleasedIsUnlinked'
    <3>1. ASSUME NEW f \in File, Open(t, f) PROVE ReleasedIsUnlinked'
      <4>1. CASE bound[f] # NoInode /\ UNCHANGED bound /\ fd' = [fd EXCEPT ![t] = bound[f]]
        BY <3>1, <4>1 DEF Open
      <4>2. CASE /\ bound[f] = NoInode /\ Inode \ InUse # {}
                 /\ bound' = [bound EXCEPT ![f] = Unused] /\ fd' = [fd EXCEPT ![t] = Unused]
        <5>1. \A u \in Thread : fd[u] # Unused
          BY <4>2, UnusedIsNew DEF InUse
        <5> QED BY <3>1, <4>2, <5>1 DEF Open
      <4> QED BY <3>1, <4>1, <4>2 DEF Open
    <3>2. CASE Flock(t)
      BY <3>2 DEF Flock
    <3>3. CASE Remove(t)
      <4>1. path[t] \in File /\ bound' = [bound EXCEPT ![path[t]] = NoInode] /\ fd' = fd
        BY <3>3 DEF Remove
      <4>2. \A f \in File : bound'[f] # fd[t]
        BY <3>3, <4>1 DEF Remove, OneName
      <4>3. \A u \in Thread : phase'[u] = "removed" => u = t \/ phase[u] = "removed"
        BY <3>3 DEF Remove
      <4>4. ASSUME NEW u \in Thread, phase[u] = "removed", NEW f \in File PROVE bound'[f] # fd[u]
        BY <4>1, <4>4
      <4> QED BY <4>1, <4>2, <4>3, <4>4
    <3>4. CASE Close(t)
      BY <3>4 DEF Close
    <3> QED BY <2>1, <3>1, <3>2, <3>3, <3>4 DEF Use
  <2>2. ASSUME NEW t \in Thread, MoveDir(t) PROVE ReleasedIsUnlinked'
    <3>1. /\ path[t] \in File /\ bound' = [bound EXCEPT ![path[t]] = NoInode]
          /\ UNCHANGED <<fd, phase>>
      BY <2>2 DEF MoveDir
    <3>2. ASSUME NEW u \in Thread, phase[u] = "removed", NEW f \in File PROVE bound'[f] # fd[u]
      BY <3>1, <3>2
    <3> QED BY <3>1, <3>2
  <2>3. CASE Crash
    BY <2>3 DEF Crash, Abandon
  <2>4. CASE (\E f \in File : MakeDir(f)) \/ UNCHANGED fileLockVars
    BY <2>4 DEF MakeDir, fileLockVars, lockVars
  <2> QED BY <2>1, <2>2, <2>3, <2>4 DEF Next
<1> QED BY <1>1, <1>2, TypeCorrect, OneNameInvariant, PTL DEF Spec

-----------------------------------------------------------------------------

\* Once the name of an inode is gone, nobody opens that inode any more: the
\* threads that have it open are its last, and they become fewer only.
NobodyJoins ==
  [][\A i \in Inode :
       (\E t \in Thread : fd[t] = i) /\ (\A f \in File : bound[f] # i)
         => \A u \in Thread : fd'[u] = i => fd[u] = i]_fileLockVars

\* What lets flock be unfair: the lock file that is removed with every unlock ends
\* the queue at it, and newcomers make a queue of their own.
THEOREM QueuesOnlyShrink == Spec => NobodyJoins
<1>1. TypeOK /\ Next =>
        \A i \in Inode :
          (\E t \in Thread : fd[t] = i) /\ (\A f \in File : bound[f] # i)
            => \A u \in Thread : fd'[u] = i => fd[u] = i
  <2> SUFFICES ASSUME TypeOK, Next, NEW i \in Inode, NEW u \in Thread, fd'[u] = i,
                      \E t \in Thread : fd[t] = i, \A f \in File : bound[f] # i
               PROVE  fd[u] = i
    OBVIOUS
  <2> USE DEF TypeOK
  <2>0. NoInode # i
    BY FileLockAssumption
  <2>1. ASSUME NEW t \in Thread, Use(t) PROVE fd[u] = i
    <3>1. ASSUME NEW f \in File, Open(t, f) PROVE fd[u] = i
      <4>1. fd'[t] # i
        <5>1. Inode \ InUse # {} => Unused # i
          BY UnusedIsNew DEF InUse
        <5> QED BY <3>1, <5>1 DEF Open
      <4>2. u # t => fd'[u] = fd[u]
        BY <3>1 DEF Open
      <4> QED BY <4>1, <4>2
    <3>2. CASE Flock(t) \/ Remove(t)
      BY <3>2 DEF Flock, Remove
    <3>3. CASE Close(t)
      BY <2>0, <3>3 DEF Close
    <3> QED BY <2>1, <3>1, <3>2, <3>3 DEF Use
  <2>2. CASE Crash
    BY <2>0, <2>2 DEF Crash, Abandon
  <2>3. CASE (\E t \in Thread : MoveDir(t)) \/ (\E f \in File : MakeDir(f))
    BY <2>3 DEF MoveDir, MakeDir, lockVars
  <2> QED BY <2>1, <2>2, <2>3 DEF Next
<1> QED BY <1>1, TypeCorrect, PTL DEF Spec, NobodyJoins

-----------------------------------------------------------------------------

\* As long as no process has died, every lock file is open in a thread that is
\* going to remove it, or lies in the archive, where nobody finds it: the lock
\* files a server leaves behind are those of deleted mails.
THEOREM LeftoversInArchive == Spec => []LeftoversArchived
<1>1. Init => LeftoversArchived
  BY DEF Init, LockInit, LeftoversArchived
<1>2. TypeOK /\ LeftoversArchived /\ [Next]_fileLockVars => LeftoversArchived'
  <2> SUFFICES ASSUME TypeOK, LeftoversArchived, [Next]_fileLockVars
               PROVE  LeftoversArchived'
    OBVIOUS
  <2> USE FileLockAssumption DEF TypeOK, LeftoversArchived
  <2>1. ASSUME NEW t \in Thread, Use(t) PROVE LeftoversArchived'
    <3>1. ASSUME NEW f \in File, Open(t, f) PROVE LeftoversArchived'
      <4>1. /\ bound'[f] = fd'[t] /\ path'[t] = f /\ phase'[t] = "opened"
            /\ \A g \in File \ {f} : bound'[g] = bound[g]
            /\ \A u \in Thread \ {t} : path'[u] = path[u] /\ fd'[u] = fd[u] /\ phase'[u] = phase[u]
        BY <3>1 DEF Open
      <4>2. phase[t] = "none" /\ dir[f] = "there" /\ UNCHANGED <<dir, archived, crashes>>
        BY <2>1, <3>1 DEF Open, Use
      <4> QED BY <4>1, <4>2
    <3>2. CASE Flock(t)
      BY <2>1, <3>2 DEF Flock, Use
    <3>3. CASE Remove(t)
      BY <2>1, <3>3 DEF Remove, Use
    <3>4. CASE Close(t)
      BY <2>1, <3>4 DEF Close, Use
    <3> QED BY <2>1, <3>1, <3>2, <3>3, <3>4 DEF Use
  <2>2. ASSUME NEW t \in Thread, MoveDir(t) PROVE LeftoversArchived'
    BY <2>2 DEF MoveDir
  <2>3. CASE Crash
    BY <2>3 DEF Crash, Abandon
  <2>4. CASE (\E f \in File : MakeDir(f)) \/ UNCHANGED fileLockVars
    BY <2>4 DEF MakeDir, fileLockVars, lockVars
  <2> QED BY <2>1, <2>2, <2>3, <2>4 DEF Next
<1> QED BY <1>1, <1>2, TypeCorrect, PTL DEF Spec

=============================================================================
