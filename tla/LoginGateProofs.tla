--------------------------- MODULE LoginGateProofs ---------------------------
(***************************************************************************)
(* Theorems about LoginGate, for any number of threads and addresses, any   *)
(* timeout, and any value of the bounds; the last of them say that it       *)
(* implements LoginPolicy as long as no two connections share an address.   *)
(***************************************************************************)
EXTENDS LoginGate, FiniteSetTheorems, TLAPS

-----------------------------------------------------------------------------
(* Type correctness.                                                        *)

\* The table holds counts and times, the file lines, and every thread is at a
\* place of run_protocol with an address it may use as a key of the table.
THEOREM TypeCorrect == Spec => []TypeOK
<1>1. Init => TypeOK
  <2> SUFFICES ASSUME Init PROVE TypeOK
    OBVIOUS
  <2>1. /\ up \in BOOLEAN
        /\ known \in [Session -> BOOLEAN] /\ success \in [Session -> BOOLEAN]
        /\ loggedIn \in [Session -> BOOLEAN]
    BY Zenon DEF Init
  <2> QED BY <2>1 DEF Init, TypeOK, Location
<1>2. TypeOK /\ [Next]_vars => TypeOK'
  <2> SUFFICES ASSUME TypeOK, [Next]_vars PROVE TypeOK'
    OBVIOUS
  <2> USE DEF TypeOK
  <2>1. CASE Start
    <3>1. Saved \subseteq Address
      BY DEF Line, Saved
    <3>2. \A a \in Saved : SavedSec(a) \in Nat
      <4> TAKE a \in Saved
      <4>1. \E l \in disk : l.addr = a
        BY DEF Saved
      <4>2. (CHOOSE l \in disk : l.addr = a) \in disk
        BY <4>1
      <4> QED BY <4>2 DEF Line, SavedSec
    <3>3. listed' = Saved
      BY <2>1 DEF Start
    <3>4. /\ numAttempts' \in [Address -> Nat] /\ streak' \in [Address -> Nat]
          /\ lastSec' \in [Address -> Nat] /\ late' \in [Address -> Nat]
      BY <2>1, <3>2 DEF Start, Limit
    <3>5. up' \in BOOLEAN
      BY <2>1 DEF Start
    <3> QED BY <2>1, <3>1, <3>3, <3>4, <3>5 DEF Start, file
  <2>2. CASE Stop
    <3>1. /\ up' \in BOOLEAN
          /\ known' \in [Session -> BOOLEAN] /\ success' \in [Session -> BOOLEAN]
          /\ loggedIn' \in [Session -> BOOLEAN]
      BY <2>2, Zenon DEF Stop
    <3> QED BY <2>2, <3>1 DEF Stop, Location
  <2>3. CASE Tick
    BY <2>3 DEF Tick, table, file, history
  <2>4. ASSUME NEW s \in Session, ClientStep(s) PROVE TypeOK'
    <3>1. ASSUME NEW a \in Address, Accept(s, a) PROVE TypeOK'
      <4>1. pc' = [pc EXCEPT ![s] = "greet"] /\ addr' = [addr EXCEPT ![s] = a]
        BY <3>1 DEF Accept
      <4>2. /\ pc' \in [Session -> Location] /\ addr' \in [Session -> Address \cup {Nobody}]
            /\ \A r \in Session : pc'[r] = "idle" <=> addr'[r] = Nobody
        BY <4>1, GateAssumption DEF Location
      <4>3. loggedIn' \in [Session -> BOOLEAN]
        BY <3>1 DEF Accept
      <4> QED BY <3>1, <4>2, <4>3 DEF Accept, table, file, history
    <3>2. CASE ReadLogin(s)
      BY <3>2 DEF ReadLogin, Goto, Location, table, file, history
    <3>3. CASE Logout(s)
      BY <3>3 DEF Logout, table, file, history
    <3>4. CASE HangUp(s)
      BY <3>4 DEF HangUp, Goto, Location, table, file, history
    <3> QED BY <2>4, <3>1, <3>2, <3>3, <3>4 DEF ClientStep
  <2>5. ASSUME NEW s \in Session, Greet(s) PROVE TypeOK'
    BY <2>5 DEF Greet, Goto, Location, table, file, history
  <2>6. ASSUME NEW s \in Session, LoginStep(s) PROVE TypeOK'
    <3>1. CASE Gate(s)
      BY <3>1 DEF Gate, Goto, Location, table, file, history
    <3>2. CASE Lookup(s)
      BY <3>2 DEF Lookup, Goto, Location, table, file, history
    <3>3. CASE Authenticate(s)
      <4>1. /\ success' \in [Session -> BOOLEAN] /\ loggedIn' \in [Session -> BOOLEAN]
        BY <3>3 DEF Authenticate, Decide
      <4> QED BY <3>3, <4>1 DEF Authenticate, Decide, Goto, Location, table, file, history
    <3>4. CASE Insert(s)
      <4>1. addr[s] \in Address
        BY <3>4 DEF Insert, Goto
      <4>2. /\ listed' \subseteq Address
            /\ numAttempts' \in [Address -> Nat] /\ lastSec' \in [Address -> Nat]
        BY <3>4, <4>1 DEF Insert, table
      <4> QED BY <3>4, <4>2 DEF Insert, Goto, Location, file, history
    <3>5. CASE Count(s)
      <4>1. addr[s] \in Address
        BY <3>5 DEF Count, Goto
      <4>2. /\ numAttempts' \in [Address -> Nat] /\ lastSec' \in [Address -> Nat]
            /\ streak' \in [Address -> Nat] /\ late' \in [Address -> Nat]
        BY <3>5, <4>1 DEF Count, CountFailure, ClearCount
      <4> QED BY <3>5, <4>2 DEF Count, Goto, Location, file
    <3>6. CASE Reply(s)
      BY <3>6 DEF Reply, LeaveLoginBlock, Goto, Location, table, file, history
    <3> QED BY <2>6, <3>1, <3>2, <3>3, <3>4, <3>5, <3>6 DEF LoginStep
  <2>7. ASSUME NEW s \in Session, SaveStep(s) PROVE TypeOK'
    <3>1. CASE StartSave(s)
      <4>1. unsaved' \subseteq Line /\ disk' \subseteq Line
        BY <3>1 DEF StartSave, BlockedLines, Line
      <4> QED BY <3>1, <4>1 DEF StartSave, Goto, Location, table, history
    <3>2. CASE AppendLine(s)
      BY <3>2 DEF AppendLine, table, history
    <3>3. CASE FinishSave(s)
      BY <3>3 DEF FinishSave, Goto, Location, table, file, history
    <3> QED BY <2>7, <3>1, <3>2, <3>3 DEF SaveStep
  <2>8. CASE UNCHANGED vars
    BY <2>8 DEF vars, table, file, history
  <2> QED BY <2>1, <2>2, <2>3, <2>4, <2>5, <2>6, <2>7, <2>8 DEF Next
<1> QED BY <1>1, <1>2, PTL DEF Spec

-----------------------------------------------------------------------------
(* The mutex.                                                               *)

\* A server that is not running has no threads.
DownIdle == ~up => \A s \in Session : pc[s] = "idle"

LEMMA DownIdleInvariant == Spec => []DownIdle
<1>1. Init => DownIdle
  BY DEF Init, DownIdle
<1>2. TypeOK /\ DownIdle /\ [Next]_vars => DownIdle'
  <2> SUFFICES ASSUME TypeOK, DownIdle, [Next]_vars PROVE DownIdle'
    OBVIOUS
  <2> USE DEF DownIdle
  <2>1. CASE Start \/ Stop \/ Tick
    BY <2>1 DEF Start, Stop, Tick
  <2>2. ASSUME NEW s \in Session, ClientStep(s) \/ Greet(s) \/ LoginStep(s) \/ SaveStep(s)
        PROVE  DownIdle'
    <3>1. up' = up
      BY <2>2 DEF ClientStep, Accept, ReadLogin, Logout, HangUp, Greet, LoginStep, Gate, Lookup,
                  Authenticate, Insert, Count, Reply, SaveStep, StartSave, AppendLine, FinishSave
    <3>2. up \/ pc[s] # "idle"
      BY <2>2 DEF ClientStep, Accept, ReadLogin, Logout, HangUp, Greet, LoginStep, Gate, Lookup,
                  Authenticate, Insert, Count, Reply, SaveStep, StartSave, AppendLine, FinishSave,
                  Goto
    <3> QED BY <3>1, <3>2
  <2>3. CASE UNCHANGED vars
    BY <2>3 DEF vars
  <2> QED BY <2>1, <2>2, <2>3 DEF Next
<1> QED BY <1>1, <1>2, TypeCorrect, PTL DEF Spec

\* Two threads are never both between obtaining login_attempts_mutex and
\* releasing it, however many there are.
THEOREM MutexHeld == Spec => []MutexDiscipline
<1>1. Init => MutexDiscipline
  BY GateAssumption DEF Init, MutexDiscipline
<1>2. TypeOK /\ MutexDiscipline /\ [Next]_vars => MutexDiscipline'
  <2> SUFFICES ASSUME TypeOK, MutexDiscipline, [Next]_vars PROVE MutexDiscipline'
    OBVIOUS
  <2>0. Nobody \notin Session
    BY GateAssumption
  <2> USE DEF MutexDiscipline
  <2>1. CASE Start \/ Tick
    BY <2>1 DEF Start, Tick
  <2>2. CASE Stop
    BY <2>2, <2>0 DEF Stop
  <2>3. ASSUME NEW s \in Session, ClientStep(s) \/ Greet(s) PROVE MutexDiscipline'
    BY <2>3 DEF ClientStep, Accept, Live, ReadLogin, Logout, HangUp, Greet, Goto, TypeOK
  <2>4. ASSUME NEW s \in Session, LoginStep(s) PROVE MutexDiscipline'
    <3>1. CASE Gate(s) \/ Lookup(s) \/ Authenticate(s) \/ Insert(s)
      BY <3>1 DEF Gate, Lookup, Authenticate, Insert, Goto, TypeOK
    <3>2. CASE Count(s)
      BY <3>2, <2>0 DEF Count, Goto, TypeOK
    <3>3. CASE Reply(s)
      BY <3>3, <2>0 DEF Reply, Goto, TypeOK
    <3> QED BY <2>4, <3>1, <3>2, <3>3 DEF LoginStep
  <2>5. ASSUME NEW s \in Session, SaveStep(s) PROVE MutexDiscipline'
    BY <2>5, <2>0 DEF SaveStep, StartSave, AppendLine, FinishSave, Goto, TypeOK
  <2>6. CASE UNCHANGED vars
    BY <2>6 DEF vars
  <2> QED BY <2>1, <2>2, <2>3, <2>4, <2>5, <2>6 DEF Next
<1> QED BY <1>1, <1>2, TypeCorrect, PTL DEF Spec

-----------------------------------------------------------------------------
(* The entry of the counting step.                                          *)

\* The unchecked look-up of the counting step finds an entry: a thread that is
\* past contains_ip has seen one or put one there, and no thread takes one
\* away.
THEOREM EntryFound == Spec => []EntryPresent
<1>1. Init => EntryPresent
  BY DEF Init, EntryPresent
<1>2. TypeOK /\ DownIdle /\ EntryPresent /\ [Next]_vars => EntryPresent'
  <2> SUFFICES ASSUME TypeOK, DownIdle, EntryPresent, [Next]_vars PROVE EntryPresent'
    OBVIOUS
  <2> USE DEF EntryPresent
  <2>1. CASE Start
    BY <2>1 DEF Start, DownIdle
  <2>2. CASE Stop
    BY <2>2 DEF Stop
  <2>3. CASE Tick
    BY <2>3 DEF Tick, table
  <2>4. ASSUME NEW s \in Session, ClientStep(s) \/ Greet(s) PROVE EntryPresent'
    BY <2>4 DEF ClientStep, Accept, Live, ReadLogin, Logout, HangUp, Greet, Goto, table, TypeOK
  <2>5. ASSUME NEW s \in Session, LoginStep(s) PROVE EntryPresent'
    <3>1. CASE Gate(s)
      BY <3>1 DEF Gate, Goto, table, TypeOK
    <3>2. CASE Lookup(s)
      BY <3>2 DEF Lookup, Goto, table, TypeOK
    <3>3. CASE Authenticate(s)
      BY <3>3 DEF Authenticate, Goto, table, TypeOK
    <3>4. CASE Insert(s)
      BY <3>4 DEF Insert, Goto, table, TypeOK
    <3>5. CASE Count(s)
      BY <3>5 DEF Count, Goto, TypeOK
    <3>6. CASE Reply(s)
      BY <3>6 DEF Reply, Goto, table, LeaveLoginBlock, TypeOK
    <3> QED BY <2>5, <3>1, <3>2, <3>3, <3>4, <3>5, <3>6 DEF LoginStep
  <2>6. ASSUME NEW s \in Session, SaveStep(s) PROVE EntryPresent'
    BY <2>6 DEF SaveStep, StartSave, AppendLine, FinishSave, Goto, table, TypeOK
  <2>7. CASE UNCHANGED vars
    BY <2>7 DEF vars, table
  <2> QED BY <2>1, <2>2, <2>3, <2>4, <2>5, <2>6, <2>7 DEF Next
<1> QED BY <1>1, <1>2, TypeCorrect, DownIdleInvariant, PTL DEF Spec

-----------------------------------------------------------------------------
(* Whom the gate blocks.                                                    *)

\* An entry never counts more failures than its address has had in a row, and an
\* address without an entry counts none.
Earned ==
  \A a \in Address : /\ numAttempts[a] <= streak[a]
                     /\ a \notin listed => numAttempts[a] = 0

\* Nobody is blocked without three failed logins in a row, counted in this
\* process or saved by one before, even if connections share an address: stale
\* look-ups lose counts, they never add any.
THEOREM NobodyIsOvercounted == Spec => []Earned
<1>1. Init => Earned
  BY DEF Init, Earned
<1>2. TypeOK /\ EntryPresent /\ Earned /\ [Next]_vars => Earned'
  <2> SUFFICES ASSUME TypeOK, EntryPresent, Earned, [Next]_vars PROVE Earned'
    OBVIOUS
  <2> USE DEF TypeOK, Earned
  <2>1. CASE Start
    <3>1. \A a \in Address : numAttempts'[a] = IF a \in listed' THEN Limit ELSE 0
      BY <2>1 DEF Start
    <3> QED BY <2>1, <3>1 DEF Start, Limit
  <2>2. CASE Stop
    BY <2>2 DEF Stop
  <2>3. ASSUME NEW s \in Session, Insert(s) PROVE Earned'
    <3>1. addr[s] \in Address
      BY <2>3 DEF Insert, Goto
    <3> QED BY <2>3, <3>1 DEF Insert, table, history
  <2>4. ASSUME NEW s \in Session, Count(s) PROVE Earned'
    <3>1. addr[s] \in Address /\ addr[s] \in listed /\ listed' = listed
      BY <2>4 DEF Count, Goto, EntryPresent
    <3>2. CASE CountFailure(s)
      BY <3>1, <3>2 DEF CountFailure
    <3>3. CASE ClearCount(s)
      BY <3>1, <3>3 DEF ClearCount
    <3> QED BY <2>4, <3>2, <3>3 DEF Count
  <2>5. ASSUME NEW s \in Session, ~Insert(s), ~Count(s),
               ClientStep(s) \/ Greet(s) \/ LoginStep(s) \/ SaveStep(s)
        PROVE  Earned'
    <3>1. UNCHANGED <<listed, numAttempts, streak>>
      BY <2>5 DEF ClientStep, Accept, ReadLogin, Logout, HangUp, Greet, LoginStep, Gate, Lookup,
                  Authenticate, Reply, SaveStep, StartSave, AppendLine, FinishSave, table, history
    <3> QED BY <3>1
  <2>6. CASE Tick \/ UNCHANGED vars
    BY <2>6 DEF Tick, vars, table, history
  <2> QED BY <2>1, <2>2, <2>3, <2>4, <2>5, <2>6 DEF Next
<1> QED BY <1>1, <1>2, TypeCorrect, EntryFound, PTL DEF Spec

-----------------------------------------------------------------------------
(* The file.                                                                *)

Saving == \E s \in Session : pc[s] = "saving"

\* The file and the table agree on one address.
Agree(a) ==
  /\ (\E l \in disk : l.addr = a) <=> (a \in listed /\ numAttempts[a] >= Limit)
  /\ \A l \in disk : l.addr = a => l.sec = lastSec[a]

\* While the file is written, what is on the disk and what is to come are what
\* serialize_blacklist found: the mutex keeps the table as it is.  Otherwise
\* file and table agree on all addresses that no thread serves.
FileInv ==
  /\ \A k, l \in disk \cup unsaved : k.addr = l.addr => k = l
  /\ Saving => disk \cup unsaved = BlockedLines
  /\ up /\ ~Saving => \A a \in Address : (\A s \in Session : addr[s] # a) => Agree(a)

\* Lines that hold the blocked addresses agree with the table.
LEMMA BlockedLinesAgree ==
  ASSUME disk = BlockedLines
  PROVE  \A a \in Address : Agree(a)
<1> SUFFICES ASSUME NEW a \in Address PROVE Agree(a)
  OBVIOUS
<1>1. \A l \in disk : l.addr \in listed /\ numAttempts[l.addr] >= Limit /\ l.sec = lastSec[l.addr]
  BY DEF BlockedLines
<1>2. ASSUME a \in listed, numAttempts[a] >= Limit PROVE \E l \in disk : l.addr = a
  <2>1. [addr |-> a, sec |-> lastSec[a]] \in disk
    BY <1>2 DEF BlockedLines
  <2> QED BY <2>1
<1> QED BY <1>1, <1>2 DEF Agree

\* serialize_blacklist writes one line per address.
LEMMA BlockedLinesUnique == \A k, l \in BlockedLines : k.addr = l.addr => k = l
BY DEF BlockedLines

LEMMA FileInvInitially == Init => FileInv
BY DEF Init, FileInv, Saving

\* Steps that leave the table, the file and the savers alone, and take no
\* thread from its address.
LEMMA FileInvKept ==
  ASSUME FileInv, UNCHANGED <<up, table, file>>, Saving' <=> Saving,
         \A s \in Session : addr[s] \in Address => addr'[s] = addr[s]
  PROVE  FileInv'
<1>1. BlockedLines' = BlockedLines
  BY DEF BlockedLines, table
<1>2. \A a \in Address : Agree(a)' <=> Agree(a)
  BY DEF Agree, table, file
<1>3. \A a \in Address : (\A s \in Session : addr'[s] # a) => \A s \in Session : addr[s] # a
  OBVIOUS
<1> QED BY <1>1, <1>2, <1>3 DEF FileInv, file

\* A step of a thread that is counting changes the entry of its own address
\* only, and does so while nobody saves.
LEMMA FileInvCounting ==
  ASSUME FileInv, TypeOK, NEW s \in Session, addr[s] \in Address,
         UNCHANGED <<up, file, addr>>, ~Saving, ~Saving',
         \A a \in Address \ {addr[s]} :
           (a \in listed' <=> a \in listed) /\ numAttempts'[a] = numAttempts[a]
           /\ lastSec'[a] = lastSec[a]
  PROVE  FileInv'
<1>1. \A a \in Address \ {addr[s]} : Agree(a) => Agree(a)'
  BY DEF Agree, file
<1> QED BY <1>1 DEF FileInv, file

LEMMA FileInvStart ==
  ASSUME TypeOK, DownIdle, FileInv, Start
  PROVE  FileInv'
<1>1. ~Saving'
  BY DEF Start, DownIdle, Saving
<1>2. /\ listed' = Saved /\ UNCHANGED <<disk, unsaved>>
      /\ numAttempts' = [a \in Address |-> IF a \in Saved THEN Limit ELSE 0]
      /\ lastSec' = [a \in Address |-> IF a \in Saved THEN SavedSec(a) ELSE 0]
  BY DEF Start, file
<1>3. ASSUME NEW a \in Address PROVE Agree(a)'
  <2>1. (\E l \in disk : l.addr = a) <=> (a \in listed' /\ numAttempts'[a] >= Limit)
    BY <1>2 DEF Limit, Saved
  <2>2. ASSUME NEW l \in disk, l.addr = a PROVE l.sec = lastSec'[a]
    <3>1. (CHOOSE k \in disk : k.addr = a) = l
      BY <2>2 DEF FileInv
    <3> QED BY <1>2, <2>2, <3>1 DEF Saved, SavedSec
  <2> QED BY <1>2, <2>1, <2>2 DEF Agree
<1> QED BY <1>1, <1>2, <1>3 DEF FileInv

LEMMA FileInvSave ==
  ASSUME TypeOK, MutexDiscipline, FileInv, NEW s \in Session, SaveStep(s)
  PROVE  FileInv'
<1>0. Nobody \notin Session
  BY GateAssumption
<1>1. CASE StartSave(s)
  <2>1. disk' = {} /\ unsaved' = BlockedLines /\ BlockedLines' = BlockedLines /\ Saving'
    BY <1>1 DEF StartSave, BlockedLines, table, Goto, Saving, TypeOK
  <2> QED BY <2>1, BlockedLinesUnique DEF FileInv
<1>2. CASE AppendLine(s)
  <2>1. /\ disk' \cup unsaved' = disk \cup unsaved /\ BlockedLines' = BlockedLines
        /\ Saving /\ Saving'
    BY <1>2 DEF AppendLine, BlockedLines, table, Saving
  <2> QED BY <2>1 DEF FileInv
<1>3. CASE FinishSave(s)
  <2>1. /\ unsaved = {} /\ UNCHANGED <<disk, unsaved>> /\ BlockedLines' = BlockedLines /\ Saving
    BY <1>3 DEF FinishSave, BlockedLines, table, file, Goto, Saving
  <2>2. ~Saving'
    BY <1>0, <1>3 DEF FinishSave, Goto, Saving, MutexDiscipline, TypeOK
  <2>3. disk = BlockedLines
    BY <2>1 DEF FileInv
  <2>4. \A a \in Address : Agree(a)
    BY <2>3, BlockedLinesAgree
  <2>5. \A a \in Address : Agree(a)'
    BY <1>3, <2>4 DEF FinishSave, Agree, table, file
  <2> QED BY <2>1, <2>2, <2>5 DEF FileInv
<1> QED BY <1>1, <1>2, <1>3 DEF SaveStep

LEMMA FileInvariant == Spec => []FileInv
<1>1. TypeOK /\ DownIdle /\ MutexDiscipline /\ FileInv /\ [Next]_vars => FileInv'
  <2> SUFFICES ASSUME TypeOK, DownIdle, MutexDiscipline, FileInv, [Next]_vars PROVE FileInv'
    OBVIOUS
  <2>0. Nobody \notin Session
    BY GateAssumption
  <2>1. CASE Start
    BY <2>1, FileInvStart
  <2>2. CASE Stop
    <3>1. ~up' /\ ~Saving' /\ disk' = disk /\ unsaved' = {}
      BY <2>2 DEF Stop, Saving
    <3> QED BY <3>1 DEF FileInv
  <2>3. CASE Tick
    BY <2>3, FileInvKept DEF Tick, Saving
  <2>4. ASSUME NEW s \in Session, ClientStep(s) \/ Greet(s) PROVE FileInv'
    <3>1. UNCHANGED <<up, table, file>>
      BY <2>4 DEF ClientStep, Accept, ReadLogin, Logout, HangUp, Greet
    <3>2. Saving' <=> Saving
      BY <2>4 DEF ClientStep, Accept, Live, ReadLogin, Logout, HangUp, Greet, Goto, Saving, TypeOK
    <3>3. \A r \in Session : addr[r] \in Address => addr'[r] = addr[r]
      BY <2>4, GateAssumption
         DEF ClientStep, Accept, Live, ReadLogin, Logout, HangUp, Greet, TypeOK
    <3> QED BY <3>1, <3>2, <3>3, FileInvKept
  <2>5. ASSUME NEW s \in Session, LoginStep(s) PROVE FileInv'
    <3>1. CASE Gate(s) \/ Lookup(s) \/ Authenticate(s) \/ Reply(s)
      <4>1. UNCHANGED <<up, table, file, addr>>
        BY <3>1 DEF Gate, Lookup, Authenticate, Reply
      <4>2. Saving' <=> Saving
        BY <3>1 DEF Gate, Lookup, Authenticate, Reply, Goto, Saving, TypeOK
      <4> QED BY <4>1, <4>2, FileInvKept
    <3>2. CASE Insert(s)
      <4>1. addr[s] \in Address /\ UNCHANGED <<up, file, addr>>
        BY <3>2 DEF Insert, Goto, TypeOK
      <4>2. Saving' <=> Saving
        BY <3>2 DEF Insert, Goto, Saving, TypeOK
      <4>3. CASE UNCHANGED table
        BY <4>1, <4>2, <4>3, FileInvKept
      <4>4. CASE ~UNCHANGED table
        <5>1. ~Saving
          BY <2>0, <3>2, <4>4 DEF Insert, MutexDiscipline, Saving
        <5> QED BY <3>2, <4>1, <4>2, <4>4, <5>1, FileInvCounting DEF Insert, TypeOK
      <4> QED BY <4>3, <4>4
    <3>3. CASE Count(s)
      <4>1. addr[s] \in Address /\ UNCHANGED <<up, file, addr, listed>>
        BY <3>3 DEF Count, Goto, TypeOK
      <4>2. ~Saving /\ ~Saving'
        BY <2>0, <3>3 DEF Count, Goto, Saving, MutexDiscipline, TypeOK
      <4>3. \A a \in Address \ {addr[s]} : numAttempts'[a] = numAttempts[a] /\ lastSec'[a] = lastSec[a]
        BY <3>3 DEF Count, CountFailure, ClearCount, TypeOK
      <4> QED BY <4>1, <4>2, <4>3, FileInvCounting
    <3> QED BY <2>5, <3>1, <3>2, <3>3 DEF LoginStep
  <2>6. ASSUME NEW s \in Session, SaveStep(s) PROVE FileInv'
    BY <2>6, FileInvSave
  <2>7. CASE UNCHANGED vars
    BY <2>7, FileInvKept DEF vars, Saving
  <2> QED BY <2>1, <2>2, <2>3, <2>4, <2>5, <2>6, <2>7 DEF Next
<1> QED BY <1>1, FileInvInitially, TypeCorrect, DownIdleInvariant, MutexHeld, PTL DEF Spec

\* A restart blocks an address exactly if the running server does, as soon as
\* no connection of the address is left.
THEOREM FileTrue == Spec => []FileAgrees
<1>1. FileInv => FileAgrees
  BY DEF FileInv, FileAgrees, Saving, Agree
<1> QED BY <1>1, FileInvariant, PTL

-----------------------------------------------------------------------------
(* Failures past a block.                                                   *)

\* The threads that have found an address not blocked and have still to act on
\* it.
PastGate(a) ==
  {s \in Session : addr[s] = a /\ pc[s] \in {"lookup", "auth", "insert", "count"}}

\* While an address is blocked nobody enters the gate, so every late failure
\* takes one thread out of PastGate; the thread whose failure has made the block
\* is outside too.  Without a block the count of the last one is kept.
LateBound(a) ==
  /\ late[a] < Cardinality(Session)
  /\ IsBlocked(a) => late[a] + Cardinality(PastGate(a)) < Cardinality(Session)

LateInv == \A a \in Address : LateBound(a)

\* The threads are finitely many, and so are those past the gate.
LEMMA PastGateFinite ==
  ASSUME NEW a
  PROVE  /\ IsFiniteSet(PastGate(a)) /\ Cardinality(PastGate(a)) \in Nat
         /\ IsFiniteSet(PastGate(a)') /\ Cardinality(PastGate(a)') \in Nat
         /\ Cardinality(Session) \in Nat \ {0}
<1>1. PastGate(a) \subseteq Session /\ PastGate(a)' \subseteq Session
  BY DEF PastGate
<1>2. IsFiniteSet(Session) /\ Session # {}
  BY GateAssumption
<1>3. IsFiniteSet(PastGate(a)) /\ IsFiniteSet(PastGate(a)')
  BY <1>1, <1>2, FS_Subset
<1>4. Cardinality(Session) \in Nat /\ Cardinality(Session) # 0
  BY <1>2, FS_CardinalityType, FS_EmptySet
<1> QED BY <1>3, <1>4, FS_CardinalityType

\* A step that counts no failure of an address, blocks it not and lets no
\* thread through the gate while it is blocked keeps the bound.
LEMMA LateKept ==
  ASSUME TypeOK, NEW a \in Address, LateBound(a), late'[a] = late[a],
         IsBlocked(a)' => IsBlocked(a) /\ PastGate(a)' \subseteq PastGate(a)
  PROVE  LateBound(a)'
<1>1. CASE IsBlocked(a)'
  <2>1. Cardinality(PastGate(a)') <= Cardinality(PastGate(a))
    BY <1>1, PastGateFinite, FS_Subset
  <2> QED BY <1>1, <2>1, PastGateFinite DEF LateBound, TypeOK
<1>2. CASE ~IsBlocked(a)'
  BY <1>2 DEF LateBound
<1> QED BY <1>1, <1>2

\* The counting step of the address itself: the thread leaves PastGate.
LEMMA LateCounted ==
  ASSUME TypeOK, NEW a \in Address, LateBound(a), NEW s \in Session, addr[s] = a, Count(s)
  PROVE  LateBound(a)'
<1>1. PastGate(a)' = PastGate(a) \ {s} /\ s \in PastGate(a)
  BY DEF Count, Goto, PastGate, TypeOK
<1>2. Cardinality(PastGate(a)') = Cardinality(PastGate(a)) - 1
  <2>1. IsFiniteSet(PastGate(a))
    BY PastGateFinite, Zenon
  <2>2. Cardinality(PastGate(a) \ {s}) = Cardinality(PastGate(a)) - 1
    BY <1>1, <2>1, FS_RemoveElement, Zenon
  <2> QED BY <1>1, <2>2, Zenon
<1>3. Cardinality(PastGate(a)) <= Cardinality(Session)
  BY GateAssumption, FS_Subset DEF PastGate
<1>4. CASE CountFailure(s)
  <2>1. late'[a] = IF IsBlocked(a) THEN late[a] + 1 ELSE 0
    BY <1>4 DEF CountFailure, TypeOK
  <2>2. CASE IsBlocked(a)
    <3>1. late[a] + Cardinality(PastGate(a)) < Cardinality(Session)
      BY <2>2 DEF LateBound
    <3>2. Cardinality(PastGate(a)) # 0
      BY <1>1, PastGateFinite, FS_EmptySet
    <3> QED BY <1>2, <2>1, <2>2, <3>1, <3>2, PastGateFinite DEF LateBound, TypeOK
  <2>3. CASE ~IsBlocked(a)
    BY <1>2, <1>3, <2>1, <2>3, PastGateFinite DEF LateBound
  <2> QED BY <2>2, <2>3
<1>5. CASE ClearCount(s)
  <2>1. late' = late /\ ~IsBlocked(a)'
    BY <1>5 DEF ClearCount, IsBlocked, Limit, TypeOK
  <2> QED BY <2>1 DEF LateBound
<1> QED BY <1>4, <1>5 DEF Count

\* Once an address is blocked, every other thread can count one failure for it
\* that it was let in for before, and no thread a second one.
THEOREM LateBounded == Spec => []LateFailuresBounded
<1>1. Init => LateInv
  BY PastGateFinite DEF Init, LateInv, LateBound, IsBlocked
<1>2. TypeOK /\ DownIdle /\ LateInv /\ [Next]_vars => LateInv'
  <2> SUFFICES ASSUME TypeOK, DownIdle, LateInv, [Next]_vars, NEW a \in Address
               PROVE  LateBound(a)'
    BY DEF LateInv
  <2>0. LateBound(a)
    BY DEF LateInv
  <2>1. CASE Start
    <3>1. PastGate(a)' = {} /\ late'[a] = 0
      BY <2>1 DEF Start, DownIdle, PastGate
    <3>2. Cardinality(PastGate(a)') = 0
      BY <3>1, FS_EmptySet
    <3> QED BY <3>1, <3>2, PastGateFinite DEF LateBound
  <2>2. CASE Stop
    BY <2>2, PastGateFinite DEF Stop, LateBound, IsBlocked
  <2>3. CASE Tick
    <3>1. late' = late /\ PastGate(a)' = PastGate(a)
      BY <2>3 DEF Tick, history, PastGate
    <3>2. IsBlocked(a)' => IsBlocked(a)
      BY <2>3, GateAssumption DEF Tick, table, IsBlocked, TypeOK
    <3> QED BY <2>0, <3>1, <3>2, LateKept
  <2>4. ASSUME NEW s \in Session, ClientStep(s) \/ Greet(s) \/ SaveStep(s)
        PROVE  LateBound(a)'
    <3>1. late' = late /\ (IsBlocked(a)' <=> IsBlocked(a))
      BY <2>4 DEF ClientStep, Accept, ReadLogin, Logout, HangUp, Greet, SaveStep, StartSave,
                  AppendLine, FinishSave, table, history, IsBlocked
    <3>2. PastGate(a)' \subseteq PastGate(a)
      BY <2>4 DEF ClientStep, Accept, Live, ReadLogin, Logout, HangUp, Greet, SaveStep, StartSave,
                  AppendLine, FinishSave, Goto, PastGate, TypeOK
    <3> QED BY <2>0, <3>1, <3>2, LateKept
  <2>5. ASSUME NEW s \in Session, LoginStep(s) PROVE LateBound(a)'
    <3>1. CASE Gate(s)
      <4>1. late' = late /\ (IsBlocked(a)' <=> IsBlocked(a))
        BY <3>1 DEF Gate, table, history, IsBlocked
      <4>2. IsBlocked(a) => PastGate(a)' \subseteq PastGate(a)
        BY <3>1 DEF Gate, Goto, PastGate, TypeOK
      <4> QED BY <2>0, <4>1, <4>2, LateKept
    <3>2. CASE Lookup(s) \/ Authenticate(s) \/ Reply(s)
      <4>1. late' = late /\ (IsBlocked(a)' <=> IsBlocked(a))
        BY <3>2 DEF Lookup, Authenticate, Reply, table, history, IsBlocked
      <4>2. PastGate(a)' \subseteq PastGate(a)
        BY <3>2 DEF Lookup, Authenticate, Reply, Goto, PastGate, TypeOK
      <4> QED BY <2>0, <4>1, <4>2, LateKept
    <3>3. CASE Insert(s)
      <4>1. late' = late /\ PastGate(a)' \subseteq PastGate(a)
        BY <3>3 DEF Insert, Goto, history, PastGate, TypeOK
      <4>2. IsBlocked(a)' => IsBlocked(a)
        BY <3>3 DEF Insert, table, IsBlocked, Limit, TypeOK
      <4> QED BY <2>0, <4>1, <4>2, LateKept
    <3>4. CASE Count(s)
      <4>1. CASE a = addr[s]
        BY <2>0, <3>4, <4>1, LateCounted
      <4>2. CASE a # addr[s]
        <5>1. late'[a] = late[a] /\ (IsBlocked(a)' <=> IsBlocked(a))
          BY <3>4, <4>2 DEF Count, CountFailure, ClearCount, IsBlocked, TypeOK
        <5>2. PastGate(a)' \subseteq PastGate(a)
          BY <3>4 DEF Count, Goto, PastGate, TypeOK
        <5> QED BY <2>0, <5>1, <5>2, LateKept
      <4> QED BY <4>1, <4>2
    <3> QED BY <2>5, <3>1, <3>2, <3>3, <3>4 DEF LoginStep
  <2>6. CASE UNCHANGED vars
    <3>1. late' = late /\ (IsBlocked(a)' <=> IsBlocked(a)) /\ PastGate(a)' = PastGate(a)
      BY <2>6 DEF vars, table, history, IsBlocked, PastGate
    <3> QED BY <2>0, <3>1, LateKept
  <2> QED BY <2>1, <2>2, <2>3, <2>4, <2>5, <2>6 DEF Next
<1>3. LateInv => LateFailuresBounded
  BY DEF LateInv, LateBound, LateFailuresBounded
<1> QED BY <1>1, <1>2, <1>3, TypeCorrect, DownIdleInvariant, PTL DEF Spec

-----------------------------------------------------------------------------
(* Where no two connections share an address.  The invariant PrivateInv is  *)
(* what the count of failures and the refinement of LoginPolicy rest on.    *)

\* No two threads serve one address.
Exclusive == \A r, s \in Session : addr[r] = addr[s] /\ addr[r] # Nobody => r = s

\* An address without an entry counts as one with a zeroed entry.
Unlisted == \A a \in Address : a \notin listed => numAttempts[a] = 0 /\ lastSec[a] = 0

\* A thread that has found no entry is still right about that when it inserts
\* one: nobody else could.
Unknown ==
  \A s \in Session : pc[s] \in {"auth", "insert"} /\ ~known[s] => addr[s] \notin listed

\* What the gate has let pass is not blocked when it is counted.
Admitted ==
  \A s \in Session :
    pc[s] \in {"lookup", "auth", "insert", "count"} => ~IsBlocked(addr[s])

\* No time that was written down lies in the future.
Past ==
  /\ \A a \in Address : lastSec[a] <= now
  /\ \A l \in disk \cup unsaved : l.sec <= now

DownEmpty == ~up => listed = {}

PrivateInv ==
  /\ Exclusive /\ Unlisted /\ Unknown /\ Admitted /\ Past /\ DownEmpty /\ CountExact

-----------------------------------------------------------------------------

LEMMA PrivateInitially == Init => PrivateInv
BY GateAssumption
   DEF Init, PrivateInv, Exclusive, Unlisted, Unknown, Admitted, Past, DownEmpty, CountExact

\* The server process starts and ends.
LEMMA PrivateProcess ==
  ASSUME TypeOK, DownIdle, PrivateInv, Start \/ Stop \/ Tick
  PROVE  PrivateInv'
<1> USE DEF PrivateInv, TypeOK
<1>1. CASE Start
  <2>1. /\ listed' = Saved /\ UNCHANGED <<disk, unsaved, pc, addr, known, now>> /\ up'
        /\ lastSec' = [a \in Address |-> IF a \in Saved THEN SavedSec(a) ELSE 0]
        /\ numAttempts' = [a \in Address |-> IF a \in Saved THEN Limit ELSE 0]
        /\ streak' = numAttempts'
    BY <1>1 DEF Start, file
  <2>2. \A s \in Session : pc[s] = "idle"
    BY <1>1 DEF Start, DownIdle
  <2>3. \A a \in Saved : SavedSec(a) \in Nat /\ SavedSec(a) <= now
    <3> TAKE a \in Saved
    <3>1. (CHOOSE l \in disk : l.addr = a) \in disk
      BY DEF Saved
    <3> QED BY <3>1 DEF Past, Line, SavedSec
  <2>4. \A a \in Address : lastSec'[a] <= now'
    <3> TAKE a \in Address
    <3>1. CASE a \in Saved
      <4>1. lastSec'[a] = SavedSec(a) /\ now' = now
        BY <2>1, <3>1
      <4> QED BY <2>3, <3>1, <4>1
    <3>2. CASE a \notin Saved
      <4>1. lastSec'[a] = 0 /\ now' = now
        BY <2>1, <3>2
      <4> QED BY <4>1
    <3> QED BY <3>1, <3>2
  <2>5. Exclusive' /\ Unlisted' /\ DownEmpty' /\ CountExact'
    BY <2>1 DEF Exclusive, Unlisted, DownEmpty, CountExact
  <2>6. Unknown' /\ Admitted'
    BY <2>1, <2>2 DEF Unknown, Admitted
  <2> QED BY <2>1, <2>4, <2>5, <2>6 DEF Past
<1>2. CASE Stop
  <2>1. /\ listed' = {} /\ disk' = disk /\ unsaved' = {} /\ now' = now /\ ~up'
        /\ pc' = [s \in Session |-> "idle"] /\ addr' = [s \in Session |-> Nobody]
        /\ lastSec' = [a \in Address |-> 0] /\ numAttempts' = [a \in Address |-> 0]
        /\ streak' = [a \in Address |-> 0]
    BY <1>2 DEF Stop
  <2> QED BY <2>1 DEF Exclusive, Unlisted, Unknown, Admitted, Past, DownEmpty, CountExact
<1>3. CASE Tick
  <2>1. /\ now' = now + 1
        /\ UNCHANGED <<up, listed, numAttempts, lastSec, streak, pc, addr, known, disk, unsaved>>
    BY <1>3 DEF Tick, table, file, history
  <2>2. \A a \in Address : IsBlocked(a)' => IsBlocked(a)
    BY <2>1, GateAssumption DEF IsBlocked
  <2>3. Admitted'
    BY <2>1, <2>2, GateAssumption DEF Admitted
  <2>4. Past'
    BY <2>1 DEF Past, Line
  <2> QED BY <2>1, <2>3, <2>4 DEF Exclusive, Unlisted, Unknown, DownEmpty, CountExact
<1> QED BY <1>1, <1>2, <1>3

\* Steps that leave the table, the counts, the file and the clock alone.
LEMMA PrivateQuiet ==
  ASSUME ~SharedAddresses, TypeOK, PrivateInv, NEW s \in Session,
         ClientStep(s) \/ Greet(s) \/ Gate(s) \/ Lookup(s) \/ Authenticate(s) \/ Reply(s)
  PROVE  PrivateInv'
<1> USE DEF PrivateInv, TypeOK
<1>1. /\ UNCHANGED <<up, now, listed, numAttempts, lastSec, streak, disk, unsaved>>
      /\ \A r \in Session \ {s} : pc'[r] = pc[r] /\ addr'[r] = addr[r] /\ known'[r] = known[r]
  BY DEF ClientStep, Accept, ReadLogin, Logout, HangUp, Greet, Gate, Lookup, Authenticate, Reply,
         Goto, LeaveLoginBlock, table, file, history
<1>2. \A a \in Address : IsBlocked(a)' = IsBlocked(a)
  BY <1>1 DEF IsBlocked
<1>3. Unlisted' /\ Past' /\ DownEmpty' /\ CountExact'
  BY <1>1 DEF Unlisted, Past, DownEmpty, CountExact
<1>4. Exclusive'
  <2>1. CASE \E a \in Address : Accept(s, a)
    BY <2>1 DEF Accept, Live, Exclusive
  <2>2. CASE ~\E a \in Address : Accept(s, a)
    <3>1. addr' = addr
      BY <2>2 DEF ClientStep, ReadLogin, Logout, HangUp, Greet, Gate, Lookup, Authenticate, Reply
    <3> QED BY <3>1 DEF Exclusive
  <2> QED BY <2>1, <2>2
<1>5. Unknown'
  <2>1. pc'[s] \in {"auth", "insert"} /\ ~known'[s] => addr'[s] \notin listed
    BY DEF ClientStep, Accept, ReadLogin, Logout, HangUp, Greet, Gate, Lookup, Authenticate, Reply,
           Goto, LeaveLoginBlock, Unknown
  <2> QED BY <1>1, <2>1 DEF Unknown
<1>6. Admitted'
  <2>1. pc'[s] \in {"lookup", "auth", "insert", "count"} => ~IsBlocked(addr'[s])
    BY DEF ClientStep, Accept, ReadLogin, Logout, HangUp, Greet, Gate, Lookup, Authenticate, Reply,
           Goto, Admitted
  <2>2. addr'[s] = Nobody \/ addr'[s] \in Address
    BY DEF ClientStep, Accept, ReadLogin, Logout, HangUp, Greet, Gate, Lookup, Authenticate, Reply
  <2>3. \A r \in Session \ {s} :
          pc'[r] \in {"lookup", "auth", "insert", "count"} => ~IsBlocked(addr'[r])
    BY <1>1 DEF Admitted
  <2>4. \A r \in Session : IsBlocked(addr'[r]) <=> IsBlocked(addr[r])'
    BY <1>1 DEF IsBlocked
  <2> QED BY <2>1, <2>3, <2>4 DEF Admitted
<1> QED BY <1>3, <1>4, <1>5, <1>6

\* Insert leaves the counts and times of all addresses as they are: it puts a
\* zeroed entry where there was none.
LEMMA InsertIsQuiet ==
  ASSUME TypeOK, PrivateInv, NEW s \in Session, Insert(s)
  PROVE  /\ UNCHANGED <<numAttempts, lastSec>>
         /\ listed' = IF known[s] THEN listed ELSE listed \cup {addr[s]}
<1> USE DEF TypeOK
<1>1. addr[s] \in Address
  BY DEF Insert, Goto
<1>2. CASE known[s]
  BY <1>2 DEF Insert, table
<1>3. CASE ~known[s]
  <2>1. numAttempts[addr[s]] = 0 /\ lastSec[addr[s]] = 0
    BY <1>1, <1>3 DEF Insert, Goto, PrivateInv, Unknown, Unlisted
  <2> QED BY <1>1, <1>3, <2>1 DEF Insert
<1> QED BY <1>2, <1>3

LEMMA PrivateInsert ==
  ASSUME TypeOK, DownIdle, PrivateInv, NEW s \in Session, Insert(s)
  PROVE  PrivateInv'
<1> USE DEF PrivateInv, TypeOK
<1>1. /\ UNCHANGED <<up, now, numAttempts, lastSec, streak, disk, unsaved, addr, known>>
      /\ listed' = IF known[s] THEN listed ELSE listed \cup {addr[s]}
      /\ pc[s] = "insert" /\ pc' = [pc EXCEPT ![s] = "count"]
  BY InsertIsQuiet DEF Insert, Goto, file, history
<1>2. addr[s] \in Address
  BY <1>1
<1>3. Exclusive' /\ Unlisted' /\ Past' /\ CountExact'
  BY <1>1 DEF Exclusive, Unlisted, Past, CountExact
<1>4. Unknown'
  BY <1>1, GateAssumption DEF Unknown, Exclusive
<1>5. Admitted'
  <2>1. CASE known[s]
    <3>1. \A a \in Address : IsBlocked(a)' <=> IsBlocked(a)
      BY <1>1, <2>1 DEF IsBlocked
    <3> QED BY <1>1, <2>1, <3>1 DEF Admitted, IsBlocked
  <2>2. CASE ~known[s]
    <3>1. numAttempts[addr[s]] = 0
      BY <1>1, <1>2, <2>2 DEF Unknown, Unlisted
    <3>2. ASSUME NEW r \in Session, pc'[r] \in {"lookup", "auth", "insert", "count"}
          PROVE  ~IsBlocked(addr[r])'
      <4>1. CASE r = s
        BY <1>1, <3>1, <4>1 DEF IsBlocked, Limit
      <4>2. CASE r # s
        <5>1. pc[r] = pc'[r] /\ addr[r] # addr[s]
          BY <1>1, <1>2, <4>2, GateAssumption DEF Exclusive
        <5> QED BY <1>1, <3>2, <5>1 DEF Admitted, IsBlocked
      <4> QED BY <4>1, <4>2
    <3> QED BY <3>2 DEF Admitted
  <2> QED BY <2>1, <2>2
<1>6. DownEmpty'
  BY <1>1 DEF DownIdle, DownEmpty
<1> QED BY <1>3, <1>4, <1>5, <1>6

LEMMA PrivateCount ==
  ASSUME TypeOK, DownIdle, EntryPresent, PrivateInv, NEW s \in Session, Count(s)
  PROVE  PrivateInv'
<1> USE DEF PrivateInv, TypeOK
<1>1. /\ UNCHANGED <<up, now, listed, disk, unsaved, addr, known>>
      /\ pc[s] = "count" /\ pc' = [pc EXCEPT ![s] = "reply"]
  BY DEF Count, Goto, file
<1>2. addr[s] \in Address /\ addr[s] \in listed
  BY <1>1 DEF EntryPresent
<1>3. \A a \in Address \ {addr[s]} :
        numAttempts'[a] = numAttempts[a] /\ lastSec'[a] = lastSec[a] /\ streak'[a] = streak[a]
  BY DEF Count, CountFailure, ClearCount
<1>4. numAttempts'[addr[s]] = streak'[addr[s]] /\ lastSec'[addr[s]] <= now
  BY <1>2 DEF Count, CountFailure, ClearCount, CountExact, Past
<1>5. Exclusive' /\ Unknown' /\ DownEmpty'
  BY <1>1 DEF Exclusive, Unknown, DownEmpty
<1>6. Unlisted' /\ CountExact' /\ Past'
  BY <1>1, <1>2, <1>3, <1>4 DEF Unlisted, CountExact, Past
<1>7. Admitted'
  <2> SUFFICES ASSUME NEW r \in Session, pc'[r] \in {"lookup", "auth", "insert", "count"}
               PROVE  ~IsBlocked(addr[r])'
    BY DEF Admitted
  <2>1. pc[r] = pc'[r] /\ addr[r] # addr[s] /\ addr[r] \in Address
    BY <1>1, <1>2, GateAssumption DEF Exclusive
  <2> QED BY <1>1, <1>3, <2>1 DEF Admitted, IsBlocked
<1> QED BY <1>5, <1>6, <1>7

LEMMA PrivateSave ==
  ASSUME TypeOK, PrivateInv, NEW s \in Session, SaveStep(s)
  PROVE  PrivateInv'
<1> USE DEF PrivateInv, TypeOK
<1>1. /\ UNCHANGED <<up, now, listed, numAttempts, lastSec, streak, known>>
      /\ \A r \in Session : pc'[r] = pc[r] \/ pc'[r] \in {"saving", "idle"}
      /\ \A r \in Session : addr'[r] = addr[r] \/ addr'[r] = Nobody
      /\ \A r \in Session : pc'[r] # "idle" => addr'[r] = addr[r]
  <2>1. CASE StartSave(s)
    BY <2>1 DEF StartSave, Goto, table, history
  <2>2. CASE AppendLine(s)
    BY <2>2 DEF AppendLine, table, history
  <2>3. CASE FinishSave(s)
    BY <2>3 DEF FinishSave, Goto, table, history
  <2> QED BY <2>1, <2>2, <2>3 DEF SaveStep
<1>2. \A l \in disk' \cup unsaved' : l \in disk \cup unsaved \cup BlockedLines
  BY DEF SaveStep, StartSave, AppendLine, FinishSave, file
<1>3. \A l \in BlockedLines : l.sec <= now
  BY DEF BlockedLines, Past
<1>4. Past'
  BY <1>1, <1>2, <1>3 DEF Past
<1>5. Exclusive' /\ Unlisted' /\ Unknown' /\ DownEmpty' /\ CountExact'
  BY <1>1 DEF Exclusive, Unlisted, Unknown, DownEmpty, CountExact
<1>6. Admitted'
  BY <1>1 DEF Admitted, IsBlocked
<1> QED BY <1>4, <1>5, <1>6

LEMMA PrivateInvariant ==
  ASSUME ~SharedAddresses
  PROVE  Spec => []PrivateInv
<1>1. TypeOK /\ DownIdle /\ EntryPresent /\ PrivateInv /\ [Next]_vars => PrivateInv'
  <2> SUFFICES ASSUME TypeOK, DownIdle, EntryPresent, PrivateInv, [Next]_vars PROVE PrivateInv'
    OBVIOUS
  <2>1. CASE Start \/ Stop \/ Tick
    BY <2>1, PrivateProcess
  <2>2. ASSUME NEW s \in Session, ClientStep(s) \/ Greet(s) \/ LoginStep(s) \/ SaveStep(s)
        PROVE  PrivateInv'
    BY <2>2, PrivateQuiet, PrivateInsert, PrivateCount, PrivateSave DEF LoginStep
  <2>3. CASE UNCHANGED vars
    <3>1. UNCHANGED <<up, now, listed, numAttempts, lastSec, streak, pc, addr, known, disk, unsaved>>
      BY <2>3 DEF vars, table, file, history
    <3> QED BY <3>1 DEF PrivateInv, Exclusive, Unlisted, Unknown, Admitted, IsBlocked, Past,
                        DownEmpty, CountExact
  <2> QED BY <2>1, <2>2, <2>3 DEF Next
<1> QED BY <1>1, PrivateInitially, TypeCorrect, DownIdleInvariant, EntryFound, PTL DEF Spec

\* num_attempts is the number of failed logins in a row, however the logins of
\* different addresses interleave.
THEOREM CountsExactly ==
  ASSUME ~SharedAddresses
  PROVE  Spec => []CountExact
<1>1. PrivateInv => CountExact
  BY DEF PrivateInv
<1> QED BY <1>1, PrivateInvariant, PTL

-----------------------------------------------------------------------------
(* Refinement.                                                              *)

\* What the gate does not count leaves counts and times as they are.
LEMMA OnlyCountCounts ==
  ASSUME TypeOK, PrivateInv, NEW s \in Session,
         ClientStep(s) \/ Greet(s) \/ LoginStep(s) \/ SaveStep(s), ~Count(s)
  PROVE  UNCHANGED <<up, now, numAttempts, lastSec>>
<1>1. CASE Insert(s)
  BY <1>1, InsertIsQuiet DEF Insert
<1>2. CASE ClientStep(s) \/ Greet(s)
  BY <1>2 DEF ClientStep, Accept, ReadLogin, Logout, HangUp, Greet, table
<1>3. CASE Gate(s) \/ Lookup(s) \/ Authenticate(s) \/ Reply(s)
  BY <1>3 DEF Gate, Lookup, Authenticate, Reply, table
<1>4. CASE SaveStep(s)
  BY <1>4 DEF SaveStep, StartSave, AppendLine, FinishSave, table
<1> QED BY <1>1, <1>2, <1>3, <1>4 DEF LoginStep

\* A save begins the record anew, or adds a block that stands at that moment:
\* the table has not changed since the lines were copied.
LEMMA SaveIsWrite ==
  ASSUME TypeOK, DownIdle, FileInv, PrivateInv, NEW s \in Session, SaveStep(s)
  PROVE  Policy!Write \/ UNCHANGED Policy!policyVars
<1>1. UNCHANGED <<up, now, numAttempts, lastSec>>
  BY DEF SaveStep, StartSave, AppendLine, FinishSave, table
<1>2. up
  BY DEF SaveStep, StartSave, AppendLine, FinishSave, Goto, DownIdle
<1>3. CASE StartSave(s)
  BY <1>1, <1>2, <1>3 DEF StartSave, Policy!Write
<1>4. CASE AppendLine(s)
  <2>1. PICK l \in unsaved : disk' = disk \cup {l}
    BY <1>4 DEF AppendLine
  <2>2. l \in BlockedLines
    BY <1>4, <2>1 DEF AppendLine, FileInv, Saving
  <2>3. l \in Policy!Blocks
    BY <2>2 DEF BlockedLines, Policy!Blocks, TypeOK, Limit
  <2> QED BY <1>1, <1>2, <2>1, <2>3 DEF Policy!Write
<1>5. CASE FinishSave(s)
  BY <1>1, <1>5 DEF FinishSave, file, Policy!policyVars
<1> QED BY <1>3, <1>4, <1>5 DEF SaveStep

\* A server starts with the blocks of the file.
LEMMA StartIsStart ==
  ASSUME TypeOK, Start
  PROVE  Policy!Start
<1> USE DEF TypeOK
<1>1. /\ ~up /\ up' = TRUE /\ UNCHANGED <<now, disk>>
      /\ numAttempts' = [a \in Address |-> IF a \in Saved THEN Limit ELSE 0]
      /\ lastSec' = [a \in Address |-> IF a \in Saved THEN SavedSec(a) ELSE 0]
  BY DEF Start, file
<1>2. Policy!Recorded = Saved
  BY DEF Saved, Policy!Recorded
<1>3. ASSUME NEW a \in Saved
      PROVE  SavedSec(a) \in Nat /\ [addr |-> a, sec |-> SavedSec(a)] \in disk
  <2>1. PICK l \in disk : l = (CHOOSE k \in disk : k.addr = a) /\ l.addr = a
    BY DEF Saved
  <2>2. l.sec \in Nat /\ l = [addr |-> a, sec |-> l.sec]
    BY <2>1 DEF Line
  <2> QED BY <2>1, <2>2 DEF SavedSec
<1>4. lastSec' \in [Address -> Nat]
  <2>1. \A a \in Address : (IF a \in Saved THEN SavedSec(a) ELSE 0) \in Nat
    BY <1>3
  <2> QED BY <1>1, <2>1
<1>5. \A a \in Address :
        IF a \in Policy!Recorded THEN [addr |-> a, sec |-> lastSec'[a]] \in disk
                                 ELSE lastSec'[a] = 0
  BY <1>1, <1>2, <1>3
<1> QED BY <1>1, <1>2, <1>4, <1>5 DEF Policy!Start, Limit

\* An address without an entry has no failures, so Blocked of the policy is
\* is_address_blocked.
LEMMA BlockedIsBlocked ==
  ASSUME PrivateInv
  PROVE  \A a \in Address : Policy!Blocked(a) <=> IsBlocked(a)
BY DEF PrivateInv, Unlisted, Policy!Blocked, IsBlocked, Limit

\* The four critical sections of a LOGIN, with all that other threads do between
\* them, are one step of the policy: the one that counts.  What a restart
\* remembers are blocks that stood when a save wrote them.
THEOREM LoginIsOneStep ==
  ASSUME ~SharedAddresses
  PROVE  Spec => ImplementsPolicy
<1> USE DEF TypeOK
<1>1. Init => Policy!PolicyInit
  BY DEF Init, Policy!PolicyInit
<1>2. TypeOK /\ DownIdle /\ FileInv /\ PrivateInv /\ [Next]_vars
        => [Policy!PolicyNext]_Policy!policyVars
  <2> SUFFICES ASSUME TypeOK, DownIdle, FileInv, PrivateInv, [Next]_vars
               PROVE  Policy!PolicyNext \/ UNCHANGED Policy!policyVars
    OBVIOUS
  <2>1. CASE Start
    BY <2>1, StartIsStart DEF Policy!PolicyNext
  <2>2. CASE Stop
    BY <2>2 DEF Stop, Policy!PolicyNext, Policy!Stop
  <2>3. CASE Tick
    BY <2>3 DEF Tick, table, file, Policy!PolicyNext, Policy!Pass
  <2>4. ASSUME NEW s \in Session, Count(s) PROVE Policy!PolicyNext
    <3>1. addr[s] \in Address /\ pc[s] = "count" /\ up /\ UNCHANGED <<up, disk>>
      BY <2>4 DEF Count, Goto, DownIdle, file
    <3>2. ~Policy!Blocked(addr[s])
      BY <3>1, BlockedIsBlocked DEF PrivateInv, Admitted
    <3>3. CASE CountFailure(s)
      BY <2>4, <3>1, <3>2, <3>3 DEF Count, CountFailure, Policy!PolicyNext, Policy!Fail
    <3>4. CASE ClearCount(s)
      BY <2>4, <3>1, <3>2, <3>4 DEF Count, ClearCount, Policy!PolicyNext, Policy!Succeed
    <3> QED BY <2>4, <3>3, <3>4 DEF Count
  <2>5. ASSUME NEW s \in Session, ~Count(s), ClientStep(s) \/ Greet(s) \/ LoginStep(s)
        PROVE  UNCHANGED Policy!policyVars
    <3>1. disk' = disk
      BY <2>5 DEF ClientStep, Accept, ReadLogin, Logout, HangUp, Greet, LoginStep, Gate, Lookup,
                  Authenticate, Insert, Reply, file
    <3> QED BY <2>5, <3>1, OnlyCountCounts DEF Policy!policyVars
  <2>6. ASSUME NEW s \in Session, SaveStep(s)
        PROVE  Policy!Write \/ UNCHANGED Policy!policyVars
    BY <2>6, SaveIsWrite
  <2>7. CASE UNCHANGED vars
    BY <2>7 DEF vars, table, file, Policy!policyVars
  <2> QED BY <2>1, <2>2, <2>3, <2>4, <2>5, <2>6, <2>7 DEF Next, Policy!PolicyNext
<1> QED BY <1>1, <1>2, TypeCorrect, DownIdleInvariant, FileInvariant, PrivateInvariant, PTL
        DEF Spec, ImplementsPolicy, Policy!PolicySpec

\* Nobody shortens a block while the server runs.
THEOREM BlocksLast ==
  ASSUME ~SharedAddresses
  PROVE  Spec => BlockLasts
<1> USE DEF TypeOK
<1>1. TypeOK /\ DownIdle /\ PrivateInv /\ [Next]_vars
        => [\A a \in Address :
              IsBlocked(a) /\ up' => IsBlocked(a)' \/ now' - lastSec[a] > Timeout]_vars
  <2> SUFFICES ASSUME TypeOK, PrivateInv, Next, NEW a \in Address, IsBlocked(a), up'
               PROVE  IsBlocked(a)' \/ now' - lastSec[a] > Timeout
    OBVIOUS
  <2>1. CASE Start
    BY <2>1 DEF Start, PrivateInv, DownEmpty, IsBlocked
  <2>2. CASE Stop
    BY <2>2 DEF Stop
  <2>3. CASE Tick
    BY <2>3, GateAssumption DEF Tick, table, IsBlocked
  <2>4. ASSUME NEW s \in Session, Count(s) PROVE IsBlocked(a)'
    <3>1. /\ addr[s] # a /\ addr[s] \in Address
          /\ UNCHANGED <<now, listed>>
      BY <2>4 DEF Count, Goto, PrivateInv, Admitted
    <3>2. numAttempts'[a] = numAttempts[a] /\ lastSec'[a] = lastSec[a]
      BY <2>4, <3>1 DEF Count, CountFailure, ClearCount
    <3> QED BY <3>1, <3>2 DEF IsBlocked
  <2>5. ASSUME NEW s \in Session, ~Count(s),
               ClientStep(s) \/ Greet(s) \/ LoginStep(s) \/ SaveStep(s)
        PROVE  IsBlocked(a)'
    <3>1. UNCHANGED <<now, numAttempts, lastSec>>
      BY <2>5, OnlyCountCounts
    <3>2. listed \subseteq listed'
      BY <2>5, InsertIsQuiet
         DEF ClientStep, Accept, ReadLogin, Logout, HangUp, Greet, LoginStep, Gate, Lookup,
             Authenticate, Reply, SaveStep, StartSave, AppendLine, FinishSave, table
    <3> QED BY <3>1, <3>2 DEF IsBlocked
  <2> QED BY <2>1, <2>2, <2>3, <2>4, <2>5 DEF Next
<1> QED BY <1>1, TypeCorrect, DownIdleInvariant, PrivateInvariant, PTL DEF Spec, BlockLasts

=============================================================================
