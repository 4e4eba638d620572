------------------------------ MODULE LoginGate ------------------------------
(***************************************************************************)
(* The login gate of the mail server: every accepted connection runs       *)
(* smtpservice::run_protocol in a thread of its own, and all threads share *)
(* appcontext::blacklist, the table of failed logins per client address.   *)
(* The table is guarded by login_attempts_mutex, but a LOGIN takes that    *)
(* mutex several times and calls the login system in between.  When a      *)
(* connection ends the blocked addresses are written to blacklist.blk,     *)
(* from which the next server process starts.                              *)
(*                                                                         *)
(* A member of Session is a thread slot: it serves one connection after    *)
(* the other.  Lines other than LOGIN and LOGOUT do not touch the gate;    *)
(* whatever ends the loop of run_protocol (quit, end of file) is HangUp.   *)
(***************************************************************************)
EXTENDS Integers, FiniteSets

CONSTANTS
  Session,          \* smtpservice threads
  Address,          \* client IP addresses
  Nobody,           \* no thread holds the mutex; no address
  Timeout,          \* smtpservice::timeout, set to MAX_TIMEOUT by main
  SharedAddresses,  \* may two connections come from one address at a time?
  MaxTime,          \* bound: the clock stops here
  MaxFail,          \* bound: no further failure from an address after so many
  MaxStops          \* bound: how often the server process ends

ASSUME GateAssumption ==
  /\ IsFiniteSet(Session) /\ Session # {}
  /\ Nobody \notin Session \cup Address
  /\ Timeout \in Nat /\ MaxTime \in Nat /\ MaxFail \in Nat /\ MaxStops \in Nat
  /\ SharedAddresses \in BOOLEAN

VARIABLES
  \* the server process
  up,           \* appcontext::initialized
  now,          \* time(NULL)
  mutex,        \* holder of login_attempts_mutex
  listed,       \* keys of appcontext::blacklist
  numAttempts,  \* attempt_t::num_attempts of a listed address
  lastSec,      \* attempt_t::last_sec of a listed address
  \* the threads
  pc,           \* where run_protocol is
  addr,         \* con_sock->get_address()
  known,        \* local contains_ip
  success,      \* local login_success
  loggedIn,     \* usr.logged_in
  \* the mail pool
  disk,         \* lines of blacklist.blk
  unsaved,      \* lines a running save_blacklist has still to append
  \* history, read by properties only
  streak,       \* failed logins in a row per address, in this process
  late,         \* failures counted for an address while it was blocked
  stops         \* ends of the server process so far

table   == <<listed, numAttempts, lastSec>>
file    == <<disk, unsaved>>
history == <<streak, late, stops>>
vars == <<up, now, mutex, table, pc, addr, known, success, loggedIn, file, history>>

\* num_attempts at which an address is blocked.
Limit == 3

Location == {"idle", "greet", "read", "gate", "lookup", "auth", "insert",
             "count", "reply", "save", "saving"}

Line == [addr: Address, sec: Nat]

TypeOK ==
  /\ up \in BOOLEAN /\ now \in Nat /\ mutex \in Session \cup {Nobody}
  /\ listed \subseteq Address
  /\ numAttempts \in [Address -> Nat] /\ lastSec \in [Address -> Nat]
  /\ pc \in [Session -> Location] /\ addr \in [Session -> Address \cup {Nobody}]
  /\ \A s \in Session : pc[s] = "idle" <=> addr[s] = Nobody
  /\ known \in [Session -> BOOLEAN] /\ success \in [Session -> BOOLEAN]
  /\ loggedIn \in [Session -> BOOLEAN]
  /\ disk \subseteq Line /\ unsaved \subseteq Line
  /\ streak \in [Address -> Nat] /\ late \in [Address -> Nat] /\ stops \in Nat

Live(s) == pc[s] # "idle"

\* smtpservice::is_address_blocked, with the mutex held.
IsBlocked(a) ==
  a \in listed /\ numAttempts[a] >= Limit /\ now - lastSec[a] <= Timeout

\* Mutant of BlockedLines: the threshold of the saved entries is off by one.
BlockedLinesAbove ==
  {[addr |-> a, sec |-> lastSec[a]] : a \in {b \in listed : numAttempts[b] > Limit}}

\* The entries appcontext::serialize_blacklist copies, as lines of the file.
BlockedLines ==
  {[addr |-> a, sec |-> lastSec[a]] : a \in {b \in listed : numAttempts[b] >= Limit}}

Init ==
  /\ up = FALSE /\ now = 0 /\ mutex = Nobody
  /\ listed = {}
  /\ numAttempts = [a \in Address |-> 0] /\ lastSec = [a \in Address |-> 0]
  /\ pc = [s \in Session |-> "idle"] /\ addr = [s \in Session |-> Nobody]
  /\ known = [s \in Session |-> FALSE] /\ success = [s \in Session |-> FALSE]
  /\ loggedIn = [s \in Session |-> FALSE]
  /\ disk = {} /\ unsaved = {}
  /\ streak = [a \in Address |-> 0] /\ late = [a \in Address |-> 0] /\ stops = 0

-----------------------------------------------------------------------------
(* The server process.                                                      *)

\* mailpoolservice::load_blacklist: the addresses in the file, and their times.
Saved == {l.addr : l \in disk}
SavedSec(a) == (CHOOSE l \in disk : l.addr = a).sec

\* appcontext::initialize: every line of the file is loaded as a block.
Start ==
  /\ ~up /\ up' = TRUE
  /\ listed' = Saved
  /\ numAttempts' = [a \in Address |-> IF a \in Saved THEN Limit ELSE 0]
  /\ lastSec' = [a \in Address |-> IF a \in Saved THEN SavedSec(a) ELSE 0]
  /\ streak' = numAttempts'
  /\ late' = [a \in Address |-> 0]
  /\ UNCHANGED <<now, mutex, pc, addr, known, success, loggedIn, file, stops>>

\* The process ends, by SIGINT (int_handler saves nothing), by a crash, or by the
\* exception of a save_blacklist that cannot open its lock file: all threads and
\* the table are gone, the file keeps what has reached it.
Stop ==
  /\ up /\ stops < MaxStops
  /\ up' = FALSE /\ stops' = stops + 1
  /\ mutex' = Nobody /\ unsaved' = {}
  /\ pc' = [s \in Session |-> "idle"] /\ addr' = [s \in Session |-> Nobody]
  /\ known' = [s \in Session |-> FALSE] /\ success' = [s \in Session |-> FALSE]
  /\ loggedIn' = [s \in Session |-> FALSE]
  /\ listed' = {}
  /\ numAttempts' = [a \in Address |-> 0] /\ lastSec' = [a \in Address |-> 0]
  /\ streak' = [a \in Address |-> 0] /\ late' = [a \in Address |-> 0]
  /\ UNCHANGED <<now, disk>>

Tick ==
  /\ now < MaxTime /\ now' = now + 1
  /\ UNCHANGED <<up, mutex, table, pc, addr, known, success, loggedIn, file, history>>

\* The loop of main: a connection gets an smtpservice and a thread.  The
\* constructor of user leaves logged_in uninitialized, so it may hold either
\* value.
Accept(s, a) ==
  /\ up /\ ~Live(s)
  /\ SharedAddresses \/ \A r \in Session : Live(r) => addr[r] # a
  /\ pc' = [pc EXCEPT ![s] = "greet"]
  /\ addr' = [addr EXCEPT ![s] = a]
  /\ \E garbage \in BOOLEAN : loggedIn' = [loggedIn EXCEPT ![s] = garbage]
  /\ UNCHANGED <<up, now, mutex, table, known, success, file, history>>

-----------------------------------------------------------------------------
(* One connection: run_protocol.                                            *)

Goto(s, here, there) == pc[s] = here /\ pc' = [pc EXCEPT ![s] = there]

\* contains_ip and login_success live until the end of the LOGIN block.
LeaveLoginBlock(s) ==
  /\ known' = [known EXCEPT ![s] = FALSE]
  /\ success' = [success EXCEPT ![s] = FALSE]

\* First statement: a blocked address is turned away at once.
Greet(s) ==
  /\ mutex = Nobody
  /\ Goto(s, "greet", IF IsBlocked(addr[s]) THEN "save" ELSE "read")
  /\ UNCHANGED <<up, now, mutex, table, addr, known, success, loggedIn, file, history>>

\* A line has been read: LOGIN enters the gate; LOGOUT calls
\* login_system.logout if the user counts as logged in; the end of the loop
\* closes the socket.
ReadLogin(s) ==
  /\ Goto(s, "read", "gate")
  /\ UNCHANGED <<up, now, mutex, table, addr, known, success, loggedIn, file, history>>

Logout(s) ==
  /\ pc[s] = "read" /\ loggedIn[s]
  /\ loggedIn' = [loggedIn EXCEPT ![s] = FALSE]
  /\ UNCHANGED <<up, now, mutex, table, pc, addr, known, success, file, history>>

HangUp(s) ==
  /\ Goto(s, "read", "save")
  /\ UNCHANGED <<up, now, mutex, table, addr, known, success, loggedIn, file, history>>

\* Mutant of Gate: the test of the block is missing.
GateUnchecked(s) ==
  /\ mutex = Nobody
  /\ Goto(s, "gate", "lookup")
  /\ UNCHANGED <<up, now, mutex, table, addr, known, success, loggedIn, file, history>>

\* LOGIN, first critical section: blocked addresses leave the loop.
Gate(s) ==
  /\ mutex = Nobody
  /\ Goto(s, "gate", IF IsBlocked(addr[s]) THEN "save" ELSE "lookup")
  /\ UNCHANGED <<up, now, mutex, table, addr, known, success, loggedIn, file, history>>

\* Mutant of Lookup: contains_ip is negated.
LookupNegated(s) ==
  /\ mutex = Nobody
  /\ Goto(s, "lookup", "auth")
  /\ known' = [known EXCEPT ![s] = addr[s] \notin listed]
  /\ UNCHANGED <<up, now, mutex, table, addr, success, loggedIn, file, history>>

\* Second critical section: contains_ip.
Lookup(s) ==
  /\ mutex = Nobody
  /\ Goto(s, "lookup", "auth")
  /\ known' = [known EXCEPT ![s] = addr[s] \in listed]
  /\ UNCHANGED <<up, now, mutex, table, addr, success, loggedIn, file, history>>

\* ldaplogin::login: the directory accepts the user or not.  A name that is no
\* FHTW user's, and a server out of reach, are refusals too.
Decide(s, ok) == loggedIn' = [loggedIn EXCEPT ![s] = ok]

\* login(): the login system decides, without any lock.  An exception leaves the
\* user logged out and counts as a failure.
Authenticate(s) ==
  /\ Goto(s, "auth", "insert")
  /\ \E ok \in BOOLEAN :
       /\ ok \/ streak[addr[s]] < MaxFail
       /\ Decide(s, ok) /\ success' = [success EXCEPT ![s] = ok]
  /\ UNCHANGED <<up, now, mutex, table, addr, known, file, history>>

\* Mutant of Insert: the entry is replaced even if contains_ip was true.
InsertAlways(s) ==
  /\ Goto(s, "insert", "count")
  /\ mutex = Nobody
  /\ listed' = listed \cup {addr[s]}
  /\ numAttempts' = [numAttempts EXCEPT ![addr[s]] = 0]
  /\ lastSec' = [lastSec EXCEPT ![addr[s]] = 0]
  /\ UNCHANGED <<up, now, mutex, addr, known, success, loggedIn, file, history>>

\* Third critical section, entered only if contains_ip was false: a zeroed
\* entry replaces whatever the table holds by now.
Insert(s) ==
  /\ Goto(s, "insert", "count")
  /\ \/ known[s] /\ UNCHANGED table
     \/ /\ ~known[s] /\ mutex = Nobody
        /\ listed' = listed \cup {addr[s]}
        /\ numAttempts' = [numAttempts EXCEPT ![addr[s]] = 0]
        /\ lastSec' = [lastSec EXCEPT ![addr[s]] = 0]
  /\ UNCHANGED <<up, now, mutex, addr, known, success, loggedIn, file, history>>

\* Mutant of CountFailure: the count goes down.
CountFailureDown(s) ==
  LET a == addr[s]
  IN  /\ ~success[s]
      /\ numAttempts' = [numAttempts EXCEPT ![a] = @ - 1]
      /\ lastSec' = [lastSec EXCEPT ![a] = now]
      /\ streak' = [streak EXCEPT ![a] = @ + 1]
      /\ late' = [late EXCEPT ![a] = IF IsBlocked(a) THEN @ + 1 ELSE 0]

\* Mutant of ClearCount: a success does not reset num_attempts.
ClearCountKeeping(s) ==
  /\ success[s]
  /\ streak' = [streak EXCEPT ![addr[s]] = 0]
  /\ UNCHANGED <<numAttempts, lastSec, late>>

\* Fourth critical section: count the failure or clear the count.  The mutex
\* stays held while the answer is written to the socket.
CountFailure(s) ==
  LET a == addr[s]
  IN  /\ ~success[s]
      /\ numAttempts' = [numAttempts EXCEPT ![a] = @ + 1]
      /\ lastSec' = [lastSec EXCEPT ![a] = now]
      /\ streak' = [streak EXCEPT ![a] = @ + 1]
      /\ late' = [late EXCEPT ![a] = IF IsBlocked(a) THEN @ + 1 ELSE 0]

ClearCount(s) ==
  LET a == addr[s]
  IN  /\ success[s]
      /\ numAttempts' = [numAttempts EXCEPT ![a] = 0]
      /\ streak' = [streak EXCEPT ![a] = 0]
      /\ UNCHANGED <<lastSec, late>>

Count(s) ==
  /\ mutex = Nobody /\ mutex' = s
  /\ Goto(s, "count", "reply")
  /\ CountFailure(s) \/ ClearCount(s)
  /\ UNCHANGED <<up, now, listed, addr, known, success, loggedIn, file, stops>>

\* Mutant of Reply: the mutex is not unlocked.
ReplyLocked(s) ==
  /\ Goto(s, "reply", "read")
  /\ LeaveLoginBlock(s)
  /\ UNCHANGED <<up, now, mutex, table, addr, loggedIn, file, history>>

Reply(s) ==
  /\ mutex' = Nobody
  /\ Goto(s, "reply", "read")
  /\ LeaveLoginBlock(s)
  /\ UNCHANGED <<up, now, table, addr, loggedIn, file, history>>

-----------------------------------------------------------------------------
(* release_resources: the socket is closed, then the blacklist is saved     *)
(* under the mutex.                                                         *)

\* serialize_blacklist up to clear_file: the file is truncated first.
StartSave(s) ==
  /\ mutex = Nobody /\ mutex' = s
  /\ Goto(s, "save", "saving")
  /\ unsaved' = BlockedLines /\ disk' = {}
  /\ UNCHANGED <<up, now, table, addr, known, success, loggedIn, history>>

\* One file_append_text.
AppendLine(s) ==
  /\ pc[s] = "saving"
  /\ \E l \in unsaved : disk' = disk \cup {l} /\ unsaved' = unsaved \ {l}
  /\ UNCHANGED <<up, now, mutex, table, pc, addr, known, success, loggedIn, history>>

\* Mutant of FinishSave: the thread ends with the mutex held.
FinishSaveLocked(s) ==
  /\ unsaved = {}
  /\ Goto(s, "saving", "idle")
  /\ addr' = [addr EXCEPT ![s] = Nobody]
  /\ loggedIn' = [loggedIn EXCEPT ![s] = FALSE]
  /\ UNCHANGED <<up, now, mutex, table, known, success, file, history>>

\* The lock is released and the thread ends, and with it its connection.
FinishSave(s) ==
  /\ unsaved = {} /\ mutex' = Nobody
  /\ Goto(s, "saving", "idle")
  /\ addr' = [addr EXCEPT ![s] = Nobody]
  /\ loggedIn' = [loggedIn EXCEPT ![s] = FALSE]
  /\ UNCHANGED <<up, now, table, known, success, file, history>>

-----------------------------------------------------------------------------

LoginStep(s) ==
  Gate(s) \/ Lookup(s) \/ Authenticate(s) \/ Insert(s) \/ Count(s) \/ Reply(s)

SaveStep(s) == StartSave(s) \/ AppendLine(s) \/ FinishSave(s)

\* What a client decides: to connect, and what to send next.
ClientStep(s) ==
  (\E a \in Address : Accept(s, a)) \/ ReadLogin(s) \/ Logout(s) \/ HangUp(s)

Next ==
  \/ Start \/ Stop \/ Tick
  \/ \E s \in Session : ClientStep(s) \/ Greet(s) \/ LoginStep(s) \/ SaveStep(s)

Spec == Init /\ [][Next]_vars

\* Threads are scheduled, and a thread that finds the mutex free again and
\* again gets it in the end; system calls and the login system return.  Clients
\* owe nothing but the rest of a LOGIN, which c_login writes in one piece.
Acquire(s) ==
  Greet(s) \/ Gate(s) \/ Lookup(s) \/ Insert(s) \/ Count(s) \/ StartSave(s)

Proceed(s) == Authenticate(s) \/ Reply(s) \/ AppendLine(s) \/ FinishSave(s)

Fairness == \A s \in Session : SF_vars(Acquire(s)) /\ WF_vars(Proceed(s))

FairSpec == Spec /\ Fairness

-----------------------------------------------------------------------------
(* Properties.                                                              *)

\* The unchecked (*get_blacklist())[ip].get()-> of the counting step finds an
\* entry, although contains_ip was read two critical sections earlier.
EntryPresent ==
  \A s \in Session :
    pc[s] \in {"count", "reply"} \/ (pc[s] \in {"auth", "insert"} /\ known[s])
      => addr[s] \in listed

\* Two threads are never both between obtaining login_attempts_mutex and
\* releasing it, so a save never runs beside an update of the table.
MutexDiscipline ==
  \A s \in Session : pc[s] \in {"reply", "saving"} <=> mutex = s

\* Once the last connection of an address has ended, blacklist.blk and the
\* table agree on that address: a restart would block it exactly if, and as
\* long as, the running server does.
FileAgrees ==
  up /\ (\A s \in Session : pc[s] # "saving") =>
    \A a \in Address :
      (\A s \in Session : addr[s] # a)
        => /\ (\E l \in disk : l.addr = a) <=> (a \in listed /\ numAttempts[a] >= Limit)
           /\ \A l \in disk : l.addr = a => l.sec = lastSec[a]

\* A check that is stale by the time it is used lets every other thread of the
\* address count one failure past the block, and no thread two.
LateFailuresBounded ==
  \A a \in Address : late[a] < Cardinality(Session)

\* num_attempts is the number of failed logins in a row.
CountExact == \A a \in Address : numAttempts[a] = streak[a]

\* As long as no two connections share an address, the four critical sections
\* of a LOGIN together behave as one step of LoginPolicy, and what a restart
\* remembers are blocks that stood when they were saved.
Policy == INSTANCE LoginPolicy
            WITH clock <- now, fails <- numAttempts, since <- lastSec, record <- disk

ImplementsPolicy == Policy!PolicySpec

\* A block lasts until its timeout while the server runs: no login of anybody
\* shortens it.
BlockLasts ==
  [][\A a \in Address :
       IsBlocked(a) /\ up' => IsBlocked(a)' \/ now' - lastSec[a] > Timeout]_vars

\* "the server may have blocked this IP address after 3 failed attempts in a
\* row" (client/function.cpp): three failures in a row put the address on the
\* list of the blocked.
ThreeInARowBlocks ==
  \A a \in Address : streak[a] >= Limit => numAttempts[a] >= Limit

\* Every LOGIN is answered, by a reply or by closing the connection.
LoginAnswered ==
  \A s \in Session : pc[s] = "gate" ~> pc[s] \in {"read", "save", "idle"}

\* Every connection that leaves the loop is closed and saved, however many
\* others compete for the mutex.
ConnectionEnds == \A s \in Session : pc[s] = "save" ~> pc[s] = "idle"

=============================================================================
