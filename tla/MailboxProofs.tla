---------------------------- MODULE MailboxProofs ----------------------------
(***************************************************************************)
(* MailPool implements Mailbox: for any number of senders, of sessions of   *)
(* the user, of mails, attachments and crashes, the system calls of all of  *)
(* them amount to deliveries, listings and deletions of whole mails.        *)
(***************************************************************************)
EXTENDS MailPoolProofs

\* A listing has its state in todo, whole and due; nobody else uses them.
Listings ==
  \A t \in Thread :
    /\ op[t] # "load" => todo[t] = {} /\ whole[t] = {} /\ due[t] = {}
    /\ op[t] = "none" => ok[t]
    /\ pc[t] \in {"exists", "text", "list", "read", "rename"} => ok[t]
    /\ pc[t] \in {"open", "flock"} => ok[t]
    /\ op[t] = "load" /\ ok[t] => IF pc[t] = "reply" THEN todo[t] = {} ELSE cur[t] \in todo[t]

\* What a listing still looks at, has shown and fails over fits its operation and place.
LEMMA ListingsInvariant == Spec => []Listings
<1>1. Init => Listings
  BY DEF Init, Listings
<1>2. TypeOK /\ Stages /\ Listings /\ [Next]_vars => Listings'
  <2> SUFFICES ASSUME TypeOK, Stages, Listings, [Next]_vars PROVE Listings'
    OBVIOUS
  <2> USE MailPoolAssumption
      DEF TypeOK, Stages, Listings, Thread, Inbox, Goto, disk, locks, parsed, history
  <2>1. ASSUME NEW t \in Thread, SaveStep(t) PROVE Listings'
    BY <2>1 DEF SaveStep, StartSave, MakeDir, MakeAttachmentDir, CreateText, Append, Attach,
                Saved, Written
  <2>2. ASSUME NEW t \in Thread, LoadStep(t) PROVE Listings'
    BY <2>2 DEF LoadStep, StartLoad, CheckExists, ReadText, ListAttachments, ReadAttachments,
                Throw
  <2>3. ASSUME NEW t \in Thread, DeleteStep(t) PROVE Listings'
    BY <2>3 DEF DeleteStep, StartDelete, Rename, MoveDir, Throw
  <2>4. ASSUME NEW t \in Thread, LockStep(t) PROVE Listings'
    BY <2>4 DEF LockStep, OpenLock, ObtainLock, RemoveLock, CloseLock, NextTurn, Rest, Throw,
                Lock!Open, Lock!Flock, Lock!Remove, Lock!Close
  <2>5. ASSUME NEW t \in Thread, Reply(t) PROVE Listings'
    BY <2>5 DEF Reply, AnswerSave, AnswerLoad, AnswerDelete, Answer
  <2>6. CASE Crash
    BY <2>6 DEF Crash, Lock!Abandon
  <2>7. CASE UNCHANGED vars
    BY <2>7 DEF vars
  <2> QED BY <2>1, <2>2, <2>3, <2>4, <2>5, <2>6, <2>7 DEF Next, Step
<1> QED BY <1>1, <1>2, SavesAreExclusive, PTL DEF Spec

-----------------------------------------------------------------------------
(* What the mapping makes of a step.                                         *)

BoxStatus == [m \in Mail |-> Status(m)]
BoxState == [t \in Thread |-> State(t)]
BoxRest == [t \in Thread |-> IF ok[t] THEN todo[t] ELSE {}]

\* Mails change only with their directories and the answers to their senders.
LEMMA SameStatus == UNCHANGED <<dir, acked>> => UNCHANGED BoxStatus
BY DEF BoxStatus, Status

\* A step of one thread changes the state of one session.
LEMMA OneState ==
  ASSUME TypeOK, NEW t \in Thread,
         \A u \in Thread \ {t} : op'[u] = op[u] /\ ok'[u] = ok[u] /\ pc'[u] = pc[u]
  PROVE  BoxState' = [BoxState EXCEPT ![t] = State(t)']
<1>1. \A u \in Thread \ {t} : State(u)' = State(u)
  BY DEF State
<1> QED BY <1>1 DEF BoxState

\* A thread that does nothing a Mailbox knows of.
LEMMA Stutters ==
  ASSUME TypeOK, NEW t \in Thread, UNCHANGED <<dir, acked, due, whole>>,
         \A u \in Thread \ {t} :
           op'[u] = op[u] /\ ok'[u] = ok[u] /\ pc'[u] = pc[u] /\ todo'[u] = todo[u],
         State(t)' = State(t), BoxRest'[t] = BoxRest[t]
  PROVE  UNCHANGED <<BoxStatus, BoxState, due, BoxRest, whole>>
<1>1. UNCHANGED BoxStatus
  BY SameStatus
<1>2. UNCHANGED BoxState
  BY OneState DEF BoxState
<1>3. UNCHANGED BoxRest
  BY DEF BoxRest
<1> QED BY <1>1, <1>2, <1>3

\* In terms of these, a step of the pool is a step of Mailbox or a stutter.
BoxStep ==
  \/ Box!Next
  \/ UNCHANGED <<BoxStatus, BoxState, due, BoxRest, whole>>

\* The steps of a SEND.
LEMMA SaveBox ==
  ASSUME TypeOK, Stages, Saves, NEW t \in Thread, SaveStep(t)
  PROVE  BoxStep
<1> USE DEF TypeOK, Thread, Goto, disk, locks, parsed, history
<1>1. CASE MakeDir(t)
  <2> PICK m \in Mail : m = cur[t]
    BY <1>1 DEF MakeDir, Stages
  <2>1. pc[t] = "mkdir" /\ op[t] = "save"
    BY <1>1 DEF MakeDir, Stages
  <2>2. dir[m] = "absent" /\ m \notin acked
    BY <2>1 DEF Saves, Progress
  <2>3. dir' = [dir EXCEPT ![m] = "there"] /\ UNCHANGED acked
    BY <1>1 DEF MakeDir
  <2>4. Status(m) = "new" /\ Status(m)' = "arriving"
    <3>1. dir'[m] = "there"
      BY <2>3
    <3> QED BY <2>2, <2>3, <3>1 DEF Status
  <2>5. \A n \in Mail \ {m} : Status(n)' = Status(n)
    <3>1. \A n \in Mail \ {m} : dir'[n] = dir[n]
      BY <2>3
    <3> QED BY <2>3, <3>1 DEF Status
  <2>6. BoxStatus' = [BoxStatus EXCEPT ![m] = "arriving"] /\ BoxStatus[m] = "new"
    BY <2>1, <2>4, <2>5 DEF BoxStatus
  <2>7. UNCHANGED <<op, ok, due, whole, todo>> /\ pc' = [pc EXCEPT ![t] = "mkatt"]
    BY <1>1 DEF MakeDir
  <2>8. UNCHANGED <<BoxState, BoxRest>>
    <3>1. State(t)' = State(t)
      BY <2>1, <2>7 DEF State
    <3>2. \A u \in Thread \ {t} : State(u)' = State(u)
      BY <2>7 DEF State
    <3> QED BY <2>7, <3>1, <3>2 DEF BoxState, BoxRest
  <2>9. Box!Arrive(m)
    BY <2>6, <2>7, <2>8 DEF Box!Arrive, Box!Becomes, Box!listing, BoxStatus, BoxState, BoxRest
  <2> QED BY <2>9 DEF BoxStep, Box!Next
<1>2. CASE ~MakeDir(t)
  <2>1. UNCHANGED <<dir, acked, due, whole, todo, ok>>
    BY <1>2 DEF SaveStep, StartSave, MakeAttachmentDir, CreateText, Append, Attach, Saved
  <2>2. \A u \in Thread \ {t} : op'[u] = op[u] /\ pc'[u] = pc[u]
    BY <1>2 DEF SaveStep, StartSave, MakeAttachmentDir, CreateText, Append, Attach, Saved
  <2>3. op[t] \in {"none", "save"} /\ op'[t] = "save"
    BY <1>2 DEF SaveStep, StartSave, MakeAttachmentDir, CreateText, Append, Attach, Saved, Stages
  <2>4. State(t)' = State(t)
    BY <2>3 DEF State
  <2>5. BoxRest'[t] = BoxRest[t]
    BY <2>1 DEF BoxRest
  <2> QED BY <2>1, <2>2, <2>4, <2>5, Stutters DEF BoxStep
<1> QED BY <1>1, <1>2

\* A listing fails over a mail that is not, or no longer, delivered.
LEMMA FailureBox ==
  ASSUME TypeOK, NEW t \in Thread, op[t] = "load", ok[t], cur[t] \in todo[t],
         cur[t] \notin acked \cap Inbox,
         ok' = [ok EXCEPT ![t] = FALSE], UNCHANGED <<dir, acked, op, due, whole, todo>>,
         \A u \in Thread \ {t} : pc'[u] = pc[u]
  PROVE  BoxStep
<1> USE DEF TypeOK
<1>1. UNCHANGED BoxStatus
  BY SameStatus
<1>2. \A u \in Thread \ {t} : op'[u] = op[u] /\ ok'[u] = ok[u] /\ pc'[u] = pc[u]
  OBVIOUS
<1>3. ok'[t] = FALSE
  BY FlagSet
<1>4. BoxState[t] = "listing" /\ BoxState' = [BoxState EXCEPT ![t] = "failed"]
  <2>1. State(t) = "listing" /\ State(t)' = "failed"
    BY <1>3 DEF State
  <2> QED BY <1>2, <2>1, OneState DEF BoxState
<1>5. BoxRest' = [BoxRest EXCEPT ![t] = {}]
  BY <1>2, <1>3 DEF BoxRest
<1>6. cur[t] \in BoxRest[t] /\ cur[t] \in Mail
  BY DEF BoxRest
<1>7. BoxStatus[cur[t]] # "delivered"
  BY <1>6 DEF BoxStatus, Status, Inbox
<1>8. Box!Fail(t)
  BY <1>1, <1>4, <1>5, <1>6, <1>7 DEF Box!Fail, Box!Turns, BoxStatus, BoxState, BoxRest
<1> QED BY <1>8 DEF BoxStep, Box!Next

\* The steps of load_user_mails.
LEMMA LoadBox ==
  ASSUME TypeOK, Stages, Saves, AckedComplete, Listings, NEW t \in Thread, LoadStep(t)
  PROVE  BoxStep
<1> USE DEF TypeOK, Goto, disk, locks, parsed, history
<1>1. CASE StartLoad(t)
  <2>1. /\ UNCHANGED <<dir, acked, whole, ok>> /\ op[t] = "none" /\ ok[t]
        /\ op' = [op EXCEPT ![t] = "load"] /\ todo' = [todo EXCEPT ![t] = Inbox]
        /\ due' = [due EXCEPT ![t] = acked \cap Inbox]
        /\ \A u \in Thread \ {t} : pc'[u] = pc[u]
    BY <1>1 DEF StartLoad, Stages, Listings
  <2>2. BoxState[t] = "idle" /\ BoxState' = [BoxState EXCEPT ![t] = "listing"]
    <3>1. State(t) = "idle" /\ State(t)' = "listing"
      BY <2>1 DEF State
    <3>2. \A u \in Thread \ {t} : op'[u] = op[u] /\ ok'[u] = ok[u] /\ pc'[u] = pc[u]
      BY <2>1
    <3> QED BY <3>1, <3>2, OneState DEF BoxState
  <2>3. /\ {m \in Mail : BoxStatus[m] = "delivered"} = acked \cap Inbox
        /\ {m \in Mail : BoxStatus[m] \in {"arriving", "delivered"}} = Inbox
    BY DEF BoxStatus, Status, Inbox
  <2>4. BoxRest' = [BoxRest EXCEPT ![t] = Inbox]
    BY <2>1 DEF BoxRest
  <2>5. UNCHANGED BoxStatus
    BY <2>1, SameStatus
  <2>6. Box!BeginListing(t)
    BY <2>1, <2>2, <2>3, <2>4, <2>5
       DEF Box!BeginListing, Box!Turns, Box!Present, BoxStatus, BoxState, BoxRest
  <2> QED BY <2>6 DEF BoxStep, Box!Next
<1>2. CASE ~StartLoad(t)
  <2>1. op[t] = "load" /\ ok[t] /\ cur[t] \in todo[t] /\ pc[t] # "reply" /\ cur[t] \in Mail
    BY <1>2 DEF LoadStep, CheckExists, ReadText, ListAttachments, ReadAttachments, Throw, Stages,
                Listings
  <2>2. /\ UNCHANGED <<dir, acked, op, due, todo>>
        /\ \A u \in Thread \ {t} : pc'[u] = pc[u]
    BY <1>2 DEF LoadStep, CheckExists, ReadText, ListAttachments, ReadAttachments, Throw
  <2>3. CASE ok' = ok
    <3>1. State(t) = "listing" /\ State(t)' = "listing"
      BY <2>1, <2>2, <2>3 DEF State
    <3>2. \A u \in Thread \ {t} : op'[u] = op[u] /\ ok'[u] = ok[u] /\ pc'[u] = pc[u]
      BY <2>2, <2>3
    <3>3. CASE UNCHANGED whole
      <4>1. BoxRest'[t] = BoxRest[t]
        BY <2>2, <2>3 DEF BoxRest
      <4> QED BY <2>2, <3>1, <3>2, <3>3, <4>1, Stutters DEF BoxStep
    <3>4. CASE whole' = [whole EXCEPT ![t] = @ \cup {cur[t]}] /\ cur[t] \in Inbox
      <4>1. UNCHANGED <<BoxStatus, BoxState, BoxRest>>
        BY <2>2, <2>3, <3>1, <3>2, SameStatus DEF BoxState, BoxRest, State
      <4>2. BoxState[t] = "listing" /\ cur[t] \in BoxRest[t]
        BY <2>1, <3>1 DEF BoxState, BoxRest
      <4>3. BoxStatus[cur[t]] \in {"arriving", "delivered"}
        BY <2>1, <3>4 DEF BoxStatus, Status, Inbox
      <4>4. Box!Show(t, cur[t])
        BY <2>1, <2>2, <3>4, <4>1, <4>2, <4>3
           DEF Box!Show, Box!Present, BoxStatus, BoxState, BoxRest
      <4> QED BY <2>1, <4>4 DEF BoxStep, Box!Next
    <3>5. \/ UNCHANGED whole
          \/ whole' = [whole EXCEPT ![t] = @ \cup {cur[t]}] /\ cur[t] \in Inbox
      BY <1>2 DEF LoadStep, CheckExists, ReadText, ListAttachments, ReadAttachments, Throw
    <3> QED BY <3>3, <3>4, <3>5
  <2>4. CASE ok' # ok
    <3>1. ok' = [ok EXCEPT ![t] = FALSE] /\ UNCHANGED whole
      BY <1>2, <2>4 DEF LoadStep, CheckExists, ReadText, ListAttachments, ReadAttachments, Throw
    <3>2. cur[t] \notin acked \cap Inbox
      BY <1>2, <2>4 DEF LoadStep, CheckExists, ReadText, ListAttachments, ReadAttachments, Throw,
                        AckedComplete, Complete, TextLines, Saves
    <3> QED BY <2>1, <2>2, <3>1, <3>2, FailureBox
  <2> QED BY <2>3, <2>4
<1> QED BY <1>1, <1>2

\* The steps of delete_mail.
LEMMA DeleteBox ==
  ASSUME TypeOK, Stages, Listings, NEW t \in Thread, DeleteStep(t)
  PROVE  BoxStep
<1> USE DEF TypeOK, Goto, disk, locks, parsed, history
<1>1. /\ UNCHANGED <<acked, due, whole, todo>>
      /\ \A u \in Thread \ {t} : op'[u] = op[u] /\ ok'[u] = ok[u] /\ pc'[u] = pc[u]
      /\ op[t] # "load" /\ op'[t] = "delete" /\ todo[t] = {}
  BY DEF DeleteStep, StartDelete, Rename, MoveDir, Throw, Stages, Listings
<1>2. BoxRest' = BoxRest
  BY <1>1 DEF BoxRest
<1>3. CASE StartDelete(t)
  <2>1. State(t) = "idle" /\ State(t)' = "idle" /\ UNCHANGED dir
    <3>1. op[t] = "none" /\ pc'[t] \in {"open", "reply"} /\ (pc'[t] = "reply" => ~ok'[t])
      BY <1>3, FlagSet DEF StartDelete, Throw, Stages
    <3> QED BY <1>1, <1>3, <3>1 DEF State, StartDelete
  <2> QED BY <1>1, <1>2, <2>1, Stutters DEF BoxStep
<1>4. CASE Rename(t) /\ cur[t] \notin Inbox
  <2>1. State(t) = "idle" /\ State(t)' = "idle" /\ UNCHANGED dir
    <3>1. pc[t] = "rename" /\ ~ok'[t] /\ UNCHANGED dir
      BY <1>4, FlagSet DEF Rename, MoveDir
    <3> QED BY <1>1, <3>1 DEF State, Stages
  <2> QED BY <1>1, <1>2, <2>1, Stutters DEF BoxStep
<1>5. CASE Rename(t) /\ cur[t] \in Inbox
  <2> PICK m \in Mail : m = cur[t]
    BY <1>5 DEF Inbox
  <2>1. dir[m] = "there" /\ dir' = [dir EXCEPT ![m] = "moved"]
    BY <1>5 DEF Rename, MoveDir, Inbox
  <2>2. BoxStatus' = [BoxStatus EXCEPT ![m] = "deleted"]
    <3>1. dir'[m] = "moved" /\ \A n \in Mail \ {m} : dir'[n] = dir[n]
      BY <2>1
    <3>2. Status(m)' = "deleted" /\ \A n \in Mail \ {m} : Status(n)' = Status(n)
      BY <1>1, <3>1 DEF Status
    <3> QED BY <3>2 DEF BoxStatus
  <2>3. BoxStatus[m] \in {"arriving", "delivered"}
    BY <2>1 DEF BoxStatus, Status
  <2>4. BoxState[t] = "idle" /\ BoxState' = [BoxState EXCEPT ![t] = "deleted"]
    <3>1. pc[t] = "rename" /\ pc'[t] = "remove" /\ ok[t] /\ ok' = ok /\ op[t] = "delete"
      BY <1>5 DEF Rename, MoveDir, Listings, Stages
    <3>2. State(t) = "idle" /\ State(t)' = "deleted"
      BY <1>1, <3>1 DEF State
    <3> QED BY <1>1, <3>2, OneState DEF BoxState
  <2>5. Box!Delete(t, m)
    BY <1>1, <1>2, <2>2, <2>3, <2>4
       DEF Box!Delete, Box!Becomes, Box!Turns, Box!listing, BoxStatus, BoxState, BoxRest
  <2> QED BY <2>5 DEF BoxStep, Box!Next
<1> QED BY <1>3, <1>4, <1>5 DEF DeleteStep

\* The steps of the filelock.
LEMMA LockBox ==
  ASSUME TypeOK, Stages, Saves, Loads, Listings, NEW t \in Thread, LockStep(t)
  PROVE  BoxStep
<1> USE DEF TypeOK, Goto, disk, locks, parsed, history
<1>1. /\ UNCHANGED <<dir, acked, due, whole, op>> /\ op[t] \in {"load", "delete"}
      /\ \A u \in Thread \ {t} : ok'[u] = ok[u] /\ pc'[u] = pc[u] /\ todo'[u] = todo[u]
  BY DEF LockStep, OpenLock, ObtainLock, RemoveLock, CloseLock, NextTurn, Throw, Stages
<1>2. CASE OpenLock(t) /\ op[t] = "load" /\ ok' # ok
  <2>1. ok' = [ok EXCEPT ![t] = FALSE] /\ cur[t] \notin Inbox /\ UNCHANGED todo
    BY <1>2 DEF OpenLock, Throw
  <2>2. ok[t] /\ cur[t] \in todo[t]
    BY <1>2 DEF OpenLock, Throw, Listings
  <2> QED BY <1>1, <1>2, <2>1, <2>2, FailureBox
<1>3. CASE OpenLock(t) /\ (op[t] = "delete" \/ ok' = ok)
  <2>1. State(t) = State(t)'
    <3>1. CASE ok' = ok /\ pc[t] = "open" /\ pc'[t] \in {"flock", "reply"} /\ op[t] = "load"
      BY <1>1, <3>1 DEF State
    <3>2. CASE pc[t] = "open" /\ pc'[t] = "flock" /\ op[t] = "delete"
      BY <1>1, <3>2 DEF State
    <3>3. CASE pc[t] = "open" /\ pc'[t] = "reply" /\ ~ok'[t] /\ op[t] = "delete"
      BY <1>1, <3>3 DEF State
    <3>4. /\ pc[t] = "open" /\ pc'[t] \in {"flock", "reply"}
          /\ pc'[t] = "reply" => ok' = [ok EXCEPT ![t] = FALSE]
          /\ pc'[t] = "flock" => ok' = ok
      BY <1>3 DEF OpenLock, Throw
    <3>5. ok' = [ok EXCEPT ![t] = FALSE] => ~ok'[t]
      BY FlagSet
    <3> QED BY <1>1, <1>3, <3>1, <3>2, <3>3, <3>4, <3>5
  <2>2. BoxRest'[t] = BoxRest[t]
    <3>1. UNCHANGED todo
      BY <1>3 DEF OpenLock
    <3>2. op[t] = "delete" => todo[t] = {}
      BY DEF Listings
    <3> QED BY <1>1, <1>3, <3>1, <3>2 DEF BoxRest
  <2> QED BY <1>1, <2>1, <2>2, Stutters DEF BoxStep
<1>4. CASE ObtainLock(t) \/ RemoveLock(t)
  <2>1. UNCHANGED <<ok, todo>>
    BY <1>4 DEF ObtainLock, RemoveLock
  <2>2. \/ op[t] = "load"
        \/ op[t] = "delete" /\ pc[t] = "flock" /\ pc'[t] = "rename"
        \/ op[t] = "delete" /\ pc[t] = "remove" /\ pc'[t] = "close"
    BY <1>1, <1>4 DEF ObtainLock, RemoveLock
  <2>3. State(t) = State(t)' /\ BoxRest'[t] = BoxRest[t]
    BY <1>1, <2>1, <2>2 DEF State, BoxRest
  <2> QED BY <1>1, <2>1, <2>3, Stutters DEF BoxStep
<1>5. CASE CloseLock(t) /\ op[t] = "load" /\ ok[t]
  <2> PICK m \in Mail : m = cur[t]
    BY <1>5 DEF CloseLock, NextTurn, Stages
  <2>1. pc[t] = "close" /\ ok' = ok /\ todo' = [todo EXCEPT ![t] = @ \ {m}]
    BY <1>5 DEF CloseLock, NextTurn, Rest
  <2>2. m \in todo[t]
    BY <1>5, <2>1 DEF Listings
  <2>3. m \in due[t] => m \in whole[t] \/ dir[m] = "moved"
    <3>1. m \in due[t] => m \in acked
      BY <1>5 DEF Loads
    <3>2. m \in due[t] \cap Inbox => m \in whole[t]
      BY <1>5, <2>1 DEF Loads
    <3>3. m \in acked => dir[m] # "absent"
      BY DEF Saves
    <3> QED BY <3>1, <3>2, <3>3 DEF Inbox
  <2>4. State(t) = "listing" /\ State(t)' = "listing"
    BY <1>1, <1>5, <2>1 DEF State
  <2>5. UNCHANGED <<BoxStatus, BoxState>>
    BY <1>1, <2>1, <2>4, SameStatus DEF BoxState, State
  <2>6. BoxRest' = [BoxRest EXCEPT ![t] = @ \ {m}] /\ m \in BoxRest[t]
    BY <1>5, <2>1, <2>2 DEF BoxRest
  <2>7. m \in due[t] => m \in whole[t] \/ BoxStatus[m] = "deleted"
    BY <2>3 DEF BoxStatus, Status
  <2>8. BoxState[t] = "listing"
    BY <2>4 DEF BoxState
  <2>9. Box!Pass(t, m)
    BY <1>1, <2>5, <2>6, <2>7, <2>8 DEF Box!Pass, BoxStatus, BoxState, BoxRest
  <2> QED BY <2>9 DEF BoxStep, Box!Next
<1>6. CASE CloseLock(t) /\ ~(op[t] = "load" /\ ok[t])
  <2>1. ok' = ok /\ pc[t] = "close" /\ pc'[t] = "reply" /\ todo' = [todo EXCEPT ![t] = {}]
    BY <1>6 DEF CloseLock, NextTurn, Rest
  <2>2. State(t) = State(t)'
    BY <1>1, <2>1 DEF State
  <2>3. BoxRest'[t] = BoxRest[t]
    BY <1>1, <1>6, <2>1 DEF BoxRest, Listings
  <2> QED BY <1>1, <2>1, <2>2, <2>3, Stutters DEF BoxStep
<1> QED BY <1>1, <1>2, <1>3, <1>4, <1>5, <1>6 DEF LockStep

\* The answers.
LEMMA ReplyBox ==
  ASSUME TypeOK, Stages, Saves, Listings, NEW t \in Thread, Reply(t)
  PROVE  BoxStep
<1> USE DEF TypeOK, Goto, disk, locks, parsed, history
<1>1. Answer(t)
  BY DEF Reply, AnswerSave, AnswerLoad, AnswerDelete
<1>2. /\ UNCHANGED dir /\ pc[t] = "reply" /\ op'[t] = "none" /\ State(t)' = "idle"
      /\ \A u \in Thread \ {t} : op'[u] = op[u] /\ ok'[u] = ok[u] /\ pc'[u] = pc[u]
      /\ todo' = [todo EXCEPT ![t] = {}] /\ whole' = [whole EXCEPT ![t] = {}]
      /\ due' = [due EXCEPT ![t] = {}]
  BY <1>1 DEF Answer, State
<1>3. BoxState' = [BoxState EXCEPT ![t] = "idle"] /\ BoxState[t] = State(t)
  BY <1>2, OneState DEF BoxState
<1>4. BoxRest[t] = {} /\ UNCHANGED BoxRest
  <2>1. ok[t] => todo[t] = {}
    BY <1>2 DEF Listings, Stages
  <2> QED BY <1>2, <2>1 DEF BoxRest
<1>5. CASE State(t) # "idle"
  <2>1. UNCHANGED acked
    BY <1>5 DEF Reply, AnswerSave, AnswerLoad, AnswerDelete, State
  <2>2. Box!Answer(t)
    BY <1>2, <1>3, <1>4, <1>5, <2>1, SameStatus DEF Box!Answer, BoxStatus, BoxState, BoxRest
  <2> QED BY <2>2 DEF BoxStep, Box!Next
<1>6. CASE State(t) = "idle"
  <2>1. op[t] # "load"
    BY <1>6 DEF State
  <2>2. UNCHANGED <<due, whole>>
    BY <1>2, <2>1 DEF Listings
  <2>3. UNCHANGED BoxState
    BY <1>3, <1>6 DEF BoxState
  <2>4. CASE acked' = acked
    BY <1>2, <1>4, <2>2, <2>3, <2>4, SameStatus DEF BoxStep
  <2>5. CASE acked' # acked
    <3>1. op[t] = "save" /\ acked' = acked \cup {cur[t]}
      BY <2>5 DEF Reply, AnswerSave, AnswerLoad, AnswerDelete
    <3> PICK m \in Mail : m = cur[t]
      BY <1>2, <3>1 DEF Stages
    <3>2. dir[m] # "absent" /\ m \notin acked
      BY <1>2, <3>1 DEF Saves, Progress
    <3>3. \A n \in Mail \ {m} : Status(n)' = Status(n)
      BY <1>2, <3>1 DEF Status
    <3>4. CASE dir[m] = "moved"
      <4>1. Status(m)' = Status(m)
        BY <1>2, <3>4 DEF Status
      <4>2. UNCHANGED BoxStatus
        BY <3>3, <4>1 DEF BoxStatus
      <4> QED BY <1>4, <2>2, <2>3, <4>2 DEF BoxStep
    <3>5. CASE dir[m] = "there"
      <4>1. Status(m) = "arriving" /\ Status(m)' = "delivered"
        BY <1>2, <3>1, <3>2, <3>5 DEF Status
      <4>2. BoxStatus[m] = "arriving" /\ BoxStatus' = [BoxStatus EXCEPT ![m] = "delivered"]
        BY <3>3, <4>1 DEF BoxStatus
      <4>3. Box!Deliver(m)
        BY <1>4, <2>2, <2>3, <4>2
           DEF Box!Deliver, Box!Becomes, Box!listing, BoxStatus, BoxState, BoxRest
      <4> QED BY <4>3 DEF BoxStep, Box!Next
    <3> QED BY <3>2, <3>4, <3>5
  <2> QED BY <2>4, <2>5
<1> QED BY <1>5, <1>6

\* The end of the server.
LEMMA CrashBox ==
  ASSUME TypeOK, Crash
  PROVE  BoxStep
<1>1. UNCHANGED <<dir, acked>>
  BY DEF Crash, disk
<1>2. /\ due' = [t \in Thread |-> {}] /\ whole' = [t \in Thread |-> {}]
      /\ \A t \in Thread : op'[t] = "none" /\ todo'[t] = {}
  BY DEF Crash
<1>3. BoxState' = [t \in Thread |-> "idle"] /\ BoxRest' = [t \in Thread |-> {}]
  <2>1. \A t \in Thread : State(t)' = "idle"
    BY <1>2 DEF State
  <2> QED BY <1>2, <2>1 DEF BoxState, BoxRest
<1>4. Box!Crash
  BY <1>1, <1>2, <1>3, SameStatus DEF Box!Crash, Box!Nothing, BoxStatus, BoxState, BoxRest
<1> QED BY <1>4 DEF BoxStep, Box!Next

\* Whatever senders, sessions of the user and crashes do at the same time, it
\* looks to all of them as if mails arrived, were delivered, listed and deleted
\* as a whole.
THEOREM PoolIsMailbox == Spec => MailboxImplemented
<1>1. Init => Box!Init
  <2> SUFFICES ASSUME Init PROVE Box!Init
    OBVIOUS
  <2>1. \A m \in Mail : Status(m) = "new"
    BY DEF Init, Status
  <2>2. \A t \in Thread : State(t) = "idle"
    BY DEF Init, State
  <2> QED BY <2>1, <2>2 DEF Init, Box!Init, Box!Nothing
<1>2. TypeOK /\ Stages /\ Saves /\ AckedComplete /\ Loads /\ Listings /\ [Next]_vars
        => [Box!Next]_(Box!vars)
  <2> SUFFICES ASSUME TypeOK, Stages, Saves, AckedComplete, Loads, Listings, [Next]_vars
               PROVE  BoxStep
    BY DEF BoxStep, Box!vars, Box!listing, BoxStatus, BoxState, BoxRest
  <2>1. CASE UNCHANGED vars
    BY <2>1, SameStatus
       DEF vars, disk, parsed, history, BoxStep, BoxState, State, BoxRest
  <2> QED BY <2>1, SaveBox, LoadBox, DeleteBox, LockBox, ReplyBox, CrashBox DEF Next, Step
<1> QED BY <1>1, <1>2, SavesAreExclusive, AckedMailsAreComplete, LoadsInvariant,
           ListingsInvariant, PTL DEF Spec, MailboxImplemented, Box!Spec

=============================================================================
