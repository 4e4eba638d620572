-------------------------- MODULE LifecycleProofs --------------------------
(***************************************************************************)
(* Lifecycle for any number of connections, descriptors and signals: the    *)
(* descriptors of connections are their own, no memory is used that is not  *)
(* there until a teardown begins, and one teardown deletes nothing twice.   *)
(***************************************************************************)
EXTENDS Lifecycle, TLAPS

USE DEF Pointer, Existence, Teardown, Location, Running, DisposeStep, Outcome

\* Writing one entry of a function keeps its type, and says what it holds.
LEMMA Written ==
  ASSUME NEW D, NEW R, NEW f \in [D -> R], NEW k \in D, NEW v \in R
  PROVE  /\ [f EXCEPT ![k] = v] \in [D -> R]
         /\ \A i \in D : [f EXCEPT ![k] = v][i] = IF i = k THEN v ELSE f[i]
  OBVIOUS

\* Every variable has its type in the first state.
LEMMA InitTyped == Init => TypeOK
<1> SUFFICES ASSUME Init PROVE TypeOK
  OBVIOUS
<1>1. made \in 0..Depth /\ part \in 1..Depth /\ signals \in 0..MaxSignals
  BY LifecycleAssumption DEF Init
<1>2. /\ thread \in [Session -> Running \cup {"none", "ended", "handler"}]
      /\ service \in [Session -> Existence] /\ desc \in [Session -> Fd \cup {NoFd}]
      /\ object \in [Pointer -> Existence]
  BY DEF Init
<1>3. step \in [Thread -> DisposeStep] /\ left \in [Thread -> SUBSET Session]
  BY DEF Init
<1>4. QED
  BY <1>1, <1>2, <1>3 DEF Init, TypeOK

\* The end of the process keeps every variable in its type.
LEMMA EndsTyped ==
  ASSUME TypeOK, NEW how \in Outcome, Ends(how)
  PROVE  TypeOK'
<1>1. /\ thread' \in [Session -> {"none"}] /\ service' \in [Session -> Existence]
      /\ desc' \in [Session -> {NoFd}] /\ object' \in [Pointer -> Existence]
  BY DEF Ends
<1>2. step' \in [Thread -> DisposeStep] /\ left' \in [Thread -> SUBSET Session]
  BY DEF Ends
<1>3. ended' = how /\ open' = {} /\ listening' = NoFd /\ initialized' = FALSE /\ listed' = {}
  BY DEF Ends
<1>4. UNCHANGED <<made, part, main, current, locals, jammed, signals, twice, corrupt>>
  BY DEF Ends
<1>5. thread' \in [Session -> Running \cup {"none", "ended", "handler"}]
      /\ desc' \in [Session -> Fd \cup {NoFd}]
  BY <1>1
<1>6. /\ made' \in 0..Depth /\ part' \in 1..Depth /\ signals' \in 0..MaxSignals
      /\ main' \in Location /\ current' \in Session \cup {Nobody}
      /\ main' \in {"spawn", "register"} => current' \in Session
      /\ locals' \in BOOLEAN /\ jammed' \in BOOLEAN /\ corrupt' \in BOOLEAN /\ twice' \in BOOLEAN
  BY <1>4, Zenon DEF TypeOK
<1>7. /\ ended' \in Outcome \cup {"no"}
      /\ open' \subseteq Fd /\ listening' \in Fd \cup {NoFd}
      /\ initialized' \in BOOLEAN /\ listed' \subseteq Session
  BY <1>3
<1>8. QED
  BY <1>1, <1>2, <1>5, <1>6, <1>7, Zenon DEF TypeOK

\* So does every step of main.
LEMMA MainTyped == TypeOK /\ MainStep => TypeOK'
<1> SUFFICES ASSUME TypeOK, MainStep PROVE TypeOK'
  OBVIOUS
<1> USE LifecycleAssumption
    DEF TypeOK, Goto, progress, connections, sockets, memory, teardown, Thread
<1>1. CASE MakeDir
  BY <1>1 DEF MakeDir
<1>2. CASE Initialize
  BY <1>2 DEF Initialize
<1>3. CASE Bind
  BY <1>3 DEF Bind, Lowest
<1>4. CASE Accept
  BY <1>4 DEF Accept, Lowest
<1>5. CASE Spawn
  <2>1. /\ thread' \in [Session -> Running \cup {"none", "ended", "handler"}]
        /\ service' \in [Session -> Existence]
    BY <1>5 DEF Spawn, Launch
  <2>2. QED
    BY <1>5, <2>1 DEF Spawn, Launch
<1>6. CASE Register
  BY <1>6 DEF Register
<1>7. CASE Throw
  BY <1>7, ZenonT(60) DEF Throw
<1>8. QED
  BY <1>1, <1>2, <1>3, <1>4, <1>5, <1>6, <1>7 DEF MainStep

\* So does every step of a thread.
LEMMA SessionTyped == ASSUME NEW s \in Session PROVE TypeOK /\ SessionStep(s) => TypeOK'
<1> SUFFICES ASSUME TypeOK, SessionStep(s) PROVE TypeOK'
  OBVIOUS
<1>1. CASE Terminate(s) \/ BrokenPipe(s) \/ SaveFails(s)
  BY <1>1, EndsTyped DEF Terminate, BrokenPipe, SaveFails
<1> USE DEF TypeOK, Works, progress, sockets, memory, teardown
<1>2. CASE Serve(s)
  BY <1>2 DEF Serve
<1>3. CASE UseTable(s)
  BY <1>3 DEF UseTable
<1>4. CASE Close(s)
  BY <1>4 DEF Close
<1>5. CASE DeleteSocket(s)
  BY <1>5 DEF DeleteSocket
<1>6. CASE Save(s)
  BY <1>6 DEF Save
<1>7. QED
  BY <1>1, <1>2, <1>3, <1>4, <1>5, <1>6 DEF SessionStep

\* So does every step of a teardown.
LEMMA DisposeTyped == ASSUME NEW t \in Thread PROVE TypeOK /\ (Dispose(t) \/ Hang(t)) => TypeOK'
<1> SUFFICES ASSUME TypeOK, Dispose(t) \/ Hang(t) PROVE TypeOK'
  OBVIOUS
<1>1. CASE Exit(t)
  BY <1>1, EndsTyped DEF Exit
<1> USE DEF TypeOK, Advance, Deletes, progress, connections, sockets, memory
<1>2. CASE Check(t)
  BY <1>2 DEF Check
<1>3. CASE DeleteService(t)
  BY <1>3 DEF DeleteService
<1>4. CASE ServicesDeleted(t)
  BY <1>4 DEF ServicesDeleted
<1>5. CASE DeleteObject(t)
  <2> PICK p \in Pointer :
             /\ Advance(t, p, After[p]) /\ Deletes(object[p])
             /\ object' = [object EXCEPT ![p] = "deleted"]
             /\ IF p = "ss" THEN listening' = NoFd /\ \E f \in Handler : open' = open \ {f}
                ELSE UNCHANGED sockets
    BY <1>5 DEF DeleteObject
  <2>1. After[p] \in DisposeStep
    BY DEF After
  <2>2. step' \in [Thread -> DisposeStep] /\ object' \in [Pointer -> Existence]
    BY <2>1
  <2>3. open' \subseteq Fd /\ listening' \in Fd \cup {NoFd}
    OBVIOUS
  <2>4. twice' \in BOOLEAN /\ corrupt' \in BOOLEAN
    BY DEF Deletes
  <2>5. QED
    BY <1>5, <2>2, <2>3, <2>4 DEF DeleteObject
<1>6. CASE Reset(t)
  <2>1. step' \in [Thread -> DisposeStep] /\ object' \in [Pointer -> Existence]
    BY <1>6 DEF Reset
  <2>2. initialized' \in BOOLEAN /\ listed' \subseteq Session
    BY <1>6 DEF Reset
  <2>3. UNCHANGED <<made, progress, connections, sockets, locals, left, jammed, signals, twice,
                    corrupt>>
    BY <1>6 DEF Reset
  <2>4. QED
    BY <2>1, <2>2, <2>3
<1>7. CASE Hang(t)
  BY <1>7 DEF Hang
<1>8. QED
  BY <1>1, <1>2, <1>3, <1>4, <1>5, <1>6, <1>7 DEF Dispose

\* So does every step of the process.
LEMMA TypeStep == TypeOK /\ [Next]_vars => TypeOK'
<1> SUFFICES ASSUME TypeOK, [Next]_vars PROVE TypeOK'
  OBVIOUS
<1>1. CASE Interrupt
  <2>1. signals' \in 0..MaxSignals
    BY <1>1, LifecycleAssumption DEF Interrupt, TypeOK
  <2>2. step' \in [Thread -> DisposeStep]
    BY <1>1 DEF Interrupt, TypeOK, Thread
  <2>3. main' = "handler"
    BY <1>1 DEF Interrupt
  <2>4. thread' \in [Session -> Running \cup {"none", "ended", "handler"}]
    <3>1. thread \in [Session -> Running \cup {"none", "ended", "handler"}]
      BY DEF TypeOK
    <3>2. thread' = thread \/ \E s \in Session : thread' = [thread EXCEPT ![s] = "handler"]
      BY <1>1 DEF Interrupt
    <3>3. QED
      BY <3>1, <3>2
  <2>5. jammed' \in BOOLEAN
    <3>1. jammed' \in {jammed, jammed \/ main \in Allocating, TRUE}
      BY <1>1, Zenon DEF Interrupt
    <3>2. QED
      BY <3>1 DEF TypeOK
  <2>6. QED
    BY <1>1, <2>1, <2>2, <2>3, <2>4, <2>5 DEF Interrupt, TypeOK, memory, sockets
<1>2. CASE Crash
  BY <1>2, EndsTyped DEF Crash
<1>3. CASE UNCHANGED vars
  BY <1>3 DEF TypeOK, vars, progress, connections, sockets, memory, teardown
<1>4. QED
  BY <1>1, <1>2, <1>3, MainTyped, SessionTyped, DisposeTyped DEF Next

\* Every state of the process is well typed, for any number of connections,
\* descriptors and signals, and whatever freed memory holds.
THEOREM TypeCorrect == Spec => []TypeOK
  BY InitTyped, TypeStep, PTL DEF Spec

-----------------------------------------------------------------------------
(* Who is in dispose_appcontext.                                             *)

\* Before a teardown nobody is in it; a session's thread is only after a second
\* signal.
Quiet ==
  /\ main \notin Teardown => signals = 0 /\ \A t \in Thread : step[t] = "none"
  /\ main = "handler" => signals > 0
  /\ signals <= 1 => \A s \in Session : step[s] = "none"

\* Whoever is in dispose_appcontext moves on in it, and changes nothing that
\* Quiet depends on.
LEMMA DisposeQuiet ==
  ASSUME TypeOK, Quiet, NEW t \in Thread, Dispose(t) \/ Hang(t)
  PROVE  Quiet'
<1>1. CASE Exit(t)
  BY <1>1 DEF Exit, Ends, Quiet, Thread
<1>2. UNCHANGED <<main, signals>> \/ Exit(t)
  BY DEF Dispose, Hang, Check, DeleteService, ServicesDeleted, DeleteObject, Reset, Deletes,
         progress
<1>3. step[t] # "none" \/ Exit(t)
  BY DEF Dispose, Hang, Check, DeleteService, ServicesDeleted, DeleteObject, Reset, Advance
<1>4. \/ Exit(t)
      \/ UNCHANGED step
      \/ \E x : step' = [step EXCEPT ![t] = x]
  <2>1. ASSUME NEW p \in Pointer, step' = [step EXCEPT ![t] = After[p]]
        PROVE  \E x : step' = [step EXCEPT ![t] = x]
    BY <2>1
  <2>2. QED
    BY <2>1 DEF Dispose, Hang, Check, DeleteService, ServicesDeleted, DeleteObject, Reset, Advance
<1>5. CASE ~Exit(t)
  <2>1. \A u \in Thread : u # t => step'[u] = step[u]
    BY <1>4, <1>5 DEF TypeOK
  <2>2. QED
    BY <1>2, <1>3, <1>5, <2>1, LifecycleAssumption DEF Quiet, Thread, TypeOK
<1>6. QED
  BY <1>1, <1>5

\* Until a signal or an exception nobody is in dispose_appcontext, and only a
\* second signal takes the thread of a connection there.
THEOREM QuietInvariant == Spec => []Quiet
<1>1. Init => Quiet
  BY DEF Init, Quiet, Thread
<1>2. TypeOK /\ Quiet /\ [Next]_vars => Quiet'
  <2> SUFFICES ASSUME TypeOK, Quiet, [Next]_vars PROVE Quiet'
    OBVIOUS
  <2>1. CASE MakeDir \/ Initialize \/ Bind \/ Accept \/ Spawn \/ Register
    BY <2>1 DEF MakeDir, Initialize, Bind, Accept, Spawn, Launch, Register, Goto, Quiet, teardown
  <2>2. CASE Throw
    <3>1. step' = [step EXCEPT ![Main] = "check"] /\ signals' = signals /\ main' = "catch"
      BY <2>2 DEF Throw, Goto
    <3>2. QED
      BY <3>1, LifecycleAssumption DEF Quiet, Thread, TypeOK
  <2>3. CASE Interrupt
    <3>1. signals' = signals + 1 /\ main' = "handler"
      BY <2>3 DEF Interrupt
    <3>2. CASE signals = 0
      <4>1. step' = [step EXCEPT ![Main] = "check"]
        <5>1. main # "handler"
          BY <3>2 DEF Quiet
        <5>2. QED
          BY <2>3, <5>1 DEF Interrupt
      <4>2. QED
        BY <3>1, <3>2, <4>1, LifecycleAssumption DEF Quiet, Thread, TypeOK
    <3>3. CASE signals > 0
      BY <3>1, <3>3 DEF Quiet, TypeOK
    <3>4. QED
      BY <3>2, <3>3 DEF TypeOK
  <2>4. CASE \E s \in Session : SessionStep(s)
    BY <2>4 DEF SessionStep, Serve, UseTable, Terminate, BrokenPipe, Close, DeleteSocket, Save,
                SaveFails, Works, Ends, Quiet, progress, teardown, Thread
  <2>5. CASE Crash \/ UNCHANGED vars
    BY <2>5 DEF Crash, Ends, vars, progress, teardown, Quiet, Thread
  <2>6. QED
    BY <2>1, <2>2, <2>3, <2>4, <2>5, DisposeQuiet DEF Next, MainStep
<1>3. QED
  BY <1>1, <1>2, TypeCorrect, PTL DEF Spec

-----------------------------------------------------------------------------
(* Descriptors.                                                              *)

\* The thread of a connection, or main, has still to close its descriptor.
Owes(s) == thread[s] \in {"run", "spin", "close"} \/ (main = "spawn" /\ current = s)

\* Descriptors of connections are open and distinct.  Until a teardown, they and
\* the server socket's are all there are.
Descriptors ==
  Up =>
    /\ OwnDescriptor
    /\ listening # NoFd => listening \in open
    /\ object["ss"] = "live" /\ listening = NoFd => open = {}
    /\ main \notin Teardown =>
         /\ \A f \in open : f = listening \/ \E s \in Session : desc[s] = f
         /\ \A s \in Session : desc[s] # NoFd <=> Owes(s)
         /\ listening = NoFd <=> main \in {"construct", "initialize", "bind"}
         /\ main \in {"construct", "initialize", "bind"} => open = {}
         /\ main = "spawn" => thread[current] = "none"

\* What closes or opens a descriptor, or makes somebody owe it.
LEMMA DescriptorSteps ==
  ASSUME TypeOK, Quiet, [Next]_vars
  PROVE  \/ Bind \/ Accept \/ Spawn \/ (\E s \in Session : Close(s)) \/ ended' # "no"
         \/ /\ UNCHANGED <<ended, desc, open, listening>>
            /\ object'["ss"] = "live" => object["ss"] = "live" \/ main = "initialize"
            /\ \/ main' \in Teardown
               \/ /\ UNCHANGED current /\ main' \notin {"accept", "spawn", "register"}
                  /\ main \in {"construct", "initialize"}
                  /\ UNCHANGED thread
               \/ Register
               \/ /\ UNCHANGED <<main, current>>
                  /\ \A s \in Session : /\ Owes(s) <=> Owes(s)'
                                        /\ thread[s] = "none" => thread'[s] = "none"
         \/ /\ UNCHANGED <<ended, desc>> /\ main \in Teardown /\ main' = main
            /\ \E f \in Handler : open' = open \ {f}
            /\ listening' = NoFd /\ object'["ss"] = "deleted"
<1>1. CASE MakeDir \/ Initialize
  BY <1>1 DEF MakeDir, Initialize, Goto, connections, sockets
<1>2. CASE Bind \/ Accept \/ Spawn
  BY <1>2
<1>3. CASE Register
  BY <1>3 DEF Register, Goto, connections, sockets
<1>4. CASE Throw
  BY <1>4 DEF Throw, Goto, connections, sockets
<1>5. CASE Interrupt
  BY <1>5 DEF Interrupt, sockets, memory
<1>6. CASE Crash
  BY <1>6 DEF Crash, Ends
<1>7. CASE \E s \in Session : SessionStep(s)
  <2> PICK s \in Session : SessionStep(s)
    BY <1>7
  <2>1. CASE Terminate(s) \/ BrokenPipe(s) \/ SaveFails(s)
    BY <2>1 DEF Terminate, BrokenPipe, SaveFails, Ends
  <2>2. CASE Close(s)
    BY <2>2
  <2>3. CASE Serve(s)
    <3>1. PICK x \in {"run", "spin", "close"} : Works(s, "run", x, {})
      BY <2>3 DEF Serve
    <3>2. UNCHANGED <<ended, desc, open, listening, object, main, current>>
      BY <2>3, <3>1 DEF Serve, Works, progress, sockets, memory
    <3>3. \A u \in Session : /\ Owes(u) <=> Owes(u)'
                             /\ thread[u] = "none" => thread'[u] = "none"
      BY <3>1, <3>2 DEF Works, Owes, TypeOK
    <3>4. QED
      BY <3>2, <3>3
  <2>4. CASE UseTable(s) \/ DeleteSocket(s) \/ Save(s)
    <3>1. UNCHANGED <<ended, desc, open, listening, object, main, current>>
      BY <2>4 DEF UseTable, DeleteSocket, Save, Works, progress, sockets, memory
    <3>2. \A u \in Session : /\ Owes(u) <=> Owes(u)'
                             /\ thread[u] = "none" => thread'[u] = "none"
      BY <2>4, <3>1 DEF UseTable, DeleteSocket, Save, Works, Owes, TypeOK
    <3>3. QED
      BY <3>1, <3>2
  <2>5. QED
    BY <2>1, <2>2, <2>3, <2>4 DEF SessionStep
<1>8. CASE \E t \in Thread : Dispose(t) \/ Hang(t)
  <2> PICK t \in Thread : Dispose(t) \/ Hang(t)
    BY <1>8
  <2>1. CASE Exit(t)
    BY <2>1 DEF Exit, Ends
  <2>2. CASE DeleteObject(t)
    <3>1. main \in Teardown
      BY <2>2 DEF DeleteObject, Advance, Quiet
    <3>2. UNCHANGED <<ended, desc, thread, main, current>>
      BY <2>2 DEF DeleteObject, Deletes, progress
    <3>3. \/ UNCHANGED <<open, listening>> /\ (object'["ss"] = "live" => object["ss"] = "live")
          \/ /\ \E f \in Handler : open' = open \ {f}
             /\ listening' = NoFd /\ object'["ss"] = "deleted"
      BY <2>2 DEF DeleteObject, sockets, TypeOK
    <3>4. QED
      BY <3>1, <3>2, <3>3
  <2>3. CASE Check(t) \/ DeleteService(t) \/ ServicesDeleted(t) \/ Reset(t) \/ Hang(t)
    <3>1. UNCHANGED <<ended, desc, open, listening, main, current, thread>>
      BY <2>3 DEF Check, DeleteService, ServicesDeleted, Reset, Hang, Deletes, progress,
                  connections, sockets
    <3>2. object' = object \/ object'["ss"] = "none"
      BY <2>3 DEF Check, DeleteService, ServicesDeleted, Reset, Hang, memory
    <3>3. QED
      BY <3>1, <3>2 DEF Owes
  <2>4. QED
    BY <2>1, <2>2, <2>3 DEF Dispose
<1>9. CASE UNCHANGED vars
  BY <1>9 DEF vars, progress, connections, sockets, memory, Owes
<1>10. QED
  BY <1>1, <1>2, <1>3, <1>4, <1>5, <1>6, <1>7, <1>8, <1>9 DEF Next, MainStep

\* While the server is not torn down, a connection has its descriptor from accept
\* until its thread closes it, and nothing else but the server socket is open.
THEOREM DescriptorInvariant == Spec => []Descriptors
<1>1. Init => Descriptors
  BY DEF Init, Descriptors, OwnDescriptor, Owes, Up
<1>2. TypeOK /\ Quiet /\ Descriptors /\ [Next]_vars => Descriptors'
  <2> SUFFICES ASSUME TypeOK, Quiet, Descriptors, [Next]_vars, Up' PROVE Descriptors'
    BY DEF Descriptors
  <2> USE LifecycleAssumption
  <2>1. CASE Bind
    <3>1. PICK f \in Fd \ open : open' = open \cup {f} /\ listening' = f
      BY <2>1 DEF Bind, Lowest
    <3>2. UNCHANGED <<desc, thread, current>> /\ Up /\ main = "bind" /\ main' = "accept"
      BY <2>1 DEF Bind, Goto, connections
    <3>3. listening = NoFd
      BY <3>2 DEF Descriptors
    <3>4. OwnDescriptor' /\ listening' \in open' /\ listening' # NoFd
      BY <3>1, <3>2 DEF Descriptors, OwnDescriptor
    <3>5. \A g \in open' : g = listening' \/ \E u \in Session : desc'[u] = g
      BY <3>1, <3>2, <3>3 DEF Descriptors, TypeOK
    <3>6. \A u \in Session : desc'[u] # NoFd <=> Owes(u)'
      BY <3>2 DEF Descriptors, Owes
    <3>7. QED
      BY <3>2, <3>4, <3>5, <3>6 DEF Descriptors
  <2>2. CASE Accept
    <3>1. PICK s \in Session, f \in Lowest :
             /\ \A u \in Session : thread[u] = "none" <=> u >= s
             /\ current' = s
             /\ open' = open \cup {f} /\ desc' = [desc EXCEPT ![s] = f]
      BY <2>2 DEF Accept
    <3>0. f \in Fd \ open /\ thread[s] = "none"
      BY <3>1 DEF Lowest
    <3>2. /\ UNCHANGED <<listening, thread>> /\ Up /\ main = "accept" /\ main' = "spawn"
          /\ \A u \in Session : desc'[u] = IF u = s THEN f ELSE desc[u]
      BY <2>2, <3>0, <3>1 DEF Accept, Goto, TypeOK
    <3>3. OwnDescriptor' /\ (listening' # NoFd => listening' \in open')
      BY <3>0, <3>1, <3>2 DEF Descriptors, OwnDescriptor
    <3>4. \A u \in Session : desc'[u] # NoFd <=> Owes(u)'
      BY <3>0, <3>1, <3>2 DEF Descriptors, Owes
    <3>5. \A g \in open' : g = listening' \/ \E u \in Session : desc'[u] = g
      <4>1. desc[s] = NoFd
        BY <3>0, <3>2 DEF Descriptors, Owes
      <4>2. QED
        BY <3>1, <3>2, <4>1 DEF Descriptors, TypeOK
    <3>6. QED
      BY <3>0, <3>1, <3>2, <3>3, <3>4, <3>5 DEF Descriptors
  <2>3. CASE Spawn
    <3>1. /\ UNCHANGED <<desc, open, listening, current>>
          /\ Up /\ main = "spawn" /\ main' = "register"
      BY <2>3 DEF Spawn, Launch, Goto, sockets
    <3>2. current \in Session /\ thread' = [thread EXCEPT ![current] = "run"]
      BY <2>3, <3>1 DEF Spawn, Launch, TypeOK
    <3>3. \A u \in Session : Owes(u) <=> Owes(u)'
      BY <3>1, <3>2 DEF Owes, TypeOK
    <3>4. QED
      BY <3>1, <3>3 DEF Descriptors, OwnDescriptor
  <2>4. CASE \E s \in Session : Close(s)
    <3>1. PICK s \in Session : Close(s)
      BY <2>4
    <3>2. /\ UNCHANGED <<listening, main, current, ended, object>> /\ open' = open \ {desc[s]}
          /\ thread[s] = "close" /\ thread' = [thread EXCEPT ![s] = "delete"]
          /\ \A u \in Session : desc'[u] = IF u = s THEN NoFd ELSE desc[u]
      BY <3>1 DEF Close, Works, progress, memory, TypeOK
    <3>3. Up /\ \A u \in Session \ {s} : desc[u] # NoFd => desc[u] # desc[s]
      BY <3>2 DEF Descriptors, OwnDescriptor, Up
    <3>4. listening # NoFd => listening # desc[s]
      BY <3>3 DEF Descriptors, OwnDescriptor
    <3>5. OwnDescriptor' /\ (listening' # NoFd => listening' \in open')
      BY <3>2, <3>3, <3>4 DEF Descriptors, OwnDescriptor
    <3>6. CASE main \notin Teardown
      <4>1. ~(main = "spawn" /\ current = s)
        BY <3>2, <3>3, <3>6 DEF Descriptors
      <4>2. \A u \in Session : desc'[u] # NoFd <=> Owes(u)'
        BY <3>2, <3>3, <3>6, <4>1 DEF Descriptors, Owes, TypeOK
      <4>3. \A f \in open' : f = listening' \/ \E u \in Session : desc'[u] = f
        BY <3>2, <3>3, <3>6 DEF Descriptors
      <4>4. main = "spawn" => thread'[current] = "none"
        BY <3>2, <3>3, <3>6, <4>1 DEF Descriptors, TypeOK
      <4>5. QED
        BY <3>2, <3>3, <3>5, <3>6, <4>2, <4>3, <4>4 DEF Descriptors
    <3>7. object'["ss"] = "live" /\ listening' = NoFd => open' = {}
      <4>1. object["ss"] = "live" /\ listening = NoFd => open = {}
        BY <3>3 DEF Descriptors
      <4>2. QED
        BY <3>2, <4>1
    <3>8. QED
      BY <3>2, <3>5, <3>6, <3>7 DEF Descriptors
  <2>5. CASE /\ UNCHANGED <<ended, desc, open, listening>>
             /\ object'["ss"] = "live" => object["ss"] = "live" \/ main = "initialize"
             /\ \/ main' \in Teardown
                \/ /\ UNCHANGED current /\ main' \notin {"accept", "spawn", "register"}
                   /\ main \in {"construct", "initialize"}
                   /\ UNCHANGED thread
                \/ Register
                \/ /\ UNCHANGED <<main, current>>
                   /\ \A s \in Session : /\ Owes(s) <=> Owes(s)'
                                         /\ thread[s] = "none" => thread'[s] = "none"
    <3>1. /\ Up /\ OwnDescriptor' /\ (listening' # NoFd => listening' \in open')
          /\ object'["ss"] = "live" /\ listening' = NoFd => open' = {}
      BY <2>5 DEF Up, Descriptors, OwnDescriptor
    <3>2. CASE Register
      BY <2>5, <3>1, <3>2 DEF Register, Goto, connections, Descriptors, Owes
    <3>3. CASE main' \in Teardown
      BY <3>1, <3>3 DEF Descriptors
    <3>4. CASE /\ UNCHANGED <<current, thread>> /\ main' \notin {"accept", "spawn", "register"}
               /\ main \in {"construct", "initialize"}
      <4>1. main' \in {"construct", "initialize", "bind"} \/ main' \in Teardown
        <5>1. main' \in Location
          BY <2>5, TypeStep DEF TypeOK
        <5>2. QED
          BY <3>4, <5>1
      <4>2. QED
        BY <2>5, <3>1, <3>3, <3>4, <4>1 DEF Descriptors, Owes
    <3>5. CASE /\ UNCHANGED <<main, current>>
               /\ \A s \in Session : /\ Owes(s) <=> Owes(s)'
                                     /\ thread[s] = "none" => thread'[s] = "none"
      BY <2>5, <3>1, <3>5 DEF Descriptors, TypeOK
    <3>6. QED
      BY <2>5, <3>2, <3>3, <3>4, <3>5
  <2>6. CASE /\ UNCHANGED <<ended, desc>> /\ main \in Teardown /\ main' = main
             /\ \E f \in Handler : open' = open \ {f}
             /\ listening' = NoFd /\ object'["ss"] = "deleted"
    <3>1. Up /\ open' = open \ {listening}
      BY <2>6 DEF Up, Descriptors, Handler
    <3>2. QED
      BY <2>6, <3>1 DEF Up, Descriptors, OwnDescriptor
  <2>7. QED
    BY <2>1, <2>2, <2>3, <2>4, <2>5, <2>6, DescriptorSteps DEF Up
<1>3. QED
  BY <1>1, <1>2, TypeCorrect, QuietInvariant, PTL DEF Spec

\* No two connections, and no connection and the server socket, ever share a
\* descriptor.
THEOREM DescriptorsOwned == Spec => []OwnDescriptor
<1>1. Descriptors => OwnDescriptor
  BY DEF Descriptors, OwnDescriptor
<1>2. QED
  BY <1>1, DescriptorInvariant, PTL

\* While the server accepts, it has no descriptor open that nobody will close.
THEOREM DescriptorsKept == Spec => []NoDescriptorLost
<1>1. TypeOK /\ Descriptors => NoDescriptorLost
  <2> SUFFICES ASSUME TypeOK, Descriptors, Up, main = "accept"
               PROVE  open = {listening} \cup
                        {desc[s] : s \in {u \in Session : thread[u] \in {"run", "spin", "close"}}}
    BY DEF NoDescriptorLost
  <2>1. \A s \in Session : desc[s] # NoFd <=> thread[s] \in {"run", "spin", "close"}
    BY DEF Descriptors, Owes
  <2>2. \A f \in open : f = listening \/ \E s \in Session : desc[s] = f
    BY DEF Descriptors
  <2>3. \A f \in open : f # NoFd
    BY LifecycleAssumption DEF TypeOK
  <2>4. listening \in open /\ \A s \in Session : desc[s] # NoFd => desc[s] \in open
    BY DEF Descriptors, OwnDescriptor
  <2>5. QED
    BY <2>1, <2>2, <2>3, <2>4
<1>2. QED
  BY <1>1, TypeCorrect, DescriptorInvariant, PTL

-----------------------------------------------------------------------------
(* Memory until a teardown begins.                                           *)

\* What the threads of connections, and main, use is there.
Safe ==
  main \notin Teardown =>
    /\ ~corrupt /\ ended \notin {"killed", "uninitialized"}
    /\ Up => /\ main \in {"bind", "accept", "spawn", "register"} =>
                   initialized /\ locals /\ \A p \in Pointer : object[p] = "live"
             /\ main \in {"construct", "initialize", "bind"} =>
                   \A s \in Session : thread[s] = "none"
             /\ main = "initialize" => locals
             /\ \A s \in Session : thread[s] # "none" => service[s] = "live"

\* The threads of connections leave Safe as it is.
LEMMA SessionSafe ==
  ASSUME TypeOK, Safe, NEW s \in Session, SessionStep(s)
  PROVE  Safe'
<1> SUFFICES ASSUME main' \notin Teardown PROVE Safe'
  BY DEF Safe
<1>1. /\ UNCHANGED main /\ Up /\ thread[s] \in Running
  BY DEF SessionStep, Serve, UseTable, Terminate, BrokenPipe, Close, DeleteSocket, Save,
         SaveFails, Works, Ends, progress
<1>2. main \in {"bind", "accept", "spawn", "register"}
  BY <1>1 DEF Safe, TypeOK
<1>3. ~Terminate(s)
  BY <1>1, <1>2 DEF Terminate, Safe
<1>4. CASE BrokenPipe(s) \/ SaveFails(s)
  BY <1>1, <1>4 DEF BrokenPipe, SaveFails, Ends, Safe, Up
<1>5. ASSUME NEW here, NEW there, NEW also \in SUBSET {"live"},
             Works(s, here, there, also), UNCHANGED service
      PROVE  Safe'
  <2>1. service[s] = "live" /\ locals /\ ~corrupt /\ ended \notin {"killed", "uninitialized"}
    BY <1>1, <1>2 DEF Safe
  <2>2. ~corrupt'
    BY <1>5, <2>1 DEF Works
  <2>3. /\ thread' = [thread EXCEPT ![s] = there]
        /\ UNCHANGED <<ended, main, initialized, locals, object>>
    BY <1>5 DEF Works, progress, memory
  <2>4. \A u \in Session : thread'[u] # "none" => service'[u] = "live"
    BY <1>1, <1>5, <2>1, <2>3 DEF Safe, TypeOK
  <2>5. main # "bind"
    BY <1>1 DEF Safe
  <2>6. QED
    BY <1>1, <1>2, <2>1, <2>2, <2>3, <2>4, <2>5 DEF Safe, Up
<1>6. {object["blacklist"]} \subseteq {"live"}
  BY <1>1, <1>2 DEF Safe
<1>7. CASE Serve(s)
  BY <1>5, <1>7 DEF Serve
<1>8. CASE UseTable(s)
  BY <1>5, <1>6, <1>8 DEF UseTable
<1>9. CASE Close(s)
  BY <1>5, <1>9 DEF Close
<1>10. CASE DeleteSocket(s)
  BY <1>5, <1>10 DEF DeleteSocket
<1>11. CASE Save(s)
  BY <1>5, <1>6, <1>11 DEF Save
<1>12. QED
  BY <1>3, <1>4, <1>7, <1>8, <1>9, <1>10, <1>11 DEF SessionStep

\* Until a signal or an exception of main nobody uses freed memory or finds the
\* context gone: the services outlive their threads, and main what they refer to.
\* A thread ends the process by SIGPIPE, or if the blacklist cannot be saved.
THEOREM MemorySafe == Spec => []SafeUntilTeardown
<1>1. Init => Safe
  BY DEF Init, Safe, Up
<1>2. TypeOK /\ Quiet /\ Safe /\ [Next]_vars => Safe'
  <2> SUFFICES ASSUME TypeOK, Quiet, Safe, [Next]_vars, main' \notin Teardown PROVE Safe'
    BY DEF Safe
  <2>1. CASE MakeDir
    BY <2>1 DEF MakeDir, Goto, Safe, Up, connections
  <2>2. CASE Initialize \/ Bind \/ Register
    BY <2>2 DEF Initialize, Bind, Register, Goto, Safe, Up, connections, memory
  <2>3. CASE Accept
    BY <2>3 DEF Accept, Goto, Safe, Up, memory
  <2>4. CASE Spawn
    <3>1. /\ UNCHANGED <<ended, corrupt, initialized, locals, object>>
          /\ Up /\ main = "spawn" /\ main' = "register"
          /\ current \in Session
      BY <2>4 DEF Spawn, Launch, Goto, memory, TypeOK
    <3>2. \A s \in Session : thread'[s] # "none" => service'[s] = "live"
      BY <2>4, <3>1 DEF Spawn, Launch, Safe, TypeOK
    <3>3. QED
      BY <3>1, <3>2 DEF Safe, Up
  <2>5. CASE Throw \/ Interrupt
    BY <2>5 DEF Throw, Interrupt, Goto
  <2>6. CASE Crash
    BY <2>6 DEF Crash, Ends, Safe
  <2>7. CASE \E t \in Thread : Dispose(t) \/ Hang(t)
    <3> PICK t \in Thread : Dispose(t) \/ Hang(t)
      BY <2>7
    <3>1. CASE step[t] = "none"
      BY <3>1 DEF Dispose, Hang, Check, DeleteService, ServicesDeleted, DeleteObject, Reset, Exit,
                  Advance
    <3>2. CASE step[t] # "none"
      <4>1. main \in Teardown
        BY <3>2 DEF Quiet
      <4>2. UNCHANGED main
        BY DEF Dispose, Hang, Check, DeleteService, ServicesDeleted, DeleteObject, Reset, Exit,
               Deletes, Ends, progress
      <4>3. QED
        BY <4>1, <4>2
    <3>3. QED
      BY <3>1, <3>2
  <2>8. CASE UNCHANGED vars
    BY <2>8 DEF vars, progress, connections, memory, Safe, Up
  <2>9. QED
    BY <2>1, <2>2, <2>3, <2>4, <2>5, <2>6, <2>7, <2>8, SessionSafe DEF Next, MainStep
<1>3. Safe => SafeUntilTeardown
  BY DEF Safe, SafeUntilTeardown
<1>4. QED
  BY <1>1, <1>2, <1>3, TypeCorrect, QuietInvariant, PTL DEF Spec

-----------------------------------------------------------------------------
(* A single teardown.                                                        *)

\* No signal, or one that did not interrupt a teardown.
Single == signals = 0 \/ (signals = 1 /\ locals)

\* What Main has still to delete is there.
Progress ==
  /\ step[Main] \in {"none", "check"} =>
       /\ initialized => \A p \in Pointer : object[p] = "live"
       /\ \A s \in listed : service[s] = "live"
  /\ step[Main] = "services" =>
       /\ \A p \in Pointer : object[p] = "live"
       /\ \A s \in left[Main] : service[s] = "live"
  /\ step[Main] = "smtpservices" => \A p \in Pointer : object[p] = "live"
  /\ step[Main] = "blacklist" => object["blacklist"] = "live" /\ object["ss"] = "live"
  /\ step[Main] = "ss" => object["ss"] = "live"

Once ==
  /\ Single => ~twice /\ Progress
  /\ main = "catch" => ~locals
  /\ Up /\ main = "register" => service[current] = "live"

\* Single is lost by a second signal, or by one that interrupts a teardown.
LEMMA SingleBefore ==
  ASSUME TypeOK, Quiet, Once, [Next]_vars, Single'
  PROVE  Single
<1>1. CASE MainStep
  <2>1. main \notin Teardown
    BY <1>1 DEF MainStep, MakeDir, Initialize, Bind, Accept, Spawn, Launch, Register, Throw, Goto
  <2>2. QED
    BY <2>1 DEF Quiet, Single
<1>2. CASE Interrupt
  BY <1>2 DEF Interrupt, Single, TypeOK, memory
<1>3. CASE Crash \/ UNCHANGED vars
  BY <1>3 DEF Crash, Ends, vars, memory, teardown, Single
<1>4. CASE \E s \in Session : SessionStep(s)
  BY <1>4 DEF SessionStep, Serve, UseTable, Terminate, BrokenPipe, Close, DeleteSocket, Save,
              SaveFails, Works, Ends, memory, teardown, Single
<1>5. CASE \E t \in Thread : Dispose(t) \/ Hang(t)
  BY <1>5 DEF Dispose, Hang, Check, DeleteService, ServicesDeleted, DeleteObject, Reset, Exit,
              Deletes, Ends, memory, Single
<1>6. QED
  BY <1>1, <1>2, <1>3, <1>4, <1>5 DEF Next

\* A teardown by Main deletes what is there, once.
LEMMA MainDisposes ==
  ASSUME TypeOK, Quiet, Single, ~twice, Progress, Dispose(Main) \/ Hang(Main)
  PROVE  ~twice' /\ Progress'
<1> USE LifecycleAssumption DEF Thread
<1>1. CASE Check(Main)
  <2>1. /\ UNCHANGED <<service, listed, object, initialized, twice>> /\ step[Main] = "check"
        /\ initialized => step'[Main] = "services" /\ left'[Main] = listed
        /\ ~initialized => step'[Main] = "exit"
    BY <1>1 DEF Check, Advance, TypeOK, connections, memory
  <2>2. QED
    BY <2>1 DEF Progress
<1>2. CASE DeleteService(Main)
  <2>1. PICK s \in left[Main] :
           /\ service' = [service EXCEPT ![s] = "deleted"]
           /\ left' = [left EXCEPT ![Main] = @ \ {s}] /\ Deletes(service[s])
    BY <1>2 DEF DeleteService
  <2>2. UNCHANGED <<object, step>> /\ step[Main] = "services"
    BY <1>2 DEF DeleteService
  <2>3. service[s] = "live" /\ ~twice'
    BY <2>1, <2>2 DEF Progress, Deletes
  <2>4. left'[Main] = left[Main] \ {s} /\ \A u \in left'[Main] : service'[u] = service[u]
    BY <2>1 DEF TypeOK
  <2>5. QED
    BY <2>2, <2>3, <2>4 DEF Progress
<1>3. CASE ServicesDeleted(Main)
  <2>1. UNCHANGED <<object, twice>> /\ step[Main] = "services" /\ step'[Main] = "smtpservices"
    BY <1>3 DEF ServicesDeleted, Advance, TypeOK, memory
  <2>2. QED
    BY <2>1 DEF Progress
<1>4. CASE DeleteObject(Main)
  <2>1. PICK p \in Pointer :
           /\ Advance(Main, p, After[p]) /\ Deletes(object[p])
           /\ object' = [object EXCEPT ![p] = "deleted"]
    BY <1>4 DEF DeleteObject
  <2>2. step[Main] = p /\ step'[Main] = After[p]
    BY <2>1 DEF Advance, TypeOK
  <2>3. object[p] = "live" /\ ~twice'
    BY <2>1, <2>2 DEF Progress, Deletes
  <2>4. \A q \in Pointer \ {p} : object'[q] = object[q]
    BY <2>1 DEF TypeOK
  <2>5. CASE p = "smtpservices"
    BY <2>2, <2>3, <2>4, <2>5 DEF Progress, After
  <2>6. CASE p = "blacklist"
    BY <2>2, <2>3, <2>4, <2>6 DEF Progress, After
  <2>7. CASE p = "ss"
    BY <2>2, <2>3, <2>7 DEF Progress, After
  <2>8. QED
    BY <2>5, <2>6, <2>7
<1>5. CASE Reset(Main)
  <2>1. UNCHANGED twice /\ step'[Main] = "exit"
    BY <1>5 DEF Reset, Advance, TypeOK
  <2>2. QED
    BY <2>1 DEF Progress
<1>6. CASE Hang(Main)
  <2>1. UNCHANGED twice /\ step'[Main] = "hung"
    BY <1>6 DEF Hang, Advance, TypeOK
  <2>2. QED
    BY <2>1 DEF Progress
<1>7. CASE Exit(Main)
  BY <1>7 DEF Exit, Ends, Progress
<1>8. QED
  BY <1>1, <1>2, <1>3, <1>4, <1>5, <1>6, <1>7 DEF Dispose

\* Unless a signal interrupts a teardown or comes during another, the teardown
\* deletes every service and object once.
THEOREM TeardownOnce == Spec => []DeletedOnce
<1>1. Init => Once
  BY DEF Init, Once, Progress, Single, Up, Thread
<1>2. TypeOK /\ Quiet /\ Once /\ [Next]_vars => Once'
  <2> SUFFICES ASSUME TypeOK, Quiet, Once, [Next]_vars PROVE Once'
    OBVIOUS
  <2> USE LifecycleAssumption
  <2>1. Single' => Single
    BY SingleBefore
  <2>2. (main = "catch" => ~locals)' /\ (Up /\ main = "register" => service[current] = "live")'
    <3>1. CASE MakeDir \/ Initialize \/ Bind \/ Accept \/ Register \/ Throw
      BY <3>1 DEF MakeDir, Initialize, Bind, Accept, Register, Throw, Goto
    <3>2. CASE Spawn
      BY <3>2 DEF Spawn, Launch, Goto, TypeOK
    <3>3. CASE Interrupt
      BY <3>3 DEF Interrupt, Once, memory
    <3>4. CASE Crash
      BY <3>4 DEF Crash, Ends, Once, Up
    <3>5. CASE \E s \in Session : SessionStep(s)
      BY <3>5 DEF SessionStep, Serve, UseTable, Terminate, BrokenPipe, Close, DeleteSocket, Save,
                  SaveFails, Works, Ends, progress, memory, Once, Up
    <3>6. CASE \E t \in Thread : Dispose(t) \/ Hang(t)
      <4> PICK t \in Thread : Dispose(t) \/ Hang(t)
        BY <3>6
      <4>1. UNCHANGED <<main, current, locals>> /\ Up
        BY DEF Dispose, Hang, Check, DeleteService, ServicesDeleted, DeleteObject, Reset, Exit,
               Advance, Deletes, Ends, progress, memory
      <4>2. main # "register"
        BY DEF Dispose, Hang, Check, DeleteService, ServicesDeleted, DeleteObject, Reset, Exit,
               Advance, Quiet
      <4>3. QED
        BY <4>1, <4>2 DEF Once
    <3>7. CASE UNCHANGED vars
      BY <3>7 DEF vars, progress, connections, memory, Once, Up
    <3>8. QED
      BY <3>1, <3>2, <3>3, <3>4, <3>5, <3>6, <3>7 DEF Next, MainStep
  <2>3. ASSUME Single, Single' PROVE ~twice' /\ Progress'
    <3> USE <2>3
    <3>0. ~twice /\ Progress /\ \A s \in Session : step[s] = "none"
      BY DEF Once, Quiet, Single, TypeOK
    <3>1. CASE MakeDir \/ Bind \/ Accept
      BY <3>0, <3>1 DEF MakeDir, Bind, Accept, Goto, Progress, connections, memory, teardown
    <3>2. CASE Initialize
      <4>1. UNCHANGED <<twice, step, listed, service>> /\ step[Main] = "none"
        BY <3>2 DEF Initialize, Goto, connections, teardown, Quiet, Thread
      <4>2. QED
        BY <3>0, <3>2, <4>1 DEF Initialize, Progress
    <3>3. CASE Spawn
      <4>1. UNCHANGED <<twice, step, listed, object, initialized, left>> /\ step[Main] = "none"
        BY <3>3 DEF Spawn, Launch, Goto, memory, teardown, Quiet, Thread
      <4>2. \A s \in Session : service[s] = "live" => service'[s] = "live"
        BY <3>3 DEF Spawn, Launch, TypeOK
      <4>3. QED
        BY <3>0, <4>1, <4>2 DEF Progress, TypeOK
    <3>4. CASE Register
      <4>1. /\ UNCHANGED <<twice, step, service, object, initialized, left>>
            /\ Up /\ main = "register"
        BY <3>4 DEF Register, Goto, connections, teardown
      <4>2. listed' = listed \cup {current} /\ service[current] = "live"
        BY <3>4, <4>1 DEF Register, Once
      <4>3. QED
        BY <3>0, <4>1, <4>2 DEF Progress
    <3>5. CASE Throw
      <4>1. UNCHANGED <<twice, service, listed, object, initialized>>
        BY <3>5 DEF Throw, connections
      <4>2. step[Main] = "none" /\ step'[Main] = "check"
        BY <3>5 DEF Throw, Goto, Quiet, Thread, TypeOK
      <4>3. QED
        BY <3>0, <4>1, <4>2 DEF Progress
    <3>6. CASE Interrupt
      <4>1. /\ UNCHANGED <<twice, service, listed, object, initialized, locals>>
            /\ signals' = signals + 1
        BY <3>6 DEF Interrupt, memory
      <4>2. signals = 0 /\ locals
        BY <4>1 DEF Single, TypeOK
      <4>3. main \notin Teardown
        BY <4>2 DEF Once, Quiet
      <4>4. step[Main] = "none" /\ step'[Main] = "check"
        BY <3>6, <4>3 DEF Interrupt, Quiet, Thread, TypeOK
      <4>5. QED
        BY <3>0, <4>1, <4>4 DEF Progress
    <3>7. CASE Crash
      BY <3>0, <3>7 DEF Crash, Ends, Progress, Thread
    <3>8. CASE \E s \in Session : SessionStep(s)
      <4> PICK s \in Session : SessionStep(s)
        BY <3>8
      <4>1. CASE Terminate(s) \/ BrokenPipe(s) \/ SaveFails(s)
        <5>1. step'[Main] = "none" /\ ~initialized' /\ listed' = {} /\ twice' = twice
          BY <4>1 DEF Terminate, BrokenPipe, SaveFails, Ends, Thread
        <5>2. QED
          BY <3>0, <5>1 DEF Progress
      <4>2. CASE ~(Terminate(s) \/ BrokenPipe(s) \/ SaveFails(s))
        <5>1. UNCHANGED <<memory, teardown, service>>
          BY <4>2 DEF SessionStep, Serve, UseTable, Close, DeleteSocket, Save, Works
        <5>2. QED
          BY <3>0, <5>1 DEF memory, teardown, Progress
      <4>3. QED
        BY <4>1, <4>2
    <3>9. CASE \E t \in Thread : Dispose(t) \/ Hang(t)
      <4> PICK t \in Thread : Dispose(t) \/ Hang(t)
        BY <3>9
      <4>1. t = Main
        <5>1. step[t] # "none"
          BY DEF Dispose, Hang, Check, DeleteService, ServicesDeleted, DeleteObject, Reset, Exit,
                 Advance
        <5>2. QED
          BY <3>0, <5>1 DEF Thread
      <4>2. QED
        BY <3>0, <4>1, MainDisposes
    <3>10. CASE UNCHANGED vars
      BY <3>0, <3>10 DEF vars, connections, memory, teardown, Progress
    <3>11. QED
      BY <3>1, <3>2, <3>3, <3>4, <3>5, <3>6, <3>7, <3>8, <3>9, <3>10 DEF Next, MainStep
  <2>4. QED
    BY <2>1, <2>2, <2>3 DEF Once
<1>3. TypeOK /\ Once => DeletedOnce
  BY DEF Once, Single, DeletedOnce, TypeOK
<1>4. QED
  BY <1>1, <1>2, <1>3, TypeCorrect, QuietInvariant, PTL DEF Spec

=============================================================================
