------------------------------ MODULE Lifecycle ------------------------------
(***************************************************************************)
(* The server process from main to its end: the path of the mail pool,      *)
(* appcontext::initialize, bind, the accept loop, the smtpservice objects   *)
(* and descriptors of the connections, the exception that ends the loop,    *)
(* and SIGINT, whose handler tears everything down while the threads of the *)
(* connections go on.                                                       *)
(*                                                                          *)
(* What an access to freed memory does is open: the process goes on with    *)
(* what the memory still holds, and may be killed at any time after.        *)
(***************************************************************************)
EXTENDS Naturals

CONSTANTS
  Session,      \* connections, numbered as they come, each with service and thread
  Main, Nobody, \* the main thread; no connection
  Fd, NoFd,     \* file descriptors the process may use
  Depth,        \* components of the path of the mail pool
  MaxSignals    \* bound: SIGINTs the process gets

ASSUME LifecycleAssumption ==
  /\ Session \subseteq Nat /\ Main \notin Session /\ Nobody \notin Session
  /\ Fd \subseteq Nat /\ NoFd \notin Fd
  /\ Depth \in Nat \ {0} /\ MaxSignals \in Nat

Thread == Session \cup {Main}

VARIABLES
  made,        \* leading components of the path that exist
  part,        \* make_dir_rec: the component it is at
  ended,       \* how the process has ended, "no" while it runs
  main,        \* where main is
  current,     \* the connection main is at
  thread,      \* where the thread of a connection is
  service,     \* its smtpservice
  desc,        \* its descriptor
  open,        \* descriptors that are open
  listening,   \* the one of the server socket
  initialized, \* appcontext::initialized
  listed,      \* the contents of smtpservices
  object,      \* what smtpservices, blacklist and ss point to
  locals,      \* mps and lsptr, on the stack of main, exist
  step,        \* dispose_appcontext and exit: where a thread is in them
  left,        \* dispose: services still to delete
  jammed,      \* a signal handler may have interrupted the allocator
  signals,     \* SIGINTs so far
  corrupt,     \* history: freed memory has been used
  twice        \* history: dispose has deleted something once more

progress == <<part, ended, main, current>>
connections == <<thread, service, desc>>
sockets == <<open, listening>>
memory == <<initialized, listed, object, locals>>
teardown == <<step, left, jammed, signals, twice>>
vars == <<made, progress, connections, sockets, memory, teardown, corrupt>>

Pointer == {"smtpservices", "blacklist", "ss"}
Existence == {"none", "live", "deleted"}

\* The catch clause of main, or a handler that has interrupted it for good.
Teardown == {"catch", "handler"}
Location == {"construct", "initialize", "bind", "accept", "spawn", "register"} \cup Teardown

\* In the loop of run_protocol, lost in a SEND, or in release_resources.
Running == {"run", "spin", "close", "delete", "save"}

\* exit, memory that has been freed, exceptions of threads, SIGPIPE.
Outcome == {"success", "failure", "killed", "uninitialized", "unsaved", "pipe"}

DisposeStep == {"none", "check", "services", "reset", "exit", "hung"} \cup Pointer

TypeOK ==
  /\ made \in 0..Depth /\ part \in 1..Depth
  /\ ended \in Outcome \cup {"no"}
  /\ main \in Location /\ current \in Session \cup {Nobody}
  /\ main \in {"spawn", "register"} => current \in Session
  /\ thread \in [Session -> Running \cup {"none", "ended", "handler"}]
  /\ service \in [Session -> Existence] /\ desc \in [Session -> Fd \cup {NoFd}]
  /\ open \subseteq Fd /\ listening \in Fd \cup {NoFd}
  /\ initialized \in BOOLEAN /\ listed \subseteq Session
  /\ object \in [Pointer -> Existence] /\ locals \in BOOLEAN
  /\ step \in [Thread -> DisposeStep] /\ left \in [Thread -> SUBSET Session]
  /\ jammed \in BOOLEAN /\ corrupt \in BOOLEAN /\ twice \in BOOLEAN
  /\ signals \in 0..MaxSignals

\* Earlier starts may have left any part of the path.
Init ==
  /\ made \in 0..Depth /\ part = 1
  /\ ended = "no" /\ main = "construct" /\ current = Nobody
  /\ thread = [s \in Session |-> "none"] /\ service = [s \in Session |-> "none"]
  /\ desc = [s \in Session |-> NoFd] /\ open = {} /\ listening = NoFd
  /\ initialized = FALSE /\ listed = {} /\ object = [p \in Pointer |-> "none"]
  /\ locals = FALSE
  /\ step = [t \in Thread |-> "none"] /\ left = [t \in Thread |-> {}]
  /\ jammed = FALSE /\ signals = 0 /\ corrupt = FALSE /\ twice = FALSE

Up == ended = "no"

\* The kernel takes back memory and descriptors.
Ends(how) ==
  /\ ended' = how
  /\ thread' = [s \in Session |-> "none"] /\ service' = [s \in Session |-> "none"]
  /\ desc' = [s \in Session |-> NoFd] /\ open' = {} /\ listening' = NoFd
  /\ initialized' = FALSE /\ listed' = {} /\ object' = [p \in Pointer |-> "none"]
  /\ step' = [t \in Thread |-> "none"] /\ left' = [t \in Thread |-> {}]
  /\ UNCHANGED <<made, part, main, current, locals, jammed, signals, twice, corrupt>>

-----------------------------------------------------------------------------
(* main.                                                                    *)

Goto(here, there) == Up /\ main = here /\ main' = there /\ UNCHANGED ended

\* Mutant of MakeDir: the loop looks at one component too many.
MakeDirBeyond ==
  /\ \/ made = part - 1 /\ made' = part /\ part' = part + 1 /\ Goto("construct", "construct")
     \/ Goto("construct", "initialize") /\ UNCHANGED <<made, part>>
  /\ locals' = (main' = "initialize")
  /\ UNCHANGED <<current, connections, sockets, initialized, listed, object, teardown, corrupt>>

\* A turn of make_dir_rec.  mkdir fails if the component exists already, or for
\* want of permission, and make_dir_rec gives up; its result is ignored.
MakeDir ==
  /\ \/ /\ made = part - 1 /\ made' = part
        /\ \/ part < Depth /\ part' = part + 1 /\ Goto("construct", "construct")
           \/ part = Depth /\ UNCHANGED part /\ Goto("construct", "initialize")
     \/ Goto("construct", "initialize") /\ UNCHANGED <<made, part>>
  /\ locals' = (main' = "initialize")
  /\ UNCHANGED <<current, connections, sockets, initialized, listed, object, teardown, corrupt>>

\* load_blacklist needs a lock file in the pool.
Initialize ==
  /\ made = Depth /\ Goto("initialize", "bind")
  /\ initialized' = TRUE /\ object' = [p \in Pointer |-> "live"]
  /\ UNCHANGED <<made, part, current, connections, sockets, listed, locals, teardown, corrupt>>

\* The kernel gives out the lowest descriptor that is free, if there is one.
Lowest == {f \in Fd \ open : \A g \in Fd \ open : f <= g}

\* Should the address be taken, the next step is Throw.
Bind ==
  /\ Goto("bind", "accept")
  /\ \E f \in Lowest : open' = open \cup {f} /\ listening' = f
  /\ UNCHANGED <<made, part, current, connections, memory, teardown, corrupt>>

Accept ==
  /\ Goto("accept", "spawn")
  /\ \E s \in Session, f \in Lowest :
       /\ \A u \in Session : thread[u] = "none" <=> u >= s
       /\ current' = s
       /\ open' = open \cup {f} /\ desc' = [desc EXCEPT ![s] = f]
  /\ UNCHANGED <<made, part, thread, service, listening, memory, teardown, corrupt>>

Launch(there) ==
  /\ Goto("spawn", there)
  /\ thread' = [thread EXCEPT ![current] = "run"]
  /\ service' = [service EXCEPT ![current] = "live"]
  /\ UNCHANGED <<made, part, current, desc, sockets, memory, teardown, corrupt>>

\* Mutant of Spawn: the service is not registered.
SpawnUnlisted == Launch("accept")

Spawn == Launch("register")

\* The thread of the service may already have ended.
Register ==
  /\ Goto("register", "accept")
  /\ listed' = listed \cup {current} /\ current' = Nobody
  /\ UNCHANGED <<made, part, connections, sockets, initialized, object, locals, teardown,
                 corrupt>>

\* The path is empty, or the lock of the blacklist, the port, a connection, memory
\* or a thread is not to be had.  The exception ends the block with the locals.
Throw ==
  /\ \E here \in Location \ Teardown : Goto(here, "catch")
  /\ locals' = FALSE /\ step' = [step EXCEPT ![Main] = "check"]
  /\ UNCHANGED <<made, part, current, connections, sockets, initialized, listed, object, left,
                 jammed, signals, twice, corrupt>>

MainStep == MakeDir \/ Initialize \/ Bind \/ Accept \/ Spawn \/ Register \/ Throw

-----------------------------------------------------------------------------
(* The threads of the connections.                                          *)

\* Everything a thread does goes through its service and the locals of main.
Works(s, here, there, alsoUsed) ==
  /\ Up /\ thread[s] = here /\ thread' = [thread EXCEPT ![s] = there]
  /\ corrupt' = (corrupt \/ ~locals \/ {service[s]} \cup alsoUsed # {"live"})
  /\ UNCHANGED <<made, progress, memory, teardown>>

\* Mutant of Serve: the thread deletes its service at the end of a session.
ServeDeleting(s) ==
  /\ \E there \in {"run", "spin", "close"} : Works(s, "run", there, {})
  /\ service' = IF thread'[s] = "close" THEN [service EXCEPT ![s] = "deleted"] ELSE service
  /\ UNCHANGED <<desc, sockets>>

\* A command that leaves the table of failed logins alone, a SEND whose sender
\* has gone, or the end of the session.
Serve(s) ==
  /\ \E there \in {"run", "spin", "close"} : Works(s, "run", there, {})
  /\ UNCHANGED <<service, desc, sockets>>

\* The greeting, LOGIN.
UseTable(s) ==
  /\ initialized /\ Works(s, "run", "run", {object["blacklist"]})
  /\ UNCHANGED <<service, desc, sockets>>

\* get_blacklist throws, and nobody catches it.
Terminate(s) == Up /\ thread[s] = "run" /\ ~initialized /\ Ends("uninitialized")

\* Nobody handles SIGPIPE.
BrokenPipe(s) == Up /\ thread[s] = "run" /\ Ends("pipe")

\* Mutant of Close: socket_handler is not reset.
CloseKeeping(s) ==
  /\ Works(s, "close", "delete", {})
  /\ open' = open \ {desc[s]} /\ UNCHANGED <<service, desc, listening>>

\* Mutant of Close: closing is left to the destructor of csocket.
CloseNot(s) ==
  /\ Works(s, "close", "delete", {})
  /\ desc' = [desc EXCEPT ![s] = NoFd] /\ UNCHANGED <<service, sockets>>

Close(s) ==
  /\ Works(s, "close", "delete", {})
  /\ open' = open \ {desc[s]} /\ desc' = [desc EXCEPT ![s] = NoFd]
  /\ UNCHANGED <<service, listening>>

\* The destructor of csocket does not close.
DeleteSocket(s) == Works(s, "delete", "save", {}) /\ UNCHANGED <<service, desc, sockets>>

\* Mutant of Save: the thread deletes its service when it is done.
SaveDeleting(s) ==
  /\ Works(s, "save", "ended", {object["blacklist"]})
  /\ service' = [service EXCEPT ![s] = "deleted"] /\ UNCHANGED <<desc, sockets>>

\* serialize_blacklist does not ask whether there is a blacklist.
Save(s) ==
  Works(s, "save", "ended", {object["blacklist"]}) /\ UNCHANGED <<service, desc, sockets>>

\* save_blacklist throws if it cannot open its lock file, for want of a descriptor,
\* say, or because the pool has gone.  Nobody catches that either.
SaveFails(s) == Up /\ thread[s] = "save" /\ Ends("unsaved")

SessionStep(s) ==
  \/ Serve(s) \/ UseTable(s) \/ Terminate(s) \/ BrokenPipe(s)
  \/ Close(s) \/ DeleteSocket(s) \/ Save(s) \/ SaveFails(s)

-----------------------------------------------------------------------------
(* SIGINT, and dispose_appcontext in the handler or the catch clause.       *)

Allocating == {"construct", "initialize", "spawn", "register", "catch"}

\* The kernel gives the signal to main unless main is in the handler already,
\* then to any other thread.  Nobody comes back from the handler.
Interrupt ==
  /\ Up /\ signals < MaxSignals /\ signals' = signals + 1
  /\ \/ /\ main # "handler" /\ main' = "handler"
        /\ step' = [step EXCEPT ![Main] = "check"]
        /\ jammed' \in {jammed, jammed \/ main \in Allocating}
        /\ UNCHANGED thread
     \/ /\ main = "handler"
        /\ \E s \in Session :
             /\ thread[s] \in Running /\ thread' = [thread EXCEPT ![s] = "handler"]
             /\ step' = [step EXCEPT ![s] = "check"]
        /\ jammed' \in {jammed, TRUE} /\ UNCHANGED main
  /\ UNCHANGED <<made, part, ended, current, service, desc, sockets, memory, left, twice,
                 corrupt>>

Advance(t, here, there) == Up /\ step[t] = here /\ step' = [step EXCEPT ![t] = there]

\* delete, of something that should be there.
Deletes(what) ==
  /\ twice' = (twice \/ what # "live") /\ corrupt' = (corrupt \/ what # "live")
  /\ UNCHANGED <<made, progress, thread, desc, locals, jammed, signals>>

Check(t) ==
  /\ \/ /\ initialized /\ Advance(t, "check", "services")
        /\ left' = [left EXCEPT ![t] = listed]
        /\ corrupt' = (corrupt \/ object["smtpservices"] # "live")
     \/ ~initialized /\ Advance(t, "check", "exit") /\ UNCHANGED <<left, corrupt>>
  /\ UNCHANGED <<made, progress, connections, sockets, memory, jammed, signals, twice>>

\* Mutant of DeleteService: dispose waits for the thread of the service.
DeleteServiceJoining(t) ==
  /\ Up /\ step[t] = "services"
  /\ \E s \in left[t] :
       /\ thread[s] = "ended"
       /\ service' = [service EXCEPT ![s] = "deleted"]
       /\ left' = [left EXCEPT ![t] = @ \ {s}] /\ Deletes(service[s])
  /\ UNCHANGED <<sockets, initialized, listed, object, step>>

DeleteService(t) ==
  /\ Up /\ step[t] = "services"
  /\ \E s \in left[t] :
       /\ service' = [service EXCEPT ![s] = "deleted"]
       /\ left' = [left EXCEPT ![t] = @ \ {s}] /\ Deletes(service[s])
  /\ UNCHANGED <<sockets, initialized, listed, object, step>>

ServicesDeleted(t) ==
  /\ left[t] = {} /\ Advance(t, "services", "smtpservices")
  /\ UNCHANGED <<made, progress, connections, sockets, memory, left, jammed, signals, twice,
                 corrupt>>

After == [smtpservices |-> "blacklist", blacklist |-> "ss", ss |-> "reset"]

\* The destructor of serversocket closes what socket_handler names: before bind
\* nobody has initialized it, so that it may be any descriptor.
Handler == IF object["ss"] = "live" /\ listening = NoFd THEN open \cup {NoFd} ELSE {listening}

DeleteObject(t) ==
  /\ \E p \in Pointer :
       /\ Advance(t, p, After[p])
       /\ object' = [object EXCEPT ![p] = "deleted"] /\ Deletes(object[p])
       /\ IF p = "ss" THEN listening' = NoFd /\ \E f \in Handler : open' = open \ {f}
          ELSE UNCHANGED sockets
  /\ UNCHANGED <<service, initialized, listed, left>>

Reset(t) ==
  /\ Advance(t, "reset", "exit")
  /\ object' = [p \in Pointer |-> "none"] /\ listed' = {} /\ initialized' = FALSE
  /\ UNCHANGED <<made, progress, connections, sockets, locals, left, jammed, signals, twice,
                 corrupt>>

\* delete waits for the allocator.
Hang(t) ==
  /\ jammed /\ Advance(t, step[t], "hung") /\ step[t] \in Pointer \cup {"services"}
  /\ UNCHANGED <<made, progress, connections, sockets, memory, left, jammed, signals, twice,
                 corrupt>>

Exit(t) ==
  /\ Up /\ step[t] = "exit"
  /\ Ends(IF t = Main /\ main = "catch" THEN "failure" ELSE "success")

Dispose(t) ==
  \/ Check(t) \/ DeleteService(t) \/ ServicesDeleted(t) \/ DeleteObject(t) \/ Reset(t) \/ Exit(t)

\* The outcome of having used freed memory.
Crash == Up /\ corrupt /\ Ends("killed")

-----------------------------------------------------------------------------

Next ==
  \/ MainStep \/ Interrupt \/ Crash
  \/ \E s \in Session : SessionStep(s)
  \/ \E t \in Thread : Dispose(t) \/ Hang(t)

Spec == Init /\ [][Next]_vars

\* main and the handlers are scheduled.  Clients need neither come nor go.
FairSpec ==
  /\ Spec /\ WF_vars(MainStep /\ main # "accept")
  /\ \A t \in Thread : WF_vars(Dispose(t))

-----------------------------------------------------------------------------
(* Properties.                                                              *)

\* As long as its thread has not closed it, the descriptor of a connection is
\* open, and neither another connection's nor the server socket's.
OwnDescriptor ==
  Up => \A s \in Session : desc[s] # NoFd
    => /\ desc[s] \in open /\ desc[s] # listening
       /\ \A u \in Session \ {s} : desc[u] # desc[s]

\* No descriptor is lost: while the server accepts, those that are open are the
\* server socket's and those of connections whose thread has not ended.
NoDescriptorLost ==
  Up /\ main = "accept"
    => open = {listening} \cup
                {desc[s] : s \in {u \in Session : thread[u] \in {"run", "spin", "close"}}}

\* Until a signal or an exception of main no thread uses what is not there, and all
\* that ends the process in a thread is SIGPIPE, or a blacklist that cannot be saved.
SafeUntilTeardown ==
  corrupt \/ ended \in {"killed", "uninitialized"} => main \in Teardown

\* A single teardown deletes everything once: it takes a second signal, or one
\* during the exception, to delete something twice.
DeletedOnce == twice => signals > 1 \/ (signals = 1 /\ ~locals)

\* A teardown ends the process, be it that of SIGINT or of an exception of main,
\* even if threads are lost in a SEND or use what is being deleted, unless a signal
\* has interrupted the allocator.
TeardownEnds == main \in Teardown ~> ~Up \/ jammed

\* Every connection that was accepted gets its service, and the service gets
\* onto the list, or the process is about to end.
ConnectionListed ==
  \A s \in Session : current = s ~> s \in listed \/ main \in Teardown \/ ~Up

=============================================================================
