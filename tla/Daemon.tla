------------------------------- MODULE Daemon -------------------------------
(***************************************************************************)
(* The server process: main starts the hello thread and the accept thread  *)
(* and sleeps; SIGINT and SIGTERM run sig_handler, that is Server::stop    *)
(* and exit, on whatever thread the kernel picks: main, unless it is in a  *)
(* handler for the same signal already.  stop closes the sockets, whose    *)
(* numbers the next accept may get again, and joins the threads.           *)
(*                                                                         *)
(* A client handler is a detached thread, here the descriptor it holds.    *)
(***************************************************************************)
EXTENDS Naturals, FiniteSets

CONSTANTS
  MaxFd,       \* file descriptors 0 .. MaxFd are there for sockets
  MaxBacklog,  \* connections that wait to be accepted
  MaxSignals,  \* how many signals arrive
  NoFd,        \* INVALID_SOCK
  NoThread

Threads == {"main", "hello", "accept", "client"}
Owned == {"hello", "accept"}   \* hello_thread_ and accept_thread_
Fds == 0 .. MaxFd

ASSUME BoundsAssumption ==
  /\ MaxFd \in Nat /\ MaxBacklog \in Nat /\ MaxSignals \in Nat
  /\ NoFd \notin Nat
  /\ NoThread \notin Threads

VARIABLES
  running,    \* running_
  server_fd,  \* server_fd_
  udp_fd,     \* udp_fd_
  file,       \* what each descriptor is open on
  backlog,    \* connections the kernel has made and nobody accepted
  pc,         \* where main, the hello thread and the accept thread are
  arg,        \* the descriptor the hello thread is about to send to
  stop,       \* where a thread is in sig_handler
  joinable,   \* the std::thread objects that own a thread
  joiner,     \* who is joining it
  signals,    \* history: signals so far
  insisted,   \* history: a signal arrived while a thread was joining
  gone        \* how the process ended

vars == <<running, server_fd, udp_fd, file, backlog, pc, arg, stop, joinable,
          joiner, signals, insisted, gone>>

sockets == <<server_fd, udp_fd, file, backlog>>
handling == <<stop, joinable, joiner, signals, insisted>>

Init ==
  /\ running = FALSE
  /\ server_fd = NoFd
  /\ udp_fd = NoFd
  /\ file = [f \in Fds |-> "free"]
  /\ backlog = 0
  /\ pc = [main |-> "boot", hello |-> "off", accept |-> "off"]
  /\ arg = NoFd
  /\ stop = [t \in Threads |-> "none"]
  /\ joinable = {}
  /\ joiner = [o \in Owned |-> NoThread]
  /\ signals = 0
  /\ insisted = FALSE
  /\ gone = "no"

Free == {f \in Fds : file[f] = "free"}
Lowest(fs) == CHOOSE f \in fs : \A g \in fs : f <= g

(* A listening socket lives as long as a descriptor or an accept uses it.  *)
Listening == "listen" \in {file[f] : f \in Fds} \/ pc["accept"] = "blocked"

(* What a thread does when no signal handler runs on it. *)
At(t, l) == gone = "no" /\ stop[t] = "none" /\ pc[t] = l
Goto(t, l) == pc' = [pc EXCEPT ![t] = l]

-----------------------------------------------------------------------------
(* main and Server::start. *)

(* g_server is made and start says that the server runs. *)
MainBoots ==
  /\ At("main", "boot")
  /\ running' = TRUE
  /\ Goto("main", "server")
  /\ UNCHANGED <<sockets, arg, handling, gone>>

MainListens ==
  /\ At("main", "server")
  /\ server_fd' = Lowest(Free)
  /\ file' = [file EXCEPT ![Lowest(Free)] = "listen"]
  /\ Goto("main", "udp")
  /\ UNCHANGED <<running, udp_fd, backlog, arg, handling, gone>>

MainOpensUdp ==
  /\ At("main", "udp")
  /\ Free # {}
  /\ udp_fd' = Lowest(Free)
  /\ file' = [file EXCEPT ![Lowest(Free)] = "udp"]
  /\ Goto("main", "threads")
  /\ UNCHANGED <<running, server_fd, backlog, arg, handling, gone>>

(* The port is taken, there is no descriptor left, or the system starts no *)
(* thread: nobody catches it.                                              *)
MainThrows ==
  /\ \E l \in {"server", "udp", "threads", "second"} : At("main", l)
  /\ gone' = "abort"
  /\ UNCHANGED <<running, sockets, pc, arg, handling>>

Starting(o) == IF o = "hello" THEN "threads" ELSE "second"
Owning(o) == IF o = "hello" THEN "own_hello" ELSE "own_accept"

(* The thread runs, and a temporary std::thread owns it ... *)
MainStarts(o) ==
  /\ At("main", Starting(o))
  /\ pc' = [pc EXCEPT !["main"] = Owning(o), ![o] = "check"]
  /\ UNCHANGED <<running, sockets, arg, handling, gone>>

(* Mutant: the thread is started without the Server keeping it. *)
MainDetaches(o) ==
  /\ At("main", Owning(o))
  /\ Goto("main", IF o = "hello" THEN "second" ELSE "sleep")
  /\ UNCHANGED <<running, sockets, arg, handling, gone>>

(* ... until it is moved into the member. *)
MainOwns(o) ==
  /\ At("main", Owning(o))
  /\ joinable' = joinable \cup {o}
  /\ Goto("main", IF o = "hello" THEN "second" ELSE "sleep")
  /\ UNCHANGED <<running, sockets, arg, stop, joiner, signals, insisted,
                 gone>>

Main ==
  \/ MainBoots \/ MainListens \/ MainOpensUdp
  \/ \E o \in Owned : MainStarts(o) \/ MainOwns(o)

-----------------------------------------------------------------------------
(* proc_hello. *)

HelloChecks ==
  /\ At("hello", "check")
  /\ \/ /\ running /\ udp_fd # NoFd
        /\ arg' = udp_fd
        /\ Goto("hello", "send")
     \/ /\ running /\ udp_fd = NoFd
        /\ Goto("hello", "nap")
        /\ UNCHANGED arg
     \/ /\ ~running
        /\ Goto("hello", "done")
        /\ UNCHANGED arg
  /\ UNCHANGED <<running, sockets, handling, gone>>

(* sendto; on a connected TCP socket the address is ignored, on a file it  *)
(* fails.                                                                  *)
HelloSends ==
  /\ At("hello", "send")
  /\ Goto("hello", "nap")
  /\ UNCHANGED <<running, sockets, arg, handling, gone>>

HelloNaps ==
  /\ At("hello", "nap")
  /\ Goto("hello", "check")
  /\ UNCHANGED <<running, sockets, arg, handling, gone>>

Hello == HelloChecks \/ HelloSends \/ HelloNaps

-----------------------------------------------------------------------------
(* proc_accept. *)

(* accept is called; on a descriptor that is not the listening socket any  *)
(* more it fails at once.                                                  *)
AcceptCalls ==
  /\ At("accept", "check")
  /\ IF ~running THEN Goto("accept", "done")
     ELSE IF server_fd # NoFd /\ file[server_fd] = "listen"
       THEN Goto("accept", "blocked")
       ELSE UNCHANGED pc
  /\ UNCHANGED <<running, sockets, arg, handling, gone>>

(* The connections that wait are lost with the socket. *)
Left(n) == IF "listen" \in {file[f] : f \in Fds} THEN n ELSE 0

(* Mutant: accept is taken to have returned a connection when it has not. *)
AcceptReturnsAtOnce ==
  /\ At("accept", "blocked")
  /\ Free # {}
  /\ file' = [file EXCEPT ![Lowest(Free)] = "client"]
  /\ backlog' = backlog - 1
  /\ Goto("accept", "check")
  /\ UNCHANGED <<running, server_fd, udp_fd, arg, handling, gone>>

(* A connection has its handler; the next turn of the loop. *)
AcceptReturns ==
  /\ At("accept", "blocked")
  /\ backlog > 0
  /\ Free # {}
  /\ file' = [file EXCEPT ![Lowest(Free)] = "client"]
  /\ backlog' = Left(backlog - 1)
  /\ Goto("accept", "check")
  /\ UNCHANGED <<running, server_fd, udp_fd, arg, handling, gone>>

(* Mutant: the loop ends at the first error. *)
AcceptFailsForGood ==
  /\ At("accept", "blocked")
  /\ backlog > 0
  /\ Free = {}
  /\ backlog' = Left(backlog)
  /\ Goto("accept", "done")
  /\ UNCHANGED <<running, server_fd, udp_fd, file, arg, handling, gone>>

(* No descriptor is left for it; the connection waits on. *)
AcceptFails ==
  /\ At("accept", "blocked")
  /\ backlog > 0
  /\ Free = {}
  /\ backlog' = Left(backlog)
  /\ Goto("accept", "check")
  /\ UNCHANGED <<running, server_fd, udp_fd, file, arg, handling, gone>>

Accept == AcceptCalls \/ AcceptReturns \/ AcceptFails

(* A handler opens the archive. *)
ClientOpens ==
  /\ gone = "no"
  /\ "client" \in {file[f] : f \in Fds}
  /\ Free # {}
  /\ file' = [file EXCEPT ![Lowest(Free)] = "archive"]
  /\ UNCHANGED <<running, server_fd, udp_fd, backlog, pc, arg, handling,
                 gone>>

(* It closes its archive or, at the end, its socket. *)
ClientCloses(f) ==
  /\ gone = "no"
  /\ file[f] \in {"client", "archive"}
  /\ file' = [file EXCEPT ![f] = "free"]
  /\ UNCHANGED <<running, server_fd, udp_fd, backlog, pc, arg, handling,
                 gone>>

Arrives ==
  /\ gone = "no"
  /\ Listening
  /\ backlog < MaxBacklog
  /\ backlog' = backlog + 1
  /\ UNCHANGED <<running, server_fd, udp_fd, file, pc, arg, handling, gone>>

-----------------------------------------------------------------------------
(* sig_handler: stop, then exit. *)

Alive(t) ==
  CASE t = "main" -> TRUE
    [] t = "client" -> "client" \in {file[f] : f \in Fds}
    [] OTHER -> pc[t] \notin {"off", "done"}

(* A second signal interrupts the handler of the first, on main, or goes   *)
(* to another thread when it is the same signal.                           *)
Signal(t) ==
  /\ gone = "no"
  /\ signals < MaxSignals
  /\ Alive(t)
  /\ t # "main" => stop["main"] # "none"
  /\ stop' = [stop EXCEPT ![t] =
                IF pc["main"] = "boot" THEN "exit" ELSE "flag"]
  /\ signals' = signals + 1
  /\ insisted' = (insisted \/ \E o \in Owned : joiner[o] # NoThread)
  /\ UNCHANGED <<running, sockets, pc, arg, joinable, joiner, gone>>

Stops(t, l, m) ==
  /\ gone = "no"
  /\ stop[t] = l
  /\ stop' = [stop EXCEPT ![t] = m]

(* Mutant: the threads are not told. *)
StopFlagForgotten(t) ==
  /\ Stops(t, "flag", "server")
  /\ UNCHANGED <<running, sockets, pc, arg, joinable, joiner, signals,
                 insisted, gone>>

StopFlag(t) ==
  /\ Stops(t, "flag", "server")
  /\ running' = FALSE
  /\ UNCHANGED <<sockets, pc, arg, joinable, joiner, signals, insisted,
                 gone>>

(* close frees the number; an accept under way goes on. *)
Closes(fd) ==
  IF fd = NoFd THEN UNCHANGED <<file, backlog>>
  ELSE /\ file' = [file EXCEPT ![fd] = "free"]
       /\ backlog' = IF file[fd] = "listen" /\ pc["accept"] # "blocked"
                       THEN 0 ELSE backlog

StopClosesServer(t) ==
  /\ Stops(t, "server", "forget_server")
  /\ Closes(server_fd)
  /\ UNCHANGED <<running, server_fd, udp_fd, pc, arg, joinable, joiner,
                 signals, insisted, gone>>

StopForgetsServer(t) ==
  /\ Stops(t, "forget_server", "udp")
  /\ server_fd' = NoFd
  /\ UNCHANGED <<running, udp_fd, file, backlog, pc, arg, joinable, joiner,
                 signals, insisted, gone>>

StopClosesUdp(t) ==
  /\ Stops(t, "udp", "forget_udp")
  /\ Closes(udp_fd)
  /\ UNCHANGED <<running, server_fd, udp_fd, pc, arg, joinable, joiner,
                 signals, insisted, gone>>

StopForgetsUdp(t) ==
  /\ Stops(t, "forget_udp", "hello")
  /\ udp_fd' = NoFd
  /\ UNCHANGED <<running, server_fd, file, backlog, pc, arg, joinable, joiner,
                 signals, insisted, gone>>

After(o) == IF o = "hello" THEN "accept" ELSE "exit"

Join(o) == IF o = "hello" THEN "join_hello" ELSE "join_accept"
Wait(o) == IF o = "hello" THEN "wait_hello" ELSE "wait_accept"

(* joinable() says no. *)
StopSkips(t, o) ==
  /\ Stops(t, o, After(o))
  /\ o \notin joinable
  /\ UNCHANGED <<running, sockets, pc, arg, joinable, joiner, signals,
                 insisted, gone>>

(* joinable() says yes, by now. *)
StopFinds(t, o) ==
  /\ Stops(t, o, Join(o))
  /\ o \in joinable
  /\ UNCHANGED <<running, sockets, pc, arg, joinable, joiner, signals,
                 insisted, gone>>

(* A thread cannot join itself, nor one that was joined in the meantime or *)
(* that another thread is joining.                                         *)
Refused(t, o) == t = o \/ o \notin joinable \/ joiner[o] # NoThread

StopJoins(t, o) ==
  /\ Stops(t, Join(o), Wait(o))
  /\ ~Refused(t, o)
  /\ joiner' = [joiner EXCEPT ![o] = t]
  /\ UNCHANGED <<running, sockets, pc, arg, joinable, signals, insisted,
                 gone>>

(* Mutant: the exception is caught and join tried again. *)
StopCatches(t, o) ==
  /\ gone = "no"
  /\ stop[t] = Join(o)
  /\ Refused(t, o)
  /\ UNCHANGED vars

(* join throws, and nobody catches it. *)
StopThrows(t, o) ==
  /\ gone = "no"
  /\ stop[t] = Join(o)
  /\ Refused(t, o)
  /\ gone' = "abort"
  /\ UNCHANGED <<running, sockets, pc, arg, handling>>

(* Mutant: the thread is taken to have ended. *)
StopJoinedEarly(t, o) ==
  /\ Stops(t, Wait(o), After(o))
  /\ joinable' = joinable \ {o}
  /\ joiner' = [joiner EXCEPT ![o] = NoThread]
  /\ UNCHANGED <<running, sockets, pc, arg, signals, insisted, gone>>

StopJoined(t, o) ==
  /\ Stops(t, Wait(o), After(o))
  /\ pc[o] = "done"
  /\ joinable' = joinable \ {o}
  /\ joiner' = [joiner EXCEPT ![o] = NoThread]
  /\ UNCHANGED <<running, sockets, pc, arg, signals, insisted, gone>>

(* exit destroys g_server, for which there is nothing left to stop. *)
Exits(t) ==
  /\ gone = "no"
  /\ stop[t] = "exit"
  /\ gone' = "exit"
  /\ UNCHANGED <<running, sockets, pc, arg, handling>>

Stop(t) ==
  \/ StopFlag(t) \/ StopClosesServer(t) \/ StopForgetsServer(t)
  \/ StopClosesUdp(t) \/ StopForgetsUdp(t) \/ Exits(t)
  \/ \E o \in Owned :
       \/ StopSkips(t, o) \/ StopFinds(t, o)
       \/ StopJoins(t, o) \/ StopThrows(t, o) \/ StopJoined(t, o)

Next ==
  \/ Main \/ MainThrows \/ Hello \/ Accept \/ Arrives
  \/ ClientOpens
  \/ \E f \in Fds : ClientCloses(f)
  \/ \E t \in Threads : Signal(t) \/ Stop(t)

(* Every thread is scheduled; nobody has to connect, to signal or to end.  *)
Fairness ==
  /\ WF_vars(Main) /\ WF_vars(Hello) /\ WF_vars(Accept)
  /\ \A t \in Threads : WF_vars(Stop(t))

Spec == Init /\ [][Next]_vars /\ Fairness

-----------------------------------------------------------------------------
(* Properties. *)

TypeOK ==
  /\ running \in BOOLEAN
  /\ server_fd \in Fds \cup {NoFd} /\ udp_fd \in Fds \cup {NoFd}
  /\ file \in [Fds -> {"free", "listen", "udp", "client", "archive"}]
  /\ backlog \in 0 .. MaxBacklog
  /\ pc["main"] \in {"boot", "server", "udp", "threads", "own_hello", "second",
                    "own_accept", "sleep"}
  /\ pc["hello"] \in {"off", "check", "send", "nap", "done"}
  /\ pc["accept"] \in {"off", "check", "blocked", "done"}
  /\ DOMAIN pc = {"main"} \cup Owned
  /\ arg \in Fds \cup {NoFd}
  /\ stop \in [Threads -> {"none", "flag", "server", "forget_server", "udp",
                           "forget_udp", "hello", "join_hello", "wait_hello",
                           "accept", "join_accept", "wait_accept", "exit"}]
  /\ joinable \subseteq Owned
  /\ joiner \in [Owned -> Threads \cup {NoThread}]
  /\ signals \in 0 .. MaxSignals
  /\ insisted \in BOOLEAN
  /\ gone \in {"no", "exit", "abort"}

(* exit destroys the Server only when its two threads are over, however    *)
(* many signals there were and on whichever threads they ran stop; except  *)
(* when the first signal met main between the start of a thread and its    *)
(* assignment to the member (server.cpp:32-33), which stop finds empty:    *)
(* that one thread then runs on in a Server that is gone.                  *)
JoinedBeforeExit ==
  gone = "exit" =>
    \A o \in Owned : pc[o] \in {"off", "done"} \/ pc["main"] = Owning(o)

(* The inductive invariant behind it: the first handler runs on main, which *)
(* goes on no more, and the threads that stop does not find joinable are    *)
(* over, were never started or are the one main was about to assign.        *)
JoinInv ==
  /\ \A t \in Threads : stop[t] # "none" => stop["main"] # "none"
  /\ pc["hello"] = "off" <=> pc["main"] \in {"boot", "server", "udp", "threads"}
  /\ pc["accept"] = "off" <=> pc["main"] \notin {"own_accept", "sleep"}
  /\ \A o \in Owned :
       IF o \in joinable THEN pc[o] # "off"
       ELSE pc[o] \in {"off", "done"} \/ pc["main"] = Owning(o)
  /\ \A t \in Threads :
       /\ stop[t] \in {"accept", "join_accept", "wait_accept", "exit"} =>
            "hello" \notin joinable
       /\ stop[t] = "exit" => "accept" \notin joinable
  /\ gone = "exit" => joinable = {}
  /\ pc["main"] \in {"boot", "server"} => Free = Fds

(* As long as running_ holds every hello goes out through the UDP socket.  *)
(* Once stop has closed that, a client's connection or archive may get its *)
(* number, on whatever thread stop runs; but as the flag is cleared first, *)
(* only a hello the thread was already about to send can end up there.     *)
HellosGoOut == running /\ pc["hello"] = "send" => file[arg] = "udp"

(* The inductive invariant behind it: nobody closes before the flag is     *)
(* cleared, and from the start of the threads on udp_fd_ is what it says.  *)
SendInv ==
  running => /\ pc["main"] # "boot"
             /\ \A t \in Threads : stop[t] \in {"none", "flag"}
             /\ pc["main"] \notin {"server", "udp"} =>
                  udp_fd \in Fds /\ file[udp_fd] = "udp"
             /\ pc["hello"] = "send" => arg = udp_fd

Inv == TypeOK /\ JoinInv /\ SendInv

(* Until a signal comes connections get their handlers, as long as there   *)
(* is a descriptor for them: a failing accept does not end the loop.       *)
BacklogIsServed ==
  \/ []<>(backlog = 0 \/ Free = {}) \/ []<><<AcceptReturns>>_vars
  \/ <>(signals > 0) \/ <>(gone # "no")

(* A signal that comes while stop is joining always ends the process.      *)
InsistingEnds == insisted ~> gone # "no"

(* With clients that keep connecting a signal ends the process: accept     *)
(* returns, and the accept thread sees that it has to end.                 *)
StopsWhenBusy == WF_vars(Arrives) => (signals > 0 ~> gone # "no")

(* server_main.cpp:82, "Press Ctrl+C to stop.": a signal ends the process, *)
(* whatever clients do.                                                    *)
StopsOnSignal == signals > 0 ~> gone # "no"

=============================================================================
