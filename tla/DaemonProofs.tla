---------------------------- MODULE DaemonProofs ----------------------------
(* The server process ends in an orderly way whatever signals arrive, for  *)
(* any number of descriptors, connections and signals.                     *)
EXTENDS Daemon, WellFoundedInduction, TLAPS

USE BoundsAssumption

-----------------------------------------------------------------------------
(* Descriptors.                                                            *)

(* The kernel hands out the lowest free number. *)
LEMMA LowestIsFree == ASSUME Free # {} PROVE Lowest(Free) \in Free
<1>1. Free \subseteq Nat
  BY DEF Free, Fds
<1>2. PICK f \in Free : \A g \in Free : ~(<<g, f>> \in OpToRel(<, Nat))
  BY <1>1, NatLessThanWellFounded, WFMin
<1>3. ASSUME NEW g \in Free PROVE f <= g
  <2>1. f \in Nat /\ g \in Nat /\ ~(g < f)
    BY <1>1, <1>2 DEF OpToRel
  <2> QED BY <2>1
<1> QED BY <1>3 DEF Lowest

(* A socket that is opened leaves every number with a kind of file. *)
LEMMA OpensTyped ==
  ASSUME TypeOK, Free # {}, NEW k \in {"listen", "udp", "client", "archive"},
         file' = [file EXCEPT ![Lowest(Free)] = k]
  PROVE  /\ file' \in [Fds -> {"free", "listen", "udp", "client", "archive"}]
         /\ Lowest(Free) \in Fds
BY LowestIsFree DEF TypeOK, Free

(* So does one that is closed. *)
LEMMA ClosesTyped ==
  ASSUME TypeOK, NEW fd \in Fds \cup {NoFd}, Closes(fd)
  PROVE  /\ file' \in [Fds -> {"free", "listen", "udp", "client", "archive"}]
         /\ backlog' \in 0 .. MaxBacklog
<1>1. CASE fd = NoFd
  BY <1>1 DEF Closes, TypeOK
<1>2. CASE fd # NoFd
  <2>1. file' = [file EXCEPT ![fd] = "free"] /\ backlog' \in {0, backlog}
    BY <1>2 DEF Closes
  <2>2. file' \in [Fds -> {"free", "listen", "udp", "client", "archive"}]
    BY <2>1 DEF TypeOK
  <2>3. backlog' \in 0 .. MaxBacklog
    BY <2>1 DEF TypeOK
  <2> QED BY <2>2, <2>3
<1> QED BY <1>1, <1>2

-----------------------------------------------------------------------------
(* Types.                                                                  *)

(* Steps of main, as the server starts. *)
LEMMA TypeMain == ASSUME TypeOK, JoinInv, Main \/ MainThrows PROVE TypeOK'
<1> USE DEF TypeOK, handling, sockets, Goto, Owned
<1>1. CASE MainBoots
  BY <1>1 DEF MainBoots
<1>2. CASE MainListens
  <2>1. Free # {}
    <3>1. Free = Fds
      BY <1>2 DEF MainListens, At, JoinInv
    <3>2. 0 \in Fds
      BY DEF Fds
    <3> QED BY <3>1, <3>2
  <2>2. Lowest(Free) \in Fds /\ file' \in [Fds -> {"free", "listen", "udp", "client", "archive"}]
    BY <1>2, <2>1, OpensTyped DEF MainListens
  <2> QED BY <1>2, <2>2 DEF MainListens
<1>3. CASE MainOpensUdp
  <2>1. Lowest(Free) \in Fds /\ file' \in [Fds -> {"free", "listen", "udp", "client", "archive"}]
    BY <1>3, OpensTyped DEF MainOpensUdp
  <2> QED BY <1>3, <2>1 DEF MainOpensUdp
<1>4. ASSUME NEW o \in Owned, MainStarts(o) \/ MainOwns(o) PROVE TypeOK'
  BY <1>4 DEF MainStarts, MainOwns, Owning
<1>5. CASE MainThrows
  BY <1>5 DEF MainThrows
<1> QED BY <1>1, <1>2, <1>3, <1>4, <1>5 DEF Main

(* Steps of the threads and of the clients. *)
LEMMA TypeThreads ==
  ASSUME TypeOK, \/ Hello \/ Accept \/ Arrives \/ ClientOpens
                 \/ \E f \in Fds : ClientCloses(f)
  PROVE  TypeOK'
<1> USE DEF TypeOK, handling, sockets, Goto, Owned
<1>1. CASE HelloChecks
  BY <1>1 DEF HelloChecks
<1>2. CASE HelloSends \/ HelloNaps
  BY <1>2 DEF HelloSends, HelloNaps
<1>3. CASE AcceptCalls
  BY <1>3 DEF AcceptCalls
<1>4. ASSUME NEW n \in 0 .. MaxBacklog PROVE Left(n) \in 0 .. MaxBacklog
  BY <1>4 DEF Left
<1>5. CASE AcceptReturns
  <2>1. file' \in [Fds -> {"free", "listen", "udp", "client", "archive"}]
    BY <1>5, OpensTyped DEF AcceptReturns
  <2>2. backlog' \in 0 .. MaxBacklog
    <3>1. backlog - 1 \in 0 .. MaxBacklog
      BY <1>5 DEF AcceptReturns
    <3> QED BY <1>4, <1>5, <3>1 DEF AcceptReturns
  <2> QED BY <1>5, <2>1, <2>2 DEF AcceptReturns
<1>6. CASE AcceptFails
  <2>1. backlog' \in 0 .. MaxBacklog
    BY <1>4, <1>6 DEF AcceptFails
  <2> QED BY <1>6, <2>1 DEF AcceptFails
<1>7. CASE Arrives
  BY <1>7 DEF Arrives
<1>8. CASE ClientOpens
  <2>1. file' \in [Fds -> {"free", "listen", "udp", "client", "archive"}]
    BY <1>8, OpensTyped DEF ClientOpens
  <2> QED BY <1>8, <2>1 DEF ClientOpens
<1>9. ASSUME NEW f \in Fds, ClientCloses(f) PROVE TypeOK'
  BY <1>9 DEF ClientCloses
<1> QED BY <1>1, <1>2, <1>3, <1>5, <1>6, <1>7, <1>8, <1>9 DEF Hello, Accept

(* Steps of the signal handlers. *)
LEMMA TypeSignals ==
  ASSUME TypeOK, NEW t \in Threads, Signal(t) \/ Stop(t) PROVE TypeOK'
<1> USE DEF TypeOK, sockets
<1>1. CASE Signal(t)
  <2>1. signals' \in 0 .. MaxSignals
    BY <1>1 DEF Signal
  <2>2. insisted' \in BOOLEAN
    BY <1>1 DEF Signal
  <2> QED BY <1>1, <2>1, <2>2 DEF Signal
<1>2. CASE StopFlag(t) \/ StopForgetsServer(t) \/ StopForgetsUdp(t)
  BY <1>2 DEF StopFlag, StopForgetsServer, StopForgetsUdp, Stops
<1>3. CASE StopClosesServer(t) \/ StopClosesUdp(t)
  <2>1. PICK fd \in {server_fd, udp_fd} : Closes(fd)
    BY <1>3 DEF StopClosesServer, StopClosesUdp
  <2>2. /\ file' \in [Fds -> {"free", "listen", "udp", "client", "archive"}]
        /\ backlog' \in 0 .. MaxBacklog
    BY <2>1, ClosesTyped
  <2>3. /\ UNCHANGED <<running, server_fd, udp_fd, pc, arg, joinable, joiner,
                       signals, insisted, gone>>
        /\ \E m \in {"forget_server", "forget_udp"} : stop' = [stop EXCEPT ![t] = m]
    BY <1>3 DEF StopClosesServer, StopClosesUdp, Stops
  <2> QED BY <2>2, <2>3
<1>4. CASE Exits(t)
  BY <1>4 DEF Exits, handling
<1>5. ASSUME NEW o \in Owned,
             \/ StopSkips(t, o) \/ StopFinds(t, o)
             \/ StopJoins(t, o) \/ StopThrows(t, o) \/ StopJoined(t, o)
      PROVE  TypeOK'
  <2>1. CASE StopSkips(t, o)
    BY <2>1 DEF StopSkips, Stops, After
  <2>2. CASE StopFinds(t, o) \/ StopJoins(t, o)
    BY <2>2 DEF StopFinds, StopJoins, Stops, Join, Wait
  <2>3. CASE StopThrows(t, o)
    BY <2>3 DEF StopThrows, handling
  <2>4. CASE StopJoined(t, o)
    BY <2>4 DEF StopJoined, Stops, After
  <2> QED BY <1>5, <2>1, <2>2, <2>3, <2>4
<1> QED BY <1>1, <1>2, <1>3, <1>4, <1>5 DEF Stop

(* Every step keeps the types. *)
LEMMA TypeStep == ASSUME TypeOK, JoinInv, [Next]_vars PROVE TypeOK'
<1>1. CASE UNCHANGED vars
  BY <1>1 DEF vars, TypeOK
<1> QED BY <1>1, TypeMain, TypeThreads, TypeSignals DEF Next

-----------------------------------------------------------------------------
(* Who is joined.                                                          *)

(* Until the first signal main runs alone and starts the threads. *)
LEMMA JoinMain == ASSUME TypeOK, JoinInv, Main \/ MainThrows PROVE JoinInv'
<1>1. CASE MainBoots \/ MainThrows
  BY <1>1 DEF MainBoots, MainThrows, At, Goto, handling, sockets, JoinInv, TypeOK,
     Free, Owned, Owning
<1>2. CASE MainListens \/ MainOpensUdp
  <2>1. /\ UNCHANGED <<stop, joinable, gone>>
        /\ \/ pc["main"] = "server" /\ pc' = [pc EXCEPT !["main"] = "udp"]
           \/ pc["main"] = "udp" /\ pc' = [pc EXCEPT !["main"] = "threads"]
    BY <1>2 DEF MainListens, MainOpensUdp, At, Goto, handling
  <2> QED BY <2>1 DEF JoinInv, TypeOK, Owned, Owning
<1>3. ASSUME NEW o \in Owned, MainStarts(o) PROVE JoinInv'
  <2>1. /\ \A t \in Threads : stop[t] = "none"
        /\ stop' = stop /\ gone' = gone /\ gone = "no" /\ joinable' = joinable
    BY <1>3 DEF MainStarts, At, JoinInv, TypeOK, handling
  <2>2. \/ /\ o = "hello" /\ pc["main"] = "threads"
           /\ pc' = [pc EXCEPT !["main"] = "own_hello", !["hello"] = "check"]
        \/ /\ o = "accept" /\ pc["main"] = "second"
           /\ pc' = [pc EXCEPT !["main"] = "own_accept", !["accept"] = "check"]
    BY <1>3 DEF MainStarts, At, Owned, Starting, Owning
  <2>3. DOMAIN pc = {"main", "hello", "accept"}
    BY DEF TypeOK, Owned
  <2> QED BY <2>1, <2>2, <2>3 DEF JoinInv, Owned, Owning
<1>4. ASSUME NEW o \in Owned, MainOwns(o) PROVE JoinInv'
  <2>1. /\ \A t \in Threads : stop[t] = "none"
        /\ stop' = stop /\ gone' = gone /\ gone = "no"
        /\ joinable' = joinable \cup {o}
    BY <1>4 DEF MainOwns, At, JoinInv, TypeOK
  <2>2. \/ /\ o = "hello" /\ pc["main"] = "own_hello"
           /\ pc' = [pc EXCEPT !["main"] = "second"]
        \/ /\ o = "accept" /\ pc["main"] = "own_accept"
           /\ pc' = [pc EXCEPT !["main"] = "sleep"]
    BY <1>4 DEF MainOwns, At, Goto, Owned, Owning
  <2>3. DOMAIN pc = {"main", "hello", "accept"}
    BY DEF TypeOK, Owned
  <2> QED BY <2>1, <2>2, <2>3 DEF JoinInv, Owned, Owning
<1> QED BY <1>1, <1>2, <1>3, <1>4 DEF Main

(* A thread that runs stays what it is for those who join it, and one that *)
(* ended stays ended. *)
LEMMA JoinThreads ==
  ASSUME TypeOK, JoinInv,
         \/ Hello \/ Accept \/ Arrives \/ ClientOpens
         \/ \E f \in Fds : ClientCloses(f)
  PROVE  JoinInv'
<1>1. UNCHANGED <<stop, joinable, gone>>
  BY DEF Hello, HelloChecks, HelloSends, HelloNaps, Accept, AcceptCalls,
     AcceptReturns, AcceptFails, Arrives, ClientOpens, ClientCloses, handling
<1>2. \/ UNCHANGED pc
      \/ \E o \in Owned, l \in {"check", "send", "nap", "blocked", "done"} :
           pc[o] \notin {"off", "done"} /\ pc' = [pc EXCEPT ![o] = l]
  BY DEF Hello, HelloChecks, HelloSends, HelloNaps, Accept, AcceptCalls,
     AcceptReturns, AcceptFails, Arrives, ClientOpens, ClientCloses, At, Goto,
     Owned
<1>3. pc["main"] \in {"boot", "server"} => file' = file
  <2>1. ASSUME pc["main"] \in {"boot", "server"}
        PROVE  /\ \A f \in Fds : file[f] = "free"
               /\ pc["accept"] = "off"
    BY <2>1 DEF JoinInv, Free, TypeOK
  <2> QED BY <2>1 DEF Hello, HelloChecks, HelloSends, HelloNaps, Accept,
          AcceptCalls, AcceptReturns, AcceptFails, Arrives, ClientOpens,
          ClientCloses, At, sockets
<1>4. Free' = {f \in Fds : file'[f] = "free"}
  BY DEF Free
<1>5. pc'["main"] = pc["main"]
  BY <1>2 DEF TypeOK, Owned
<1>6. \A o \in Owned : /\ pc[o] = "off" <=> pc'[o] = "off"
                       /\ pc[o] = "done" => pc'[o] = "done"
  BY <1>2 DEF TypeOK, Owned
<1>7. pc'["main"] \in {"boot", "server"} => Free' = Fds
  BY <1>3, <1>4, <1>5 DEF JoinInv, Free
<1> QED BY <1>1, <1>5, <1>6, <1>7 DEF JoinInv, Owned

(* Signals go to main first, and a handler passes a thread only when it is *)
(* over or was never started. *)
LEMMA JoinSignals ==
  ASSUME TypeOK, JoinInv, NEW t \in Threads, Signal(t) \/ Stop(t)
  PROVE  JoinInv'
<1>1. pc' = pc /\ gone = "no"
  BY DEF Signal, Stop, StopFlag, StopClosesServer, StopForgetsServer,
     StopClosesUdp, StopForgetsUdp, Exits, StopSkips, StopFinds, StopJoins,
     StopThrows, StopJoined, Stops
<1>2. pc["main"] \in {"boot", "server"} => Free' = Fds
  <2>1. \/ file' = file
        \/ \E f \in Fds : file' = [file EXCEPT ![f] = "free"]
    <3>1. CASE StopClosesServer(t) \/ StopClosesUdp(t)
      <4>1. PICK fd \in {server_fd, udp_fd} : Closes(fd)
        BY <3>1 DEF StopClosesServer, StopClosesUdp
      <4> QED BY <4>1 DEF Closes, TypeOK
    <3>2. CASE ~(StopClosesServer(t) \/ StopClosesUdp(t))
      BY <3>2 DEF Signal, Stop, StopFlag, StopForgetsServer, StopForgetsUdp,
         Exits, StopSkips, StopFinds, StopJoins, StopThrows, StopJoined, sockets
    <3> QED BY <3>1, <3>2
  <2>2. \A f \in Fds : file[f] = "free" => file'[f] = "free"
    BY <2>1 DEF TypeOK
  <2> QED BY <2>2 DEF JoinInv, Free
<1>3. ASSUME NEW l \in {"flag", "server", "forget_server", "udp", "forget_udp",
                       "hello", "join_hello", "wait_hello", "accept",
                       "join_accept", "wait_accept", "exit"},
             stop' = [stop EXCEPT ![t] = l],
             t = "main" \/ stop["main"] # "none",
             joinable' \subseteq joinable, gone' = gone,
             \A o \in joinable \ joinable' : pc[o] = "done",
             l \in {"accept", "join_accept", "wait_accept", "exit"} =>
               "hello" \notin joinable',
             l = "exit" => "accept" \notin joinable'
      PROVE  JoinInv'
  <2>1. \A x \in Threads : stop'[x] = IF x = t THEN l ELSE stop[x]
    BY <1>3 DEF TypeOK
  <2>2. "main" \in Threads
    BY DEF Threads
  <2>3. \A x \in Threads : stop'[x] # "none" => stop'["main"] # "none"
    BY <1>3, <2>1, <2>2
  <2>4. \A x \in Threads :
          /\ stop'[x] \in {"accept", "join_accept", "wait_accept", "exit"} =>
               "hello" \notin joinable'
          /\ stop'[x] = "exit" => "accept" \notin joinable'
    BY <1>3, <2>1 DEF JoinInv
  <2>5. \A o \in Owned : IF o \in joinable' THEN pc'[o] # "off"
                                           ELSE \/ pc'[o] \in {"off", "done"}
                                                \/ pc'["main"] = Owning(o)
    BY <1>1, <1>3 DEF JoinInv
  <2> QED BY <1>1, <1>2, <1>3, <2>3, <2>4, <2>5 DEF JoinInv
<1>4. CASE Signal(t)
  <2>1. PICK l \in {"flag", "exit"} :
               /\ stop' = [stop EXCEPT ![t] = l]
               /\ l = "exit" => pc["main"] = "boot"
    BY <1>4 DEF Signal
  <2>2. /\ joinable' = joinable /\ gone' = gone
        /\ t = "main" \/ stop["main"] # "none"
    BY <1>4 DEF Signal
  <2>3. \A o \in joinable \ joinable' : pc[o] = "done"
    BY <2>2
  <2>4. CASE l = "flag"
    BY <1>3, <2>1, <2>2, <2>3, <2>4
  <2>5. CASE l = "exit"
    <3>1. pc["hello"] = "off" /\ pc["accept"] = "off"
      <4>1. pc["main"] = "boot"
        BY <2>1, <2>5
      <4> QED BY <4>1 DEF JoinInv
    <3>2. \A o \in Owned : o \in joinable => pc[o] # "off"
      BY DEF JoinInv
    <3>3. "hello" \notin joinable /\ "accept" \notin joinable
      BY <3>1, <3>2 DEF Owned
    <3> QED BY <1>3, <2>1, <2>2, <2>3, <2>5, <3>3
  <2> QED BY <2>1, <2>4, <2>5
<1>5. ASSUME Stop(t), stop[t] # "none"
      PROVE  t = "main" \/ stop["main"] # "none"
  BY <1>5 DEF JoinInv
<1>6. CASE \/ StopFlag(t) \/ StopClosesServer(t) \/ StopForgetsServer(t)
           \/ StopClosesUdp(t) \/ StopForgetsUdp(t)
  <2>1. /\ stop[t] # "none" /\ joinable' = joinable /\ gone' = gone
        /\ \E l \in {"server", "forget_server", "udp", "forget_udp", "hello"} :
             stop' = [stop EXCEPT ![t] = l]
    BY <1>6 DEF StopFlag, StopClosesServer, StopForgetsServer, StopClosesUdp,
       StopForgetsUdp, Stops
  <2>2. t = "main" \/ stop["main"] # "none"
    BY <1>5, <1>6, <2>1 DEF Stop
  <2> QED BY <1>3, <2>1, <2>2
<1>7. CASE Exits(t)
  <2>1. /\ stop[t] = "exit" /\ gone' = "exit" /\ stop' = stop
        /\ joinable' = joinable
    BY <1>7 DEF Exits, handling
  <2>2. joinable = {}
    BY <2>1 DEF JoinInv, TypeOK, Owned
  <2> QED BY <1>1, <1>2, <2>1, <2>2 DEF JoinInv
<1>8. ASSUME NEW o \in Owned, StopThrows(t, o) PROVE JoinInv'
  <2>1. stop' = stop /\ joinable' = joinable /\ gone' = "abort"
    BY <1>8 DEF StopThrows, handling
  <2> QED BY <1>1, <1>2, <2>1 DEF JoinInv
<1>9. ASSUME NEW o \in Owned,
             \/ StopSkips(t, o) \/ StopFinds(t, o)
             \/ StopJoins(t, o) \/ StopJoined(t, o)
      PROVE  JoinInv'
  <2>1. Stop(t)
    BY <1>9 DEF Stop
  <2>2. CASE StopSkips(t, o)
    <3>1. /\ stop[t] = o /\ stop' = [stop EXCEPT ![t] = After(o)]
          /\ o \notin joinable /\ joinable' = joinable /\ gone' = gone
      BY <2>2 DEF StopSkips, Stops
    <3>2. o = "accept" => "hello" \notin joinable
      BY <3>1 DEF JoinInv
    <3>3. stop[t] # "none"
      BY <3>1 DEF Owned
    <3> QED BY <1>3, <1>5, <2>1, <3>1, <3>2, <3>3 DEF After, Owned
  <2>3. CASE StopFinds(t, o) \/ StopJoins(t, o)
    <3>1. /\ \/ stop[t] = o /\ stop' = [stop EXCEPT ![t] = Join(o)]
             \/ stop[t] = Join(o) /\ stop' = [stop EXCEPT ![t] = Wait(o)]
          /\ joinable' = joinable /\ gone' = gone
      BY <2>3 DEF StopFinds, StopJoins, Stops
    <3>2. o = "accept" => "hello" \notin joinable
      BY <3>1 DEF JoinInv, Join
    <3>3. stop[t] # "none"
      BY <3>1 DEF Owned, Join
    <3> QED BY <1>3, <1>5, <2>1, <3>1, <3>2, <3>3 DEF Owned, Join, Wait
  <2>4. CASE StopJoined(t, o)
    <3>1. /\ stop[t] = Wait(o)
          /\ stop' = [stop EXCEPT ![t] = After(o)] /\ gone' = gone
          /\ pc[o] = "done" /\ joinable' = joinable \ {o}
      BY <2>4 DEF StopJoined, Stops
    <3>2. o = "accept" => "hello" \notin joinable
      BY <3>1 DEF JoinInv, Wait
    <3>3. stop[t] # "none"
      BY <3>1 DEF Wait
    <3> QED BY <1>3, <1>5, <2>1, <3>1, <3>2, <3>3 DEF After, Owned
  <2> QED BY <1>9, <2>2, <2>3, <2>4
<1> QED BY <1>4, <1>6, <1>7, <1>8, <1>9 DEF Stop

-----------------------------------------------------------------------------
(* Where hellos go.                                                        *)

(* No descriptor that is open is lost to a socket that is opened. *)
LEMMA OpensKeeps ==
  ASSUME TypeOK, Free # {}, NEW k, file' = [file EXCEPT ![Lowest(Free)] = k],
         NEW f \in Fds, file[f] # "free"
  PROVE  file'[f] = file[f]
BY LowestIsFree DEF TypeOK, Free

(* main opens the UDP socket before it starts the hello thread, and takes  *)
(* no step any more once a signal came. *)
LEMMA SendMain ==
  ASSUME TypeOK, JoinInv, SendInv, Main \/ MainThrows PROVE SendInv'
<1>1. \A t \in Threads : stop[t] = "none"
  BY DEF Main, MainThrows, MainBoots, MainListens, MainOpensUdp, MainStarts,
     MainOwns, At, JoinInv
<1>2. /\ stop' = stop
      /\ pc["hello"] = "off" <=> pc["main"] \in {"boot", "server", "udp", "threads"}
  BY DEF Main, MainThrows, MainBoots, MainListens, MainOpensUdp, MainStarts,
     MainOwns, handling, JoinInv
<1>3. CASE MainBoots
  <2>1. pc'["main"] = "server" /\ pc'["hello"] = "off"
    BY <1>2, <1>3 DEF MainBoots, At, Goto, TypeOK, Owned
  <2> QED BY <1>1, <1>2, <2>1 DEF SendInv
<1>4. CASE MainListens
  <2>1. pc'["main"] = "udp" /\ pc'["hello"] = "off"
    BY <1>2, <1>4 DEF MainListens, At, Goto, TypeOK, Owned
  <2> QED BY <1>1, <1>2, <2>1 DEF SendInv
<1>5. CASE MainOpensUdp
  <2>1. pc'["main"] = "threads" /\ pc'["hello"] = "off"
    BY <1>2, <1>5 DEF MainOpensUdp, At, Goto, TypeOK, Owned
  <2>2. udp_fd' \in Fds /\ file'[udp_fd'] = "udp"
    BY <1>5, OpensTyped DEF MainOpensUdp, TypeOK
  <2> QED BY <1>1, <1>2, <2>1, <2>2 DEF SendInv
<1>6. ASSUME NEW o \in Owned, MainStarts(o) \/ MainOwns(o) PROVE SendInv'
  <2>1. UNCHANGED <<running, udp_fd, file, arg>>
    BY <1>6 DEF MainStarts, MainOwns, sockets
  <2>2. /\ pc["main"] \in {"threads", "own_hello", "second", "own_accept"}
        /\ pc'["main"] \in {"own_hello", "second", "own_accept", "sleep"}
        /\ pc'["hello"] \in {pc["hello"], "check"}
    BY <1>6 DEF MainStarts, MainOwns, At, Goto, Starting, Owning, TypeOK, Owned
  <2> QED BY <1>1, <1>2, <2>1, <2>2 DEF SendInv
<1>7. CASE MainThrows
  <2>1. UNCHANGED <<running, udp_fd, file, arg, pc>>
    BY <1>7 DEF MainThrows, sockets
  <2> QED BY <1>2, <2>1 DEF SendInv
<1> QED BY <1>3, <1>4, <1>5, <1>6, <1>7 DEF Main

(* A socket that is open keeps its number, and the hello thread takes the  *)
(* one of udp_fd_. *)
LEMMA SendThreads ==
  ASSUME TypeOK, JoinInv, SendInv,
         \/ Hello \/ Accept \/ Arrives \/ ClientOpens
         \/ \E f \in Fds : ClientCloses(f)
  PROVE  SendInv'
<1>1. UNCHANGED <<running, udp_fd, stop>>
  BY DEF Hello, HelloChecks, HelloSends, HelloNaps, Accept, AcceptCalls,
     AcceptReturns, AcceptFails, Arrives, ClientOpens, ClientCloses, handling,
     sockets
<1>2. ASSUME udp_fd \in Fds, file[udp_fd] = "udp" PROVE file'[udp_fd] = "udp"
  <2>1. CASE Hello \/ AcceptCalls \/ AcceptFails \/ Arrives
    BY <1>2, <2>1 DEF Hello, HelloChecks, HelloSends, HelloNaps, AcceptCalls,
       AcceptFails, Arrives, sockets
  <2>2. CASE AcceptReturns \/ ClientOpens
    BY <1>2, <2>2, OpensKeeps DEF AcceptReturns, ClientOpens
  <2>3. CASE \E f \in Fds : ClientCloses(f)
    BY <1>2, <2>3 DEF ClientCloses, TypeOK
  <2> QED BY <2>1, <2>2, <2>3 DEF Accept
<1>3. /\ pc'["main"] = pc["main"]
      /\ \/ pc'["hello"] # "send"
         \/ pc'["hello"] = pc["hello"] /\ arg' = arg
         \/ arg' = udp_fd
  <2>1. CASE HelloChecks
    BY <2>1 DEF HelloChecks, Goto, TypeOK, Owned
  <2>2. CASE HelloSends \/ HelloNaps
    BY <2>2 DEF HelloSends, HelloNaps, Goto, TypeOK, Owned
  <2>3. CASE ~Hello
    BY <2>3 DEF Accept, AcceptCalls, AcceptReturns, AcceptFails, Arrives,
       ClientOpens, ClientCloses, Goto, TypeOK, Owned
  <2> QED BY <2>1, <2>2, <2>3 DEF Hello
<1> QED BY <1>1, <1>2, <1>3 DEF SendInv

(* stop clears the flag before it closes anything. *)
LEMMA SendSignals ==
  ASSUME TypeOK, JoinInv, SendInv, NEW t \in Threads, Signal(t) \/ Stop(t)
  PROVE  SendInv'
<1>1. CASE StopFlag(t)
  BY <1>1 DEF StopFlag, SendInv
<1>2. CASE Signal(t)
  <2>1. UNCHANGED <<running, udp_fd, file, pc, arg>>
    BY <1>2 DEF Signal, sockets
  <2>2. running => \A x \in Threads : stop'[x] \in {"none", "flag"}
    BY <1>2 DEF Signal, SendInv, TypeOK
  <2> QED BY <2>1, <2>2 DEF SendInv
<1>3. CASE Stop(t) /\ ~StopFlag(t)
  <2>1. stop[t] \notin {"none", "flag"}
    BY <1>3 DEF Stop, StopClosesServer, StopForgetsServer, StopClosesUdp,
       StopForgetsUdp, Exits, StopSkips, StopFinds, StopJoins, StopThrows,
       StopJoined, Stops, Join, Wait, Owned
  <2>2. running' = running
    BY <1>3 DEF Stop, StopClosesServer, StopForgetsServer, StopClosesUdp,
       StopForgetsUdp, Exits, StopSkips, StopFinds, StopJoins, StopThrows,
       StopJoined
  <2> QED BY <2>1, <2>2 DEF SendInv
<1> QED BY <1>1, <1>2, <1>3

-----------------------------------------------------------------------------
(* The theorems.                                                           *)

(* Types, who is joined and where hellos go, together inductive. *)
THEOREM Invariant == Spec => []Inv
<1>1. Init => Inv
  <2> SUFFICES ASSUME Init PROVE Inv
    OBVIOUS
  <2>1. TypeOK
    <3>1. pc = [main |-> "boot", hello |-> "off", accept |-> "off"]
      BY DEF Init
    <3>2. DOMAIN pc = {"main"} \cup Owned
      BY <3>1 DEF Owned
    <3>3. pc["main"] = "boot" /\ pc["hello"] = "off" /\ pc["accept"] = "off"
      BY <3>1
    <3>4. /\ file \in [Fds -> {"free", "listen", "udp", "client", "archive"}]
          /\ joiner \in [Owned -> Threads \cup {NoThread}]
          /\ stop \in [Threads -> {"none", "flag", "server", "forget_server",
                                   "udp", "forget_udp", "hello", "join_hello",
                                   "wait_hello", "accept", "join_accept",
                                   "wait_accept", "exit"}]
      BY DEF Init
    <3>5. /\ running \in BOOLEAN /\ insisted \in BOOLEAN
          /\ server_fd = NoFd /\ udp_fd = NoFd /\ arg = NoFd
          /\ backlog = 0 /\ signals = 0 /\ joinable = {} /\ gone = "no"
      BY DEF Init
    <3> QED BY <3>2, <3>3, <3>4, <3>5 DEF TypeOK
  <2>2. JoinInv
    BY DEF Init, JoinInv, Owned, Fds, Threads, Free
  <2>3. SendInv
    BY DEF Init, SendInv
  <2> QED BY <2>1, <2>2, <2>3 DEF Inv
<1>2. Inv /\ [Next]_vars => Inv'
  <2> SUFFICES ASSUME Inv, [Next]_vars PROVE Inv'
    OBVIOUS
  <2>1. TypeOK'
    BY TypeStep DEF Inv
  <2>2. CASE UNCHANGED vars
    BY <2>1, <2>2 DEF Inv, vars, JoinInv, SendInv, Free
  <2>3. CASE Next
    <3>1. JoinInv'
      BY <2>3, JoinMain, JoinThreads, JoinSignals DEF Inv, Next
    <3>2. SendInv'
      BY <2>3, SendMain, SendThreads, SendSignals DEF Inv, Next
    <3> QED BY <2>1, <3>1, <3>2 DEF Inv
  <2> QED BY <2>2, <2>3
<1> QED BY <1>1, <1>2, PTL DEF Spec

(* Descriptors are free or belong to one of the sockets, a client or an    *)
(* archive; every thread is at a known point of its loop and of stop.      *)
THEOREM TypeCorrect == Spec => []TypeOK
<1>1. Inv => TypeOK
  BY DEF Inv
<1> QED BY <1>1, Invariant, PTL

(* exit destroys the Server only when its two threads are over, however    *)
(* many signals there were and on whichever threads they ran stop, but for *)
(* the one that main had started and not yet moved into its member.        *)
THEOREM Joined == Spec => []JoinedBeforeExit
<1>1. Inv => JoinedBeforeExit
  BY DEF Inv, JoinInv, JoinedBeforeExit
<1> QED BY <1>1, Invariant, PTL

(* As long as running_ holds every hello goes out through the UDP socket,  *)
(* whatever closes and reuses descriptors and however many signals arrive. *)
THEOREM SentOut == Spec => []HellosGoOut
<1>1. Inv => HellosGoOut
  BY DEF Inv, JoinInv, SendInv, HellosGoOut
<1> QED BY <1>1, Invariant, PTL

=============================================================================
