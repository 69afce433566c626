----------------------------- MODULE Discovery -----------------------------
(***************************************************************************)
(* How a client finds servers: every daemon broadcasts a hello now and     *)
(* then; a scan binds the discovery port, takes in what arrives until its  *)
(* deadline, and then asks the loopback addresses whether a server listens *)
(* on the default port there.  Nobody answers the request it sends.        *)
(*                                                                         *)
(* A datagram is the sequence of the fields between its bars, "DLR" first  *)
(* in a hello.  A server's name has no bar in it.                          *)
(***************************************************************************)
EXTENDS Naturals, Sequences, SequencesExt

CONSTANTS
  Servers,      \* daemons
  Here,         \* the machine that scans
  Loopback,     \* <<"127.0.0.1", "::1">>, as hosts
  HostOf,       \* the machine of each server
  PortOf,       \* the TCP port of each server
  Locked,       \* the servers that want a password
  DefaultPort,  \* DEFAULT_PORT
  Reachable,    \* the loopback addresses connect_to can reach, which is IPv4
  MaxInbox      \* bound: datagrams that wait in the socket

VARIABLES
  up,       \* the servers that run
  taken,    \* whether another scan on this machine has the discovery port
  pc,       \* where the scan is
  inbox,    \* datagrams in its socket, with the host they came from
  results,  \* what it has found
  heard     \* history: servers whose hello it has received

vars == <<up, taken, pc, inbox, results, heard>>

Init ==
  /\ up = {}
  /\ taken = FALSE
  /\ pc = "off"
  /\ inbox = <<>>
  /\ results = {}
  /\ heard = {}

-----------------------------------------------------------------------------
(* The daemons, and other clients. *)

Starts(s) ==
  /\ s \notin up
  /\ up' = up \cup {s}
  /\ UNCHANGED <<taken, pc, inbox, results, heard>>

Stops(s) ==
  /\ s \in up
  /\ up' = up \ {s}
  /\ UNCHANGED <<taken, pc, inbox, results, heard>>

(* broadcast_hello *)
Hello(s) == <<"DLR", s, IF s \in Locked THEN "1" ELSE "0", PortOf[s]>>

(* A datagram gets to the socket that is bound at the time, or is lost. *)
Announces(s) ==
  /\ s \in up
  /\ pc = "listens" /\ Len(inbox) < MaxInbox
  /\ inbox' = Append(inbox, [from |-> HostOf[s], msg |-> Hello(s)])
  /\ UNCHANGED <<up, taken, pc, results, heard>>

OthersScan ==
  /\ pc \notin {"binds", "listens"}
  /\ taken' = ~taken
  /\ UNCHANGED <<up, pc, inbox, results, heard>>

-----------------------------------------------------------------------------
(* discover_servers *)

Scans ==
  /\ pc \in {"off", "done"}
  /\ pc' = "binds"
  /\ results' = {}
  /\ heard' = {}
  /\ UNCHANGED <<up, taken, inbox>>

(* The request comes back to the socket it was sent from; a second scan    *)
(* cannot bind the port, and finds nothing, not even on its own machine.   *)
Binds ==
  /\ pc = "binds"
  /\ IF taken
       THEN pc' = "done" /\ UNCHANGED inbox
       ELSE /\ pc' = "listens"
            /\ inbox' = <<[from |-> Here, msg |-> <<"DLR_DISCOVER">>]>>
  /\ UNCHANGED <<up, taken, results, heard>>

(* The parser looks for a third bar after the prefix, behind the port. *)
Parsed(d) ==
  IF Head(d.msg) = "DLR" /\ Len(d.msg) > 4
    THEN {[name |-> d.msg[2], needs |-> d.msg[3] = "1", port |-> d.msg[4],
           host |-> d.from]}
    ELSE {}

Receives ==
  /\ pc = "listens" /\ inbox # <<>>
  /\ LET d == Head(inbox) IN
     /\ results' = results \cup Parsed(d)
     /\ heard' = IF Head(d.msg) = "DLR" THEN heard \cup {d.msg[2]} ELSE heard
  /\ inbox' = Tail(inbox)
  /\ UNCHANGED <<up, taken, pc>>

(* The deadline, or nothing came until then. *)
StopsListening ==
  /\ pc = "listens"
  /\ pc' = "probes"
  /\ inbox' = <<>>
  /\ UNCHANGED <<up, taken, results, heard>>

(* probe_server: the greeting of a server on the default port. *)
Probed(a) ==
  {[name |-> s, needs |-> s \in Locked, port |-> DefaultPort, host |-> a] :
     s \in {s \in up : HostOf[s] = Here /\ PortOf[s] = DefaultPort /\ a \in Reachable}}

Probes ==
  /\ pc = "probes"
  /\ results' = results \cup
       UNION {Probed(a) : a \in {a \in ToSet(Loopback) : \A r \in results : r.host # a}}
  /\ pc' = "done"
  /\ UNCHANGED <<up, taken, inbox, heard>>

Next ==
  \/ \E s \in Servers : Starts(s) \/ Stops(s) \/ Announces(s)
  \/ OthersScan \/ Scans \/ Binds \/ Receives \/ StopsListening \/ Probes

Spec == Init /\ [][Next]_vars

-----------------------------------------------------------------------------
(* README.md:13, "LAN auto-discovery via UDP broadcast (no manual server   *)
(* config needed)", and network.cpp:203 with the format of the hello: a    *)
(* scan that received the hello of a server has found the server.          *)
HelloIsFound ==
  pc = "done" => \A s \in heard : \E r \in results : r.name = s

=============================================================================
