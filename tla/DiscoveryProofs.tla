-------------------------- MODULE DiscoveryProofs --------------------------
(***************************************************************************)
(* What a scan can find, for any servers on any machines: the hello of a   *)
(* server never leads to it, only the probe of the loopback addresses.     *)
(***************************************************************************)
EXTENDS Discovery, TLAPS

(* What may arrive: the hello of a server, and the request of the scan.    *)
Request == [from |-> Here, msg |-> <<"DLR_DISCOVER">>]
Hellos == {[from |-> HostOf[s], msg |-> Hello(s)] : s \in Servers}

(* What a probe may find: a server on this machine, on the default port.   *)
Near == {s \in Servers : HostOf[s] = Here /\ PortOf[s] = DefaultPort}
Findings == [name : Near, needs : BOOLEAN, port : {DefaultPort},
             host : ToSet(Loopback) \cap Reachable]

DiscoveryInv ==
  /\ up \subseteq Servers /\ heard \subseteq Servers /\ taken \in BOOLEAN
  /\ pc \in {"off", "binds", "listens", "probes", "done"}
  /\ inbox \in Seq(Hellos \cup {Request})
  /\ pc # "listens" => inbox = <<>>
  /\ results \subseteq Findings
  /\ pc \in {"binds", "listens", "probes"} => results = {}

(* The parser asks for a bar more than a hello has. *)
LEMMA NothingParsed == ASSUME NEW d \in Hellos \cup {Request} PROVE Parsed(d) = {}
<1>1. CASE d = Request
  <2>1. d.msg = <<"DLR_DISCOVER">>
    BY <1>1 DEF Request
  <2>2. Head(d.msg) = "DLR_DISCOVER"
    BY <2>1
  <2> QED BY <2>2 DEF Parsed
<1>2. CASE d \in Hellos
  <2>1. PICK s \in Servers : d.msg = Hello(s)
    BY <1>2 DEF Hellos
  <2>2. Len(d.msg) = 4
    BY <2>1 DEF Hello
  <2> QED BY <2>2 DEF Parsed
<1> QED BY <1>1, <1>2

(* Whose hello it is. *)
LEMMA Heard ==
  ASSUME NEW d \in Hellos \cup {Request}, Head(d.msg) = "DLR" PROVE d.msg[2] \in Servers
<1>1. d # Request
  <2>1. Head(<<"DLR_DISCOVER">>) = "DLR_DISCOVER"
    OBVIOUS
  <2> QED BY <2>1 DEF Request
<1>2. PICK s \in Servers : d.msg = Hello(s)
  BY <1>1 DEF Hellos
<1> QED BY <1>2 DEF Hello

LEMMA NearProbed ==
  ASSUME up \subseteq Servers, NEW a \in ToSet(Loopback) PROVE Probed(a) \subseteq Findings
<1>1. ASSUME NEW r \in Probed(a) PROVE r \in Findings
  <2>1. PICK s \in up : /\ HostOf[s] = Here /\ PortOf[s] = DefaultPort /\ a \in Reachable
                        /\ r = [name |-> s, needs |-> s \in Locked, port |-> DefaultPort, host |-> a]
    BY <1>1 DEF Probed
  <2>2. s \in Near /\ (s \in Locked) \in BOOLEAN
    BY <2>1 DEF Near
  <2> QED BY <2>1, <2>2 DEF Findings
<1> QED BY <1>1

LEMMA InitDiscovery == Init => DiscoveryInv
<1>1. <<>> \in Seq(Hellos \cup {Request})
  OBVIOUS
<1> QED BY <1>1 DEF Init, DiscoveryInv

LEMMA StepDiscovery == DiscoveryInv /\ [Next]_vars => DiscoveryInv'
<1> SUFFICES ASSUME DiscoveryInv, [Next]_vars PROVE DiscoveryInv'
  OBVIOUS
<1>1. CASE UNCHANGED vars
  BY <1>1 DEF vars, DiscoveryInv
<1>2. ASSUME NEW s \in Servers, Starts(s) \/ Stops(s) PROVE DiscoveryInv'
  BY <1>2 DEF Starts, Stops, DiscoveryInv
<1>3. ASSUME NEW s \in Servers, Announces(s) PROVE DiscoveryInv'
  <2>1. [from |-> HostOf[s], msg |-> Hello(s)] \in Hellos
    BY DEF Hellos
  <2>2. inbox' \in Seq(Hellos \cup {Request})
    BY <1>3, <2>1 DEF Announces, DiscoveryInv
  <2> QED BY <1>3, <2>2 DEF Announces, DiscoveryInv
<1>4. CASE OthersScan \/ Scans \/ StopsListening
  <2>1. <<>> \in Seq(Hellos \cup {Request})
    OBVIOUS
  <2>2. taken' \in BOOLEAN
    BY <1>4 DEF OthersScan, Scans, StopsListening, DiscoveryInv
  <2> QED BY <1>4, <2>1, <2>2 DEF OthersScan, Scans, StopsListening, DiscoveryInv
<1>5. CASE Binds
  <2>1. <<Request>> \in Seq(Hellos \cup {Request})
    OBVIOUS
  <2> QED BY <1>5, <2>1 DEF Binds, Request, DiscoveryInv
<1>6. CASE Receives
  <2> DEFINE d == Head(inbox)
  <2>1. inbox # <<>> /\ inbox \in Seq(Hellos \cup {Request})
    BY <1>6 DEF Receives, DiscoveryInv
  <2>2. d \in Hellos \cup {Request} /\ Tail(inbox) \in Seq(Hellos \cup {Request})
    BY <2>1
  <2> HIDE DEF d
  <2>3. results' = results \cup Parsed(d)
        /\ heard' = (IF Head(d.msg) = "DLR" THEN heard \cup {d.msg[2]} ELSE heard)
    BY <1>6 DEF Receives, d
  <2>4. results' = results /\ heard' \subseteq Servers
    BY <2>2, <2>3, NothingParsed, Heard DEF DiscoveryInv
  <2> QED BY <1>6, <2>2, <2>4 DEF Receives, DiscoveryInv
<1>7. CASE Probes
  <2>1. results' \subseteq Findings
    BY <1>7, NearProbed DEF Probes, DiscoveryInv
  <2> QED BY <1>7, <2>1 DEF Probes, DiscoveryInv
<1> QED BY <1>1, <1>2, <1>3, <1>4, <1>5, <1>6, <1>7 DEF Next

THEOREM DiscoveryInvariant == Spec => []DiscoveryInv
BY InitDiscovery, StepDiscovery, PTL DEF Spec

(* What discover_servers returns, whatever was announced: servers on the   *)
(* machine itself that listen on the default port, at a loopback address.  *)
(* HelloIsFound can hold of these alone.                                   *)
THEOREM OnlyNearIsFound ==
  Spec => [](\A r \in results : /\ HostOf[r.name] = Here /\ PortOf[r.name] = DefaultPort
                                /\ r.host \in ToSet(Loopback) \cap Reachable)
<1>1. DiscoveryInv => \A r \in results :
        /\ HostOf[r.name] = Here /\ PortOf[r.name] = DefaultPort
        /\ r.host \in ToSet(Loopback) \cap Reachable
  BY DEF DiscoveryInv, Findings, Near
<1> QED BY <1>1, DiscoveryInvariant, PTL

=============================================================================
