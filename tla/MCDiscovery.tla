---------------------------- MODULE MCDiscovery ----------------------------
(* A small LAN for TLC: a server on the machine that scans, one elsewhere. *)
EXTENDS Discovery, TLC

CONSTANTS near, far

TwoServers == {near, far}
Loopbacks == <<"127.0.0.1", "::1">>
HostsOf == [s \in {near, far} |-> IF s = near THEN "here" ELSE "there"]
Ports == [s \in {near, far} |-> "4242"]

=============================================================================
