SPECIFICATION Spec
CONSTANTS
  near = near
  far = far
  Servers <- TwoServers
  Here = "here"
  Loopback <- Loopbacks
  HostOf <- HostsOf
  PortOf <- Ports
  Locked = {}
  DefaultPort = "4242"
  Reachable = {"127.0.0.1"}
  MaxInbox = 3
INVARIANTS HelloIsFound
