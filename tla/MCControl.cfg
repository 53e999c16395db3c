SPECIFICATION ControlSpec
CONSTANTS
  Conns = {c1, c2, c3}
  Starter = Starter
  HeartBeat = HeartBeat
  None = None
  Hosts <- MCHosts
  Clients <- MCClients
  MaxRounds = 2
CHECK_DEADLOCK FALSE
INVARIANTS OneControlConn HandshakeInStep HighestVersion
PROPERTIES ControlHeals DiscoveryEnds
