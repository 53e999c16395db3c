SPECIFICATION Spec
CONSTANTS
  h1 = h1  h2 = h2  h3 = h3  h4 = h4
  Nil = Nil
  Hosts <- MCHosts
  DCs = {1, 2}
  DataCenter <- MCDataCenter
  Rack <- MCRack
  Keyspaces = {"k1"}
  Definitions <- MCDefinitions
  Objects = {"o1"}
  RoutingTokens = {1, 2, 3, 4, 5, 6}
  Layouts <- MCLayouts
  Schemas <- MCSchemas
  StartHosts <- MCStartHosts
  Movers = {h3, h4}
  MaxHostChanges = 1
  MaxChanges = 2
  MaxFaults = 1
INVARIANTS
  RoutesRight
  SchemaFollowed
CHECK_DEADLOCK FALSE
