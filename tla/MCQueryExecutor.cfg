SPECIFICATION FairSpec
CONSTANTS
  h1 = h1
  h2 = h2
  h3 = h3
  None = None
  Hosts <- MCHosts
  Tier <- MCTier
  Replicas <- MCReplicas
  Flaky = {h1}
  MaxTier = 1
  NumRetries = 1
  MaxSpec = 1
  Shift = 1
  MaxFlaps <- MCMaxFlaps
CHECK_DEADLOCK FALSE
INVARIANTS AttemptsBound HostsInTurn
PROPERTIES RunsEnd

