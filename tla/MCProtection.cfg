SPECIFICATION Spec
CONSTANTS
  t1 = t1
  t2 = t2
  Endpoints <- MCEndpoints
  Identities <- MCIdentities
  Connections <- MCConnections
  Identity <- MCIdentity
  Connection <- MCConnection
  Policies <- MCPolicies
  Source <- MCSource
  Destination <- MCDestination
  Rules <- MCRules
  Response <- MCResponse
  Availability <- MCAvailability
  Plans <- MCPlans
  Target <- MCTarget
  Grants <- MCGrants
  Txs = {t1, t2}
  Rank <- MCRank
  NoTx = NoTx
INVARIANTS NoCopy OneController ReadersKeepRole NoDeadlock
SYMMETRY Symmetry
