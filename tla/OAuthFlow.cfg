SPECIFICATION Spec
CONSTANTS
  f1 = f1
  f2 = f2
  c1 = c1
  c2 = c2
  None = None
  Flows <- MCFlows
  Calls <- MCCalls
  TTL = 1
  MaxGrants = 3
INVARIANTS
  TypeOK
  StillRefreshable
PROPERTIES
  FlowsAreOneTimeTickets
