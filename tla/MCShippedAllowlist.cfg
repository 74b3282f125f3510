CONSTANTS
  p1 = p1
  p2 = p2
  Problems <- MCProblems
  Briefs <- MCBriefs
  MaxRetries = 1
  Allowlists = {{"execute_dql", "list_problems"}}
  MaxChanges = 1
  MaxRequests = 2
  MaxStops = 1
  Wirings <- MCProductionWirings
SPECIFICATION DeliverySpec
INVARIANT FaultFreeRequestsAreAnswered
CHECK_DEADLOCK FALSE
