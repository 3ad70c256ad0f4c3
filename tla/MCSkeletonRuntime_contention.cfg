\* Four calls that contend for slots, and three ids: the counter saturates.
CONSTANTS
  c1 = c1
  c2 = c2
  c3 = c3
  c4 = c4
  qwen = qwen
  gemma = gemma
  ghost = ghost
  alice = alice
  blank = blank
  MaxU16 = 3
  MaxU64 = 3
  Calls <- MCCalls4
  ModelIds <- MCModelIds
  Consumers <- MCConsumers
  Blank = blank
  ModelConfigs <- MCTwoModelConfigs
  Requests <- MCContendingRequests
SPECIFICATION Spec
SYMMETRY CallSymmetry
INVARIANTS
  CapacityRespected
  FoldIsExact
  RuntimeInv
PROPERTIES
  ReleasedIdsStayReleased
