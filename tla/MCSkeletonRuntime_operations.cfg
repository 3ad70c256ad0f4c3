\* Every operation and every early return, three calls at a time, fairly scheduled.
CONSTANTS
  c1 = c1
  c2 = c2
  c3 = c3
  c4 = c4
  qwen = qwen
  gemma = gemma
  ghost = ghost
  alice = alice
  blank = blank
  MaxU16 = 3
  MaxU64 = 4
  Calls <- MCCalls3
  ModelIds <- MCModelIds
  Consumers <- MCConsumers
  Blank = blank
  ModelConfigs <- MCModelConfigs
  Requests <- MCAllRequests
SPECIFICATION FairSpec
INVARIANTS
  TypeOK
  LedgerMatchesReplies
  EachIdOnce
PROPERTIES
  RefusedOnlyWhenFull
  ImplementsRuntimeAdapter
  EveryCallAnswered
