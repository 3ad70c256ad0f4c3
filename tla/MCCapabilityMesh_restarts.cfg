\* Two daemons, each started up to twice, under fair scheduling and delivery.
CONSTANTS
  ann = ann
  ben = ben
  cat = cat
  dan = dan
  eve = eve
  friends = friends
  lab = lab
  Daemons <- MCPair
  join_network_on_start <- MCAlways
  announce_on_start <- MCAlways
  require_user_id <- MCNever
  user_id_bound <- MCNever
  mesh_name <- MCFriends
  accepts <- MCAcceptAll
  MaxLives = 2
SPECIFICATION FairSpec
\* Daemons need not be started again.
CHECK_DEADLOCK FALSE
INVARIANTS
  PairDiscovered
  MeshInv
PROPERTIES
  MissedUntilRestart
  NeighboursMeet
