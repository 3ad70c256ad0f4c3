\* Five daemons, each with a setting that keeps it out, and one without.
CONSTANTS
  ann = ann
  ben = ben
  cat = cat
  dan = dan
  eve = eve
  friends = friends
  lab = lab
  Daemons <- MCMixed
  join_network_on_start <- MCMixedJoin
  announce_on_start <- MCMixedAnnounce
  require_user_id <- MCMixedRequire
  user_id_bound <- MCNever
  mesh_name <- MCMixedMeshes
  accepts <- MCAcceptAll
  MaxLives = 1
SPECIFICATION Spec
\* Daemons need not be started again.
CHECK_DEADLOCK FALSE
INVARIANTS
  OnlyMembersAreListed
