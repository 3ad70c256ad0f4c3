\* Two commands of any kind, and two edits, under fair scheduling.
CONSTANTS
  p1 = p1
  p2 = p2
  home = home
  other = other
  custom = custom
  Default = Default
  NoConfig = NoConfig
  NoPath = NoPath
  Processes <- MCProcesses
  Paths <- MCPaths
  config_arg <- MCConfigArg
  config_dir <- NoPath
  current_dir <- MCCurrentDir
  Configs <- MCConfigs
  RequireUserId <- MCRequire
  user_id_bound = FALSE
  MaxEdits = 2
SPECIFICATION FairSpec
\* Every command may have ended.
CHECK_DEADLOCK FALSE
INVARIANTS
  TornOnlyWhileWritten
  LoadedWasOnDisk
  ConfigInv
PROPERTIES
  TornStaysTorn
  EveryCommandEnds
