SPECIFICATION FairSpec
CONSTANTS
  Threads = {t1, t2}
  Programs = {doom, load_cpu}
  Parts <- MCParts
  Hosts <- MCHosts
INVARIANTS
  QuietLifeIsClean
  NoProgramSurvives
PROPERTIES
  ClosingEnds
CHECK_DEADLOCK FALSE
