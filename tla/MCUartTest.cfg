SPECIFICATION FairSpec
CONSTANTS
  t1 = t1
  t2 = t2
  Threads <- MCThreads
  Pairs = {"uart78", "uart39"}
  Boards <- MCBoards
  Jobs <- MCJobs
  Loose <- MCLoose
  MaxLine = 3
INVARIANTS
  PassMeansWired
  SoloNeverAborts
  SoloPassesGoodPair
PROPERTIES
  SoloEnds
CHECK_DEADLOCK FALSE
