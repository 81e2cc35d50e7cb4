SPECIFICATION FairSpec
CONSTANTS
  Threads = {t1, t2}
  Boards <- MCBoards
INVARIANTS
  TypeOK
  PassMeansBusWorks
  LoneRunIsRight
  LinksReadyWhenIdle
PROPERTIES
  KeepsThreadPromise
