SPECIFICATION FairSpec
CONSTANTS
  Threads = {t1, t2}
  Boards <- MCBoards
INVARIANTS
  TypeOK
  PassWasMeasured
  LoneRunIsRight
  EverythingPutBack
PROPERTIES
  KeepsThreadPromise
