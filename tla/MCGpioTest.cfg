SPECIFICATION FairSpec
CONSTANTS
  Threads = {t1, t2}
  Boards <- MCBoards
INVARIANTS
  TypeOK
  LoneRunIsRight
  HighPinIsUnderTest
PROPERTIES
  KeepsThreadPromise
