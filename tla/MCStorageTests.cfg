SPECIFICATION FairSpec
CONSTANTS
  Threads = {t1, t2}
  Boards <- MCBoards
  PatientEmmc = TRUE
  MaxMounts = 2
INVARIANTS
  TypeOK
  SoloVerdictIsRight
  SuccessWasMeasured
  SpeedFileTidy
  StickIsUnmounted
  NoReformat
PROPERTIES
  KeepsThreadPromise
