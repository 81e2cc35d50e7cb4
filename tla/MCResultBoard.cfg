SPECIFICATION FairSpec
CONSTANTS
  Threads = {t1, t2}
  Tests = {"gpio", "uart78", "emmc"}
  PatientRows = {"gpio"}
  Strays <- MCStrays
  MaxEvents = 1
INVARIANTS
  TypeOK
  SettledRowShowsLastVerdict
  ProgressIsJustified
PROPERTIES
  EveryRunIsAnswered
  RowsKeepPromise
