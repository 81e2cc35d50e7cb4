SPECIFICATION FullSpec
CONSTANTS
  Threads = {t1, t2}
  Tests = {"emmc", "gpio"}
  PatientRows = {"gpio"}
  Strays <- MCStrays
  MaxEvents = 1
  Order <- MCOrder
  Pool = {p1}
VIEW View
SYMMETRY Symmetry
INVARIANTS
  SummaryCountsItsFields
  SummaryHoldsNoVerdict
  LateVerdictsSurvive
