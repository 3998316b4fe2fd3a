\* Four threads contend for two units.
SPECIFICATION FairSemaphoreSpec
CONSTANTS
  Callers = {t1, t2, t3, t4}
  InitialCount = 2
INVARIANTS
  UnitsConserved
PROPERTIES
  SomebodyEnters
