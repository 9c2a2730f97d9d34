SPECIFICATION LifecycleSpec
CONSTANTS
  Area = {r1}
  Field = {t1}
  Office = {o1}
  FromJobber = TRUE
  PhotoWillDo = TRUE
  MaxReopens = 1
  MaxFaults = 1
INVARIANTS LifecycleTypeOK WalkedMeansDone OwedOnlyWhenDone
PROPERTIES LegalMoves JobberHears ReviewReached
CHECK_DEADLOCK FALSE
