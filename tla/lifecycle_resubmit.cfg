SPECIFICATION LifecycleSafety
CONSTANTS
  Area = {r1}
  Field = {t1}
  Office = {o1}
  FromJobber = TRUE
  PhotoWillDo = TRUE
  MaxReopens = 1
  MaxFaults = 0
PROPERTY SubmissionTaken
CHECK_DEADLOCK FALSE
