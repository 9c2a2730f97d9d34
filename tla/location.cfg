SPECIFICATION LocationSpec
CONSTANTS
  MaxFixes = 3
  MaxQueue = 2
  MaxBatch = 2
  Bad = {2}
  MaxSends = 2
  MaxFaults = 1
INVARIANTS LocationTypeOK OneYoungSend
PROPERTIES Delivered SentUnlessRenewalHangs
