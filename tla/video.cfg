SPECIFICATION UploadSpec
CONSTANTS
  Ask = {a1}
  Chunks = 2
  MaxUploads = 3
  MaxRuns = 2
  MaxFaults = 2
INVARIANTS VideoTypeOK EvidenceKeptUncrossed
PROPERTIES ArrivalNoticedUnlessRestarted SettlesUnlessOvertaken NeverStuckSending
CHECK_DEADLOCK FALSE
