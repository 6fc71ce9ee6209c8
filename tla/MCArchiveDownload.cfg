CONSTANTS
  Proc = {p1, p2}
  Urls = 2
  Checked = TRUE
  MaxCalls = 2
  MaxCrashes = 1
  MaxCleans = 1
SPECIFICATION FairSpec
INVARIANTS
  ArchiveVerified
  DownloadedOnce
PROPERTIES
  CallsEnd
CHECK_DEADLOCK FALSE
