\* Disconnects, failed and unacknowledged transactions, compaction, a bind that
\* fails or is overtaken, two crashes.
CONSTANTS
  MaxEnvelopes = 3
  MaxCrashes = 2
  MaxRetries = 1
  ResumeEnabled = TRUE
  EmitFaults = TRUE
SPECIFICATION FairSpec
INVARIANTS
  TypeOK
  StoredIsPrefix
  CursorCoversLog
  MarkerCoversLog
  NothingLost
PROPERTY RunEnds
CHECK_DEADLOCK FALSE
