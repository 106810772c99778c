\* The stream is given up and the poll loop completes the run.
CONSTANTS
  MaxEnvelopes = 1
  MaxCrashes = 0
  MaxRetries = 1
  ResumeEnabled = TRUE
  EmitFaults = FALSE
SPECIFICATION Spec
INVARIANT MissingIsVisible
CHECK_DEADLOCK FALSE
