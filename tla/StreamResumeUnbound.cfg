\* A run that is streamed without its runtime_sessions row, and a crash.  With no
\* reconnects, a lost acknowledgement alone does not deliver an envelope again.
CONSTANTS
  MaxEnvelopes = 1
  MaxCrashes = 1
  MaxRetries = 0
  ResumeEnabled = TRUE
  EmitFaults = FALSE
SPECIFICATION Spec
INVARIANT NeverTwice
CHECK_DEADLOCK FALSE
