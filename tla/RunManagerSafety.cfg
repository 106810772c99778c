\* Two callers race all the operations, with throws and crashes.
CONSTANTS
  c1 = c1
  c2 = c2
  Callers <- MCCallers
  Reports = {"RESOLVED"}
  Faults = TRUE
SPECIFICATION Spec
SYMMETRY CallerSymmetry
INVARIANTS
  TypeOK
  OutcomeAgrees
  WebhookOutcomeAgrees
  PendingDeleteIsTerminal
PROPERTY Refines
