SPECIFICATION Spec
CONSTANTS
  MaxAttempts = 3
  MaxToolCalls = 2
  Roles = {"procurement", "production", "finance"}
  MaxRound = 3
  MaxPlays = 2
INVARIANTS
  TypeOK
  CallsExplainSubmission
  SubmissionsAccepted
  FallbackRepeatsLastRound
