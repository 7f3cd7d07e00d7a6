SPECIFICATION Spec
CONSTANTS
  Methods = {"mutation"}
  MaxAttempts = 4
  MaxSends = 6
  MaxRedirects = 2
  MaxRounds = 2
  MaxElapsed = 6
  MaxBackoff = 2
  MaxRetryAfter = 3
  RetryAfters = {0, 4}
  SendTime = 1
  SlotTime = 2
  SeeOther = TRUE
INVARIANTS AppliedOnce
