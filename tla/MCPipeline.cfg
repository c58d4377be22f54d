SPECIFICATION Spec
CONSTANTS
  Models = {"key", "big", "small", "plan"}
  OnKey = {"key"}
  Native = {"key", "plan"}
  Subscribed = {"plan"}
  Filters = {"redact", "gate", "trial"}
  Shadow = {"trial"}
  Rewriters = {"redact", "trial"}
  KeyFilters <- RedactThenGate
  KeyPrompt = FALSE
  Steps <- FourRouters
  Starts <- FourStarts
  NoStep = "none"
  NoModel = "nomodel"
  KeyScope = "keyscope"
  QuotaScope = "quota"
  HooksBilled = FALSE
  MaxReloads = 1
INVARIANTS
  EndsClean
  EveryStepPassed
  KeyCallsPaid
