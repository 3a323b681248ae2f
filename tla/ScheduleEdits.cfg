\* Two rules on one setting, edited, paused, restored and applied by hand, the
\* clock set back, the EMS stopped at any step.
SPECIFICATION MCSpec
CONSTANTS
  RuleIds = {1, 2}
  Slots = {"a"}
  Whens <- MCWhens
  MaxTime = 4
  Tolerance = 2
  MaxBack = 2
  Outcomes = {"ok", "failed", "refused"}
  Ops = {"save", "delete", "pause", "clock", "restore", "apply_now", "crash"}
  MaxOps = 3
INVARIANTS
  NothingMissed
PROPERTIES
  PauseIsSilent FiresOnce
