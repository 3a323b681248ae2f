\* Windows under every edit, without a stop of the EMS.
SPECIFICATION EditsSpec
CONSTANTS
  RuleIds = {1}
  Slots = {"a"}
  Whens <- MCWhens
  MaxTime = 4
  Tolerance = 2
  MaxBack = 4
  Outcomes = {"ok", "busy", "failed"}
  Ops = {"save", "delete", "skip", "pause", "restore", "remove", "spoil", "clock", "manual"}
  MaxOps = 3
PROPERTIES
  WindowEnds
