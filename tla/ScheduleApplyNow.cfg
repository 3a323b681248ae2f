\* The rule deleted while an apply-now request is between record and write.
SPECIFICATION FairSpec
CONSTANTS
  RuleIds = {1}
  Slots = {"a"}
  Whens <- MCWhens
  MaxTime = 4
  Tolerance = 2
  MaxBack = 0
  Outcomes = {"ok"}
  Ops = {"save", "delete", "apply_now"}
  MaxOps = 3
PROPERTIES
  WindowEnds
