SPECIFICATION FairHSpec
CONSTANTS
  MaxOperations = 2
  Retained = 0
  Submitters = {"s1"}
  Passing = {"rolling_back"}
  Outcomes = {"succeeded", "failed_recoverable"}
  MaxStops = 1
  MaxFills = 1
INVARIANTS
  OneAtWork
PROPERTIES
  OneSlot
  NotRunAgain
  
  SlotIsFreed
