\* The scan loop, two workers, the breaker and three console commands.
SPECIFICATION FairSpec
CONSTANTS
  Files = {f1, f2}
  Workers = {w1, w2}
  Threshold = 2
  MaxCommands = 3
  MaxFails = 6
  None = None
INVARIANTS
  OutageIsBounded
PROPERTIES
  RunningDelivers
  TriggersAreServed
