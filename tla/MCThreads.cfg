SPECIFICATION MCSpec
CONSTANTS
  Producers = {"p"}
  Consumers = {"c1", "c2"}
  MaxObjects = 5
  MaxItems = 2
  Lives = 2
  Callers = {"t", "u"}
  Controls = {"a", "b"}
  Flags = {"f", "g"}
  Nests <- MCNests
  MaxFlags = 1
INVARIANTS
  OneLock
  InitialisedOnce
PROPERTIES
  EverybodyGetsThrough
  NobodyParkedForEver
CHECK_DEADLOCK FALSE
