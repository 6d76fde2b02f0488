SPECIFICATION Spec
CONSTANTS
  Callers = {c1}
  Run = run
  None = None
  Life = 12
  Lives = {5, 12}
  Retry = 2
  Delay = 1
  Skew = 1
  MaxTime = 20
INVARIANTS TypeOK GapNeedsFailures
PROPERTIES NeverOlder Spaced
