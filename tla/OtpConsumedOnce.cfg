CONSTANTS
  Verifiers = {v1, v2}
  Creators = {c1}
  MaxAttempts = 3
  MaxChallenges = 1
  CounterBound = 5
SPECIFICATION Spec
INVARIANTS ConsumedOnce
CHECK_DEADLOCK FALSE
