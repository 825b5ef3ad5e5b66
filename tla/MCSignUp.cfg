CONSTANTS
  Verifiers = {q1, q2}
  Creators = {q1, q2}
  MaxAttempts = 3
  MaxChallenges = 2
  CounterBound = 5
  Requests = {q1, q2}
  States = {t1, t2}
  Providers = {google}
  MaxSubjects = 3
  None = None
  Roles = {seller}
  Lifetime = 3
  Buffer = 1
  MaxTime = 6
SPECIFICATION SignUpSpec
SYMMETRY Symmetry
INVARIANTS
  SignUpTypeOK
  ComparisonsBounded
  AcceptedIsGone
  ChallengeExpires
  OneCallbackPerState
  OrphanOnlyByFault
  DanglingOnlyByOverlap
  BufferCoversDelay
  NoRoleMissing
CHECK_DEADLOCK FALSE
