SPECIFICATION Spec
CONSTANTS
  User = {owner}
  Password = {p1}
  Handler = {h1, h2}
  MaxAttempts = 2
  Window = 2
  Lockout = 1
  SessionLife = 2
  ChallengeLife = 1
  StepUpLife = 1
  None = None
  MaxTime = 2
  MaxRows = 4
SYMMETRY Symmetry
INVARIANTS
  TypeOK
  LockedWasEarned
  StepUpEarned
CHECK_DEADLOCK FALSE
