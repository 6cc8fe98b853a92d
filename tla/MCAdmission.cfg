SPECIFICATION Spec
CONSTANTS
  Group = {g1, g2}
  GroupRef = {s1}
  PrivateRef = {p1, p2}
  Admin = Admin
  ActivationCode = {a1}
  LinkCode = {l1}
  Handler = {h1, h2}
  None = None
  AttemptLimit = 1
  Fresh = FALSE
  MaxEvents = 3
  MaxCommands = 1
SYMMETRY Symmetry
INVARIANTS
  TypeOK
  AnsweredAsBound
  WorkspaceStays
CHECK_DEADLOCK FALSE
