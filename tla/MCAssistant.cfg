SPECIFICATION Spec
CONSTANTS
  Chat = {c1}
  Handler = {h1, h2}
  Kind = {"reminder", "anniversary"}
  Life = 1
  MaxParts = 2
  MaxTime = 1
  MaxPlans = 2
  MaxDays = 2
SYMMETRY Symmetry
INVARIANTS
  TypeOK
  OneFate
CHECK_DEADLOCK FALSE
