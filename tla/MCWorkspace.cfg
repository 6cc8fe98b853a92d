SPECIFICATION Spec
CONSTANTS
  g = g
  m = m
  u = u
  a1 = a1
  t1 = t1
  n1 = n1
  n2 = n2
  d1 = d1
  d2 = d2
  r1 = r1
  c1 = c1
  c2 = c2
  User = {g, m, u}
  AgendaId = {a1}
  TaskId = {t1}
  NoteId = {n1, n2}
  DayId = {d1, d2}
  RuleId = {r1}
  Day = {1}
  Category <- MCCategory
  BlockName = {"default", "x"}
  Token <- MCToken
  Limit = 1
  Absent = Absent
  Context <- MCContext
  SharedOwner = g
  NoUser = NoUser
  Seeded = {a1, t1, n1, d1}
  Caller = {c1, c2}
  MaxEdits = 3
SYMMETRY MCSymmetry
INVARIANTS
  TypeOK
  SearchFindsNotes
  NothingDangling
PROPERTIES
  AcknowledgedStands
  TransitionsLegal
CHECK_DEADLOCK FALSE
