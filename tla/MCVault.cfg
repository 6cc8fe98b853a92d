SPECIFICATION Spec
CONSTANTS
  human = human
  machine = machine
  other = other
  makeH = makeH
  makeM = makeM
  edit = edit
  show = show
  exec = exec
  share = share
  ls = ls
  drop = drop
  Secret = {human, machine}
  Machine = {machine}
  Owner = Owner
  Subject = {Owner, other}
  Nonce = {makeH, makeM, edit, show, exec, share, ls, drop}
  SecretOf <- MCSecretOf
  SubjectOf <- MCSubjectOf
  ActionOf <- MCActionOf
  StepUp = {makeH, makeM, edit, show, share, drop}
  Pass = {p1, p2}
  Operator = {o1, o2}
  Absent = Absent
  MaxKeys = 2
  MaxSalts = 2
  MaxVersion = 2
  MaxRequests = 3
  MaxRuns = 2
  MaxCrashes = 1
SYMMETRY Symmetry
INVARIANTS
  TypeOK
  PassphraseOpens
  Decryptable
  GrantOnce
CHECK_DEADLOCK FALSE
