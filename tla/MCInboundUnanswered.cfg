SPECIFICATION Spec
CONSTANTS
  a = a
  c = c
  h1 = h1
  h2 = h2
  Event = {a, c}
  CodeRequest = {c}
  Ignored = Ignored
  Content = {a, c, Ignored}
  Last = 2
  EventOf <- MCShort
  MaxSessions = 1
  Handler = {h1, h2}
  NoEvent = NoEvent
  NoHandler = NoHandler
  MaxFaults = 1
INVARIANTS
  AckedWasAnswered
CHECK_DEADLOCK FALSE
