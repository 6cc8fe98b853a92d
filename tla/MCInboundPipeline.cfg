SPECIFICATION FairSpec
CONSTANTS
  a = a
  c = c
  h1 = h1
  h2 = h2
  Event = {a, c}
  CodeRequest = {c}
  Ignored = Ignored
  Content = {a, c, Ignored}
  Last = 3
  EventOf <- MCThree
  MaxSessions = 4
  Handler = {h1, h2}
  NoEvent = NoEvent
  NoHandler = NoHandler
  MaxFaults = 3
INVARIANTS
  TypeOK
  ExecutedOnce
  AckedWasReceived
PROPERTIES
  KeepsContract
  EventuallyReceived
CHECK_DEADLOCK FALSE
