SPECIFICATION FairSpec
CONSTANTS
  Delivery = {1}
  Account = {"qq"}
  AccountOf <- MCAccountOf
  w1 = w1
  w2 = w2
  t1 = t1
  t2 = t2
  t3 = t3
  t4 = t4
  Token = {t1, t2, t3, t4}
  NoToken = NoToken
  MaxAttempts = 2
  Backoff <- MCBackoff
  BackoffSteps = 2
  LeaseFor = 2
  Worker = {w1, w2}
  InProcess = {w1}
  Serves <- MCServes
  NoDelivery = NoDelivery
  Message = {1}
  Rule = {"provider", "conversation"}
  Limit <- MCLimit
  Length <- MCLength
  Scope = {0, 1}
  ScopeOf <- MCScopeOf
  MaxLate = 1
  MaxFaults = 3
  MaxReopens = 2
INVARIANTS
  TypeOK
  AtMostOnce
  SentWasAccepted
  DeadLettersMatch
  RetriesBounded
  WithinLimits
PROPERTIES
  SettledIsFinal
  KeepsContract
  EventuallySettled
