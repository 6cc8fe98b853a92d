SPECIFICATION FairSpec
CONSTANTS
  own = own
  lead = lead
  c1 = c1
  Own = {own}
  Lead = {lead}
  StartOf <- MCStartOf
  AheadOf <- MCAheadOf
  Skip = {own}
  Grace = 0
  Horizon = 2
  Caller = {c1}
  MaxTime = 2
  MaxRestarts = 1
INVARIANTS
  TypeOK
  OneDeliveryPerFiring
  VersionTellsChange
PROPERTIES
  CancelledIsFinal
  KeepsContract
  EventuallyHandled
