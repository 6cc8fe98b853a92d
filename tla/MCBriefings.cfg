SPECIFICATION BriefingFairSpec
CONSTANTS
  utc = utc
  east = east
  r1 = r1
  Briefing = {1, 2}
  Zone = {utc, east}
  Offset <- MCOffset
  DayLength = 2
  Anchor <- MCAnchor
  Rule = {r1}
  RuleAt <- MCRuleAt
  Never = Never
  Initial = {1}
  Absent = Absent
  Deleted = Deleted
  MaxTime = 2
  MaxCommands = 2
  MaxCrashes = 1
INVARIANTS
  BriefingTypeOK
  MarkedIsQueued
PROPERTIES
  EventuallyAnnounced
