SPECIFICATION FairSpec
CONSTANTS
  p1 = p1
  p2 = p2
  d1 = d1
  d2 = d2
  g1 = g1
  r1 = r1
  c1 = c1
  e1 = e1
  e2 = e2
  NoRule = NoRule
  Clean = Clean
  Unreadable = Unreadable
  Rule = {r1}
  Pkg = {p2}
  Device = {d1, d2}
  Group = {g1}
  Scope <- FaultScope
  Members <- MCMembers
  WatchList = {{}}
  Change = {c1}
  Evaluator = {e1}
  GroupReadFails = TRUE
  SaveMayFail = TRUE
  MaxCrashes = 1
  MaxFaults = 1
INVARIANTS
  SentWasDelivered
  EditsPreserved
PROPERTIES
  EventuallyTold
