SPECIFICATION Spec
CONSTANTS
  s1 = s1
  s2 = s2
  web1 = web1
  web2 = web2
  collector = collector
  host1 = host1
  host2 = host2
  a1 = a1
  a2 = a2
  w1 = w1
  w2 = w2
  j1 = j1
  j2 = j2
  Free = Free
  NoJob = NoJob
  NoTrigger = NoTrigger
  Torn = Torn
  Proc = {collector}
  Host = {host1}
  HostOf <- InlineHostOf
  SchedulerProc = {collector}
  Admin = {a1}
  Worker = {w1, w2}
  ProcOf <- InlineProcOf
  Job = {j1, j2}
  Schedule = {s1}
  InPlace = FALSE
  MaxRuns = 2
  MaxCrashes = 1
  MaxEdits = 2
INVARIANTS
  OkRecordMeansMailed
  TriggersFollowFile
PROPERTIES
  NothingLost
SYMMETRY ThreadJobSymmetry
