\* The default of the start script: a restart restores tasks and does not resume them.
SPECIFICATION MCFairSpec
CONSTANTS
  t1 = t1
  c1 = c1
  c2 = c2
  w1 = w1
  w2 = w2
  Tasks = {t1}
  Clients = {c1, c2}
  Workers = {w1, w2}
  Clashing = {}
  Mistyped = {}
  Boot = Boot
  Nobody = Nobody
  Ill = {FALSE}
  First = c1
  ResumeAtStart = FALSE
  MaxCalls = 2
  MaxCrashes = 1
  MaxLocked = 0
INVARIANT ActiveIsRun
CHECK_DEADLOCK FALSE
