\* Overlapping requests for a sound task, or requests one after the other for three
\* tasks, of which one clashes with an event's parameters and one cannot be read;
\* two workers, one restart that resumes.
SPECIFICATION MCFairSpec
CONSTANTS
  t1 = t1
  t2 = t2
  t3 = t3
  c1 = c1
  c2 = c2
  w1 = w1
  w2 = w2
  Tasks = {t1, t2, t3}
  Clients = {c1, c2}
  Workers = {w1, w2}
  Clashing = {t2}
  Mistyped = {t3}
  Boot = Boot
  Nobody = Nobody
  Ill = {TRUE, FALSE}
  First = c1
  ResumeAtStart = TRUE
  MaxCalls = 3
  MaxCrashes = 1
  MaxLocked = 1
INVARIANTS TasksInv ActiveIsRun
PROPERTY StopHonoured
CHECK_DEADLOCK FALSE
