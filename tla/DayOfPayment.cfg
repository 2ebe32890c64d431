SPECIFICATION Spec
CONSTANTS
  Templates <- MCTemplates
  Delay <- Day0Delay
  Priority <- Day0Priority
  Payments <- MCPayments
  DayMinutes = 1440
  DndStart = 1380
  DndEnd = 420
  Lead = 30
  MinGap = 20
  Tasks = {k1, k2}
SYMMETRY Symmetry
INVARIANT TypeOK
INVARIANT GapKept
INVARIANT NightFree
INVARIANT ImportanceDecides
INVARIANT ScheduleIsWhole
CHECK_DEADLOCK FALSE
