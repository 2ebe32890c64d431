SPECIFICATION Spec
CONSTANTS
  Notifications = {n1, n2, n3}
  Runs = {r1, r2}
  Limit = 2
  MaxAttempts = 2
  DayHours = 4
  DndStartHour = 3
  DndEndHour = 1
  Start = 2
  End = 5
SYMMETRY Symmetry
INVARIANT TypeOK
INVARIANT PushedOnlyWhenAllowed
PROPERTY ImplementsNotificationRecord
PROPERTY SettledStaysSettled
CHECK_DEADLOCK FALSE
