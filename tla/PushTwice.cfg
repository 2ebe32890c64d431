SPECIFICATION Spec
CONSTANTS
  Notifications = {n1}
  Runs = {r1, r2}
  Limit = 1
  MaxAttempts = 1
  DayHours = 4
  DndStartHour = 3
  DndEndHour = 1
  Start = 2
  End = 2
PROPERTY OnlyPendingPushed
CHECK_DEADLOCK FALSE
