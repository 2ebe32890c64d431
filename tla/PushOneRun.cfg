SPECIFICATION FairHistorySpec
CONSTANTS
  Notifications = {n1, n2, n3}
  Runs = {r1}
  Limit = 2
  MaxAttempts = 2
  DayHours = 4
  DndStartHour = 3
  DndEndHour = 1
  Start = 2
  End = 5
INVARIANT PushesAreRecorded
PROPERTY ImplementsNotificationRecord
PROPERTY OnlyPendingPushed
PROPERTY DueIsSettled
CHECK_DEADLOCK FALSE
