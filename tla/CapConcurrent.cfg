SPECIFICATION SlotSpec
CONSTANTS
  u1 = u1
  j1 = j1
  j2 = j2
  j3 = j3
  Users <- MCUsers
  Journeys <- MCJourneys
  Owner <- MCOwner
  Sessions = {s1, s2}
  MaxPerDay = 2
  NotSet = NotSet
  MaxChanges = 1
SYMMETRY Symmetry
INVARIANT SlotTypeOK
INVARIANT ExcessBounded
INVARIANT ModeOfItsTime
PROPERTY ClearedWithinACap
PROPERTY StoredWhole
