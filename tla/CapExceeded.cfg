SPECIFICATION Spec
CONSTANTS
  u1 = u1
  u2 = u2
  j1 = j1
  j2 = j2
  j3 = j3
  Users <- MCUsers
  Journeys <- MCJourneys
  Owner <- MCOwner
  Sessions = {s1, s2}
  MaxPerDay = 1
SYMMETRY Symmetry
INVARIANT CapHolds
