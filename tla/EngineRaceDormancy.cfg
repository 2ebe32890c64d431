SPECIFICATION Spec
CONSTANTS
  Users = {u1}
  Demo = {u1}
  MaxSeeds = 0
  Workers = {w1}
  Short = 1
  Long = 2
  Churned = 3
INVARIANT DormantUsersAreInactive
