SPECIFICATION FairSpec
CONSTANTS
  Users = {u1}
  Demo = {u1}
  MaxSeeds = 1
  Workers = {w1, w2}
  Short = 1
  Long = 2
  Churned = 3
INVARIANT TypeOK
INVARIANT DormancyMatchesInactivity
INVARIANT OpenWorkIsCurrentOrStale
PROPERTY ImplementsLifecycle
PROPERTY InactiveUsersSettle
