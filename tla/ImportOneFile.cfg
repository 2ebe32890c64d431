SPECIFICATION FairSpec
CONSTANTS
  Tasks = {t1}
  Requests = {r1, r2}
  Files <- MCFiles
  Malformed <- MCMalformed
  ChaptersOf <- MCChaptersOf
  None = None
INVARIANT TypeOK
INVARIANT ReportsAgree
INVARIANT ActiveIsComplete
INVARIANT DemoIsOneSet
INVARIANT FirstTasksStored
PROPERTY AnalysisIsKept
PROPERTY ImplementsStoredJourney
PROPERTY EveryTaskEnds
