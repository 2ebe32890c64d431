SPECIFICATION FairSpec
CONSTANTS
  Users = {u1}
  Count = 2
  MaxReconnects = 1
  MaxEntries = 2
  MaxTotal = 3
INVARIANT TypeOK
INVARIANT AppliedInOrder
INVARIANT CommittedMovesAnnounced
PROPERTY ImplementsOrderedDelivery
PROPERTY EveryEntrySettled
