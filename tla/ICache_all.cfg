CONSTANTS
  Configs <- MCConfigs
  Fetches <- MCFetches
  Words = 2
  Oldest = 40
  MaxReqs = 5
  MaxWait = 1
SPECIFICATION Spec
INVARIANTS FetchRight StoreSound EvictsInOrder
PROPERTY Fetched
