CONSTANTS
  d1 = d1
  d2 = d2
  Datastores = {d1, d2}
  NoAudit = {d2}
  Groups <- MCGroups
  Window = 1
  Limit = 1
  Old = 2
  MaxBackups = 2
  MaxFaults = 1
SPECIFICATION FairSpec
INVARIANTS
  TypeOK
  BackupsHaveDatastores
PROPERTIES
  NothingHidden
  NothingInvented
  TasksStay
  CacheConverges
