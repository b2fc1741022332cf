SPECIFICATION Spec
CONSTANTS
  Subjects = {node, disk}
  Disks = {disk}
  Writers = {pve}
  Tables <- MCTables
  TableOf <- MCTableOf
  Retention <- MCRetention
  Writes <- MCWrites
  Phase <- MCPhase
  HistoryHours = 2
  PruneEvery = 2
  Broken = {2}
  Old = 6
  MaxLag = 1
  MaxFaults = 1
  MaxCrashes = 1
INVARIANTS TypeOK SmartRowsHaveDisk TablesBounded
PROPERTIES KeepsHistory OldRowsGo
