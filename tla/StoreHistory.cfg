SPECIFICATION Safety
CONSTANTS
  Subjects = {node, disk}
  Disks = {disk}
  Writers = {pve}
  Tables <- MCTables
  TableOf <- MCTableOf
  Retention <- MCRetention
  Writes <- MCWrites
  Phase <- MCPhase
  HistoryHours = 3
  PruneEvery = 2
  Broken = {}
  Old = 4
  MaxLag = 1
  MaxFaults = 0
  MaxCrashes = 0
PROPERTY HistoryHoursKept
