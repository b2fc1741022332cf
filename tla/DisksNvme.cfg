CONSTANTS
  n1 = n1
  n2 = n2
  mute = mute
  hba = hba
  nvme = nvme
  Nodes = {n1, n2}
  Drives = {mute, hba, nvme}
  Nvme = {nvme}
  NodeOf <- MCNodeOf
  Ident <- MCIdent
  Wears <- MCWears
  Speaks <- MCSpeaks
  Rejects <- MCRejects
  Readings <- MCReadings
  Interval = 2
  MaxFaults = 0
SPECIFICATION Spec
INVARIANT AtaRatesForAtaOnly
