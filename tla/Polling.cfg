CONSTANTS
  cluster = cluster
  host = host
  n1 = n1
  n2 = n2
  n3 = n3
  ct = ct
  vm = vm
  Nowhere = Nowhere
  Instances = {cluster, host}
  Nodes = {n1, n2, n3}
  Home <- MCHome
  InstanceOf <- MCInstanceOf
  Guests = {ct}
  Lxc = {ct}
  PoolSize = 1
  MaxFaults = 1
  MaxMoves = 1
SPECIFICATION FairSpec
INVARIANTS TypeOK GuestsHaveNodes
PROPERTIES
  NoGhostGuests
  SteadyGuestsPublished
  CacheConverges
  EveryInstancePolled
