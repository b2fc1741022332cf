CONSTANTS
  cluster = cluster
  ssh = ssh
  pbs = pbs
  named = named
  alerter = alerter
  req = req
  Pves = {cluster}
  Pbss = {pbs, named}
  Named = {named}
  Sshs = {}
  Workers = {alerter}
  Requests = {req}
  PoolSize = 2
  MaxNodes = 3
SPECIFICATION FairSpec
CHECK_DEADLOCK FALSE
INVARIANT TypeOK
PROPERTIES
  PollsDoNotMix
  KeepsPromise
  ShutdownCompletes
  FailureStopsAll
