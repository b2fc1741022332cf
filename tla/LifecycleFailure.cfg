CONSTANTS
  cluster = cluster
  ssh = ssh
  pbs = pbs
  named = named
  alerter = alerter
  req = req
  Pves = {cluster}
  Pbss = {}
  Named = {}
  Sshs = {}
  Workers = {alerter}
  Requests = {req}
  PoolSize = 1
  MaxNodes = 2
SPECIFICATION FairSpec
CHECK_DEADLOCK FALSE
PROPERTIES
  FailureEndsProcess
