SPECIFICATION FairSpec
CONSTANTS
  Alerts = {a1, a2}
  Procs = {api, watcher}
  Api = api
  Admins = {m1, m2}
  Scheduler = scheduler
  Workers = 1
  SIEM_RETRIES = 2
  MaxReplays = 2
  MaxFaults = 1
INVARIANTS
  TypeOK
  DeliveriesAddUp
  SentMeansReceived
  ReplayedIsAskedFor
PROPERTIES
  RowsAreFinal
  PoolsDrain
