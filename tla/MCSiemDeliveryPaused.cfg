SPECIFICATION FairSpec
CONSTANTS
  Alerts = {a1}
  Procs = {api}
  Api = api
  Admins = {}
  Scheduler = scheduler
  Workers = 1
  SIEM_RETRIES = 2
  MaxReplays = 1
  MaxFaults = 0
PROPERTY FailedIsResent
