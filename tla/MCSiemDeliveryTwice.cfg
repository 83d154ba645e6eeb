SPECIFICATION Spec
CONSTANTS
  Alerts = {a1}
  Procs = {api}
  Api = api
  Admins = {m1, m2}
  Scheduler = scheduler
  Workers = 1
  SIEM_RETRIES = 2
  MaxReplays = 2
  MaxFaults = 0
INVARIANT SecondCallSendsNothing
