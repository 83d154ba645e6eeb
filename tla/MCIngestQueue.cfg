SPECIFICATION FairSpec
CONSTANTS
  Reqs = {r1, r2}
  Consumers = {c1, c2}
  None = None
  MaxFaults = 2
INVARIANT TypeOK
PROPERTIES
  ImplementsPromise
  FinalStatusSticks
  AcceptedIsSettled
