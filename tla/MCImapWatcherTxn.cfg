SPECIFICATION Spec
CONSTANTS
  Policies <- MCPolicies
  Blocked = {"known_bad"}
  SiemMinScore = 40
  Boxes = {"alice", "bob"}
  Msgs = {1, 2, 3, 4}
  BoxOf <- MCBoxOf
  Backlog = {1, 2, 3}
  Signed = {4}
  Detections <- MCDetections
  None = None
  MaxFails = 1
  MaxTouches = 1
INVARIANT IngestIsOneTransaction
