SPECIFICATION Spec
CONSTANTS
  w1 = w1
  w2 = w2
  r1 = r1
  r2 = r2
  r3 = r3
  MaxFaults = 1
  Workers = {w1, w2}
  Versions = {1, 2}
  Seeds <- MCSeeds
  NoSecret = NoSecret
  Users = {1, 2, 3}
  First = 1
  None = None
  MaxChanges = 5
  Requests = {r1, r2, r3}
  Processes = {w1, w2}
  SecretOf <- MCSecretOf
  Tokens = {1, 2, 3}
  NoToken = NoToken
PROPERTY RevokedIsRefused
CHECK_DEADLOCK FALSE
