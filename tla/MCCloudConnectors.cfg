SPECIFICATION FairSpec
CONSTANTS
  p1 = p1
  p2 = p2
  None = None
  Procs = {p1, p2}
  HostOf <- MCHostOf
  Ttl = 2
  MaxFaults = 1
  Workers = {p1, p2}
  Secrets = {"s1", "s2"}
  SecretOf <- MCSecretOf
  People = {"alice"}
  Campaigns = {"drill"}
  LauncherOf <- MCLauncherOf
  Msgs = {1, 2, 3}
  BoxOf <- MCBoxOf
  CampaignOf <- MCCampaignOf
  Threats = {1, 3}
  Poison = {2}
  Gmail = {"alice"}
  Window = 2
INVARIANTS
  TypeOK
  OneWatcher
  StoredOnce
  SeenIsAccountedFor
  PlacementMatchesVerdict
  SimulationsAreSpared
PROPERTIES
  SlotIsTaken
  EveryMailIsConsidered
