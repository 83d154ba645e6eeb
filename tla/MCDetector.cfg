SPECIFICATION Spec
CONSTANTS
  lookalike = lookalike
  punycode = punycode
  shared = shared
  listed = listed
  NoUrl = NoUrl
  None = None
  Host <- MCHost
  Lures = {"voicemail", "vendor_bank_change"}
  Brands = {"microsoft365"}
  HighValueLures = {"vendor_bank_change"}
  Generic = "generic_vendor"
  Techniques <- MCTechniques
  Mails <- MCMails
  OtherUrls <- MCOtherUrls
  WhoisAges <- MCAges
  Answers <- MCAnswers
  MlScores = {0, 90}
  Risks = {50}
  Files <- MCFiles
  Reputations <- MCReputations
  Policies <- MCPolicies
  Blocked = {listed}
  SiemMinScore = 40
INVARIANTS
  TypeOK
  DecisiveSignalsHold
  ModelOnlyRaises
  FastPathAgrees
  OfflineAgrees
  LabelFollowsVerdict
  AllowedIsExplained
CHECK_DEADLOCK FALSE
